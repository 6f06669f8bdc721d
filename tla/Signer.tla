------------------------------- MODULE Signer -------------------------------
(***************************************************************************)
(* The two MCP tools on top of the vault: sign_transaction                 *)
(* (makeSignTransactionHandler and Signer.SignTransaction) and get_address *)
(* (makeGetAddressHandler). The vault's own steps are those of             *)
(* FileKeyVault; this module adds validation, the signing callback, the    *)
(* audit line, the panic recovery and the reply.                           *)
(***************************************************************************)
EXTENDS Naturals, FiniteSets

CONSTANTS Calls, Passwords, RightPw, Unreadable, Zeroed, Addresses, KeyAddr, NoAddr

(* What the vault asks of its parameters.                                  *)
ASSUME SignerAssumption ==
  /\ RightPw \in Passwords
  /\ Unreadable \notin Passwords
  /\ Zeroed \notin Passwords
  /\ KeyAddr \in Addresses
  /\ NoAddr \notin Addresses

VARIABLES pc, sem, waitq, cancelled, pwFile, snapshot, addr, pwBuf, liveKeys, out, seen

VARIABLES
  stage,     \* where the handler of each call is
  verdict,   \* what validate() says of each call's request
  sender,    \* signResult.From of each call, NoAddr while signResult is nil
  reply,     \* what the handler of each call returns
  audit,     \* per call, the audit lines logged for its request
  told,      \* history: the From of results and answers of get_address sent
  known,     \* what get_address last answered, NoAddr for address_unknown
  signed     \* history: some WithSigningKey has returned nil

vaultVars  == <<pc, sem, waitq, cancelled, pwFile, snapshot, addr, pwBuf, liveKeys, out, seen>>
signerVars == <<stage, verdict, sender, reply, audit, told, known, signed>>
vars == <<vaultVars, signerVars>>

Vault == INSTANCE FileKeyVault

(* validate() accepts a request or answers it with one of these codes.     *)
Verdicts == {"valid", "invalid_input", "unsupported_type", "chain_id_mismatch"}
ErrorCodes == (Verdicts \ {"valid"}) \cup {"password_error", "internal_error"}
Replies == ErrorCodes \cup {"none", "result", "json_rpc_error"}

Init ==
  /\ Vault!Init
  /\ stage = [c \in Calls |-> "idle"]
  /\ verdict = [c \in Calls |-> "valid"]
  /\ sender = [c \in Calls |-> NoAddr]
  /\ reply = [c \in Calls |-> "none"]
  /\ audit = [c \in Calls |-> 0]
  /\ told = {}
  /\ known = NoAddr
  /\ signed = FALSE

-----------------------------------------------------------------------------
(* sign_transaction.                                                       *)

Receive(c, v) ==
  /\ stage[c] = "idle"
  /\ stage' = [stage EXCEPT ![c] = "validate"]
  /\ verdict' = [verdict EXCEPT ![c] = v]
  /\ UNCHANGED <<vaultVars, sender, reply, audit, told, known, signed>>

(* A refused request is answered at once; the vault is never entered.      *)
Refuse(c) ==
  /\ stage[c] = "validate"
  /\ verdict[c] # "valid"
  /\ reply' = [reply EXCEPT ![c] = verdict[c]]
  /\ stage' = [stage EXCEPT ![c] = "answered"]
  /\ UNCHANGED <<vaultVars, verdict, sender, audit, told, known, signed>>

(* buildTx, then WithSigningKey.                                           *)
EnterVault(c) ==
  /\ stage[c] = "validate"
  /\ verdict[c] = "valid"
  /\ Vault!Start(c)
  /\ stage' = [stage EXCEPT ![c] = "vault"]
  /\ UNCHANGED <<verdict, sender, reply, audit, told, known, signed>>

VaultStep(c) == Vault!Step(c) /\ UNCHANGED signerVars

(* Fault: the recovered sender is not compared with the vault's address.   *)
Callback_noSenderCheck(c) ==
  /\ \/ /\ Vault!RunFn(c, "fnOk")
        /\ sender' = [sender EXCEPT ![c] = KeyAddr]
     \/ /\ \E failure \in {"fnErr", "panic"} : Vault!RunFn(c, failure)
        /\ UNCHANGED sender
  /\ UNCHANGED <<stage, verdict, reply, audit, told, known, signed>>

(* The closure passed to WithSigningKey. The sender recovered from a       *)
(* signature is the address of the key that made it. Signing, encoding and *)
(* recovery may fail or panic before signResult is assigned.               *)
Callback(c) ==
  /\ \/ /\ addr = KeyAddr
        /\ Vault!RunFn(c, "fnOk")
        /\ sender' = [sender EXCEPT ![c] = KeyAddr]
     \/ /\ \E failure \in {"fnErr", "panic"} : Vault!RunFn(c, failure)
        /\ UNCHANGED sender
  /\ UNCHANGED <<stage, verdict, reply, audit, told, known, signed>>

(* Fault: the audit line is written whatever WithSigningKey returned.      *)
Finish_auditsFailures(c) ==
  /\ stage[c] = "vault"
  /\ pc[c] = "done"
  /\ audit' = [audit EXCEPT ![c] = @ + 1]
  /\ reply' = [reply EXCEPT ![c] = IF out[c] = "fnOk" THEN "result" ELSE "internal_error"]
  /\ signed' = (signed \/ out[c] = "fnOk")
  /\ stage' = [stage EXCEPT ![c] = "answered"]
  /\ UNCHANGED <<vaultVars, verdict, sender, told, known>>

(* Fault: no recover() in SignTransaction; the goroutine dies.             *)
Finish_noRecover(c) ==
  /\ stage[c] = "vault"
  /\ pc[c] = "done"
  /\ out[c] # "panic"
  /\ reply' = [reply EXCEPT ![c] = IF out[c] = "fnOk" THEN "result" ELSE "internal_error"]
  /\ audit' = [audit EXCEPT ![c] = IF out[c] = "fnOk" THEN @ + 1 ELSE @]
  /\ signed' = (signed \/ out[c] = "fnOk")
  /\ stage' = [stage EXCEPT ![c] = "answered"]
  /\ UNCHANGED <<vaultVars, verdict, sender, told, known>>

(* Fault: the callback's own errors are passed on as they are.             *)
ReplyTo_unmapped(outcome) ==
  CASE outcome = "fnOk" -> "result"
    [] outcome = "ctxErr" -> "json_rpc_error"
    [] outcome = "panic" -> "internal_error"
    [] outcome \in {"password_error", "internal_error", "fnErr"} -> outcome

(* Fault: the handler finds no ToolError in the errors of the vault.       *)
ReplyTo_notToolErrors(outcome) ==
  CASE outcome = "fnOk" -> "result"
    [] outcome = "panic" -> "internal_error"
    [] outcome \in {"ctxErr", "password_error", "internal_error", "fnErr"} -> "json_rpc_error"

(* What SignTransaction and the handler make of WithSigningKey's outcome.  *)
(* Every callback error and a recovered panic are internal_error; an error *)
(* that is no ToolError (ctx.Err()) becomes a JSON-RPC error.              *)
ReplyTo(outcome) ==
  CASE outcome = "fnOk" -> "result"
    [] outcome = "ctxErr" -> "json_rpc_error"
    [] outcome = "password_error" -> "password_error"
    [] outcome \in {"internal_error", "fnErr", "panic"} -> "internal_error"

Finish(c) ==
  /\ stage[c] = "vault"
  /\ pc[c] = "done"
  /\ reply' = [reply EXCEPT ![c] = ReplyTo(out[c])]
  /\ audit' = [audit EXCEPT ![c] = IF out[c] = "fnOk" THEN @ + 1 ELSE @]
  /\ signed' = (signed \/ out[c] = "fnOk")
  /\ stage' = [stage EXCEPT ![c] = "answered"]
  /\ UNCHANGED <<vaultVars, verdict, sender, told, known>>

(* The transport delivers the reply, unless the client has gone; a request *)
(* that reached the vault gives its identity back through Collect.         *)
Deliver(c) ==
  /\ stage[c] = "answered"
  /\ told' = IF reply[c] = "result" /\ c \notin cancelled THEN told \cup {sender[c]} ELSE told
  /\ IF pc[c] = "done" THEN Vault!Collect(c)
     ELSE /\ cancelled' = cancelled \ {c}
          /\ UNCHANGED <<pc, sem, waitq, pwFile, snapshot, addr, pwBuf, liveKeys, out, seen>>
  /\ stage' = [stage EXCEPT ![c] = "idle"]
  /\ verdict' = [verdict EXCEPT ![c] = "valid"]
  /\ sender' = [sender EXCEPT ![c] = NoAddr]
  /\ reply' = [reply EXCEPT ![c] = "none"]
  /\ audit' = [audit EXCEPT ![c] = 0]
  /\ UNCHANGED <<known, signed>>

-----------------------------------------------------------------------------
(* get_address, and the environment.                                       *)

(* Fault: the address is guarded by the semaphore and given up on when a   *)
(* call holds it.                                                          *)
GetAddress_tryLock ==
  /\ known' = IF sem = 0 THEN addr ELSE NoAddr
  /\ told' = IF known' = NoAddr THEN told ELSE told \cup {known'}
  /\ UNCHANGED <<vaultVars, stage, verdict, sender, reply, audit, signed>>

(* One atomic load of the address pointer.                                 *)
GetAddress ==
  /\ known' = addr
  /\ told' = IF addr = NoAddr THEN told ELSE told \cup {addr}
  /\ UNCHANGED <<vaultVars, stage, verdict, sender, reply, audit, signed>>

ClientGone(c) ==
  /\ stage[c] # "idle"
  /\ Vault!Cancel(c)
  /\ UNCHANGED signerVars

Rotate == (\E content \in Vault!Contents : Vault!WritePasswordFile(content)) /\ UNCHANGED signerVars

-----------------------------------------------------------------------------

Handle(c) ==
  \/ Refuse(c) \/ EnterVault(c) \/ VaultStep(c) \/ Callback(c) \/ Finish(c)

Next ==
  \/ \E c \in Calls :
       \/ \E v \in Verdicts : Receive(c, v)
       \/ Handle(c) \/ Deliver(c) \/ ClientGone(c)
  \/ GetAddress
  \/ Rotate

Spec == Init /\ [][Next]_vars

(* The goroutine of each handler runs; clients and the operator are free.  *)
FairSpec == Spec /\ \A c \in Calls : WF_vars(Handle(c))

-----------------------------------------------------------------------------
(* Properties.                                                             *)

(* Every variable has its type.                                            *)
TypeOK ==
  /\ Vault!TypeOK
  /\ stage \in [Calls -> {"idle", "validate", "vault", "answered"}]
  /\ verdict \in [Calls -> Verdicts]
  /\ sender \in [Calls -> Addresses \cup {NoAddr}]
  /\ reply \in [Calls -> Replies]
  /\ audit \in [Calls -> 0..1]
  /\ told \subseteq Addresses
  /\ known \in Addresses \cup {NoAddr}
  /\ signed \in BOOLEAN

(* The addresses given out as the account's agree: the From of every       *)
(* signature and every answer of get_address, before and after discovery,  *)
(* whatever address the keystore declares. The text of a refusal is not    *)
(* among them: where the keystore declares an address that is not its      *)
(* key's, the sender mismatch names both (signer.go:192-203).              *)
OneAddress == Cardinality(told) <= 1

(* A signature made in the callback, however its client fares meanwhile,   *)
(* is audited exactly once and is the reply; no other request leaves an    *)
(* audit line or a result, not even one that panicked while signing.       *)
SignaturesAreAudited ==
  \A c \in Calls : stage[c] = "answered" =>
    /\ reply[c] = "result" <=> sender[c] # NoAddr
    /\ audit[c] = IF sender[c] # NoAddr THEN 1 ELSE 0

(* Once either tool has given out the account's address, get_address       *)
(* answers with it, never with address_unknown, also while calls decrypt.  *)
KnownOnceTold == [][GetAddress /\ told # {} => known' \in told]_vars

(* Every request is answered: rejected, failed, panicking or cancelled     *)
(* ones, and those behind them in the queue.                               *)
EveryRequestAnswered == \A c \in Calls : stage[c] = "validate" ~> stage[c] = "answered"

(* What a client can know of a request: a signature exists as soon as      *)
(* signResult is assigned.                                                 *)
RequestOf(c) ==
  CASE stage[c] = "idle" -> "idle"
    [] stage[c] = "answered" -> "answered"
    [] stage[c] \in {"validate", "vault"} -> IF sender[c] = NoAddr THEN "open" ELSE "signed"

Tools == INSTANCE SigningTools
         WITH request <- [c \in Calls |-> RequestOf(c)], account <- addr, gone <- cancelled

(* Whatever the vault goes through for a request, its client sees one of   *)
(* these: a refusal with a code of sign_transaction, and nothing signed; a *)
(* signature by the one account the process speaks for, which is always    *)
(* audited once and answered; or a JSON-RPC error, after giving up.        *)
ImplementsTools == Tools!Spec

(* errors.go:35-40 gives address_unknown as what get_address answers when   *)
(* the keystore declares no address and "WithSigningKey has not yet        *)
(* completed successfully". The code publishes the address as soon as the  *)
(* keystore is decrypted, before the callback has run.                     *)
UnknownUntilSigned == addr = NoAddr => [](signed \/ known = NoAddr)
=============================================================================
