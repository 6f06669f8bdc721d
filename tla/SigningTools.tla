---------------------------- MODULE SigningTools ----------------------------
(***************************************************************************)
(* What the two tools are to an MCP client, with no vault, semaphore,      *)
(* password or panic: a request is refused with one of the codes of        *)
(* sign_transaction, or it is signed by the account's key and then         *)
(* answered and audited; a JSON-RPC error is only for clients that gave    *)
(* up; both tools speak of one account, which is learned while a request   *)
(* is open, if the keystore does not declare it.                           *)
(***************************************************************************)
EXTENDS Naturals

CONSTANTS Calls, Addresses, KeyAddr, NoAddr

VARIABLES
  request,  \* idle, open, signed, answered
  reply,    \* what each request is answered with, "none" before
  audit,    \* per request, its audit lines
  account,  \* the account the process speaks for
  gone,     \* the requests whose client has given up
  told,     \* the addresses a client has been given as the account's
  known     \* what get_address last answered, NoAddr for address_unknown

vars == <<request, reply, audit, account, gone, told, known>>

Refusals == {"invalid_input", "unsupported_type", "chain_id_mismatch",
             "password_error", "internal_error"}

Init ==
  /\ request = [c \in Calls |-> "idle"]
  /\ reply = [c \in Calls |-> "none"]
  /\ audit = [c \in Calls |-> 0]
  /\ account \in Addresses \cup {NoAddr}
  /\ gone = {}
  /\ told = {}
  /\ known = NoAddr

Move(c, from, to) == request[c] = from /\ request' = [request EXCEPT ![c] = to]

Receive(c) == Move(c, "idle", "open") /\ UNCHANGED <<reply, audit, account, gone, told, known>>

Learn(c) ==
  /\ request[c] = "open"
  /\ account = NoAddr
  /\ account' = KeyAddr
  /\ UNCHANGED <<request, reply, audit, gone, told, known>>

Refuse(c) ==
  /\ Move(c, "open", "answered")
  /\ \/ \E code \in Refusals : reply' = [reply EXCEPT ![c] = code]
     \/ c \in gone /\ reply' = [reply EXCEPT ![c] = "json_rpc_error"]
  /\ UNCHANGED <<audit, account, gone, told, known>>

(* No signature under an account that is not the key's.                    *)
Sign(c) ==
  /\ account = KeyAddr
  /\ Move(c, "open", "signed")
  /\ UNCHANGED <<reply, audit, account, gone, told, known>>

Answer(c) ==
  /\ Move(c, "signed", "answered")
  /\ reply' = [reply EXCEPT ![c] = "result"]
  /\ audit' = [audit EXCEPT ![c] = @ + 1]
  /\ UNCHANGED <<account, gone, told, known>>

Deliver(c) ==
  /\ Move(c, "answered", "idle")
  /\ told' = IF reply[c] = "result" /\ c \notin gone THEN told \cup {account} ELSE told
  /\ reply' = [reply EXCEPT ![c] = "none"]
  /\ audit' = [audit EXCEPT ![c] = 0]
  /\ gone' = gone \ {c}
  /\ UNCHANGED <<account, known>>

ClientGone(c) ==
  /\ request[c] # "idle"
  /\ gone' = gone \cup {c}
  /\ UNCHANGED <<request, reply, audit, account, told, known>>

GetAddress ==
  /\ known' = account
  /\ told' = told \cup ({account} \ {NoAddr})
  /\ UNCHANGED <<request, reply, audit, account, gone>>

Next ==
  \/ \E c \in Calls :
       \/ Receive(c) \/ Learn(c) \/ Refuse(c) \/ Sign(c) \/ Answer(c)
       \/ Deliver(c) \/ ClientGone(c)
  \/ GetAddress

Spec == Init /\ [][Next]_vars
=============================================================================
