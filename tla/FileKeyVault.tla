---------------------------- MODULE FileKeyVault ----------------------------
(***************************************************************************)
(* The file-backed key vault of eth-signer-mcp: every step of              *)
(* fileKeyVault.WithSigningKey (internal/signing/decrypt.go) for a set of  *)
(* concurrent calls, against an operator who rotates the password file and *)
(* clients who cancel at any moment.                                       *)
(*                                                                         *)
(* A call is at one place of WithSigningKey:                               *)
(*   idle      no call                                                     *)
(*   select    about to run the select on v.sem and ctx.Done()             *)
(*   queued    blocked in that select, in v.sem's FIFO queue of senders    *)
(*   recheck   holds v.sem, about to look at ctx.Err() again               *)
(*   read      about to read the password file                             *)
(*   decrypt   holds the password, about to run the KDF                    *)
(*   discover  holds the key, about to publish its address                 *)
(*   fn        inside the caller's callback                                *)
(*   zeroKey, zeroPw, release   unwinding through the deferred calls       *)
(*   done      WithSigningKey has returned, or has panicked                *)
(***************************************************************************)
EXTENDS Integers, Sequences, SequencesExt

CONSTANTS
  Calls,        \* identities of concurrent WithSigningKey calls, each reused
  Passwords,    \* contents the password file may have, line ends stripped
  RightPw,      \* the one that opens the keystore
  Unreadable,   \* the password file is missing or cannot be read
  Zeroed,       \* a buffer that holds no password: not yet read, or wiped
  Addresses,    \* account addresses
  KeyAddr,      \* the address of the key inside the keystore
  NoAddr        \* the nil address pointer

ASSUME FileKeyVaultAssumption ==
  /\ RightPw \in Passwords
  /\ Unreadable \notin Passwords
  /\ Zeroed \notin Passwords
  /\ KeyAddr \in Addresses
  /\ NoAddr \notin Addresses

VARIABLES
  pc,         \* where each call is
  sem,        \* Len(v.sem): the tokens in the semaphore channel, capacity 1
  waitq,      \* the senders blocked on v.sem, longest waiting first
  cancelled,  \* the calls whose ctx.Err() is not nil
  pwFile,     \* what reading the password file gives now
  snapshot,   \* the condition of the boot-time keystore JSON
  addr,       \* v.address
  pwBuf,      \* each call's passwordBytes
  liveKeys,   \* the calls whose key.PrivateKey.D is not zeroed
  out,        \* how each call is to return
  seen        \* history, read by no action: what pwFile was since admission

vars == <<pc, sem, waitq, cancelled, pwFile, snapshot, addr, pwBuf, liveKeys,
          out, seen>>

Waiting  == {"select", "queued", "recheck"}
Working  == {"read", "decrypt", "discover", "fn"}
Closing  == {"zeroKey", "zeroPw", "release"}
Admitted == Working \cup Closing
Places   == Waiting \cup Admitted \cup {"idle", "done"}
Holds(c) == pc[c] \in Admitted \cup {"recheck"}   \* c's token is in v.sem

Contents == Passwords \cup {Unreadable}

(* sound: decrypts under the right password. macBroken: the MAC fails under *)
(* every password. unusable: valid shape, but DecryptKey cannot process it. *)
Snapshots == {"sound", "macBroken", "unusable"}

FnOutcomes == {"fnOk", "fnErr", "panic"}
Outcomes   == FnOutcomes \cup {"none", "ctxErr", "password_error", "internal_error"}

Init ==
  /\ pc = [c \in Calls |-> "idle"]
  /\ sem = 0
  /\ waitq = << >>
  /\ cancelled = {}
  /\ pwFile \in Contents
  /\ snapshot \in Snapshots
  /\ addr \in Addresses \cup {NoAddr}   \* the declared address, or none
  /\ pwBuf = [c \in Calls |-> Zeroed]
  /\ liveKeys = {}
  /\ out = [c \in Calls |-> "none"]
  /\ seen = [c \in Calls |-> {}]

-----------------------------------------------------------------------------
(* Acquiring the semaphore.                                                *)

Goto(c, place) == pc' = [pc EXCEPT ![c] = place]

Start(c) ==
  /\ pc[c] = "idle"
  /\ Goto(c, "select")
  /\ UNCHANGED <<sem, waitq, cancelled, pwFile, snapshot, addr, pwBuf, liveKeys,
                 out, seen>>

(* Fault: a semaphore of capacity 2.                                       *)
Acquire_capacity2(c) ==
  /\ pc[c] = "select"
  /\ sem < 2
  /\ sem' = sem + 1
  /\ Goto(c, "recheck")
  /\ UNCHANGED <<waitq, cancelled, pwFile, snapshot, addr, pwBuf, liveKeys, out,
                 seen>>

(* The send goes through at once: the channel has room. A cancelled call   *)
(* may get here too, for select picks at random among its ready cases.     *)
Acquire(c) ==
  /\ pc[c] = "select"
  /\ sem < 1
  /\ sem' = sem + 1
  /\ Goto(c, "recheck")
  /\ UNCHANGED <<waitq, cancelled, pwFile, snapshot, addr, pwBuf, liveKeys, out,
                 seen>>

Enqueue(c) ==
  /\ pc[c] = "select"
  /\ sem = 1
  /\ c \notin cancelled
  /\ waitq' = Append(waitq, c)
  /\ Goto(c, "queued")
  /\ UNCHANGED <<sem, cancelled, pwFile, snapshot, addr, pwBuf, liveKeys, out,
                 seen>>

(* Fault: ctx.Done() is looked at before blocking, not in the select.      *)
GiveUp_notWhileBlocked(c) ==
  /\ pc[c] = "select"
  /\ c \in cancelled
  /\ Goto(c, "done")
  /\ out' = [out EXCEPT ![c] = "ctxErr"]
  /\ UNCHANGED <<sem, waitq, cancelled, pwFile, snapshot, addr, pwBuf, liveKeys, seen>>

(* The ctx.Done() case of the select: nothing was acquired.                *)
GiveUp(c) ==
  /\ c \in cancelled
  /\ \/ /\ pc[c] = "select"
        /\ UNCHANGED waitq
     \/ \E i \in DOMAIN waitq :
          /\ waitq[i] = c
          /\ waitq' = RemoveAt(waitq, i)
  /\ Goto(c, "done")
  /\ out' = [out EXCEPT ![c] = "ctxErr"]
  /\ UNCHANGED <<sem, cancelled, pwFile, snapshot, addr, pwBuf, liveKeys, seen>>

(* `<-v.sem' by a call that returns. With senders blocked, the runtime     *)
(* hands the freed slot to the first of them: the channel stays full.      *)
ReleaseAndReturn(c) ==
  \/ /\ waitq = << >>
     /\ sem > 0
     /\ sem' = sem - 1
     /\ Goto(c, "done")
     /\ UNCHANGED waitq
  \/ /\ waitq # << >>
     /\ pc' = [pc EXCEPT ![c] = "done", ![Head(waitq)] = "recheck"]
     /\ waitq' = Tail(waitq)
     /\ UNCHANGED sem

(* Fault: the early return after the recheck forgets `<-v.sem'.            *)
RecheckFails_leaks(c) ==
  /\ pc[c] = "recheck"
  /\ c \in cancelled
  /\ Goto(c, "done")
  /\ out' = [out EXCEPT ![c] = "ctxErr"]
  /\ UNCHANGED <<sem, waitq, cancelled, pwFile, snapshot, addr, pwBuf, liveKeys, seen>>

RecheckFails(c) ==
  /\ pc[c] = "recheck"
  /\ c \in cancelled
  /\ ReleaseAndReturn(c)
  /\ out' = [out EXCEPT ![c] = "ctxErr"]
  /\ UNCHANGED <<cancelled, pwFile, snapshot, addr, pwBuf, liveKeys, seen>>

(* Fault: no second look at ctx.Err().                                     *)
Recheck_skipped(c) ==
  /\ pc[c] = "recheck"
  /\ Goto(c, "read")
  /\ seen' = [seen EXCEPT ![c] = {pwFile}]
  /\ UNCHANGED <<sem, waitq, cancelled, pwFile, snapshot, addr, pwBuf, liveKeys,
                 out>>

Recheck(c) ==
  /\ pc[c] = "recheck"
  /\ c \notin cancelled
  /\ Goto(c, "read")
  /\ seen' = [seen EXCEPT ![c] = {pwFile}]
  /\ UNCHANGED <<sem, waitq, cancelled, pwFile, snapshot, addr, pwBuf, liveKeys,
                 out>>

-----------------------------------------------------------------------------
(* With the semaphore held: password, key, callback.                       *)

(* Fault: the error of the read is dropped.                                *)
ReadPassword_errorDropped(c) ==
  /\ pc[c] = "read"
  /\ pwBuf' = [pwBuf EXCEPT ![c] = pwFile]
  /\ Goto(c, "decrypt")
  /\ UNCHANGED <<sem, waitq, cancelled, pwFile, snapshot, addr, liveKeys, out, seen>>

(* Fault: the password of an earlier successful call is kept and used.     *)
ReadPassword_cached(c) ==
  /\ pc[c] = "read"
  /\ pwBuf' = [pwBuf EXCEPT ![c] =
                IF \E d \in Calls : out[d] = "fnOk" THEN RightPw ELSE pwFile]
  /\ pwBuf'[c] # Unreadable
  /\ Goto(c, "decrypt")
  /\ UNCHANGED <<sem, waitq, cancelled, pwFile, snapshot, addr, liveKeys, out, seen>>

ReadPassword(c) ==
  /\ pc[c] = "read"
  /\ \/ /\ pwFile = Unreadable
        /\ out' = [out EXCEPT ![c] = "password_error"]
        /\ Goto(c, "release")      \* ZeroBytes is not deferred yet
        /\ UNCHANGED pwBuf
     \/ /\ pwFile # Unreadable
        /\ pwBuf' = [pwBuf EXCEPT ![c] = pwFile]
        /\ Goto(c, "decrypt")
        /\ UNCHANGED out
  /\ UNCHANGED <<sem, waitq, cancelled, pwFile, snapshot, addr, liveKeys, seen>>

(* gokeystore.DecryptKey, by what its callers distinguish: a key, the MAC  *)
(* failure ErrDecrypt, another error, or a panic on a malformed snapshot.  *)
DecryptKey(pw) ==
  CASE snapshot = "sound"     -> IF pw = RightPw THEN {"key"} ELSE {"ErrDecrypt"}
    [] snapshot = "macBroken" -> {"ErrDecrypt"}
    [] snapshot = "unusable"  -> IF pw = RightPw THEN {"otherErr", "panic"}
                                 ELSE {"ErrDecrypt", "otherErr", "panic"}

DecryptOutcome(failure) ==
  CASE failure = "ErrDecrypt" -> "password_error"
    [] failure = "otherErr"   -> "internal_error"
    [] failure = "panic"      -> "panic"

(* Fault: ZeroBytes is deferred only once DecryptKey has succeeded.        *)
Decrypt_deferTooLate(c) ==
  /\ pc[c] = "decrypt"
  /\ \/ /\ "key" \in DecryptKey(pwBuf[c])
        /\ liveKeys' = liveKeys \cup {c}
        /\ Goto(c, "discover")
        /\ UNCHANGED out
     \/ \E failure \in DecryptKey(pwBuf[c]) \ {"key"} :
          /\ out' = [out EXCEPT ![c] = DecryptOutcome(failure)]
          /\ Goto(c, "release")
          /\ UNCHANGED liveKeys
  /\ UNCHANGED <<sem, waitq, cancelled, pwFile, snapshot, addr, pwBuf, seen>>

Decrypt(c) ==
  /\ pc[c] = "decrypt"
  /\ \/ /\ "key" \in DecryptKey(pwBuf[c])
        /\ liveKeys' = liveKeys \cup {c}
        /\ Goto(c, "discover")
        /\ UNCHANGED out
     \/ \E failure \in DecryptKey(pwBuf[c]) \ {"key"} :
          /\ out' = [out EXCEPT ![c] = DecryptOutcome(failure)]
          /\ Goto(c, "zeroPw")     \* only ZeroBytes is deferred so far
          /\ UNCHANGED liveKeys
  /\ UNCHANGED <<sem, waitq, cancelled, pwFile, snapshot, addr, pwBuf, seen>>

(* Fault: Store instead of CompareAndSwap.                                 *)
Discover_store(c) ==
  /\ pc[c] = "discover"
  /\ addr' = KeyAddr
  /\ Goto(c, "fn")
  /\ UNCHANGED <<sem, waitq, cancelled, pwFile, snapshot, pwBuf, liveKeys, out,
                 seen>>

(* v.address.CompareAndSwap(nil, &discovered), before the callback runs.   *)
Discover(c) ==
  /\ pc[c] = "discover"
  /\ addr' = IF addr = NoAddr THEN KeyAddr ELSE addr
  /\ Goto(c, "fn")
  /\ UNCHANGED <<sem, waitq, cancelled, pwFile, snapshot, pwBuf, liveKeys, out,
                 seen>>

(* The caller's callback returns nil, returns an error, or panics.         *)
RunFn(c, result) ==
  /\ pc[c] = "fn"
  /\ result \in FnOutcomes
  /\ out' = [out EXCEPT ![c] = result]
  /\ Goto(c, "zeroKey")
  /\ UNCHANGED <<sem, waitq, cancelled, pwFile, snapshot, addr, pwBuf, liveKeys,
                 seen>>

-----------------------------------------------------------------------------
(* The deferred calls, last registered first; a panic runs them too.       *)

ZeroKey(c) ==
  /\ pc[c] = "zeroKey"
  /\ liveKeys' = liveKeys \ {c}
  /\ Goto(c, "zeroPw")
  /\ UNCHANGED <<sem, waitq, cancelled, pwFile, snapshot, addr, pwBuf, out, seen>>

ZeroPassword(c) ==
  /\ pc[c] = "zeroPw"
  /\ pwBuf' = [pwBuf EXCEPT ![c] = Zeroed]
  /\ Goto(c, "release")
  /\ UNCHANGED <<sem, waitq, cancelled, pwFile, snapshot, addr, liveKeys, out, seen>>

Release(c) ==
  /\ pc[c] = "release"
  /\ ReleaseAndReturn(c)
  /\ seen' = [seen EXCEPT ![c] = {}]
  /\ UNCHANGED <<cancelled, pwFile, snapshot, addr, pwBuf, liveKeys, out>>

-----------------------------------------------------------------------------
(* The environment.                                                        *)

(* The client disconnects, times out, or its request ends, also between the *)
(* return of WithSigningKey and the moment its caller takes the answer.    *)
Cancel(c) ==
  /\ c \notin cancelled
  /\ cancelled' = cancelled \cup {c}
  /\ UNCHANGED <<pc, sem, waitq, pwFile, snapshot, addr, pwBuf, liveKeys, out, seen>>

(* The operator replaces, damages, removes or restores the password file.  *)
WritePasswordFile(content) ==
  /\ content # pwFile
  /\ pwFile' = content
  /\ seen' = [c \in Calls |-> IF pc[c] \in Admitted THEN seen[c] \cup {content}
                              ELSE seen[c]]
  /\ UNCHANGED <<pc, sem, waitq, cancelled, snapshot, addr, pwBuf, liveKeys, out>>

(* The caller has taken the answer; its identity serves a later call.      *)
Collect(c) ==
  /\ pc[c] = "done"
  /\ Goto(c, "idle")
  /\ cancelled' = cancelled \ {c}
  /\ out' = [out EXCEPT ![c] = "none"]
  /\ UNCHANGED <<sem, waitq, pwFile, snapshot, addr, pwBuf, liveKeys, seen>>

-----------------------------------------------------------------------------

(* What the vault's own code does for call c, the callback excepted.       *)
Step(c) ==
  \/ Acquire(c) \/ Enqueue(c) \/ GiveUp(c)
  \/ RecheckFails(c) \/ Recheck(c)
  \/ ReadPassword(c) \/ Decrypt(c) \/ Discover(c)
  \/ ZeroKey(c) \/ ZeroPassword(c) \/ Release(c)

FnReturns(c) == \E result \in FnOutcomes : RunFn(c, result)

Next ==
  \/ \E c \in Calls : Start(c) \/ Step(c) \/ FnReturns(c) \/ Cancel(c) \/ Collect(c)
  \/ \E content \in Contents : WritePasswordFile(content)

Spec == Init /\ [][Next]_vars

(* The Go scheduler runs every runnable goroutine; the callback only       *)
(* computes, so it returns. Clients and the operator promise nothing.      *)
FairSpec ==
  Spec /\ \A c \in Calls : WF_vars(Step(c)) /\ WF_vars(FnReturns(c))

(* The same without assuming that a callback ever returns.                 *)
StuckFnSpec == Spec /\ \A c \in Calls : WF_vars(Step(c))
-----------------------------------------------------------------------------
(* Properties.                                                             *)

(* Every variable has its type.                                            *)
TypeOK ==
  /\ pc \in [Calls -> Places]
  /\ sem \in 0..1
  /\ waitq \in Seq(Calls)
  /\ cancelled \subseteq Calls
  /\ pwFile \in Contents
  /\ snapshot \in Snapshots
  /\ addr \in Addresses \cup {NoAddr}
  /\ pwBuf \in [Calls -> Passwords \cup {Zeroed}]
  /\ liveKeys \subseteq Calls
  /\ out \in [Calls -> Outcomes]
  /\ seen \in [Calls -> SUBSET Contents]

(* At most one call is past the semaphore, whatever calls queue, give up,  *)
(* fail the recheck or panic: one KDF runs at a time.                      *)
OneCallInside == \A c, d \in Calls : Holds(c) /\ Holds(d) => c = d

(* The slot is taken exactly while some call has it, and whoever is        *)
(* blocked on it is in the queue, behind a call that has it: no early      *)
(* return, panic or cancelled waiter loses the slot or leaves a call       *)
(* blocked that nobody will wake.                                          *)
NoSlotLost ==
  /\ sem = 1 <=> \E c \in Calls : Holds(c)
  /\ waitq # << >> => sem = 1
  /\ \A c \in Calls : pc[c] = "queued" <=> \E i \in DOMAIN waitq : waitq[i] = c

(* A password or a key in memory belongs to a call that is past the        *)
(* semaphore and has not released it: every way out of WithSigningKey,     *)
(* errors and panics included, wipes both before the next call starts.     *)
SecretsConfined ==
  \A c \in Calls : pwBuf[c] # Zeroed \/ c \in liveKeys => pc[c] \in Admitted

(* The key is opened only by a call during which the file held the right   *)
(* password, and a call is refused for its password only if during it the  *)
(* file held something else: a rotation takes effect with the next call,   *)
(* nothing is remembered from an earlier one.                              *)
RotationTakesEffect ==
  \A c \in Calls :
    /\ pc[c] \in {"discover", "fn"} => RightPw \in seen[c]
    /\ pc[c] \in Closing /\ out[c] = "password_error" /\ snapshot = "sound"
         => \E content \in seen[c] : content # RightPw

CancelStep(c) ==
  /\ pc[c] \in Waiting /\ c \in cancelled =>
       \/ pc'[c] \in Waiting
       \/ pc'[c] = "done" /\ out'[c] = "ctxErr"
  /\ pc[c] \notin Waiting /\ out'[c] = "ctxErr" => out[c] = "ctxErr"

(* A call cancelled before the recheck leaves with ctx.Err() and never     *)
(* touches the password file; one that passed the recheck is never told    *)
(* ctx.Err(). The recheck is the point of no return.                       *)
CancelWins == [][\A c \in Calls : CancelStep(c)]_vars

(* The published address, declared or discovered, never changes again.     *)
AddressIsFinal == [][addr # NoAddr => addr' = addr]_vars

(* A cancelled call leaves the queue even behind a callback that hangs.    *)
CancelledWaiterReturns ==
  \A c \in Calls : pc[c] \in {"select", "queued"} /\ c \in cancelled ~> pc[c] = "done"

(* WithSigningKey keeps the promise of the KeyVault interface. A call that *)
(* was granted the semaphore but has not rechecked its context is, to its  *)
(* caller, still waiting; one that unwinds is leaving.                     *)
Phase(c) ==
  CASE pc[c] \in Waiting -> "asked"
    [] pc[c] \in Working \ {"fn"} -> "letIn"
    [] pc[c] = "fn" -> "using"
    [] pc[c] \in Closing -> "leaving"
    [] pc[c] = "done" -> "answered"
    [] OTHER -> "idle"

Interface == INSTANCE KeyVault WITH phase <- [c \in Calls |-> Phase(c)], answer <- out

(* Every behaviour of the vault is one the interface allows: whatever      *)
(* happens to queue, password file and buffers, callers see an exclusive   *)
(* session with a final address, or a refusal.                             *)
ImplementsKeyVault == Interface!Spec

(* The same with the interface's promise that everyone is answered, however*)
(* many others keep calling and whatever becomes of the calls ahead.       *)
ImplementsFairKeyVault == Interface!FairSpec
=============================================================================
