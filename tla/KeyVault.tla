------------------------------ MODULE KeyVault ------------------------------
(***************************************************************************)
(* What the KeyVault interface (internal/signing/vault.go) promises to the *)
(* callers of WithSigningKey, with no semaphore, queue, password file,     *)
(* buffer or deferred call: one caller at a time may have the key; a       *)
(* cancelled caller that has not been let in gets ctx.Err(); the address   *)
(* is known while the key is in use and never changes; everyone who asks   *)
(* is answered.                                                            *)
(***************************************************************************)
CONSTANTS Calls, Addresses, KeyAddr, NoAddr

VARIABLES
  phase,      \* idle, asked, let in, using the key, leaving, answered
  addr,       \* what AddressPointer() returns
  cancelled,  \* the callers whose context is cancelled
  answer      \* what WithSigningKey does to its caller, "none" before it is decided

vars == <<phase, addr, cancelled, answer>>

Refusals   == {"password_error", "internal_error", "panic"}
FnOutcomes == {"fnOk", "fnErr", "panic"}

(* The phases that exclude every other caller.                             *)
Inside == {"letIn", "using", "leaving"}

Init ==
  /\ phase = [c \in Calls |-> "idle"]
  /\ addr \in Addresses \cup {NoAddr}
  /\ cancelled = {}
  /\ answer = [c \in Calls |-> "none"]

Move(c, from, to) == phase[c] = from /\ phase' = [phase EXCEPT ![c] = to]

Ask(c) == Move(c, "idle", "asked") /\ UNCHANGED <<addr, cancelled, answer>>

Dismiss(c) ==
  /\ c \in cancelled
  /\ Move(c, "asked", "answered")
  /\ answer' = [answer EXCEPT ![c] = "ctxErr"]
  /\ UNCHANGED <<addr, cancelled>>

LetIn(c) ==
  /\ c \notin cancelled
  /\ \A d \in Calls : phase[d] \notin Inside
  /\ Move(c, "asked", "letIn")
  /\ UNCHANGED <<addr, cancelled, answer>>

Refuse(c) ==
  /\ Move(c, "letIn", "leaving")
  /\ \E refusal \in Refusals : answer' = [answer EXCEPT ![c] = refusal]
  /\ UNCHANGED <<addr, cancelled>>

OpenKey(c) ==
  /\ Move(c, "letIn", "using")
  /\ addr' = IF addr = NoAddr THEN KeyAddr ELSE addr
  /\ UNCHANGED <<cancelled, answer>>

UseKey(c) ==
  /\ Move(c, "using", "leaving")
  /\ \E outcome \in FnOutcomes : answer' = [answer EXCEPT ![c] = outcome]
  /\ UNCHANGED <<addr, cancelled>>

Return(c) == Move(c, "leaving", "answered") /\ UNCHANGED <<addr, cancelled, answer>>

Cancel(c) ==
  /\ cancelled' = cancelled \cup {c}
  /\ UNCHANGED <<phase, addr, answer>>

Collect(c) ==
  /\ Move(c, "answered", "idle")
  /\ cancelled' = cancelled \ {c}
  /\ answer' = [answer EXCEPT ![c] = "none"]
  /\ UNCHANGED addr

Next ==
  \E c \in Calls :
    \/ Ask(c) \/ Dismiss(c) \/ LetIn(c) \/ Refuse(c) \/ OpenKey(c) \/ UseKey(c)
    \/ Return(c) \/ Cancel(c) \/ Collect(c)

Spec == Init /\ [][Next]_vars

(* Whoever asks for the key is answered.                                   *)
EveryoneIsAnswered == \A c \in Calls : phase[c] = "asked" ~> phase[c] = "answered"

FairSpec == Spec /\ EveryoneIsAnswered
=============================================================================
