--------------------------- MODULE Signer_proofs ---------------------------
(***************************************************************************)
(* The safety properties of Signer, for any set of calls, contents of the  *)
(* password file and addresses. What the vault keeps to on its own is      *)
(* taken from its proofs: its invariant survives every step of this module.*)
(***************************************************************************)
EXTENDS Signer, Sequences, FiniteSetTheorems, TLAPS

VP == INSTANCE FileKeyVault_proofs

-----------------------------------------------------------------------------
(* The vault inside the signer is the vault of FileKeyVault_proofs.        *)

LEMMA Parameters == VP!FileKeyVaultAssumption
BY SignerAssumption DEF VP!FileKeyVaultAssumption

LEMMA VaultInit == Vault!Init => VP!IInv
<1>1. Vault!Init => VP!Init
  BY DEF Vault!Init, VP!Init, Vault!Contents, VP!Contents, Vault!Snapshots, VP!Snapshots
<1>2. QED
  BY <1>1, Parameters, VP!InitIInv

LEMMA SameStep ==
  ASSUME NEW c \in Calls, Vault!Step(c)
  PROVE  VP!Next
<1>1. Vault!Acquire(c) => VP!Acquire(c)
  BY DEF Vault!Acquire, VP!Acquire, Vault!Goto, VP!Goto
<1>2. Vault!Enqueue(c) => VP!Enqueue(c)
  BY DEF Vault!Enqueue, VP!Enqueue, Vault!Goto, VP!Goto
<1>3. Vault!GiveUp(c) => VP!GiveUp(c)
  BY DEF Vault!GiveUp, VP!GiveUp, Vault!RemoveAt, VP!RemoveAt, Vault!Goto, VP!Goto
<1>4. Vault!RecheckFails(c) => VP!RecheckFails(c)
  BY DEF Vault!RecheckFails, VP!RecheckFails, Vault!ReleaseAndReturn, VP!ReleaseAndReturn,
       Vault!Goto, VP!Goto
<1>5. Vault!Recheck(c) => VP!Recheck(c)
  BY DEF Vault!Recheck, VP!Recheck, Vault!Goto, VP!Goto
<1>6. Vault!ReadPassword(c) => VP!ReadPassword(c)
  BY DEF Vault!ReadPassword, VP!ReadPassword, Vault!Goto, VP!Goto
<1>7. Vault!Decrypt(c) => VP!Decrypt(c)
  BY DEF Vault!Decrypt, VP!Decrypt, Vault!DecryptKey, VP!DecryptKey, Vault!DecryptOutcome,
       VP!DecryptOutcome, Vault!Goto, VP!Goto
<1>8. Vault!Discover(c) => VP!Discover(c)
  BY DEF Vault!Discover, VP!Discover, Vault!Goto, VP!Goto
<1>9. Vault!ZeroKey(c) => VP!ZeroKey(c)
  BY DEF Vault!ZeroKey, VP!ZeroKey, Vault!Goto, VP!Goto
<1>10. Vault!ZeroPassword(c) => VP!ZeroPassword(c)
  BY DEF Vault!ZeroPassword, VP!ZeroPassword, Vault!Goto, VP!Goto
<1>11. Vault!Release(c) => VP!Release(c)
  BY DEF Vault!Release, VP!Release, Vault!ReleaseAndReturn, VP!ReleaseAndReturn, Vault!Goto, VP!Goto
<1>12. QED
  BY <1>1, <1>2, <1>3, <1>4, <1>5, <1>6, <1>7, <1>8, <1>9, <1>10, <1>11 DEF Vault!Step,
       VP!Step, VP!Next

LEMMA SameOthers ==
  ASSUME NEW c \in Calls
  PROVE  /\ Vault!Start(c) => VP!Next
         /\ Vault!Cancel(c) => VP!Next
         /\ Vault!Collect(c) => VP!Next
         /\ \A result \in Vault!FnOutcomes : Vault!RunFn(c, result) => VP!Next
<1>1. Vault!Start(c) => VP!Next
  BY DEF VP!Next, Vault!Start, VP!Start, Vault!Goto, VP!Goto
<1>2. Vault!Cancel(c) => VP!Next
  BY DEF VP!Next, Vault!Cancel, VP!Cancel
<1>3. Vault!Collect(c) => VP!Next
  BY DEF VP!Next, Vault!Collect, VP!Collect, Vault!Goto, VP!Goto
<1>4. ASSUME NEW result \in Vault!FnOutcomes, Vault!RunFn(c, result)
      PROVE  VP!Next
  <2>1. result \in VP!FnOutcomes
    BY <1>4 DEF Vault!FnOutcomes, VP!FnOutcomes
  <2>2. VP!RunFn(c, result)
    BY <1>4, <2>1 DEF Vault!RunFn, VP!RunFn, Vault!Goto, VP!Goto
  <2>3. QED
    BY <2>1, <2>2 DEF VP!Next, VP!FnReturns
<1>5. QED
  BY <1>1, <1>2, <1>3, <1>4

LEMMA SameWrite ==
  ASSUME NEW content \in Vault!Contents, Vault!WritePasswordFile(content)
  PROVE  VP!Next
<1>1. content \in VP!Contents
  BY DEF Vault!Contents, VP!Contents
<1>2. VP!WritePasswordFile(content)
  BY DEF Vault!WritePasswordFile, VP!WritePasswordFile, Vault!Admitted, VP!Admitted,
      Vault!Working, VP!Working, Vault!Closing, VP!Closing
<1>3. QED
  BY <1>1, <1>2 DEF VP!Next

-----------------------------------------------------------------------------
(* What the signer has to know of a step of the vault.                     *)

(* A call whose outcome is settled.                                        *)
Leaving == Vault!Closing \cup {"done"}

(* A vault step of call c: at most the call at the head of the queue moves *)
(* with it, the answer of c may become a refusal, ctx.Err() only for a     *)
(* cancelled call, and before that is settled the address may be found.    *)
VaultMove(c) ==
  /\ pc[c] \notin {"idle", "done"}
  /\ pc'[c] \in Vault!Places \ {"idle"}
  /\ \/ (pc[c] \in Leaving <=> pc'[c] \in Leaving) /\ out' = out
     \/ /\ pc[c] \notin Leaving /\ pc'[c] \in Leaving
        /\ \E o \in Vault!Outcomes \ {"none", "fnOk"} :
             out' = [out EXCEPT ![c] = o] /\ (o = "ctxErr" => c \in cancelled)
  /\ \A d \in Calls : d # c => pc'[d] = pc[d] \/ (pc[d] = "queued" /\ pc'[d] = "recheck")
  /\ addr' = addr \/ (addr = NoAddr /\ addr' = KeyAddr /\ pc[c] \notin Leaving)
  /\ cancelled' = cancelled

LEMMA VaultSteps ==
  ASSUME VP!IInv, NEW c \in Calls, Vault!Step(c)
  PROVE  VaultMove(c)
<1> USE SignerAssumption DEF VaultMove, Leaving, Vault!Waiting, Vault!Working,
        Vault!Closing, Vault!Admitted, Vault!Places, Vault!Outcomes, Vault!FnOutcomes, Vault!Goto
<1>0. /\ pc \in [Calls -> Vault!Places]
      /\ out \in [Calls -> Vault!Outcomes]
      /\ \A i \in DOMAIN waitq : waitq[i] \in Calls /\ pc[waitq[i]] = "queued"
      /\ waitq # << >> => Head(waitq) \in Calls /\ pc[Head(waitq)] = "queued"
  <2> USE DEF VP!IInv, VP!TypeOK, VP!QueueInv
  <2>1. pc \in [Calls -> Vault!Places]
    BY DEF VP!Places, VP!Admitted, VP!Waiting, VP!Working, VP!Closing
  <2>2. out \in [Calls -> Vault!Outcomes]
    BY DEF VP!Outcomes, VP!FnOutcomes
  <2>3. \A i \in DOMAIN waitq : waitq[i] \in Calls /\ pc[waitq[i]] = "queued"
    OBVIOUS
  <2>4. waitq # << >> => Head(waitq) \in Calls /\ pc[Head(waitq)] = "queued"
    OBVIOUS
  <2>5. QED
    BY <2>1, <2>2, <2>3, <2>4
<1>1. Vault!Acquire(c) => VaultMove(c)
  BY <1>0 DEF Vault!Acquire
<1>2. Vault!Enqueue(c) => VaultMove(c)
  BY <1>0 DEF Vault!Enqueue
<1>3. Vault!GiveUp(c) => VaultMove(c)
  BY <1>0 DEF Vault!GiveUp
<1>4. Vault!RecheckFails(c) => VaultMove(c)
  BY <1>0 DEF Vault!RecheckFails, Vault!ReleaseAndReturn
<1>5. Vault!Recheck(c) => VaultMove(c)
  BY <1>0 DEF Vault!Recheck
<1>6. Vault!ReadPassword(c) => VaultMove(c)
  BY <1>0 DEF Vault!ReadPassword
<1>7. Vault!Decrypt(c) => VaultMove(c)
  <2>1. \A o \in {"ErrDecrypt", "otherErr", "panic"} :
          Vault!DecryptOutcome(o) \in {"password_error", "internal_error", "panic"}
    BY DEF Vault!DecryptOutcome
  <2>2. Vault!DecryptKey(pwBuf[c]) \ {"key"} \subseteq {"ErrDecrypt", "otherErr", "panic"}
    BY DEF Vault!DecryptKey, VP!IInv, VP!TypeOK, VP!Snapshots
  <2>3. QED
    BY <1>0, <2>1, <2>2 DEF Vault!Decrypt
<1>8. Vault!Discover(c) => VaultMove(c)
  BY <1>0 DEF Vault!Discover
<1>9. Vault!ZeroKey(c) => VaultMove(c)
  BY <1>0 DEF Vault!ZeroKey
<1>10. Vault!ZeroPassword(c) => VaultMove(c)
  BY <1>0 DEF Vault!ZeroPassword
<1>11. Vault!Release(c) => VaultMove(c)
  BY <1>0 DEF Vault!Release, Vault!ReleaseAndReturn
<1>12. QED
  BY <1>1, <1>2, <1>3, <1>4, <1>5, <1>6, <1>7, <1>8, <1>9, <1>10, <1>11 DEF Vault!Step

-----------------------------------------------------------------------------
(* The inductive invariant: that of the vault, and for every call how far  *)
(* its handler is, what it has and what the vault has made of it so far.   *)

SignerTyped ==
  /\ stage \in [Calls -> {"idle", "validate", "vault", "answered"}]
  /\ verdict \in [Calls -> Verdicts]
  /\ sender \in [Calls -> Addresses \cup {NoAddr}]
  /\ reply \in [Calls -> Replies]
  /\ audit \in [Calls -> 0..1]
  /\ known \in Addresses \cup {NoAddr}
  /\ signed \in BOOLEAN

CallInv(c) ==
  /\ pc[c] \in Leaving <=> out[c] # "none"
  /\ stage[c] \in {"idle", "validate"} => pc[c] = "idle" /\ sender[c] = NoAddr
  /\ stage[c] # "answered" => reply[c] = "none" /\ audit[c] = 0
  /\ stage[c] = "vault" => pc[c] # "idle" /\ (sender[c] # NoAddr <=> out[c] = "fnOk")
  /\ stage[c] = "answered" =>
       /\ pc[c] \in {"idle", "done"}
       /\ reply[c] = "result" <=> sender[c] # NoAddr
       /\ audit[c] = IF sender[c] # NoAddr THEN 1 ELSE 0
  /\ sender[c] # NoAddr => sender[c] = KeyAddr /\ addr = KeyAddr

(* What went out is the published address.                                 *)
Published == told \subseteq {addr} \ {NoAddr}

IInv == VP!IInv /\ SignerTyped /\ (\A c \in Calls : CallInv(c)) /\ Published

LEMMA InitIInv == Init => IInv
<1> SUFFICES ASSUME Init
             PROVE  IInv
  OBVIOUS
<1>1. VP!IInv
  BY VaultInit DEF Init
<1>2. SignerTyped
  <2>1. verdict \in [Calls -> Verdicts] /\ reply \in [Calls -> Replies]
    BY DEF Init, Verdicts, Replies
  <2>2. audit \in [Calls -> 0..1]
    BY DEF Init
  <2>3. QED
    BY <2>1, <2>2 DEF Init, SignerTyped
<1>3. \A c \in Calls : CallInv(c)
  BY DEF Init, CallInv, Vault!Init, Leaving, Vault!Closing
<1>4. Published
  BY DEF Init, Published
<1>5. QED
  BY <1>1, <1>2, <1>3, <1>4 DEF IInv

(* The address, once found, is not lost, and nothing is told before.       *)
LEMMA AddressMoves ==
  ASSUME addr' = addr \/ (addr = NoAddr /\ addr' = KeyAddr), told' = told, Published
  PROVE  Published'
BY DEF Published

LEMMA VaultKept ==
  ASSUME VP!IInv, VP!Next \/ UNCHANGED vaultVars
  PROVE  VP!IInv'
BY Parameters, VP!StepIInv DEF vaultVars, VP!vars

(* The vault's invariant says nothing of who is cancelled.                 *)
LEMMA UncancelKept ==
  ASSUME VP!IInv, cancelled' \subseteq cancelled,
         UNCHANGED <<pc, sem, waitq, pwFile, snapshot, addr, pwBuf, liveKeys, out, seen>>
  PROVE  VP!IInv'
BY DEF VP!IInv, VP!TypeOK, VP!SemInv, VP!OneCallInside, VP!Holds, VP!QueueInv, VP!SecretsInv,
       VP!RotationInv, VP!RotationTakesEffect

(* A step of one handler leaves the calls of the others as they were.      *)
LEMMA OtherCalls ==
  ASSUME NEW d \in Calls, CallInv(d),
         pc'[d] = pc[d] \/ (pc[d] = "queued" /\ pc'[d] = "recheck"),
         out'[d] = out[d], stage'[d] = stage[d], sender'[d] = sender[d],
         reply'[d] = reply[d], audit'[d] = audit[d],
         addr' = addr \/ (addr = NoAddr /\ addr' = KeyAddr)
  PROVE  CallInv(d)'
BY SignerAssumption DEF CallInv, Leaving, Vault!Closing

LEMMA HandlerStep ==
  ASSUME IInv, NEW c \in Calls, Refuse(c) \/ (\E v \in Verdicts : Receive(c, v)) \/ Finish(c)
  PROVE  IInv'
<1>1. VP!IInv' /\ UNCHANGED <<vaultVars, told>>
  BY VaultKept DEF IInv, Refuse, Receive, Finish
<1>2. Published'
  BY <1>1 DEF IInv, Published, vaultVars
<1>3. SignerTyped /\ CallInv(c)
  BY DEF IInv
<1>4. SignerTyped' /\ CallInv(c)'
  <2>1. ASSUME NEW v \in Verdicts, Receive(c, v)
        PROVE  SignerTyped' /\ CallInv(c)'
    BY <1>1, <1>3, <2>1 DEF SignerTyped, CallInv, Receive, vaultVars
  <2>2. CASE Refuse(c)
    <3>1. verdict[c] \in Replies \ {"none", "result"}
      BY <1>3, <2>2 DEF SignerTyped, Refuse, Replies, ErrorCodes, Verdicts
    <3>2. SignerTyped'
      BY <1>3, <2>2, <3>1 DEF SignerTyped, Refuse
    <3>3. CallInv(c)'
      BY <1>1, <1>3, <2>2, <3>1 DEF SignerTyped, CallInv, Refuse, vaultVars
    <3>4. QED
      BY <3>2, <3>3
  <2>3. CASE Finish(c)
    <3>1. out[c] \in Vault!Outcomes \ {"none"}
      <4>1. pc[c] \in Leaving
        BY <2>3 DEF Finish, Leaving
      <4>2. QED
        BY <1>3, <4>1 DEF CallInv, IInv, VP!IInv, VP!TypeOK, Vault!Outcomes, VP!Outcomes,
            Vault!FnOutcomes, VP!FnOutcomes
    <3>2. /\ ReplyTo(out[c]) \in Replies \ {"none"}
          /\ ReplyTo(out[c]) = "result" <=> out[c] = "fnOk"
      BY <3>1 DEF ReplyTo, Replies, ErrorCodes, Verdicts, Vault!Outcomes, Vault!FnOutcomes
    <3>3. audit[c] = 0
      BY <1>3, <2>3 DEF CallInv, Finish
    <3>4. SignerTyped'
      BY <1>3, <2>3, <3>2, <3>3 DEF SignerTyped, Finish
    <3>5. CallInv(c)'
      BY <1>1, <1>3, <2>3, <3>2, <3>3 DEF SignerTyped, CallInv, Finish, vaultVars
    <3>6. QED
      BY <3>4, <3>5
  <2>4. QED
    BY <2>1, <2>2, <2>3
<1>5. ASSUME NEW d \in Calls, d # c
      PROVE  CallInv(d)'
  <2>1. CallInv(d)
    BY DEF IInv
  <2>2. /\ stage'[d] = stage[d] /\ sender'[d] = sender[d]
        /\ reply'[d] = reply[d] /\ audit'[d] = audit[d]
    BY <1>3, <1>5 DEF SignerTyped, Refuse, Receive, Finish
  <2>3. QED
    BY <1>1, <2>1, <2>2, OtherCalls DEF vaultVars
<1>6. QED
  BY <1>1, <1>2, <1>4, <1>5 DEF IInv

LEMMA VaultStepKeeps ==
  ASSUME IInv, NEW c \in Calls, VaultStep(c)
  PROVE  IInv'
<1>1. VP!IInv' /\ VaultMove(c)
  BY SameStep, VaultKept, VaultSteps DEF IInv, VaultStep
<1>2. SignerTyped'
  BY DEF IInv, SignerTyped, VaultStep, signerVars
<1>3. Published'
  BY <1>1, AddressMoves DEF IInv, VaultStep, signerVars, VaultMove
<1>4. pc \in [Calls -> Vault!Places] /\ out \in [Calls -> Vault!Outcomes]
  BY DEF IInv, VP!IInv, VP!TypeOK, VP!Places, VP!Admitted, VP!Waiting, VP!Working, VP!Closing,
      VP!Outcomes, VP!FnOutcomes, Vault!Places, Vault!Admitted, Vault!Waiting, Vault!Working,
      Vault!Closing, Vault!Outcomes, Vault!FnOutcomes
<1>5. ASSUME NEW d \in Calls, d # c
      PROVE  CallInv(d)'
  BY <1>1, <1>4, <1>5, OtherCalls DEF IInv, VaultMove, VaultStep, signerVars
<1>6. CallInv(c)'
  <2>1. CallInv(c) /\ stage[c] = "vault"
    BY <1>1 DEF IInv, SignerTyped, CallInv, VaultMove
  <2>2. QED
    BY <1>1, <1>4, <2>1, SignerAssumption DEF CallInv, VaultMove, VaultStep, signerVars,
        Leaving, Vault!Places, Vault!Admitted, Vault!Outcomes, Vault!FnOutcomes
<1>7. QED
  BY <1>1, <1>2, <1>3, <1>5, <1>6 DEF IInv

LEMMA EnterVaultKeeps ==
  ASSUME IInv, NEW c \in Calls, EnterVault(c)
  PROVE  IInv'
<1>1. VP!IInv' /\ told' = told /\ addr' = addr
  BY SameOthers, VaultKept DEF IInv, EnterVault, Vault!Start
<1>2. SignerTyped' /\ Published'
  BY <1>1 DEF IInv, SignerTyped, EnterVault, Published
<1>3. pc' = [pc EXCEPT ![c] = "select"] /\ out' = out /\ pc[c] = "idle"
  BY DEF EnterVault, Vault!Start, Vault!Goto
<1>4. pc \in [Calls -> VP!Places]
  BY DEF IInv, VP!IInv, VP!TypeOK
<1>5. ASSUME NEW d \in Calls
      PROVE  CallInv(d)'
  BY <1>1, <1>3, <1>4 DEF IInv, SignerTyped, CallInv, EnterVault, Leaving, Vault!Closing
<1>6. QED
  BY <1>1, <1>2, <1>5 DEF IInv

LEMMA CallbackKeeps ==
  ASSUME IInv, NEW c \in Calls, Callback(c)
  PROVE  IInv'
<1>1. PICK result \in Vault!FnOutcomes :
        /\ Vault!RunFn(c, result)
        /\ \/ result = "fnOk" /\ addr = KeyAddr /\ sender' = [sender EXCEPT ![c] = KeyAddr]
           \/ result # "fnOk" /\ sender' = sender
  BY DEF Callback, Vault!FnOutcomes
<1>2. VP!IInv' /\ addr' = addr /\ told' = told
  BY <1>1, SameOthers, VaultKept DEF IInv, Callback, Vault!RunFn
<1>3. SignerTyped' /\ Published'
  BY <1>1, <1>2, SignerAssumption DEF IInv, SignerTyped, Callback, Published
<1>4. /\ pc[c] = "fn" /\ pc' = [pc EXCEPT ![c] = "zeroKey"]
      /\ out' = [out EXCEPT ![c] = result]
  BY <1>1 DEF Vault!RunFn, Vault!Goto
<1>5. pc \in [Calls -> VP!Places] /\ out \in [Calls -> VP!Outcomes]
  BY DEF IInv, VP!IInv, VP!TypeOK
<1>6. UNCHANGED <<stage, reply, audit>> /\ sender \in [Calls -> Addresses \cup {NoAddr}]
  BY DEF IInv, SignerTyped, Callback
<1>7. ASSUME NEW d \in Calls, d # c
      PROVE  CallInv(d)'
  BY <1>1, <1>2, <1>4, <1>5, <1>6, <1>7, OtherCalls DEF IInv
<1>8. CallInv(c)'
  BY <1>1, <1>2, <1>4, <1>5, <1>6, SignerAssumption
     DEF IInv, CallInv, SignerTyped, Leaving, Vault!Closing, Vault!FnOutcomes
<1>9. QED
  BY <1>2, <1>3, <1>7, <1>8 DEF IInv

LEMMA DeliverKeeps ==
  ASSUME IInv, NEW c \in Calls, Deliver(c)
  PROVE  IInv'
<1>1. VP!IInv' /\ addr' = addr
  <2>1. CASE pc[c] = "done"
    BY <2>1, SameOthers, VaultKept DEF IInv, Deliver, Vault!Collect
  <2>2. CASE pc[c] # "done"
    BY <2>2, UncancelKept DEF IInv, Deliver
  <2>3. QED
    BY <2>1, <2>2
<1>2. SignerTyped'
  BY DEF IInv, SignerTyped, Deliver, Verdicts, Replies
<1>3. CallInv(c) /\ stage[c] = "answered"
  BY DEF IInv, Deliver
<1>4. Published'
  BY <1>1, <1>3, SignerAssumption DEF IInv, Published, Deliver, CallInv
<1>5. pc \in [Calls -> VP!Places] /\ out \in [Calls -> VP!Outcomes]
  BY DEF IInv, VP!IInv, VP!TypeOK
<1>6. /\ \A d \in Calls \ {c} : pc'[d] = pc[d] /\ out'[d] = out[d]
      /\ pc'[c] = "idle" /\ out'[c] = "none"
  BY <1>3, <1>5 DEF Deliver, CallInv, Vault!Collect, Vault!Goto, Leaving, Vault!Closing
<1>7. ASSUME NEW d \in Calls, d # c
      PROVE  CallInv(d)'
  BY <1>1, <1>6, <1>7, OtherCalls DEF IInv, SignerTyped, Deliver
<1>8. CallInv(c)'
  BY <1>1, <1>6 DEF IInv, SignerTyped, CallInv, Deliver, Leaving, Vault!Closing
<1>9. QED
  BY <1>1, <1>2, <1>4, <1>7, <1>8 DEF IInv

LEMMA EnvironmentKeeps ==
  ASSUME IInv, GetAddress \/ Rotate \/ \E c \in Calls : ClientGone(c)
  PROVE  IInv'
<1>1. VP!IInv' /\ UNCHANGED <<pc, out, addr>>
  <2>1. CASE GetAddress
    BY <2>1, VaultKept DEF IInv, GetAddress, vaultVars
  <2>2. CASE Rotate
    <3>1. PICK content \in Vault!Contents : Vault!WritePasswordFile(content)
      BY <2>2 DEF Rotate
    <3>2. QED
      BY <2>2, <3>1, SameWrite, VaultKept DEF IInv, Rotate, Vault!WritePasswordFile
  <2>3. ASSUME NEW c \in Calls, ClientGone(c)
        PROVE  VP!IInv' /\ UNCHANGED <<pc, out, addr>>
    BY <2>3, SameOthers, VaultKept DEF IInv, ClientGone, Vault!Cancel
  <2>4. QED
    BY <2>1, <2>2, <2>3
<1>2. UNCHANGED <<stage, verdict, sender, reply, audit, signed>>
  BY DEF GetAddress, Rotate, ClientGone, signerVars
<1>3. addr \in Addresses \cup {NoAddr}
  BY DEF IInv, VP!IInv, VP!TypeOK
<1>4. SignerTyped' /\ Published'
  BY <1>1, <1>2, <1>3 DEF IInv, SignerTyped, Published, GetAddress, Rotate, ClientGone, signerVars
<1>5. ASSUME NEW d \in Calls
      PROVE  CallInv(d)'
  BY <1>1, <1>2 DEF IInv, CallInv
<1>6. QED
  BY <1>1, <1>4, <1>5 DEF IInv

LEMMA StepIInv == IInv /\ [Next]_vars => IInv'
<1> SUFFICES ASSUME IInv, [Next]_vars
             PROVE  IInv'
  OBVIOUS
<1>1. CASE UNCHANGED vars
  <2>1. UNCHANGED vaultVars /\ UNCHANGED signerVars
    BY <1>1 DEF vars
  <2>2. VP!IInv'
    BY <2>1, VaultKept DEF IInv
  <2>3. SignerTyped' /\ Published' /\ \A d \in Calls : CallInv(d)'
    BY <2>1 DEF IInv, SignerTyped, Published, CallInv, vaultVars, signerVars
  <2>4. QED
    BY <2>2, <2>3 DEF IInv
<1>2. CASE Next
  BY <1>2, HandlerStep, VaultStepKeeps, EnterVaultKeeps, CallbackKeeps, DeliverKeeps,
     EnvironmentKeeps DEF Next, Handle
<1>3. QED
  BY <1>1, <1>2

LEMMA Inductive == Spec => []IInv
BY InitIInv, StepIInv, PTL DEF Spec

-----------------------------------------------------------------------------
(* What follows from it.                                                   *)

(* Every variable keeps its type, the vault's own ones included.           *)
THEOREM TypeCorrect == Spec => []TypeOK
<1>1. IInv => TypeOK
  <2> SUFFICES ASSUME IInv
               PROVE  TypeOK
    OBVIOUS
  <2>1. VP!TypeOK
    BY DEF IInv, VP!IInv
  <2>2. Vault!TypeOK
    BY <2>1 DEF VP!TypeOK, Vault!TypeOK, VP!Places, Vault!Places, VP!Admitted, Vault!Admitted,
        VP!Waiting, Vault!Waiting, VP!Working, Vault!Working, VP!Closing, Vault!Closing,
        VP!Contents, Vault!Contents, VP!Snapshots, Vault!Snapshots, VP!Outcomes,
        Vault!Outcomes, VP!FnOutcomes, Vault!FnOutcomes
  <2>3. told \subseteq Addresses
    BY <2>1 DEF IInv, Published, VP!TypeOK
  <2>4. QED
    BY <2>2, <2>3 DEF IInv, SignerTyped, TypeOK
<1>2. QED
  BY <1>1, Inductive, PTL

(* Every signature is audited once and answered, and nothing else is,      *)
(* however many requests are under way.                                    *)
THEOREM Audited == Spec => []SignaturesAreAudited
<1>1. IInv => SignaturesAreAudited
  BY DEF IInv, CallInv, SignaturesAreAudited
<1>2. QED
  BY <1>1, Inductive, PTL

(* No two different addresses are ever given out as the account's, as the  *)
(* From of a signature or by get_address.                                  *)
THEOREM SingleAddress == Spec => []OneAddress
<1>1. IInv => OneAddress
  <2> SUFFICES ASSUME IInv
               PROVE  OneAddress
    OBVIOUS
  <2>1. told = {} \/ told = {addr}
    BY DEF IInv, Published
  <2>2. Cardinality({}) = 0 /\ Cardinality({addr}) = 1
    BY FS_EmptySet, FS_Singleton
  <2>3. QED
    BY <2>1, <2>2 DEF OneAddress
<1>2. QED
  BY <1>1, Inductive, PTL

(* Once an address is out, get_address gives that one.                     *)
THEOREM KnownForGood == Spec => KnownOnceTold
<1>1. IInv /\ [Next]_vars => [GetAddress /\ told # {} => known' \in told]_vars
  BY DEF IInv, Published, GetAddress
<1>2. QED
  BY <1>1, Inductive, PTL DEF Spec, KnownOnceTold

-----------------------------------------------------------------------------
(* The handlers and the vault under them implement SigningTools.           *)

(* A call that is told ctx.Err() has been cancelled.                       *)
CtxErrIsEarned == \A c \in Calls : out[c] = "ctxErr" => c \in cancelled

LEMMA CtxErrKept == IInv /\ CtxErrIsEarned /\ [Next]_vars => CtxErrIsEarned'
<1> SUFFICES ASSUME IInv, CtxErrIsEarned, [Next]_vars
             PROVE  CtxErrIsEarned'
  OBVIOUS
<1> USE DEF CtxErrIsEarned
<1>1. out \in [Calls -> VP!Outcomes]
  BY DEF IInv, VP!IInv, VP!TypeOK
<1>2. CASE UNCHANGED <<out, cancelled>>
  BY <1>2
<1>3. ASSUME NEW c \in Calls, VaultStep(c)
      PROVE  CtxErrIsEarned'
  <2>1. VaultMove(c)
    BY <1>3, VaultSteps DEF IInv, VaultStep
  <2>2. QED
    BY <1>1, <2>1 DEF VaultMove
<1>4. ASSUME NEW c \in Calls, Callback(c)
      PROVE  CtxErrIsEarned'
  <2>1. PICK result \in {"fnOk", "fnErr", "panic"} : Vault!RunFn(c, result)
    BY <1>4 DEF Callback
  <2>2. QED
    BY <1>1, <2>1 DEF Vault!RunFn
<1>5. ASSUME NEW c \in Calls, Deliver(c)
      PROVE  CtxErrIsEarned'
  <2>1. CASE pc[c] = "done"
    BY <1>1, <1>5, <2>1 DEF Deliver, Vault!Collect
  <2>2. CASE pc[c] # "done"
    <3>1. out[c] = "none"
      BY <1>5, <2>2 DEF IInv, CallInv, Deliver, Leaving, Vault!Closing
    <3>2. QED
      BY <1>5, <2>2, <3>1 DEF Deliver
  <2>3. QED
    BY <2>1, <2>2
<1>6. ASSUME NEW c \in Calls, ClientGone(c)
      PROVE  CtxErrIsEarned'
  BY <1>6 DEF ClientGone, Vault!Cancel
<1>7. ASSUME NEW c \in Calls,
             Refuse(c) \/ EnterVault(c) \/ Finish(c) \/ \E v \in Verdicts : Receive(c, v)
      PROVE  UNCHANGED <<out, cancelled>>
  BY <1>7 DEF Refuse, EnterVault, Finish, Receive, vaultVars, Vault!Start
<1>8. GetAddress \/ Rotate \/ UNCHANGED vars => UNCHANGED <<out, cancelled>>
  BY DEF GetAddress, Rotate, vars, vaultVars, Vault!WritePasswordFile
<1>9. QED
  BY <1>2, <1>3, <1>4, <1>5, <1>6, <1>7, <1>8 DEF Next, Handle

RefInv == IInv /\ CtxErrIsEarned

LEMMA RefInvariant == Spec => []RefInv
<1>1. Init => RefInv
  BY InitIInv DEF RefInv, CtxErrIsEarned, Init, Vault!Init
<1>2. RefInv /\ [Next]_vars => RefInv'
  BY StepIInv, CtxErrKept DEF RefInv
<1>3. QED
  BY <1>1, <1>2, PTL DEF Spec

(* Only what a step does to one request shows.                             *)
LEMMA OneRequestMoves ==
  ASSUME NEW c \in Calls, NEW from, NEW to,
         RequestOf(c) = from, RequestOf(c)' = to,
         \A d \in Calls \ {c} : RequestOf(d)' = RequestOf(d)
  PROVE  Tools!Move(c, from, to)
BY DEF Tools!Move

LEMMA NoRequestMoves ==
  ASSUME \A d \in Calls : RequestOf(d)' = RequestOf(d)
  PROVE  UNCHANGED [d \in Calls |-> RequestOf(d)]
OBVIOUS

(* The other requests stand where they stood.                              *)
LEMMA SameRequest ==
  ASSUME NEW d, stage'[d] = stage[d], sender'[d] = sender[d]
  PROVE  RequestOf(d)' = RequestOf(d)
BY DEF RequestOf

LEMMA StageOf ==
  ASSUME IInv, NEW c \in Calls
  PROVE  /\ stage[c] = "idle" => RequestOf(c) = "idle"
         /\ stage[c] = "answered" => RequestOf(c) = "answered"
         /\ stage[c] \in {"validate", "vault"} =>
              RequestOf(c) = IF sender[c] = NoAddr THEN "open" ELSE "signed"
         /\ RequestOf(c) = "idle" => stage[c] = "idle"
BY DEF IInv, SignerTyped, RequestOf

LEMMA ReceiveRefines ==
  ASSUME IInv, NEW c \in Calls, NEW v \in Verdicts, Receive(c, v)
  PROVE  Tools!Receive(c)
<1>1. CallInv(c) /\ SignerTyped
  BY DEF IInv
<1>2. RequestOf(c) = "idle" /\ RequestOf(c)' = "open"
  BY <1>1 DEF Receive, SignerTyped, CallInv, RequestOf
<1>3. \A d \in Calls \ {c} : RequestOf(d)' = RequestOf(d)
  BY <1>1, SameRequest DEF Receive, SignerTyped
<1>4. Tools!Move(c, "idle", "open")
  BY <1>2, <1>3, OneRequestMoves
<1>5. QED
  BY <1>4 DEF Tools!Receive, Receive, vaultVars

LEMMA RefuseRefines ==
  ASSUME IInv, NEW c \in Calls, Refuse(c)
  PROVE  Tools!Refuse(c)
<1>1. CallInv(c) /\ SignerTyped
  BY DEF IInv
<1>2. RequestOf(c) = "open" /\ RequestOf(c)' = "answered"
  BY <1>1 DEF Refuse, SignerTyped, CallInv, RequestOf
<1>3. \A d \in Calls \ {c} : RequestOf(d)' = RequestOf(d)
  BY <1>1, SameRequest DEF Refuse, SignerTyped
<1>4. Tools!Move(c, "open", "answered")
  BY <1>2, <1>3, OneRequestMoves
<1>5. verdict[c] \in Tools!Refusals
  BY <1>1 DEF Refuse, SignerTyped, Verdicts, Tools!Refusals
<1>6. QED
  BY <1>4, <1>5 DEF Tools!Refuse, Refuse, vaultVars

LEMMA EnterVaultRefines ==
  ASSUME IInv, NEW c \in Calls, EnterVault(c)
  PROVE  UNCHANGED Tools!vars
<1>1. \A d \in Calls : RequestOf(d)' = RequestOf(d)
  BY DEF IInv, SignerTyped, EnterVault, RequestOf
<1>2. UNCHANGED [d \in Calls |-> RequestOf(d)]
  BY <1>1, NoRequestMoves
<1>3. QED
  BY <1>2 DEF Tools!vars, EnterVault, Vault!Start

LEMMA VaultStepRefines ==
  ASSUME IInv, NEW c \in Calls, VaultStep(c)
  PROVE  Tools!Learn(c) \/ UNCHANGED Tools!vars
<1>1. VaultMove(c)
  BY VaultSteps DEF IInv, VaultStep
<1>2. UNCHANGED [d \in Calls |-> RequestOf(d)]
  <2>1. \A d \in Calls : RequestOf(d)' = RequestOf(d)
    BY SameRequest DEF VaultStep, signerVars
  <2>2. QED
    BY <2>1, NoRequestMoves
<1>3. CASE addr' = addr
  BY <1>1, <1>2, <1>3 DEF Tools!vars, VaultStep, signerVars, VaultMove
<1>4. CASE addr' # addr
  <2>1. addr = NoAddr /\ addr' = KeyAddr /\ pc[c] \notin Leaving
    BY <1>1, <1>4 DEF VaultMove
  <2>2. stage[c] = "vault" /\ sender[c] = NoAddr
    BY <1>1, <2>1 DEF IInv, SignerTyped, CallInv, VaultMove
  <2>3. RequestOf(c) = "open"
    BY <2>2 DEF RequestOf
  <2>4. QED
    BY <1>1, <1>2, <2>1, <2>3 DEF Tools!Learn, VaultStep, signerVars, VaultMove
<1>5. QED
  BY <1>3, <1>4

LEMMA CallbackRefines ==
  ASSUME IInv, NEW c \in Calls, Callback(c)
  PROVE  Tools!Sign(c) \/ UNCHANGED Tools!vars
<1>1. PICK result \in Vault!FnOutcomes :
        /\ Vault!RunFn(c, result)
        /\ \/ addr = KeyAddr /\ sender' = [sender EXCEPT ![c] = KeyAddr]
           \/ sender' = sender
  BY DEF Callback, Vault!FnOutcomes
<1>2. UNCHANGED <<stage, reply, audit, addr, cancelled, told, known>>
  BY <1>1 DEF Callback, Vault!RunFn
<1>3. CASE sender' = sender
  <2>1. \A d \in Calls : RequestOf(d)' = RequestOf(d)
    BY <1>2, <1>3, SameRequest
  <2>2. UNCHANGED [d \in Calls |-> RequestOf(d)]
    BY <2>1, NoRequestMoves
  <2>3. QED
    BY <1>2, <2>2 DEF Tools!vars
<1>4. CASE addr = KeyAddr /\ sender' = [sender EXCEPT ![c] = KeyAddr]
  <2>1. pc[c] = "fn"
    BY <1>1 DEF Vault!RunFn
  <2>2. stage[c] = "vault" /\ sender[c] = NoAddr
    BY <2>1 DEF IInv, SignerTyped, CallInv, Leaving, Vault!Closing
  <2>3. sender \in [Calls -> Addresses \cup {NoAddr}]
    BY DEF IInv, SignerTyped
  <2>4. RequestOf(c) = "open" /\ RequestOf(c)' = "signed"
    BY <1>2, <1>4, <2>2, <2>3, SignerAssumption DEF RequestOf
  <2>5. \A d \in Calls \ {c} : RequestOf(d)' = RequestOf(d)
    BY <1>2, <1>4, <2>3, SameRequest
  <2>6. Tools!Move(c, "open", "signed")
    BY <2>4, <2>5, OneRequestMoves
  <2>7. QED
    BY <1>2, <1>4, <2>6 DEF Tools!Sign
<1>5. QED
  BY <1>1, <1>3, <1>4

(* The outcomes of the vault, as the client learns of them.                *)
LEMMA FinishRefines ==
  ASSUME IInv, CtxErrIsEarned, NEW c \in Calls, Finish(c)
  PROVE  Tools!Refuse(c) \/ Tools!Answer(c)
<1>1. CallInv(c) /\ SignerTyped
  BY DEF IInv
<1>2. out[c] \in Vault!Outcomes \ {"none"}
  BY <1>1 DEF Finish, CallInv, Leaving, IInv, VP!IInv, VP!TypeOK, Vault!Outcomes, VP!Outcomes,
      Vault!FnOutcomes, VP!FnOutcomes
<1>3. RequestOf(c)' = "answered"
  BY <1>1 DEF Finish, SignerTyped, RequestOf
<1>4. \A d \in Calls \ {c} : RequestOf(d)' = RequestOf(d)
  BY <1>1, SameRequest DEF Finish, SignerTyped
<1>5. UNCHANGED <<addr, cancelled, told, known>> /\ reply' = [reply EXCEPT ![c] = ReplyTo(out[c])]
  BY DEF Finish, vaultVars
<1>6. CASE out[c] = "fnOk"
  <2>1. RequestOf(c) = "signed"
    BY <1>1, <1>6 DEF Finish, CallInv, RequestOf
  <2>2. Tools!Move(c, "signed", "answered")
    BY <1>3, <1>4, <2>1, OneRequestMoves
  <2>3. ReplyTo(out[c]) = "result"
    BY <1>6 DEF ReplyTo
  <2>4. audit' = [audit EXCEPT ![c] = @ + 1]
    BY <1>6 DEF Finish
  <2>5. QED
    BY <1>5, <2>2, <2>3, <2>4 DEF Tools!Answer
<1>7. CASE out[c] # "fnOk"
  <2>1. RequestOf(c) = "open"
    BY <1>1, <1>7 DEF Finish, CallInv, RequestOf
  <2>2. Tools!Move(c, "open", "answered")
    BY <1>3, <1>4, <2>1, OneRequestMoves
  <2>3. \/ ReplyTo(out[c]) \in Tools!Refusals
        \/ ReplyTo(out[c]) = "json_rpc_error" /\ c \in cancelled
    BY <1>2, <1>7 DEF ReplyTo, Tools!Refusals, Vault!Outcomes, Vault!FnOutcomes, CtxErrIsEarned
  <2>4. audit' = audit
    BY <1>1, <1>7 DEF Finish, SignerTyped
  <2>5. QED
    BY <1>5, <2>2, <2>3, <2>4 DEF Tools!Refuse
<1>8. QED
  BY <1>6, <1>7

LEMMA DeliverRefines ==
  ASSUME IInv, NEW c \in Calls, Deliver(c)
  PROVE  Tools!Deliver(c)
<1>1. CallInv(c) /\ SignerTyped
  BY DEF IInv
<1>2. RequestOf(c) = "answered" /\ RequestOf(c)' = "idle"
  BY <1>1 DEF Deliver, SignerTyped, RequestOf
<1>3. \A d \in Calls \ {c} : RequestOf(d)' = RequestOf(d)
  BY <1>1, SameRequest DEF Deliver, SignerTyped
<1>4. Tools!Move(c, "answered", "idle")
  BY <1>2, <1>3, OneRequestMoves
<1>5. addr' = addr /\ cancelled' = cancelled \ {c}
  BY DEF Deliver, Vault!Collect
<1>6. told' = IF reply[c] = "result" /\ c \notin cancelled THEN told \cup {addr} ELSE told
  BY <1>1 DEF Deliver, CallInv
<1>7. QED
  BY <1>4, <1>5, <1>6 DEF Tools!Deliver, Deliver

LEMMA EnvironmentRefines ==
  ASSUME IInv, GetAddress \/ Rotate \/ \E c \in Calls : ClientGone(c)
  PROVE  Tools!GetAddress \/ UNCHANGED Tools!vars \/ \E c \in Calls : Tools!ClientGone(c)
<1>1. UNCHANGED <<stage, sender, reply, audit, addr>>
  BY DEF GetAddress, Rotate, ClientGone, vaultVars, signerVars, Vault!WritePasswordFile,
      Vault!Cancel
<1>2. UNCHANGED [d \in Calls |-> RequestOf(d)]
  <2>1. \A d \in Calls : RequestOf(d)' = RequestOf(d)
    BY <1>1, SameRequest
  <2>2. QED
    BY <2>1, NoRequestMoves
<1>3. CASE GetAddress
  BY <1>1, <1>2, <1>3 DEF GetAddress, Tools!GetAddress, vaultVars
<1>4. CASE Rotate
  BY <1>1, <1>2, <1>4 DEF Rotate, Vault!WritePasswordFile, signerVars, Tools!vars
<1>5. ASSUME NEW c \in Calls, ClientGone(c)
      PROVE  Tools!ClientGone(c)
  <2>1. RequestOf(c) # "idle"
    BY <1>5, StageOf DEF ClientGone
  <2>2. QED
    BY <1>1, <1>2, <1>5, <2>1 DEF ClientGone, Vault!Cancel, signerVars, Tools!ClientGone
<1>6. QED
  BY <1>3, <1>4, <1>5

(* Every behaviour of the tools over the vault is one SigningTools allows. *)
THEOREM Promise == Spec => ImplementsTools
<1>1. Init => Tools!Init
  BY DEF Init, Vault!Init, Tools!Init, RequestOf
<1>2. RefInv /\ [Next]_vars => [Tools!Next]_Tools!vars
  <2> SUFFICES ASSUME RefInv, [Next]_vars
               PROVE  [Tools!Next]_Tools!vars
    OBVIOUS
  <2>1. CASE UNCHANGED vars
    <3>1. \A d \in Calls : RequestOf(d)' = RequestOf(d)
      BY <2>1, SameRequest DEF vars, signerVars
    <3>2. UNCHANGED [d \in Calls |-> RequestOf(d)]
      BY <3>1, NoRequestMoves
    <3>3. QED
      BY <2>1, <3>2 DEF vars, vaultVars, signerVars, Tools!vars
  <2>2. CASE GetAddress \/ Rotate \/ \E c \in Calls : ClientGone(c)
    BY <2>2, EnvironmentRefines DEF RefInv, Tools!Next
  <2>3. ASSUME NEW c \in Calls,
               Handle(c) \/ Deliver(c) \/ \E v \in Verdicts : Receive(c, v)
        PROVE  [Tools!Next]_Tools!vars
    BY <2>3, ReceiveRefines, RefuseRefines, EnterVaultRefines, VaultStepRefines,
       CallbackRefines, FinishRefines, DeliverRefines DEF RefInv, Handle, Tools!Next
  <2>4. QED
    BY <2>1, <2>2, <2>3 DEF Next
<1>3. QED
  BY <1>1, <1>2, RefInvariant, PTL DEF Spec, Tools!Spec, ImplementsTools
=============================================================================
