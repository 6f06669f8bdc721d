------------------------ MODULE FileKeyVault_proofs ------------------------
(***************************************************************************)
(* The safety properties of FileKeyVault, for any set of calls, contents   *)
(* of the password file and addresses.                                     *)
(***************************************************************************)
EXTENDS FileKeyVault, SequenceTheorems, TLAPS

(***************************************************************************)
(* The inductive invariant. OneCallInside is not inductive: a call gets in *)
(* through the channel (so a free channel must mean that nobody is inside) *)
(* or by being handed the slot (so the head of the queue must be a call    *)
(* that is really blocked, and the call that releases must be inside).     *)
(***************************************************************************)
SemInv ==
  /\ OneCallInside
  /\ sem = 0 => \A c \in Calls : ~Holds(c)

Distinct(q) == \A i, j \in DOMAIN q : q[i] = q[j] => i = j

QueueInv ==
  /\ \A i \in DOMAIN waitq : pc[waitq[i]] = "queued"
  /\ Distinct(waitq)

(* Where a call is tells which of its secrets may be in memory.            *)
SecretsInv ==
  \A c \in Calls :
    /\ pwBuf[c] # Zeroed => pc[c] \in {"decrypt", "discover", "fn", "zeroKey", "zeroPw"}
    /\ c \in liveKeys => pc[c] \in {"discover", "fn", "zeroKey"}

(* What a call has of the password file, the file held while it was inside. *)
RotationInv ==
  /\ RotationTakesEffect
  /\ \A c \in Calls :
       /\ pc[c] \in Admitted => pwFile \in seen[c]
       /\ pc[c] \in Admitted /\ pwBuf[c] # Zeroed => pwBuf[c] \in seen[c]
       /\ pc[c] = "decrypt" => pwBuf[c] \in Passwords

IInv == TypeOK /\ SemInv /\ QueueInv /\ SecretsInv /\ RotationInv

-----------------------------------------------------------------------------
(* Queues: what is left of one when a call in the middle gives up.         *)

(* What precedes entry k of a queue, and what follows it.                  *)
LEMMA PartsOfQueue ==
  ASSUME NEW S, NEW n \in Nat, NEW k \in 1..n, NEW q \in Seq(S), Len(q) = n
  PROVE  LET a == SubSeq(q, 1, k - 1)
             b == SubSeq(q, k + 1, n)
         IN  /\ a \in Seq(S) /\ Len(a) = k - 1 /\ \A i \in 1..(k - 1) : a[i] = q[i]
             /\ b \in Seq(S) /\ Len(b) = n - k /\ \A i \in 1..(n - k) : b[i] = q[i + k]
OBVIOUS

(* Two queues of these lengths, one after the other.                       *)
LEMMA JoinedQueue ==
  ASSUME NEW S, NEW a \in Seq(S), NEW b \in Seq(S), NEW n \in Nat, NEW k \in 1..n,
         Len(a) = k - 1, Len(b) = n - k
  PROVE  /\ a \o b \in Seq(S)
         /\ Len(a \o b) = n - 1
         /\ \A i \in 1..(n - 1) : (a \o b)[i] = IF i < k THEN a[i] ELSE b[i - (k - 1)]
<1>1. a \o b \in Seq(S) /\ Len(a \o b) = n - 1
  OBVIOUS
<1>2. ASSUME NEW i \in 1..(n - 1)
      PROVE  (a \o b)[i] = IF i < k THEN a[i] ELSE b[i - (k - 1)]
  OBVIOUS
<1>3. QED
  BY <1>1, <1>2

(* A queue without its entry k holds the other entries, in order.          *)
LEMMA RemoveEntry ==
  ASSUME NEW S, NEW n \in Nat, NEW k \in 1..n, NEW q \in Seq(S), Len(q) = n
  PROVE  LET r == RemoveAt(q, k)
         IN  /\ r \in Seq(S)
             /\ DOMAIN r = 1..(n - 1)
             /\ \A i \in 1..(n - 1) : r[i] = IF i < k THEN q[i] ELSE q[i + 1]
<1> DEFINE a == SubSeq(q, 1, k - 1)
           b == SubSeq(q, k + 1, n)
           r == a \o b
<1>1. /\ a \in Seq(S) /\ Len(a) = k - 1 /\ \A i \in 1..(k - 1) : a[i] = q[i]
      /\ b \in Seq(S) /\ Len(b) = n - k /\ \A i \in 1..(n - k) : b[i] = q[i + k]
  BY PartsOfQueue
<1>2. a \in Seq(S) /\ Len(a) = k - 1 /\ b \in Seq(S) /\ Len(b) = n - k
  BY <1>1
<1> HIDE DEF a, b
<1>3. /\ a \o b \in Seq(S)
      /\ Len(a \o b) = n - 1
      /\ \A i \in 1..(n - 1) : (a \o b)[i] = IF i < k THEN a[i] ELSE b[i - (k - 1)]
  BY <1>2, JoinedQueue
<1> HIDE DEF r
<1>4. DOMAIN r = 1..(n - 1)
  BY <1>3 DEF r
<1>5. ASSUME NEW i \in 1..(n - 1)
      PROVE  r[i] = IF i < k THEN q[i] ELSE q[i + 1]
  <2>1. CASE i < k
    <3>1. i \in 1..(k - 1)
      BY <2>1
    <3>2. QED
      BY <2>1, <3>1, <1>1, <1>3 DEF r
  <2>2. CASE ~(i < k)
    <3>1. i - (k - 1) \in 1..(n - k) /\ (i - (k - 1)) + k = i + 1
      BY <2>2
    <3>2. QED
      BY <2>2, <3>1, <1>1, <1>3 DEF r
  <2>3. QED
    BY <2>1, <2>2
<1>6. QED
  BY <1>3, <1>4, <1>5 DEF RemoveAt, r, a, b

(* Skipping entry k keeps positions apart.                                 *)
LEMMA SkipOver ==
  ASSUME NEW n \in Nat, NEW k \in 1..n, NEW i \in 1..(n - 1), NEW j \in 1..(n - 1)
  PROVE  LET at(m) == IF m < k THEN m ELSE m + 1
         IN  at(i) \in 1..n /\ at(i) # k /\ (at(i) = at(j) => i = j)
OBVIOUS

(* When one entry of a queue without duplicates is taken out, what is left *)
(* has no duplicates and does not hold that entry.                         *)
LEMMA GiveUpQueue ==
  ASSUME NEW S, NEW q \in Seq(S), NEW k \in DOMAIN q, Distinct(q)
  PROVE  LET r == RemoveAt(q, k)
         IN  /\ r \in Seq(S)
             /\ Distinct(r)
             /\ \A i \in DOMAIN r : r[i] # q[k] /\ \E j \in DOMAIN q : r[i] = q[j]
<1> DEFINE r == RemoveAt(q, k)
<1>1. PICK n \in Nat : Len(q) = n /\ DOMAIN q = 1..n
  OBVIOUS
<1>2. k \in 1..n
  BY <1>1
<1>3. /\ r \in Seq(S)
      /\ DOMAIN r = 1..(n - 1)
      /\ \A i \in 1..(n - 1) : r[i] = IF i < k THEN q[i] ELSE q[i + 1]
  BY <1>1, <1>2, RemoveEntry
<1> HIDE DEF r
<1> DEFINE at(i) == IF i < k THEN i ELSE i + 1
<1>4. /\ \A i \in 1..(n - 1) : at(i) \in 1..n /\ at(i) # k
      /\ \A i, j \in 1..(n - 1) : at(i) = at(j) => i = j
  BY <1>2, SkipOver
<1>5. \A i \in 1..(n - 1) : r[i] = q[at(i)]
  BY <1>3
<1> HIDE DEF at
<1>6. Distinct(r)
  <2>1. ASSUME NEW i \in 1..(n - 1), NEW j \in 1..(n - 1), r[i] = r[j]
        PROVE  i = j
    <3>1. at(i) = at(j)
      BY <2>1, <1>1, <1>4, <1>5 DEF Distinct
    <3>2. QED
      BY <3>1, <1>4
  <2>2. QED
    BY <2>1, <1>3 DEF Distinct
<1>7. \A i \in DOMAIN r : r[i] # q[k] /\ \E j \in DOMAIN q : r[i] = q[j]
  <2>1. ASSUME NEW i \in 1..(n - 1)
        PROVE  r[i] # q[k] /\ \E j \in 1..n : r[i] = q[j]
    <3>1. at(i) \in 1..n /\ at(i) # k /\ r[i] = q[at(i)]
      BY <1>4, <1>5
    <3>2. QED
      BY <3>1, <1>1, <1>2 DEF Distinct
  <2>2. QED
    BY <2>1, <1>1, <1>3
<1>8. QED
  BY <1>3, <1>6, <1>7 DEF r

(* And no other call is taken out with it.                                 *)
LEMMA OthersStay ==
  ASSUME NEW S, NEW q \in Seq(S), NEW k \in DOMAIN q
  PROVE  \A j \in DOMAIN q : q[j] # q[k] =>
           \E i \in DOMAIN RemoveAt(q, k) : RemoveAt(q, k)[i] = q[j]
<1> DEFINE r == RemoveAt(q, k)
<1>1. PICK n \in Nat : Len(q) = n /\ DOMAIN q = 1..n
  OBVIOUS
<1>2. k \in 1..n
  BY <1>1
<1>3. /\ DOMAIN r = 1..(n - 1)
      /\ \A i \in 1..(n - 1) : r[i] = IF i < k THEN q[i] ELSE q[i + 1]
  BY <1>1, <1>2, RemoveEntry
<1> HIDE DEF r
<1>4. ASSUME NEW j \in 1..n, q[j] # q[k]
      PROVE  \E i \in 1..(n - 1) : r[i] = q[j]
  <2>1. j # k
    BY <1>4
  <2>2. CASE j < k
    <3>1. j \in 1..(n - 1)
      BY <1>2, <2>2
    <3>2. QED
      BY <1>3, <2>2, <3>1
  <2>3. CASE j > k
    <3>1. j - 1 \in 1..(n - 1) /\ ~(j - 1 < k) /\ (j - 1) + 1 = j
      BY <1>2, <2>3
    <3>2. r[j - 1] = q[j]
      BY <1>3, <3>1
    <3>3. QED
      BY <3>1, <3>2
  <2>4. QED
    BY <1>2, <2>1, <2>2, <2>3
<1>5. QED
  BY <1>1, <1>3, <1>4 DEF r

(* The same when the first entry is taken out.                             *)
LEMMA HandOffQueue ==
  ASSUME NEW S, NEW q \in Seq(S), q # << >>, Distinct(q)
  PROVE  /\ Tail(q) \in Seq(S)
         /\ Distinct(Tail(q))
         /\ Head(q) \in S /\ 1 \in DOMAIN q /\ Head(q) = q[1]
         /\ \A i \in DOMAIN Tail(q) :
              Tail(q)[i] # Head(q) /\ \E j \in DOMAIN q : Tail(q)[i] = q[j]
<1>1. PICK n \in Nat : n > 0 /\ Len(q) = n /\ DOMAIN q = 1..n
  OBVIOUS
<1>2. Tail(q) \in Seq(S) /\ DOMAIN Tail(q) = 1..(n - 1) /\ Head(q) \in S /\ Head(q) = q[1]
  BY <1>1
<1>3. ASSUME NEW i \in 1..(n - 1)
      PROVE  Tail(q)[i] = q[i + 1] /\ i + 1 \in 1..n /\ i + 1 # 1
  BY <1>1
<1>4. Distinct(Tail(q))
  BY <1>1, <1>2, <1>3 DEF Distinct
<1>5. \A i \in DOMAIN Tail(q) :
        Tail(q)[i] # Head(q) /\ \E j \in DOMAIN q : Tail(q)[i] = q[j]
  BY <1>1, <1>2, <1>3 DEF Distinct
<1>6. QED
  BY <1>1, <1>2, <1>4, <1>5

(* A newcomer at the end.                                                  *)
LEMMA EnqueueQueue ==
  ASSUME NEW S, NEW q \in Seq(S), NEW c \in S, Distinct(q), \A i \in DOMAIN q : q[i] # c
  PROVE  /\ Append(q, c) \in Seq(S)
         /\ Distinct(Append(q, c))
         /\ \A i \in DOMAIN Append(q, c) :
              Append(q, c)[i] = c \/ \E j \in DOMAIN q : Append(q, c)[i] = q[j]
BY DEF Distinct

-----------------------------------------------------------------------------
(* The invariant is inductive.                                             *)

LEMMA InitIInv == Init => IInv
BY FileKeyVaultAssumption
   DEF Init, IInv, TypeOK, SemInv, OneCallInside, Holds, QueueInv, Distinct, SecretsInv,
       RotationInv, RotationTakesEffect, Places, Waiting, Admitted, Working,
       Closing, Contents, Snapshots, Outcomes, FnOutcomes

LEMMA StepIInv == IInv /\ [Next]_vars => IInv'
<1> SUFFICES ASSUME IInv, [Next]_vars
             PROVE  IInv'
  OBVIOUS
<1> USE FileKeyVaultAssumption
    DEF IInv, TypeOK, SemInv, OneCallInside, Holds, QueueInv, SecretsInv,
        RotationInv, RotationTakesEffect, Places, Waiting, Admitted, Working,
        Closing, Contents, Snapshots, Outcomes, FnOutcomes, Goto
<1>1. ASSUME NEW c \in Calls, Start(c)
      PROVE  IInv'
  BY <1>1 DEF Start
<1>2. ASSUME NEW c \in Calls, Acquire(c)
      PROVE  IInv'
  BY <1>2 DEF Acquire
<1>3. ASSUME NEW c \in Calls, Enqueue(c)
      PROVE  IInv'
  <2>1. /\ waitq' \in Seq(Calls)
        /\ Distinct(waitq')
        /\ \A i \in DOMAIN waitq' : waitq'[i] = c \/ \E j \in DOMAIN waitq : waitq'[i] = waitq[j]
    BY <1>3, EnqueueQueue DEF Enqueue
  <2>2. QED
    BY <1>3, <2>1 DEF Enqueue
<1>4. ASSUME NEW c \in Calls, GiveUp(c)
      PROVE  IInv'
  <2>1. CASE pc[c] = "select" /\ UNCHANGED waitq
    BY <1>4, <2>1 DEF GiveUp
  <2>2. ASSUME NEW k \in DOMAIN waitq, waitq[k] = c,
               waitq' = RemoveAt(waitq, k)
        PROVE  IInv'
    <3>1. waitq \in Seq(Calls) /\ Distinct(waitq) /\ pc[c] = "queued"
      BY <2>2
    <3>2. /\ waitq' \in Seq(Calls)
          /\ Distinct(waitq')
          /\ \A i \in DOMAIN waitq' : waitq'[i] # waitq[k] /\ \E j \in DOMAIN waitq : waitq'[i] = waitq[j]
      BY <2>2, <3>1, GiveUpQueue
    <3>3. QED
      BY <1>4, <2>2, <3>1, <3>2 DEF GiveUp
  <2>3. QED
    BY <1>4, <2>1, <2>2 DEF GiveUp
<1>5. ASSUME NEW c \in Calls, RecheckFails(c)
      PROVE  IInv'
  <2>1. CASE waitq = << >>
    BY <1>5, <2>1 DEF RecheckFails, ReleaseAndReturn
  <2>2. CASE waitq # << >>
    <3>1. /\ Tail(waitq) \in Seq(Calls)
          /\ Distinct(Tail(waitq))
          /\ Head(waitq) \in Calls /\ 1 \in DOMAIN waitq /\ Head(waitq) = waitq[1]
          /\ \A i \in DOMAIN Tail(waitq) :
               Tail(waitq)[i] # Head(waitq) /\ \E j \in DOMAIN waitq : Tail(waitq)[i] = waitq[j]
      BY <2>2, HandOffQueue
    <3>2. pc[Head(waitq)] = "queued" /\ Head(waitq) # c
      BY <1>5, <3>1 DEF RecheckFails
    <3>3. /\ pc' = [pc EXCEPT ![c] = "done", ![Head(waitq)] = "recheck"]
          /\ waitq' = Tail(waitq)
          /\ UNCHANGED sem
      BY <1>5, <2>2 DEF RecheckFails, ReleaseAndReturn
    <3>4. QueueInv'
      <4>1. ASSUME NEW i \in DOMAIN waitq'
            PROVE  pc'[waitq'[i]] = "queued"
        BY <3>1, <3>2, <3>3, <1>5 DEF RecheckFails
      <4>2. QED
        BY <3>1, <3>3, <4>1
    <3>5. TypeOK'
      BY <1>5, <3>1, <3>3 DEF RecheckFails
    <3>6. SemInv'
      <4>1. Holds(c) /\ \A d \in Calls : Holds(d) => d = c
        BY <1>5 DEF RecheckFails
      <4>2. \A d \in Calls : Holds(d)' => d = Head(waitq)
        BY <4>1, <3>1, <3>2, <3>3
      <4>3. sem' = 1
        BY <4>1, <3>3
      <4>4. QED
        BY <4>2, <4>3
    <3>7. SecretsInv' /\ RotationInv'
      BY <1>5, <3>1, <3>2, <3>3 DEF RecheckFails
    <3>8. QED
      BY <3>4, <3>5, <3>6, <3>7
  <2>3. QED
    BY <2>1, <2>2
<1>6. ASSUME NEW c \in Calls, Recheck(c)
      PROVE  IInv'
  BY <1>6 DEF Recheck
<1>7. ASSUME NEW c \in Calls, ReadPassword(c)
      PROVE  IInv'
  BY <1>7 DEF ReadPassword
<1>8. ASSUME NEW c \in Calls, Decrypt(c)
      PROVE  IInv'
  BY <1>8 DEF Decrypt, DecryptKey, DecryptOutcome
<1>9. ASSUME NEW c \in Calls, Discover(c)
      PROVE  IInv'
  BY <1>9 DEF Discover
<1>10. ASSUME NEW c \in Calls, ZeroKey(c)
      PROVE  IInv'
  BY <1>10 DEF ZeroKey
<1>11. ASSUME NEW c \in Calls, ZeroPassword(c)
      PROVE  IInv'
  BY <1>11 DEF ZeroPassword
<1>12. ASSUME NEW c \in Calls, Release(c)
      PROVE  IInv'
  <2>1. CASE waitq = << >>
    BY <1>12, <2>1 DEF Release, ReleaseAndReturn
  <2>2. CASE waitq # << >>
    <3>1. /\ Tail(waitq) \in Seq(Calls)
          /\ Distinct(Tail(waitq))
          /\ Head(waitq) \in Calls /\ 1 \in DOMAIN waitq /\ Head(waitq) = waitq[1]
          /\ \A i \in DOMAIN Tail(waitq) :
               Tail(waitq)[i] # Head(waitq) /\ \E j \in DOMAIN waitq : Tail(waitq)[i] = waitq[j]
      BY <2>2, HandOffQueue
    <3>2. pc[Head(waitq)] = "queued" /\ Head(waitq) # c
      BY <1>12, <3>1 DEF Release
    <3>3. /\ pc' = [pc EXCEPT ![c] = "done", ![Head(waitq)] = "recheck"]
          /\ waitq' = Tail(waitq)
          /\ UNCHANGED sem
      BY <1>12, <2>2 DEF Release, ReleaseAndReturn
    <3>4. QueueInv'
      <4>1. ASSUME NEW i \in DOMAIN waitq'
            PROVE  pc'[waitq'[i]] = "queued"
        BY <3>1, <3>2, <3>3, <1>12 DEF Release
      <4>2. QED
        BY <3>1, <3>3, <4>1
    <3>5. TypeOK'
      BY <1>12, <3>1, <3>3 DEF Release
    <3>6. SemInv'
      BY <1>12, <3>1, <3>2, <3>3 DEF Release
    <3>7. SecretsInv' /\ RotationInv'
      BY <1>12, <3>1, <3>2, <3>3 DEF Release
    <3>8. QED
      BY <3>4, <3>5, <3>6, <3>7
  <2>3. QED
    BY <2>1, <2>2
<1>13. ASSUME NEW c \in Calls, Cancel(c)
      PROVE  IInv'
  BY <1>13 DEF Cancel
<1>14. ASSUME NEW c \in Calls, Collect(c)
      PROVE  IInv'
  BY <1>14 DEF Collect
<1>15. ASSUME NEW c \in Calls, FnReturns(c)
      PROVE  IInv'
  BY <1>15 DEF FnReturns, RunFn
<1>16. ASSUME NEW content \in Contents, WritePasswordFile(content)
      PROVE  IInv'
  BY <1>16 DEF WritePasswordFile
<1>17. CASE UNCHANGED vars
  BY <1>17 DEF vars
<1>18. QED
  BY <1>1, <1>2, <1>3, <1>4, <1>5, <1>6, <1>7, <1>8, <1>9, <1>10, <1>11, <1>12, <1>13, <1>14,
       <1>15, <1>16, <1>17 DEF Next, Step

LEMMA Inductive == Spec => []IInv
BY InitIInv, StepIInv, PTL DEF Spec

-----------------------------------------------------------------------------
(* What follows from it.                                                   *)

(* Every variable keeps its type.                                          *)
THEOREM TypeCorrect == Spec => []TypeOK
<1>1. IInv => TypeOK
  BY DEF IInv
<1>2. QED
  BY <1>1, Inductive, PTL

(* However many calls there are, at most one is past the semaphore.        *)
THEOREM MutualExclusion == Spec => []OneCallInside
<1>1. IInv => OneCallInside
  BY DEF IInv, SemInv
<1>2. QED
  BY <1>1, Inductive, PTL

(* No password and no key is in memory outside the critical section.       *)
THEOREM Confinement == Spec => []SecretsConfined
<1>1. IInv => SecretsConfined
  BY DEF IInv, SecretsInv, SecretsConfined, Admitted, Working, Closing
<1>2. QED
  BY <1>1, Inductive, PTL

(* No call depends on a password that the file did not hold during it.     *)
THEOREM Rotation == Spec => []RotationTakesEffect
<1>1. IInv => RotationTakesEffect
  BY DEF IInv, RotationInv
<1>2. QED
  BY <1>1, Inductive, PTL

(* An address, once known, is known for good.                              *)
THEOREM AddressFinality == Spec => AddressIsFinal
<1>1. [Next]_vars => [addr # NoAddr => addr' = addr]_vars
  BY DEF Next, Step, FnReturns, Start, Acquire, Enqueue, GiveUp, RecheckFails, Recheck,
         ReadPassword, Decrypt, Discover, RunFn, ZeroKey, ZeroPassword, Release, Cancel,
         Collect, WritePasswordFile, vars
<1>2. QED
  BY <1>1, PTL DEF Spec, AddressIsFinal

LEMMA StepCancels == IInv /\ [Next]_vars => [\A c \in Calls : CancelStep(c)]_vars
<1> SUFFICES ASSUME IInv, [Next]_vars, NEW d \in Calls
             PROVE  CancelStep(d) \/ UNCHANGED vars
  OBVIOUS
<1> USE DEF IInv, TypeOK, Goto, Waiting, Working, Closing, Admitted, Places, CancelStep
<1>1. ASSUME NEW c \in Calls, Start(c)
      PROVE  CancelStep(d)
  BY <1>1 DEF Start
<1>2. ASSUME NEW c \in Calls, Acquire(c)
      PROVE  CancelStep(d)
  BY <1>2 DEF Acquire
<1>3. ASSUME NEW c \in Calls, Enqueue(c)
      PROVE  CancelStep(d)
  BY <1>3 DEF Enqueue
<1>4. ASSUME NEW c \in Calls, GiveUp(c)
      PROVE  CancelStep(d)
  <2>1. pc[c] \in Waiting
    BY <1>4 DEF GiveUp, QueueInv
  <2>2. QED
    BY <1>4, <2>1 DEF GiveUp
<1>5. ASSUME NEW c \in Calls, RecheckFails(c)
      PROVE  CancelStep(d)
  <2>1. waitq # << >> => Head(waitq) \in Calls /\ pc[Head(waitq)] = "queued"
    BY DEF QueueInv
  <2>2. QED
    BY <1>5, <2>1 DEF RecheckFails, ReleaseAndReturn
<1>6. ASSUME NEW c \in Calls, Recheck(c)
      PROVE  CancelStep(d)
  BY <1>6 DEF Recheck
<1>7. ASSUME NEW c \in Calls, ReadPassword(c)
      PROVE  CancelStep(d)
  BY <1>7 DEF ReadPassword
<1>8. ASSUME NEW c \in Calls, Decrypt(c)
      PROVE  CancelStep(d)
  BY <1>8 DEF Decrypt, DecryptKey, DecryptOutcome, Snapshots
<1>9. ASSUME NEW c \in Calls, Discover(c)
      PROVE  CancelStep(d)
  BY <1>9 DEF Discover
<1>10. ASSUME NEW c \in Calls, ZeroKey(c)
      PROVE  CancelStep(d)
  BY <1>10 DEF ZeroKey
<1>11. ASSUME NEW c \in Calls, ZeroPassword(c)
      PROVE  CancelStep(d)
  BY <1>11 DEF ZeroPassword
<1>12. ASSUME NEW c \in Calls, Release(c)
      PROVE  CancelStep(d)
  <2>1. waitq # << >> => Head(waitq) \in Calls /\ pc[Head(waitq)] = "queued"
    BY DEF QueueInv
  <2>2. QED
    BY <1>12, <2>1 DEF Release, ReleaseAndReturn
<1>13. ASSUME NEW c \in Calls, Cancel(c)
      PROVE  CancelStep(d)
  BY <1>13 DEF Cancel
<1>14. ASSUME NEW c \in Calls, Collect(c)
      PROVE  CancelStep(d)
  BY <1>14 DEF Collect
<1>15. ASSUME NEW c \in Calls, NEW result \in FnOutcomes, RunFn(c, result)
      PROVE  CancelStep(d)
  BY <1>15 DEF RunFn, FnOutcomes
<1>16. ASSUME NEW content \in Contents, WritePasswordFile(content)
      PROVE  CancelStep(d)
  BY <1>16 DEF WritePasswordFile
<1>17. QED
  BY <1>1, <1>2, <1>3, <1>4, <1>5, <1>6, <1>7, <1>8, <1>9, <1>10, <1>11, <1>12, <1>13, <1>14,
       <1>15, <1>16 DEF Next, Step, FnReturns

(* The recheck is the point of no return for a cancelled call.             *)
THEOREM Cancellation == Spec => CancelWins
BY StepCancels, Inductive, PTL DEF Spec, CancelWins

-----------------------------------------------------------------------------
(* The slot and the queue.                                                 *)

(* A step that moves one call, without giving or taking the slot and       *)
(* without blocking or waking anyone, keeps them in order.                 *)
LEMMA SlotKept ==
  ASSUME TypeOK, NoSlotLost, NEW c \in Calls, NEW place, Goto(c, place),
         UNCHANGED <<sem, waitq>>, pc[c] # "queued", place # "queued",
         Holds(c) <=> place \in Admitted \cup {"recheck"}
  PROVE  NoSlotLost'
<1>1. \A d \in Calls : (Holds(d)' <=> Holds(d)) /\ (pc'[d] = "queued" <=> pc[d] = "queued")
  BY DEF TypeOK, Goto, Holds
<1>2. QED
  BY <1>1 DEF NoSlotLost

(* A call that returns frees the slot, or gives it to the head of the      *)
(* queue, which is then no longer in it.                                   *)
LEMMA SlotReleased ==
  ASSUME IInv, NoSlotLost, NEW c \in Calls, Holds(c), ReleaseAndReturn(c)
  PROVE  NoSlotLost'
<1> USE DEF IInv, TypeOK, Places, Waiting, Admitted, Working, Closing
<1>1. sem = 1 /\ \A d \in Calls : Holds(d) => d = c
  BY DEF SemInv, OneCallInside, NoSlotLost
<1>2. CASE waitq = << >>
  <2>1. sem' = 0 /\ pc' = [pc EXCEPT ![c] = "done"] /\ waitq' = waitq
    BY <1>1, <1>2 DEF ReleaseAndReturn, Goto
  <2>2. \A d \in Calls : ~Holds(d)' /\ (pc'[d] = "queued" <=> pc[d] = "queued")
    BY <1>1, <2>1 DEF Holds
  <2>3. QED
    BY <1>2, <2>1, <2>2 DEF NoSlotLost
<1>3. CASE waitq # << >>
  <2>0. PICK h \in Calls : h = Head(waitq)
    BY <1>3
  <2>1. /\ pc' = [pc EXCEPT ![c] = "done", ![h] = "recheck"]
        /\ waitq' = Tail(waitq) /\ sem' = sem
    BY <1>3, <2>0 DEF ReleaseAndReturn
  <2>2. h \in Calls /\ h = waitq[1] /\ pc[h] = "queued"
    BY <1>3, <2>0 DEF QueueInv
  <2>3. h # c
    BY <2>2 DEF Holds
  <2>4. \A i \in DOMAIN Tail(waitq) :
          Tail(waitq)[i] # h /\ \E j \in DOMAIN waitq : Tail(waitq)[i] = waitq[j]
    BY <1>3, <2>0, HandOffQueue DEF QueueInv
  <2>5. \A j \in DOMAIN waitq : waitq[j] # h => \E i \in DOMAIN Tail(waitq) : Tail(waitq)[i] = waitq[j]
    <3>1. ASSUME NEW j \in DOMAIN waitq, waitq[j] # h
          PROVE  j - 1 \in DOMAIN Tail(waitq) /\ Tail(waitq)[j - 1] = waitq[j]
      <4>1. j # 1
        BY <3>1, <2>2
      <4>2. QED
        BY <1>3, <4>1
    <3>2. QED
      BY <3>1
  <2>6. Holds(h)' /\ sem' = 1
    <3>1. pc'[h] = "recheck"
      BY <2>1, <2>2, <2>3
    <3>2. QED
      BY <1>1, <2>1, <3>1 DEF Holds
  <2>7. ASSUME NEW d \in Calls
        PROVE  pc'[d] = "queued" <=> \E i \in DOMAIN waitq' : waitq'[i] = d
    <3>1. CASE d = c
      <4>1. pc[c] # "queued" /\ pc'[c] # "queued"
        BY <2>1, <2>2, <2>3 DEF Holds
      <4>2. QED
        BY <3>1, <4>1, <2>1, <2>4 DEF NoSlotLost
    <3>2. CASE d = h
      BY <3>2, <2>1, <2>2, <2>4
    <3>3. CASE d # c /\ d # h
      <4>1. pc'[d] = pc[d]
        BY <3>3, <2>1
      <4>2. QED
        BY <3>3, <4>1, <2>1, <2>4, <2>5 DEF NoSlotLost
    <3>4. QED
      BY <3>1, <3>2, <3>3
  <2>8. QED
    <3>1. \E d \in Calls : Holds(d)'
      BY <2>2, <2>6
    <3>2. QED
      BY <2>6, <2>7, <3>1 DEF NoSlotLost
<1>4. QED
  BY <1>2, <1>3

LEMMA StepSlot == IInv /\ NoSlotLost /\ [Next]_vars => NoSlotLost'
<1> SUFFICES ASSUME IInv, NoSlotLost, [Next]_vars
             PROVE  NoSlotLost'
  OBVIOUS
<1>0. TypeOK
  BY DEF IInv
<1> USE DEF Waiting, Admitted, Working, Closing
<1>1. ASSUME NEW c \in Calls, Start(c)
      PROVE  NoSlotLost'
  BY <1>0, <1>1, SlotKept DEF Start, Holds
<1>2. ASSUME NEW c \in Calls, Acquire(c)
      PROVE  NoSlotLost'
  <2>1. sem = 0 /\ waitq = << >>
    BY <1>0, <1>2 DEF Acquire, NoSlotLost, TypeOK
  <2>2. pc' = [pc EXCEPT ![c] = "recheck"] /\ sem' = 1 /\ waitq' = waitq
    BY <1>2, <2>1 DEF Acquire, Goto
  <2>3. Holds(c)' /\ \A d \in Calls : pc'[d] = "queued" <=> pc[d] = "queued"
    BY <1>0, <1>2, <2>2 DEF Acquire, Holds, TypeOK
  <2>4. QED
    BY <2>1, <2>2, <2>3 DEF NoSlotLost
<1>3. ASSUME NEW c \in Calls, Enqueue(c)
      PROVE  NoSlotLost'
  <2>1. pc' = [pc EXCEPT ![c] = "queued"] /\ sem' = 1 /\ sem = 1 /\ pc[c] = "select"
    BY <1>3 DEF Enqueue, Goto
  <2>2. PICK d \in Calls : Holds(d)
    BY <2>1 DEF NoSlotLost
  <2>3. Holds(d)'
    BY <1>0, <2>1, <2>2 DEF Holds, TypeOK
  <2>4. \A e \in Calls :
          (\E i \in DOMAIN waitq' : waitq'[i] = e) <=> e = c \/ \E i \in DOMAIN waitq : waitq[i] = e
    <3> DEFINE n == Len(waitq)
    <3>1. waitq \in Seq(Calls) /\ waitq' = Append(waitq, c)
      BY <1>0, <1>3 DEF Enqueue, TypeOK
    <3>2. /\ n \in Nat /\ DOMAIN waitq = 1..n /\ DOMAIN waitq' = 1..(n + 1)
          /\ waitq'[n + 1] = c /\ \A i \in 1..n : waitq'[i] = waitq[i]
      BY <3>1
    <3> HIDE DEF n
    <3>3. n + 1 \in 1..(n + 1) /\ 1..n \subseteq 1..(n + 1) /\ 1..(n + 1) = 1..n \cup {n + 1}
      BY <3>2
    <3>4. QED
      BY <3>2, <3>3
  <2>5. QED
    BY <1>0, <2>1, <2>3, <2>4 DEF NoSlotLost, TypeOK
<1>4. ASSUME NEW c \in Calls, GiveUp(c)
      PROVE  NoSlotLost'
  <2>1. CASE pc[c] = "select" /\ UNCHANGED waitq
    BY <1>0, <1>4, <2>1, SlotKept DEF GiveUp, Holds
  <2>2. ASSUME NEW k \in DOMAIN waitq, waitq[k] = c, waitq' = RemoveAt(waitq, k)
        PROVE  NoSlotLost'
    <3>1. waitq \in Seq(Calls) /\ Distinct(waitq) /\ pc[c] = "queued"
      BY <2>2 DEF IInv, TypeOK, QueueInv
    <3>2. \A i \in DOMAIN waitq' : waitq'[i] # c /\ \E j \in DOMAIN waitq : waitq'[i] = waitq[j]
      BY <2>2, <3>1, GiveUpQueue
    <3>3. \A j \in DOMAIN waitq : waitq[j] # c => \E i \in DOMAIN waitq' : waitq'[i] = waitq[j]
      BY <2>2, <3>1, OthersStay
    <3>4. pc' = [pc EXCEPT ![c] = "done"] /\ sem' = sem
      BY <1>4 DEF GiveUp, Goto
    <3>5. sem = 1
      <4>1. waitq # << >>
        BY <2>2
      <4>2. QED
        BY <4>1 DEF NoSlotLost
    <3>6. \A d \in Calls : Holds(d) => Holds(d)'
      BY <1>0, <3>1, <3>4 DEF Holds, TypeOK
    <3>7. ASSUME NEW d \in Calls
          PROVE  pc'[d] = "queued" <=> \E i \in DOMAIN waitq' : waitq'[i] = d
      <4>1. CASE d = c
        BY <1>0, <4>1, <3>2, <3>4 DEF TypeOK
      <4>2. CASE d # c
        <5>1. pc'[d] = pc[d]
          BY <1>0, <4>2, <3>4 DEF TypeOK
        <5>2. QED
          BY <4>2, <5>1, <3>2, <3>3 DEF NoSlotLost
      <4>3. QED
        BY <4>1, <4>2
    <3>8. QED
      BY <3>4, <3>5, <3>6, <3>7 DEF NoSlotLost
  <2>3. QED
    BY <1>4, <2>1, <2>2 DEF GiveUp
<1>5. ASSUME NEW c \in Calls, RecheckFails(c)
      PROVE  NoSlotLost'
  BY <1>5, SlotReleased DEF RecheckFails, Holds
<1>6. ASSUME NEW c \in Calls, Recheck(c)
      PROVE  NoSlotLost'
  BY <1>0, <1>6, SlotKept DEF Recheck, Holds
<1>7. ASSUME NEW c \in Calls, ReadPassword(c)
      PROVE  NoSlotLost'
  BY <1>0, <1>7, SlotKept DEF ReadPassword, Holds
<1>8. ASSUME NEW c \in Calls, Decrypt(c)
      PROVE  NoSlotLost'
  BY <1>0, <1>8, SlotKept DEF Decrypt, Holds
<1>9. ASSUME NEW c \in Calls, Discover(c)
      PROVE  NoSlotLost'
  BY <1>0, <1>9, SlotKept DEF Discover, Holds
<1>10. ASSUME NEW c \in Calls, ZeroKey(c)
      PROVE  NoSlotLost'
  BY <1>0, <1>10, SlotKept DEF ZeroKey, Holds
<1>11. ASSUME NEW c \in Calls, ZeroPassword(c)
      PROVE  NoSlotLost'
  BY <1>0, <1>11, SlotKept DEF ZeroPassword, Holds
<1>12. ASSUME NEW c \in Calls, Release(c)
      PROVE  NoSlotLost'
  BY <1>12, SlotReleased DEF Release, Holds
<1>13. ASSUME NEW c \in Calls, Collect(c)
      PROVE  NoSlotLost'
  BY <1>0, <1>13, SlotKept DEF Collect, Holds
<1>14. ASSUME NEW c \in Calls, FnReturns(c)
      PROVE  NoSlotLost'
  BY <1>0, <1>14, SlotKept DEF FnReturns, RunFn, Holds
<1>15. CASE UNCHANGED <<pc, sem, waitq>>
  BY <1>15 DEF NoSlotLost, Holds
<1>16. QED
  BY <1>1, <1>2, <1>3, <1>4, <1>5, <1>6, <1>7, <1>8, <1>9, <1>10, <1>11, <1>12, <1>13, <1>14,
     <1>15 DEF Next, Step, Cancel, WritePasswordFile, vars

(* The semaphore is never lost to a call that has returned, and no call    *)
(* waits that nobody will wake, however many calls there are.              *)
THEOREM SlotAccounting == Spec => []NoSlotLost
<1>1. Init => NoSlotLost
  BY DEF Init, NoSlotLost, Holds, Admitted, Working, Closing
<1>2. QED
  BY <1>1, StepSlot, Inductive, PTL DEF Spec

-----------------------------------------------------------------------------
(* Every step of the vault is a step of the interface, or none.            *)

LEMMA InitRefines == Init => Interface!Init
BY DEF Init, Interface!Init, Phase, Waiting, Working, Closing

LEMMA StepRefines == IInv /\ [Next]_vars => [Interface!Next]_(Interface!vars)
<1> SUFFICES ASSUME IInv, [Next]_vars
             PROVE  [Interface!Next]_(Interface!vars)
  OBVIOUS
<1> DEFINE phase == [c \in Calls |-> Phase(c)]
<1> USE DEF IInv, TypeOK, Goto, Phase, Waiting, Working, Closing, Admitted, Places,
            Interface!Next, Interface!vars, Interface!Move
<1>1. ASSUME NEW c \in Calls, Start(c)
      PROVE  [Interface!Next]_(Interface!vars)
  BY <1>1 DEF Start, Interface!Ask
<1>2. ASSUME NEW c \in Calls, Acquire(c)
      PROVE  [Interface!Next]_(Interface!vars)
  BY <1>2 DEF Acquire
<1>3. ASSUME NEW c \in Calls, Enqueue(c)
      PROVE  [Interface!Next]_(Interface!vars)
  BY <1>3 DEF Enqueue
<1>4. ASSUME NEW c \in Calls, GiveUp(c)
      PROVE  [Interface!Next]_(Interface!vars)
  BY <1>4 DEF GiveUp, Interface!Dismiss, QueueInv
<1>5. ASSUME NEW c \in Calls, RecheckFails(c)
      PROVE  [Interface!Next]_(Interface!vars)
  <2>0. waitq # << >> => Head(waitq) \in Calls /\ pc[Head(waitq)] = "queued"
    BY DEF QueueInv
  <2>1. phase[c] = "asked" /\ phase' = [phase EXCEPT ![c] = "answered"]
    BY <1>5, <2>0 DEF RecheckFails, ReleaseAndReturn
  <2>2. Interface!Dismiss(c)
    BY <1>5, <2>1 DEF RecheckFails, Interface!Dismiss
  <2>3. QED
    BY <2>2
<1>6. ASSUME NEW c \in Calls, Recheck(c)
      PROVE  [Interface!Next]_(Interface!vars)
  <2>1. phase[c] = "asked" /\ phase' = [phase EXCEPT ![c] = "letIn"]
    BY <1>6 DEF Recheck
  <2>2. Interface!LetIn(c)
    BY <1>6, <2>1 DEF Recheck, Interface!LetIn, Interface!Inside, SemInv, OneCallInside, Holds
  <2>3. QED
    BY <2>2
<1>7. ASSUME NEW c \in Calls, ReadPassword(c)
      PROVE  [Interface!Next]_(Interface!vars)
  <2>1. CASE pwFile = Unreadable
    <3>1. phase[c] = "letIn" /\ phase' = [phase EXCEPT ![c] = "leaving"]
      BY <1>7, <2>1 DEF ReadPassword
    <3>2. Interface!Refuse(c)
      BY <1>7, <2>1, <3>1 DEF ReadPassword, Interface!Refuse, Interface!Refusals
    <3>3. QED
      BY <3>2
  <2>2. CASE pwFile # Unreadable
    <3>1. phase' = phase
      BY <1>7, <2>2 DEF ReadPassword
    <3>2. QED
      BY <1>7, <2>2, <3>1 DEF ReadPassword
  <2>3. QED
    BY <2>1, <2>2
<1>8. ASSUME NEW c \in Calls, Decrypt(c)
      PROVE  [Interface!Next]_(Interface!vars)
  <2>1. CASE pc' = [pc EXCEPT ![c] = "discover"] /\ UNCHANGED out
    <3>1. phase' = phase
      BY <1>8, <2>1 DEF Decrypt
    <3>2. QED
      BY <1>8, <2>1, <3>1 DEF Decrypt
  <2>2. ASSUME NEW failure \in {"ErrDecrypt", "otherErr", "panic"},
               out' = [out EXCEPT ![c] = DecryptOutcome(failure)],
               pc' = [pc EXCEPT ![c] = "zeroPw"]
        PROVE  [Interface!Next]_(Interface!vars)
    <3>1. phase[c] = "letIn" /\ phase' = [phase EXCEPT ![c] = "leaving"]
      BY <1>8, <2>2 DEF Decrypt
    <3>2. DecryptOutcome(failure) \in Interface!Refusals
      BY <2>2 DEF DecryptOutcome, Interface!Refusals
    <3>3. Interface!Refuse(c)
      BY <1>8, <2>2, <3>1, <3>2 DEF Decrypt, Interface!Refuse
    <3>4. QED
      BY <3>3
  <2>3. DecryptKey(pwBuf[c]) \ {"key"} \subseteq {"ErrDecrypt", "otherErr", "panic"}
    BY DEF DecryptKey, Snapshots
  <2>4. QED
    BY <1>8, <2>1, <2>2, <2>3 DEF Decrypt
<1>9. ASSUME NEW c \in Calls, Discover(c)
      PROVE  [Interface!Next]_(Interface!vars)
  BY <1>9 DEF Discover, Interface!OpenKey
<1>10. ASSUME NEW c \in Calls, ZeroKey(c)
      PROVE  [Interface!Next]_(Interface!vars)
  BY <1>10 DEF ZeroKey
<1>11. ASSUME NEW c \in Calls, ZeroPassword(c)
      PROVE  [Interface!Next]_(Interface!vars)
  BY <1>11 DEF ZeroPassword
<1>12. ASSUME NEW c \in Calls, Release(c)
      PROVE  [Interface!Next]_(Interface!vars)
  <2>0. waitq # << >> => Head(waitq) \in Calls /\ pc[Head(waitq)] = "queued"
    BY DEF QueueInv
  <2>1. phase[c] = "leaving" /\ phase' = [phase EXCEPT ![c] = "answered"]
    BY <1>12, <2>0 DEF Release, ReleaseAndReturn
  <2>2. Interface!Return(c)
    BY <1>12, <2>1 DEF Release, Interface!Return
  <2>3. QED
    BY <2>2
<1>13. ASSUME NEW c \in Calls, Cancel(c)
      PROVE  [Interface!Next]_(Interface!vars)
  BY <1>13 DEF Cancel, Interface!Cancel
<1>14. ASSUME NEW c \in Calls, Collect(c)
      PROVE  [Interface!Next]_(Interface!vars)
  BY <1>14 DEF Collect, Interface!Collect
<1>15. ASSUME NEW c \in Calls, NEW result \in FnOutcomes, RunFn(c, result)
      PROVE  [Interface!Next]_(Interface!vars)
  BY <1>15 DEF RunFn, FnOutcomes, Interface!UseKey, Interface!FnOutcomes
<1>16. ASSUME NEW content \in Contents, WritePasswordFile(content)
      PROVE  [Interface!Next]_(Interface!vars)
  BY <1>16 DEF WritePasswordFile
<1>17. CASE UNCHANGED vars
  BY <1>17 DEF vars
<1>18. QED
  BY <1>1, <1>2, <1>3, <1>4, <1>5, <1>6, <1>7, <1>8, <1>9, <1>10, <1>11, <1>12, <1>13, <1>14,
       <1>15, <1>16, <1>17 DEF Next, Step, FnReturns

(* FileKeyVault implements KeyVault, its liveness aside.                   *)
THEOREM Implementation == Spec => ImplementsKeyVault
BY InitRefines, StepRefines, Inductive, PTL DEF Spec, ImplementsKeyVault, Interface!Spec
=============================================================================
