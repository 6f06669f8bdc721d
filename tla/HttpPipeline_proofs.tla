------------------------- MODULE HttpPipeline_proofs -------------------------
(***************************************************************************)
(* The invariants of HttpPipeline for any set of requests. All but two of  *)
(* the facts below are about one request, so a step of one leaves those of *)
(* the others alone; the two are about a call and its session, and about   *)
(* the ids that stdio calls draw.                                          *)
(***************************************************************************)
EXTENDS HttpPipeline, TLAPS

WriterShape ==
  /\ sw \in [Reqs -> [status : Statuses \cup {0}, written : BOOLEAN]]
  /\ header \in [Reqs -> Statuses \cup {0}]
  /\ sent \in [Reqs -> Statuses \cup {0}]
  /\ preempted \subseteq Reqs

RequestShape ==
  /\ transport \in {"http", "stdio"}
  /\ DOMAIN head = Reqs /\ \A r \in Reqs : head[r] \in Heads(r) \cup {NoHead}
  /\ pos \in [Reqs -> 0..4]
  /\ dir \in [Reqs -> {"new", "in", "return", "panic", "over"}]
  /\ capped \subseteq Reqs /\ deferred \subseteq Reqs /\ gone \subseteq Reqs /\ sessions \subseteq Reqs
  /\ body \in [Reqs -> {"unread", "read", "cut"}]
  /\ issued \in Nat
  /\ ctxId \in [Reqs -> Nat]
  /\ call \in [Reqs -> {"none", "ready", "signing", "done"}]
  /\ callCtx \in [Reqs -> Nat]
  /\ reqId \in [Reqs -> Nat]
  /\ log = [r \in Reqs |-> log[r]]
  /\ toolLine \in [Reqs -> [what : {"none", "audit", "error"}, id : Nat]]

Shape == WriterShape /\ RequestShape

(* Where a request is, and what has become of its line.                    *)
Place(r) ==
  /\ dir[r] = "in" <=> pos[r] # 0
  /\ dir[r] = "in" /\ pos[r] >= 2 => r \in capped
  /\ dir[r] = "in" => (r \in deferred <=> pos[r] >= 3)
  /\ dir[r] \in {"new", "over"} => r \notin deferred
  /\ log[r] = (IF \/ Leaving(r) /\ r \notin deferred
                  \/ dir[r] = "over" /\ transport = "http"
               THEN <<Line(r)>> ELSE << >>)
  /\ transport = "stdio" => dir[r] \in {"new", "over"} /\ head[r] = NoHead
  /\ transport = "http" /\ dir[r] # "new" => head[r] \in Heads(r)

Early(r) == dir[r] = "new" \/ (dir[r] = "in" /\ pos[r] <= 3)

(* The two writers agree and nothing has been sent that differs, unless a  *)
(* flush came before the status: then net/http stays with 200.             *)
Answer(r) ==
  /\ header[r] = IF r \in preempted THEN 200 ELSE IF sw[r].written THEN sw[r].status ELSE 0
  /\ sw[r].written => sw[r].status # 0
  /\ sent[r] \in {0, IF r \in preempted THEN 200 ELSE CapturedStatus(r)}
  /\ Early(r) => ~sw[r].written /\ r \notin preempted
  /\ Early(r) \/ (dir[r] = "in" /\ ~sw[r].written /\ r \notin preempted) => sent[r] = 0

(* What the layers let through.                                            *)
Entry(r) ==
  /\ Early(r) => body[r] = "unread" /\ r \notin sessions /\ call[r] = "none"
  /\ dir[r] = "in" /\ pos[r] = 4 => head[r].token = "right"
  /\ body[r] = "read" => Clean(r)
  /\ r \in sessions => Clean(r)
  /\ transport = "http" /\ call[r] # "none" => Clean(r)
  /\ head[r] # NoHead /\ head[r].token = "wrong" =>
       /\ body[r] = "unread"
       /\ r \notin preempted
       /\ dir[r] # "panic"
       /\ dir[r] \in {"return", "over"} => sw[r] = [status |-> 401, written |-> TRUE]
       /\ dir[r] = "over" => sent[r] = 401 \/ r \in gone

(* The ids of a request and of its call.                                   *)
Ids(r) ==
  /\ ctxId[r] <= issued /\ callCtx[r] <= issued /\ reqId[r] <= issued
  /\ toolLine[r].id <= issued
  /\ (dir[r] = "in" /\ pos[r] >= 3) \/ r \in sessions => ctxId[r] # NoId
  /\ call[r] \in {"signing", "done"} => callCtx[r] = reqId[r] /\ callCtx[r] # NoId
  /\ transport = "http" /\ call[r] # "none" => callCtx[r] # NoId
  /\ transport = "stdio" /\ call[r] \in {"none", "ready"} => callCtx[r] = NoId /\ reqId[r] = NoId
  /\ IF toolLine[r].what = "none" THEN toolLine[r].id = NoId
     ELSE call[r] = "done" /\ toolLine[r].id = reqId[r]

Local(r) == Place(r) /\ Answer(r) /\ Entry(r) /\ Ids(r)

InSession ==
  transport = "http" => \A r \in Reqs : call[r] # "none" =>
    head[r].session \in sessions /\ callCtx[r] = ctxId[head[r].session]

Unique ==
  transport = "stdio" => \A r, q \in Reqs : r # q /\ reqId[r] # NoId => reqId[r] # reqId[q]

IInv == Shape /\ (\A r \in Reqs : Local(r)) /\ InSession /\ Unique

(* A request a step has nothing to do with.                                *)
Same(q) ==
  /\ head'[q] = head[q] /\ pos'[q] = pos[q] /\ dir'[q] = dir[q] /\ body'[q] = body[q]
  /\ sw'[q] = sw[q] /\ header'[q] = header[q] /\ sent'[q] = sent[q]
  /\ ctxId'[q] = ctxId[q] /\ call'[q] = call[q] /\ callCtx'[q] = callCtx[q]
  /\ reqId'[q] = reqId[q] /\ log'[q] = log[q] /\ toolLine'[q] = toolLine[q]
  /\ q \in preempted' <=> q \in preempted
  /\ q \in capped' <=> q \in capped
  /\ q \in deferred' <=> q \in deferred
  /\ q \in gone' <=> q \in gone
  /\ q \in sessions' <=> q \in sessions

-----------------------------------------------------------------------------
(* What holds of a request goes on to hold while others move, and a session *)
(* that is open keeps its id.                                              *)
LEMMA Frame ==
  ASSUME NEW q \in Reqs, Local(q), Same(q), transport' = transport, issued \in Nat, issued' \in Nat,
         issued' >= issued, ctxId[q] \in Nat, callCtx[q] \in Nat, reqId[q] \in Nat,
         toolLine[q].id \in Nat
  PROVE  Local(q)'
<1>1. Place(q)'
  BY DEF Local, Same, Place, Leaving, Line, CapturedStatus
<1>2. Answer(q)'
  BY DEF Local, Same, Answer, Early, CapturedStatus
<1>3. Entry(q)'
  BY DEF Local, Same, Entry, Early, Clean
<1>4. Ids(q)'
  BY DEF Local, Same, Ids
<1> QED
  BY <1>1, <1>2, <1>3, <1>4 DEF Local

(* A layer is known by its place in the pipeline.                          *)
LEMMA Layers ==
  ASSUME Shape, NEW r \in Reqs
  PROVE  /\ In(r, "cap") <=> dir[r] = "in" /\ pos[r] = 1
         /\ In(r, "reqlog") <=> dir[r] = "in" /\ pos[r] = 2
         /\ In(r, "auth") <=> dir[r] = "in" /\ pos[r] = 3
         /\ In(r, "sdk") <=> dir[r] = "in" /\ pos[r] = 4
<1>1. pos[r] \in 0..4
  BY DEF Shape, RequestShape
<1>2. Pipeline[1] = "cap" /\ Pipeline[2] = "reqlog" /\ Pipeline[3] = "auth" /\ Pipeline[4] = "sdk"
  BY DEF Pipeline
<1>3. pos[r] > 0 => pos[r] \in {1, 2, 3, 4}
  BY <1>1
<1> QED
  BY <1>2, <1>3 DEF In

(* A step of one request: its own facts and those two that are not its own *)
(* are what is left to show.                                               *)
LEMMA Assemble ==
  ASSUME IInv, NEW r \in Reqs, Shape', transport' = transport, issued' >= issued,
         \A q \in Reqs \ {r} : Same(q), Local(r)', InSession', Unique'
  PROVE  IInv'
<1>1. ASSUME NEW q \in Reqs \ {r} PROVE Local(q)'
  <2>1. Local(q) /\ issued \in Nat /\ issued' \in Nat
    BY DEF IInv, Shape, RequestShape
  <2>2. ctxId[q] \in Nat /\ callCtx[q] \in Nat /\ reqId[q] \in Nat /\ toolLine[q].id \in Nat
    BY DEF IInv, Shape, RequestShape
  <2> QED
    BY <2>1, <2>2, Frame
<1> QED
  BY <1>1 DEF IInv

(* Steps that leave the calls and the sessions alone.                      *)
LEMMA KeepSession ==
  ASSUME IInv, UNCHANGED <<transport, head, sessions, ctxId, call, callCtx, reqId>>
  PROVE  InSession' /\ Unique'
BY DEF IInv, InSession, Unique

(* Put first in an empty list, a line is the only one.                     *)
LEMMA FirstLine == ASSUME NEW line PROVE Append(<< >>, line) = <<line>>
OBVIOUS

(* The writers hold statuses.                                              *)
LEMMA WriterTypes ==
  ASSUME Shape, NEW r \in Reqs, NEW status \in Statuses,
         WriteHeader(r, status) \/ Write(r) \/ Flush(r)
  PROVE  WriterShape'
<1>1. 200 \in Statuses
  BY DEF Statuses
<1>2. Recorded(r, status) \in Statuses \cup {0} /\ Recorded(r, 200) \in Statuses \cup {0}
  BY <1>1 DEF Recorded, Shape, WriterShape
<1>3. ASSUME NEW st \in Statuses
      PROVE  [sw EXCEPT ![r] = [status |-> st, written |-> TRUE]]
               \in [Reqs -> [status : Statuses \cup {0}, written : BOOLEAN]]
  BY <1>3 DEF Shape, WriterShape
<1>4. CASE WriteHeader(r, status)
  <2>1. CASE sw[r].written
    BY <1>4, <2>1 DEF WriteHeader, Shape, WriterShape, writer
  <2>2. CASE ~sw[r].written
    <3>1. sw' \in [Reqs -> [status : Statuses \cup {0}, written : BOOLEAN]]
      BY <1>3, <1>4, <2>2 DEF WriteHeader
    <3>2. header' \in [Reqs -> Statuses \cup {0}] /\ UNCHANGED <<sent, preempted>>
      BY <1>2, <1>4, <2>2 DEF WriteHeader, Shape, WriterShape
    <3> QED
      BY <3>1, <3>2 DEF Shape, WriterShape
  <2> QED
    BY <2>1, <2>2
<1>6. CASE Write(r)
  <2>1. sw' \in [Reqs -> [status : Statuses \cup {0}, written : BOOLEAN]]
    BY <1>1, <1>3, <1>6 DEF Write, Shape, WriterShape
  <2>2. header' \in [Reqs -> Statuses \cup {0}] /\ UNCHANGED <<sent, preempted>>
    BY <1>2, <1>6 DEF Write, Shape, WriterShape
  <2> QED
    BY <2>1, <2>2 DEF Shape, WriterShape
<1>5. CASE Flush(r)
  BY <1>2, <1>5 DEF Flush, Shape, WriterShape
<1> QED
  BY <1>4, <1>5, <1>6

(* The cap wraps the body and calls on.                                    *)
LEMMA CapInv == ASSUME IInv, NEW r \in Reqs, CapBody(r) PROVE IInv'
<1> USE DEF CapBody, CallNext, pipe, writer, tool
<1>0. Shape /\ Local(r)
  BY DEF IInv
<1>1. Shape'
  <2>1. WriterShape'
    BY <1>0 DEF Shape, WriterShape
  <2>2. RequestShape'
    BY <1>0, Layers DEF Shape, RequestShape
  <2> QED
    BY <2>1, <2>2 DEF Shape
<1>2. \A q \in Reqs \ {r} : Same(q)
  BY <1>0 DEF Shape, WriterShape, RequestShape, Same
<1>3. Place(r)'
  BY <1>0, Layers DEF Shape, WriterShape, RequestShape, Local, Place, Leaving, Line, CapturedStatus
<1>4. Answer(r)'
  BY <1>0, Layers DEF Shape, WriterShape, RequestShape, Local, Answer, Early, CapturedStatus
<1>5. Entry(r)'
  BY <1>0, Layers DEF Shape, WriterShape, RequestShape, Local, Place, Entry, Early, Clean
<1>6. Ids(r)'
  BY <1>0, Layers DEF Shape, WriterShape, RequestShape, Local, Ids, NoId
<1>7. InSession' /\ Unique'
  BY KeepSession
<1>8. transport' = transport /\ issued' >= issued
  BY <1>0 DEF Shape, RequestShape
<1> QED
  BY <1>1, <1>2, <1>3, <1>4, <1>5, <1>6, <1>7, <1>8, Assemble DEF Local

(* The deferred line is the only one.                                      *)
LEMMA LogLineInv == ASSUME IInv, NEW r \in Reqs, LogLine(r) PROVE IInv'
<1> USE DEF LogLine, pipe, writer, tool
<1>0. Shape /\ Local(r)
  BY DEF IInv
<1>1. Shape'
  <2>1. WriterShape'
    BY <1>0 DEF Shape, WriterShape
  <2>2. RequestShape'
    BY <1>0, Layers DEF Shape, RequestShape
  <2> QED
    BY <2>1, <2>2 DEF Shape
<1>2. \A q \in Reqs \ {r} : Same(q)
  BY <1>0 DEF Shape, WriterShape, RequestShape, Same
<1>3. Place(r)'
  <2>1. log[r] = << >> /\ log'[r] = Append(<< >>, Line(r))
    BY <1>0 DEF Shape, RequestShape, Local, Place, Leaving
  <2>2. log'[r] = <<Line(r)>> /\ Line(r)' = Line(r)
    BY <2>1, FirstLine DEF Line, CapturedStatus
  <2>3. r \notin deferred'
    OBVIOUS
  <2> QED
    BY <1>0, <2>2, <2>3 DEF Shape, RequestShape, Local, Place, Leaving
<1>4. Answer(r)'
  BY <1>0, Layers DEF Shape, WriterShape, RequestShape, Local, Answer, Early, CapturedStatus
<1>5. Entry(r)'
  BY <1>0, Layers DEF Shape, WriterShape, RequestShape, Local, Place, Entry, Early, Clean
<1>6. Ids(r)'
  BY <1>0, Layers DEF Shape, WriterShape, RequestShape, Local, Ids, NoId
<1>7. InSession' /\ Unique'
  BY KeepSession
<1>8. transport' = transport /\ issued' >= issued
  BY <1>0 DEF Shape, RequestShape
<1> QED
  BY <1>1, <1>2, <1>3, <1>4, <1>5, <1>6, <1>7, <1>8, Assemble DEF Local

(* What is sent at last is what has been logged.                           *)
LEMMA FinishInv == ASSUME IInv, NEW r \in Reqs, FinishRequest(r) PROVE IInv'
<1> USE DEF FinishRequest, Recorded, Leaving, pipe, writer, tool
<1>0. Shape /\ Local(r)
  BY DEF IInv
<1>1. Shape'
  <2>1. WriterShape'
    BY <1>0 DEF Shape, WriterShape, Statuses
  <2>2. RequestShape'
    BY <1>0, Layers DEF Shape, RequestShape
  <2> QED
    BY <2>1, <2>2 DEF Shape
<1>2. \A q \in Reqs \ {r} : Same(q)
  BY <1>0 DEF Shape, WriterShape, RequestShape, Same
<1>3. Place(r)'
  BY <1>0, Layers DEF Shape, WriterShape, RequestShape, Local, Place, Leaving, Line, CapturedStatus
<1>4. Answer(r)'
  BY <1>0, Layers DEF Shape, WriterShape, RequestShape, Local, Answer, Early, CapturedStatus
<1>5. Entry(r)'
  BY <1>0 DEF Shape, WriterShape, RequestShape, Local, Place, Answer, Entry, Early, Clean
<1>6. Ids(r)'
  BY <1>0, Layers DEF Shape, WriterShape, RequestShape, Local, Ids, NoId
<1>7. InSession' /\ Unique'
  BY KeepSession
<1>8. transport' = transport /\ issued' >= issued
  BY <1>0 DEF Shape, RequestShape
<1> QED
  BY <1>1, <1>2, <1>3, <1>4, <1>5, <1>6, <1>7, <1>8, Assemble DEF Local

(* A client may leave at any time.                                         *)
LEMMA LeaveInv == ASSUME IInv, NEW r \in Reqs, ClientLeaves(r) PROVE IInv'
<1> USE DEF ClientLeaves, pipe, writer, tool
<1>0. Shape /\ Local(r)
  BY DEF IInv
<1>1. Shape'
  <2>1. WriterShape'
    BY <1>0 DEF Shape, WriterShape
  <2>2. RequestShape'
    BY <1>0, Layers DEF Shape, RequestShape
  <2> QED
    BY <2>1, <2>2 DEF Shape
<1>2. \A q \in Reqs \ {r} : Same(q)
  BY <1>0 DEF Shape, WriterShape, RequestShape, Same
<1>3. Place(r)'
  BY <1>0, Layers DEF Shape, WriterShape, RequestShape, Local, Place, Leaving, Line, CapturedStatus
<1>4. Answer(r)'
  BY <1>0, Layers DEF Shape, WriterShape, RequestShape, Local, Answer, Early, CapturedStatus
<1>5. Entry(r)'
  BY <1>0, Layers DEF Shape, WriterShape, RequestShape, Local, Place, Entry, Early, Clean
<1>6. Ids(r)'
  BY <1>0, Layers DEF Shape, WriterShape, RequestShape, Local, Ids, NoId
<1>7. InSession' /\ Unique'
  BY KeepSession
<1>8. transport' = transport /\ issued' >= issued
  BY <1>0 DEF Shape, RequestShape
<1> QED
  BY <1>1, <1>2, <1>3, <1>4, <1>5, <1>6, <1>7, <1>8, Assemble DEF Local

(* A wrong token is turned away before the SDK has seen it.                *)
LEMMA AuthInv == ASSUME IInv, NEW r \in Reqs, Auth(r) PROVE IInv'
<1> USE DEF Auth, WriteHeader, Recorded, CallNext, Go, pipe, writer, tool
<1>0. Shape /\ Local(r)
  BY DEF IInv
<1>1. Shape'
  <2>1. WriterShape'
    <3> HIDE DEF WriteHeader
    <3>1. {200, 202, 400, 401, 403, 500} = Statuses
      BY DEF Statuses
    <3> QED
      BY <1>0, <3>1, WriterTypes DEF Shape, WriterShape
  <2>2. RequestShape'
    <3> HIDE DEF WriteHeader
    <3>1. pos[r] + 1 \in 0..4
      BY <1>0, Layers DEF Shape, RequestShape
    <3>2. pos' \in [Reqs -> 0..4] /\ dir' \in [Reqs -> {"new", "in", "return", "panic", "over"}]
      BY <1>0, <3>1 DEF Shape, RequestShape
    <3> QED
      BY <1>0, <3>2 DEF Shape, RequestShape
  <2> QED
    BY <2>1, <2>2 DEF Shape
<1>2. \A q \in Reqs \ {r} : Same(q)
  BY <1>0 DEF Shape, WriterShape, RequestShape, Same
<1>3. Place(r)'
  BY <1>0, Layers DEF Shape, WriterShape, RequestShape, Local, Place, Leaving, Line, CapturedStatus
<1>4. Answer(r)'
  BY <1>0, Layers DEF Shape, WriterShape, RequestShape, Local, Answer, Early, CapturedStatus
<1>5. Entry(r)'
  <2>1. head[r].token \in {"right", "wrong"}
    BY <1>0, Layers DEF Shape, RequestShape, Local, Place, Heads
  <2>2. ~sw[r].written
    BY <1>0, Layers DEF Local, Answer, Early
  <2>3. CASE head[r].token = "right"
    BY <1>0, <2>3, Layers DEF Shape, RequestShape, Local, Place, Entry, Early, Clean
  <2>4. CASE head[r].token = "wrong"
    <3>1. sw'[r] = [status |-> 401, written |-> TRUE] /\ dir'[r] = "return"
      BY <1>0, <2>2, <2>4 DEF Shape, WriterShape, RequestShape
    <3> QED
      BY <1>0, <2>4, <3>1, Layers DEF Shape, RequestShape, Local, Place, Entry, Early, Clean
  <2> QED
    BY <2>1, <2>3, <2>4
<1>6. Ids(r)'
  BY <1>0, Layers DEF Shape, WriterShape, RequestShape, Local, Ids, NoId
<1>7. InSession' /\ Unique'
  BY KeepSession
<1>8. transport' = transport /\ issued' >= issued
  BY <1>0 DEF Shape, RequestShape
<1> QED
  BY <1>1, <1>2, <1>3, <1>4, <1>5, <1>6, <1>7, <1>8, Assemble DEF Local

(* The SDK's guard refuses a foreign host.                                 *)
LEMMA ForbidInv == ASSUME IInv, NEW r \in Reqs, SdkForbids(r) PROVE IInv'
<1> USE DEF SdkForbids, WriteHeader, Recorded, Go, pipe, writer, tool
<1>0. Shape /\ Local(r)
  BY DEF IInv
<1>1. Shape'
  <2>1. WriterShape'
    <3> HIDE DEF WriteHeader
    <3>1. {200, 202, 400, 401, 403, 500} = Statuses
      BY DEF Statuses
    <3> QED
      BY <1>0, <3>1, WriterTypes DEF Shape, WriterShape
  <2>2. RequestShape'
    BY <1>0, Layers DEF Shape, RequestShape
  <2> QED
    BY <2>1, <2>2 DEF Shape
<1>2. \A q \in Reqs \ {r} : Same(q)
  BY <1>0 DEF Shape, WriterShape, RequestShape, Same
<1>3. Place(r)'
  BY <1>0, Layers DEF Shape, WriterShape, RequestShape, Local, Place, Leaving, Line, CapturedStatus
<1>4. Answer(r)'
  BY <1>0, Layers DEF Shape, WriterShape, RequestShape, Local, Answer, Early, CapturedStatus
<1>5. Entry(r)'
  BY <1>0, Layers DEF Shape, WriterShape, RequestShape, Local, Place, Entry, Early, Clean
<1>6. Ids(r)'
  BY <1>0, Layers DEF Shape, WriterShape, RequestShape, Local, Ids, NoId
<1>7. InSession' /\ Unique'
  BY KeepSession
<1>8. transport' = transport /\ issued' >= issued
  BY <1>0 DEF Shape, RequestShape
<1> QED
  BY <1>1, <1>2, <1>3, <1>4, <1>5, <1>6, <1>7, <1>8, Assemble DEF Local

(* The SDK reads a body through the cap.                                   *)
LEMMA ReadInv == ASSUME IInv, NEW r \in Reqs, SdkReads(r) PROVE IInv'
<1> USE DEF SdkReads, WriteHeader, Recorded, Go, pipe, writer, tool
<1>0. Shape /\ Local(r)
  BY DEF IInv
<1>1. Shape'
  <2>1. WriterShape'
    <3> HIDE DEF WriteHeader
    <3>1. {200, 202, 400, 401, 403, 500} = Statuses
      BY DEF Statuses
    <3> QED
      BY <1>0, <3>1, WriterTypes DEF Shape, WriterShape
  <2>2. RequestShape'
    <3> HIDE DEF WriteHeader
    <3>1. pos' \in [Reqs -> 0..4] /\ dir' \in [Reqs -> {"new", "in", "return", "panic", "over"}]
      <4>1. UNCHANGED <<pos, dir>> \/ Go(r, "return")
        BY Zenon
      <4>2. pos \in [Reqs -> 0..4] /\ dir \in [Reqs -> {"new", "in", "return", "panic", "over"}]
        BY <1>0 DEF Shape, RequestShape
      <4> QED
        BY <4>1, <4>2
    <3>2. body' \in [Reqs -> {"unread", "read", "cut"}]
      <4>1. \/ body' = [body EXCEPT ![r] = "cut"]
            \/ body' = [body EXCEPT ![r] = "read"]
        BY Zenon
      <4> QED
        BY <1>0, <4>1 DEF Shape, RequestShape
    <3> QED
      BY <1>0, <3>1, <3>2 DEF Shape, RequestShape
  <2> QED
    BY <2>1, <2>2 DEF Shape
<1>2. \A q \in Reqs \ {r} : Same(q)
  BY <1>0 DEF Shape, WriterShape, RequestShape, Same
<1>3. Place(r)'
  BY <1>0, Layers DEF Shape, WriterShape, RequestShape, Local, Place, Leaving, Line, CapturedStatus
<1>4. Answer(r)'
  BY <1>0, Layers DEF Shape, WriterShape, RequestShape, Local, Answer, Early, CapturedStatus
<1>5. Entry(r)'
  <2>1. head[r].body \in {"within", "over"} /\ r \in capped
    BY <1>0, Layers DEF Shape, RequestShape, Local, Place, Heads
  <2> QED
    BY <1>0, <2>1, Layers DEF Shape, WriterShape, RequestShape, Local, Place, Entry, Early, Clean
<1>6. Ids(r)'
  BY <1>0, Layers DEF Shape, WriterShape, RequestShape, Local, Ids, NoId
<1>7. InSession' /\ Unique'
  BY KeepSession
<1>8. transport' = transport /\ issued' >= issued
  BY <1>0 DEF Shape, RequestShape
<1> QED
  BY <1>1, <1>2, <1>3, <1>4, <1>5, <1>6, <1>7, <1>8, Assemble DEF Local

(* A request the SDK cannot dispatch is answered 400.                      *)
LEMMA RefuseInv == ASSUME IInv, NEW r \in Reqs, SdkRefuses(r) PROVE IInv'
<1> USE DEF SdkRefuses, Serving, WriteHeader, Recorded, Go, pipe, writer, tool
<1>0. Shape /\ Local(r)
  BY DEF IInv
<1>1. Shape'
  <2>1. WriterShape'
    <3> HIDE DEF WriteHeader
    <3>1. {200, 202, 400, 401, 403, 500} = Statuses
      BY DEF Statuses
    <3> QED
      BY <1>0, <3>1, WriterTypes DEF Shape, WriterShape
  <2>2. RequestShape'
    BY <1>0, Layers DEF Shape, RequestShape
  <2> QED
    BY <2>1, <2>2 DEF Shape
<1>2. \A q \in Reqs \ {r} : Same(q)
  BY <1>0 DEF Shape, WriterShape, RequestShape, Same
<1>3. Place(r)'
  BY <1>0, Layers DEF Shape, WriterShape, RequestShape, Local, Place, Leaving, Line, CapturedStatus
<1>4. Answer(r)'
  BY <1>0, Layers DEF Shape, WriterShape, RequestShape, Local, Answer, Early, CapturedStatus
<1>5. Entry(r)'
  BY <1>0, Layers DEF Shape, WriterShape, RequestShape, Local, Place, Entry, Early, Clean
<1>6. Ids(r)'
  BY <1>0, Layers DEF Shape, WriterShape, RequestShape, Local, Ids, NoId
<1>7. InSession' /\ Unique'
  BY KeepSession
<1>8. transport' = transport /\ issued' >= issued
  BY <1>0 DEF Shape, RequestShape
<1> QED
  BY <1>1, <1>2, <1>3, <1>4, <1>5, <1>6, <1>7, <1>8, Assemble DEF Local

(* The SDK's handler returns.                                              *)
LEMMA ReturnInv == ASSUME IInv, NEW r \in Reqs, SdkReturns(r) PROVE IInv'
<1> USE DEF SdkReturns, Serving, Go, pipe, writer, tool
<1>0. Shape /\ Local(r)
  BY DEF IInv
<1>1. Shape'
  <2>1. WriterShape'
    BY <1>0 DEF Shape, WriterShape
  <2>2. RequestShape'
    BY <1>0, Layers DEF Shape, RequestShape
  <2> QED
    BY <2>1, <2>2 DEF Shape
<1>2. \A q \in Reqs \ {r} : Same(q)
  BY <1>0 DEF Shape, WriterShape, RequestShape, Same
<1>3. Place(r)'
  BY <1>0, Layers DEF Shape, WriterShape, RequestShape, Local, Place, Leaving, Line, CapturedStatus
<1>4. Answer(r)'
  BY <1>0, Layers DEF Shape, WriterShape, RequestShape, Local, Answer, Early, CapturedStatus
<1>5. Entry(r)'
  BY <1>0, Layers DEF Shape, WriterShape, RequestShape, Local, Place, Entry, Early, Clean
<1>6. Ids(r)'
  BY <1>0, Layers DEF Shape, WriterShape, RequestShape, Local, Ids, NoId
<1>7. InSession' /\ Unique'
  BY KeepSession
<1>8. transport' = transport /\ issued' >= issued
  BY <1>0 DEF Shape, RequestShape
<1> QED
  BY <1>1, <1>2, <1>3, <1>4, <1>5, <1>6, <1>7, <1>8, Assemble DEF Local

(* The SDK's handler panics.                                               *)
LEMMA PanicInv == ASSUME IInv, NEW r \in Reqs, SdkPanics(r) PROVE IInv'
<1> USE DEF SdkPanics, Go, pipe, writer, tool
<1>0. Shape /\ Local(r)
  BY DEF IInv
<1>1. Shape'
  <2>1. WriterShape'
    BY <1>0 DEF Shape, WriterShape
  <2>2. RequestShape'
    BY <1>0, Layers DEF Shape, RequestShape
  <2> QED
    BY <2>1, <2>2 DEF Shape
<1>2. \A q \in Reqs \ {r} : Same(q)
  BY <1>0 DEF Shape, WriterShape, RequestShape, Same
<1>3. Place(r)'
  BY <1>0, Layers DEF Shape, WriterShape, RequestShape, Local, Place, Leaving, Line, CapturedStatus
<1>4. Answer(r)'
  BY <1>0, Layers DEF Shape, WriterShape, RequestShape, Local, Answer, Early, CapturedStatus
<1>5. Entry(r)'
  BY <1>0, Layers DEF Shape, WriterShape, RequestShape, Local, Place, Entry, Early, Clean
<1>6. Ids(r)'
  BY <1>0, Layers DEF Shape, WriterShape, RequestShape, Local, Ids, NoId
<1>7. InSession' /\ Unique'
  BY KeepSession
<1>8. transport' = transport /\ issued' >= issued
  BY <1>0 DEF Shape, RequestShape
<1> QED
  BY <1>1, <1>2, <1>3, <1>4, <1>5, <1>6, <1>7, <1>8, Assemble DEF Local

(* The SDK writes, repeats a status, flushes.                              *)
LEMMA ReplyInv == ASSUME IInv, NEW r \in Reqs, SdkReplies(r) PROVE IInv'
<1> USE DEF SdkReplies, Serving, WriteHeader, Write, Flush, Recorded, pipe, writer, tool
<1>0. Shape /\ Local(r)
  BY DEF IInv
<1>1. Shape'
  <2>1. WriterShape'
    <3> HIDE DEF WriteHeader, Write, Flush
    <3>1. {200, 202, 400, 401, 403, 500} = Statuses
      BY DEF Statuses
    <3> QED
      BY <1>0, <3>1, WriterTypes DEF Shape, WriterShape
  <2>2. RequestShape'
    BY <1>0, Layers DEF Shape, RequestShape
  <2> QED
    BY <2>1, <2>2 DEF Shape
<1>2. \A q \in Reqs \ {r} : Same(q)
  BY <1>0 DEF Shape, WriterShape, RequestShape, Same
<1>3. Place(r)'
  BY <1>0, Layers DEF Shape, WriterShape, RequestShape, Local, Place, Leaving, Line, CapturedStatus
<1>4. Answer(r)'
  BY <1>0, Layers DEF Shape, WriterShape, RequestShape, Local, Answer, Early, CapturedStatus
<1>5. Entry(r)'
  BY <1>0, Layers DEF Shape, WriterShape, RequestShape, Local, Place, Entry, Early, Clean
<1>6. Ids(r)'
  BY <1>0, Layers DEF Shape, WriterShape, RequestShape, Local, Ids, NoId
<1>7. InSession' /\ Unique'
  BY KeepSession
<1>8. transport' = transport /\ issued' >= issued
  BY <1>0 DEF Shape, RequestShape
<1> QED
  BY <1>1, <1>2, <1>3, <1>4, <1>5, <1>6, <1>7, <1>8, Assemble DEF Local

(* A request comes with its head.                                          *)
LEMMA ArriveInv == ASSUME IInv, NEW r \in Reqs, NEW h \in Heads(r), Arrive(r, h) PROVE IInv'
<1> USE DEF Arrive, pipe, writer, tool
<1>0. Shape /\ Local(r)
  BY DEF IInv
<1>1. Shape'
  <2>1. WriterShape'
    BY <1>0 DEF Shape, WriterShape
  <2>2. RequestShape'
    BY <1>0, Layers DEF Shape, RequestShape
  <2> QED
    BY <2>1, <2>2 DEF Shape
<1>2. \A q \in Reqs \ {r} : Same(q)
  BY <1>0 DEF Shape, WriterShape, RequestShape, Same
<1>3. Place(r)'
  BY <1>0, Layers DEF Shape, WriterShape, RequestShape, Local, Place, Leaving, Line, CapturedStatus
<1>4. Answer(r)'
  <2>1. Early(r) /\ Early(r)'
    BY <1>0 DEF Shape, RequestShape, Early
  <2>2. UNCHANGED <<sw, header, sent, preempted>>
    OBVIOUS
  <2> QED
    BY <1>0, <2>1, <2>2 DEF Local, Answer, CapturedStatus
<1>5. Entry(r)'
  <2>1. r \notin preempted /\ dir[r] = "new"
    BY <1>0 DEF Local, Answer, Early
  <2> QED
    BY <1>0, <2>1 DEF Shape, WriterShape, RequestShape, Local, Entry, Early, Clean
<1>6. Ids(r)'
  BY <1>0, Layers DEF Shape, WriterShape, RequestShape, Local, Ids, NoId
<1>7. InSession' /\ Unique'
  <2>1. ASSUME transport = "http", NEW q \in Reqs, call'[q] # "none"
        PROVE  head'[q].session \in sessions' /\ callCtx'[q] = ctxId'[head'[q].session]
    <3>1. call[r] = "none" /\ call[q] # "none"
      BY <1>0, <2>1 DEF Local, Entry, Early
    <3>2. head'[q] = head[q]
      BY <1>0, <3>1 DEF Shape, RequestShape
    <3> QED
      BY <1>0, <2>1, <3>1, <3>2 DEF IInv, InSession
  <2> QED
    BY <1>0, <2>1 DEF IInv, InSession, Unique, Shape, RequestShape
<1>8. transport' = transport /\ issued' >= issued
  BY <1>0 DEF Shape, RequestShape
<1> QED
  BY <1>1, <1>2, <1>3, <1>4, <1>5, <1>6, <1>7, <1>8, Assemble DEF Local

(* The request log gives a request the next id.                            *)
LEMMA ReqLogInv == ASSUME IInv, NEW r \in Reqs, ReqLog(r) PROVE IInv'
<1> USE DEF ReqLog, CallNext, pipe, writer, tool
<1>0. Shape /\ Local(r)
  BY DEF IInv
<1>1. Shape'
  <2>1. WriterShape'
    BY <1>0 DEF Shape, WriterShape
  <2>2. RequestShape'
    BY <1>0, Layers DEF Shape, RequestShape
  <2> QED
    BY <2>1, <2>2 DEF Shape
<1>2. \A q \in Reqs \ {r} : Same(q)
  BY <1>0 DEF Shape, WriterShape, RequestShape, Same
<1>3. Place(r)'
  BY <1>0, Layers DEF Shape, WriterShape, RequestShape, Local, Place, Leaving, Line, CapturedStatus
<1>4. Answer(r)'
  BY <1>0, Layers DEF Shape, WriterShape, RequestShape, Local, Answer, Early, CapturedStatus
<1>5. Entry(r)'
  BY <1>0, Layers DEF Shape, WriterShape, RequestShape, Local, Place, Entry, Early, Clean
<1>6. Ids(r)'
  BY <1>0, Layers DEF Shape, WriterShape, RequestShape, Local, Ids, NoId
<1>7. InSession' /\ Unique'
  <2>1. ASSUME transport = "http", NEW q \in Reqs, call'[q] # "none"
        PROVE  head'[q].session \in sessions' /\ callCtx'[q] = ctxId'[head'[q].session]
    <3>1. r \notin sessions
      BY <1>0, Layers DEF Local, Entry, Early
    <3> QED
      BY <1>0, <2>1, <3>1 DEF IInv, InSession, Shape, RequestShape
  <2> QED
    BY <1>0, <2>1 DEF IInv, InSession, Unique, Shape, RequestShape
<1>8. transport' = transport /\ issued' >= issued
  BY <1>0 DEF Shape, RequestShape
<1> QED
  BY <1>1, <1>2, <1>3, <1>4, <1>5, <1>6, <1>7, <1>8, Assemble DEF Local

(* A session is opened under the context of its first request.             *)
LEMMA OpenInv == ASSUME IInv, NEW r \in Reqs, OpenSession(r) PROVE IInv'
<1> USE DEF OpenSession, Serving, pipe, writer, tool
<1>0. Shape /\ Local(r)
  BY DEF IInv
<1>1. Shape'
  <2>1. WriterShape'
    BY <1>0 DEF Shape, WriterShape
  <2>2. RequestShape'
    BY <1>0, Layers DEF Shape, RequestShape
  <2> QED
    BY <2>1, <2>2 DEF Shape
<1>2. \A q \in Reqs \ {r} : Same(q)
  BY <1>0 DEF Shape, WriterShape, RequestShape, Same
<1>3. Place(r)'
  BY <1>0, Layers DEF Shape, WriterShape, RequestShape, Local, Place, Leaving, Line, CapturedStatus
<1>4. Answer(r)'
  BY <1>0, Layers DEF Shape, WriterShape, RequestShape, Local, Answer, Early, CapturedStatus
<1>5. Entry(r)'
  BY <1>0, Layers DEF Shape, WriterShape, RequestShape, Local, Place, Entry, Early, Clean
<1>6. Ids(r)'
  BY <1>0, Layers DEF Shape, WriterShape, RequestShape, Local, Ids, NoId
<1>7. InSession' /\ Unique'
  <2>1. ASSUME transport = "http", NEW q \in Reqs, call'[q] # "none"
        PROVE  head'[q].session \in sessions' /\ callCtx'[q] = ctxId'[head'[q].session]
    BY <1>0, <2>1 DEF IInv, InSession
  <2> QED
    BY <1>0, <2>1 DEF IInv, InSession, Unique, Shape, RequestShape
<1>8. transport' = transport /\ issued' >= issued
  BY <1>0 DEF Shape, RequestShape
<1> QED
  BY <1>1, <1>2, <1>3, <1>4, <1>5, <1>6, <1>7, <1>8, Assemble DEF Local

(* A call runs under the context of its session.                           *)
LEMMA DispatchInv == ASSUME IInv, NEW r \in Reqs, Dispatch(r) PROVE IInv'
<1> USE DEF Dispatch, Serving, pipe, writer, tool
<1>0. Shape /\ Local(r)
  BY DEF IInv
<1>1. Shape'
  <2>1. WriterShape'
    BY <1>0 DEF Shape, WriterShape
  <2>2. RequestShape'
    BY <1>0, Layers DEF Shape, RequestShape
  <2> QED
    BY <2>1, <2>2 DEF Shape
<1>2. \A q \in Reqs \ {r} : Same(q)
  BY <1>0 DEF Shape, WriterShape, RequestShape, Same
<1>3. Place(r)'
  BY <1>0, Layers DEF Shape, WriterShape, RequestShape, Local, Place, Leaving, Line, CapturedStatus
<1>4. Answer(r)'
  BY <1>0, Layers DEF Shape, WriterShape, RequestShape, Local, Answer, Early, CapturedStatus
<1>5. Entry(r)'
  BY <1>0, Layers DEF Shape, WriterShape, RequestShape, Local, Place, Entry, Early, Clean
<1>6. Ids(r)'
  <2>1. head[r].session \in Reqs
    BY <1>0 DEF Shape, RequestShape
  <2>2. ctxId[head[r].session] # NoId /\ ctxId[head[r].session] <= issued
    BY <2>1 DEF IInv, Local, Ids
  <2>3. callCtx'[r] = ctxId[head[r].session] /\ call'[r] = "ready" /\ transport = "http"
    BY <1>0, Layers DEF Shape, RequestShape, Local, Place
  <2> QED
    BY <1>0, <2>2, <2>3, Layers DEF Shape, RequestShape, Local, Ids, NoId
<1>7. InSession' /\ Unique'
  <2>1. ASSUME transport = "http", NEW q \in Reqs, call'[q] # "none"
        PROVE  head'[q].session \in sessions' /\ callCtx'[q] = ctxId'[head'[q].session]
    BY <1>0, <2>1 DEF IInv, InSession, Shape, RequestShape
  <2> QED
    BY <1>0, <2>1 DEF IInv, InSession, Unique, Shape, RequestShape
<1>8. transport' = transport /\ issued' >= issued
  BY <1>0 DEF Shape, RequestShape
<1> QED
  BY <1>1, <1>2, <1>3, <1>4, <1>5, <1>6, <1>7, <1>8, Assemble DEF Local

(* A stdio call has no context of its own.                                 *)
LEMMA StdioInv == ASSUME IInv, NEW r \in Reqs, StdioCall(r) PROVE IInv'
<1> USE DEF StdioCall, pipe, writer, tool
<1>0. Shape /\ Local(r)
  BY DEF IInv
<1>1. Shape'
  <2>1. WriterShape'
    BY <1>0 DEF Shape, WriterShape
  <2>2. RequestShape'
    BY <1>0, Layers DEF Shape, RequestShape
  <2> QED
    BY <2>1, <2>2 DEF Shape
<1>2. \A q \in Reqs \ {r} : Same(q)
  BY <1>0 DEF Shape, WriterShape, RequestShape, Same
<1>3. Place(r)'
  BY <1>0, Layers DEF Shape, WriterShape, RequestShape, Local, Place, Leaving, Line, CapturedStatus
<1>4. Answer(r)'
  BY <1>0, Layers DEF Shape, WriterShape, RequestShape, Local, Answer, Early, CapturedStatus
<1>5. Entry(r)'
  BY <1>0, Layers DEF Shape, WriterShape, RequestShape, Local, Place, Entry, Early, Clean
<1>6. Ids(r)'
  BY <1>0 DEF Shape, RequestShape, Local, Entry, Early, Ids, NoId
<1>7. InSession' /\ Unique'
  <2>1. ASSUME transport = "http", NEW q \in Reqs, call'[q] # "none"
        PROVE  head'[q].session \in sessions' /\ callCtx'[q] = ctxId'[head'[q].session]
    BY <1>0, <2>1
  <2> QED
    BY <1>0, <2>1 DEF IInv, InSession, Unique, Shape, RequestShape
<1>8. transport' = transport /\ issued' >= issued
  BY <1>0 DEF Shape, RequestShape
<1> QED
  BY <1>1, <1>2, <1>3, <1>4, <1>5, <1>6, <1>7, <1>8, Assemble DEF Local

(* The handler takes the id it is given or draws the next.                 *)
LEMMA HandlerIdInv == ASSUME IInv, NEW r \in Reqs, HandlerId(r) PROVE IInv'
<1> USE DEF HandlerId, pipe, writer, tool
<1>0. Shape /\ Local(r)
  BY DEF IInv
<1>1. Shape'
  <2>1. WriterShape'
    BY <1>0 DEF Shape, WriterShape
  <2>2. callCtx[r] \in Nat /\ issued + 1 \in Nat
    BY <1>0 DEF Shape, RequestShape
  <2>3. /\ issued' \in Nat
        /\ reqId' \in [Reqs -> Nat]
        /\ callCtx' \in [Reqs -> Nat]
    BY <1>0, <2>2 DEF Shape, RequestShape
  <2>4. call' \in [Reqs -> {"none", "ready", "signing", "done"}]
    BY <1>0 DEF Shape, RequestShape
  <2> QED
    BY <1>0, <2>1, <2>3, <2>4 DEF Shape, RequestShape
<1>2. \A q \in Reqs \ {r} : Same(q)
  BY <1>0 DEF Shape, WriterShape, RequestShape, Same
<1>3. Place(r)'
  BY <1>0, Layers DEF Shape, WriterShape, RequestShape, Local, Place, Leaving, Line, CapturedStatus
<1>4. Answer(r)'
  BY <1>0, Layers DEF Shape, WriterShape, RequestShape, Local, Answer, Early, CapturedStatus
<1>5. Entry(r)'
  BY <1>0, Layers DEF Shape, WriterShape, RequestShape, Local, Place, Entry, Early, Clean
<1>6. Ids(r)'
  BY <1>0, Layers DEF Shape, WriterShape, RequestShape, Local, Ids, NoId
<1>7. InSession' /\ Unique'
  <2>1. CASE callCtx[r] # NoId
    <3>1. transport = "http"
      BY <1>0, <2>1 DEF Local, Ids, Shape, RequestShape
    <3> QED
      BY <1>0, <2>1, <3>1 DEF IInv, InSession, Unique, Shape, RequestShape
  <2>2. CASE callCtx[r] = NoId
    <3>1. transport = "stdio"
      BY <1>0, <2>2 DEF Local, Ids, Shape, RequestShape
    <3>2. reqId' = [reqId EXCEPT ![r] = issued + 1]
      BY <2>2
    <3>3. \A q \in Reqs : reqId[q] \in Nat /\ reqId[q] <= issued
      BY <1>0 DEF IInv, Local, Ids, Shape, RequestShape
    <3>4. \A q \in Reqs : reqId[q] # issued + 1
      BY <1>0, <3>3 DEF Shape, RequestShape
    <3>5. Unique'
      BY <1>0, <3>1, <3>2, <3>4 DEF IInv, Unique, Shape, RequestShape
    <3> QED
      BY <3>1, <3>5 DEF InSession
  <2> QED
    BY <2>1, <2>2
<1>8. transport' = transport /\ issued' >= issued
  BY <1>0 DEF Shape, RequestShape
<1> QED
  BY <1>1, <1>2, <1>3, <1>4, <1>5, <1>6, <1>7, <1>8, Assemble DEF Local

(* Every line of a call carries the id of its handler.                     *)
LEMMA SignInv == ASSUME IInv, NEW r \in Reqs, SignReturns(r) PROVE IInv'
<1> USE DEF SignReturns, pipe, writer, tool
<1>0. Shape /\ Local(r)
  BY DEF IInv
<1>1. Shape'
  <2>1. WriterShape'
    BY <1>0 DEF Shape, WriterShape
  <2>2. ASSUME NEW line \in [what : {"none", "audit", "error"}, id : Nat],
               toolLine' = [toolLine EXCEPT ![r] = line]
        PROVE  toolLine' \in [Reqs -> [what : {"none", "audit", "error"}, id : Nat]]
    BY <1>0, <2>2 DEF Shape, RequestShape
  <2>3. callCtx[r] \in Nat /\ reqId[r] \in Nat
    BY <1>0 DEF Shape, RequestShape
  <2>4. toolLine' \in [Reqs -> [what : {"none", "audit", "error"}, id : Nat]]
    BY <2>2, <2>3 DEF NoLine, NoId
  <2>5. call' \in [Reqs -> {"none", "ready", "signing", "done"}]
    BY <1>0 DEF Shape, RequestShape
  <2> QED
    BY <1>0, <2>1, <2>4, <2>5 DEF Shape, RequestShape
<1>2. \A q \in Reqs \ {r} : Same(q)
  BY <1>0 DEF Shape, WriterShape, RequestShape, Same
<1>3. Place(r)'
  BY <1>0, Layers DEF Shape, WriterShape, RequestShape, Local, Place, Leaving, Line, CapturedStatus
<1>4. Answer(r)'
  BY <1>0, Layers DEF Shape, WriterShape, RequestShape, Local, Answer, Early, CapturedStatus
<1>5. Entry(r)'
  BY <1>0, Layers DEF Shape, WriterShape, RequestShape, Local, Place, Entry, Early, Clean
<1>6. Ids(r)'
  <2>1. callCtx[r] = reqId[r]
    BY <1>0 DEF Local, Ids
  <2>2. toolLine'[r].what # "none" => toolLine'[r].id = reqId[r]
    BY <1>0, <2>1 DEF Shape, RequestShape, NoLine
  <2>3. toolLine'[r].what = "none" => toolLine'[r].id = NoId
    BY <1>0, <2>1 DEF Shape, RequestShape, NoLine, NoId
  <2>4. call'[r] = "done" /\ call[r] = "signing"
    BY <1>0 DEF Shape, RequestShape
  <2> QED
    BY <1>0, <2>1, <2>2, <2>3, <2>4 DEF Shape, RequestShape, Local, Ids, NoId
<1>7. InSession' /\ Unique'
  <2>1. ASSUME transport = "http", NEW q \in Reqs, call'[q] # "none"
        PROVE  head'[q].session \in sessions' /\ callCtx'[q] = ctxId'[head'[q].session]
    BY <1>0, <2>1 DEF IInv, InSession, Shape, RequestShape
  <2> QED
    BY <1>0, <2>1 DEF IInv, InSession, Unique, Shape, RequestShape
<1>8. transport' = transport /\ issued' >= issued
  BY <1>0 DEF Shape, RequestShape
<1> QED
  BY <1>1, <1>2, <1>3, <1>4, <1>5, <1>6, <1>7, <1>8, Assemble DEF Local

-----------------------------------------------------------------------------
(* Nothing has come in.                                                    *)
LEMMA InitInv == Init => IInv
<1> SUFFICES ASSUME Init PROVE IInv
  OBVIOUS
<1> USE DEF Init, NoHead, NoLine, NoId
<1>1. WriterShape
  BY DEF WriterShape
<1>2. RequestShape
  BY DEF RequestShape
<1>3. ASSUME NEW r \in Reqs PROVE Local(r)
  <2>1. Place(r)
    BY DEF Place, Leaving
  <2>2. Answer(r)
    BY DEF Answer, CapturedStatus
  <2>3. Entry(r)
    BY DEF Entry
  <2>4. Ids(r)
    BY DEF Ids
  <2> QED
    BY <2>1, <2>2, <2>3, <2>4 DEF Local
<1>4. InSession /\ Unique
  BY DEF InSession, Unique
<1> QED
  BY <1>1, <1>2, <1>3, <1>4 DEF IInv, Shape

(* The invariant holds throughout.                                         *)
LEMMA Inductive == Spec => []IInv
<1>1. IInv /\ [Next]_vars => IInv'
  <2> SUFFICES ASSUME IInv, [Next]_vars PROVE IInv'
    OBVIOUS
  <2>1. CASE Next
    <3>1. PICK r \in Reqs : \/ \E h \in Heads(r) : Arrive(r, h)
                           \/ StdioCall(r)
                           \/ Handler(r) \/ ToolHandler(r) \/ ClientLeaves(r)
      BY <2>1 DEF Next
    <3>2. CASE Handler(r)
      BY <3>2, CapInv, ReqLogInv, AuthInv, ForbidInv, ReadInv, OpenInv, DispatchInv, RefuseInv,
         ReplyInv, ReturnInv, PanicInv, LogLineInv, FinishInv DEF Handler, Sdk
    <3>3. CASE ToolHandler(r)
      BY <3>3, HandlerIdInv, SignInv DEF ToolHandler
    <3> QED
      BY <3>1, <3>2, <3>3, ArriveInv, StdioInv, LeaveInv
  <2>2. CASE UNCHANGED vars
    <3> USE DEF vars, pipe, writer, tool
    <3>1. Shape'
      BY <2>2 DEF IInv, Shape, WriterShape, RequestShape
    <3>2. ASSUME NEW r \in Reqs PROVE Local(r)'
      <4>1. Same(r) /\ Local(r) /\ UNCHANGED <<transport, issued>>
        BY <2>2 DEF Same, IInv
      <4>2. issued \in Nat /\ issued' \in Nat /\ issued' >= issued
        BY <4>1 DEF IInv, Shape, RequestShape
      <4>3. /\ ctxId[r] \in Nat /\ callCtx[r] \in Nat /\ reqId[r] \in Nat
            /\ toolLine[r].id \in Nat
        BY DEF IInv, Shape, RequestShape
      <4> QED
        BY <4>1, <4>2, <4>3, Frame
    <3> QED
      BY <2>2, <3>1, <3>2, KeepSession DEF IInv
  <2> QED
    BY <2>1, <2>2
<1> QED
  BY InitInv, <1>1, PTL DEF Spec

(* Every variable has its type, and no request or call an id that has not  *)
(* been made.                                                              *)
THEOREM TypeCorrect == Spec => []TypeOK
<1>1. IInv => TypeOK
  <2> SUFFICES ASSUME IInv PROVE TypeOK
    OBVIOUS
  <2>1. Shape /\ \A r \in Reqs : Local(r)
    BY DEF IInv
  <2>2. ASSUME NEW r \in Reqs PROVE log[r] \in Seq([id : 0..issued, status : Statuses])
    <3>1. CapturedStatus(r) \in Statuses
      BY <2>1 DEF Shape, WriterShape, Local, Answer, CapturedStatus, Statuses
    <3>2. ctxId[r] \in 0..issued
      BY <2>1 DEF Shape, RequestShape, Local, Ids
    <3>3. Line(r) \in [id : 0..issued, status : Statuses]
      BY <3>1, <3>2 DEF Line
    <3>4. log[r] \in {<< >>, <<Line(r)>>}
      BY <2>1 DEF Local, Place
    <3>5. << >> \in Seq([id : 0..issued, status : Statuses])
      OBVIOUS
    <3>6. <<Line(r)>> \in Seq([id : 0..issued, status : Statuses])
      BY <3>3
    <3> QED
      BY <3>4, <3>5, <3>6
  <2>3. log \in [Reqs -> Seq([id : 0..issued, status : Statuses])]
    BY <2>1, <2>2 DEF Shape, RequestShape
  <2>4. /\ ctxId \in [Reqs -> 0..issued] /\ callCtx \in [Reqs -> 0..issued]
        /\ reqId \in [Reqs -> 0..issued]
    BY <2>1 DEF Shape, RequestShape, Local, Ids
  <2>5. toolLine \in [Reqs -> [what : {"none", "audit", "error"}, id : 0..issued]]
    <3>1. ASSUME NEW r \in Reqs
          PROVE  toolLine[r] \in [what : {"none", "audit", "error"}, id : 0..issued]
      BY <2>1 DEF Shape, RequestShape, Local, Ids
    <3> QED
      BY <2>1, <3>1 DEF Shape, RequestShape
  <2> QED
    BY <2>1, <2>3, <2>4, <2>5 DEF Shape, WriterShape, RequestShape, TypeOK
<1> QED
  BY <1>1, Inductive, PTL

(* Each request that is over has left exactly one line: reqlog's deferred  *)
(* function runs once, outside of every layer that answers.                *)
THEOREM OneLine == Spec => []OneLineEach
<1>1. IInv => OneLineEach
  <2> SUFFICES ASSUME IInv, NEW r \in Reqs
               PROVE  /\ Len(log[r]) <= 1
                      /\ transport = "http" /\ dir[r] = "over" => Len(log[r]) = 1
    BY DEF OneLineEach
  <2>1. Place(r)
    BY DEF IInv, Local
  <2>2. Len(<< >>) = 0 /\ Len(<<Line(r)>>) = 1
    OBVIOUS
  <2> QED
    BY <2>1, <2>2 DEF Place
<1> QED
  BY <1>1, Inductive, PTL

(* What statusCaptureWriter has captured is what net/http sends, except    *)
(* after a flush that came before any status: then 200 has been sent.      *)
THEOREM StatusIsTrue == Spec => []LoggedIsSent
<1>1. IInv => LoggedIsSent
  <2> SUFFICES ASSUME IInv, NEW r \in Reqs, log[r] # << >>, sent[r] # 0
               PROVE  \/ log[r][1].status = sent[r]
                      \/ r \in preempted /\ sent[r] = 200
    BY DEF LoggedIsSent
  <2>1. log[r] = <<Line(r)>>
    BY DEF IInv, Local, Place
  <2>2. log[r][1].status = CapturedStatus(r)
    BY <2>1 DEF Line
  <2> QED
    BY <2>2 DEF IInv, Local, Answer
<1> QED
  BY <1>1, Inductive, PTL

(* The bearer check stands before everything a request can do.             *)
THEOREM TokenFirst == Spec => []TokenGuards
<1>1. IInv => TokenGuards
  <2> SUFFICES ASSUME IInv, NEW r \in Reqs, head[r] # NoHead, head[r].token = "wrong"
               PROVE  /\ body[r] = "unread"
                      /\ r \notin sessions
                      /\ call[r] = "none"
                      /\ sent[r] \in {0, 401}
                      /\ dir[r] = "over" => sent[r] = 401 \/ r \in gone
    BY DEF TokenGuards
  <2>1. Shape /\ Place(r) /\ Answer(r) /\ Entry(r)
    BY DEF IInv, Local
  <2>2. transport = "http" /\ ~Clean(r)
    BY <2>1 DEF Shape, RequestShape, Place, Clean
  <2>3. body[r] = "unread" /\ r \notin sessions /\ call[r] = "none"
    BY <2>1, <2>2 DEF Entry
  <2>4. Early(r) \/ dir[r] \in {"return", "over"}
    BY <2>1 DEF Entry, Early, Shape, RequestShape
  <2>5. sent[r] \in {0, 401}
    BY <2>1, <2>4 DEF Entry, Answer, CapturedStatus
  <2> QED
    BY <2>1, <2>3, <2>5 DEF Entry
<1> QED
  BY <1>1, Inductive, PTL

(* No tool is called by a request that a layer would have turned away.     *)
THEOREM OnlyCleanCalls == Spec => []CallsAreClean
<1>1. IInv => CallsAreClean
  BY DEF IInv, Shape, RequestShape, Local, Entry, InSession, CallsAreClean
<1> QED
  BY <1>1, Inductive, PTL

(* Every line of a call has an id: its session's over HTTP, its own over   *)
(* stdio.                                                                  *)
THEOREM Joinable == Spec => []LinesCanBeJoined
<1>1. IInv => LinesCanBeJoined
  <2> SUFFICES ASSUME IInv, NEW r \in Reqs, toolLine[r].what # "none"
               PROVE  /\ toolLine[r].id # NoId
                      /\ IF transport = "http"
                         THEN toolLine[r].id = ctxId[head[r].session]
                         ELSE \A q \in Reqs \ {r} : toolLine[q].id # toolLine[r].id
    BY DEF LinesCanBeJoined
  <2>1. call[r] = "done" /\ toolLine[r].id = reqId[r] /\ callCtx[r] = reqId[r] /\ reqId[r] # NoId
    BY DEF IInv, Local, Ids
  <2>2. CASE transport = "http"
    BY <2>1, <2>2 DEF IInv, InSession
  <2>3. CASE transport = "stdio"
    <3>1. ASSUME NEW q \in Reqs \ {r} PROVE toolLine[q].id # reqId[r]
      <4>1. reqId[q] # reqId[r]
        BY <2>1, <2>3 DEF IInv, Unique
      <4> QED
        BY <2>1, <4>1 DEF IInv, Local, Ids
    <3> QED
      BY <2>1, <2>3, <3>1
  <2> QED
    BY <2>1, <2>2, <2>3 DEF IInv, Shape, RequestShape
<1> QED
  BY <1>1, Inductive, PTL
=============================================================================
