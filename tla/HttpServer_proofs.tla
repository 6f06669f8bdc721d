------------------------- MODULE HttpServer_proofs -------------------------
(***************************************************************************)
(* For any set of connections: nothing is left behind when RunHTTP         *)
(* returns, a nil return loses no reply, and the wait for Serve ends.      *)
(***************************************************************************)
EXTENDS HttpServer, TLAPS

(* How far RunHTTP is tells what the listener and Serve may be doing.      *)
StagesInv ==
  /\ at \in {"token", "listen"} => listener = "none"
  /\ at \in {"token", "listen", "loopback", "announce"} => serve = "none" /\ ret = "none"
  /\ at \in {"select", "shutdown", "poll", "drain", "drainLate"} => serve # "none" /\ ret = "none"
  /\ inShutdown <=> at \in {"poll", "drain", "drainLate"} \/ ret \in {"nil", "deadline"}
  /\ at \in {"drain", "drainLate"} => serve # "accepting"

(* Serve closes its listener before its goroutine sends, and RunHTTP       *)
(* returns after that or without having started it.                        *)
ServeInv ==
  /\ serve = "none" => serveErrCh = "empty"
  /\ serve = "exited" => listener = "closed" /\ (ret = "none" => serveErrCh # "empty")
  /\ serveErrCh # "empty" => serve = "exited" /\ (serveErrCh = "nil" => inShutdown)
  /\ at \in {"returned", "exited"} =>
       \/ ret = "startErr" /\ serve = "none" /\ listener # "open"
       \/ ret \in {"serveErr", "nil", "deadline"} /\ serve = "exited"

(* A call in the vault belongs to a connection the server still tracks, or *)
(* its client has gone; a clean drain found no connection, and no new one  *)
(* can come.                                                               *)
CallsInv ==
  /\ \A c \in Conns :
       phase[c] # "idle" => conn[c] = "active" \/ (conn[c] = "none" /\ c \in cancelled)
  /\ at = "drain" \/ ret = "nil" => \A c \in Conns : conn[c] = "none"

IInv == TypeOK /\ StagesInv /\ ServeInv /\ CallsInv

LEMMA InitIInv == Init => IInv
  BY DEF Init, Vault!Init, IInv, TypeOK, StagesInv, ServeInv, CallsInv

(* RunHTTP's own steps and those of the Serve goroutine leave connections  *)
(* and calls alone, CloseIdle excepted.                                    *)
LEMMA ServerStep ==
  ASSUME IInv, at # "exited",
         RunHTTP \/ ServeGoroutine \/ AcceptFails \/ GraceExpires \/ Exit \/ Signal
  PROVE  IInv'
<1> USE DEF IInv, TypeOK, StagesInv, ServeInv, CallsInv, calls
<1>1. CASE LoadToken
  BY <1>1 DEF LoadToken, Return
<1>2. CASE Listen
  BY <1>2 DEF Listen, Return
<1>3. CASE CheckLoopback
  BY <1>3 DEF CheckLoopback, Return
<1>4. CASE StartServe
  BY <1>4 DEF StartServe
<1>5. CASE SelectServeErr
  BY <1>5 DEF SelectServeErr, Return
<1>6. CASE SelectDone
  BY <1>6 DEF SelectDone
<1>7. CASE BeginShutdown
  BY <1>7 DEF BeginShutdown
<1>8. CASE PollBusy
  BY <1>8 DEF PollBusy, CloseIdle, server
<1>9. CASE PollDrained
  BY <1>9 DEF PollDrained, CloseIdle, Busy
<1>10. CASE PollExpired
  BY <1>10 DEF PollExpired
<1>11. CASE DrainServe
  BY <1>11 DEF DrainServe, Return, ShutdownError
<1>12. CASE ServeGoroutine
  BY <1>12 DEF ServeGoroutine, ServeTracksListener, ServeTooLate, ServeStops, ServeReturns
<1>13. CASE AcceptFails
  BY <1>13 DEF AcceptFails, ServeReturns
<1>14. CASE GraceExpires
  BY <1>14 DEF GraceExpires
<1>15. CASE Exit
  BY <1>15 DEF Exit
<1>16. CASE Signal
  BY <1>16 DEF Signal
<1> QED
  BY <1>1, <1>2, <1>3, <1>4, <1>5, <1>6, <1>7, <1>8, <1>9, <1>10, <1>11, <1>12,
     <1>13, <1>14, <1>15, <1>16 DEF RunHTTP, AfterToken

LEMMA RequestStep ==
  ASSUME IInv, NEW c \in Conns, Request(c)
  PROVE  IInv'
<1> USE DEF IInv, TypeOK, StagesInv, ServeInv, CallsInv, server, calls, SetConn, AfterRequest
<1>1. CASE Accept(c)
  BY <1>1 DEF Accept
<1>2. CASE QuickRequest(c)
  BY <1>2 DEF QuickRequest
<1>3. CASE OpenStream(c)
  BY <1>3 DEF OpenStream
<1>4. CASE SignRequest(c)
  BY <1>4 DEF SignRequest, Vault!Ask, Vault!Move
<1>5. CASE VaultStep(c)
  <2>1. PICK from, to \in {"asked", "letIn", "using", "leaving", "answered"} :
          Vault!Move(c, from, to)
    BY <1>5 DEF VaultStep, Vault!Dismiss, Vault!LetIn, Vault!Refuse, Vault!OpenKey,
                Vault!UseKey, Vault!Return
  <2>2. cancelled' = cancelled
    BY <1>5 DEF VaultStep, Vault!Dismiss, Vault!LetIn, Vault!Refuse, Vault!OpenKey,
                Vault!UseKey, Vault!Return
  <2>3. answer' \in [Conns -> {"none", "ctxErr"} \cup Vault!Refusals \cup Vault!FnOutcomes]
    BY <1>5 DEF VaultStep, Vault!Dismiss, Vault!LetIn, Vault!Refuse, Vault!OpenKey,
                Vault!UseKey, Vault!Return
  <2>4. UNCHANGED <<server, conn>>
    BY <1>5 DEF VaultStep
  <2>5. /\ phase[c] # "idle"
        /\ phase' \in [Conns -> {"idle", "asked", "letIn", "using", "leaving", "answered"}]
        /\ \A d \in Conns : phase'[d] # "idle" => phase[d] # "idle"
    BY <2>1 DEF Vault!Move
  <2>6. TypeOK'
    BY <2>2, <2>3, <2>4, <2>5
  <2>7. StagesInv' /\ ServeInv'
    BY <2>4
  <2>8. CallsInv'
    BY <2>2, <2>4, <2>5
  <2> QED
    BY <2>6, <2>7, <2>8
<1>6. CASE Respond(c)
  BY <1>6 DEF Respond, Vault!Collect, Vault!Move
<1>7. CASE ClientLeaves(c)
  BY <1>7 DEF ClientLeaves, Vault!Cancel
<1>8. CASE HandlerAbandons(c)
  BY <1>8 DEF HandlerAbandons
<1>9. CASE NewConnAges(c)
  BY <1>9 DEF NewConnAges
<1> QED
  BY <1>1, <1>2, <1>3, <1>4, <1>5, <1>6, <1>7, <1>8, <1>9 DEF Request

LEMMA StepIInv == IInv /\ [Next]_vars => IInv'
<1> SUFFICES ASSUME IInv, [Next]_vars PROVE IInv'
  OBVIOUS
<1>1. CASE Next
  BY <1>1, ServerStep, RequestStep DEF Next
<1>2. CASE UNCHANGED vars
  BY <1>2 DEF vars, server, calls, IInv, TypeOK, StagesInv, ServeInv, CallsInv
<1> QED
  BY <1>1, <1>2

LEMMA Inductive == Spec => []IInv
  BY InitIInv, StepIInv, PTL DEF Spec

(* The variables have their types in every run.                            *)
THEOREM TypeCorrect == Spec => []TypeOK
<1>1. IInv => TypeOK
  BY DEF IInv
<1> QED
  BY Inductive, <1>1, PTL

(* RunHTTP never returns with a listener open or with Serve still running: *)
(* not when a start-up step fails, not when Serve dies, not when the       *)
(* signal precedes Serve, not when the grace window runs out.              *)
THEOREM Cleanup == Spec => []NothingLeftBehind
<1>1. IInv => NothingLeftBehind
  BY DEF IInv, TypeOK, StagesInv, ServeInv, NothingLeftBehind
<1> QED
  BY Inductive, <1>1, PTL

(* A nil return means that no client, of however many, is owed a reply.    *)
THEOREM CleanExit == Spec => []CleanExitLosesNoReply
<1>1. IInv => CleanExitLosesNoReply
  BY DEF IInv, CallsInv, CleanExitLosesNoReply
<1> QED
  BY Inductive, <1>1, PTL

(* RunHTTP's wait for the Serve goroutine always has an end: the value is  *)
(* in the channel, or a Serve that came too late is about to send it.      *)
THEOREM DrainEnds == Spec => []DrainNeverHangs
<1>1. IInv => DrainNeverHangs
  BY DEF IInv, TypeOK, StagesInv, ServeInv, DrainNeverHangs
<1> QED
  BY Inductive, <1>1, PTL
=============================================================================
