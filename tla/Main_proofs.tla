---------------------------- MODULE Main_proofs ----------------------------
(***************************************************************************)
(* The safety properties of Main, for any set of connections. What the     *)
(* HTTP transport keeps to on its own is taken from its proofs: every step *)
(* of the process is a step of HttpServer or leaves it alone.              *)
(***************************************************************************)
EXTENDS Main, Integers, TLAPS

SP == INSTANCE HttpServer_proofs

-----------------------------------------------------------------------------
(* The server inside the process is the server of HttpServer_proofs.       *)

LEMMA ServerInit == Server!Init => SP!IInv
<1>1. Server!Init => SP!Init
  BY DEF Server!Init, SP!Init, Server!Vault!Init, SP!Vault!Init
<1>2. QED
  BY <1>1, SP!InitIInv

LEMMA SameRunHTTP == Server!RunHTTP => SP!RunHTTP
<1>1. Server!LoadToken => SP!LoadToken
  BY DEF Server!LoadToken, SP!LoadToken, Server!Return, SP!Return, Server!calls, SP!calls
<1>2. Server!Listen => SP!Listen
  BY DEF Server!Listen, SP!Listen, Server!Return, SP!Return, Server!calls, SP!calls
<1>3. Server!CheckLoopback => SP!CheckLoopback
  BY DEF Server!CheckLoopback, SP!CheckLoopback, Server!Return, SP!Return, Server!calls,
      SP!calls
<1>4. Server!StartServe => SP!StartServe
  BY DEF Server!StartServe, SP!StartServe, Server!calls, SP!calls
<1>5. Server!SelectServeErr => SP!SelectServeErr
  BY DEF Server!SelectServeErr, SP!SelectServeErr, Server!Return, SP!Return, Server!calls,
      SP!calls
<1>6. Server!SelectDone => SP!SelectDone
  BY DEF Server!SelectDone, SP!SelectDone, Server!calls, SP!calls
<1>7. Server!BeginShutdown => SP!BeginShutdown
  BY DEF Server!BeginShutdown, SP!BeginShutdown, Server!calls, SP!calls
<1>8. Server!PollBusy => SP!PollBusy
  BY DEF Server!PollBusy, SP!PollBusy, Server!Busy, SP!Busy, Server!CloseIdle, SP!CloseIdle,
      Server!server, SP!server, Server!calls, SP!calls
<1>9. Server!PollDrained => SP!PollDrained
  BY DEF Server!PollDrained, SP!PollDrained, Server!Busy, SP!Busy, Server!CloseIdle,
      SP!CloseIdle, Server!calls, SP!calls
<1>10. Server!PollExpired => SP!PollExpired
  BY DEF Server!PollExpired, SP!PollExpired, Server!calls, SP!calls
<1>11. Server!DrainServe => SP!DrainServe
  BY DEF Server!DrainServe, SP!DrainServe, Server!Return, SP!Return, Server!ShutdownError,
      SP!ShutdownError, Server!calls, SP!calls
<1>12. QED
  BY <1>1, <1>2, <1>3, <1>4, <1>5, <1>6, <1>7, <1>8, <1>9, <1>10, <1>11
     DEF Server!RunHTTP, SP!RunHTTP, Server!AfterToken, SP!AfterToken

LEMMA SameRequest ==
  ASSUME NEW c \in Conns, Server!Request(c)
  PROVE  SP!Request(c)
<1>1. Server!Accept(c) => SP!Accept(c)
  BY DEF Server!Accept, SP!Accept, Server!server, SP!server, Server!calls, SP!calls
<1>2. Server!QuickRequest(c) => SP!QuickRequest(c)
  BY DEF Server!QuickRequest, SP!QuickRequest, Server!SetConn, SP!SetConn, Server!AfterRequest,
      SP!AfterRequest, Server!server, SP!server, Server!calls, SP!calls
<1>3. Server!OpenStream(c) => SP!OpenStream(c)
  BY DEF Server!OpenStream, SP!OpenStream, Server!SetConn, SP!SetConn, Server!server,
      SP!server, Server!calls, SP!calls
<1>4. Server!SignRequest(c) => SP!SignRequest(c)
  BY DEF Server!SignRequest, SP!SignRequest, Server!Vault!Ask, SP!Vault!Ask, Server!Vault!Move,
      SP!Vault!Move, Server!SetConn, SP!SetConn, Server!server, SP!server
<1>5. Server!VaultStep(c) => SP!VaultStep(c)
  BY DEF Server!VaultStep, SP!VaultStep, Server!Vault!Dismiss, SP!Vault!Dismiss,
      Server!Vault!LetIn, SP!Vault!LetIn, Server!Vault!Refuse, SP!Vault!Refuse,
      Server!Vault!OpenKey, SP!Vault!OpenKey, Server!Vault!UseKey, SP!Vault!UseKey,
      Server!Vault!Return, SP!Vault!Return, Server!Vault!Move, SP!Vault!Move,
      Server!Vault!Inside, SP!Vault!Inside, Server!Vault!Refusals, SP!Vault!Refusals,
      Server!Vault!FnOutcomes, SP!Vault!FnOutcomes, Server!server, SP!server
<1>6. Server!Respond(c) => SP!Respond(c)
  BY DEF Server!Respond, SP!Respond, Server!Vault!Collect, SP!Vault!Collect, Server!Vault!Move,
      SP!Vault!Move, Server!SetConn, SP!SetConn, Server!AfterRequest, SP!AfterRequest,
      Server!server, SP!server
<1>7. Server!ClientLeaves(c) => SP!ClientLeaves(c)
  BY DEF Server!ClientLeaves, SP!ClientLeaves, Server!SetConn, SP!SetConn, Server!Vault!Cancel,
      SP!Vault!Cancel, Server!server, SP!server, Server!calls, SP!calls
<1>8. Server!HandlerAbandons(c) => SP!HandlerAbandons(c)
  BY DEF Server!HandlerAbandons, SP!HandlerAbandons, Server!SetConn, SP!SetConn, Server!server,
      SP!server, Server!calls, SP!calls
<1>9. Server!NewConnAges(c) => SP!NewConnAges(c)
  BY DEF Server!NewConnAges, SP!NewConnAges, Server!server, SP!server, Server!calls, SP!calls
<1>10. QED
  BY <1>1, <1>2, <1>3, <1>4, <1>5, <1>6, <1>7, <1>8, <1>9 DEF Server!Request, SP!Request

LEMMA SameOthers ==
  /\ Server!ServeGoroutine => SP!ServeGoroutine
  /\ Server!AcceptFails => SP!AcceptFails
  /\ Server!GraceExpires => SP!GraceExpires
  /\ Server!Signal => SP!Signal
<1>1. Server!ServeGoroutine => SP!ServeGoroutine
  BY DEF Server!ServeGoroutine, SP!ServeGoroutine, Server!ServeTracksListener,
      SP!ServeTracksListener, Server!ServeTooLate, SP!ServeTooLate, Server!ServeStops,
      SP!ServeStops, Server!ServeReturns, SP!ServeReturns, Server!calls, SP!calls
<1>2. Server!AcceptFails => SP!AcceptFails
  BY DEF Server!AcceptFails, SP!AcceptFails, Server!ServeReturns, SP!ServeReturns,
      Server!calls, SP!calls
<1>3. Server!GraceExpires => SP!GraceExpires
  BY DEF Server!GraceExpires, SP!GraceExpires, Server!calls, SP!calls
<1>4. Server!Signal => SP!Signal
  BY DEF Server!Signal, SP!Signal, Server!calls, SP!calls
<1>5. QED
  BY <1>1, <1>2, <1>3, <1>4

-----------------------------------------------------------------------------
(* A nil result is the answer to a signal, and only main ends the process. *)

SignalInv ==
  /\ at # "exited"
  /\ at \in {"shutdown", "poll", "drain", "drainLate"} \/ ret \in {"nil", "deadline"} => signalled
  /\ at # "returned" => ret = "none"

ServerInv == SP!IInv /\ SignalInv

(* What the process lets the server do, start-up included.                 *)
ServerStep ==
  \/ Server!RunHTTP \/ Server!ServeGoroutine \/ Server!AcceptFails \/ Server!GraceExpires
  \/ Server!Signal \/ \E c \in Conns : Server!Request(c)

LEMMA ServerStepKeeps ==
  ASSUME ServerInv, ServerStep
  PROVE  ServerInv'
<1>1. SP!IInv'
  <2>1. SP!Next
    BY SameRunHTTP, SameRequest, SameOthers DEF ServerStep, SP!Next, ServerInv, SignalInv
  <2>2. QED
    BY <2>1, SP!StepIInv DEF ServerInv
<1>2. SP!StagesInv /\ SP!ServeInv /\ SP!TypeOK
  BY DEF ServerInv, SP!IInv
<1>3. SignalInv'
  <2> USE <1>2 DEF ServerInv, SignalInv, SP!StagesInv, SP!ServeInv, SP!TypeOK, Server!calls
  <2>1. CASE Server!LoadToken
    BY <2>1 DEF Server!LoadToken, Server!Return
  <2>2. CASE Server!Listen
    BY <2>2 DEF Server!Listen, Server!Return
  <2>3. CASE Server!CheckLoopback
    BY <2>3 DEF Server!CheckLoopback, Server!Return
  <2>4. CASE Server!StartServe
    BY <2>4 DEF Server!StartServe
  <2>5. CASE Server!SelectServeErr
    BY <2>5 DEF Server!SelectServeErr, Server!Return
  <2>6. CASE Server!SelectDone
    BY <2>6 DEF Server!SelectDone
  <2>7. CASE Server!BeginShutdown
    BY <2>7 DEF Server!BeginShutdown
  <2>8. CASE Server!PollBusy
    BY <2>8 DEF Server!PollBusy, Server!server
  <2>9. CASE Server!PollDrained
    BY <2>9 DEF Server!PollDrained
  <2>10. CASE Server!PollExpired
    BY <2>10 DEF Server!PollExpired
  <2>11. CASE Server!DrainServe
    BY <2>11 DEF Server!DrainServe, Server!Return, Server!ShutdownError
  <2>12. CASE Server!ServeGoroutine
    BY <2>12 DEF Server!ServeGoroutine, Server!ServeTracksListener, Server!ServeTooLate,
        Server!ServeStops, Server!ServeReturns
  <2>13. CASE Server!AcceptFails
    BY <2>13 DEF Server!AcceptFails, Server!ServeReturns
  <2>14. CASE Server!GraceExpires
    BY <2>14 DEF Server!GraceExpires
  <2>15. CASE Server!Signal
    BY <2>15 DEF Server!Signal
  <2>16. ASSUME NEW c \in Conns, Server!Request(c)
         PROVE  SignalInv'
    <3>1. UNCHANGED Server!server
      BY <2>16 DEF Server!Request, Server!Accept, Server!QuickRequest, Server!OpenStream,
          Server!SignRequest, Server!VaultStep, Server!Respond, Server!ClientLeaves,
          Server!HandlerAbandons, Server!NewConnAges
    <3>2. QED
      BY <3>1 DEF Server!server
  <2>17. QED
    BY <2>1, <2>2, <2>3, <2>4, <2>5, <2>6, <2>7, <2>8, <2>9, <2>10, <2>11, <2>12, <2>13,
       <2>14, <2>15, <2>16 DEF ServerStep, Server!RunHTTP, Server!AfterToken
<1>4. QED
  BY <1>1, <1>3 DEF ServerInv

LEMMA ServerIdle ==
  ASSUME ServerInv, UNCHANGED serverVars
  PROVE  ServerInv'
<1>1. SP!IInv'
  BY SP!StepIInv DEF ServerInv, serverVars, SP!vars, SP!server, SP!calls
<1>2. QED
  BY <1>1 DEF ServerInv, SignalInv, serverVars

-----------------------------------------------------------------------------
(* The inductive invariant of the process.                                 *)

MainTyped ==
  /\ step \in {"validate", "perms", "notify", "transport", "main", "ended"}
  /\ cfg \in [http : BOOLEAN, strict : BOOLEAN, valid : BOOLEAN]
  /\ todo \in Seq(Required)
  /\ file \in [Secrets -> Files]
  /\ \A f \in Secrets : file[f] \in States(f)
  /\ handler \in {"default", "notify"}
  /\ stdio \in {"none", "nil", "error"}
  /\ exit \in {"none", "0", "1", "2", "signal"}
  /\ wasStrict \subseteq Secrets

(* Under --strict-perms a required file is still to be looked at, or it    *)
(* has been seen to be private.                                            *)
PermsInv ==
  /\ Private \subseteq wasStrict
  /\ step \in {"perms", "notify", "transport"} /\ cfg.strict =>
       \A f \in Required \ wasStrict : \E i \in DOMAIN todo : todo[i] = f
  /\ step \in {"notify", "transport"} => todo = << >>

(* How far the process is tells what the transport may have done and what  *)
(* a signal does.                                                          *)
StepsInv ==
  /\ step \in {"validate", "perms", "notify"} => at = "token" /\ stdio = "none"
  /\ ~cfg.http => at = "token"
  /\ cfg.http => stdio = "none"
  /\ step = "main" => at = "returned" \/ stdio # "none"
  /\ step # "ended" => (handler = "notify" <=> step = "transport")
  /\ exit # "none" <=> step = "ended"
  /\ DrainIsNotInterrupted
  /\ ZeroMeansDrained

IInv == ServerInv /\ MainTyped /\ PermsInv /\ StepsInv

LEMMA InitIInv == Init => IInv
<1> SUFFICES ASSUME Init
             PROVE  IInv
  OBVIOUS
<1>1. ServerInv
  BY ServerInit DEF Init, ServerInv, SignalInv, Server!Init
<1>2. MainTyped
  BY DEF Init, MainTyped, Private
<1>3. PermsInv
  BY DEF Init, PermsInv
<1>4. StepsInv
  BY DEF Init, StepsInv, DrainIsNotInterrupted, ZeroMeansDrained, Server!Init
<1>5. QED
  BY <1>1, <1>2, <1>3, <1>4 DEF IInv

LEMMA RequiredPaths ==
  /\ Paths \in Seq(Required)
  /\ \A f \in Required : \E i \in DOMAIN Paths : Paths[i] = f
<1>1. Paths \in Seq(Secrets)
  <2>1. <<"keystore", "password">> \in Seq(Secrets)
    BY DEF Secrets
  <2>2. <<"token">> \in Seq(Secrets) /\ << >> \in Seq(Secrets)
    BY DEF Secrets
  <2>3. \A p, q \in Seq(Secrets) : p \o q \in Seq(Secrets)
    OBVIOUS
  <2>4. QED
    BY <2>1, <2>2, <2>3 DEF Paths
<1>2. \A i \in DOMAIN Paths : Paths[i] \in Required
  BY DEF Required
<1>3. Paths \in Seq(Required)
  BY <1>1, <1>2
<1>4. QED
  BY <1>3 DEF Required

LEMMA HeadOrTail ==
  ASSUME NEW S, NEW q \in Seq(S), q # << >>
  PROVE  /\ Tail(q) \in Seq(S) /\ Head(q) \in S
         /\ \A i \in DOMAIN q : q[i] = Head(q) \/ \E j \in DOMAIN Tail(q) : Tail(q)[j] = q[i]
<1>1. Tail(q) \in Seq(S) /\ Head(q) \in S /\ Len(Tail(q)) = Len(q) - 1 /\ DOMAIN Tail(q) = 1..Len(Tail(q))
  OBVIOUS
<1>2. ASSUME NEW i \in DOMAIN q, q[i] # Head(q)
      PROVE  \E j \in DOMAIN Tail(q) : Tail(q)[j] = q[i]
  <2>1. i \in 2..Len(q)
    BY <1>2
  <2>2. i - 1 \in 1..Len(Tail(q)) /\ Tail(q)[i - 1] = q[(i - 1) + 1]
    BY <1>1, <2>1
  <2>3. (i - 1) + 1 = i
    BY <2>1
  <2>4. QED
    BY <1>1, <2>2, <2>3
<1>3. QED
  BY <1>1, <1>2

LEMMA StartupKeeps ==
  ASSUME IInv, exit = "none", Startup
  PROVE  IInv'
<1>1. ServerInv' /\ UNCHANGED <<serverVars, cfg, filesVars, stdio>>
  BY ServerIdle DEF IInv, Startup, Validate, CheckPerms, NewFileKeyVault, Notify
<1>2. UNCHANGED <<at, stdio, cfg, file, wasStrict>>
  BY <1>1 DEF serverVars, filesVars
<1>3. Required' = Required /\ Private' = Private
  BY <1>2 DEF Required, Paths, Private
<1>4. CASE Validate
  <2>1. Paths \in Seq(Required) /\ \A f \in Required : \E i \in DOMAIN Paths : Paths[i] = f
    BY RequiredPaths
  <2>2. MainTyped'
    BY <1>2, <1>3, <1>4, <2>1 DEF IInv, MainTyped, Validate, Fail, States
  <2>3. PermsInv'
    BY <1>2, <1>3, <1>4, <2>1 DEF IInv, PermsInv, Validate, Fail
  <2>4. StepsInv'
    BY <1>2, <1>4 DEF IInv, StepsInv, Validate, Fail, DrainIsNotInterrupted, ZeroMeansDrained
  <2>5. QED
    BY <1>1, <2>2, <2>3, <2>4 DEF IInv
<1>5. CASE CheckPerms
  <2>1. /\ Tail(todo) \in Seq(Required) /\ Head(todo) \in Required
        /\ \A i \in DOMAIN todo : todo[i] = Head(todo) \/ \E j \in DOMAIN Tail(todo) : Tail(todo)[j] = todo[i]
    BY <1>5, HeadOrTail DEF IInv, MainTyped, CheckPerms
  <2>2. MainTyped'
    BY <1>2, <1>3, <1>5, <2>1 DEF IInv, MainTyped, CheckPerms, Fail, States
  <2>3. PermsInv'
    <3>1. CASE step' = "ended"
      BY <1>2, <1>3, <3>1 DEF IInv, PermsInv
    <3>2. CASE todo' = Tail(todo) /\ step' = step
      <4>1. cfg.strict => Head(todo) \in wasStrict
        <5>1. Required \subseteq Secrets
          BY DEF Required, Paths, Secrets
        <5>2. cfg.strict => file[Head(todo)].mode = "strict"
          BY <1>5, <2>1, <3>2, <5>1 DEF IInv, MainTyped, CheckPerms, Fail, Files, Modes
        <5>3. QED
          BY <2>1, <5>1, <5>2 DEF IInv, PermsInv, Private
      <4>2. QED
        <5>1. step = "perms" /\ step' = "perms"
          BY <1>5, <3>2 DEF CheckPerms
        <5>2. ASSUME cfg.strict, NEW f \in Required \ wasStrict
              PROVE  \E i \in DOMAIN Tail(todo) : Tail(todo)[i] = f
          <6>1. PICK i \in DOMAIN todo : todo[i] = f
            BY <5>1, <5>2 DEF IInv, PermsInv
          <6>2. f # Head(todo)
            BY <4>1, <5>2
          <6>3. QED
            BY <2>1, <6>1, <6>2
        <5>3. QED
          BY <1>2, <1>3, <3>2, <5>1, <5>2 DEF IInv, PermsInv
    <3>3. QED
      BY <1>5, <3>1, <3>2 DEF CheckPerms, Fail
  <2>4. StepsInv'
    BY <1>2, <1>5 DEF IInv, StepsInv, CheckPerms, Fail, DrainIsNotInterrupted, ZeroMeansDrained
  <2>5. QED
    BY <1>1, <2>2, <2>3, <2>4 DEF IInv
<1>6. CASE NewFileKeyVault
  <2>1. MainTyped' /\ PermsInv'
    BY <1>2, <1>3, <1>6 DEF IInv, MainTyped, PermsInv, NewFileKeyVault, Fail, States
  <2>2. StepsInv'
    BY <1>2, <1>6 DEF IInv, StepsInv, NewFileKeyVault, Fail, DrainIsNotInterrupted, ZeroMeansDrained
  <2>3. QED
    BY <1>1, <2>1, <2>2 DEF IInv
<1>7. CASE Notify
  <2>1. MainTyped' /\ PermsInv'
    BY <1>2, <1>3, <1>7 DEF IInv, MainTyped, PermsInv, Notify, States
  <2>2. StepsInv'
    BY <1>2, <1>7 DEF IInv, StepsInv, Notify, DrainIsNotInterrupted, ZeroMeansDrained
  <2>3. QED
    BY <1>1, <2>1, <2>2 DEF IInv
<1>8. QED
  BY <1>4, <1>5, <1>6, <1>7 DEF Startup

(* A step of the server, while run() is in RunHTTP or a signal arrives.    *)
LEMMA ServingKeeps ==
  ASSUME IInv, exit = "none", UNCHANGED mainVars, ServerStep,
         step = "transport", cfg.http \/ at' = at
  PROVE  IInv'
<1>1. ServerInv'
  BY ServerStepKeeps DEF IInv
<1>2. UNCHANGED <<step, cfg, todo, file, wasStrict, handler, stdio, exit>>
  BY DEF mainVars, filesVars
<1>3. Required' = Required /\ Private' = Private
  BY <1>2 DEF Required, Paths, Private
<1>4. MainTyped' /\ PermsInv'
  BY <1>2, <1>3 DEF IInv, MainTyped, PermsInv, States
<1>5. StepsInv'
  BY <1>2 DEF IInv, StepsInv, DrainIsNotInterrupted, ZeroMeansDrained
<1>6. QED
  BY <1>1, <1>4, <1>5 DEF IInv

LEMMA TransportKeeps ==
  ASSUME IInv, exit = "none", RunHTTP \/ ServeGoroutine \/ GraceExpires \/ Clients
  PROVE  IInv'
<1>1. step = "transport" /\ cfg.http /\ UNCHANGED mainVars
  BY DEF RunHTTP, ServeGoroutine, GraceExpires, Clients, Http
<1>2. ServerStep
  BY DEF RunHTTP, ServeGoroutine, GraceExpires, Clients, ServerStep, Server!RunHTTP
<1>3. QED
  BY <1>1, <1>2, ServingKeeps

LEMMA FirstSignalKeeps ==
  ASSUME IInv, exit = "none", FirstSignal
  PROVE  IInv'
<1>1. step = "transport" /\ UNCHANGED mainVars /\ at' = at /\ ServerStep
  BY DEF FirstSignal, IInv, StepsInv, MainTyped, Server!Signal, ServerStep
<1>2. QED
  BY <1>1, ServingKeeps

(* The ways the process ends, and stdio.                                   *)
LEMMA EndingKeeps ==
  ASSUME IInv, exit = "none",
         FatalSignal \/ RunReturns \/ MainExits \/ \E result \in {"nil", "error"} : StdioEnds(result)
  PROVE  IInv'
<1>1. ServerInv' /\ UNCHANGED <<serverVars, cfg, todo, filesVars>>
  BY ServerIdle DEF IInv, FatalSignal, RunReturns, MainExits, StdioEnds
<1>2. UNCHANGED <<at, ret, signalled, listener, conn, phase, cancelled, cfg, todo, file, wasStrict>>
  BY <1>1 DEF serverVars, filesVars
<1>3. Required' = Required /\ Private' = Private
  BY <1>2 DEF Required, Paths, Private
<1>4. MainTyped' /\ PermsInv'
  BY <1>2, <1>3 DEF IInv, MainTyped, PermsInv, States, FatalSignal, RunReturns, MainExits,
      StdioEnds, Fail
<1>5. StepsInv'
  <2>1. CASE FatalSignal
    <3>1. at \in {"token", "returned"}
      BY <2>1 DEF IInv, StepsInv, MainTyped, FatalSignal
    <3>2. QED
      BY <1>2, <2>1, <3>1 DEF IInv, StepsInv, FatalSignal, Fail, DrainIsNotInterrupted,
          ZeroMeansDrained
  <2>2. CASE RunReturns
    BY <1>2, <2>2 DEF IInv, StepsInv, RunReturns, DrainIsNotInterrupted, ZeroMeansDrained
  <2>3. ASSUME NEW result \in {"nil", "error"}, StdioEnds(result)
        PROVE  StepsInv'
    BY <1>2, <2>3 DEF IInv, StepsInv, StdioEnds, DrainIsNotInterrupted, ZeroMeansDrained
  <2>4. CASE MainExits
    <3>1. exit' \in {"0", "1"} /\ step' = "ended" /\ UNCHANGED <<handler, stdio>>
      BY <2>4 DEF MainExits, Fail
    <3>2. ASSUME exit' = "0", cfg.http
          PROVE  /\ signalled /\ listener = "closed"
                 /\ \A c \in Conns : conn[c] = "none" /\ (phase[c] # "idle" => c \in cancelled)
      <4>1. ret = "nil" /\ at = "returned"
        BY <2>4, <3>2 DEF MainExits, Fail, IInv, StepsInv
      <4>2. SP!StagesInv /\ SP!ServeInv /\ SP!CallsInv /\ SignalInv
        BY DEF IInv, ServerInv, SP!IInv
      <4>3. signalled /\ listener = "closed"
        BY <4>1, <4>2 DEF SignalInv, SP!ServeInv
      <4>4. QED
        BY <4>1, <4>2, <4>3 DEF SP!CallsInv
    <3>3. ZeroMeansDrained'
      BY <1>2, <3>2 DEF ZeroMeansDrained
    <3>4. QED
      BY <1>2, <2>4, <3>1, <3>3 DEF IInv, StepsInv, MainExits, DrainIsNotInterrupted
  <2>5. QED
    BY <2>1, <2>2, <2>3, <2>4
<1>6. QED
  BY <1>1, <1>4, <1>5 DEF IInv

LEMMA ChangeFileKeeps ==
  ASSUME IInv, NEW f \in Secrets, NEW new \in States(f), ChangeFile(f, new)
  PROVE  IInv'
<1>1. ServerInv' /\ UNCHANGED <<serverVars, step, cfg, todo, handler, stdio, exit>>
  BY ServerIdle DEF IInv, ChangeFile
<1>2. Required' = Required
  BY <1>1 DEF Required, Paths
<1>3. MainTyped'
  <2>1. new \in Files
    BY DEF States, Files
  <2>2. file' \in [Secrets -> Files] /\ \A g \in Secrets : file'[g] \in States(g)'
    BY <2>1 DEF IInv, MainTyped, ChangeFile, States
  <2>3. QED
    BY <1>1, <1>2, <2>2 DEF IInv, MainTyped, ChangeFile
<1>4. wasStrict \subseteq wasStrict' /\ Private' \subseteq wasStrict'
  BY DEF IInv, MainTyped, PermsInv, Private, ChangeFile
<1>5. PermsInv'
  BY <1>1, <1>2, <1>4 DEF IInv, PermsInv
<1>6. StepsInv'
  BY <1>1 DEF IInv, StepsInv, serverVars, DrainIsNotInterrupted, ZeroMeansDrained
<1>7. QED
  BY <1>1, <1>3, <1>5, <1>6 DEF IInv

LEMMA StepIInv == IInv /\ [Next]_vars => IInv'
<1> SUFFICES ASSUME IInv, [Next]_vars
             PROVE  IInv'
  OBVIOUS
<1>1. CASE UNCHANGED vars
  <2>1. ServerInv' /\ UNCHANGED <<serverVars, mainVars>>
    BY <1>1, ServerIdle DEF IInv, vars
  <2>2. UNCHANGED <<at, signalled, listener, conn, phase, cancelled, step, cfg, todo, file,
                    wasStrict, handler, stdio, exit>>
    BY <2>1 DEF serverVars, mainVars, filesVars
  <2>3. Required' = Required /\ Private' = Private
    BY <2>2 DEF Required, Paths, Private
  <2>4. MainTyped' /\ PermsInv'
    BY <2>2, <2>3 DEF IInv, MainTyped, PermsInv, States
  <2>5. StepsInv'
    BY <2>2 DEF IInv, StepsInv, DrainIsNotInterrupted, ZeroMeansDrained
  <2>6. QED
    BY <2>1, <2>4, <2>5 DEF IInv
<1>2. CASE Next
  BY <1>2, StartupKeeps, TransportKeeps, FirstSignalKeeps, EndingKeeps, ChangeFileKeeps
     DEF Next, Ending, StdioCancelled
<1>3. QED
  BY <1>1, <1>2

LEMMA Inductive == Spec => []IInv
BY InitIInv, StepIInv, PTL DEF Spec

-----------------------------------------------------------------------------
(* What follows from it.                                                   *)

(* Every variable keeps its type, the server's own ones included, and only *)
(* files that the chosen transport needs are ever checked.                 *)
THEOREM TypeCorrect == Spec => []TypeOK
<1>1. IInv => TypeOK
  <2> SUFFICES ASSUME IInv
               PROVE  TypeOK
    OBVIOUS
  <2>1. SP!TypeOK
    BY DEF IInv, ServerInv, SP!IInv
  <2>2. Server!TypeOK
    BY <2>1 DEF SP!TypeOK, Server!TypeOK, SP!Vault!Refusals, Server!Vault!Refusals,
        SP!Vault!FnOutcomes, Server!Vault!FnOutcomes
  <2>3. QED
    BY <2>2 DEF IInv, MainTyped, TypeOK
<1>2. QED
  BY <1>1, Inductive, PTL

(* Under --strict-perms every required path has held a private file before *)
(* the transport starts, whatever is done to the files meanwhile.          *)
THEOREM StrictPerms == Spec => []StrictMeansPrivate
<1>1. IInv => StrictMeansPrivate
  BY DEF IInv, PermsInv, StrictMeansPrivate
<1>2. QED
  BY <1>1, Inductive, PTL

(* No signal cuts the drain short, with however many connections.          *)
THEOREM SignalsAbsorbed == Spec => []DrainIsNotInterrupted
<1>1. IInv => DrainIsNotInterrupted
  BY DEF IInv, StepsInv
<1>2. QED
  BY <1>1, Inductive, PTL

(* Exit status 0 under --http means a signal and a clean drain.            *)
THEOREM ZeroIsClean == Spec => []ZeroMeansDrained
<1>1. IInv => ZeroMeansDrained
  BY DEF IInv, StepsInv
<1>2. QED
  BY <1>1, Inductive, PTL
=============================================================================
