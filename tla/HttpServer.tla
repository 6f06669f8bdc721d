----------------------------- MODULE HttpServer -----------------------------
(***************************************************************************)
(* RunHTTP (internal/server/http.go) from its call to its return, and the  *)
(* process it is the last act of: the listener, the goroutine that runs    *)
(* Serve, the signal, the three-second grace window, the connections and   *)
(* the calls they have in the vault. The vault is its interface, KeyVault. *)
(*                                                                         *)
(* RunHTTP is at one place:                                                *)
(*   token, listen, loopback   the start-up steps that may fail            *)
(*   announce   about to announce the address and start Serve              *)
(*   select     waiting for Serve's result or for ctx.Done()               *)
(*   shutdown   about to enter Shutdown, the grace timer running           *)
(*   poll       in Shutdown, waiting for the connections to drain          *)
(*   drain, drainLate   after Shutdown, at `<-serveErrCh', with nil or the *)
(*              grace context's error                                      *)
(*   returned   RunHTTP has returned; then the process exits               *)
(***************************************************************************)
EXTENDS Naturals

CONSTANT Conns   \* the client connections, at most one request in each

VARIABLES
  at,          \* where RunHTTP is
  ret,         \* what it returned, "none" while it runs
  signalled,   \* ctx is done: SIGINT or SIGTERM has arrived
  grace,       \* graceCtx
  listener,    \* the TCP listener
  serve,       \* the goroutine that runs httpSrv.Serve
  serveErrCh,  \* the value in the channel of capacity 1, or "empty"
  inShutdown,  \* http.Server's flag: Shutdown has been called
  conn,        \* what http.Server tracks of each connection
  phase,       \* where the sign_transaction of each connection is
  cancelled,   \* the connections whose client has gone
  answer       \* the vault's answer to each call

server == <<at, ret, signalled, grace, listener, serve, serveErrCh, inShutdown>>
calls  == <<phase, cancelled, answer>>
vars   == <<server, conn, calls>>

Vault == INSTANCE KeyVault WITH Calls <- Conns, Addresses <- {"account"},
           KeyAddr <- "account", NoAddr <- "nil", addr <- "account"

Init ==
  /\ at = "token"
  /\ ret = "none"
  /\ signalled = FALSE
  /\ grace = "off"
  /\ listener = "none"
  /\ serve = "none"
  /\ serveErrCh = "empty"
  /\ inShutdown = FALSE
  /\ conn = [c \in Conns |-> "none"]
  /\ Vault!Init

-----------------------------------------------------------------------------
(* RunHTTP up to its select.                                               *)

Return(value) == at' = "returned" /\ ret' = value /\ grace' = "off"

LoadToken ==
  /\ at = "token"
  /\ \/ at' = "listen" /\ UNCHANGED <<ret, grace>>
     \/ Return("startErr")      \* unreadable or empty token file
  /\ UNCHANGED <<signalled, listener, serve, serveErrCh, inShutdown, conn, calls>>

Listen ==
  /\ at = "listen"
  /\ \/ at' = "loopback" /\ listener' = "open" /\ UNCHANGED <<ret, grace>>
     \/ Return("startErr") /\ UNCHANGED listener
  /\ UNCHANGED <<signalled, serve, serveErrCh, inShutdown, conn, calls>>

CheckLoopback ==
  /\ at = "loopback"
  /\ \/ at' = "announce" /\ UNCHANGED <<ret, grace, listener>>
     \/ Return("startErr") /\ listener' = "closed"
  /\ UNCHANGED <<signalled, serve, serveErrCh, inShutdown, conn, calls>>

(* Announce, assemble the pipeline, `go func() { httpSrv.Serve(ln) ... }'. *)
StartServe ==
  /\ at = "announce"
  /\ at' = "select"
  /\ serve' = "spawned"
  /\ UNCHANGED <<ret, signalled, grace, listener, serveErrCh, inShutdown, conn, calls>>

(* Serve died by itself. With ctx done as well, select may pick either.    *)
SelectServeErr ==
  /\ at = "select"
  /\ serveErrCh # "empty"
  /\ serveErrCh' = "empty"
  /\ Return(serveErrCh)
  /\ UNCHANGED <<signalled, listener, serve, inShutdown, conn, calls>>

(* Fault: the grace context has no timeout.                                *)
SelectDone_noTimeout ==
  /\ at = "select"
  /\ signalled
  /\ at' = "shutdown"
  /\ UNCHANGED <<ret, signalled, grace, listener, serve, serveErrCh, inShutdown,
                 conn, calls>>

SelectDone ==
  /\ at = "select"
  /\ signalled
  /\ at' = "shutdown"
  /\ grace' = "running"
  /\ UNCHANGED <<ret, signalled, listener, serve, serveErrCh, inShutdown, conn, calls>>

-----------------------------------------------------------------------------
(* Serve, in its goroutine.                                                *)

(* Fault: ErrServerClosed is not told from the other errors.               *)
ServeReturns_unmapped ==
  /\ serve' = "exited"
  /\ listener' = "closed"
  /\ serveErrCh' = IF inShutdown THEN "ErrServerClosed" ELSE "serveErr"
  /\ UNCHANGED <<at, ret, signalled, grace, inShutdown, conn, calls>>

(* Fault: the goroutine returns on ErrServerClosed without a send.         *)
ServeReturns_silent ==
  /\ serve' = "exited"
  /\ listener' = "closed"
  /\ serveErrCh' = IF inShutdown THEN serveErrCh ELSE "serveErr"
  /\ UNCHANGED <<at, ret, signalled, grace, inShutdown, conn, calls>>

(* Serve returns: it closes its listener, and the goroutine sends nil in   *)
(* place of ErrServerClosed. An error after Shutdown is ErrServerClosed.   *)
ServeReturns ==
  /\ serve' = "exited"
  /\ listener' = "closed"
  /\ serveErrCh' = IF inShutdown THEN "nil" ELSE "serveErr"
  /\ UNCHANGED <<at, ret, signalled, grace, inShutdown, conn, calls>>

(* A server already shut down refuses the listener.                        *)
ServeTracksListener ==
  /\ serve = "spawned"
  /\ ~inShutdown
  /\ serve' = "accepting"
  /\ UNCHANGED <<at, ret, signalled, grace, listener, serveErrCh, inShutdown, conn, calls>>

ServeTooLate == serve = "spawned" /\ inShutdown /\ ServeReturns

ServeStops == serve = "accepting" /\ listener = "closed" /\ ServeReturns

AcceptFails == serve = "accepting" /\ listener = "open" /\ ServeReturns

Accept(c) ==
  /\ serve = "accepting"
  /\ listener = "open"
  /\ conn[c] = "none"
  /\ phase[c] = "idle"
  /\ conn' = [conn EXCEPT ![c] = "new"]
  /\ UNCHANGED <<server, calls>>

-----------------------------------------------------------------------------
(* Shutdown, called by RunHTTP, and what follows it.                       *)

(* The flag is set and the listener Serve tracks is closed; a Serve that   *)
(* has not tracked it yet will close it itself.                            *)
BeginShutdown ==
  /\ at = "shutdown"
  /\ at' = "poll"
  /\ inShutdown' = TRUE
  /\ listener' = IF serve = "accepting" THEN "closed" ELSE listener
  /\ UNCHANGED <<ret, signalled, grace, serve, serveErrCh, conn, calls>>

(* Shutdown takes a connection that has been new for five seconds, with no *)
(* request on it, for an idle one.                                         *)
NewConnAges(c) ==
  /\ conn[c] = "new"
  /\ conn' = [conn EXCEPT ![c] = "idle"]
  /\ UNCHANGED <<server, calls>>

CloseIdle == conn' = [c \in Conns |-> IF conn[c] = "idle" THEN "none" ELSE conn[c]]
Busy == {c \in Conns : conn[c] \notin {"none", "idle"}}

(* Shutdown waits for a Serve that accepts, then polls. Idle connections   *)
(* are closed in every round.                                              *)
PollBusy ==
  /\ at = "poll"
  /\ serve # "accepting"
  /\ Busy # {}
  /\ \E c \in Conns : conn[c] = "idle"
  /\ CloseIdle
  /\ UNCHANGED <<server, calls>>

PollDrained ==
  /\ at = "poll"
  /\ serve # "accepting"
  /\ Busy = {}
  /\ CloseIdle
  /\ at' = "drain"
  /\ UNCHANGED <<ret, signalled, grace, listener, serve, serveErrCh, inShutdown, calls>>

GraceExpires ==
  /\ grace = "running"
  /\ grace' = "expired"
  /\ UNCHANGED <<at, ret, signalled, listener, serve, serveErrCh, inShutdown, conn, calls>>

(* Fault: the deadline is taken for a clean drain.                         *)
PollExpired_masked ==
  /\ at = "poll"
  /\ serve # "accepting"
  /\ grace = "expired"
  /\ at' = "drain"
  /\ UNCHANGED <<ret, signalled, grace, listener, serve, serveErrCh, inShutdown,
                 conn, calls>>

PollExpired ==
  /\ at = "poll"
  /\ serve # "accepting"
  /\ grace = "expired"
  /\ at' = "drainLate"
  /\ UNCHANGED <<ret, signalled, grace, listener, serve, serveErrCh, inShutdown,
                 conn, calls>>

ShutdownError == IF at = "drain" THEN "nil" ELSE "deadline"

(* Fault: RunHTTP does not wait for the goroutine that runs Serve.         *)
DrainServe_noWait ==
  /\ at \in {"drain", "drainLate"}
  /\ Return(ShutdownError)
  /\ UNCHANGED <<signalled, listener, serve, serveErrCh, inShutdown, conn, calls>>

(* `<-serveErrCh': the value is dropped.                                   *)
DrainServe ==
  /\ at \in {"drain", "drainLate"}
  /\ serveErrCh # "empty"
  /\ serveErrCh' = "empty"
  /\ Return(ShutdownError)
  /\ UNCHANGED <<signalled, listener, serve, inShutdown, conn, calls>>

(* main exits with RunHTTP's result; nothing of the process runs after.    *)
Exit ==
  /\ at = "returned"
  /\ at' = "exited"
  /\ UNCHANGED <<ret, signalled, grace, listener, serve, serveErrCh, inShutdown,
                 conn, calls>>

-----------------------------------------------------------------------------
(* Connections, requests and clients.                                      *)

SetConn(c, state) == conn' = [conn EXCEPT ![c] = state]

(* After Shutdown has begun a connection is closed when its request ends.  *)
AfterRequest == IF inShutdown THEN "none" ELSE "idle"

(* A request no tool call comes of: 401, 403, 400, get_address...          *)
QuickRequest(c) ==
  /\ conn[c] \in {"new", "idle"}
  /\ SetConn(c, AfterRequest)
  /\ UNCHANGED <<server, calls>>

(* GET /mcp: an event stream that lasts until its client leaves.           *)
OpenStream(c) ==
  /\ conn[c] \in {"new", "idle"}
  /\ SetConn(c, "stream")
  /\ UNCHANGED <<server, calls>>

SignRequest(c) ==
  /\ conn[c] \in {"new", "idle"}
  /\ Vault!Ask(c)
  /\ SetConn(c, "active")
  /\ UNCHANGED server

(* The request's context comes from the connection alone: no action of     *)
(* RunHTTP or Shutdown cancels it.                                         *)
VaultStep(c) ==
  /\ \/ Vault!Dismiss(c) \/ Vault!LetIn(c) \/ Vault!Refuse(c)
     \/ Vault!OpenKey(c) \/ Vault!UseKey(c) \/ Vault!Return(c)
  /\ UNCHANGED <<server, conn>>

(* The tool's answer is written, unless the connection is gone already.    *)
Respond(c) ==
  /\ Vault!Collect(c)
  /\ SetConn(c, IF conn[c] = "none" \/ c \in cancelled THEN "none" ELSE AfterRequest)
  /\ UNCHANGED server

(* The client closes its connection. Under a tool call this cancels the    *)
(* request's context; the HTTP handler may return before the call does.    *)
ClientLeaves(c) ==
  /\ \/ /\ conn[c] \in {"new", "idle", "stream"}
        /\ SetConn(c, "none")
        /\ UNCHANGED calls
     \/ /\ conn[c] = "active"
        /\ c \notin cancelled
        /\ Vault!Cancel(c)
        /\ UNCHANGED conn
  /\ UNCHANGED server

HandlerAbandons(c) ==
  /\ conn[c] = "active"
  /\ c \in cancelled
  /\ SetConn(c, "none")
  /\ UNCHANGED <<server, calls>>

(* SIGINT or SIGTERM; NotifyContext absorbs any later one.                 *)
Signal ==
  /\ ~signalled
  /\ signalled' = TRUE
  /\ UNCHANGED <<at, ret, grace, listener, serve, serveErrCh, inShutdown, conn, calls>>

-----------------------------------------------------------------------------

AfterToken ==
  \/ Listen \/ CheckLoopback \/ StartServe
  \/ SelectServeErr \/ SelectDone
  \/ BeginShutdown \/ PollBusy \/ PollDrained \/ PollExpired \/ DrainServe

RunHTTP == LoadToken \/ AfterToken

ServeGoroutine == ServeTracksListener \/ ServeTooLate \/ ServeStops

Request(c) ==
  \/ Accept(c) \/ NewConnAges(c) \/ QuickRequest(c) \/ OpenStream(c) \/ SignRequest(c)
  \/ VaultStep(c) \/ Respond(c) \/ ClientLeaves(c) \/ HandlerAbandons(c)

Next ==
  /\ at # "exited"
  /\ \/ RunHTTP \/ ServeGoroutine \/ AcceptFails \/ GraceExpires \/ Exit \/ Signal
     \/ \E c \in Conns : Request(c)

Spec == Init /\ [][Next]_vars

(* The goroutines of RunHTTP and Serve run, and time passes. Nothing is    *)
(* assumed of clients, of handlers or of the vault.                        *)
FairSpec ==
  Spec /\ WF_vars(RunHTTP) /\ WF_vars(ServeGoroutine) /\ WF_vars(GraceExpires)

-----------------------------------------------------------------------------
(* Properties.                                                             *)

(* Every variable has its type.                                            *)
TypeOK ==
  /\ at \in {"token", "listen", "loopback", "announce", "select", "shutdown",
            "poll", "drain", "drainLate", "returned", "exited"}
  /\ ret \in {"none", "startErr", "serveErr", "nil", "deadline"}
  /\ signalled \in BOOLEAN
  /\ grace \in {"off", "running", "expired"}
  /\ listener \in {"none", "open", "closed"}
  /\ serve \in {"none", "spawned", "accepting", "exited"}
  /\ serveErrCh \in {"empty", "nil", "serveErr"}
  /\ inShutdown \in BOOLEAN
  /\ conn \in [Conns -> {"none", "new", "idle", "active", "stream"}]
  /\ phase \in [Conns -> {"idle", "asked", "letIn", "using", "leaving", "answered"}]
  /\ cancelled \subseteq Conns
  /\ answer \in [Conns -> {"none", "ctxErr"} \cup Vault!Refusals \cup Vault!FnOutcomes]

(* When RunHTTP returns, by whichever path, no listener is left open and   *)
(* the goroutine that runs Serve is over, even when the signal came before *)
(* Serve had started.                                                      *)
NothingLeftBehind ==
  ret # "none" => listener # "open" /\ serve \in {"none", "exited"}

(* Exit status 0 means that no request the server had begun to serve was   *)
(* left without a reply: at a nil return it tracks no open connection, and *)
(* a call still in the vault is one whose client had gone.                 *)
CleanExitLosesNoReply ==
  at = "returned" /\ ret = "nil" =>
    \A c \in Conns : conn[c] = "none" /\ (phase[c] # "idle" => c \in cancelled)

(* Serve's result is sent into an empty channel and stays there until      *)
(* RunHTTP takes it, so neither `<-serveErrCh' after Shutdown waits for a  *)
(* value that never comes: there is one, or a Serve that the flag will     *)
(* turn away is still to send it (the comment at http.go:260).             *)
DrainNeverHangs ==
  /\ serveErrCh # "empty" => serve = "exited"
  /\ serve = "exited" /\ ret = "none" => serveErrCh # "empty"
  /\ at \in {"drain", "drainLate"} => serve = "exited" \/ (serve = "spawned" /\ inShutdown)

(* A signal ends RunHTTP, whatever streams stay open, calls hang or the    *)
(* listener does, and at whichever moment of start-up it arrives.          *)
SignalEndsServer == signalled ~> ret # "none"

(* http.go:224-226 says that a request queued on the vault's semaphore at  *)
(* shutdown observes ctx.Err() and returns without starting the KDF.       *)
QueuedAtShutdown(c) ==
  inShutdown /\ phase[c] = "asked" /\ \E d \in Conns : phase[d] \in Vault!Inside

QueuedStopsAtShutdown ==
  \A c \in Conns : [](QueuedAtShutdown(c) => [](phase[c] # "letIn"))

(* http.go:265 says of the value that RunHTTP drops after a clean Shutdown *)
(* that it is nil. Serve may have failed by itself before the signal.      *)
DrainedIsNil == at = "drain" => serveErrCh # "serveErr"
=============================================================================
