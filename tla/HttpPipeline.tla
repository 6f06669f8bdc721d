---------------------------- MODULE HttpPipeline ----------------------------
(***************************************************************************)
(* What one HTTP request goes through (internal/server): the body cap, the *)
(* request log, the bearer check and the SDK's handler, nested in this     *)
(* order, and the sign_transaction handler behind them; and the ids that   *)
(* the log lines of a request and of a tool call carry. Over stdio the     *)
(* tool handler is all there is.                                           *)
(*                                                                         *)
(* The SDK and net/http are modelled from what this code, its tests and    *)
(* its demo transcript say of them. A session is opened by an initialize   *)
(* request and named after it; the tool calls of a session run under the   *)
(* context of that request (docs/demo-assets/http-session.txt:138-145).    *)
(***************************************************************************)
EXTENDS Naturals, Sequences

CONSTANT Reqs   \* the requests; each is served once

VARIABLES
  transport, \* "http" or "stdio"
  head,      \* of each request: what it asks, its token, host, body, session
  pos,       \* the layer it is in, 0 outside the pipeline
  dir,       \* on its way in, returning, panicking, or over
  capped,    \* the requests whose body is wrapped in MaxBytesReader
  deferred,  \* the requests whose log line is deferred
  body,      \* how much of the body the server has read
  sw,        \* the statusCaptureWriter of each request
  header,    \* the status net/http has recorded for the response, 0 for none
  sent,      \* the status that went out to the client, 0 for none
  preempted, \* history: a flush fixed 200 before a status was captured
  gone,      \* the requests whose client has left
  issued,    \* how many request ids generateRequestID has made
  ctxId,     \* the id in each request's context, 0 for none
  sessions,  \* the requests that have opened a session
  call,      \* where the tool call of each request is
  callCtx,   \* the id in the context of each tool call
  reqId,     \* the reqID of each makeSignTransactionHandler
  log,       \* the "http request" lines logged for each request
  toolLine   \* the line logged for each tool call: an audit or an error line

pipe   == <<pos, dir, capped, deferred, body>>
writer == <<sw, header, sent, preempted>>
tool   == <<call, callCtx, reqId, toolLine>>
vars   == <<transport, head, pipe, writer, gone, issued, ctxId, sessions, tool, log>>

NoId == 0

(* Fault: the bearer check is put around the request log.                  *)
Pipeline_authOutside == <<"cap", "auth", "reqlog", "sdk">>

(* RunHTTP's assembly, outermost first.                                    *)
Pipeline == <<"cap", "reqlog", "auth", "sdk">>

Statuses == {200, 202, 400, 401, 403, 500}

(* A tool call, a notification and a stream (GET) name a session.          *)
Heads(r) ==
  {h \in [kind : {"initialize", "call", "notify", "stream"}, token : {"right", "wrong"},
          host : {"loopback", "foreign"}, body : {"within", "over"}, session : Reqs] :
     /\ h.kind = "initialize" <=> h.session = r
     /\ h.kind = "stream" => h.body = "within"}

NoHead == [kind |-> "none"]
NoLine == [what |-> "none", id |-> NoId]

Init ==
  /\ transport \in {"http", "stdio"}
  /\ head = [r \in Reqs |-> NoHead]
  /\ pos = [r \in Reqs |-> 0]
  /\ dir = [r \in Reqs |-> "new"]
  /\ capped = {}
  /\ deferred = {}
  /\ body = [r \in Reqs |-> "unread"]
  /\ sw = [r \in Reqs |-> [status |-> 0, written |-> FALSE]]
  /\ header = [r \in Reqs |-> 0]
  /\ sent = [r \in Reqs |-> 0]
  /\ preempted = {}
  /\ gone = {}
  /\ issued = 0
  /\ ctxId = [r \in Reqs |-> NoId]
  /\ sessions = {}
  /\ call = [r \in Reqs |-> "none"]
  /\ callCtx = [r \in Reqs |-> NoId]
  /\ reqId = [r \in Reqs |-> NoId]
  /\ log = [r \in Reqs |-> << >>]
  /\ toolLine = [r \in Reqs |-> NoLine]

-----------------------------------------------------------------------------
(* The response writers. The SDK is handed the statusCaptureWriter, whose  *)
(* Unwrap lets Flush go straight to net/http. net/http keeps the first     *)
(* status and holds it back until a flush or the handler's return.         *)

Recorded(r, status) == IF header[r] = 0 THEN status ELSE header[r]

(* Fault: duplicates are captured as well.                                 *)
WriteHeader_noGuard(r, status) ==
  /\ sw' = [sw EXCEPT ![r] = [status |-> status, written |-> TRUE]]
  /\ header' = [header EXCEPT ![r] = Recorded(r, status)]
  /\ UNCHANGED <<sent, preempted>>

(* A second status is dropped.                                             *)
WriteHeader(r, status) ==
  IF sw[r].written
  THEN UNCHANGED writer
  ELSE /\ sw' = [sw EXCEPT ![r] = [status |-> status, written |-> TRUE]]
       /\ header' = [header EXCEPT ![r] = Recorded(r, status)]
       /\ UNCHANGED <<sent, preempted>>

(* The first Write implies 200; the body itself is not modelled.           *)
Write(r) ==
  /\ IF sw[r].written
     THEN UNCHANGED sw
     ELSE sw' = [sw EXCEPT ![r] = [status |-> 200, written |-> TRUE]]
  /\ header' = [header EXCEPT ![r] = Recorded(r, 200)]
  /\ UNCHANGED <<sent, preempted>>

(* Unwrap takes a flush past the wrapper: if there is no status yet,       *)
(* net/http settles on 200 and the wrapper goes on waiting for one.        *)
Flush(r) ==
  /\ header' = [header EXCEPT ![r] = Recorded(r, 200)]
  /\ sent' = [sent EXCEPT ![r] = IF r \in gone THEN @ ELSE Recorded(r, 200)]
  /\ preempted' = IF sw[r].written THEN preempted ELSE preempted \cup {r}
  /\ UNCHANGED sw

(* Fault: the field as it is.                                              *)
CapturedStatus_noDefault(r) == sw[r].status

CapturedStatus(r) == IF sw[r].written THEN sw[r].status ELSE 200

-----------------------------------------------------------------------------
(* The layers.                                                             *)

In(r, layer) == dir[r] = "in" /\ pos[r] > 0 /\ Pipeline[pos[r]] = layer
Leaving(r) == dir[r] \in {"return", "panic"}

(* next.ServeHTTP(w, r), and the return of a handler.                      *)
CallNext(r) == pos' = [pos EXCEPT ![r] = @ + 1] /\ UNCHANGED dir
Go(r, how) == dir' = [dir EXCEPT ![r] = how] /\ pos' = [pos EXCEPT ![r] = 0]

Arrive(r, h) ==
  /\ transport = "http"
  /\ dir[r] = "new"
  /\ head' = [head EXCEPT ![r] = h]
  /\ pos' = [pos EXCEPT ![r] = 1]
  /\ dir' = [dir EXCEPT ![r] = "in"]
  /\ UNCHANGED <<transport, capped, deferred, body, writer, gone, issued,
                 ctxId, sessions, tool, log>>

(* Fault: the handler is not wrapped in MaxBytesHandler.                   *)
CapBody_missing(r) ==
  /\ In(r, "cap")
  /\ CallNext(r)
  /\ UNCHANGED <<transport, head, capped, deferred, body, writer, gone, issued,
                 ctxId, sessions, tool, log>>

(* MaxBytesHandler wraps the body; it reads nothing and turns none away.   *)
CapBody(r) ==
  /\ In(r, "cap")
  /\ capped' = capped \cup {r}
  /\ CallNext(r)
  /\ UNCHANGED <<transport, head, deferred, body, writer, gone, issued, ctxId,
                 sessions, tool, log>>

(* generateRequestID and WithRequestID; the log line is deferred.          *)
ReqLog(r) ==
  /\ In(r, "reqlog")
  /\ issued' = issued + 1
  /\ ctxId' = [ctxId EXCEPT ![r] = issued + 1]
  /\ deferred' = deferred \cup {r}
  /\ CallNext(r)
  /\ UNCHANGED <<transport, head, capped, body, writer, gone, sessions, tool,
                 log>>

(* Fault: no return after the 401.                                         *)
Auth_noReturn(r) ==
  /\ In(r, "auth")
  /\ IF head[r].token = "right" THEN UNCHANGED writer ELSE WriteHeader(r, 401)
  /\ CallNext(r)
  /\ UNCHANGED <<transport, head, capped, deferred, body, gone, issued, ctxId,
                 sessions, tool, log>>

(* Missing, malformed, empty and wrong tokens alike; the header is all     *)
(* that is looked at.                                                      *)
Auth(r) ==
  /\ In(r, "auth")
  /\ IF head[r].token = "right"
     THEN CallNext(r) /\ UNCHANGED writer
     ELSE WriteHeader(r, 401) /\ Go(r, "return")
  /\ UNCHANGED <<transport, head, capped, deferred, body, gone, issued, ctxId,
                 sessions, tool, log>>

-----------------------------------------------------------------------------
(* The SDK's handler: the rebinding guard, the body, the session.          *)

SdkForbids(r) ==
  /\ In(r, "sdk")
  /\ head[r].host = "foreign"
  /\ WriteHeader(r, 403)
  /\ Go(r, "return")
  /\ UNCHANGED <<transport, head, capped, deferred, body, gone, issued, ctxId,
                 sessions, tool, log>>

SdkReads(r) ==
  /\ In(r, "sdk")
  /\ head[r].host = "loopback"
  /\ body[r] = "unread"
  /\ IF head[r].body = "over" /\ r \in capped
     THEN body' = [body EXCEPT ![r] = "cut"] /\ WriteHeader(r, 400) /\ Go(r, "return")
     ELSE body' = [body EXCEPT ![r] = "read"] /\ UNCHANGED <<writer, pos, dir>>
  /\ UNCHANGED <<transport, head, capped, deferred, gone, issued, ctxId,
                 sessions, tool, log>>

Serving(r) == In(r, "sdk") /\ body[r] = "read"
Dispatched(r) ==
  CASE head[r].kind = "initialize" -> r \in sessions
    [] head[r].kind = "call" -> call[r] # "none"
    [] OTHER -> head[r].session \in sessions

OpenSession(r) ==
  /\ Serving(r)
  /\ head[r].kind = "initialize"
  /\ header[r] = 0
  /\ sessions' = sessions \cup {r}
  /\ UNCHANGED <<transport, head, pipe, writer, gone, issued, ctxId, tool,
                 log>>

(* The call runs in a goroutine of its session, whose id the answer to the *)
(* initialize request has told the client.                                 *)
Dispatch(r) ==
  /\ Serving(r)
  /\ head[r].kind = "call"
  /\ head[r].session \in sessions
  /\ sent[head[r].session] # 0
  /\ call[r] = "none"
  /\ call' = [call EXCEPT ![r] = "ready"]
  /\ callCtx' = [callCtx EXCEPT ![r] = ctxId[head[r].session]]
  /\ UNCHANGED <<transport, head, pipe, writer, gone, issued, ctxId, sessions,
                 reqId, toolLine, log>>

(* A malformed message, a session that is not there.                       *)
SdkRefuses(r) ==
  /\ Serving(r)
  /\ ~Dispatched(r)
  /\ WriteHeader(r, 400)
  /\ Go(r, "return")
  /\ UNCHANGED <<transport, head, capped, deferred, body, gone, issued, ctxId,
                 sessions, tool, log>>

(* The reply, or part of it. The SDK may set a status after it has written *)
(* or flushed, and flush before it has set one (reqlog_test.go's flusher   *)
(* test does).                                                             *)
SdkReplies(r) ==
  /\ Serving(r)
  /\ Dispatched(r)
  /\ \/ head[r].kind # "notify" /\ WriteHeader(r, 200)
     \/ head[r].kind = "notify" /\ WriteHeader(r, 202)
     \/ WriteHeader(r, 500)
     \/ head[r].kind # "notify" /\ Write(r)
     \/ Flush(r)
  /\ UNCHANGED <<transport, head, pipe, gone, issued, ctxId, sessions, tool,
                 log>>

(* The handler of a call waits for its answer and that of a stream for its *)
(* client to leave; none stays when the client has left.                   *)
SdkReturns(r) ==
  /\ Serving(r)
  /\ Dispatched(r)
  /\ \/ r \in gone
     \/ head[r].kind # "stream" /\ header[r] # 0 /\ call[r] \in {"none", "done"}
  /\ Go(r, "return")
  /\ UNCHANGED <<transport, head, capped, deferred, body, writer, gone, issued,
                 ctxId, sessions, tool, log>>

SdkPanics(r) ==
  /\ In(r, "sdk")
  /\ Go(r, "panic")
  /\ UNCHANGED <<transport, head, capped, deferred, body, writer, gone, issued,
                 ctxId, sessions, tool, log>>

Sdk(r) ==
  \/ SdkForbids(r) \/ SdkReads(r) \/ OpenSession(r) \/ Dispatch(r)
  \/ SdkRefuses(r) \/ SdkReplies(r) \/ SdkReturns(r) \/ SdkPanics(r)

-----------------------------------------------------------------------------
(* The way out. Only the request log has something to do there.            *)

Line(r) == [id |-> ctxId[r], status |-> CapturedStatus(r)]

(* Fault: the line is not deferred, a panic passes it by.                  *)
LogLine_notDeferred(r) ==
  /\ Leaving(r)
  /\ r \in deferred
  /\ deferred' = deferred \ {r}
  /\ log' = [log EXCEPT ![r] = IF dir[r] = "return" THEN Append(@, Line(r)) ELSE @]
  /\ UNCHANGED <<transport, head, pos, dir, capped, body, writer, gone, issued,
                 ctxId, sessions, tool>>

(* reqlog's deferred function.                                             *)
LogLine(r) ==
  /\ Leaving(r)
  /\ r \in deferred
  /\ deferred' = deferred \ {r}
  /\ log' = [log EXCEPT ![r] = Append(@, Line(r))]
  /\ UNCHANGED <<transport, head, pos, dir, capped, body, writer, gone, issued,
                 ctxId, sessions, tool>>

(* net/http: a handler that returns has its response sent, with 200 if it  *)
(* set no status; after a panic the connection is closed as it is.         *)
FinishRequest(r) ==
  /\ Leaving(r)
  /\ r \notin deferred
  /\ sent' = [sent EXCEPT ![r] =
                IF dir[r] = "panic" \/ r \in gone THEN @ ELSE Recorded(r, 200)]
  /\ dir' = [dir EXCEPT ![r] = "over"]
  /\ UNCHANGED <<transport, head, pos, capped, deferred, body, sw, header,
                 preempted, gone, issued, ctxId, sessions, tool, log>>

ClientLeaves(r) ==
  /\ dir[r] = "in"
  /\ gone' = gone \cup {r}
  /\ UNCHANGED <<transport, head, pipe, writer, issued, ctxId, sessions, tool,
                 log>>

-----------------------------------------------------------------------------
(* The sign_transaction handler.                                           *)

(* Over stdio a call comes with a context that has no id.                  *)
StdioCall(r) ==
  /\ transport = "stdio"
  /\ dir[r] = "new"
  /\ dir' = [dir EXCEPT ![r] = "over"]
  /\ call' = [call EXCEPT ![r] = "ready"]
  /\ UNCHANGED <<transport, head, pos, capped, deferred, body, writer, gone,
                 issued, ctxId, sessions, callCtx, reqId, toolLine, log>>

(* Fault: the generated id is not put back into the context.               *)
HandlerId_notAttached(r) ==
  /\ call[r] = "ready"
  /\ call' = [call EXCEPT ![r] = "signing"]
  /\ IF callCtx[r] # NoId
     THEN reqId' = [reqId EXCEPT ![r] = callCtx[r]] /\ UNCHANGED issued
     ELSE issued' = issued + 1 /\ reqId' = [reqId EXCEPT ![r] = issued + 1]
  /\ UNCHANGED <<transport, head, pipe, writer, gone, ctxId, sessions, callCtx,
                 toolLine, log>>

(* The id of the context is used if there is one, else one is made.        *)
HandlerId(r) ==
  /\ call[r] = "ready"
  /\ call' = [call EXCEPT ![r] = "signing"]
  /\ IF callCtx[r] # NoId
     THEN reqId' = [reqId EXCEPT ![r] = callCtx[r]] /\ UNCHANGED <<issued, callCtx>>
     ELSE /\ issued' = issued + 1
          /\ reqId' = [reqId EXCEPT ![r] = issued + 1]
          /\ callCtx' = [callCtx EXCEPT ![r] = issued + 1]
  /\ UNCHANGED <<transport, head, pipe, writer, gone, ctxId, sessions,
                 toolLine, log>>

(* SignTransaction takes the id of its audit line from the context, the    *)
(* handler that of its error lines from reqID. An error without a Cause    *)
(* leaves no line.                                                         *)
SignReturns(r) ==
  /\ call[r] = "signing"
  /\ call' = [call EXCEPT ![r] = "done"]
  /\ \E line \in {[what |-> "audit", id |-> callCtx[r]],
                  [what |-> "error", id |-> reqId[r]], NoLine} :
       toolLine' = [toolLine EXCEPT ![r] = line]
  /\ UNCHANGED <<transport, head, pipe, writer, gone, issued, ctxId, sessions,
                 callCtx, reqId, log>>

-----------------------------------------------------------------------------

Handler(r) ==
  \/ CapBody(r) \/ ReqLog(r) \/ Auth(r) \/ Sdk(r)
  \/ LogLine(r) \/ FinishRequest(r)

ToolHandler(r) == HandlerId(r) \/ SignReturns(r)

Next ==
  \E r \in Reqs :
    \/ \E h \in Heads(r) : Arrive(r, h)
    \/ StdioCall(r)
    \/ Handler(r) \/ ToolHandler(r) \/ ClientLeaves(r)

Spec == Init /\ [][Next]_vars

(* The goroutines of a request and of a tool call run; SignTransaction     *)
(* returns, as Signer shows. Nothing is assumed of clients.                *)
FairSpec == Spec /\ \A r \in Reqs : WF_vars(Handler(r)) /\ WF_vars(ToolHandler(r))

-----------------------------------------------------------------------------
(* Properties.                                                             *)

(* Every variable has its type.                                            *)
TypeOK ==
  /\ transport \in {"http", "stdio"}
  /\ \A r \in Reqs : head[r] \in Heads(r) \cup {NoHead}
  /\ pos \in [Reqs -> 0..4]
  /\ dir \in [Reqs -> {"new", "in", "return", "panic", "over"}]
  /\ capped \subseteq Reqs
  /\ deferred \subseteq Reqs
  /\ body \in [Reqs -> {"unread", "read", "cut"}]
  /\ sw \in [Reqs -> [status : Statuses \cup {0}, written : BOOLEAN]]
  /\ header \in [Reqs -> Statuses \cup {0}]
  /\ sent \in [Reqs -> Statuses \cup {0}]
  /\ preempted \subseteq Reqs
  /\ gone \subseteq Reqs
  /\ issued \in Nat
  /\ ctxId \in [Reqs -> 0..issued]
  /\ sessions \subseteq Reqs
  /\ call \in [Reqs -> {"none", "ready", "signing", "done"}]
  /\ callCtx \in [Reqs -> 0..issued]
  /\ reqId \in [Reqs -> 0..issued]
  /\ log \in [Reqs -> Seq([id : 0..issued, status : Statuses])]
  /\ toolLine \in [Reqs -> [what : {"none", "audit", "error"}, id : 0..issued]]

(* A request leaves one line in the request log, whichever layer answered  *)
(* it and whether the handlers returned or panicked.                       *)
OneLineEach ==
  \A r \in Reqs :
    /\ Len(log[r]) <= 1
    /\ transport = "http" /\ dir[r] = "over" => Len(log[r]) = 1

(* A client that was told a status was told the one that is logged, by the *)
(* layers above the SDK as well as by its first, repeated or implied       *)
(* WriteHeader and by a flush after it. The one exception: a flush goes    *)
(* past the wrapper, so that a handler that flushes before it has set a    *)
(* status has sent 200, and the line has the status it captured after.     *)
LoggedIsSent ==
  \A r \in Reqs : log[r] # << >> /\ sent[r] # 0 =>
    \/ log[r][1].status = sent[r]
    \/ r \in preempted /\ sent[r] = 200

(* Without the token nothing of a request's body is read, no session is    *)
(* opened and no tool is called; the answer, if any, is 401, and that also *)
(* for an oversized body and for a foreign host.                           *)
TokenGuards ==
  \A r \in Reqs : head[r] # NoHead /\ head[r].token = "wrong" =>
    /\ body[r] = "unread"
    /\ r \notin sessions
    /\ call[r] = "none"
    /\ sent[r] \in {0, 401}
    /\ dir[r] = "over" => sent[r] = 401 \/ r \in gone

Clean(r) ==
  /\ head[r].token = "right"
  /\ head[r].host = "loopback"
  /\ head[r].body = "within"

(* A tool is called over HTTP only by a request that passed every layer,   *)
(* in a session whose opening request did.                                 *)
CallsAreClean ==
  \A r \in Reqs : transport = "http" /\ call[r] # "none" =>
    Clean(r) /\ head[r].session \in sessions /\ Clean(head[r].session)

(* A line of the tool handler never lacks an id. Over HTTP it has the one  *)
(* of the request that opened the session; over stdio one of its own.      *)
LinesCanBeJoined ==
  \A r \in Reqs : toolLine[r].what # "none" =>
    /\ toolLine[r].id # NoId
    /\ IF transport = "http"
       THEN toolLine[r].id = ctxId[head[r].session]
       ELSE \A q \in Reqs \ {r} : toolLine[q].id # toolLine[r].id

(* Over HTTP the id of an audit line is sooner or later in the request     *)
(* log, also when the request that opened the session has panicked.        *)
AuditIsLogged ==
  \A r \in Reqs :
    toolLine[r].what = "audit" /\ transport = "http"
      ~> \E q \in Reqs : log[q] # << >> /\ log[q][1].id = toolLine[r].id

(* docs/guides/07-troubleshooting.md:90 says of the id in the request log  *)
(* line that it is "minted for this request, propagated into the signing   *)
(* audit line so you can join the two".                                    *)
AuditJoinsItsRequest ==
  \A r \in Reqs :
    transport = "http" /\ toolLine[r].what = "audit" => toolLine[r].id = ctxId[r]
=============================================================================
