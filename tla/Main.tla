-------------------------------- MODULE Main --------------------------------
(***************************************************************************)
(* The process: run() and main() of cmd/eth-signer-mcp. Start-up checks    *)
(* the configuration and the permissions of the secret files, loads the    *)
(* keystore, takes over the signals and hands over to a transport; the     *)
(* files may change under it at every step. The HTTP transport is          *)
(* HttpServer, step for step; the stdio transport is what RunStdio returns.*)
(***************************************************************************)
EXTENDS Sequences

CONSTANT Conns

VARIABLES at, ret, signalled, grace, listener, serve, serveErrCh, inShutdown, conn,
          phase, cancelled, answer

VARIABLES
  step,      \* where run() is
  cfg,       \* the flags: http, strict, and whether validate(cfg) is nil
  todo,      \* the paths applyPermChecks has yet to look at
  file,      \* the mode and the content of each secret file
  handler,   \* the process's disposition of SIGINT and SIGTERM
  stdio,     \* what RunStdio returned, "none" before it has
  exit,      \* how the process ended, "none" while it runs
  wasStrict  \* history: the paths that have held a private file since the start

serverVars == <<at, ret, signalled, grace, listener, serve, serveErrCh, inShutdown,
                conn, phase, cancelled, answer>>
filesVars == <<file, wasStrict>>
mainVars == <<step, cfg, todo, filesVars, handler, stdio, exit>>
vars == <<serverVars, mainVars>>

Server == INSTANCE HttpServer

Secrets == {"keystore", "password", "token"}

(* Mode: what stat says. Usable: the constructor that reads the file       *)
(* accepts it. The password file is not read at start-up.                  *)
Modes == {"absent", "open", "strict"}
Files == [mode : Modes, usable : BOOLEAN]
States(f) == IF f = "password" THEN [mode : Modes, usable : {TRUE}] ELSE Files

Loads(f) == file[f].mode # "absent" /\ file[f].usable

Private == {f \in Secrets : file[f].mode = "strict"}

Init ==
  /\ Server!Init
  /\ step = "validate"
  /\ cfg \in [http : BOOLEAN, strict : BOOLEAN, valid : BOOLEAN]
  /\ todo = << >>
  /\ file \in {f \in [Secrets -> Files] : \A s \in Secrets : f[s] \in States(s)}
  /\ handler = "default"
  /\ stdio = "none"
  /\ exit = "none"
  /\ wasStrict = Private

-----------------------------------------------------------------------------

Fail(status) == exit' = status /\ step' = "ended"

(* The files the permission checks are about.                              *)
Paths == <<"keystore", "password">> \o (IF cfg.http THEN <<"token">> ELSE << >>)
Required == {Paths[i] : i \in DOMAIN Paths}

(* Fault: the token path is checked even when --http is not set.           *)
Validate_alwaysToken ==
  /\ step = "validate"
  /\ IF cfg.valid
     THEN /\ step' = "perms"
          /\ todo' = <<"keystore", "password", "token">>
          /\ UNCHANGED exit
     ELSE Fail("1") /\ UNCHANGED todo
  /\ UNCHANGED <<serverVars, cfg, filesVars, handler, stdio>>

Validate ==
  /\ step = "validate"
  /\ IF cfg.valid
     THEN /\ step' = "perms"
          /\ todo' = Paths
          /\ UNCHANGED exit
     ELSE Fail("1") /\ UNCHANGED todo
  /\ UNCHANGED <<serverVars, cfg, filesVars, handler, stdio>>

(* Fault: a file that is too open is only warned about.                    *)
CheckPerms_warnsOnly ==
  /\ step = "perms"
  /\ todo # << >>
  /\ IF file[Head(todo)].mode = "absent"
     THEN Fail("2") /\ UNCHANGED todo
     ELSE todo' = Tail(todo) /\ UNCHANGED <<step, exit>>
  /\ UNCHANGED <<serverVars, cfg, filesVars, handler, stdio>>

(* One round of applyPermChecks.                                           *)
CheckPerms ==
  /\ step = "perms"
  /\ todo # << >>
  /\ LET mode == file[Head(todo)].mode
     IN  IF mode = "absent" \/ (mode = "open" /\ cfg.strict)
         THEN Fail("2") /\ UNCHANGED todo
         ELSE todo' = Tail(todo) /\ UNCHANGED <<step, exit>>
  /\ UNCHANGED <<serverVars, cfg, filesVars, handler, stdio>>

NewFileKeyVault ==
  /\ step = "perms"
  /\ todo = << >>
  /\ IF Loads("keystore") THEN step' = "notify" /\ UNCHANGED exit ELSE Fail("1")
  /\ UNCHANGED <<serverVars, cfg, todo, filesVars, handler, stdio>>

(* NewSigner, server.New, signal.NotifyContext.                            *)
Notify ==
  /\ step = "notify"
  /\ step' = "transport"
  /\ handler' = "notify"
  /\ UNCHANGED <<serverVars, cfg, todo, filesVars, stdio, exit>>

-----------------------------------------------------------------------------
(* The transports.                                                         *)

Http == step = "transport" /\ cfg.http

(* RunHTTP; the token file is read now, not when its mode was checked.     *)
RunHTTP ==
  /\ Http
  /\ \/ Server!LoadToken /\ (at' = "listen" <=> Loads("token"))
     \/ Server!AfterToken
  /\ UNCHANGED mainVars

ServeGoroutine == Http /\ Server!ServeGoroutine /\ UNCHANGED mainVars

GraceExpires == Http /\ Server!GraceExpires /\ UNCHANGED mainVars

Clients ==
  /\ Http
  /\ Server!AcceptFails \/ \E c \in Conns : Server!Request(c)
  /\ UNCHANGED mainVars

(* RunStdio: the client closes stdin, the session fails, or ctx is done    *)
(* and normalizeShutdownErr makes nil of its error.                        *)
StdioEnds(result) ==
  /\ step = "transport"
  /\ ~cfg.http
  /\ stdio = "none"
  /\ stdio' = result
  /\ UNCHANGED <<serverVars, step, cfg, todo, filesVars, handler, exit>>

StdioCancelled == signalled /\ StdioEnds("nil")

(* run() returns what the transport returned; its deferred stop() restores *)
(* the default disposition.                                                *)
RunReturns ==
  /\ step = "transport"
  /\ at = "returned" \/ stdio # "none"
  /\ step' = "main"
  /\ handler' = "default"
  /\ UNCHANGED <<serverVars, cfg, todo, filesVars, stdio, exit>>

(* Fault: main does not look at the error.                                 *)
MainExits_alwaysZero ==
  /\ step = "main"
  /\ Fail("0")
  /\ UNCHANGED <<serverVars, cfg, todo, filesVars, handler, stdio>>

MainExits ==
  /\ step = "main"
  /\ Fail(IF ret = "nil" \/ stdio = "nil" THEN "0" ELSE "1")
  /\ UNCHANGED <<serverVars, cfg, todo, filesVars, handler, stdio>>

-----------------------------------------------------------------------------
(* The environment.                                                        *)

(* Fault: stop() as soon as ctx is done, so that a second signal kills.    *)
FirstSignal_stops ==
  /\ handler = "notify"
  /\ Server!Signal
  /\ handler' = "default"
  /\ UNCHANGED <<step, cfg, todo, filesVars, stdio, exit>>

(* NotifyContext cancels ctx once; the signals after it change nothing.    *)
FirstSignal ==
  /\ handler = "notify"
  /\ Server!Signal
  /\ UNCHANGED mainVars

(* Under the default disposition the process dies at once.                 *)
FatalSignal ==
  /\ handler = "default"
  /\ Fail("signal")
  /\ UNCHANGED <<serverVars, cfg, todo, filesVars, handler, stdio>>

(* A secret file is created, removed, rewritten, chmodded. None is read    *)
(* here after the token; FileKeyVault has what follows of the password.    *)
ChangeFile(f, new) ==
  /\ at = "token"
  /\ stdio = "none"
  /\ file' = [file EXCEPT ![f] = new]
  /\ wasStrict' = IF new.mode = "strict" THEN wasStrict \cup {f} ELSE wasStrict
  /\ UNCHANGED <<serverVars, step, cfg, todo, handler, stdio, exit>>

-----------------------------------------------------------------------------

Startup == Validate \/ CheckPerms \/ NewFileKeyVault \/ Notify

Ending == StdioCancelled \/ RunReturns \/ MainExits

Next ==
  /\ exit = "none"
  /\ \/ Startup \/ Ending
     \/ RunHTTP \/ ServeGoroutine \/ GraceExpires \/ Clients
     \/ \E result \in {"nil", "error"} : StdioEnds(result)
     \/ FirstSignal \/ FatalSignal
     \/ \E f \in Secrets : \E new \in States(f) \ {file[f]} : ChangeFile(f, new)

Spec == Init /\ [][Next]_vars

(* The process's own goroutines run, and time passes. The SDK's Run        *)
(* returns once its ctx is done.                                           *)
FairSpec ==
  /\ Spec
  /\ WF_vars(Ending) /\ WF_vars(RunHTTP) /\ WF_vars(ServeGoroutine) /\ WF_vars(GraceExpires)

-----------------------------------------------------------------------------
(* Properties.                                                             *)

(* Every variable has its type; in particular the permission checks are    *)
(* about the files that the chosen transport needs, and no other.          *)
TypeOK ==
  /\ Server!TypeOK
  /\ step \in {"validate", "perms", "notify", "transport", "main", "ended"}
  /\ cfg \in [http : BOOLEAN, strict : BOOLEAN, valid : BOOLEAN]
  /\ todo \in Seq(Required)
  /\ \A f \in Secrets : file[f] \in States(f)
  /\ handler \in {"default", "notify"}
  /\ stdio \in {"none", "nil", "error"}
  /\ exit \in {"none", "0", "1", "2", "signal"}
  /\ wasStrict \subseteq Secrets

(* Under --strict-perms no transport runs unless there has been a private  *)
(* file at every path it depends on, the token's included, however the     *)
(* files change during start-up: no path is left unchecked. What replaces  *)
(* a file after its check goes unseen, as main.go:200-206 says.            *)
StrictMeansPrivate ==
  step = "transport" /\ cfg.strict => Required \subseteq wasStrict

(* A signal kills the process outright only before RunHTTP has begun or    *)
(* after it has returned: any further signal during the drain is absorbed, *)
(* so no request is cut off by it.                                         *)
DrainIsNotInterrupted == exit = "signal" => at \in {"token", "returned"}

(* Exit status 0 under --http: a signal was received and the drain was     *)
(* clean, with no listener, no connection and no client without its reply. *)
ZeroMeansDrained ==
  exit = "0" /\ cfg.http =>
    /\ signalled
    /\ listener = "closed"
    /\ \A c \in Conns : conn[c] = "none" /\ (phase[c] # "idle" => c \in cancelled)

(* Whichever the transport, a signal ends the process.                     *)
SignalEndsProcess == signalled ~> exit # "none"
=============================================================================
