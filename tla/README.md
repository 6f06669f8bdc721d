# eth-signer-mcp in TLA+

This directory specifies `apps/eth-signer-mcp`, an MCP server that signs Ethereum
transactions with one key from an encrypted keystore. The modules are model-checked with
TLC; every safety property, action property and safety refinement is also proved with TLAPS,
for any number of calls, requests and connections and for texts of any length. Liveness is
model-checked only. All paths below are relative to `src/apps/eth-signer-mcp`.

## 1. The system

| Component | State it keeps | Operations | Code |
|---|---|---|---|
| Key vault | semaphore channel of capacity 1 with the runtime's queue of blocked senders, the boot-time keystore JSON, the address pointer; per call: password bytes, key scalar | `WithSigningKey`, `Address`, `AddressPointer` | `internal/signing/{decrypt,file_vault,vault,zero}.go` |
| Signer and tool handlers | chain-id guard; per request: the parsed transaction, the result, the request id | `sign_transaction`, `get_address`, panic recovery, audit line, error mapping | `internal/signing/signer.go`, `internal/server/{handlers,errors}.go` |
| Validation and `buildTx` | none | nine ordered rules, number, data and address parsers, the transaction built from them | `internal/signing/validate.go`, `build.go` |
| HTTP transport | listener, Serve goroutine, `serveErrCh`, grace context, connections | token load, listen, loopback check, announce, serve, drain | `internal/server/http.go` |
| HTTP middleware | token hash; per request: captured status, request id | body cap, request log, bearer check | `internal/server/{auth,reqlog}.go` |
| Stdio transport | none of its own | run a session until EOF or cancellation | `internal/server/stdio.go` |
| Process | flags, signal disposition, exit status | flag validation, permission checks, keystore load, `NotifyContext`, exit | `cmd/eth-signer-mcp` |
| Secrets, logging, build info, scripts | none | formatting | `internal/signing/secret.go`, `internal/obs`, ... |

How they interact. `main` checks the flags and the modes of the secret files, loads the
keystore into the vault, takes over SIGINT and SIGTERM and calls one transport. The
transport runs each request in a goroutine of its own. `sign_transaction` validates, builds the
transaction and calls `WithSigningKey(ctx, fn)`, which admits one caller at a time,
re-reads the password file, decrypts, publishes the address, runs `fn` (which signs and
compares the recovered sender with the published address) and unwinds through its deferred
calls. `get_address` reads the address pointer without the semaphore. `ctx` is the
request's context: the client ends it, the signal does not.

What is hard about it:

* callers queue on a semaphore inside a `select` that also watches their context, and every
  early return, error and panic has to give the slot back and wipe what exists by then;
* cancellation races admission; the password file changes under running calls;
* the address is discovered by one request while others read it;
* shutdown: the signal races the start of `Serve`, Serve's own failure, and the drain; the
  grace timer races the last reply; long-lived streams never drain;
* start-up checks files first and reads them later;
* a request passes four nested handlers, any of which may answer, panic or lose its client,
  and leaves one log line, whose id tool calls in other goroutines repeat.

`PROJECT.json` lists each hazard at its line with the properties that would catch it going
wrong.

For each component, what makes it correct:

* vault: mutual exclusion; no slot and no waiter lost; secrets only inside the critical section; no remembered
  password; a cancelled caller is told so before the recheck and never after; a known
  address is final; everyone is answered;
* signer: every address given out as the account's is the same one; one audit line per signature and none
  otherwise; every request is answered, panics included; a client sees only what the codes
  and the two tools promise;
* validation: the network and the type are reported before the fields; what is accepted has
  passed every rule and fits the transaction; nothing that can be encoded is refused as invalid;
  the transaction built says what the request said, for the chain of the guard;
* transport: RunHTTP leaves no listener or goroutine behind; a nil return owes no reply; a
  signal always ends it;
* middleware: one log line per request, with the status sent (but for a flush that comes
  before any status); without the token nothing is
  read and no tool is called; lines that can be joined by id;
* process: strict mode depends on no path at which no private file was seen; a signal ends the process, but
  never in the middle of the drain; exit status 0 means drained.

## 2. Modules

| Module | What it is |
|---|---|
| `KeyVault` | the interface promise: who may have the key, when the address is known, that everyone is answered |
| `FileKeyVault` | `WithSigningKey`, one action per step |
| `MCFileKeyVault` | its TLC instance (symmetry of calls) |
| `FileKeyVault_proofs` | its theorems |
| `SigningTools` | the two tools as a client sees them: open, signed, answered; one account |
| `Signer` | the two tools, over `INSTANCE FileKeyVault`, shown to implement `SigningTools` |
| `Signer_proofs` | its theorems, over those of the vault |
| `HttpServer` | `RunHTTP`, over `INSTANCE KeyVault` |
| `HttpServer_proofs` | its theorems |
| `HttpPipeline` | one request through body cap, request log, bearer check and SDK; log lines and their ids |
| `HttpPipeline_proofs` | its theorems |
| `Validate` | `validate`, one action per rule, its number parsers, and `buildTx` |
| `ParseBigInt_proofs` | what `ParseBigInt` computes, by induction over the text |
| `Validate_proofs` | its theorems |
| `Main` | `run` and `main`, over `INSTANCE HttpServer` |
| `Main_proofs` | its theorems, over those of the transport |

`KeyVault` is what `HttpServer` knows of the vault, and `FileKeyVault` is shown to implement
it; `Main` runs `HttpServer` step for step, and `Signer` runs `FileKeyVault`. `SigningTools` is to
`Signer` what `KeyVault` is to `FileKeyVault`. `HttpPipeline` and
`Validate` stand alone: what a request goes through before the vault, and what is made of
its fields.

`Signer`, `Validate`, `HttpServer`, `HttpPipeline` and `Main` need no MC module: their configurations give every constant.
Operators whose comment begins with `Fault:` are not used by any specification. Each is the
operator below it with a plausible bug (a dropped guard, a missing wait); `PROJECT.json`
pairs each with a property that must fail when the bug is put in.

### KeyVault and FileKeyVault

A call's `pc` is its place in `WithSigningKey`:

    idle -> select -> (queued) -> recheck -> read -> decrypt -> discover -> fn
         -> zeroKey -> zeroPw -> release -> done

* `Acquire`, `Enqueue`, `GiveUp`: the `select` (decrypt.go:75-81). With both cases ready Go
  picks either, so a cancelled call may still acquire. A blocked sender is in `waitq`.
* `ReleaseAndReturn`: `<-v.sem`. With senders blocked the Go runtime hands the slot to the
  first of them, so the channel stays full; `GiveUp` takes a cancelled sender out of the
  middle of the queue.
* `RecheckFails`, `Recheck`: the second look at `ctx.Err()` (87-90).
* `ReadPassword`, `Decrypt`, `Discover`, `RunFn`: the work, with each error going to the
  deferred calls that are registered by then (`release`, `zeroPw`, `zeroKey`). `DecryptKey`
  is geth's, by the outcomes the code tells apart: a key, `ErrDecrypt`, another error, a panic.
  A snapshot that passed the boot-time shape check may still be `macBroken` or `unusable`.
* `ZeroKey`, `ZeroPassword`, `Release`: the deferred calls run last-registered first, so the
  key goes before the password (the comment at decrypt.go:63-65 has it the other way
  round; the properties need only that both go before the release).
* `Cancel`, `WritePasswordFile`, `Collect`: clients, who may leave at any moment, also between
  the vault's answer and the audit line or the delivery; operator; and the caller that takes its
  answer, after which the identity serves a later call. No counter is bounded: runs are
  infinite.

`seen` is a history variable: the contents the password file has had since the call was
admitted. The line-end stripping of `readPasswordFile` is in the definition of `Passwords`
(contents with line ends stripped). A read that fails part-way counts as `Unreadable`; the
bytes it may have read, and the immutable string that geth's API forces (decrypt.go:113-122), are
not modelled.

`KeyVault` has no queue, semaphore, file or buffer. `FileKeyVault` is mapped to it by
`Phase`: a call that holds the semaphore but has not rechecked is, to its caller, still
waiting.

### Signer and SigningTools

Adds to the vault what the handlers keep per request: `stage`, the verdict of `validate`,
`sender` (signResult.From), `reply`, and the number of audit lines. The vault's callback step
becomes `Callback`, which succeeds only if the published address is the key's. `told` and
`signed` are history. `told` has the addresses given out as the account's: the From of results
and the answers of get_address. When the keystore declares another address than the key's, the
refusal names both in its message (signer.go:192-203), so `OneAddress` says nothing of messages. `validate` is its verdict, one of three error codes or valid; `Validate`
says which. A refused request never enters the vault, so `Deliver` itself forgets that its client has
gone; for the others the vault's `Collect` does.

`SigningTools` has no vault and no stages. A request is open, signed or answered: it is refused
while open, or signed under the key's own account and then answered and audited; the account may
be learned while a request is open; a JSON-RPC error needs a client that has given up. `RequestOf`
maps `Signer` to it: a request is signed from the moment signResult is assigned, which is inside
the callback, while the vault still has to wipe and release.

### Validate

`req` is the request, by field. A numeric text is a prefix or none, an optional sign and
digits, and `OtherChar` is any character that is no digit of the base. `Change` makes a valid
request differ in a field; `Submit` calls `validate`, which never yields, so its rules are
actions only to be read one at a time. `Apply` is the early return: the first rule that fails
sets the verdict and no later one runs. `AcceptedFits` depends on it: without the return a rule
that passes would overrule one that failed (`Apply_noReturn`). `RefusedForCause` is its converse:
`Encodable` says, without the parsers, what a request has to be for validate to have no reason to
call it invalid. Both parsers refuse signs; the rule that the code
applies to `value` and the fees, at most 256 bits, is a bound on the number. `to` is one of
four kinds: absent, an address, malformed, or mixed case with a wrong checksum. `Types` merges
the two spellings of each type, which no rule tells apart.

`BuildTx` fills the slots of a legacy or a dynamic-fee transaction from what `validate`
returned, and records the chain of the signer it will be signed with. The code's defaults
for a nil value and nil data and its panic on another type are not reached from what
`validate` returns, and are left out. The data is its length.

### HttpServer

`at` is where RunHTTP is; `serve` where the goroutine is that runs `httpSrv.Serve`;
`serveErrCh` the channel between them. `net/http` is modelled from what RunHTTP relies on:
Serve refuses a server already shut down and closes its listener when it returns; Shutdown
closes the listener Serve has registered, waits for that Serve, closes idle connections in
every round of polling, and returns when no other is left or when its context ends. A
connection that has sent nothing for five seconds counts as idle (`NewConnAges`), so Shutdown may
close it while its first request is still in the kernel; a reply is owed from when the server
has begun to serve a request.
A connection is new, idle, active (a sign_transaction) or a stream (`GET /mcp`). A client
that leaves cancels its request; the HTTP handler may then return before the tool call
does. The vault is `KeyVault`, which `FileKeyVault` implements, so the queue and the buffers
need not be there. `ReadyCh`, `stderrW` and `captureHTTPSrvCh` are test seams and left out.

### HttpPipeline

`pos` is the layer a request is in, counted from outside in `Pipeline`'s order (http.go:188-191),
and `dir` whether it is on its way in, returning, panicking or over.

* `Arrive` is net/http calling the outermost handler; `CapBody` wraps the body in
  MaxBytesReader; `ReqLog` makes the request's id, wraps the writer and defers the line;
  `Auth` writes 401 and returns, or goes on.
* `WriteHeader`, `Write`, `Flush`, `CapturedStatus` are the statusCaptureWriter over
  net/http's writer: `sw` is what the first captured, `header` what the second recorded, `sent`
  what has gone out. `Flush` reaches net/http past the wrapper, through `Unwrap`, at any time
  while the SDK has the request. If it comes before any status, net/http sends 200 and drops what
  follows, but the wrapper captures what follows: the line may then say 500 where 200 was sent,
  though reqlog.go:86-87 calls the captured status the one that "was (or will be) sent". The
  history variable `preempted` has the requests this happened to, and `LoggedIsSent` names them as
  its exception; without it TLC shows the flush, the 200 and the line. The repository's
  own flusher test flushes first, but then sets no other status.
* The `Sdk...` actions are the SDK's handler as far as the code, its tests and the recorded
  session in docs/demo-assets/http-session.txt rely on it: the check of the host, the read of the
  body (cut at the cap), sessions, the dispatch of a tool call to a goroutine of its own,
  replies, panics. A session's tool calls run under the context of the initialize request
  that opened it.
* `LogLine` is the deferred line, logged while the handlers return or panic.
  `FinishRequest` is the end of the handler in net/http: it sends what was recorded, or
  200, unless the client has gone or the handlers panicked.
* `HandlerId`, `SignReturns` are makeSignTransactionHandler around `SignTransaction`, of which
  `Signer` has the rest: the id of the context is used, or a new one made when there is none (over
  stdio); the call ends with an audit line or an error line.

The token is right or wrong, the host loopback or foreign, the body within the cap or over it.

### Main

Adds start-up, the signal disposition, stdio and the exit status. Each secret file has a
mode (absent, open, strict) and may or may not be usable to the code that reads it; it may
change before each step until the token is read. A signal under the default disposition
kills the process; NotifyContext turns the first into a cancelled context and absorbs the
rest; `stop()` restores the default when `run` returns, before the exit.

## 3. Runs

| Run | Checks | Bounds |
|---|---|---|
| `vault_safety` | type, mutual exclusion, slot accounting, secrets, rotation, cancellation, address, refinement of `KeyVault!Spec` | 3 calls, a right and a wrong password plus an unreadable file, 2 addresses, 3 kinds of snapshot, symmetry |
| `vault_live` | refinement of `KeyVault!FairSpec` | 3 calls, one password, one address |
| `vault_stuck_fn` | a cancelled waiter returns although a callback hangs | as above |
| `signer` | type, one address, audit, known once told, every request answered, refinement of `SigningTools!Spec` | 2 calls, 2 addresses |
| `validate` | type, what is accepted fits, which code comes first, nothing encodable is refused, the transaction is for the guard's chain and says what the request said | two changed fields, numbers 0, 1 and either side of a uint64 of 9 and a "256-bit" maximum of 15, data limit 2 |
| `http_server` | type, cleanup, no receive from `serveErrCh` without a sender, clean exit, termination | 2 connections |
| `process` | type, strict mode's paths, signals, exit status, termination | 1 connection, 3 files |
| `http_pipeline` | type, one line each, logged status is the one sent (but for an early flush), token, clean calls, ids that join, audit ids reach the request log | 2 requests |
| `signer_unknown`, `http_queued`, `http_drain`, `http_correlation` | expected to fail: what a comment or a guide says and the code does not do | 1 or 2 |

Why the bounds are enough. Three calls are one inside, one queued first and one queued behind
it, which is what overtaking, handing over and giving up in the middle of the queue need; the
proofs remove the bound for safety. Calls are reused without end, so a leaked slot, a stale buffer or a
remembered password meets a later call. Two addresses are the key's and a wrongly
declared one. Two changed fields set any rule against any other; 9 and 15 keep the order of the
two widths and make both boundaries reachable in one or two digits. Two connections let one hang while the other drains and let one queue behind
the other. Two requests are one that opens a session and one that calls a tool in it, or two calls
over stdio that must not share an id; each passes the layers with every combination of
token, host and body. The process run leaves connections to `http_server`: one is enough to owe a reply.
Symmetry is used for safety only. Deadlock is checked in the vault and signer runs, which
never stop; the transport, the process, validation and the pipeline (each request is served
once) do end, so their runs do not check it.

Fairness. Goroutines run: weak fairness on each call's own steps, on RunHTTP, on the Serve
goroutine, on the handlers of each request (`Handler`) and its tool call (`ToolHandler`). A callback only computes, so `FairSpec` lets it return; `StuckFnSpec` does not
assume it. The grace timer fires. Nothing is assumed of clients, signals, the operator, Serve
failing by itself, or, for RunHTTP, of handlers and the vault. That `Release` needs no more than
weak fairness, and that the queue needs no strong fairness, is because the runtime's queue of senders
is first-in first-out. `Main` assumes that the SDK's `Run` returns once its context is done.

What the failing runs show (details under `findings` in `PROJECT.json`):

* get_address may answer with the address of a call that has not completed, and may fail;
* a request queued on the vault when Shutdown begins still runs the KDF;
* an error of Serve that is followed at once by a signal is dropped, and RunHTTP returns nil;
* the id in an audit line is that of the request that opened the session, not, as the guide
  has it, of the request that called the tool: two calls of one session cannot be told apart by it.

## 4. Proofs

`FileKeyVault_proofs`, for any set of calls, passwords and addresses, under
`FileKeyVaultAssumption` (the constants that stand for special values are not ordinary ones):
`TypeCorrect`, `MutualExclusion`, `SlotAccounting` (`NoSlotLost`), `Confinement`, `Rotation`, `Cancellation`,
`AddressFinality`, `Implementation`. None of the properties is inductive. The
invariant `IInv` adds, to the type invariant: nobody is past a
semaphore that is empty; every call in the queue is at `queued`, and none is in it twice; what each place implies of a call's buffers, its key and its
recorded outcome; and what the password in a buffer has to do with what the file has been.
Lemmas about sequences say what appending and removing from the queue do; they are stated for any
sequence. `SlotAccounting` needs one fact more, that a full semaphore has a holder: `SlotKept` and
`SlotReleased` show it of the steps inside and of the two ways out, by handing over to the head of the queue
or by taking the token back. `StepRefines` shows that each step is a step of `KeyVault` or leaves its variables alone.

`HttpServer_proofs`, for any set of connections: `TypeCorrect`, `Cleanup`
(`NothingLeftBehind`), `DrainEnds` (`DrainNeverHangs`), `CleanExit` (`CleanExitLosesNoReply`). The invariant ties how far
RunHTTP is to what Serve and the listener can be doing, says that a value in the channel means Serve
has closed its listener, that a Serve which has ended has left its value there until RunHTTP returns, and that a call in the vault has a connection the server
tracks or a client that has gone.

`ParseBigInt_proofs`: `ParsesSpelling` says that `ParseBigInt` gives `n` exactly for the unsigned texts
that spell `n`, whatever their length. It is an induction, and the library's induction theorems
take an operator, which no installed prover instantiates; so the induction is on a set: the numbers
that have the property are all of Nat, because `<` is well founded there (`StrongInduction`,
`SetInduction`). From it come, in this order, that `FoldLeft` computes the value digit by digit
(`FoldDigits`), that `Decimal` and `Hex` satisfy the equations they are defined by
(`DecimalDef`, `HexDef`), that they give digit sequences without a leading zero, and that the fold and
the spelling undo each other (`DecimalSpells`, `DecimalReads`, and the same for `Hex`). The two
directions of the theorem are `SpellsWhatItParses` and `ParsesWhatSpells`.

`Validate_proofs`, for any widths and any number of changed fields: `TypeCorrect`, `AcceptedIsEncodable`
(`AcceptedFits`), `OrderIsLocked` (`Precedence`), `NoReplay` (`BuiltForItsChain`), `TxIsTheRequest`
(`TxSpellsRequest`, from one direction of `ParsesSpelling` and the slot each field is built into) and
`RefusalHasCause` (`RefusedForCause`, from the other direction: `LegibleParses`, `EncodablePasses`).
The invariant says which conditions hold of the request once each rule has been passed, why each
code was given, and what was built.

`HttpPipeline_proofs`, for any set of requests: `TypeCorrect`, `OneLine`, `StatusIsTrue`,
`TokenFirst`, `OnlyCleanCalls`, `Joinable`. The invariant says of each request by itself how
where it is determines its deferred line (`Place`), that the two writers agree on a status
before anything is sent, or the request is one that a flush preempted (`Answer`), what the layers have let through (`Entry`), and which id its
lines have; so a step of one request leaves the facts of the others alone. Only two
facts relate requests: a call's session was opened by a clean request and lends it its id, and
stdio calls draw different ids.

`Signer_proofs`, for any calls, passwords and addresses, under `SignerAssumption` (the vault's):
`TypeCorrect`, `Audited`, `SingleAddress`, `KnownForGood`, `Promise` (`ImplementsTools`). It instantiates
`FileKeyVault_proofs`: each vault step of the signer is shown to be a step of that module, so the
vault's invariant is preserved by its own theorem (`VaultKept`) and `VaultSteps` sums up what a
step may do to the handlers. The signer's part ties a request's stage to where its
call is, says that it has a sender exactly if its callback succeeded, and that everything told
is the published address. `Promise` has a lemma for each action; it also needs that whoever is told
`ctx.Err()` has been cancelled (`CtxErrIsEarned`), and that the address is only found by a call
whose outcome is open, so that learning the account happens while a request is.

`Main_proofs`, for any set of connections: `TypeCorrect`, `StrictPerms`, `SignalsAbsorbed`,
`ZeroIsClean`. In the same way it takes the server's invariant from `HttpServer_proofs`. Its own
says that under strict permissions a required file is still to be checked or has been seen
private at its path, that the signals are taken over exactly while a transport runs, that a nil result
follows a signal, and what the exit status implies.

The proofs assume nothing beyond the named assumptions on constants. Of an instance's theorems
only non-temporal ones are cited.

Only model-checked: all liveness (`ImplementsFairKeyVault`, `CancelledWaiterReturns`,
`EveryRequestAnswered`, `SignalEndsServer`, `SignalEndsProcess`, `AuditIsLogged`), for which the prover has
no rules about fairness and ENABLED. `NoSlotLost` and `DrainNeverHangs` are the safety part of the
first and of the fourth, and are proved: nobody waits for a slot or a value that no one will give.

## 5. Plan

Done: all components that keep state or decide something are modelled, checked and, for
safety, proved, in this order: `KeyVault` and `FileKeyVault`, `Signer`, `HttpServer`, `Main`,
`Validate`, `HttpPipeline`; then `ParseBigInt_proofs` and the refinement of `SigningTools`.

Left, should the code change: proofs follow the one-action-per-step layout, so a changed step
is one changed action and one step of each proof; a new handler in the pipeline is an entry
of `Pipeline` with an action.

## 6. Not modelled, and why

* RLP, signature values, address checksums, token hashing: pure functions of geth and of the
  Go library.
* The MCP SDK's JSON-RPC framing, the end of a session (DELETE, expiry) and informational 1xx
  statuses: not in this repository; the SDK is modelled only as far as the code relies on it
  (a handler's error becomes a JSON-RPC error, a panic ends in `SignTransaction`).
* What the log says of a response that was never sent: after a panic before any status the line
  says 200, as `CapturedStatus` does by default, and net/http drops the connection. The model
  does so too, but `LoggedIsSent` is about statuses that a client was told.
* The text of refusals, among them the two addresses a sender mismatch names.
* What becomes of a file between its check and its use: a secret is known by its path, and a
  replacement after the check, which main.go:200-206 accepts, is used unnoticed.
* `generateRequestID`'s panic when the system has no randomness: the Go version of the module
  ends the process instead.
* `newServer`'s registration of the two tools, whose handlers are in `Signer` and `HttpPipeline`.
* Log formatting, redaction wrappers, leak-test sentinels, build information, test helpers,
  and the demonstration client under `scripts/demo`: no control of the server is in them.
* `fsperm_windows.go`: the Unix build is modelled.
* Calls over stdio when the process is told to stop: how the SDK ends a session is its own.
