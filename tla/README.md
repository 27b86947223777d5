# httpok in TLA+

Models of [httpok](https://github.com/candango/httpok) — HTTP sessions over pluggable stores, signed
cookies, and a server that shuts down gracefully — for TLC, and proofs of what matters most in them for
TLAPS. Paths and line numbers below are those of the repository's sources.

* [Parts of the system](#parts-of-the-system)
* [What is hard](#what-is-hard)
* [The modules and the code](#the-modules-and-the-code)
* [What is checked](#what-is-checked)
* [What is proved](#what-is-proved)
* [Where the code and its documentation disagree](#where-the-code-and-its-documentation-disagree)
* [Assumptions and limits](#assumptions-and-limits)
* [Plan](#plan)

To check a run: `tlc -config <file>.cfg <module>`; to check proofs: `tlapm <module>.tla` for
`SessionedProofs`, `EngineLifecycleProofs`, `FileStoreProofs`, `GracefulServerProofs`,
`CookieRotationProofs`, `ResponsesProofs` and `TestRunnerProofs`. `PROJECT.json` lists the runs, the source
lines behind every definition, the hazards and the theorems.

## Parts of the system

| Part | State it keeps | Operations | Correct when |
|---|---|---|---|
| Session middleware, `middleware/session.go` | none of its own; per request: the id, the `Session`, the pending `Set-Cookie` | `Sessioned`: read cookie, check the id, load, run the handler, delete or save | only ids the server issued are used; clients' data never mix; only changed sessions are written |
| Store engine, sessions, `session/store.go`, `session/session.go` | properties (`Enabled`, `AgeLimit`, ...) | `GetSession`, `SessionExists`, `SaveSession`, `DeleteSession`, `Purge`; `Session.Set/Delete/Clear/Destroy` | a session in use survives; a deleted or purged one does not come back |
| Store engine, lifecycle, `session/store.go` | `started`, `scheduler`, its context, its result channel | `Start`, `Stop`, `Pause`, `Resume` | one purge goroutine at most, only over an open store; `Stop` returns |
| Memory store, `session/memory.go` | map of entries with the time of last touch, under a RWMutex | `Set`, `Get`, `Exists`, `Touch`, `Delete`, `Purge` | each operation is atomic |
| File store, `session/file.go` | a file per session, its modification time, a RWMutex per instance | the same | it keeps the contract of the `Store` interface, crashes included |
| Graceful server, `server.go` | context and cancel function, the channels `sigChan` and `done` | `Run`, `TriggerShutdown`, three hooks | a requested shutdown happens; `Run` returns after every request was answered |
| Signed cookies, `security/signedcookie.go` | keys by version | create, decode (two formats), key rotation | what one server signs every server with the key accepts, until it expires |
| Session ids, `security/random.go` | none | `RandomString` | ids do not repeat |
| Response helpers, chain, logging, `http.go`, `middleware/` | the status a response was given | `WriteHeader`, `Chain`, `Logging`, `ExactPath` | the status logged is the one sent |
| Logger, `logger/logger.go` | none | `Printf`, ..., `Fatalf` (ends the process) | — |
| Test runner, `testrunner/` | settings of one request | builder methods, `Run` | settings of one run do not leak into the next |

How they interact. A request enters the middleware, which decodes the cookie (signed cookies), asks the
engine whether the id exists, and otherwise draws a new one; the engine makes up to four calls of the
store, each under the store's own lock and none in a common one; the handler works on a private copy of
the session; the middleware writes it back or deletes it. At the same time the engine's scheduler (the
library `schedulerok`) calls `Purge` in a goroutine, and `Stop` waits for it. `GracefulServer.Run` starts
one goroutine that serves and one that waits for a signal or the end of the context, then runs the
shutdown hook and `http.Server.Shutdown`; `Logger.Fatalf` ends the process out of any of them.

## What is hard

* *A request is not atomic.* It checks an id in one store call and uses it in three or four others; other
  requests of the same client, the purge job, the clock and a crash may fall between any two.
* *The store is shared, sessions are copied.* Two overlapping requests load, change and save the same
  session; a third destroys it.
* *Time.* Age is measured when the purge runs, not when the id is checked; the boundary is `age > AgeLimit`.
* *Failure half way.* The file store truncates a file before it writes it; the error of `GetSession`'s
  `Set` is dropped; `Touch` comes before decoding; the store outlives a crash and jars outlive both.
* *Keys change while cookies are out.* Servers are restarted one by one, clients hold cookies signed by
  keys that are about to go, and a timestamp of whole seconds is compared with a finer clock.
* *Layers around a handler.* Any of them may answer early, write twice, write nothing or panic, and the
  status that is logged is learnt from a wrapper that sees only some of the calls.
* *Starting and stopping.* `Stop` may time out at any of three places and be called again; a scheduler's
  context may end by itself; a signal may arrive before the goroutine that reads it exists; a hook that
  fails ends the process.

`PROJECT.json` lists each hazard at its line with the properties that cover it, or says why none does.

## The modules and the code

```
StoreOps ──── Sessioned ────── MCSessioned            (instance)
   │              └─────────── SessionedProofs        (theorems)
   └── StoreContract <── refines ── FileStore ── FileStoreProofs         (theorems)
EngineLifecycle ────────────── EngineLifecycleProofs  (theorems)
GracefulServer ─────────────── GracefulServerProofs   (theorems)
SignedCookie ── CookieRotation ── MCCookieRotation    (instance)
                     └──────── CookieRotationProofs   (theorems)
Responses ──── MCResponses                            (instance)
   └────────── ResponsesProofs                        (theorems)
TestRunner ─── TestRunnerProofs                       (theorems)
```

**StoreOps** — the effect of each store operation on a function from ids to entries, translated from
`memory.go`. `LastTouched` becomes an *age* that saturates one tick past `AgeLimit`: the code only
compares `time.Since(LastTouched)` with the limit, so all greater ages are alike.

**Sessioned** — `Sessioned` over `StoreEngine` over a store. `pc[r]` is where request `r` is; its module
comment names each place. One action is one store call together with the code up to the next one:
`BeginWithCookie`, `BeginWithoutCookie`, `CheckExists`, `Refuse` are the middleware up to `GetSession`;
`Lookup`, `Create`, `Read`, `Touch` are `GetSession`'s four calls; `HandlerSet/Delete/Clear/Destroy` are
the methods of `Session` a handler may call in any order; `HandlerReturns`, `SaveSession`,
`DeleteSession` are what follows. `Deliver` is the `Set-Cookie` header reaching the client, which need
not happen before the handler returns. `HandlerPanics`, `Crash`, `Purge`, `PurgeFails`, `Tick`, and the
fault actions (`LoadFails`, `CreateFails`, `WriteBackFails`, `CreateTears`, `SaveTears`) are the rest of
the world. Session data is the set of requests that wrote to it, so that data tells whose it is.
A cookie with an empty value is a case of its own: without keys it counts as verified, so that
`SessionExists` is called with the empty id (`EmptyId`, one of the stale ones), which a memory store does
not know and a file store refuses; the other operations of the engine refuse it themselves.
`owner`, `held` and `invalidated` are history variables; no action's guard reads `held` or `invalidated`,
and `owner` is read only to draw an id that was not drawn before.

**StoreContract**, **FileStore** — what the `Store` interface promises to concurrent callers, and
`FileStore` system call by system call: `Lock`/`RLock`, `Truncate` (`OpenFile`) and `Write` for a `Set`,
`ReadDir` *before* the mutex for `Purge`, then `Look` (`Info`) and `RemoveVictim` file by file. A file is
its contents and the age of its modification time. Every file operation may fail, `Info` also for a file
that is there; `Crash` forgets goroutines and mutex and keeps the files. `FileStore` implements `StoreContract` under the mapping
`Contents`, `Status`: a call takes effect when its last deciding file operation runs; a `Set` does so
when it truncates, since the mutex hides the file until the write is over. `StoreContract` also says why
one store call may be one step in `Sessioned`, with `Torn` values as the only trace of a failed write.

**EngineLifecycle** — `Start` and `Stop` split at every call that may fail or block, the schedulers each
`Start` creates, and their goroutines. `scheduler`, `started` and `done` are the fields of the engine;
`runner[k]` and `purging[k]` are the goroutine of the k-th scheduler and its job.

**GracefulServer** — `Run` (`main`), the goroutine that serves (`server`), the one that shuts down
(`stopper`), signals, `TriggerShutdown`, the hooks and the requests. A server made as a literal may have a
Context of its caller's (`supplied`), which may end by itself (`ContextEnds`). `http.Server.Shutdown` fails
when its context ends before it has seen every connection idle (`ShutdownFails`) or because of the
listener (`CloseFails`). `Deadline` is the conversion
`time.Duration(s.ShutdownTimeout) * time.Second`, which drops fractions; `clock` counts half seconds so
that fractions can be told.

**SignedCookie** — a cookie as a function of the configuration and the time, and its decoding as a
predicate: `WithProperties`, `CookieSecrets` and `Active` choose the keys (`CookieSecret` is version 0,
an empty key is configured but unusable), `SessionCookie` makes a signed value, a bare id or nothing,
`DecodesV1` and `DecodesV2` are the two formats with their different checks. A MAC is the secret it was
made with. The order in which the code walks a map of keys makes no difference to its result.

**CookieRotation** — servers behind one address go through rotations in the four steps of
`docs/session/security.md`; `stage[s]` counts the restarts of a server with a new configuration. With
`CookieKeyVersion` set (`pinned`) they are restarted one by one (`Deploy`), without it all at once
(`DeployAll`), because then a key is active as soon as it is configured. A client may come to any
server at any time and may still hold a cookie from before versions or from before signing. Clocks
differ by up to `MaxSkew`. What the operator does is the document's procedure; what servers do with
cookies is the code's.

**Responses** — `Chain` wraps a handler, and one request goes through the layers. Each `Wrap` is one round of
`Chain`'s loop, from the last middleware to the first; `Arrive` calls what it returned; from then on `at` is
the layer whose code runs. `Logging`, `Sessioned` and `ExactPath` do what the code does; `other` stands for
any layer an application adds and may write, call the next one, answer by itself or panic, like the handler.
Nothing in the repository recovers a panic, so its layers are left without another word (`unwound`); an
`other` layer outside may recover, and answer. `WriteHeader` passes through the `WrappedWriter` of each
`Logging` layer outside the caller; `Write` does not, as the wrapper has no method of its own for it.
`net/http` at the bottom is external: it sends the first status that is final (101, or 200 and more), with
the headers there are at that moment.

**TestRunner** — `HttpTestRunner` as a state machine of the test that uses it: the builder methods
between runs, which may also take a setting back with nil (`WithNil`), `Run` or a verb, the deferred `reset` and `resetMethod`, also after a run that fails.
`wanted`, `marked` and `before` are history variables: what the test asked for.

Definitions called *faulty variants* are mistakes the code does not make. No specification uses them;
substituted for the definition that follows, each one makes a property fail, and so shows that the
property depends on the code.

## What is checked

Passing runs:

| Run | What it asks |
|---|---|
| `sessions` — `MCSessioned_safety.cfg` | Alice's two overlapping requests and Bob's one, two ids, a stale and an empty cookie, memory store with crashes. `OnlyIssuedIds`, `Isolation`, `KeptAlive`, `NewIdIsPrivate`, `GoneForGood`, `OnlyChangesAreSaved`. |
| `session_faults` — `MCSessioned_faults.cfg` | One client with two requests over a durable store: calls that fail or tear, an empty id that the store rejects, every setting of `Enabled`. `TypeOK`, `KeptAlive`, `GoneForGood`, and `Drains`. |
| `engine` — `EngineLifecycle_pass.cfg` | Three lives of an engine, each call failing or timing out. `TypeOK`, `OnePurger`, `PurgesOpenStore`, `StartedIsAtWork`, `ResultIsComing`, `StopReturns`. |
| `file_store` — `FileStore_contract.cfg` | Two goroutines, two ids, faults and crashes. `TypeOK`, `ImplementsContract` (refinement of `StoreContract`), `CallsReturn`, `PurgeIsThorough`. |
| `server` — `GracefulServer_pass.cfg` | Two requests, no timeout or one second. `TypeOK`, `ReturnIsGraceful`, `DrainIsUninterrupted`, `RequestIsKept`, `GracePeriod`, `ShutdownHappens`. |
| `rotation` — `MCCookieRotation_pass.cfg` | Two servers go from key 0 to 1 to 2, one by one or together, clocks half a second apart. `TypeOK`, `SessionsSurviveRotation`, `NoneOutlivesMaxAge`. |
| `responses` — `MCResponses_pass.cfg` | Every chain of up to three layers, up to three calls of the writer. `TypeOK`, `InOrderGiven`, `LoggedIsSent`, `CookieIsSent`. |
| `testrunner` — `TestRunner_pass.cfg` | One runner configured, run and reset in any order. `SettingsLastAsMarked`, `MethodIsRestored`. |

What the properties say, in short (each is stated in full above its definition):

* `OnlyIssuedIds`, `Isolation`, `NewIdIsPrivate` — ids in the store, and in requests past the check of their
  cookie, were issued to that client, whatever ids cookies carry, an empty one included; no handler sees a key written for another client; a
  fresh id is nobody else's, so the blank session stored for it replaces nothing.
* `KeptAlive` — for `AgeLimit` after its `Touch`, a request's session is in the store unless deleted.
* `GoneForGood` — once an issued id has no entry and no request past its check uses it, it stays so.
* `OnlyChangesAreSaved` — a handler that only reads never overwrites a concurrent change.
* `Drains` — with the requests over, the purge job empties the store, torn entries included.
* `OnePurger`, `PurgesOpenStore`, `StartedIsAtWork`, `StopReturns` — the engine's lifecycle. `StopReturns`
  excludes a `Stop` that follows one which returned `Run`'s error (`ResultIsGone`): the first has emptied
  the result channel and left the scheduler in place, and the second does block for ever at
  `store.go:236`, whatever its context says. The exclusion is the finding; everything else returns.
  `ResultIsComing` is its safe part: up to the same exclusion, `Stop` waits only for a goroutine that is
  alive and was asked to stop, or for a result that is there.
* `ImplementsContract`, `CallsReturn`, `PurgeIsThorough` — the file store: each call takes effect at one
  moment whatever runs beside it; none keeps the mutex; a purge without errors passes
  over no expired file of its listing (one that an error ends does leave some).
* `ReturnIsGraceful`, `DrainIsUninterrupted`, `GracePeriod`, `ShutdownHappens` — the server.
  `RequestIsKept` is the safe part of the last: a request to stop, however early in `Run`, is in `sigChan`
  or has ended the context.
* `SessionsSurviveRotation` — whichever servers a client meets during a rotation, its signed cookie is
  accepted for `MaxAge`, less a second that the timestamp may lose and the difference of two clocks;
  `NoneOutlivesMaxAge` — and not much longer.
* `LoggedIsSent` — a `Logging` layer that no panic went through logs the status that was sent, if no layer
  outside it wrote and no second status was given; `CookieIsSent` — a new session's cookie goes out, on
  the error paths of `Sessioned` too, if no layer outside it wrote; `InOrderGiven` — the loop of `Chain`
  leaves layers that are entered in the order in which they were given.
* `SettingsLastAsMarked`, `MethodIsRestored` — a setting lasts exactly until the run after it was marked,
  and a verb leaves the method as it was, whether or not the run failed.

Why the bounds are enough:

* *Sessions.* Everything concerns a pair of requests on one id, plus a third party: two requests of one
  client and one of another (or three of one client, in `destroyed_id_revived`) give every such
  interleaving. Each request is made once; a client's *next* request is another member of `Requests`. Two
  fresh ids allow one to be lost and replaced; when `Unissued` runs out a request waits. `AgeLimit = 1`
  gives the three ages that differ: fresh, at the limit, beyond. Nothing deadlocks, since `Tick` and
  `Crash` stay enabled. The symmetry set permutes fresh ids only, in the one run without liveness.
* *File store.* Its steps involve one lock and at most two files, the one a call is about and another in
  the same listing. The refinement does not depend on these bounds: it is proved for any.
* *Engine.* Three schedulers are one more than a `Stop` and a new `Start` need to meet.
* *Server.* `MaxClock = 3` lies beyond every timeout of its runs. It does end (its cfgs switch off the
  deadlock check), when `Run` has returned or the process has died.
* *Rotation.* A tick is half a second and cookies live for six ticks; two servers show every mixture of two
  stages, three keys a second rotation that begins with leftovers of the first; one client is enough
  because clients share nothing; `MaxClock = 24` leaves time for both rotations with their waits: the run
  reaches the last stage with clients that hold cookies.
* *Responses.* Chains of three layers hold each pair of layers with a third around, between or inside them;
  the statuses are one that announces another, 101, which does not, one success and one of each other level
  of logging; three writes are
  one more than it takes to overrule a status. It ends when the outermost layer has returned, so its cfg
  switches off the deadlock check too.
* *Test runner.* Two verbs, a method that `Run` does not support, two paths, and up to two header entries,
  to tell adding from replacing.

Fairness, and what in the code justifies it:

* `Sessioned`: `WF(Tick)`, `WF(Purge)` — time passes, and the scheduler dispatches its interval job while
  it is not paused. Requests are *not* assumed to make progress: a handler may hang.
* `EngineLifecycle`: an owner inside `Start` or `Stop` goes on when it can; a purge job ends (store calls
  return, which `CallsReturn` shows for `FileStore`); `Run` of the scheduler returns when stopped.
* `FileStore`: goroutines run; strong fairness of `Lock` and `RLock` stands for `sync.RWMutex`, in which
  a waiting writer keeps new readers out and blocked readers go before the next writer.
* `GracefulServer`: goroutines run and time passes; hooks return, `AfterStartFunc` at the latest when its
  context ends; without a timeout, requests are served in the end (with one they need not be).

## What is proved

For all values of the constants — any sets of clients, requests, ids and faults, any `AgeLimit`, any
timeouts — from the named assumptions of the modules (which only say that the sets are what they are
meant to be and that the special values differ from the ordinary ones):

| Theorem (`SessionedProofs`) | Invariant it comes from |
|---|---|
| `TypeCorrect`: `Spec => []TypeOK` | `TypeOK` is inductive by itself |
| `OnlyIssuedIdsHolds`, `IsolationHolds` | `OwnershipInv` |
| `KeptAliveHolds` | `KeptAlive` is inductive given `TypeOK` |
| `GoneForGoodHolds`: `Spec => GoneForGood` | every step keeps `Gone(id)`, given `TypeOK` |
| `OnlyChangesAreSavedHolds`: `Spec => OnlyChangesAreSaved` | `SavesAreChanges` |
| `NewIdIsPrivateHolds` | `NewIdInv`, given `OwnershipInv` |

| Theorem (`GracefulServerProofs`) | Invariant it comes from |
|---|---|
| `TypeCorrect`, `ReturnIsGracefulHolds`, `DrainIsUninterruptedHolds`, `RequestIsKeptHolds` | `ServerInv` |
| `GracePeriodHolds`: `WholeSeconds => (Spec => []GracePeriod)` | inductive given `TypeOK` |

`TypeCorrect` says of ids that a request has one exactly while it is in flight; that an empty or unknown one
never gets past the check of the cookie is `OnlyIssuedIdsHolds`.

`OwnershipInv` is `TypeOK`, `IdsAreOwned` and `KeysAreOwned`. `OnlyIssuedIds` alone is not inductive: a
request in `check` holds an id straight from a cookie, which becomes a working id as soon as the store
knows it. So `IdsAreOwned` says of *every* place an id can be — jar, undelivered header, request, store —
that an issued id there belongs to that client, and that only issued ids are stored; `KeysAreOwned`
says the same of data in the store, in raw bytes and in sessions.

`SavesAreChanges` says that a request about to save has a changed session; no call but `Set` touches a
value. `NewIdInv` adds to `NewIdIsPrivate` what keeps others away from a new id (`HeadersAreOwn`): it
waits in one header only, that of its request, which is not delivered while `GetSession` runs; and a
request that has not drawn an id has no header. `NewId` cannot draw it again, because it is owned.

`ServerInv` is `TypeOK` and `Stages`. That a shutdown was asked for, that signals are caught while
requests are active and that `Run` returns last all follow from how far each goroutine is; `Stages` says
which combinations there are. `GracePeriod` needs `WholeSeconds`: with half a second it is false, as the
run `fraction_of_a_second` shows.

| Theorem (`EngineLifecycleProofs`) | Invariant it comes from |
|---|---|
| `TypeCorrect`, `OnePurgerHolds`, `PurgesOpenStoreHolds`, `StartedIsAtWorkHolds`, `ResultIsComingHolds` | `EngineInv` |

`EngineInv` is `TypeOK`, `OwnerInv` and `SchedulersInv`. None of the four properties is inductive: `Stop`
lets go of a scheduler in a step of its own, so one needs to know where the owner can be given the
engine's fields and the store (`OwnerInv`), and that a goroutine which is alive belongs to the current
scheduler, has sent no result and has its job to itself, while one that has returned was asked to or lost
its context, and has sent its result (`SchedulerInv`). The proof is for any `MaxStarts`.

| Theorem (`FileStoreProofs`) | Invariant it comes from |
|---|---|
| `TypeCorrect` | `TypeOK`, whose `MutexWorks` is what the mutex guarantees; inductive by itself |
| `ImplementsContractHolds`: `Spec => ImplementsContract` | `StoreInv` and a step simulation |
| `PurgeIsThoroughHolds`: `Spec => PurgeIsThorough` | `StoreInv` |

`StoreInv` adds to `TypeOK` that a goroutine is where its call allows (`CallInv`), that a `Set` about to
write finds the file it truncated and a `Purge` about to remove finds an expired one (`FileInv`), and that
a goroutine has a victim only while it is about to remove it (`VictimInv`). The last is what
`PurgeIsThorough` needs: `Look` puts the expired file it finds in the place of the victim, and so would lose
one that was still there. The refinement goes action by action: `Truncate` is the abstract store's
`SetTakes`, `Write` its `SetRefreshes`, `WriteFails` its `SetTears`; `Get`, `Exists`, `Touch` and `Delete` take effect
in one step, for which the proof needs that nobody else is writing (`MutexWorks`), so that `Contents` and
`file` agree; `RemoveVictim` removes one expired entry; `Lock`, `RLock`, `ReadDir` and `Look` are
stutters; `Tick` and `Crash` commute with `Contents`, a crash between truncating and writing being the
abstract `Crash` that tears the value. It is for any goroutines, ids, values and `AgeLimit`, with faults
or without.

| Theorem (`CookieRotationProofs`) | Invariant it comes from |
|---|---|
| `TypeCorrect` | inductive by itself |
| `SessionsSurviveRotationHolds`, `NoneOutlivesMaxAgeHolds` | `RotationInv` |
| `FreshCookieIsAccepted`, `PeerTakesCookie`, `OldCookieIsRefused` | none: facts about `SignedCookie` alone |

`RotationInv` is `TypeOK` with four parts. Servers are at most one stage apart (`InStep`), so that what one
signs with all of them hold. A cookie's timestamp is that of its signing, less a second at most and
plus the skew (`Dated`). A version that no server signs with any more has not signed since `activated`
(`SignedBefore`), which with the operator's wait gives that the key of every cookie that has not outlived
`MaxAge` is known to all servers (`KeysInHand`). It is for any servers, clients, keys, rotations and
clocks. `FreshCookieIsAccepted` says of *any* configuration that a server accepts its own cookie for
`MaxAge` less a second, with the two exceptions the code has: no key is active, or a negative version is,
which `activeCookieSecret` signs with and the decoder refuses. `PeerTakesCookie` says the same of *any two*
configurations, as an equivalence: within that time a server takes what another signed exactly if it has
the signing key under the same version, which is not negative, or has no keys and so checks nothing.
`OldCookieIsRefused` is the other side: a server with keys never takes a cookie older than `MaxAge`, nor
what a server without a usable key sends.

| Theorem (`ResponsesProofs`) | Invariant it comes from |
|---|---|
| `TypeCorrect`, `InOrderGivenHolds`, `LoggedIsSentHolds`, `CookieIsSentHolds` | `ResponseInv` |

`ResponseInv` is for chains of any length and any statuses. It begins with the invariant of `Chain`'s loop
(`ChainInv`): what has been made so far is the end of the list that is not left to do, in the order of the
list, around the handler; so when the loop is over the layers are those given, and the handler innermost
(`ShapeInv`). Nothing has happened until the request arrives (`NothingYet`). Then layers are entered
inwards, one by one, and once one of them has concluded they are only left (`PlaceInv`, `EnteredInv`): with
`ShapeInv` that is `InOrderGiven`. The loop is modelled round by round, and not as a fold of its own,
because what a fold computes for lists of any length needs induction over data. The
other two are about who wrote when. Only entered layers write, a status is sent only if one did, and a
layer of this repository has not written while it may still call the next one (`WritersInv`). So what the
wrapper of a `Logging` layer recorded is the status sent, or 200 until there is one, as long as all writers
are inside it and no second status is given (`RecordInv`), and a layer that was left, other than by a panic, has logged just that
(`LogInv`). `LoggedIsSent` looks at the end only and is not inductive: nothing in it says that a layer which
has not been left yet has recorded the right status. `CookieInv` is inductive with these: the header of a
new session is set before anything inside `Sessioned` can write, so that a status that goes out without it
was given by a layer outside.

| Theorem (`TestRunnerProofs`) | Invariant it comes from |
|---|---|
| `SettingsLastAsMarkedHolds`, `MethodIsRestoredHolds` | `RunnerInv` |

`RunnerInv` says that the runner's settings are those the test wants and its marks those the test made
(`AsWanted`), that a request in flight was made from these settings (`RequestIsMade`), and that the method to
come back to is at hand while a verb is in progress (`MethodIsKept`), which `MethodIsRestored` alone does
not say. It is for any methods, paths and number of header entries.

Only model-checked: liveness (`Drains`, `StopReturns`, `CallsReturn`, `ShutdownHappens`), which depends on
fairness and is out of the prover's reach. Of `StopReturns` and `ShutdownHappens` the safe parts are proved
(`ResultIsComing`, `RequestIsKept`); for `CallsReturn` it is `MutexWorks`, in the `TypeOK` of `FileStore`.
Every invariant and action property that a passing run checks is a theorem, and so is the refinement.

## Where the code and its documentation disagree

Each of these runs checks one property and TLC refutes it with a behaviour of the code. `PROJECT.json`
quotes the lines on both sides.

| Run | Property | What happens |
|---|---|---|
| `destroyed_id_revived` | `InvalidatedIsRefused` | a request past its check when another destroys the session stores the id again; the old cookie is accepted |
| `expired_session_revived` | `ExpiredIsReplaced` | between expiry and the next purge the session is accepted, and its age reset |
| `disabled_engine_serves` | `DisabledStoresNothing` | `Enabled` is compared with the address of a fresh variable: only nil disables |
| `fraction_of_a_second` | `GracePeriod` | `time.Duration(0.5) * time.Second` is 0: active requests are cut at once |

The models contain these too, described here and without a run of their own:

* An id that `FileStore` rejects, the empty one of an empty cookie included (`middleware/session.go:62-64`
  lets it through when there are no keys), gets status 500 each time (`middleware/session.go:132`,
  `file.go:251-254`), and its cookie is not replaced, though the comment at `middleware/session.go:122-123`
  counts invalid ids among those replaced. Action `Refuse`.
* A file deleted between `Purge`'s `ReadDir` and its turn, or any other error of `Info`, ends the sweep
  (`file.go:205`), and expired files behind it stay until the next purge. Action `LookFails`.
* A signal during `BeforeStartFunc` is caught, but nobody reads it before the hook returns
  (`server.go:162-190`): a hook that waits for its context waits for ever. Constant `BeforeWaits`.
* After `Stop` returned the error of the scheduler's `Run`, a second `Stop` blocks for ever
  (`store.go:236`), as described under `StopReturns` above.
* `Logging` shows another status than the one sent if a handler writes a body and then a status
  (`http.go:52`; the handler of `http_test.go:33-35` does), or two statuses. Condition `overruled`.
* Without `CookieKeyVersion`, servers restarted one by one refuse each other's new cookies
  (`middleware/session.go:99`). `CookieRotation` restarts them together in this case.
* A negative `CookieKeyVersion`, or one that is not configured, gives cookies that are refused or empty
  (`signedcookie.go:137`, `middleware/session.go:91`). The exceptions of `FreshCookieIsAccepted`.
* `clearValues` of the test runner is never raised, so URL values stay until `Clear`; a body is an
  `io.Reader`, so a second run without `WithBody` sends none.

## Assumptions and limits

* `NewId` never repeats an id (`Unissued`): its randomness is out of a model checker's reach. What would
  break without it is what the faulty variants `IssueRepeated` and `NotStored` show.
* `schedulerok` dispatches its job without overlap, lets a running job end, and returns a result once.
  `net/http` keeps its documented contract. `Fatalf` ends the process.
* One goroutine owns `Start` and `Stop` (the engine's fields are not synchronised); `Run` is called once
  per server, and nobody replaces the Context of a server that `NewGracefulServer` made; one `FileStore` instance per directory.
* In `Sessioned` a cookie "verifies or not"; which do is the subject of `CookieRotation`, which in turn
  takes every session to be in the store. Stale cookies with a valid signature (`StaleIds`) are included.
  A client's jar holds only its own cookies.
* A MAC verifies exactly if the secrets agree; hex, base64 and field lengths are left out. The maps of the
  engine's properties do not change while a server runs.
* A rotation waits for all servers between its steps and for `MaxAge` before it drops a key: what the
  documents ask of the operator.
* `Responses` has one request, since requests share nothing there; `Sessioned`'s store calls in it just
  fail or succeed.
* The test runner has one user, and a request is sent and answered in one step.
* Encoding is a bijection except for torn values, which do not decode. A torn write is one that does not
  decode; that a prefix of a session's encoding might decode is left out.
* In `Sessioned` a request's id comes with its cookie; the context plumbing (`SessionFromContext`) is
  lookup without state.
* Not modelled, with no behaviour to check: setters and options, formatting of log lines, the demo
  program, `FileStore.Start`'s directory checks, `BodyAsString` and `BodyAsJson`.
* No module composes the engine's lifecycle with the requests, because in the code they do not meet:
  `Stop` of both stores does nothing, no operation asks whether the engine was started, and nothing in the
  repository ties `Stop` to a server's shutdown. What the lifecycle does to sessions is when `Purge` runs,
  and `Sessioned` lets it run at any time.

## Plan

Done: the session core (`StoreOps`, `Sessioned`), the engine's lifecycle, the file store and its abstract
contract, the server, cookies and their rotation, responses, the test runner; as theorems, all their safety
properties and the refinement of the store's contract.

What is left, in the order of what it would add:

1. Two `FileStore` instances on one directory (two processes): the documents promise nothing between
   instances, so this waits for them to say what should hold.
2. Overlapping `Start` and `Stop`, and `Pause` beside `Stop`, for the same reason: the engine's fields are
   not synchronised (`store.go:251`).
3. A `Run` repeated on one `GracefulServer`, if the code comes to support it.
