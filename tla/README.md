# argent-lite in TLA+

Specifications, model-checking configurations and machine-checked proofs for
argent-lite, a small agent runtime in TypeScript for one Node.js process
(`src/src/`). Node runs one callback at a time, so everything that is hard
about this code happens at an `await`: between the step that reads a flag and
the step that relies on it, other requests, ticks, polls, timers and a
`shutdown()` may run. The modules make every stretch of code between two
awaits one step, and TLC and TLAPS look at all the ways to interleave them.

    tlc -workers 2 -config CircuitRouter.cfg MCCircuitRouter
    tlapm CircuitRouter_proofs.tla

## 1. The system

| Component | State | Operations | Talks to |
|---|---|---|---|
| Model router (`router/router.ts`, `policy.ts`) | registered providers | `register`, `route` (tries providers in policy order, within a retry budget) | providers, wrapped by the breaker |
| Circuit breaker (`router/circuit-breaker.ts`) | per provider: closed with a failure count, open since, half-open | gate, success, failure | wraps what the router registers; shared by all requests |
| Other router decorators (`rate-limit.ts`, `cost-policy.ts`, `health.ts`, `instrumented-router.ts`, `memory-router.ts`) | token bucket; metrics; one event per route | `route` | the router they wrap, the metrics, the memory store |
| Scheduler (`scheduler/scheduler.ts`, `task-queue.ts`), concurrent variant (`concurrent.ts`) | queue by `runAt`, agents, runs in flight | `enqueue`, `tick`, `stop` | `agent.start()` |
| Agents (`agents/`) | `init`, `running`, `suspended`, `stopped`; the promise of `run()` | `start`, `suspend`, `resume`, `stop`, `onMessage` | router, satellite client, bus |
| Message bus (`agents/message-bus.ts`) | subscriptions | `send` (synchronous), `subscribe` | everyone |
| Runtime seam (`integration/runtime.ts`) | its two subscriptions, the agent, the store | boot, `shutdown` | all of the above |
| Channels (`channels/`): CLI, HTTP, file watch | readline; open requests with mailbox and timer; file offset and residual | `start`, `stop`, prompts in, replies out | bus |
| SQLite store (`memory/sqlite-store.ts`) and decorators (retention, encryption, telemetry) | promise chain, closed flag, two tables | `get`, `set`, `list`, `append`, `query`, `close` | `node:sqlite` |
| Satellite (`satellite/`) | none but the requests under way | request with timeout and retry, server, HMAC | HTTP |
| Kiosk (`kiosk/`) | idle, listening, thinking, speaking; SSE clients | `talkStart`, `talkEnd`, `interrupt`, status events | capture and speech |
| Credentials (`auth/`) | an encrypted file | `get`, `set`, `remove`, rotation | file system |
| Observability (`obs/`) | counters, histograms; a rotating log file | `observe`, `snapshot`; `write`, `end`, rotation | the instrumented router; file system |
| Setup wizard (`cli/init.ts`) | none but its answers | `runInit` | credentials, the gateway's profiles, the config file that `loadConfig` reads |
| Intents (`intents/`), configuration (`config/`), providers (`providers/`), CLI (`cli/`), settings UI (`ui/`), demos, `deploy/pi-dashboard`, `scripts` | little or none | parsing, formatting, HTTP calls, processes | - |

How a prompt travels: a channel puts a `prompt` message on the bus; the seam's
subscriber of `router` logs it (`channel.in`, not awaited) and calls
`agent.onMessage`; the agent awaits the router (which logs `router.out` or
`agent.error`, awaited) or the satellite; the reply goes back over the bus to
the channel and to the seam's subscriber of `cli` (`channel.out`, not awaited).
All rows go through one promise chain of the store. `shutdown()` unsubscribes,
stops the channel, aborts the agents, awaits the scheduler and then the store.

What is hard in it, by component (each is a hazard in PROJECT.json, at its line):

* **Router.** The circuit of a provider is shared by concurrent requests, and
  the outcome of a call may come long after the circuit has moved on. Correct:
  it opens exactly after `threshold` failures since the last success, and a
  provider that failed that often is left alone for the cooldown.
* **Scheduler.** `dispatch` looks at the agent's state, `start()` may throw, a
  run holds its slot for as long as the agent lives, a `throw` in the middle of
  `tick` forgets tasks. Correct: bounded slots, one start per agent, tasks in
  order, `stop()` settles, and says so only when nothing runs.
* **Store.** Operations are not awaited by their callers and `close()` is
  called in the middle of them. Correct: every operation takes effect once, in
  the order of its invocation, and none that came before `close()` is refused.
* **Runtime seam.** Rows of one prompt are written by three parties, and
  `shutdown()` overtakes them at every stage. Correct: the log is causal and
  agrees with what the user saw.
* **File watch.** Polls cut the input at any byte, and `stop()` comes while a
  poll is out. Correct: each line once, whole; none after `stop()`.
* **HTTP.** Late, repeated and missing replies, timers, clients that hang up.
  Correct: one answer for each request, its own; nothing left behind.
* **Kiosk.** Each button is a request of its own whose handler awaits the
  microphone or the speaker and then sets the state, whatever others did since.
  Correct: it listens for the latest session only, it does not stay at thinking,
  and the ticker runs exactly for the pages that are there.
* **Satellite.** An attempt may be lost before or after the server has it, and
  is repeated under the same id. Correct: an answer that came through is not
  asked for again, a client gives up only when its attempts are spent, and a
  request settles.
* **Credentials.** Each operation reads, changes and writes the whole file, and a
  rotation writes twice. Correct: calls that nothing overlaps do what they say,
  and no timestamp vouches for a secret that was not written.
* **Configuration.** Three partial sources over defaults, with fields that come in
  pairs. Correct: field by field the topmost source decides, and what is rejected
  has a cause.
* **Setup wizard.** It saves keys, then syncs the gateway, then writes the config,
  and may be refused or killed in between and run again with another master key.
  Correct: what it leaves loads, the keys it asked for are saved and readable, and
  earlier ones survive, unless a save is cut off while the vault is emptied and filled.
* **File sink.** A write that does not fit waits for a rotation of several awaited
  calls, each of which may fail, and the process may end between any two. Correct:
  the files, oldest first, hold the chunks in order and none twice, however
  often rotations were torn; only the oldest file is ever given up; every write
  settles.
* **Rate limit, metrics.** The bucket is refilled in as many pieces as there are
  requests, in doubles, from a clock that may be set back; samples wrap round a ring.
  Correct: no stretch of time lets more through than burst and rate allow, a caller
  that waits as long as it was told is let through (in fact a rounding may cost it one
  millisecond more), the ring holds the newest samples.
* **Retention.** What is hidden depends on what a limited query shows.

## 2. Modules

| Module | Models | EXTENDS |
|---|---|---|
| `ProviderPolicy` | `selectProviders` | - |
| `CircuitRouter` | `ModelRouter.route` over `withCircuitBreaker` | `ProviderPolicy` |
| `TaskQueue` | the priority queue, with the binary search as written | - |
| `Scheduler` | scheduler and agents' life cycle | `TaskQueue` |
| `ConcurrentScheduler` | the isolating scheduler, beside `Scheduler` over the same state | `Scheduler` |
| `AtomicStore` | what a memory store promises (abstract) | - |
| `MemoryStore` | `SqliteMemoryStore`; implements `AtomicStore` | `AtomicStore` |
| `Runtime` | the seam: CLI channel, bus, agent, memory log, store's chain, shutdown | - |
| `FileWatch` | `FileWatchChannel` | - |
| `HttpChannel` | `HttpChannel` | - |
| `Channels` | a program with a channel of one class or the other | `FileWatch`; an instance of `HttpChannel` |
| `SegmentedLog` | what a rotating log promises (abstract) | - |
| `FileSink` | `FileSink`; implements `SegmentedLog` | an instance of `SegmentedLog` |
| `MeteredRouter` | `instrumentRouter` around `withRateLimit`, the histograms of the metrics | - |
| `Observability` | a program with the log sink or the metered router | `FileSink`; an instance of `MeteredRouter` |
| `Kiosk` | talk handlers and kiosk server | - |
| `Satellite` | both clients, both servers, the network | - |
| `CredentialStore` | `withRotation` over the file backend | - |
| `ConfigLoader` | `loadConfig` | - |
| `InitWizard` | `runInit`, then `loadConfig` on what it leaves | `ConfigLoader` |
| `Retention` | `withRetention`: `append` and `query` | - |
| `MC*` | the small instances of each | the module |
| `SequenceLemmas` | lemmas the proofs share: induction over numbers and sequences, folds, chains | `TLAPS` |
| `CircuitRouter_proofs`, `Scheduler_proofs` (both classes), `Runtime_proofs`, `Satellite_proofs`, `Observability_proofs` | theorems and their proofs | the module, `SequenceLemmas` or `TLAPS` |
| `Stores_proofs` | theorems on what is stored | `MemoryStore`, `CredentialStore`, `InitWizard` |
| `Channels_proofs` | theorems on file watch, HTTP and kiosk | `Channels`, `Kiosk` |

Where one proof module extends several components their names are kept apart by a
prefix (`CredentialInit`, `KioskSpec`, `loaderVars`).

Operators named `X_Something` after an action `X` are variants of `X` with a
plausible mistake; no specification uses them. Each is what `mutants` in
PROJECT.json puts in the place of `X` to see that a property notices.

### CircuitRouter

A request (`pc`) is `idle`, `calling` a provider, at `next` between two attempts,
or `done`/`failed`. `Route` takes its snapshot of the provider order and makes
the first attempt in the same step, because the code does not await in between;
`Succeed` and `Fail` are the two outcomes of `provider.complete`, with
`onSuccess` and `onFailure`; `Continue` is the next turn of the loop. A refusal
by the gate takes the same path as a failure, as `CircuitOpenError` does.
`streak` and `lastFail` are history: they record what the provider did, and
`OpenIffEarned`, `CircuitInv` and `LeftAloneAfterFailures` compare the circuit
with it. `SelectProviders` gives an order by its elements and their ranks, which is
what a stable sort of a list without repetitions comes to. While half-open the breaker lets *every* request through, not one
probe; the model does too, and `LeftAloneAfterFailures` is the promise that
remains true.

### TaskQueue and Scheduler

`tick` has no await, so it is one action. `Known`, `Free` and `Dispatched` say
how far its loop gets; the tail is deferred, or lost when an unknown agent makes
the loop throw. The model inserts by counting and puts a deferred tail in front;
`DeferralKeepsOrder` shows that the code's binary search and its re-enqueueing do
the same in every reachable queue. A dispatched task is `waiting` (it awaits the
run it started), `resolving` or `rejecting` (its promise settles at the next
microtask), then `resolved` or `rejected`. `RunEnds`, `Suspend`, `Resume` and
`StopAgent` are the agents' life cycle, which the scheduler does not control.
`AgentState` also has `ready`, which the code never assigns.

`ConcurrentScheduler` has the other class, over the same variables: `class` says
which one a program has made. It calls `start()` whatever the agent's state and
forgets what that throws, so that a task is `waiting` or `resolving`, never
`rejecting`; `stop()` awaits all of them with `allSettled`. It loses the tasks
behind an unknown agent like the other one.

### AtomicStore and MemoryStore

`AtomicStore` is what callers may rely on: an operation takes effect at one
instant after its invocation; a closed store refuses, but never an operation
that came before the first call of `close()`. `MemoryStore` is the promise chain.
A link of the chain runs in one step because `node:sqlite` is synchronous. A
value is named by the `set` that wrote it, a key stands for an `(agent_id, key)`,
and a query returns the set of event ids. `ReadsSeeEarlierWrites` says more than
the abstract specification: effects happen in the order of the invocations.

### Runtime

A handler is a pair of a prompt and the subscription that called `onMessage`: the
seam's or the agent's own. `Line` delivers a prompt to both in one step, as the
synchronous bus does. A route is its outcome only. The store is its chain; that
the chain is atomic, in order and kind to early operations is what `MemoryStore`
shows. `shutdown()` is four actions, one for each stretch between its awaits.
Nothing in the repository enqueues a task for the agent yet; `StartAgent` is
there because `Runtime.scheduler` is public, and with it a prompt is handled
twice.

### FileWatch

The input file is a sequence of bytes; `Symbol` decodes a chunk the way
`Buffer.toString("utf8")` does, with one character of two bytes to be cut in
half. A poll is a stat and a read with an await each. `FileHandle.close()` waits
for the calls that are out and refuses new ones, which is why `InCloses` needs
`Idle` and `StatReturns` may be rejected while closing (the promise of `poll()`
has no handler: Node would end the process, the model goes on). `ReadReturns` goes to the
end of the loop over the lines, which has no await, or to where a subscriber calls
`stop()` or throws out of `bus.send`: then the lines behind are `lost` and the poll is
rejected, with the offset already behind them. `Grow` and
`Truncate` are other programs. `start()` is one step because its caller awaits it.

### HttpChannel

A request is `reading` its body, `open` once dispatched, then `answered`;
`writes` is the history of what was given to `writeJson`. A reply reaches every
subscription of its mailbox that is not settled. `bus.send` may throw after the
subscription and the timer were made (`threw`): the catch answers 400, and the
timer or a reply writes a second answer later.

### Channels

`Channels` and `Observability` are sums: a behaviour is about one of two parts and
the other one never moves, which the variable `id` or `part` says. The parts share
no state, so that nothing is learnt from interleaving them.

### SegmentedLog and FileSink

`SegmentedLog` is a set of segments, each a set of chunks with a size. A chunk is
written behind all others, into the newest segment or one of its own; the oldest
segment may be dropped as a whole when there are `MaxFiles` of them, less one
for each rotation that was cut short.

`FileSink` has the Writable and `rotate()` as the code awaits them: `StreamEnds`,
`Unlink`, a `Rename` for each name, `Reopen`. `file[0]` is `path`, `file[i]` is
`path.i`; a file that is not there and an empty one are the same. A chunk is
numbered in the order of `write()`. `RotationFails` is any error of these calls but
ENOENT: the callback of `_write` gets it and Node destroys the Writable, so that
what is queued or written later is lost. `Crash` ends the process in any state and
`Restart` is the constructor, which counts what is in `path`. A torn rotation leaves
a gap among the names, which the next rotations move on until it is at the end:
each costs at most one file of room, and that is all they cost.

### MeteredRouter

Time is in milliseconds, and rate and burst are in thousandths of a token, so that the
rate is what a millisecond adds. The code reckons in doubles, piece by piece: the bucket
is kept in units, of which `Grain` are a thousandth, and each refill, and the deficit
that a wait is made of, may be off by one unit (`Roundings`), so that what is refilled in
pieces need not add up to what is refilled at once. All that is assumed of a rounding is
that it is no more than a unit and that all those of a behaviour together are less than a
thousandth (`MaxRoutes < Grain` in `MeterAssumption`; with a burst of one token a double
gives some 10^12 refills). `Token` is one token, `Full` the burst and `Speed` what a
millisecond adds, in units. A request is refused or
`inner`, in the router that is wrapped, and its latency is observed either way.
`SetBack` corrects the clock, after which `refill` adds nothing until it has caught
up. `Ascending` is the sort of a snapshot: its i-th sample is the one with fewer than
i below it and at least i not above. `admitted`, `observed` and `promised` are history:
`promised` keeps for each caller the earliest time it was told, however often it or
others are refused after that, until somebody is let through or the clock is set back.

### Kiosk

A call is one POST: `new`, waiting for the hook it is named after, `answered`.
Hooks settle in any order and may fail; no handler cancels the hook of another.
`session` is history: which `talkStart` was accepted last, and whether it was
ended or has failed. A page is in `clients` from its request for `/events` until
it closes or `stop()`; `shown` is the last status written to it.

### Satellite

Each attempt is an exchange on the `wire` of its own: `travelling`, `running` in
the handler, lost, or its reply. `seen` is what became of the attempts as the
client saw it, so that an attempt that timed out may be running at the server
while the next one is on its way. A reply is the answer to the request, an answer
with another id, a refusal (401) or a 5xx. The runtime client retries what failed
and 5xx, and takes any answer that decodes; the plain client retries what failed
and compares the id; `ping()` of the runtime client looks at the status only.
`sender`, `server` and `agreed` (the same secret on both sides) are chosen once.

### CredentialStore

`set`, `remove` and `markRotated` are sequences of inner operations, each a
`Load`, a `Truncate` and a `Fill` of the file with other calls in between.
Values are named by the call that writes them. `promised` is what the file should
hold if the calls since all was quiet were taken one by one; `mixed` says that
they were not. The check of `remove` for an old timestamp is folded into the
`Load` of its second operation: whether that finds one decides either way.

### ConfigLoader

A patch says of each field its value or nothing, and which pairs it mentions; only
a file can mention a pair without setting a field of it. What a source looks like
as text is left out: it is malformed, or it is its patch. `Parse` and `Merge` each
take the sources from the file over the environment to the command line.

The values of a source are tagged with it, because no code compares two values.

### InitWizard

A run of the wizard goes from prompt to prompt: `Begin`, `ChooseProviders`, `AskKey`
for each cloud provider, `MasterKey`, `SaveKey` and `FillVault` for each key,
`SyncGateway`, `LinkSatellite`, `OpenConfig` and `FillConfig`. An answer it does not take
ends it (`RefuseAnswer`), and so does `Kill`, which is also an error of a write, at any
step. `store.set` reads the vault and empties it (`SaveKey`), `draft` being what it has in
mind, and fills it: a kill in between leaves an empty vault (`NoVault`), which the next
run takes for a new one, or a part of one (`TornVault`), which no master key opens; `cut`
is the last run in which that happened. A kill between the two steps of the config leaves
it malformed. `SyncGateway` is one step, as nothing reads the gateway's file here; it may
be skipped, do its work or fail and leave the file empty, which the wizard lets pass. An API key is the number of the run it was typed in, a master
key that of the run which generated it. `Written` is the file as `loadConfig` parses
it, so that a provider the schema does not know would make it malformed. `StartLoad`
hands over to the steps of `ConfigLoader`; its other initial states have no wizard
and any three sources.

### Retention

An event is its timestamp. `append` is two steps, the append of the store and the
search for what to evict among the newest `QueryLimit` events.

## 3. Runs

| Run | Checks | Bounds |
|---|---|---|
| `CircuitRouter` | `OpenIffEarned`, `LeftAloneAfterFailures`, `ExhaustedBeforeFailing`, `EveryRequestSettles` | 2 requests, each followed by others, 3 providers, 1 retry, threshold 2, cooldown 1, clock to 1 |
| `Scheduler` | `InFlightBounded`, `RunsAreAwaited`, `DeferralKeepsOrder`, `NoOvertaking`, `LostOnlyBehindUnknown`, `StopEndsInOrder` | both schedulers; 3 tasks, 2 agents, 2 slots, clock to 1 |
| `SchedulerStopEarly` | `StopAwaitsInFlight` - violated | the same |
| `MemoryStore` | `ReadsSeeEarlierWrites`, `ImplementsAtomicStore` | 2 sets and a get of one key, 2 appends of one id, a query, 2 calls of `close()` |
| `Runtime` | `CausalLog`, `PrintedIsRecorded`, `OnlyLateRoutesRefused`, `ShutdownSettles` | 1 prompt with 2 handlers, 3 modes |
| `Channels` | of the file watch `EachLineOnce`, `NoPromptAfterStop`, `LinesArrive`; of HTTP `OneAnswer`, `NothingLeftBehind`, `PromptsAreAnswered` | files to 3 bytes, 2 starts, 1 reply, 2 poll slots; 2 requests, 3 replies each |
| `Observability` | of the sink `ReadsInOrder`, `ImplementsLog`, `WritesSettle`; of the router `AdmissionBounded`, `WaitAndOneMoreSuffices`, `WindowIsNewest` | 8 chunks of 1 to 4 bytes, 3 files of 3 bytes, 2 restarts; 2 callers with 4 requests, 250 tokens a second, burst 1.5, 5 units in a thousandth, clock to 4 and set back once, rings of 2 |
| `Kiosk` | `ListeningIsLatest`, `ThinkingEnds`, `StreamsCatchUp` | 4 calls, 2 pages |
| `Satellite` | `RepeatedOnlyForLost`, `OutcomeIsEarned`, `RequestsSettle` | 1 request, 2 retries, each client, server and secret |
| `CredentialStore` | `AloneIsExact`, `TimestampVouches` | 2 callers, 2 providers, 3 calls of `set` and `markRotated`, any of `remove` |
| `InitWizard` | `LoadFollowsSources`, `WrittenConfigLoads`, `SelectedHaveKeys`, `KeysAreKept` | two fields with a default, one without, a pair; 2 runs of the wizard, 3 providers |
| `RetentionCap` | `EventsAreCapped` - violated | 5 events, cap 3, limit 2 |

Why these bounds are enough. A request may be late while the other one, coming
again and again, opens the circuit, meets it open, probes it and closes it; the
clock lets a circuit open, be half-open one tick later and open again, and a late
failure extend it; three providers and two attempts let the budget run out first. Three tasks
for two agents on two slots give a task that shares its agent's run, a slot held
by a long run and a tail to defer. Two sets and a get give an order to get wrong,
two appends of one id a link that fails in the middle. One prompt in the seam
has two handlers, with rows of one behind the rows of the other. Three bytes hold a line that
three polls cut in pieces, or two lines in one read; the second slot for polls
exists so that an overlap would be seen. Two HTTP requests give two mailboxes to
confuse, and three replies one that is late. Eight chunks make two rotations after
each restart, among them a chunk that is larger than a file may be; three names are
the fewest with a rename in the middle, and two restarts let a second rotation be
torn while the gap of the first is still there. A quarter of a token in a millisecond
makes a wait of two, within which both callers are refused, so that it is refilled in
pieces: these bounds are enough for a caller to be refused at the very time it was told,
which the property allows, and a millisecond later none is; four requests take the burst,
are refused and wait, and their samples wrap a ring of two. Four calls of the kiosk give
a session that fails while the next one is on (start, interrupt, start, end). Satellite
requests share no state, so one is enough; three attempts leave one in the middle.
Two callers of the credential store overlap in every way, and three calls give a
second rotation of the same provider after a crash. A field of each kind and three
sources are all that `loadConfig` treats differently; two runs of the wizard let the
second one meet the files of the first, with its master key, another or none; the
three providers are one without a key, one with a key that the schema knows and one
that it does not. The theorems of section 5 state the safety properties of every run that
passes, for all values of the constants.

The `MaxClock`, `MaxFile`, `MaxStarts`, `MaxReplies`, `MaxMade`, `MaxRuns`, `MaxChunks`,
`MaxRestarts`, `MaxRoutes` and `MaxBack` bounds stop the clock, the writers, the caller,
the agent, the callers of the credential store, the operator, those who log, who
starts the process again, the callers of the router and the corrections of its clock; `Polls` bounds the overlaps a mistake could make. Every cfg
says `CHECK_DEADLOCK FALSE`, because each of these systems may come to rest: a clock
at its bound, all operations answered, a channel stopped for good.

Fairness is stated per action, and only where Node or the operating system gives
it: promise continuations run (`Continue`, `Settle`, the two `StopResumes`, the
`RunLink` of `Runtime`, the steps of `shutdown()`), timers fire (`TimerFires`,
`PollStarts`, `TimesOut`, the kiosk's `Tick`), file operations (those of the
file sink too, with or without an error), the kiosk's hooks and `close()` return. A provider call settles in `CircuitRouter`, where each provider's
HTTP call does; in `Runtime` nothing is assumed of providers or satellites, and
`shutdown()` ends all the same. An agent ends its run only once its context is
aborted. Users, writers, clients, the network, the satellite's handler, the callers
of the metered router and the router in it are never fair. The runs of the store, the credentials and the wizard check safety only.

## 4. Findings

1. `Scheduler.stop()` rejects at the first rejected run and leaves others in
   flight (`SchedulerStopEarly`), although the test says that `stop()` awaits
   in-flight tasks. A suspended agent with a due task is enough. In
   `shutdown()` the store is then never closed.
2. `withRetention` never enforces a cap above 100 over the SQLite store
   (`RetentionCap`): `append` looks for what to evict among the events of a query
   without a limit, which are the newest 100; the default cap is 1000. The test's
   store has no default limit.

Seen while modelling, without a run of their own:

* `SqliteMemoryStore.close()` is idempotent one call after the other only. Of two
  that overlap the second closes a closed database and fails: `closePc` reaches
  `rejected` in `MemoryStore`. `ops/projects/memory-lite-design.md` says that it is
  idempotent.
* A `router.out` row does not mean that a reply reached the channel, as
  `ops/projects/event-kind-vocabulary.md` has it: a route under way at
  `shutdown()` writes the row and finds the channel unsubscribed. In `Runtime` a
  handler is then `replied` and not in `printed`. With
  `echo prompt | argent-lite chat`, the end of stdin is such a shutdown.
* A poll of the file-watch channel that ends inside a multi-byte character
  delivers a line with two U+FFFD in its place: with `TwoBytes` for `Bytes` and
  `MaxFile` 4, `EachLineOnce` fails.
* `interrupt()` during the `stopCapture` of `talkEnd` sets idle, and `talkEnd` then
  sets speaking all the same.
* The timer of the runtime satellite client does not cover the body: a server that
  stalls after its headers keeps `request()` waiting for ever.
* Overlapping calls of the credential store lose updates, and one that reads the
  file while another has just emptied it writes a file with nothing else in it.
* `loadConfig` rejects a port from the file with a host from the environment,
  although both are there once merged; `LoadFollowsSources` says so exactly.
* The wizard saves the key of a provider that the config schema does not know (groq,
  openrouter, zai) and lists ollama in its place when nothing else was chosen. It
  lists a provider whose key was dropped after a failed probe;
  `ops/projects/ui-and-onboarding-design.md` has it refuse to proceed.
  `SelectedHaveKeys` excepts the keys that were dropped.
* A run of the wizard replaces the gateway's profiles by its own keys: those of
  earlier runs are in the credentials file only.
* A rotation that fails once, for want of a permission or of space for the new name,
  destroys the log's Writable and emits its error: the process ends, as the logger
  does not listen for it, or every later line is lost until it starts again.
* `withRateLimit` takes a burst between 0 and 1 and then lets nobody through, ever;
  `WaitAndOneMoreSuffices` is about bursts of a whole token.
* The wait in a `RateLimitedError` may be too short by a rounding. At 10 tokens a second
  and with a burst of one, the bucket that others look into every 10 ms has ten times 0.1
  after 100 ms, in doubles 0.9999999999999999: a caller that was told 100 ms is refused
  once more. One look is enough at 40 a second: refused at 2 ms, told 23 ms, refused at
  25 ms. In `MeteredRouter` it happens too, and `WaitAndOneMoreSuffices` says that one
  millisecond more is always enough.
* A subscriber that throws on a line of the file-watch channel makes `bus.send` throw in
  the loop of `poll()`: the other lines of that read are never sent, and the rejected
  promise of `poll()` has no handler.
* A key of the wizard that is being saved takes the others with it when the process or
  the write ends within `writeFile`: the vault is then empty, and `loadSecrets` takes it
  for a new one. The gateway may then have keys of earlier runs that the vault has lost.
  `KeysAreKept` and `SelectedHaveKeys` except just that.
* A caller refused while the clock is behind the last refill is told a wait that does
  not count the time until the clock has caught up.
* `router.in` belongs to the vocabulary of events (`event-kind-vocabulary.md`, section 2),
  with `instrumentRouter` as its producer, and no code writes it.

## 5. Proofs

Every safety property of a run that passes is proved, for all values of the
constants, under the named assumptions of the modules (`ProviderAssumption`,
`RouterAssumption`, `SchedulerAssumption`, `StoreAssumption`, `RuntimeAssumption`,
`FileWatchAssumption`, `HttpAssumption`, `SatelliteAssumption`, `CredentialAssumption`,
`ConfigAssumption`, `WizardAssumption`, `SinkAssumption`, `MeterAssumption`). One
theorem has a hypothesis of its own, `LinesAreSentOnce`, see below.

| Theorem | States | Inductive invariant |
|---|---|---|
| `CircuitRouter_proofs!TypeCorrect` | `TypeOK` | itself |
| `!CircuitAgrees`, `!OpensWhenEarned` | `CircuitInv`, `OpenIffEarned` | `TypeOK /\ CircuitInv` |
| `!BreakerLeavesAlone` | `LeftAloneAfterFailures` | the same |
| `!BudgetIsExhausted` | `ExhaustedBeforeFailing` | `TypeOK /\ AttemptsInv` |
| `Scheduler_proofs!SchedulerTypes` | `TypeOK`, for both classes like all that follow | `SchedulerInv`: `TypeOK`, `InFlightFinite`, `QueueInv`, `StopInv` |
| `!NeverTooManyRuns` | `InFlightBounded` | with `SchedulerInv` |
| `!InTurn`, `!LostBehindUnknown` | `NoOvertaking`, `LostOnlyBehindUnknown` | `SchedulerInv` |
| `!DeferredInOrder` | `DeferralKeepsOrder` | `SchedulerInv` |
| `!StartedOnce` | `OneStarterPerRun` | with `SchedulerInv` |
| `!NoRunForgotten` | `RunsAreAwaited` | with `SchedulerInv` |
| `!StopsAfterRuns` | the safety part of `StopEndsInOrder` | with `SchedulerInv` and `RunsAreAwaited` |
| `Stores_proofs!StoreTypes` | `TypeOK` of `MemoryStore` | itself |
| `!EarlyOperationsRun` | `ClosersWaitForEarly` | with `TypeOK` and `ChainIsPending` |
| `!StoreIsAtomic` | `ImplementsAtomicStore` | step simulation under the same invariant |
| `!ReadsSeeTheirPast` | `ReadsSeeEarlierWrites` | `OrderInv` |
| `!CallsAreExact`, `!TimestampsVouch` | `AloneIsExact`, `TimestampVouches` | `CredentialInv` |
| `!ChosenHaveKeys`, `!SavedKeysStay` | `SelectedHaveKeys`, `KeysAreKept` | `KeysInv` |
| `!LoadFollows` | `LoadFollowsSources` | `Loading`: what has been merged follows the sources merged so far |
| `!WrittenLoads` | `WrittenConfigLoads` | `Loading` and `OwnFile`, what the wizard can have written |
| `Runtime_proofs!RuntimeTypes` | `TypeOK` | itself |
| `!LogIsCausal`, `!LogAgreesWithOutput`, `!TrafficIsNeverRefused` | `CausalLog`, `PrintedIsRecorded`, `OnlyLateRoutesRefused` | one invariant for all three, see below |
| `Channels_proofs!AnsweredOnce`, `!LeavesNothing` | `OneAnswer`, `NothingLeftBehind` | `HttpInv` |
| `!PollsDoNotOverlap` | `FileWatchInv` | itself |
| `!LinesAreSentOnce` | `EachLineOnce`, for single-byte characters | with `FileWatchInv` |
| `!SilentAfterStop` | `NoPromptAfterStop` | none: each action by itself |
| `!KioskTypes` | `KioskTypeOK` | itself |
| `!ListensToLatest`, `!TickerFollowsClients` | `ListeningIsLatest`, `TickerIffClients` | each with `KioskTypeOK` |
| `Satellite_proofs!AttemptsAreInOrder` | `TypeOK /\ SatelliteInv` | itself |
| `!OnlyLostAttemptsRepeat`, `!EarnsItsOutcome` | `RepeatedOnlyForLost`, `OutcomeIsEarned` | the same |
| `Observability_proofs!TypeCorrect`, `!InOrder` | `TypeOK`, `ReadsInOrder` | `IInv`, see below |
| `!SinkIsALog` | `ImplementsLog` | step simulation under the same invariant |
| `!RateIsBounded` | `AdmissionBounded` | with `Bucket` and `Accounted` |
| `!WaitIsNearlyEnough` | `WaitAndOneMoreSuffices` | `Phases`, `Bucket`, `Accounted`, `PromiseStands` |
| `!SnapshotsAreNewest` | `WindowIsNewest` | `Bucket`, `Accounted`, `Window` |

*Circuit breaker.* `OpenIffEarned` is not inductive: an open circuit says nothing
of how long it has been open. `CircuitInv` adds that it counts from the last
failure, and that a half-open circuit has waited its cooldown out. With it, a
call that starts towards a provider with a full streak starts through an open
circuit whose cooldown is over, or a half-open one, and both give the bound.

*Router.* That each provider within the budget was asked can be read off `verdict` only
because an order has no provider twice: else one verdict would stand for two places.
`SelectedOnce` proves it of every policy: `SortedOrder` counts, of a set with different
ranks, that each place is taken by exactly one element (`FilteredOrder` and `Joined`
do the rest). `AttemptsInv` then ties `idx` to the verdicts: those before it are in,
those from it on are not.

*Scheduler.* A tick cuts the queue into what it dispatches, what it defers or loses and
what stays (`CutsQueue`), and both classes do so (`TickCuts`, `ConcurrentCuts`), so that
the theorems are about steps of either one (`Steps`). `QueueInv` says that the queue has
every queued task once, sorted by time and then by arrival. From it `InTurn`: what is
dispatched is a prefix; and `LostBehindUnknown`: what is lost is behind the first unknown
agent among the due. A tick may add as many runs as there are free slots: the new
`InFlight` is a subset of the old one and the tasks sent, at most `Free` of them.
`OneStarterPerRun` is inductive with its last conjunct, that a run in progress is never
that of an agent still in `init`. `RunsAreAwaited` needs that a tick cannot touch a task
that awaits a run, and that the first task of a batch that names an agent is the one that
awaits the run it starts; with it and `StopInv` a stopped scheduler has no run going on.

`DeferralKeepsOrder` is about recursive functions: the binary search, and the fold of
insertions by which a deferred tail is put back. `SearchFinds` proves, by induction on the
width of the interval, that the search keeps the place it looks for between its bounds in
any queue that is in time; `RequeuedInOrder`, by induction on the tail, that inserting it
task by task into a queue that is later gives the tail in front of that queue.

*Store.* `Close` of the abstract store needs that no early operation is pending.
Each call of `close()` waits for the chain as it was; the invariant says that
every waiting call covers the early operations that are still in the chain, so
that it does not matter which call comes first. `RunLink` maps to `Apply` or
`Refuse`, the first `CloseCalled` to `AskToClose`, the first `CloseResumes` to
`Close`, every other step to a stutter. `OrderInv` adds that the chain is the rest of
the invocations (`ChainFollows`), that the tables hold what those before it wrote
(`TablesFollow`), and that what was read was right when it was read, which later
invocations do not change (`PrefixStays`).

*Credentials.* While no calls overlap there is one at most (`OneCall`), and what it still
has to do, done to the file or to the copy it is about to write, gives what was promised
(`OnTheWay`): so the file is as promised when nothing is going on. A crash drops the call
and promises what it leaves, a file that may be empty.
`SecretFirst` says that a timestamp is written behind its secret, also by the call that
has loaded the file and not written it.

*Setup wizard and configuration.* `KeysOnTheWay` follows a key from the prompt to the
vault: from `save` on each chosen provider has its key among the secrets or was dropped,
and a secret is still to be saved or in the vault. A vault with keys has a lock, which
is why a run with another master key is refused before it changes any. All of it is said
of `Stored`, the vault or what is on its way there, and a save that is cut off leaves no
keys and moves `cut` on, beyond every key the gateway may have of the
runs before. `LoadFollows` is proved along the steps of `loadConfig`: each has handled the sources up to its own, and
the topmost that says anything of a field is the last one merged (`TopmostSetter`).

*HTTP channel.* `OneAnswer` depends on `HttpInv`: mailboxes differ, a request that was not
dispatched has none and no timer, and one whose dispatch did not throw has been given an
answer exactly when it is answered. A late or repeated reply reaches no subscription that
is settled, so that it writes nothing.

*File watch.* `FileWatchInv` says that no two polls are out at a time and that the one
that reads does so where the channel has got to, in a file that has these bytes. With it
a read hands over the next bytes, and `SplitConcat`, proved by induction over the chunk,
says that splitting what was left and then the chunk gives the lines of both together.
That decoding a chunk does not depend on where it was cut holds for single-byte
characters only, and `LinesAreSentOnce` has that as its hypothesis: with others the
property is false (section 4). A line counts for it once the loop has come to it; that no
line is `lost` while `unhandled` is false is its third part.

*Runtime seam.* The log is causal because the chain is a queue: an entry in the
chain has its cause in the rows or before it in the chain. The invariant says so
for every position, adds that a handler under way has had its prompt logged, and
ties the `channel` and `log` subscriptions together, which come and go in the
same step. For `OnlyLateRoutesRefused` it says that once the store was asked to
close, what is behind the entries it waits for comes from routes only.

*Satellite.* `RepeatedOnlyForLost` says nothing of the attempt that comes next.
`SatelliteInv` does: while a request is active all it has seen has failed, fewer
attempts than it may make have, and nothing beyond the one under way was sent.
Every step of the server moves an exchange that was sent already, so that late
answers of attempts given up do not disturb it.

*File sink.* `ReadsInOrder` is not inductive: a rename could overwrite a file, or a
chunk could be written twice. `IInv` adds that the chunk in `_write` is the first
that is not written and no file has it (`FirstComesFirst`), that `this.bytes` is the
size of `path` but for the chunk on its way there (`BytesAgree`), and that the name
a file moves to is free (`TargetIsFree`). For the refinement, `Unlink` maps to
`Drop` or, when the last name is free, to a stutter; `Land` maps to `Write`, a
failure and a crash to `Break`, and a `Rename` to a stutter, because segments are
known by what they hold and no two files hold the same (`SegmentsApart`). That
`Drop` is allowed is an argument by counting: among the names below a file there
are no more gaps than rotations were torn, but for the one that a rotation under way
is moving (`GapsAreTears`), so that with the last name in use there are at least
`MaxFiles - tears` segments.

*Token bucket.* Tokens taken cannot be bounded without those that are left:
`Accounted` says that, since any request that was let through, the tokens taken and
those in the bucket do not exceed the burst and what the rate has added by the last
refill, but for a unit for each refill. A refill adds to both sides, or is cut off at the
burst; a token taken moves from one count to the other. `AdmissionBounded` follows for the
newest request, because the roundings together are less than a thousandth and both of its
sides are whole thousandths (`InThousandths`), and was true before of any older pair.
`PromiseStands` says, of every caller that was told a time, that the bucket will hold a
token when that time comes, but for a unit for each refill. A refill later than that adds
a millisecond's worth at least, which is more than all these units: so from the next
millisecond on the token is there, and stays until it is taken.

*Histogram.* `Window` gives each sample its place: those up to `writeIdx` are the newest,
the others are older by the length of the ring, which wraps only when it is full. A
snapshot reads from that place on, so that it has the newest in order (`ReadsNewest`).
That the sorted samples exist (`RankedExists`) and are in order (`AscendingOrder`) is an
argument by counting, and a larger rank interpolates to no smaller value (`BetweenGrows`).

*Induction.* The library's induction theorems take an operator, which no prover here can
instantiate. `SequenceLemmas` has them for sets: `UpTo` for numbers (a set of numbers
that has 0 and successors, from the well-foundedness of `<`) and `SeqUpTo` for
sequences. From these it proves that a fold exists and what it computes
(`FoldExists`), the same for iterations, and the facts on `Append`, `Tail`, `ToSet` and
chains that the proofs share. `SelectSeq`, `SortSeq` and `RECURSIVE` operators stay out
of the provers' reach; the modules do without them.

Model-checked only: the liveness properties, for which the prover has no rules under
fairness here (`EveryRequestSettles`, `StopSettles`, `ShutdownSettles`, `LinesArrive`,
`PromptsAreAnswered`, `WritesSettle`, `ThinkingEnds`, `StreamsCatchUp`,
`RequestsSettle`), and that the two runs of section 4 are violated.

## 6. Not modelled

* Providers, prompts and replies beyond their identity; formatting and parsing.
* SQLite itself, including its recovery from a crash; `InMemoryFallbackStore`,
  which has no chain and is synchronous.
* The processes the CLI and the UI start; the Python dashboard and the scripts.
* The counters of the metrics beyond their sum, and the logger: neither has a state
  that control depends on. Nor has `health.ts`, which asks each provider once.
  `cost-policy.ts` is a sort that nothing calls.
* The expiry of keys in `withRetention`.
* The intents router: the runtime registers one rule that always matches.
* A partial write: a chunk that a crash leaves half in the file counts as lost, and
  an error of the log's stream outside a rotation, which has no listener, as a crash.

`Scheduler` and `FileWatch` note an unhandled rejection in `unhandled` and go on,
where Node by default ends the process: what the models show after that is what a
process with a handler would do.

Actions of the environment (`Submit`, `End` and `Crash` of the sink, `Tick` and
`SetBack` of the clock, `Grow` and `Truncate` of an input file and the like) stand
for no lines of this repository.

## 7. Plan

What a next step would add, in this order:

1. `Retention`: the expiry of keys and a restart, which forgets both.
2. `CredentialStore`: an abstract map that the calls of one caller implement.
3. Pure functions against reference definitions: `selectProviders` over all
   policies and hints, the intents router.
4. Theorems about `Retention`: what its index holds of what the store holds.
