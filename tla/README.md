# whole-life runtime: a TLA+ verification project

This directory specifies, model-checks and proves properties of the local
runtime of *whole-life* (`whole_life/runtime/`): the code that starts a
provider CLI (Claude or Codex) as a child process for one turn, turns its
output into canonical events, ends it, and says how the turn went; and the
script that collects the evidence on which CLI versions are accepted
(`scripts/collect-conformance-evidence.py`).

Line numbers below are those of the repository's files, without the `src/`
that `PROJECT.json` puts before them.

## 1. The system

### Components, their state and their operations

| Component | Code | State it keeps | Operations |
|---|---|---|---|
| Run observer | `observe.py` | one per run: two drain tasks, a bounded queue, the first terminal event, the failure, the ledger and its breach, two ordering facts, the exit status, cleanup reasons | `events()`, `_read_stdout`, `_emit`, `cancel()`, `shutdown()`, `outcome()` |
| Process lifecycle | `lifecycle.py` | none; acts on the process | `terminate_process_tree` (taskkill), `terminate_process_only`, `TurnDeadline` |
| Delegation ledger | `delegation.py` | starts so far, workers live now | `worker_started`, `worker_finished`, `unresolved` |
| Outcome resolution | `outcome.py` | none | `resolve_outcome`: terminal event, exit status and ordering facts to a status |
| Provider adapters | `claude.py`, `codex.py` | the child environment built at construction, the version record of the last preflight, the runs it started | `preflight`, `start_turn`, `events`, `cancel`, `wait`, `close` |
| Launch path | `launch.py` | the active native sessions, the launch journal | `enforce_launch_safety`, `launch` |
| Spawner | `spawn.py` | none; creates the process and hands the prompt over | `spawn` |
| Stream readers | `streams.py` | partial line, stderr ring | bounded line reassembly |
| Event normalizer | `normalize.py` | none | provider record to canonical events, or a refusal |
| Preflight decisions | `preflight.py` | none | `conformance_for`, `decide_claude_auth`, `decide_codex_auth` |
| Child environment | `childenv.py` | none | `build_child_env` |
| Boundary values | `contract.py` | none | value classes |
| Conformance collector | `scripts/collect-conformance-evidence.py` | one document per version | `collect_claude`, `collect_codex`, `terminate_process_tree`, `main` |
| Broker, journal store, dossier | `docs/spec/whole-life-v0.md` | - | prose only: no code at this commit |

### How they interact

An adapter's `preflight` asks the CLI for its version and its sign-in, in the
environment the adapter built when it was made, and keeps the version record.
`start_turn` builds a plan from it, `launch` checks it, reserves the native
session and calls the spawner; the handle that comes back is recorded in the
journal and registered with a `RunObserver`. Whoever holds the handle iterates
`events()`; any other task may call `cancel()`, and `close()` calls `shutdown()`
on every registered run at once. The collector is separate: it runs the same
status commands and one turn in the same kind of environment, and what it writes
is the reason a version enters `SUPPORTED_VERSIONS`. All of the runtime runs on one asyncio event loop. The
parallelism is that of tasks interleaving at their awaits, of the child process
and its own children, and of the operating system that reports an exit some
time after it happened.

### What is hard in it

* **Interleaving at awaits.** A reader parked on a full queue, a consumer in
  `get()`, two cancellations and a `close()` act on one process and on one set
  of flags.
* **Ordering.** The provider's result, a stop and the exit status arrive in any
  order, and the first of the former two is to decide the turn; in two cases it
  does not (section 6).
* **Waiting.** `Process.wait()` entered before the exit was noticed is released
  only when every pipe is disconnected; a descendant that inherited a pipe, or a
  reader that left, can hold it. `get()` needs a sentinel from a task that may
  have been cancelled.
* **Partial failure.** taskkill missing, not startable, failing or late; one
  `shutdown()` of several raising; a child that exists before anybody holds a
  handle to it.
* **Limits.** The start that reaches a budget is legal and the next is not; the
  queue holds `maxsize` items and a put beyond that waits; a line of exactly the
  bound is legal, but one that ends in `\r\n` is not wherever the pipe cuts it
  (section 6).
* **What was checked is not what runs.** A version, a sign-in, an environment and
  a plan are judged at one moment and used at a later one; in between the broker's
  environment, the adapter's record, the account or the installed CLI may change.
* **Drift.** The CLIs change their records. One that is not understood must end
  the turn, and one that an ordinary turn writes must not.

Every such place is listed with its line in `PROJECT.json` under `hazards`,
with the properties that answer for it.

### What makes each component correct

These are the properties the runs check, with the limits within which they hold;
what the repository says beyond them, and the code does not keep, is in section 6.

* *Run observer*: no event is queued or handed on behind a committed result; a
  consumer told of the end has everything; a concluded run leaves no process, task
  or pipe of its own; a run that ends by itself is never killed; every cancellation
  returns or raises.
* *Outcome, ledger*: a stop before the result makes the turn unknown for ever; once
  the observation is over a completion is not taken back, and none passes over a
  worker nobody saw finish; what a caller is handed never exceeds the budget.
* *Adapter, launch, spawner*: no native session is in two launches, counting those
  whose spawn has not failed; the journal tells what ran; no launch after the latest
  preflight was refused; a close report is an upper bound of what its runs leave.
* *Gate, preflight, environment*: what starts has a decided directory, a measured
  version and countable workers, and uses the operator's subscription and nothing
  that outranks it. It has every read-only control when the adapter's own arguments
  are used: the gate does not look for them in those of a test.
* *Readers*: the lines handed on are those written, wherever a chunk boundary
  falls; a stream is refused for a line that is not UTF-8 or too long with its
  carriage return counted; buffer and ring keep their bounds.
* *Normalizer*: what a pinned provider writes is never refused, what has drifted in
  a field, name or block that is checked always is; the ledger counts the workers at
  work; no message is lost.
* *Collector*: what a Claude document says of bare mode is true of its build, and a
  Codex document whose collection met one build only; no turn is started before the
  sign-in of that moment was approved; no timeout is reported over a live probe.

## 2. Modules

| Module | Models | EXTENDS |
|---|---|---|
| `Outcome` | `outcome.py` and the value sets of a run | - |
| `DelegationLedger` | `delegation.py`; the ledger is a record value | `Outcome` |
| `RunObserver` | `observe.py` composed with ledger, outcome, the child process, asyncio's transport and the cancellation half of `lifecycle.py` | `DelegationLedger` |
| `Turn` | abstract: what one turn promises whoever waits for it | - |
| `RunObserverClaims` | statements of comments that the observer does not keep | `RunObserver` |
| `RunObserverProofs` | theorems: types, stops and verdicts of the observer | `RunObserver`, `TLAPS` |
| `RunObserverEndProofs` | theorems: what the end of an observation and a shutdown leave, and the refinement of `Turn` | `RunObserverProofs` |
| `RunObserverStreamProofs` | theorems: what the caller of `events()` is handed | `RunObserverProofs` |
| `Preflight` | `preflight.py`, `childenv.py`, the version table, and what the CLIs answer; operators only | - |
| `LaunchGate` | the plan, `enforce_launch_safety`, `decide_launch`, the delegation table; operators only | `Preflight` |
| `Runtime` | one adapter: `claude.py`/`codex.py`, `launch()`, `spawn.py`, `close_all_runs` | `LaunchGate` |
| `RuntimeProofs` | theorems about the adapter | `Runtime`, `TLAPS` |
| `Collector` | the conformance collector, the CLI it measures and the operator at the keyboard | `Preflight` |
| `CollectorProofs` | theorems about the collector | `Collector`, `TLAPS` |
| `Streams` | `streams.py`, both readers | - |
| `StreamsProofs` | theorems about both readers | `Streams`, `TLAPS` |
| `Normalize` | `normalize.py` as operators on records | - |
| `ProviderTurn` | a provider's turn through `Normalize` and the ledger, the loop of `_read_stdout` | `Normalize`, `DelegationLedger` |
| `ProviderTurnProofs` | theorems about a provider's turn | `ProviderTurn`, `TLAPS` |
| `MCRunObserver`, `MCRuntime`, `MCCollector` | instances for TLC | `RunObserverClaims`; `Runtime`; `Collector` |

`RunObserver` composes with `Turn` by refinement. `Runtime` is the next level
up: it sees a run as its child and its drain tasks, and takes from `RunObserver` the ways in which a `shutdown()` may end and the fact
that it does end (`StopReturns`, the justification of the fairness of
`Runtime`). `Streams` and `ProviderTurn` are the level below: what becomes of the
bytes, and of the records, before `RunObserver` sees an event or a corrupt line.
`PROJECT.json` maps every definition to the lines it stands for.

### RunObserver

One action is what one asyncio task does between two awaits, so what the code
does without awaiting is one step and every await is a point where others run.

| State | Code |
|---|---|
| `returncode`, `killed`, `streamsOpen`, `descendant` | the child: exit status *as the event loop has noticed it*, whether a kill reached it before, its pipe ends, and a child of the child, `holding` the inherited pipes or `detached` |
| `transportOpen` | asyncio's subprocess transport and our pipe ends |
| `stdoutTask`, `stderrTask`, `parked`, `cancelRequested`, `held` | the two tasks of `_readers`; `parked` is the item of a `put()` that waits; `held` is that `_readers` is not empty |
| `queue`, `terminal`, `failure`, `ledger`, `breach` | `_queue`, `_terminal`, `_failure`, `_ledger`, `_breach` |
| `consumer`, `seen`, `streamEnded`, `exitCode` | where the caller of `events()` is, what it received, `_stream_ended`, `_exit_code` |
| `cancelledBefore`, `cancelledAfter` | `_cancelled_before_terminal`, `_cancelled_after_terminal` |
| `cleanupFailure`, `reapFailure` | `_cleanup_failure` and the reason added for an unconfirmed kill |
| `stage`, `result`, `killerStatus` | each caller of `cancel()`/`shutdown()`: the await it is in, what it answered, how its taskkill ended |

The stdout task reads one line per step (`ReadEvent`, `ReadOverspend`,
`ReadAfterTerminal`, `ReadCorrupt`, `ReadEof`), waits on a full queue (`Put`,
`Unpark`) or is cancelled. The consumer takes events, ends, gives up or is
cancelled, and goes through the `finally` block of `events()` (`BeginCleanup`,
`Gathered`, `ReapChild`). A stop goes through the grace wait, taskkill or the
direct kill, the bounded wait after it and, for `shutdown()`, the cancellation
and collection of the drain tasks. `WaitReleased` models `Process.wait()`:
entered early, it needs the exit *and* the disconnected pipes; a wait that finds
the exit already noticed returns at once.

Modelling decisions:

* A line carries at most one event. A line of two is a line followed at once by
  another; what lies between them (a step of another task) is a superset.
* Every way in which a line is refused (length, UTF-8, JSON, schema) is
  `ReadCorrupt`.
* A depth the provider does not state is an event with an allowed depth, as
  `worker_started` treats it.
* A run without a delegation budget is one whose repertoire has no worker.
* A task cancelled while it is inside its own `finally` block is left out: the
  code gives no guarantee there and no caller of the repository does it.

### Preflight and LaunchGate

Both hold operators only, so that `Runtime` and `Collector` take the same
decisions as steps and the proofs can use them.

An environment is a function from names, and a name is what it upper-cases to
together with its spelling: `childenv.py` inherits by the exact spelling and
refuses by the upper-cased one. A version answer is an exit status and the version
its output names. A Claude status is its exit status, how its field names compare
with the pinned ones (`fields`: pinned, fewer, more, repeated, or no object) and
the four values that decide; a Codex status is its exit status and two streams.
What a CLI may answer is external: the pinned build tells the truth about the
account, and another build may answer in any other shape, with any values in it
(`ClaudeShapes`, `CodexShapes`).

`Requests` are the turns a broker may ask for, and `Spoiled` one of them with one
field gone wrong. `Refused` is `enforce_launch_safety`: each disjunct is one of its
statements. Which of several refusals is reported depends on their order, and
only the wording depends on that. A plan keeps the arguments as the set of those
that guard the turn.

### Runtime

`adapter` is what the constructor was given and built: the provider, the directory
(undecided, relative or absolute), the environment, and the argument vector a test
may have put into `turn_args_override`, any vector of the constant `Overrides`; an adapter that would hold a forbidden variable is not `Constructed`. `parentEnv` is the environment of the
broker's process, which may change afterwards. A preflight goes through `version`
and `auth` with an await after each; `found` is the record between the two,
`conformance` the adapter's own and `asked` the environment and the account the
accepted sign-in spoke of. `Disarmed` is the one difference between the adapters
that is no constant: Claude clears its record at the start of a preflight, Codex
does not. One preflight runs at a time: the code that would run several does not
exist yet.

`stage[t]` is how far `start_turn` has got with turn `t` and `plan[t]` what its
process is started with. `HandedOver(r)` is the plan of a request, with the adapter's
own arguments or those of the override, `Submitted` are those of all requests and
`Passing` those the gate lets through, an override without `--bare` among them. Gate, reservation and the call of the spawner are one
step (nothing is awaited between them), the process exists from `CreateChild`, and
until `HandOver` only the spawner knows of it. `Reserve`, `SessionRefuses` and
`Release` are `ActiveNativeSessions`; `journal` and `runs` are filled when the
handle comes back, whatever the adapter holds by then. `CleanupEnds` ends a failed
handover whatever became of the child, as the spawner does. `close()` copies the runs
in one step, its shutdowns return or raise one by one, and `Report` counts once all
did. `liveAtClose` remembers which children were alive when the close began: only a
shutdown that found one alive calls taskkill and can raise, and the child may have
ended by then.

### Collector

`installed` is the build the CLI's name resolves to and `Update` raises it at any
moment; `behaviour` is what each build does, which nobody but the script is to find
out. `step` is the next command of the script, `seen` what it measured, `tree` the
process of the probe and one process it started, `docs` what stands in the document
of each version. Every await of the real script is a blocking call, so the world
(`Update`, `SignInDiffers`, the exits) moves between its steps and nothing else
does. `met` are the builds a collection has looked at; the script does not know it
and the property about Codex needs it. A build that is put back after an update
(the same bytes at both hashes and other bytes between) is outside the model, and
no digest at two moments can see it.

### Streams

`written` is all the child has written so far and exists for the properties only;
`buffer` is the local of `read_bounded_lines`, `lines` what it yielded, `ring` the
stderr buffer. A chunk is any sequence of up to `ChunkMax` bytes, so every cut of
every output occurs. A byte is one of five: a character by itself, the two halves
of a longer one (all that a cut can break of UTF-8), and the two line-end bytes.
The reference is `WholeLine(k)`, the k-th line of `written` as if it had arrived
at once. Bytes of stderr are numbered, so the ring can be compared with the tail.

### Normalize and ProviderTurn

A record is what the schema checks see: kind, subtype, the fields that are missing
or hold another type, the content blocks, and the three values an event depends on
(worker, depth, error flag). Whatever the code checks deep inside a value and then
discards is one field that fits or does not. `Emitted` and `Refused` are the two
results; the second carries the diagnostic of the `StreamFailure`.

`ProviderTurn` is a provider that writes the records of its pinned version in any
order, with its own account of its workers, its messages and its result, beside the
runtime's ledger and history. `Drifted` takes one such record and alters it in one
place: a field that must be there is gone (the fields of every Codex item included),
a required or optional field holds another type, a name or a block is new. The one
field that may hold anything is `arguments` of a tool call (`UntypedFields`). The environment (`ClaudeRecords`, `CodexRecords`, `Drifted`) is external: it
is what the tables of `normalize.py` and the recordings under `tests/recordings`
say of the CLIs.

## 3. Runs

`tlc -workers 2 -config <cfg> <module>`; the times are those of two workers.

| Run | Instance | States | What it shows |
|---|---|---|---|
| `observer_safety` | one `cancel()` task, one `shutdown()` task, a descendant holding the pipes or detached, queue of 1, 2 lines of messages, results and failures | 2.6 M, 115 s | the type invariant; `NothingAfterTerminal`, `StreamEndIsComplete`, `ConcludedRunLeavesNothing`, `NormalPathNeverKills`, `TidyCancelMeansReaped`; the action properties `StoppedStaysUnknown`, `CompletedStands`, `ShutdownEndsTheTasks` |
| `observer_team` | two interchangeable workers starting at depth 1 and 2, finishing and finishing twice, 4 lines, one `cancel()` | 1.2 M, 60 s | `BudgetHeld`, `NoCompletionOverLiveWorker`, `LiveWorkerIsNamed`, and that the run implements `Turn` |
| `observer_stop` | one `cancel()`, one `shutdown()`, a descendant holding the pipes, 1 line, fairness | 229 k, 165 s | every stop returns, every aborted observation ends, and so does a run whose processes are gone, but for a caller that a `shutdown()` stranded (`DeadRunConcludes`) |
| `runtime` | either adapter in a shell with two forbidden variables, its own arguments, none or `--bare`, two turns and two sessions, one `close()`, another profile, fairness | 262 k, 60 s | the type invariant; what starts is guarded, on the subscription and in the environment that was judged; registry, journal and report stay true; nothing is launched after a refused preflight; `close()` returns |
| `collector` | either CLI, two builds of every behaviour, a shell with two keys | 3.7 M, 65 s | `EvidenceIsTrue`, `TurnsFollowApproval`, `TimeoutIsTidy`, no deadlock |
| `output_bounds` | lines of at most 2 bytes, chunks of at most 3, a ring of 2; 6 bytes of stdout, 4 of stderr | 101 k, 13 s | the lines, the refusals and the bounds of `Streams` |
| `provider_turn` | both providers, two workers at depth 1 and 2, budgets of 2 live and 2 starts, up to two blocks a message, 4 recorded events | 21 k, 15 s | `PinnedTurnSurvives`, `DriftFailsClosed`, `LedgerFollowsTheProvider`, `EveryMessageIsCommitted` |
| `claim_*` | the smallest instance that can tell | small | the five findings of section 6 |

**Bounds and why they are enough.** `QueueMax = 1` with `MaxLines = 2` is the
smallest instance with an event queued, a second one parked and the sentinel
still to come, which is every situation of the queue: a longer one only delays
the park. Two lines also suffice for a result followed by something, and for
something before a corrupt line. A descendant that is `holding` may exit at any
time and so also plays the runs without one; `detached`, whose pipe reaches its end
early, is part of `observer_safety`. One task of each kind of
stop gives every pairwise overlap of `cancel()`, `shutdown()` and the consumer's
own cleanup; more are covered by the theorems, which hold for any number.
`observer_team` has budgets of 1 live worker and 2 starts and four lines: room
for the start that reaches each limit, a finish that frees one, a repeated
finish, and the start past it. `MaxLines` is the only bound of the model itself
(the code reads until the pipe ends). In `Runtime` a turn and a closer act once: two turns
contend for one of two sessions, take one each, or ask for none, while a `close()`
meets every stage of either. The overrides are one vector the gate refuses and one it
lets through. Two closes share only the children and the tasks of the runs; any number
of overlapping ones is covered by `ReportIsABound`. One
malformed session and one spoiled field stand for the rest, because the gate reads
each field by itself. In `Collector` two builds are one update, which is what one
collection can be hit by between two of its commands; more updates, and any parent
environment, are covered by the theorems.

In `output_bounds` a chunk can hold a line at the bound with its newline, one byte
past the bound, the ends of two lines, or a piece of a character; six bytes are two
lines at the bound with their ends, or a buffer that grows over two chunks past it.
The ring is filled to the byte, over-filled, and given a chunk larger than itself.
In `provider_turn` the normalizer has no state, so a longer turn adds nothing to
it; four events (`MaxEvents`, records that become none are not counted) let the
ledger go through two starts, ends and repeated ends next to a message and a result.

**Deadlock checking is off** (`CHECK_DEADLOCK FALSE`) except in `collector`, which
can always begin anew: a run ends, and its adapter after it. That nothing waits for ever where it should not is what the
liveness properties are for.

**Fairness and why the code justifies it.** The event loop runs every task that
is runnable, so the drain tasks, a consumer with an item in front of it and the
steps of the `finally` block are weakly fair. Each await of a cancellation is
bounded by a timer or ends with taskkill, so `StopProceeds(s)` is fair for each
stopper as a whole, without saying which alternative it takes. A child that was
killed exits. Nothing else is assumed: the provider may never print and never
end, a descendant may hold the pipes for ever, nobody need cancel, and the caller
need not come back for the next event. `DeadRunConcludes` takes a caller that
does come back as its antecedent (`WF_vars(Resume) => ...`). In `Runtime` only
`CloseProceeds` is fair, which rests on `StopReturns` of the observer; a child
that never reads its prompt keeps `start_turn` waiting for ever.

Every property of a passing run has a mutant in `PROJECT.json`: a plausible bug
in the mapped code (a skipped terminal check, limits compared before the start is
counted, a reservation released by the refused turn, ...) that the run's own
configuration detects.

## 4. What is proved

TLAPS, for every value of the constants that satisfies the named assumptions
(`BudgetAssumption`, `ObserverAssumption`, `SessionAssumption`,
`RuntimeAssumption`, `CollectorAssumption`, `StreamsAssumption`,
`WorkersAssumption`): any queue size, number of lines, workers, event repertoire,
stoppers, turns, sessions, environments, builds, line and chunk bounds and budgets.
Every invariant and every action property of the passing runs, and the refinement,
is a theorem. The runs check the properties themselves; `CleanupHolds`,
`SentinelIsLast`, `Tally`, `Bounded`, `Whole` and `TurnHolds` below also hold in every
state TLC reaches on the instances of `observer_safety`, `observer_team`,
`output_bounds` and `provider_turn`.

`RunObserverProofs`

* `RunTypeCorrect`: `TypeOK` is inductive. The work is in the two operators
  every reader step goes through: `PutTypes`, `UnparkTypes` (the queue bound) and
  `ReturnTypes`.
* `TidyMeansReaped`: a cancellation answers graceful or forced only for a reaped
  child. Inductive relative to the types, because an exit status is never
  withdrawn (`ReapedOnce`) and only a stopper's own step touches its answer
  (`OthersLeaveStops`).
* `StoppedForEver`: a stop recorded before the result is never withdrawn, and the
  verdict stays unknown whatever the other facts are (`StoppedIsUnknown`).
* `CompletedIsFinal`: after the end of the observation a completed verdict
  survives every step. The invariant needed is `ReadingIsOver`: once the child is
  being reaped the stdout task has ended, so no read changes the terminal event,
  the ledger or the breach.
* `OnlyAskedForKills`: the child is killed only if somebody stopped the run or
  the observation was aborted. A stop is never un-called (`StopsAreStopped`) and
  an aborted observation stays aborted (`AbortingStays`), which uses
  `ReadingIsOver` again.
* `WorkersCount`, `WorkersAreNamed`: that a completed verdict has no unresolved
  worker and an unknown one names it, by the branches of `resolve_outcome`. They
  say more of that function than of the run.

`RunObserverEndProofs`

* `NothingIsLeft`: what the `finally` block leaves. `CleanupHolds` adds that the
  readers are over before the generator waits for the child: without it the step
  that finds the child reaped would have to show that both tasks have ended.
* `ShutdownIsThorough`: an action property, from the types alone. A shutdown returns
  by a step of its own (`OthersLeaveStops`), and every such step either has just
  gathered the tasks or finds none held; all of them close the transport.
* `RunImplementsTurn`: the initial state maps to `Turn`'s, and every step to a step
  of `Turn` or to none, but for the two steps `ImplementsTurn` excepts by name
  (section 5). While the observation goes on only the decision can change,
  and only from open to a result, to stopped, or from a result to stopped by an
  overspent budget (`DecisionsStand`); the step that ends it decides nothing
  (`ConclusionDecidesNothing`) and reports a status the decision allows (`VerdictIsReportable`, which rests on
  `CleanupHolds` because the exit status the verdict reads must be final); after that
  nothing but a stop touches the verdict's witnesses (`OnlyStopsAfterEnd`): a turn that
  was open becomes unknown (`StopAfterEnd`), and of the others only a completion that
  its exit status disowned is altered, the second excepted step (`LateStopVerdict`).

`RunObserverStreamProofs`

* `StreamsEndComplete`: `SentinelIsLast` says where the sentinel is: a queued one is
  the last item, with nothing in hand and its task ended. `StreamEndIsComplete`
  alone speaks of the state after the sentinel was taken, and cannot know what is
  behind it.
* `TerminalIsFinal`: `Closed` states the property for any sequence of items
  together with the recorded terminal event; it is kept by every append because an
  item is committed only while none is recorded.
* `NoTurnOverspends`: `Tally` relates the ledger to the history: while events are
  still committed the ledger is exactly what the committed ones add up to
  (`Counted`). It may run ahead only when nothing is committed any more, which is why
  the order of charging and committing in `_read_stdout` matters. `ChargeCounts` is
  the step for one event; `StartsAfterOneMore` and `LiveAfterOneMore` say what one more
  event does to the starts and to the live workers of a history of any length.

`RuntimeProofs`

* `TypeCorrect`: `TypeOK`, which names the values of every variable down to the fields
  of plans and journal entries, is inductive. `PassingIsTyped`, `DecisionsAreTyped` and
  `CountsAreNatural` are what the steps of a launch and of a report need.
* `RegistryStaysExact`, `SessionsAreExclusive`: the exact registry and the exclusion
  of two launches on one session; neither is inductive without the other, so both
  come from `ExclusiveAlways`.
* `ReportIsABound`: the invariant `Bounded` also says that a snapshot holds only
  started turns; no started child comes back to life (`NothingRevived`), so a
  count of the live ones can only shrink (`FewerAlive`).
* `AdapterIsSound`, `PlansAreSound`: the environment is clean and never rebuilt, a
  record means that `asked` was judged in that environment, and what a turn holds
  from its reservation on has passed the gate. From these follow `OneEnvironment`,
  `Guarded` and `JournalIsTrue`. `Guarded` holds of the directory, the version and the
  workers for any overrides, because the gate checks these; of the read-only controls
  only for an adapter without one, because `TurnArgs` puts them there and no check does.
* `OnlyTheSubscription`: needs in addition that of all answers the CLIs may give,
  only that of a subscription is accepted (`OnlySubscriptionsAccepted`), which fails
  as soon as a repeated field is let through.
* `RefusedNeverLaunches`: for Claude because a refused preflight leaves no record;
  for Codex because nothing of it ever passes the gate.

`CollectorProofs`

* `EvidenceHolds`, with the exceptions `EvidenceIsTrue` states. For Claude the invariant `ClaudeSound` orders the builds
  met: hash, version and turn are looked up one after the other and builds only get
  newer, so when the digests agree all three are one build; a turn of that build
  that exits zero in an environment without a key (`ChildEnvIsClean`, for every
  parent environment) was not bare. For Codex, `TurnMet` and `KeyIsTold` say that
  the turn and the status with a key were those of builds that were met.
* `TurnsHaveApproval`: from `ApprovedMeansSubscription`, which accounts for the
  repeated field the script does not refuse. It is about the account the status was
  asked of; that of the turn may be another (section 6).
* `TimeoutsAreTidy`: from `ProbeSound`, how far the probe's processes are at each
  step of the script.

`StreamsProofs`

* `StreamsTypeCorrect`, `RingKeepsTheTail`: the ring is the tail of what was written;
  the type of the ring needs it and it needs the type.
* `LinesStayBounded`, `GrowthStaysBounded`: `Bounded` adds that the buffer holds at
  most one line whenever the next chunk is read, and no line end.
* `LinesStayWhole`, `NoLineIsLost`, `RefusalsAreEarned` (which counts a line's
  carriage return, section 6): the invariant is `Whole`,
  built on `Cutting(w, b, n)`: of the bytes `w`, `n` lines have been cut off and `b` is
  what is left, beginning where the n-th line ended. `CutOne`, `ReadMore` and
  `LastPiece` are its three moves: a line is cut, a chunk arrives, the stream ends.
  The line numbers of `WholeLine` are ranks in the set of line ends (`RankOf`), so the
  proofs count sets and need no induction over the stream.

`ProviderTurnProofs`

* One invariant, `TurnHolds`, gives `PinnedTurnsSurvive`, `DriftsFailClosed`,
  `LedgerKeepsUp` and `MessagesAreCommitted`: as long as the turn is read nothing has
  drifted, the ledger is what the provider has at work, and the history holds its
  messages and, last, its result. That what ends the reading is a refusal exactly when
  something has drifted makes the first two inductive.
* The work is in the normalizer. `PinnedIsRead`: every record of either pinned version
  is read, and its events are what the record does (`Told`: a start, a finish, a
  result, a message with or without a tool call, or something quiet). `DriftIsRefused`:
  whichever field, name, block or receiver of such a record is altered, the line is
  refused. It goes over the ways a record can drift (`DriftIsOneOf`) and, for each
  kind, over the fields its meaning rests on (`SpoiltDoesNotFit`).
* `LineIsCommitted` and `LineIsCharged` say what the events of one line add to a
  history and to a ledger. For a line that starts a worker within the limits the ledger
  grows by that worker; the start that breaks one ends the reading.
* `WorkersAssumption` (the absence of a receiver is not a worker) is what tells a
  collaboration call with a receiver from one without.

**Model-checked only.** Liveness under fairness (`StopReturns`, `AbortConcludes`,
`DeadRunConcludes`, `CloseReturns`) is out of the prover's reach; so are `ENABLED`
and with it the fairness conditions themselves. The five findings of section 6 are
counterexamples and nothing to prove.

**What the proofs rest on.** The theorems are about the models: that a model says
what the code does is the correspondence of section 2. The
bounds of the models (`MaxLines`, `MaxEvents`, the bytes a run of `Streams` writes) are
constants of the theorems too, so they hold for any number of lines, events or bytes,
and so for every finite run of the code.

## 5. The abstract turn

`Turn` has two variables: what decided the turn and the status reported for it. It
says what spec line 282 and the docstrings of `outcome.py` and `cancel()` promise: a
result or a stop decides an open turn and whichever came first stays; the status is
given once the events have ended, must be one the decision allows, and is final,
except that a stop after the end makes a turn that nothing had decided unknown
(`StopAfterEnd`).

The observer does not implement this altogether. `ImplementsTurn` excepts two of its
steps by name, in the observer's own terms and not as actions of `Turn`:
`ResultOverspent`, a start past the budget that stops a turn whose result was committed,
and `DisownedThenStopped`, a stop after the end that makes the exit status of a
completed turn stop counting. Each is a finding with a run of its own (`claim_result`,
`claim_disowned`). Every other step of every run is a step of `Turn` or none.

## 6. Findings

Five runs are expected to be violated; each quotes a line of the repository.

1. `claim_disowned`: a `close()` after a run that exited nonzero by itself turns
   `failed` into `completed`, against `outcome.py:61-63`.
2. `claim_result`: `observe.py:131` charges the budget before `_emit` looks whether the
   turn has ended, so a worker started past the budget after a committed failure
   withdraws it: a run nobody cancelled is reported as `unknown_outcome`, against spec
   line 282 and `observe.py:172`.
3. `claim_killer`: the status of taskkill is not read, so a cancellation answers
   forced over a descendant that survived, against `lifecycle.py:97-99`.
4. `claim_zero_report`: a `close()` that overlaps a `start_turn` reports zero
   children while one is alive, against spec line 111.
5. `claim_registry`: a native session stays in `ActiveNativeSessions` after its run
   has ended and its events were drained, because only a failed spawn releases it;
   `launch.py:322` says the registry holds the pairs that currently have a run in
   flight. A second resume of the session is refused for the life of the registry.

Seen while modelling, without a run of its own:

* `shutdown()` ends the stdout task without its sentinel, so a consumer that is another
  task drains the queue and waits for ever. The comment at `observe.py:116-117` supposes
  the consumer is the one shutting down. `DeadRunConcludes` names that end (`Stranded`)
  as the only one beside a finished observation.
* After a failed handover the spawner drops the answer of the bounded cleanup
  (`spawn.py:184`) and `launch()` hands the session back, so a launch may end with its
  child alive beside a session that can be resumed. `spawn.py:153-154` and
  `launch.py:383-384` say nothing is left alive. The model has it (`CleanupEnds`):
  `OneLaunchPerSession` counts only launches that did not fail, and such a child is
  another that a zero report passes over (`ZeroReportMeansNoChild`).
* The operator may sign in differently between the status a collection judged and its
  turn, and nothing holds the sign-in in between; the docstring at
  `scripts/collect-conformance-evidence.py:247-249` says such an account "should never
  have a request issued against it". `TurnsFollowApproval` therefore speaks of the
  account the status was asked of.
* `turn_args_override` is a test seam, but it is part of the class: with a vector
  that lacks the read-only controls and `--bare` a turn passes the gate and starts,
  since `enforce_launch_safety` (`launch.py:157-256`) does not look for the controls. No line of
  the repository says it does, so `ChildRunsGuarded` makes its claim about the
  controls only where no override is set.
* A line of exactly the bound that ends in `\r\n` is accepted when both bytes
  arrive in one chunk and refused when a chunk boundary falls between them:
  `streams.py:86` measures the buffer with the `\r`, `streams.py:97` the line
  without it. `RefusalIsEarned` therefore counts the `\r`.
* `normalize.py:510` says that prose and tool call are emitted "in block order";
  the message always comes first.
* `observe.py:203-206` speaks of ending the tree where `_stop_child` kills the
  process alone.
* A stream that turns corrupt after the result still ends as `completed`; compare
  spec line 279.
* `CodexRuntime.preflight` keeps its earlier record when a later preflight is
  refused (`codex.py:132-143`); `tests/runtime/test_preflight.py:208` says "A plan
  may only carry the record of the *latest* successful preflight". Such a plan can
  be assembled; it is never launched, since the gate refuses every Codex plan for
  its delegation limits (`RefusedNeverLaunches`).
* The collector judges a Claude status by `json.loads`, which keeps the last of a
  repeated field; `preflight.py:95-105` refuses one. `TurnsFollowApproval` excepts
  exactly that.
* A Codex collection resolves its name for every command and hashes nothing, and
  draws its conclusion about API keys also when the operator is not signed in by
  subscription. `EvidenceIsTrue` claims no more than that allows.
* In a collection `--version` may exit with any status, and an interrupted script
  leaves its probe running and may leave an empty document behind.

## 7. Not modelled, and why

* Argument vectors beyond the arguments that guard a turn and `--bare`, the order
  and the wording of refusals, the reasons in a close report, and the text of the
  collector's documents: no property here depends on them.
* `TurnDeadline` (`lifecycle.py`): nothing in the repository calls it.
* The tail of `contract.py`: value classes without behaviour.
* Two overlapping preflights of one adapter, and an update of the CLI between a
  preflight and a launch: the first has no caller, against the second the code has
  nothing a property could state. Both are in the list of hazards.
* The broker, the SQLite journal, the artifact store and the dossier have no code.

`PROJECT.json` lists each component with its status.

## 8. Plan

Done, in this order: outcome and ledger, the run observer with its stops, the
abstract turn, the adapter, the readers, the normalizer, the launch gate with the
preflight decisions and the child environment, the collector. Next:

1. The release of a session, once the broker that ends a run exists.
2. `RunObserver`'s repertoire as the range of `Normalize`, and its corrupt line as
   a refusal of `Streams` or `Normalize`.
3. `TurnDeadline` once something calls it.

Proofs: every safety property of the runs is a theorem. What is left is to follow the
model: a repertoire taken from `Normalize` (item 2) would let `LineIsCharged` and
`NoTurnOverspends` be joined into one statement about the records of a provider.
