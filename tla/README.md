# VelarScript: specifications, checks and proofs

VelarScript is a language with a compiler, a command line and runtimes for web,
Node, server and desktop programs (`src/packages/*`). Most of the compiler is
sequential and deterministic. What is hard to get right is in the runtimes, where
promises, callbacks, timers and connections interleave, and in the build tools,
which replace files that must survive a killed process. This directory models
those parts in TLA+, model-checks them with TLC and proves what it can with TLAPS.

`PROJECT.json` lists components, runs, mutants (for each property a plausible bug
that breaks it), the source lines of each definition, findings, hazards and theorems.

## 1. The system's parts

| Component | State | Operations | What is hard |
|---|---|---|---|
| Channels (`core/runtime/task.js`) | buffer, waiting senders, receiver, cancellation listeners | send, trySend, next, close, cancel | a freed slot must wake the right waiter; close and cancel against both queues |
| Owned tasks (same file) | the tree of Cancellations, promises | task, cancel, close, withTimeout | tasks made and settling while the tree is cancelled; timer against result |
| Reactive graph and flush (`web/runtime/graph.js`, `flush.js`, `emitted-*.js`) | cells, caches, dirty flags, subscriptions, two queues | read, write, derive, watch, render, stop, flush | dynamic dependencies, writes while running, stops while queued, cycles |
| Flush window and `tick()` (`flush.js`, `emitted-settle.js`) | the shared budget and its counts, sentinel, waiting ticks, a parked failure | flush, overrun, tick, claim | observers and tasks that feed each other across microtasks; whose failure it is |
| Realtime client (`web/runtime/realtime-client.js`, `websocket.js`) | one runner, status, waiters, a socket | start, whenOpen, close, callbacks | close at every await; retries; the platform's own exceptions |
| Standalone output transaction (`cli/src/standalone-output-*.ts`) | outputs, staging directory, evidence, journal | build, roll back, recover | a kill at any rename, and again during recovery |
| Build output claims (`cli/src/build-output-claim.ts`) | a registry of claim files and the gate to it | acquire, extend, release | several processes at once, what killed ones leave behind |
| Directory and reproduction outputs (`cli/src/build-output-*.ts`) | directories, receipts | replace, verify | a kill between two renames |
| Managed async values (`web/runtime/emitted-async.js`) | generation, pending, error | reload, run, dispose | late answers of old generations |
| Async combinators (`core/runtime/async.js`) | slots, results | bounded map, race | a failure among running siblings |
| Forms, routing, storage, HTTP (`web/runtime`) | pending fields, the platform's history | submit, navigate, request | thin layers over the platform |
| Workers (`node/runtime/worker.js`, `web/runtime/worker.js`) | pending calls and timers of the caller, queue of the entry, two channels | call, broadcast, cancel, close; read, finish | messages that cross, timeouts, wedged and dying Workers, three bounds that count different things |
| Node serving and processes (`node/runtime`) | listeners, owned process groups | serve, stop, reap | readiness, drain, timeouts |
| Server realtime (`server/runtime/realtime.js`), desktop host | sessions, channels | accept, publish, close | both ends of one protocol |
| Compiler, project sessions, language server, dev server | syntax, types, caches | check, edit, rebuild | stale results after an edit |
| Pure core library | none | | covered by unit tests |

How they meet: a component of a web page reads and writes the reactive graph; its
async values settle into it; the realtime client and HTTP run beside it and change
it from callbacks; tasks and channels are values an application composes all of this
with. The command line checks and emits a program, takes a claim on its outputs, and
runs the file transaction under that claim.

## 2. The modules

| Module | Models | Checked by | Proofs |
|---|---|---|---|
| `Channel` | the channel, one action per operation and per cancellation listener | `Channel.cfg` | `ChannelProofs` |
| `ChannelPromise` | what a channel promises: one line of values | refinement, in `Channel.cfg` | `ChannelProofs` |
| `TaskTree` | tasks, Cancellations, withTimeout | `TaskTree.cfg` | `TaskTreeProofs` |
| `Workers` | the calling side and the message loop of each Worker | `Workers.cfg` | `WorkersProofs` |
| `BuildClaims` | the registry of claims, its gate, several processes | `Claims.cfg` | `BuildClaimsProofs` |
| `BuildOwnership` | what the registry promises: outputs with one owner | refinement, in `Claims.cfg` | `BuildClaimsProofs` |
| `Reactive` | cells, computeds, observers, the settle loop | `Pages.cfg`, `NoisyWatch.cfg` (`MCReactive`) | `ReactiveInvariants`, `ReactiveProofs` |
| `FlushWindow` | the budget, its window and overruns, `tick()` | `FlushWindow.cfg`, `LateTick.cfg` | `FlushWindowProofs` |
| `RealtimeClient` | the client, its runner and its connection | `Realtime.cfg`, `RealtimeBrowser.cfg` | `RealtimeProofs` |
| `StandaloneOutput` | the file transaction and its recovery | `Standalone.cfg`, `StandaloneKilled.cfg` (`MCStandaloneOutput`) | `StandaloneProofs` |

### Atomicity

JavaScript runs a turn to its end, so in the runtimes an action is what the code does
between two points at which anything else may run. In `Channel` an operation is a turn,
and because the listeners of a cancelled token are called one after the other, each is an
action (`FireSender`, `FireReceiver`) that nothing else interrupts. In `TaskTree` each
microtask is an action. In `Reactive` the user's code runs inside the runtime's, so the
module has an explicit `stack` of runs and one action per instruction of that code
(`Step`); no turn of the outside begins until the stack is empty. In `FlushWindow` a flush is
taken apart into the runs of its observers, with nothing else between them; everything else is a
microtask, or a macrotask that waits until no microtask is left. In `RealtimeClient`
`runner` names the await the runner is suspended in, and one action is the stretch to the
next. In `Workers` an action is a turn of one of the event loops, which share nothing but the
two channels between them. In `StandaloneOutput` an action is one change of the disk, because a
kill can come between any two; in `BuildClaims` it is one operation on the registry directory,
a read as well as a write, because several processes take turns there.

### Channel

`values`, `senders`, `receiver` and `closed` are the fields of the channel state;
`status` is the promise of each call, `token` the cancellation it was given, `listeners`
and `cancelled` the tokens. `taken`, `stamp` and `clock` are history: what was received,
and the order of the sends. A call is used once, which bounds the run and loses nothing:
a call's identity is the value it sends. `ChannelPromise` is the abstract channel: one
line of which the first `Capacity` values stay; `Channel` implements it under `line =
values \o senders`.

### TaskTree

`children` is what each Cancellation would cancel, `parent` what a task was given. Work is
abstracted to when it begins, and to how it ends: with a value, a failure, or a
`CancellationError`, its own or that of another Cancellation it awaits, which `task.js:131-133`
does not tell apart. A timer fires when no microtask is left (`Quiet`).
A task that settles leaves its parent's children with everything below it: cancelling the
grandparent no longer reaches what still runs below a settled task. The code does that on
purpose or not; no text promises otherwise, and `ReachesDown` is stated for direct children.

### Reactive

`page` is the program that runs, one of `Pages`, chosen by `Init` and fixed. Its code is a
constant `Code`: for an observer, a phase and the answers it has had so far, the next
instruction: read, write, mount, stop, return or throw. So dependencies are dynamic and depend
on values, as in the language. Of the code the module assumes only that its instructions name
cells, computeds, observers and values there are (`CodeAssumption`). The run `Pages` has four
pages: `Diamond` (a diamond of derived
values read conditionally, one of which may fail, and a watch that corrects), `Region` (a part
that is created and destroyed by its parent while watches write what others read), `Storm`
(a cycle of derived values, and a render that writes what it reads) and `Echo` (a derived value
that reads itself for one value of a cell, observed by two watches). `graph` holds subscriptions of both
sides, dirty computeds, stopped observers, self-invalidation counts and both queues;
`cache`, `val` and `shown` are values; `flush` is the settle loop with the snapshot of
watches (`pass`). `used` and `drawn` are history. `MaxSelf` stands for the 100
self-invalidations; 1 or 2 gives the same cases, since the code only compares with it.
Watches run in the order of `Sequence`. One read differs from the code: a computed that had
failed before, is stopped by the cap within its own evaluation and then reads itself gets in the
code the value before the failure (`graph.js:482` has cleared `failed` already), and in the model
the failure (`ReadFresh`).

### FlushWindow

`open`, `left`, `runs`, `carried`, `noted` are the token of the flushes that share one budget:
whether there is one, what is left of it, how often each observer ran, whether the next flush
continues an overrun, whether an observer has started asynchronous work; `armed` is the sentinel
that ends the window. `queue` is both queues, `pending` and `jobs` the scheduled flush, `turn` who
runs one now. `tick` says where each `tick()` stands, `parked` is the failure kept for them.
What observers do is left open: a run queues any observers, starts work that goes on in a
microtask (`soon`) or a later task (`later`), fails or not. `rows` is a handler that writes and
awaits in a loop. `broke`, `detached` and `chain` are history: the ticks that waited through a
failure, whether an observer started work since the sentinel, and what the chain of overruns has
run. `rounds` counts down the flushes a waiting tick may see before it gives up and
takes what is parked. `Budget`, `Often` and `Rounds` are 100000, 4 and 10000 in the code, 2 in
the runs; the code only compares with them. `TickFlushes` bounds the jobs that ticks leave behind by the number of ticks.

### RealtimeClient

Each caller makes one call of `start`, `whenOpen` or `close`. Application callbacks return
or throw, `failed` answers any action, `connect` succeeds or fails, the peer may close with
any code or fail without a close event. `Refused` is the set of close codes on which the
platform's own `WebSocket.close` throws: empty in the passing run, `{1007, 1011}` in a
browser. `MaxWaiters` is 256 in the code, 1 in the run, so that the limit is met.

### StandaloneOutput

A file is who wrote it, a build or (`Authored`) an author, which is what the journalled
identity of inode, size and digest tells apart. `target`, `staged` and `backup` are the
three places of each output; `journal` and `evidence` the phases the two metadata files
name (evidence is rewritten in place and may be torn, the journal is renamed in);
`applied` and `installed` are the process's memory, lost by `Kill`. Recovery computes the
same two sets from the disk (`ToRemove`, `ToRestore`), so rollback and recovery share the
actions that undo. `Discard` removes entries of the staging directory in any order, as a
recursive removal does.

Between two builds the author may write any output (`Edit`), over one that is there or anew,
whatever the last build has left: nothing, a transaction in any phase, or one whose evidence is
torn. What becomes of it depends on that state, and `EditsKept` says how:

* In a transaction that can be read, over one of its operations, the next builds refuse; the
  file, and everything the others could be recovered from, stays (`KeepsInDoubt`).
* In every other state (the staging phase, whose transaction is discarded; torn evidence, which is
  skipped; no transaction at all) a build may still take over a main output as it takes over any
  it finds: promotion sets it aside, and the commit removes it. Nothing else removes a file of the
  author's (`TakesMainAside`).

`edits` is history: which outputs the author has written, and whether over an install that was
interrupted. Each edit is a new file, never the one that `kept` has, so that history can tell
them. Left out are an author who writes while a build runs (between an identity check and the
rename after it the code is not protected, and says so nowhere), one who deletes outputs, and one
who edits a generated file and leaves its receipt or marks in it: such a file counts as generated.
Ownership of outputs by receipt is kept (`Receipt`), the formats of markers are not. Trees
(`node_modules` packages) follow the same rename protocol but are removed file by file; they are
left out.

### BuildClaims

`gate` and `files` are the registry directory; `pc` and `op` say where each process stands and
in which of its three operations. A process reads a gate it finds between two looks at its path
(`LookAtGate`, `ReadGate`), removes it after a second reading if its owner is dead
(`RecheckGate`, `UnlinkGate`), and between that reading and the unlink another process may have
put its own gate there: two processes are then inside. What the code sets against it is that
the gate is read again before it is left, and what was written counts only then (`CheckGate`).
`want` is the merged request, folded as `normalizeClaimRequests` merges; `made` and `lease` are
the claims written and held, `todo` and `met` the listing. A claim is created and then filled,
so that a kill leaves a part of one. A write may fail at any claim and leave nothing, a part, or
a whole claim that could not be read back and that nobody undoes (`WriteFails`); a process
may die at any point (`Die`), and the half minute of waiting may run out whenever the gate's
owner is alive (`GiveUp`). `alone` is history. `BuildOwnership` has one variable, who owns what; `BuildClaims` implements it
under `owned = lease`.

Three things no text speaks of: a gate that changes hands between the two looks of one reading
and is there when it is looked for once more is reported as "invalid and preserved for
inspection" though nothing is wrong (`JudgeGate`); the claims of a build whose `gate.release`
throws stay in the registry while the process lives; temporary `.gate.*.next` files of killed
processes are never removed and count toward the limit of entries, as claims left in part count
toward that of claims (`build-output-claim.ts:339`, `:344`; these limits are only read, not
modelled).

### Workers

`call`, `pending`, `timed`, `cancelled`, `abandoned`, `closed` are the calling side (`abandoned`
are the calls whose timeout waits for an acknowledgement within the grace period); `work`,
`told`, `capacity` are `active`, `queue` and the Cancellation of `serveWorker`; `toWorker` and
`toClient` are the two directions of a native channel. A handler is how it ends, plus `Stick` and `Resume`: a
handler that keeps the thread reads no messages. A single `Worker` is a pool of one. A request
or response of the wrong type is a handler that fails. Time is left out, with one assumption:
the grace period is long enough for a loop that runs to read what has been posted to it; a
caller whose own loop is blocked for that second can take a healthy Worker for a wedged one. A call
that is cancelled first loses its timeout (`Timeout` needs `c \notin cancelled`, as
`worker.js:134` does), which `StuckIsFound` and `CancelEnds` except; `docs/web-api.md:1976-1978`
says more. The entry has a queue bound of its own that the pool does not know: by default a pool
of fewer than four members lets a member have more than the 64 calls its entry queues.

## 3. The runs

With two workers `FlushWindow` takes two and a half minutes, `Pages` a minute and a half, every
other run 75 seconds or less.

| Run | Bound | States | Shows |
|---|---|---|---|
| `Channel` | 6 calls, 2 tokens, capacity 2 | 23 thousand, symmetric | no lost wake-up, no orphan promise, FIFO, delivered once, refinement |
| `Pages` | 4 pages over 2 cells, 2 computeds, 2 watches, 2 positions | 484 thousand | no stale read, no glitch, drawn once and last, subscriptions exact, stopped stays quiet, the truth is shown at rest, flushes end |
| `FlushWindow` | 2 observers, 2 ticks, budget 2, 2 rounds | 520 thousand | every task ends, overruns stop runaways only, no tick steps over a failure |
| `TaskTree` | 2 tasks | 15 thousand | cancellation reaches what it must and nothing else; no early answer; whoever stops or times out is answered |
| `Realtime` | 3 callers, 2 delays, 2 connections, inbox 1 | 272 thousand | no leaked socket, no forgotten waiter, closed announced once, an end |
| `Standalone` | 3 outputs, 4 builds, 2 files of an author's | 1.4 million | no lost or mixed outputs, edits of what can be recovered kept, the author's files only set aside, commits final |
| `Claims` | 3 builds, 3 lists of outputs over 3 paths | 640 thousand, symmetric | no output owned twice, all or none, dead processes stand in nobody's way, the registry promises ownership |
| `Workers` | 2 calls, 2 members, entry capacity 1 or 2 | 82 thousand | no call lost or run twice, cancellation arrives, healthy Workers spared and wedged ones found |

Why the bounds are enough: capacity 2 with 6 calls fills the buffer and the waiting line and
overflows both; two tasks give a chain and siblings (what is safety is
proved for any number); the diamond has two paths of
different length to one reader; with two observers and a budget of two an overrun finds one
that ran as often as it may, one that did not, or both, the window may have been carried
from an earlier overrun, and with two rounds a tick gives up while there is more to do; two connections give a reconnect after a success and after a
failure, and a third is refused by the bound (the runner then only waits for `close`); four
builds allow a complete one, one killed, one killed in its recovery, and one that finds the
result, over outputs that are replaced, new and retired, and the author has one file to find
and one to edit it to; three builds of which two can meet at
the gate a third has died in, over outputs that overlap by containment and by name; two calls
to one Worker let a cancel, a timeout and a reply of one cross the other's, with an entry that
queues both or refuses the second. Two calls never fill the pool while a member has room: that
bound is covered by the proofs, which hold for any number of calls and members.

`CHECK_DEADLOCK FALSE` is used where the system stops: a finite set of calls or builds runs
out. `Pages` and `FlushWindow` check deadlock; a page never stops.

Type invariants are not among the properties of the runs: all of them are proved.

### Runs that find a disagreement

| Run | Disagreement |
|---|---|
| `NoisyWatch` | A watch stopped while queued never leaves `watchQueue`; the flush turns for ever without spending its budget. |
| `LateTick` | A `tick()` called after a failed flush, while an earlier one has not yet claimed the failure, rejects with it. |
| `RealtimeBrowser` | A browser refuses close codes 1007 and 1011; the client then waits for a close that never happens, and `close()` never returns. |
| `StandaloneKilled` | A kill while an undone or committed transaction is cleared away leaves one that every later build refuses. |

Details, with the sentences they contradict, are in `PROJECT.json`. Further divergences
were met in the same models and are listed there as hazards: a computed that writes what it
has read ends clean and stale (`graph.js:445`); a cycle of computeds observed at both ends
does not settle within a flush (`graph.js:491`); a render that writes what a watch observes
lets further renders run before that watch (`flush.js:327`); after `failed` has answered `stop`
the client still reconnects when the peer's close code says so (`realtime-client.js:281`); the
sentinel that ends a window is a timer, so a macrotask may come before it and share the window of
the one before (`docs/web-api.md:1237-1240` has "A macrotask boundary ends the window"); an
overrun puts back what has not run often (`flush.js:217-219`), where `docs/web-api.md:1230-1231`
speaks of every queued observer; observers that wake each other through a task with `trySend` are
not noted as asynchronous work (`flush.js:284`). Two observers
of one computed that reads itself notify each other for ever: `evaluate` takes the failed
computed off the graph and leaves it dirty (`graph.js:491-498`), each observer that reads it
derives it anew and gets a new `RangeError`, which differs from the one the other has seen, so
the other is queued again, until the budget of the whole flush is spent. The comment there says
that this detachment is what keeps failed computeds on a circle from notifying each other "into the
whole-flush budget", and
`tests/web/runtime-failure-containment.slow.test.ts:31` that it "detaches its edges instead of
storming the flush"; the test has one observer. With `TornFailures = TRUE`
`StandaloneOutput` also shows that a failing write of the evidence, followed by a kill in the
rollback, makes the next build step over a half-undone transaction. And it shows that recovery
does not always keep what the title of `tests/cli/standalone-output-recovery.test.ts:42` says,
"standalone recovery preserves a main output written after the interrupted install"
(`LaterOutputPreserved`): killed while the evidence is rewritten in place after the promotion
(`standalone-output-transaction.ts:362`), the transaction no longer parses and is skipped, and the
next build replaces the main output (`standalone-output-operations.ts:59-60`). To see the
trace, add `LaterOutputPreserved` to the invariants of `Standalone.cfg`; the 19 steps to the
torn evidence, the kill and the edit are followed by an ordinary build. In the staging phase the
same happens to a main output the author writes while nothing is installed yet.

### What the passing runs assume

* `SettledBeforeDom`, `DrawnOnce` and `ShownIsTruth` hold for pages whose renders do not write and
  whose derived values do not read themselves: `Storm` and `Echo` are `Impure` and excepted. A
  computed that was taken for recursive gives up its subscriptions (`graph.js:498`), so an observer
  that has seen it fail is not told when a cell changes and the circle is gone.
* `ShownIsTruth` lets an observer keep what it had while its expression fails, and a watch while
  the body it started may fail on what the expression yields; a stopped computed counts by its
  last value. What fails now is
  decided by the code and by the failed computeds it reads (`FailsOn`).
* `SettlesUnlessStuck` excepts a watch that is stopped while it is queued (run `NoisyWatch`) and
  a circle with two observers (`Echoing`, see below).
* `CleanIsCurrent` is about pages whose derived values do not write (`PureDerivations`); TLC
  evaluates that of the four pages, and the rest of `CalmPages` (`TheyAreCalm`).
* `NotSteppedOver` is about failures that nobody handles and that come up while the tick waits.
* `Ends` and `WaitersAnswered` hold on a platform that accepts every close code.
* `Whole` takes a write that reports failure to have left the file whole (`~TornFailures`).
* `AckIsOwed` and `StuckIsFound` take the grace period to be longer than a running loop needs.
* The registry of claims is changed by builds only; process ids are not used again.
* Disk contents survive a kill: the model is of a killed process, not of a power failure.

### Fairness

`Reactive`: a turn runs to its end and the flush is a microtask, so it runs once the turn is
over, however many turns there are (strong fairness of `StartFlush`). `FlushWindow`: a microtask
runs while there is one, and no observer that is queued again and again is passed over for ever,
since a flush takes its queues in passes (strong fairness of `Runs(o)`); no macrotask need come.
`TaskTree`: microtasks
run, timers fire when microtasks are done (strong, since microtasks may keep coming), and
work that is cancelled comes to a checkpoint; work that is not owes nothing. `RealtimeClient`:
callbacks and `connect` come back, timers fire, and a socket told to close or failed reports
its close event, as the WebSocket standard has it; the peer owes nothing. `Workers`: a loop that
runs reads on, replies and the end of a thread are noticed, timers fire, and a handler whose
Cancellation is cancelled ends (`Heeds`); nothing makes a handler that keeps the thread go on.
`Channel`, `StandaloneOutput` and `BuildClaims` have none: their properties are of safety, a call
may wait for ever, a killed build need not be run again and a wait at the gate ends after half a
minute.

## 4. Proofs

`ChannelProofs` proves, for every capacity, every set of calls and of tokens:
`TypeCorrect` (`TypeOK`), `WakesWhomItShould` (`NobodyWaitsInVain`), `NoOrphans`
(`WaitersAreHeld`), `NothingLost` (`SentIsKept`), `FirstInFirstOut` (`Fifo`). They rest on the
named assumptions of `Channel` (a positive capacity, `None` neither a call nor a token).

The argument. `TypeOK` is inductive and proved on its own, an action at a time. The others are
not inductive one by one, so they are conjuncts of one invariant, `IInv`: that a value taken or
promoted leaves nobody waiting in vain, and that every answered send is kept, needs to know
that the calls at the three places of the line `taken \o values \o senders` are different
calls. That is not a conjunct of its own: it follows from their stamps being increasing. `IInv`
therefore adds to `TypeOK`, `NobodyWaitsInVain`, `WaitersAreHeld` and `SentIsKept`

- `OrderInv`: no stamp is above the clock, the stamps increase along each of the three
  sections of the line, and each section's stamps are below those of the sections after it
  (`Fifo` is the three of them put together, by `IncreasingConcat`);
- `WalkInv`: a listener that the walk of a cancelled token has still to call belongs to a call
  that is waiting, so the walk never rejects a call that something else has answered.

Lemmas about sequences (`RemoveAt`, `Append`, `Tail`, concatenation, increasing stamps) carry
the steps; `NextIsStep` sorts the disjuncts of `Next`, each operation has its own `...Keeps`
lemma, and `Invariance` combines them.

The same module proves, from the same invariant, that `Channel` implements `ChannelPromise`
(`ChannelKeepsItsPromise`): under `line = values \o senders` every operation is one step of the
line or leaves it alone. The invariant is needed because what an operation does to the two
arrays is a step of one line only when nobody waits behind a free place (a buffered value would
overtake), the receiver that is handed a value still waits (or the value would vanish), and a
cancelled sender stands beyond a full buffer. Its lemmas say what happens to a concatenation
when one of its two parts changes (`ConcatAppend`, `ConcatPromote`, `ConcatRemove`,
`ConcatFront`).

`TaskTreeProofs` proves all five invariants of `TaskTree` for every finite set of tasks:
`TypeCorrect`, `CancellationReachesDown`, `ChildrenAreTheLiving`, `NothingRunsBehindAnAnswer`,
`CancellationHasAReason`. The walk of a cancellation is a least fixed point (`Reached`), and two
lemmas say what that gives: the walk goes on to every child that is not cancelled yet
(`ReachedGoesOn`), and it reaches nothing that is not the start or a child of something it
reached (`ReachedFromAbove`, proved by exhibiting the set of those as a closed one). The first
carries `ReachesDown`, the second `CancelledForAReason`. `IInv` adds that a waiting `cancel()`
or `close()` has cancelled its task (`WaitingIsCancelled`) and that only tasks that were made
have children, time limits or a cancelled Cancellation (`OnlyWhatExists`): without it a new
task could already have tasks below it, or be cancelled before anybody asked. This `IInv` too
was checked by TLC before it was proved.

`BuildClaimsProofs` proves, for any builds, paths, containment and requests, all that the run
`Claims` checks and more: `NeverTwoOwners` (`Exclusive`), `ClaimsOfTheLivingStand` (`LeasesStand`),
`GatesAreKept` (`GateIsKept`), `TheDeadNeverRefuse` (`TheDeadYield`) and the refinement
`ClaimsArbitrate` (`Arbitrates`). Exclusion does not come from the gate, which two processes can
be in. Call a claim *sure* when its build holds it or has found its gate still there (`Sure`).
`IInv` says that for the process whose gate is the one in the registry, every sure claim of
anybody else is in the listing it reads (`ListingComplete`) and overlaps nothing it is about to
write (`Cleared`): a claim becomes sure only while its process's own gate stands, so a process
that has lost its gate adds nothing that the gate's new owner could miss. `GateIsKept` and
`TheDeadYield` have invariants of their own on top of it.

`WorkersProofs` proves the four safety properties of `Workers` for any members, calls and
capacities: `TheLivelyAreSpared` (`AckIsOwed`), `NoCancelIsForgotten` (`CancelReaches`),
`NoCallIsLost` (`Carried`), `OnlyTheLostFillTheQueue` (`RefusedOnlyBehindTheLost`). `IInv` adds
to them what keeps a call in one place: requests, queued calls and answers occur once and a
cancel stands behind its call (`Sound`), no call is in two of the three places (`Single`), a
pending call is at its own member only (`PendingHere`), only calls that were made travel
(`Known`), a pending call of a living Worker is somewhere (`Present`). `AckIsOwed` is proved for
stuck loops too (`Owed`), since a stuck loop may run again. A step of a member's channel and
queue is summed up as `MovesOn`, from which `WorkerStep` derives the whole invariant, so each
action is looked at once. `OnlyTheLostFillTheQueue` needs the invariant `Room`: of the pending
calls of a member, those in the queue or posted before a given request are fewer than the
member's capacity. They were when the request was posted, because `call` counts all of the
pending ones, and every later step only brings the request nearer to its turn (`Nearer`); a
full entry queue without a forsaken call would be an injection of as many calls into fewer.

`FlushWindowProofs` proves, for any finite sets of observers and ticks and any budget,
`NoTickStepsOver` (`NotSteppedOver`) and `OnlyRunawaysAreStopped` (`OnlyRunaways`). The first
needs that a failure which came up while a tick waits is still parked for it (`KeptForIt`), that
one is parked only while somebody waits (`ParkedForSomeone`), and that a tick that runs a flush
itself has not stopped waiting (`TurnIsAsked`). The second needs that the history counts as the
budget does: until work is started, `chain.count + left` covers a budget and every observer with
a counted run is in `chain.who` (`ChainCounts`). That survives from one flush to the next only
because a continued overrun has the next flush booked in the same window (`GoesOn`, `Booked`) and
because a window is otherwise continued only if an observer has detached work
(`NotedIsDetached`).

`StandaloneProofs` proves, for any outputs and builds, `NoOutputIsLost` (`NothingLost`),
`EditsAreKept` (`EditsKept`), `CommitsAreFinal` (`CommitIsFinal`) and, if a failing write leaves
the evidence whole, `OutputsAreWhole` (`Whole`). The invariant says where each file is by what
the journal says: before the promotion everything is at home (`Unpromoted`), during it an old
file is at home, set aside, or set aside with the new one in its place (`Promoting`), and after
it the new one is there (`Installed`). To it comes what the process's memory has to do with the
disk (`Memory`, and `Remembered` in `Promoting`): memory is lost by a kill, and
`RecoverRemembers` shows that recovery finds on the disk what the killed process knew, so one
argument serves rollback and recovery. The author's files enter by two facts. An edit over an
operation of a transaction that can be read keeps every build at recovery (`Blocked`), which is
what `KeepsInDoubt` needs, and the lemmas about steps of a build at work need (`EditedBefore`,
`AtWork`): what such a build finds of the author's was there when it began, and is in `kept`. And
a plan replaces none of the author's files but the main output (`StageTakes`, in `Planned`), since
a receipt owns only generated ones; so promotion sets aside no other (`TakesMainAside`). `Newest` says
that a build's files are told from all it finds. `Whole` adds `WInv`: what the promotion is to end
with (`Goal`) is one build's output, but for what the author has written (`Good`, and `Near` while
an edit stands).

`RealtimeProofs` proves, for any callers, delays and refused close codes, `NoConnectionLeaks`
(`NoLeak`) and `ClosedIsToldOnce` (`ClosedOnce`). The invariant sorts the awaits of the runner:
where it has a connection (`Held`), where it has none and has seen the last one end
(`Detached`), and where nobody has yet been told of the end (`ToldInTurn`). `Detached` says of
every other await what `NoLeak` says of some, which is what makes it inductive. Each action is
summed up first (`ClosingEnds` for a close in any state, `TurnKeeps`, `UnwindKeeps` for the catch
block), so that the cases that share it are looked at once. The type invariant is proved in two
halves (`Flags` and `Shapes`), for two provers.

`ReactiveProofs` proves, for any cells, computeds, observers, values and code, with invariants that
stand in `ReactiveInvariants`: `TypesKept` (`TypeOK`), `NothingLeaks` (`SubscriptionsMatch`),
`StoppedNeverRun` (`StoppedStaysQuiet`) and, for pages whose derived values do not write,
`DerivedIsCurrent` (`CleanIsCurrent`): no cache is clean that a change of what it was derived from
should have made dirty. For pages where neither
what a watch observes nor what a position shows writes either (`ReadsOnly`), it proves
`AtRestAllIsCurrent` (`AtRestCurrent`): nobody is forgotten, so once no flush is due all live
observers have seen the present values of what they read. And if moreover no computed comes to read
itself (`CalmPages`), `DomLast` (`SettledBeforeDom`) and `DomOnce` (`DrawnOnce`): watches and
computeds settle before the first position is written, and a flush writes each position once; and
`TruthShown` (`ShownIsTruth`): a page at rest is what its program says.

- That a source's subscribers and an observer's sources mirror each other is true at rest only.
  `IInv` says how far the two sides may differ in between: a run that has read something but not
  yet confirmed it stands among the subscribers, and its sources are confirmed when it ends.
  `Waits`, `Distinct` and `Alive` say whose runs are on the stack: each observer once, each
  reader waiting for the run above it, none stopped once it has been let go. The operations of
  the graph are summed up by what they take away (`Erodes`) and by what telling adds (`Tell`,
  proved by exhibiting a closed set, as the walk of `TaskTree` is), so each action is looked at
  once.
- `FreshInv` says what a clean cache is: every confirmed reading has the value its source has
  now, unless that source is itself dirty, and then the cache is dirty too (`CleanOK`); what a
  run in progress has read is backed by a subscription as long as its computed is clean in the
  books (`Backed`, `DerivingOK`); frames above it do not disturb it (`FramesOK`, `Apart`).
- `PureDerivations` is needed: a computed that writes, while it is derived, a cell it has
  already read ends clean and stale, as the code does (`graph.js:445`, listed as a hazard).
- `KnowsInv` adds what a watch or a position knows. Between its runs it `Minds` what it has seen:
  it is queued or stopped, or each value it has seen is the present one and a source that is
  derived has not failed and is clean, queued or running - whoever would tell it is on the way.
  While its expression is evaluated what it has read is `Backed`, as in a derivation; from the
  moment its body runs it minds it. `ShapeOK` says where an answer can go: to the frame below,
  and only while that one is evaluated, so the reader that the end of a computed does not tell
  (`graph.js:500`) is the one that gets the answer. `MindsStay` says once what a step may take
  away; `AnswerStands` that a computed which derived an answer for somebody is clean when it
  ends.
- `ReadsOnly` is needed where a page at rest is concerned because what has been read is then
  known to be so until the run ends; a run that writes what it has itself read is notified
  while it runs, up to its cap. TLC finds `AtRestCurrent` to hold on the page that does so
  (`Storm`) as well.
- `Settling` is what a flush needs to settle before it writes, and `CalmPages` what it asks of
  the pages: expressions only read, and a rank of the computeds falls with every read
  (`NoCircle`). The rank falls along the stack (`Ordered`), so no computed is read while it runs
  and none is ever taken for recursive. Each dirty computed is queued, running or unobserved
  (`Awaited`): whatever telling marks for somebody it queues, and whatever loses its last
  subscriber drops out. A pass that has run no watch yet knows all live watches that are queued
  (`PassOK`), so when it ends the queue holds positions, and watches that were stopped, only.
  From then on the flush is `Quiet`: what runs reads, a computed derived for a reader has that
  reader as its only subscriber, so its end tells nobody (`TellNobody`), and no position that
  was drawn is queued again.

- `TruthShown` (`ShownIsTruth`) is the theorem all this is for. The other invariants speak of what
  the runtime tracks, and would hold of a runtime that tracked the wrong things; this one compares
  what is cached and shown with what the code of each observer (`Code`), fed with the present
  values (`Gets`), would yield. It holds for every page of `CalmPages`. The inductive invariant is
  `Truth`: `KnowsInv` and `Settling`, and
  * `Descends` and `Levels`: subscriptions fall in rank, and what a clean computed or a run subscribes
    to is itself clean or stopped (`Up`), but for the one being derived for it. So the values an
    observer has read are not only the present ones of its sources, these are themselves derived
    from the present cells, down to the cells;
  * `TracesOK`: the answers on which the code of a run goes on are those of the reads it asked for
    (`Follows`), the second half of a watch started from what the first yielded, and a run that
    creates a position waits for that one;
  * `ThrownOK` and `FailuresOK`: nothing throws without a reason in the code (`MayFail`,
    `Fallible`), nor, where somebody will ask again, without one that lasts (`Reason`): a failed
    source it stays subscribed to;
  * `ValuesOK` and `SightsOK`: each clean computed holds what its code yields on what it has read
    (`Yielded`), or failed for such a reason (`FailedOn`), and the same of each live watch and
    position that is not running or queued.

  Each step is first summed up by what it does to the stack (`StackSteps`) and, unless it ends a
  run, to the graph (`Onward`: who is not running and not to run loses no subscription), so the
  long cases are the ends of a derivation and of an observer. `TruthIsShown` then replaces
  "has read" by "would read now": `CleanIsCurrent` and `AtRestCurrent` say that each reading stands.
  `Descends` and `Levels` are where `NoCircle` is needed, `ValuesOK` where `ReadsOnly` is. TLC
  checked `Truth` on the four pages before it was proved.

Every invariant that the runs check is proved, and every action property and refinement. Only
model-checked is liveness (`SettlesUnlessStuck`, `TaskEnds`, `StopEnds`, `TimeoutEnds`,
`WaitersAnswered`, `Ends`, `StuckIsFound`, `CancelEnds`): fairness and `ENABLED` are out of the
prover's reach. No recursive definition is proved about: the walk of
`TaskTree` is a least fixed point, and no proof unfolds the fold of `BuildClaims`.

## 5. Plan

Done: the modules above, their runs, and the proofs of `Channel` and `BuildClaims` (with their
refinements), `TaskTree`, `Workers`, `FlushWindow`, `StandaloneOutput`, `RealtimeClient` and
`Reactive` (structure, caches, what observers have seen, the order of a flush, and that a page at
rest is what its program says).

Next, in this order:

1. `AsyncHandles`: `Resource` and `Action` (`emitted-async.js`, `graph.js:540-573`); only the
   newest generation of a live handle writes.
2. The composition of `BuildClaims` with `StandaloneOutput`: the transaction assumes one build
   at a time over its outputs, which is what `BuildOwnership` promises.
3. `RealtimeClient` with callbacks that call the client, and with `send`; the server end
   as its peer.
4. Async combinators, process reaper, listener shutdown.
5. Incremental checking of a project and the language server's documents, as caches with an
   abstract "always fresh" specification.

Proofs after that: what the liveness properties rest on, as measures that every step of a flush
or of a cancellation lowers.

## 6. Not modelled, and why

Compiler passes and the pure core library are deterministic functions of their input and have
tests of their own. Node, server and desktop runtimes and the language server are in the plan
above. Native desktop code and generated sources are out. Within modelled components:
collections and deep tracking of the graph, ownership of resources inside values, the path,
size and format checks of the standalone transaction, `send` and backpressure of sockets,
and the wording of every message.
