# A TLA+ model of the Tribunus compute runtime

This directory specifies the control logic of `compute-native/compute-core`: how a
host process supervises an inference worker subprocess, how the events of a
generation reach the caller, and how requests are admitted, scheduled in batches and
answered. It holds TLA+ modules, the TLC configurations that
check them on small instances, and proofs that TLAPS checks for every instance.
Paths below are relative to `compute-native/compute-core/src/` unless they start
with `docs/`.

## The system

| Component | State | Operations | What makes it correct |
|---|---|---|---|
| generation event channel (`streaming.rs`) | a bounded deque, one condition variable, `closed`, `sender_alive`, `terminal_seen` | `try_send`, `blocking_send`, `send_terminal`, `recv`, `try_recv`, `close`, two `Drop`s | in order, once, nothing behind a terminal event; bounded; nobody sleeps who has work |
| worker protocol (`worker_protocol.rs`) | per side a `ProtocolValidator`: known and terminal requests | `validate_host_command`, `validate_worker_event` | each side accepts what the other legitimately sends |
| worker process (`bin/tribunus-compute-worker.rs`) | model, cancel and shutdown flags, command queue | command, inference and heartbeat threads | one terminal frame for each started generation |
| worker supervisor (`worker_supervisor.rs`) | phase, load epoch, heartbeat age, active-request registry | `start_generation`, `cancel_generation`, `load_model`, `unload_model`, `shutdown`, `Drop`, event reader, watchdog | exactly one terminal event per accepted request; faults noticed; drop terminates and strands nobody |
| crash recovery (`supervisor_crash.rs`, `worker_crash_ledger.rs`) | captured payloads, retry count, ledger | `capture_payloads`, `recover` | a captured request is re-run and answered once |
| compute engine (`engine.rs`) | supervisor, loaded model, restart count | `load_model`, `unload_model`, `generate`, `cancel`, `shutdown` | restarts within the limit; serves the loaded model; leaves no worker behind; returns |
| request scheduler (`scheduling/scheduler.rs`, `memory/allocator.rs`) | queue, active set, slots, saved requests, starvation counters, free pages | `enqueue`, `next_batch`, `process_results`, `preempt_lowest`, `resume`, `drain_all`, `configure_for_hardware` | a page has one owner; no request lost; slots and requests agree; nobody starves |
| token-budget scheduler (`scheduling/token_budget.rs`, `run_with_token_budget` in `engine.rs`) | run queue, budget of the cycle, active requests | `enqueue`, `schedule`, `enqueue_decode`, `reset_budget`, `complete` | prompts cut without loss, prefill before decode, calls end at their limit |
| server batching engine (`server/engine.rs`) | a scheduler, a map of pending requests, sessions, a completion channel | `enqueue`, `step`, `run_batch_loop`, `try_recv_completion` | its book and the scheduler's agree and every result is accounted for, in spite of failing steps |
| rate limiter (`server/rate_limiter.rs`) | a map of token buckets, each two atomics | `check`, `try_consume`, `refill`, `cleanup_stale` | a client is admitted at a bounded rate; `try_consume` is lock-free |
| KV block arena (`kv_arena/`) | free list, reference counts, prefix index | allocate, share, free | no block free and in use |
| arena lifecycle and pool, residency, session, model store, memory enforcer | small state machines and counters | see the source | legal transitions, bounds |

Who talks to whom: the HTTP routes (`server/routes.rs`) share one
`Arc<WorkerSupervisor>` and call `start_generation` and `cancel_generation` from any
number of threads, with UUIDs as request identifiers; `ComputeEngine` owns a
supervisor through `&mut self` and calls the identifier `gen-<prompt length>`; the
readiness gate uses one fixed identifier. The supervisor writes frames to the
worker's stdin under a lock. An event-reader thread reads its stdout, updates the
phase and the registry and forwards events to each request's channel. A watchdog
thread looks at the process, the heartbeat, memory and deadlines, and kills. Every HTTP
request first passes `rate_limit_middleware`, which calls `RateLimiter::check`. Beside
the subprocess there is a host-side path: `ComputeEngine` owns a `Scheduler`
(`run_inference_cycle`) and a `TokenBudgetScheduler` (`run_with_token_budget`), and
`ServerEngine` owns a `Scheduler` of its own and a session per request.

What is hard in it: four kinds of thread change the phase (an atomic) and the
registry (a mutex) in several steps; the process may die between any two of them
with frames still in the pipes; the watchdog acts on snapshots; the two validators
must agree; the channel signals two kinds of waiter through one condition variable
and writes flags outside its mutex. On the host-side path everything is `&mut self`, and
what is hard is that each fact is kept twice (a slot and a request, the engine's map and
the scheduler's, a page and a bitmap) and that errors return from the middle. The rate
limiter is the opposite: any number of tasks on two atomics. `PROJECT.json` lists these hazards by line.

## The modules

**`EventStream`** is the abstract specification of a channel: what was sent and what
was received, in order, once, nothing after a terminal event.

**`GenerationChannel`** models `streaming.rs`. One action is one critical section of
the queue mutex, cut at the one place where that is not atomic: between the test
of the flags and `Condvar::wait` a thread is "parking", it holds the mutex and is
not in the wait set, and the flags, which are written without the mutex, may
change. `close` and the two `Drop`s are two steps, the store and the signal.
`notify_one` wakes an arbitrary waiter. `delivered` and `bypassed` are history
variables. A refused `try_send` and an empty `try_recv` change nothing and are no
step. `ImplementsEventStream` maps `sent` to `delivered \o queue`.

**`WorkerProtocol`** holds the frames and the validator, as operators on a validator
state: whether a frame is accepted and what is recorded. A frame carries the
request it is about; the validators and the registry look only at `IdOf[req]`, so
requests that share an identifier can be told apart in a property although the
code cannot tell them apart.

**`WorkerProcess`** models the worker: the command thread that validates and
dispatches, the inference thread behind its queue, the heartbeat thread, and
process exit. Process exit may come at any moment (`WorkerDies`); a SIGKILL is two
steps, so that the host can act between sending it and the death.

**`WorkerSupervisor`** extends it with the host. Steps end where another thread can see
or change shared state: `start_generation` is check, insert, send;
`cancel_generation` is lookup, send; the watchdog is one step per section of its
loop, with the snapshot of deadlines kept in `due`; the reader is its two checks,
then one frame. Marking the supervisor faulted and failing every request are one
step (`Fault`): a step in between by another thread has the same effect as the
same step before or after. `stream` is the history of what each stream accepted; a
full stream drops an event or not, as the consumer's speed is unknown.
`captured` is what the watchdog hands to crash recovery.

**`GenerationService`** is the abstract specification of that supervisor as the callers of
`start_generation` see it, with no worker, pipe, thread or registry: a request is accepted
or refused once, its stream carries `Started`, then tokens, then one terminal event, a
consumer that kept its stream open is told `Done` only after `Started`, and losing the
worker ends every open stream with `Error` in one step. `ImplementsService` maps to it:
the operator `Life` reads a request's life off the registry, the end of its stream and the
outcome of `start_generation`; `stream` and `closed` are the supervisor's own.

**`ComputeEngine`** models `engine.rs` one level up: which supervisor the engine holds,
`loaded_model`, `restart_count`, and the calls `load_model`, `generate`,
`unload_model` and `shutdown`. A call takes `&mut self`, so there is one at a time
(`op`, `step`), cut into steps where workers and threads may come in between:
dropping the old supervisor, spawning, waiting for `HelloAck`, waiting for the load.
Each of these may fail, which returns from the call with what has been changed so
far. A supervisor is what `WorkerSupervisor` shows of it: a phase, a registry that is
empty or not, and a `Drop` that kills, drains and joins in one step (`JoinCompletes`
and `DropStrandsNobody` are the reasons that is sound). `launch_and_handshake` is
modelled here in full, with the event reader cut between loading
`handshake_complete` and forwarding the frame.

**`Scheduler`** models the continuous-batching scheduler with the free bitmap of its paged
allocator. `next_batch` is cut into the turns of its loops (`at`): polling, assigning a slot
and pages, emitting. The batch is executed by the caller, who hands it to
`process_results` or drops it on an error. `queue` and `active` are sets with the order of
`created_at` beside them (`older`), which is all that the sort, `pop` and `max_by_key` look
at. `saved` is what callers hold; `preempted` is the scheduler's own list of copies, which
`drain_all` hands out as well. `saved` has both copies as one element: a caller is assumed to
resume a request once. Requests have distinct identities (see the weaknesses for where the
code's may not). `asked` is history, the priority a request was enqueued with. Tests
and documentation are the only callers of preemption; the model lets it be called
between any two batches.

**`ServerEngine`** extends `Scheduler` by the engine that drives it. One step of the model
is one slot of the batch, because an error may return there. The scheduler
changes only through its methods, so the composition holds by construction: each step is one
of `Scheduler` or leaves it alone. `received` and `lost` count for each request the results
handed to a caller and those dropped (by a full channel, or with a loop that failed), and
`awaited` is what a `run_batch_loop` has to deliver that found the channel empty.

**`TokenBudget`** models `TokenBudgetScheduler` together with `run_with_token_budget`, its
only user. Calls follow each other; what one leaves in the queue stays. `dropped` is history:
the prompt tokens of each request that went with a batch that failed.

**`RateLimiter`** models `check` with one step per atomic operation or lock. A bucket is a
number, as an `Arc` outlives its entry in the map. `admitted`, `stored`, `lost`
(exchanges that failed), `born` and `makers` are history. The atomics are modelled as sequentially consistent: each bound speaks of
the two atomics of a bucket, which the code orders with acquire and release.

Not in these modules: in-process mode, `MemoryPressure` (it only
empties a cache), the stderr collector, traces and metrics, a full pipe blocking its
writer. `Spawning`, `Handshaking` and `Loading` are never stored by the code, so
`Phase` does not have them. `cancellation_requested` is never read in subprocess
mode: the disconnect watcher has no effect and is not modelled.

The modules named `..._proofs` hold the theorems and those named `MC...` the instances for
TLC.

## What TLC checks

| Run | Bounds | Shows |
|---|---|---|
| `channel` | 2 producers (1 blocking), capacity 2, 4 events | capacity, terminal latch, no needless waiter, refinement of `EventStream`, and `recv` returns once something is queued |
| `supervisor_end` | 2 requests, 1 token, crashes, failing loads and generations, unload, drop | exactly one terminal event, streams in order, drop strands nobody, the host accepts all its worker's frames, refinement of `GenerationService` |
| `supervisor_live` | 1 request, crash, deadline, memory and load-time limits, drop | drop returns, a death is noticed for good, a watched request ends, and ends once although the watchdog acts on a snapshot |
| `supervisor_silence` | 1 request, heartbeats, cancel, close | a silent worker is noticed |
| `engine` | 2 images, restart limit 1, 2 launches, the binary named by the environment | restarts bounded, the loaded model is the one served, no worker left behind, restarts do not refill the budget, every call returns |
| `scheduler` | 2 requests of 2 tokens, priorities 0..2, boost 1 after 1 preemption, 1 seat (2 after reconfiguration), 2 pages | pages owned once, slots match requests, nobody lost, preemption bounded by the priority asked for, every request ends |
| `server_engine` | 4 requests of 3, 2, 1 and 0 tokens, 2 seats, a channel of 2 | the two books, results accounted for, `run_batch_loop` delivers them and returns |
| `token_budget` | 4 calls with prompts of 7, 4, 2 and 1 and limits of 4, 2, 3 and 0 tokens, budget 3, 3 seats | prompts conserved, prefill first, work waits, overrun bounded, calls return |
| `rate_limiter` | 2 tasks, 1 client, capacity 2, rate 1, clock 0..2, 2 buckets | admission bounded, one bucket each, lost exchanges paid for |
| `supervisor_cancel_refused` | 1 request, cancel | violation: every `CancelGeneration` is refused by the worker |
| `supervisor_stranded` | 2 requests, deadlines | violation: a request inserted after the last drain is never ended |
| `engine_reader_race` | as `engine` | violation: the event reader ends with the handshake |

Bounds. `Scenario` says which kinds of disturbance a run has; each run has the ones
its question is about, and between them every action fires. Two requests are
enough for one request's end to disturb another; requests are interchangeable, so
the runs use their permutations as symmetry (never with liveness). One token
suffices to have an event between `Started` and the terminal one, and a stream
capacity of 1 to have events dropped. `MaxLoads` is 1 as each caller loads once. The
watchdog's repeated `Ping` and `CancelGeneration`, and heartbeats, are written only
when the last one has been read, which keeps the pipes finite without removing an
order in which they are seen. A caller cancels a request once. In the channel,
4 events on a capacity of 2 fill the queue, block a producer and leave an event
behind a terminal one. Those runs end where the modelled calls do, so deadlock is
not checked in them: a supervisor that was dropped, or whose events are bounded,
stops. In the engine's runs it is. Two launches are a load with a restart, or a failed
restart followed by a load of the other image; three launches (1.7 million states)
pass as well, and the safety properties are proved for any number.

In `scheduler` one seat makes a second request a reason to preempt, two pages with two
requests make a page change hands while the other is taken, and a boost of 1 on a scale
of 2 reaches the floor in two preemptions. In `token_budget` a prompt of 7 is cut twice and
one of 4 once; a zero-length part occurs when a unit finds the budget used up. Each
request is called once, so that run may stop. In `server_engine` two requests share a batch
while two wait, and a step can fail on the first or second slot. The channel of 2 holds one
batch, as `LoopDelivers` asks (the code has 256 and batches of 8), and overflows when `step` is
called again before its results are received; a request of 0 tokens completes with its first. `rate_limiter`
has two tasks inside `refill` for different seconds, a clock that runs backwards, and
`cleanup_stale` between a lookup and its use; `MaxTime` and `MaxBuckets` are there for TLC only,
and nothing claimed rests on refills coming to an end. The safety
properties of these modules are proved for every instance.
The type invariants of `GenerationChannel`, `RateLimiter`, `TokenBudget` and `WorkerSupervisor`
are only proved, and so is `DeadlineHitsOverdue`. `supervisor_end` has 2.4 million states without deadlines, limits and
consumers that leave, which the other two runs have; that its properties, the refinement
too, hold with them as well is covered by the proofs.

Fairness. In `GenerationChannel` a thread inside a method goes on until it returns or
waits (strong fairness, as it competes for the mutex, which parking_lot hands over
eventually); no call is assumed. In `WorkerSupervisor` the event reader, the
watchdog, a call in progress and a deadline's clock are weakly fair, since each is
a thread that polls or blocks on something that has happened, and a SIGKILL is
delivered. In `ComputeEngine` a call that has begun goes on, as each of its waits has a
timeout. Nothing is assumed of the worker, nor that anybody calls. In `Scheduler` the caller's
loop keeps asking for batches (weak fairness of each step of `next_batch`), an execution
does not fail for ever (strong fairness of `process_results`) and callers resume what they
hold (strong fairness for each request): without these the code makes no promise. In
`TokenBudget` and `ServerEngine` the thread inside a call goes on; executions may fail again
and again. Of `RateLimiter` no liveness is claimed: a fair task may lose every compare-exchange
to others that refill and take; `ExchangesPaid` says that each loss is another's progress.

### Disagreements with the documentation

1. *Cancel takes the worker down.* `validate_host_command` accepts `CancelGeneration`
   only for known requests, but only worker events add to that list, and the
   worker's validator sees none. Cancelling, unloading during a generation, and the
   watchdog's own deadline cancel all end in `WorkerFatal`, and every active request
   fails.
2. *A stranded request.* Check, insert and send in `start_generation` straddle a fault.
   The proved guarantee (below) is that such a request is still in the registry
   with an open stream; the violation is that nobody is left to end it.
3. *A reader that ends with the handshake.* A heartbeat read between `HelloAck` and
   the store of `handshake_complete` is sent to a receiver that has been dropped, and
   the event reader returns. The supervisor has no reader from then on; the load
   times out, or the watchdog finds no heartbeat.

Weaknesses that are in the models and have no run of their own:

*Identifiers.* Two prompts of one length share `gen-<n>` (`engine.rs:706`), and the host's
validator remembers terminal identifiers for ever, so it refuses the second
`GenerationCompleted` and marks the supervisor faulted, although
`worker_supervisor.rs:604-605` says identifiers must be unique. `supervisor_end` with
`IdOf <- SharedIds` and `Ids = {id}` violates `EventsAccepted`. The watchdog's snapshot is
stale in the same way: it acts by identifier after the lock is gone, so when the overdue
request has ended and a second one has been inserted under its name, the second is told
"deadline exceeded" (`DeadlineHitsOverdue` with `SharedIds`, two requests and the scenario
`{"deadline"}` is violated in 17 states).

*Compute engine.* A restart whose launch or load fails leaves `worker_supervisor` at `None` with
`loaded_model` set: later calls of `generate` answer `ModelNotLoaded`, and neither retry
nor report the limit as the doc of `generate` says. And `load_model` accepts a binary
named by `TRIBUNUS_WORKER_BINARY` that `restart_worker` does not look up, so such an
engine never restarts. The child of a failed handshake is neither killed nor reaped
(`NothingLeftBehind` excuses it), and one heartbeat ahead of `HelloAck` is enough to fail it.

*Channel.* The flags are stored and signalled without the mutex, so a waiter between its test
and its wait misses the signal. A `recv` that is parking while the sender is dropped
(`RecvPark`, `DropSender`, `DropSenderNotify`, `Wait`) waits for ever instead of returning `None`,
against `streaming.rs:337-338`; `RecvReturns` speaks only of queued events and does not see it.
The registry drops a sender behind a terminal event, which that `recv` then finds, so it takes
a sender dropped without one. In the same way a `blocking_send` misses `close`, against
`streaming.rs:227-228`, but it has no caller outside its module; with two
blocking producers `notify_one` can wake the other producer while an event
is queued (so `WaitersCorrect` assumes `OneBlocker`, and the run has one), and
`blocking_send` queues on a closed channel that has room.

*Scheduler.* `next_batch` pops the highest priority value first, which by the doc at
`scheduling/scheduler.rs:265` is the lowest priority, and the youngest within one. `resume` without a
free slot queues the request without its pages: nobody frees them and it starts again,
where the doc promises that it goes on. Starvation protection comes later than promised:
`scheduling/saved_request.rs:18-20` says that after `MAX_PREEMPTIONS_BEFORE_BOOST` (3)
preemptions a boost "effectively exempts it from further preemption", and
`scheduling/scheduler.rs:287-288` that it "protects it from further preemption".
The boost is only subtracted, so a priority value above 64, the default 128 too, is
preempted a fourth time and one above 192 a fifth; `BoundedPreemption` is what holds. Both
`preempt_lowest` and a later `drain_all` hand out a copy of one `SavedRequest`, and `resume` accepts
both: the request is then active twice and its pages have two owners. Identifiers are
nanoseconds of `SystemTime` (`scheduling/request.rs:7-10`), so two requests made in one tick of
the clock share one. The pages of requests that `drain_all` returns are not
freed either, and the starvation counters are forgotten. `max_prefill_batch` limits all
active requests, so with the defaults (8 and 64) the scheduler never reaches the
`max_batch_size` from which `preempt_lowest` acts. `configure_for_hardware` sets a prefill limit, and
`check_memory_pressure` a `max_total_tokens`, that nobody reads.

*Token budget.* A prompt longer than the budget (256) is cut, and each part starts a decode
chain of its own, so a call may generate more than `max_tokens`, where the doc at
`engine.rs:348-352` says it stops there; `OverrunBounded` says by how much. Units that a failed or
finished call leaves behind run in the next call and count as its tokens. The exit on an
empty batch is never taken (`WorkWaits`).

*Server engine.* `info.state` is `Decoding` before `prefill` has run, so after a failed prefill
the request goes on without its prompt. After a failed step slots run on for requests that
have been answered. `run_batch_loop` drops the results it has collected when a later step
fails, and a full channel drops a result although lines 207-208 call its capacity sufficient for
any step: it is when the channel is empty (`LoopDelivers`), not for a caller that steps without
receiving. The pager given to `new` never reaches the scheduler.

*Rate limiter.* The comment at `server/rate_limiter.rs:53-54` says others "see the updated token count
atomically", but the store of `refill` gives back what was consumed since its load, so
capacity plus rate times seconds is not a bound; `AdmissionBound` is what holds.
Concurrent first visits get a full bucket each, and `OneBucketEach` only says that no task
makes two; with a task per HTTP request that is as many as there are requests at once. The
loop of `try_consume` is lock-free, not wait-free. With a rate below one per second, a client that
calls every second is never refilled, since each call claims the second and gains nothing.
A clock set back stops refills until it has caught up. `cleanup_stale` has no caller.

## What is proved

All theorems hold for every value of the constants under the `ASSUME`s of the modules
(a producer set, a positive capacity, identifiers for requests).

`GenerationChannel_proofs`
- `TypeCorrect`, `CapacityCorrect`, `TerminalCorrect`: by an inductive invariant each.
  The terminal latch needs that `terminal_seen` is set once a terminal event has been
  delivered.
- `WaitersCorrect`, for at most one blocking producer. `WaitersHaveReason` is not
  inductive by itself: `WaitInv` adds that a thread on its way into the wait set
  ("parking") has its reason already, and that only blocking producers get there. Then
  a push finds at most the consumer waiting and a pop at most the one producer, so
  `notify_one` wakes the thread that has something to do.
- `ChannelImplementsEventStream`: initial states map to initial states; a push is a
  `Send`, a pop a `Receive`, everything else a stutter.

`WorkerSupervisor_proofs`
- `TerminalGuarantee`: `IdsUnique => (Spec => []ExactlyOneTerminal)`. The inductive
  invariant (`RequestType`, `RequestInv`) adds to the property what it says nothing
  about: calls that have not returned have an open stream too, a request not yet
  inserted has none, and a registered request is open. Every change of the registry
  or of a stream goes through four helpers (`insert`, `EndAll`, `try_send`,
  removal), for which there is one lemma each; all other actions leave the
  variables alone. It assumes nothing of the worker.
- `DropIsClean`: from `DropKill` on no call is inside `start_generation` (`&self` against
  the last reference), so the registry, once drained, stays empty.
- `DeadlinesAreFair`: expiry only moves forward, so a request in the snapshot as
  overdue is overdue when the watchdog acts; unique identifiers are needed as the
  watchdog acts by identifier.

`WorkerPipes_proofs`, about the same specification and the frames between host and worker
- `TypesHold`: `TypeOK`. `TypeInv` adds that a frame names a request wherever one is read
  from it, and that the registry is finite, as one cancel is written for each entry.
- `EventsAreAccepted` and `StreamsStartInOrder`, both under `IdsUnique`. Neither property looks
  at the pipes, and each depends on everything that is in them. `PipeInv` says, on top of
  `RequestInv`: a request's `StartGeneration` is in one place, once (with the caller, in the
  worker's input, or in the queue of its inference thread), and until that thread takes it
  nothing is heard of the request (`QueueInv`, `Unheard`); among the frames on their way to the host
  `GenerationStarted` comes before all others of its request and a terminal one after them
  (`EventInv`); an open stream of a request the host knows has its `Started`. A step then
  either moves a `StartGeneration` on, appends a frame or takes the first one, and there is
  a lemma for each.
- `CancelNeverTaken`: `Spec => []NeverCancels`. The worker never acts on a `CancelGeneration`,
  in any instance and without `IdsUnique`: the first disagreement above is no matter of timing.
- `SupervisorImplementsService`: `IdsUnique => (Spec => ImplementsService)`. Initial states map to
  initial states, and with `PipeInv` each step is one of the service's or a stutter: a fault
  is a `FailAll` (every open stream is registered), a `GenerationCompleted` a `Complete`
  (its stream is open and has `Started`, or was closed), a failed write a `Refuse`.

`ComputeEngine_proofs`
- `TypeCorrect`, `ServesLoadedModelAlways`, `NothingLeftBehindAlways`, for any images, restart
  limit and number of launches. The invariant `IInv` adds `CallInv` (where a call stands
  fixes what it holds: the supervisor is in the engine's field or in a local variable,
  never in both; a restart launches for `loaded_model`) and `ShakenInv` (a worker has
  answered Hello before it is supervised or has a request, and a number not yet spawned
  is unused). The first is what a failed step must not break; the second tells a child
  left behind by a failed handshake from every other worker.
- `BudgetIsUsedUp`: the action property, from the same invariant.

`Scheduler_proofs`
- `TypeCorrect`, `PageOwnership`, `SlotConsistency`, `RequestsConserved`, `StarvationBound`, for any
  requests, pages, limits and priorities. They need each other, so there is one invariant
  `IInv`. It adds `SlotField` (a request that is not active has no slot), `Calls` (the scheduler's
  saved requests are copies of the callers'; the batch being executed is the busy slots;
  there are free slots enough in the prefill loop: that `add_slots` makes up the difference
  is why `process_results` forgets nobody) and `Starvation`. `BoundedPreemption` alone is not
  inductive: `Starvation` says what the boosts so far have left of the priority value, and that
  a saved request carries it, counted from the priority asked for. A preemption needs a value
  above 0 after the next boost, which pays for the next summand.

`ServerEngine_proofs`
- `ServerTypeCorrect`, `BooksStayTogether`, `BooksAgreeAlways`, on top of the scheduler's `IInv`, which the
  lemma `SchedulerBelow` carries over. `SInv` says how
  far each slot is within a step: one that was executed is complete or ahead by a token in
  the engine, one that was not is ahead by none unless a step has failed. The engine is
  never behind, so the scheduler cannot free a slot before the engine completes.
- `ResultsAccountedFor` and `LoopDeliversAll`, by `RInv`. A result is made in one place and moves
  through the channel and the loop to a caller, or is counted as dropped; there is a lemma
  for each move. `Delivery` adds what the loop needs: after a drain the channel is empty, a
  batch has no more completions than it has slots (`AllFit`), so while the loop runs every
  awaited request that has left the map has its result in the channel or with the loop.

`TokenBudget_proofs`
- `TypeCorrect`, `WorkAlwaysWaits`, `Overrun`. `Seats` counts the tokens generated and the units
  still in the batch together against the limit: a batch starts below it and has at most
  `max_num_seqs` units; `Work` says where the work of a call
  below its limit is: in the queue, in the batch, or not needed as the last token was EOS.
- `PromptsConserved`: what is queued, in the batch, executed and lost of a prompt adds up
  to it. A sum over a sequence could not be reasoned about without induction; it is not
  needed, since batch and queue hold at most one prefill unit of a request each, which is
  part of the property. `PromptInv` adds that units belong to called requests, and that
  while `schedule` fills the batch a prompt is not in both: only the last unit is ever cut.
- `PromptsFirst`: `PrefillFirst` by `OrderInv`, which orders the batch and the queue behind it as
  one sequence: a unit taken into the batch keeps its place, a cut one becomes two
  neighbours, and a decode unit goes to the end.

`RateLimiter_proofs`
- `TypeCorrect`, `Admission`, `OneBucket`, `LockFree`, for any number of tasks. `Claims` counts the tasks that have claimed a
  second and not yet stored (`Pending`) against `last_refill`: each claim moves it forward by
  at least one, also when the clock was set back in between. `Paid` counts the exchanges lost
  together with the tasks that are bound to lose theirs (`Outrun`: they hold a value that is
  no longer the bucket's); a take or a store outruns at most all others.

`IdsUnique` is a hypothesis and not an `ASSUME`, since the engine breaks it.

Only model-checked: all liveness (fairness and ENABLED are outside the prover). Every
invariant, action property and refinement of the passing runs is proved.

## Plan

1. `KvBlockArena`: free list, reference counts and prefix sharing, with the proof that
   no block is free and referenced.
2. `ModelStore`: install, seal, verify and remove, with a crash between the records it
   writes.
3. Small state machines: session, arena lifecycle and pool, residency; crash recovery's
   `recover`; two loads on one supervisor (`MaxLoads = 2`).
4. The supervisor as `ComputeEngine` sees it (phase, registry empty or not, `Drop` in one
   step), a second abstract specification beside `GenerationService` that `WorkerSupervisor`
   is shown to implement.

Not planned: tensor kernels, backends and compilers (numeric code, out of TLC's
reach), compute-image and receipt formats (serialisation and hashing), the HTTP
layer's parsing, traces and benchmarks, and vendored code (`candle`, `mistralrs`,
`mlx-rs-*`, `ref`, `models`).
