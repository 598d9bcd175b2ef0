--------------------------- MODULE WorkerSupervisor ---------------------------
(***************************************************************************)
(* The host side of a worker subprocess after its handshake                *)
(* (compute-core/src/worker_supervisor.rs), composed with the worker       *)
(* itself: any number of threads in start_generation and cancel_generation *)
(* (both take &self, and the HTTP routes share one Arc), one thread that   *)
(* loads, unloads and drops the supervisor, the event-reader thread and    *)
(* the watchdog thread.                                                    *)
(*                                                                         *)
(* A step ends where another thread can see or change shared state: the    *)
(* phase (an atomic), the registry (a mutex) and the pipes.                *)
(* cancellation_requested is left out: with a subprocess nothing reads it, *)
(* so the disconnect watcher changes nothing.                              *)
(***************************************************************************)
EXTENDS WorkerProcess, FiniteSets

CONSTANTS MaxLoads,         \* bound: load_model calls on one supervisor
          StreamCapacity    \* GENERATION_CHANNEL_CAPACITY

ASSUME MaxLoadsAssumption == MaxLoads \in Nat
ASSUME StreamCapacityAssumption == StreamCapacity \in Nat \ {0}

VARIABLES phase,        \* WorkerRuntimeState.phase
          epoch,        \* WorkerRuntimeState.load_epoch
          heartbeat,    \* age of last_heartbeat: fresh, late (> timeout), lost (> timeout + 100 ms)
          registry,     \* the requests in ActiveRequestRegistry
          expiry,       \* the deadline of each: "running", "expired", "overdue" (grace is over)
          stream,       \* history: the events each stream accepted
          closed,       \* the streams their consumer has closed
          start,        \* where the start_generation call of each request is
          cancelling,   \* where the cancel_generation call of each request is
          admin,        \* where the thread that loads, unloads and drops is
          reader,       \* the event-reader thread
          hostView,     \* its ProtocolValidator
          watchdog,     \* the watchdog thread
          due,          \* the watchdog's snapshot of expired requests
          captured      \* CrashRecoveryState.payloads, and the crash is in the ledger

requestVars == <<registry, expiry, stream, closed, start, cancelling>>
hostVars == <<phase, epoch, heartbeat, requestVars, admin, reader, hostView, watchdog, due,
              captured>>
vars == <<workerVars, hostVars>>

\* Spawning, Handshaking and Loading are never stored.
Phase == {"Absent", "Warming", "Ready", "Failed", "Stopped"}

StreamEvent == {"Started", "Token", "Done", "Error", "DeadlineExceeded"}
IsTerminal(e) == e \in {"Done", "Error", "DeadlineExceeded"}

NotCrashed == [recorded |-> FALSE, payloads |-> {}]
NothingDue == [expired |-> {}, overdue |-> {}]

Init ==
    /\ WorkerInit
    /\ phase = "Absent"
    /\ epoch = 0
    /\ heartbeat = "fresh"
    /\ registry = {}
    /\ expiry = [r \in Requests |-> "running"]
    /\ stream = [r \in Requests |-> <<>>]
    /\ closed = {}
    /\ start = [r \in Requests |-> "new"]
    /\ cancelling = [r \in Requests |-> "no"]
    /\ admin = "idle"
    /\ reader = "check"
    /\ hostView = NewValidator
    /\ watchdog = "sleep"
    /\ due = NothingDue
    /\ captured = NotCrashed

-----------------------------------------------------------------------------
(* WorkerProcessControl, WorkerCommandWriter.                              *)

kill == proc' = IF proc = "running" THEN "killed" ELSE proc

\* The frame is still in the pipe.
Unread(pipe, f) == \E i \in 1 .. Len(pipe) : pipe[i] = f

\* A write fails, and is mostly ignored, once the read end is gone.
Write(frames) == stdin' = IF Alive THEN stdin \o frames ELSE stdin

\* Bound: the watchdog repeats a frame once the last one has been read and
\* no heartbeat is on its way.
WriteAgain(f) ==
    stdin' = IF Alive /\ ~ Unread(stdin, f) /\ ~ Unread(stdout, PlainFrame("Heartbeat"))
             THEN Append(stdin, f) ELSE stdin

-----------------------------------------------------------------------------
(* ActiveRequestRegistry, keyed by request_id.                             *)

Holder(id) == {r \in registry : IdOf[r] = id}

contains(id) == Holder(id) # {}

\* Duplicates silently overwrite: the old entry and its sender are dropped.
insert(r) == registry' = (registry \ Holder(IdOf[r])) \cup {r}

\* Takes the entries in S out and sends each stream its terminal event.
EndAll(S, e) ==
    /\ registry' = registry \ S
    /\ stream' = [r \in Requests |-> IF r \in S THEN Append(stream[r], e) ELSE stream[r]]

\* Mutant: the terminal event is sent as any other, and a full stream drops it.
mark_terminal_Dropped(id, e) ==
    /\ registry' = registry \ Holder(id)
    /\ stream' = [r \in Requests |-> IF r \in Holder(id) /\ Len(stream[r]) < StreamCapacity
                                     THEN Append(stream[r], e) ELSE stream[r]]

mark_terminal(id, e) == EndAll(Holder(id), e)

fail_all == EndAll(registry, "Error")

\* try_send drops the event when the stream is closed, or full: the events
\* not yet consumed are at most those accepted.
try_send(id, e) ==
    \E accept \in BOOLEAN :
        /\ \A r \in Holder(id) : /\ r \in closed => ~ accept
                                 /\ Len(stream[r]) < StreamCapacity /\ r \notin closed => accept
        /\ stream' = [r \in Requests |-> IF accept /\ r \in Holder(id)
                                         THEN Append(stream[r], e) ELSE stream[r]]

\* Mutant: the terminal events are sent and the entries stay.
Fault_KeepsEntries ==
    /\ phase' = "Failed"
    /\ registry' = registry
    /\ stream' = [r \in Requests |-> IF r \in registry THEN Append(stream[r], "Error")
                                     ELSE stream[r]]

\* mark_faulted, then fail_all.
Fault == phase' = "Failed" /\ fail_all

-----------------------------------------------------------------------------
(* start_generation.                                                       *)

\* &self: no call overlaps Drop.
Borrowed == admin \in {"idle", "loading", "unloading", "leaving", "waiting", "unloaded"}

StartCheck(r) ==
    /\ Borrowed
    /\ start[r] = "new"
    /\ start' = [start EXCEPT ![r] = IF phase = "Ready" /\ ~ contains(IdOf[r])
                                     THEN "checked" ELSE "refused"]
    /\ UNCHANGED <<workerVars, phase, epoch, heartbeat, registry, expiry, stream, closed,
                   cancelling, admin, reader, hostView, watchdog, due, captured>>

StartInsert(r) ==
    /\ start[r] = "checked"
    /\ insert(r)
    /\ start' = [start EXCEPT ![r] = "inserted"]
    /\ UNCHANGED <<workerVars, phase, epoch, heartbeat, expiry, stream, closed, cancelling,
                   admin, reader, hostView, watchdog, due, captured>>

\* The command is written, or the entry is removed and an error returned.
StartSend(r) ==
    /\ start[r] = "inserted"
    /\ Write(<<RequestFrame("StartGeneration", r)>>)
    /\ registry' = IF Alive THEN registry ELSE registry \ Holder(IdOf[r])
    /\ start' = [start EXCEPT ![r] = IF Alive THEN "returned" ELSE "refused"]
    /\ UNCHANGED <<stdout, proc, workerOwn, phase, epoch, heartbeat, expiry, stream, closed,
                   cancelling, admin, reader, hostView, watchdog, due, captured>>

\* The consumer closes or drops its stream.
CloseStream(r) ==
    /\ "close" \in Scenario
    /\ start[r] = "returned" /\ r \notin closed
    /\ closed' = closed \cup {r}
    /\ UNCHANGED <<workerVars, phase, epoch, heartbeat, registry, expiry, stream, start,
                   cancelling, admin, reader, hostView, watchdog, due, captured>>

-----------------------------------------------------------------------------
(* cancel_generation: the job is looked up, then the command is written.   *)
(* Bound: one call per request, and none for an entry that was overwritten *)
(* (its job id stays in job_index).                                        *)

CancelLookup(r) ==
    /\ "cancel" \in Scenario
    /\ Borrowed
    /\ start[r] = "returned" /\ cancelling[r] = "no"
    /\ r \in registry
    /\ cancelling' = [cancelling EXCEPT ![r] = "send"]
    /\ UNCHANGED <<workerVars, phase, epoch, heartbeat, registry, expiry, stream, closed, start,
                   admin, reader, hostView, watchdog, due, captured>>

CancelSend(r) ==
    /\ cancelling[r] = "send"
    /\ Write(<<RequestFrame("CancelGeneration", r)>>)
    /\ cancelling' = [cancelling EXCEPT ![r] = "done"]
    /\ UNCHANGED <<stdout, proc, workerOwn, phase, epoch, heartbeat, registry, expiry, stream,
                   closed, start, admin, reader, hostView, watchdog, due, captured>>

-----------------------------------------------------------------------------
(* load_model, unload_model, Drop.  Every caller of unload_model drops the *)
(* supervisor next, so it is called once.                                  *)

LoadCall ==
    /\ admin = "idle"
    /\ phase # "Failed"
    /\ epoch < MaxLoads
    /\ epoch' = epoch + 1
    /\ Write(<<EpochFrame("LoadModel", epoch + 1)>>)
    /\ admin' = IF Alive THEN "loading" ELSE "idle"
    /\ UNCHANGED <<stdout, proc, workerOwn, phase, heartbeat, requestVars, reader, hostView,
                   watchdog, due, captured>>

\* Timed out, faulted, or Ready; or the poll finds the process gone.
LoadReturns ==
    /\ admin = "loading"
    /\ admin' = "idle"
    /\ phase' \in {phase} \cup IF Alive \/ phase = "Ready" THEN {} ELSE {"Failed"}
    /\ UNCHANGED <<workerVars, epoch, heartbeat, requestVars, reader, hostView, watchdog, due,
                   captured>>

UnloadFaulted ==
    /\ "unload" \in Scenario
    /\ admin = "idle"
    /\ phase = "Failed"
    /\ fail_all
    /\ admin' = "unloaded"
    /\ UNCHANGED <<workerVars, phase, epoch, heartbeat, expiry, closed, start, cancelling,
                   reader, hostView, watchdog, due, captured>>

\* Cancels the active requests one by one, in the order of the map.
UnloadCall ==
    /\ "unload" \in Scenario
    /\ admin = "idle"
    /\ phase # "Failed"
    /\ admin' = "unloading"
    /\ \E order \in [1 .. Cardinality(registry) -> registry] :
          /\ \A i, j \in DOMAIN order : order[i] = order[j] => i = j
          /\ Write([i \in DOMAIN order |-> RequestFrame("CancelGeneration", order[i])])
    /\ UNCHANGED <<stdout, proc, workerOwn, phase, epoch, heartbeat, requestVars, reader,
                   hostView, watchdog, due, captured>>

UnloadSend ==
    /\ admin = "unloading"
    /\ admin' = "leaving"
    /\ Write(<<PlainFrame("UnloadModel")>>)
    /\ UNCHANGED <<stdout, proc, workerOwn, phase, epoch, heartbeat, requestVars, reader,
                   hostView, watchdog, due, captured>>

ShutdownSend ==
    /\ admin = "leaving"
    /\ admin' = "waiting"
    /\ Write(<<PlainFrame("Shutdown")>>)
    /\ UNCHANGED <<stdout, proc, workerOwn, phase, epoch, heartbeat, requestVars, reader,
                   hostView, watchdog, due, captured>>

\* The process has exited, or SHUTDOWN_TIMEOUT is over and it is killed.
UnloadReturns ==
    /\ admin = "waiting"
    /\ admin' = "unloaded"
    /\ kill
    /\ phase' = "Absent"
    /\ UNCHANGED <<pipes, workerOwn, epoch, heartbeat, requestVars, reader, hostView, watchdog,
                   due, captured>>

\* Drop: shutdown(), then join_threads().
DropKill ==
    /\ "drop" \in Scenario
    /\ admin \in {"idle", "unloaded"}
    /\ \A r \in Requests : start[r] \notin {"checked", "inserted"} /\ cancelling[r] # "send"
    /\ admin' = "dropping"
    /\ kill
    /\ UNCHANGED <<pipes, workerOwn, phase, epoch, heartbeat, requestVars, reader, hostView,
                   watchdog, due, captured>>

\* Mutant: shutdown() forgets fail_all.
DropDrain_NoFailAll ==
    /\ admin = "dropping"
    /\ admin' = "joining"
    /\ phase' = "Stopped"
    /\ UNCHANGED <<workerVars, epoch, heartbeat, requestVars, reader, hostView, watchdog, due,
                   captured>>

DropDrain ==
    /\ admin = "dropping"
    /\ admin' = "joining"
    /\ phase' = "Stopped"
    /\ fail_all
    /\ UNCHANGED <<workerVars, epoch, heartbeat, expiry, closed, start, cancelling, reader,
                   hostView, watchdog, due, captured>>

DropJoined ==
    /\ admin = "joining"
    /\ reader = "gone" /\ watchdog = "gone"
    /\ admin' = "gone"
    /\ UNCHANGED <<workerVars, phase, epoch, heartbeat, requestVars, reader, hostView, watchdog,
                   due, captured>>

-----------------------------------------------------------------------------
(* run_event_reader.                                                       *)

\* Mutant: the loop is left without marking the worker faulted.
ReaderCheck_Quiet ==
    /\ reader = "check"
    /\ reader' = IF Alive /\ phase # "Failed" THEN "read" ELSE "gone"
    /\ UNCHANGED <<workerVars, phase, epoch, heartbeat, requestVars, admin, hostView, watchdog,
                   due, captured>>

\* The two tests at the head of the loop.
ReaderCheck ==
    /\ reader = "check"
    /\ IF Alive /\ phase # "Failed"
       THEN reader' = "read" /\ UNCHANGED <<phase, registry, stream>>
       ELSE reader' = "gone" /\ Fault
    /\ UNCHANGED <<workerVars, epoch, heartbeat, expiry, closed, start, cancelling, admin,
                   hostView, watchdog, due, captured>>

\* read_next_event fails: end of file, or a frame the validator refuses.
ReadFails == IF stdout = <<>> THEN ~ Alive ELSE ~ WorkerEventOk(hostView, Head(stdout))

\* Mutant: end of file is taken for "nothing to read yet".
ReaderError_NoEof ==
    /\ reader = "read"
    /\ stdout # <<>> /\ ReadFails
    /\ reader' = "gone"
    /\ Fault
    /\ stdout' = Tail(stdout)
    /\ UNCHANGED <<stdin, proc, workerOwn, epoch, heartbeat, expiry, closed, start, cancelling,
                   admin, hostView, watchdog, due, captured>>

ReaderError ==
    /\ reader = "read"
    /\ ReadFails
    /\ reader' = "gone"
    /\ Fault
    /\ stdout' = IF stdout = <<>> THEN stdout ELSE Tail(stdout)
    /\ UNCHANGED <<stdin, proc, workerOwn, epoch, heartbeat, expiry, closed, start, cancelling,
                   admin, hostView, watchdog, due, captured>>

\* A stale RoutesValidated is noted and applied, a stale ModelReady is not.
PhaseAfter(f) ==
    CASE f.kind = "RoutesValidated" -> "Warming"
      [] f.kind = "ModelReady" /\ f.epoch = epoch -> "Ready"
      [] f.kind = "ModelUnloaded" -> "Absent"
      [] OTHER -> phase

OutcomeOf(kind) == IF kind = "GenerationCompleted" THEN "Done" ELSE "Error"

Dispatch(f) ==
    /\ heartbeat' = IF f.kind = "Heartbeat" THEN "fresh" ELSE heartbeat
    /\ reader' = IF f.kind = "WorkerFatal" THEN "gone" ELSE "check"
    /\ IF f.kind = "WorkerFatal" THEN Fault
       ELSE /\ phase' = PhaseAfter(f)
            /\ IF f.kind \in TerminalEvent
               THEN mark_terminal(IdOf[f.req], OutcomeOf(f.kind))
               ELSE /\ registry' = registry
                    /\ IF f.kind \in {"GenerationStarted", "Token"}
                       THEN try_send(IdOf[f.req], IF f.kind = "Token" THEN "Token" ELSE "Started")
                       ELSE stream' = stream

ReaderEvent ==
    /\ reader = "read"
    /\ stdout # <<>>
    /\ WorkerEventOk(hostView, Head(stdout))
    /\ stdout' = Tail(stdout)
    /\ hostView' = AfterWorkerEvent(hostView, Head(stdout))
    /\ Dispatch(Head(stdout))
    /\ UNCHANGED <<stdin, proc, workerOwn, epoch, expiry, closed, start, cancelling, admin,
                   watchdog, due, captured>>

-----------------------------------------------------------------------------
(* run_watchdog.                                                           *)

WatchdogFaulted ==
    /\ watchdog = "sleep"
    /\ phase = "Failed"
    /\ watchdog' = "gone"
    /\ UNCHANGED <<workerVars, phase, epoch, heartbeat, requestVars, admin, reader, hostView,
                   due, captured>>

WatchdogDead ==
    /\ watchdog = "sleep"
    /\ phase # "Failed" /\ ~ Alive
    /\ watchdog' = "gone"
    /\ captured' = [recorded |-> TRUE, payloads |-> registry]
    /\ Fault
    /\ UNCHANGED <<workerVars, epoch, heartbeat, expiry, closed, start, cancelling, admin,
                   reader, hostView, due>>

\* Mutant: the second look at the heartbeat is forgotten.
WatchdogHeartbeat_NoRecheck ==
    /\ watchdog = "sleep"
    /\ phase # "Failed" /\ Alive
    /\ watchdog' = "limits"
    /\ IF heartbeat = "fresh" THEN UNCHANGED stdin ELSE WriteAgain(PlainFrame("Ping"))
    /\ UNCHANGED <<stdout, proc, workerOwn, phase, epoch, heartbeat, requestVars, admin, reader,
                   hostView, due, captured>>

\* A late heartbeat is answered with a Ping and 50 ms of patience.
WatchdogHeartbeat ==
    /\ watchdog = "sleep"
    /\ phase # "Failed" /\ Alive
    /\ IF heartbeat = "fresh"
       THEN watchdog' = "limits" /\ UNCHANGED stdin
       ELSE watchdog' = "recheck" /\ WriteAgain(PlainFrame("Ping"))
    /\ UNCHANGED <<stdout, proc, workerOwn, phase, epoch, heartbeat, requestVars, admin, reader,
                   hostView, due, captured>>

WatchdogKill ==
    /\ watchdog' = "gone"
    /\ kill
    /\ Fault
    /\ UNCHANGED <<pipes, workerOwn, epoch, heartbeat, expiry, closed, start, cancelling, admin,
                   reader, hostView, due, captured>>

WatchdogUnresponsive == watchdog = "recheck" /\ heartbeat = "lost" /\ WatchdogKill

WatchdogPatient ==
    /\ watchdog = "recheck"
    /\ heartbeat # "lost"
    /\ watchdog' = "limits"
    /\ UNCHANGED <<workerVars, phase, epoch, heartbeat, requestVars, admin, reader, hostView,
                   due, captured>>

\* RSS above the hard ceiling, or a warm-up longer than model_load_timeout.
WatchdogLimit == "limit" \in Scenario /\ watchdog = "limits" /\ WatchdogKill

\* Mutant: the watchdog asks for a cancellation again and again.
WatchdogSnapshot_NoKill ==
    /\ watchdog = "limits"
    /\ watchdog' = "deadlines"
    /\ due' = [expired |-> {r \in registry : expiry[r] # "running"}, overdue |-> {}]
    /\ UNCHANGED <<workerVars, phase, epoch, heartbeat, requestVars, admin, reader, hostView,
                   captured>>

WatchdogSnapshot ==
    /\ watchdog = "limits"
    /\ watchdog' = "deadlines"
    /\ due' = [expired |-> {r \in registry : expiry[r] = "expired"},
               overdue |-> {r \in registry : expiry[r] = "overdue"}]
    /\ UNCHANGED <<workerVars, phase, epoch, heartbeat, requestVars, admin, reader, hostView,
                   captured>>

WatchdogCancels ==
    /\ watchdog = "deadlines"
    /\ \E r \in due.expired :
          /\ due' = [due EXCEPT !.expired = @ \ {r}]
          /\ WriteAgain(RequestFrame("CancelGeneration", r))
    /\ UNCHANGED <<stdout, proc, workerOwn, phase, epoch, heartbeat, requestVars, admin, reader,
                   hostView, watchdog, captured>>

\* Mutant: the snapshot holds the senders, and the registry is not asked again.
WatchdogDeadline_Stale ==
    /\ watchdog = "deadlines"
    /\ \E r \in due.overdue : EndAll({r}, "DeadlineExceeded")
    /\ watchdog' = "gone"
    /\ due' = NothingDue
    /\ kill
    /\ phase' = "Failed"
    /\ UNCHANGED <<pipes, workerOwn, epoch, heartbeat, expiry, closed, start, cancelling, admin,
                   reader, hostView, captured>>

\* Ends one request, kills the worker, and leaves the rest to the reader.
WatchdogDeadline ==
    /\ watchdog = "deadlines"
    /\ \E r \in due.overdue : mark_terminal(IdOf[r], "DeadlineExceeded")
    /\ watchdog' = "gone"
    /\ due' = NothingDue
    /\ kill
    /\ phase' = "Failed"
    /\ UNCHANGED <<pipes, workerOwn, epoch, heartbeat, expiry, closed, start, cancelling, admin,
                   reader, hostView, captured>>

WatchdogSleeps ==
    /\ watchdog = "deadlines"
    /\ due = NothingDue
    /\ watchdog' = "sleep"
    /\ UNCHANGED <<workerVars, phase, epoch, heartbeat, requestVars, admin, reader, hostView,
                   due, captured>>

-----------------------------------------------------------------------------
(* Time.                                                                   *)

HeartbeatAges ==
    /\ "silence" \in Scenario
    /\ heartbeat # "lost"
    /\ heartbeat' = IF heartbeat = "fresh" THEN "late" ELSE "lost"
    /\ UNCHANGED <<workerVars, phase, epoch, requestVars, admin, reader, hostView, watchdog, due,
                   captured>>

DeadlinePasses(r) ==
    /\ "deadline" \in Scenario
    /\ r \in registry
    /\ expiry[r] # "overdue"
    /\ expiry' = [expiry EXCEPT ![r] = IF @ = "running" THEN "expired" ELSE "overdue"]
    /\ UNCHANGED <<workerVars, phase, epoch, heartbeat, registry, stream, closed, start,
                   cancelling, admin, reader, hostView, watchdog, due, captured>>

-----------------------------------------------------------------------------
CallerNext(r) == StartInsert(r) \/ StartSend(r) \/ CancelSend(r)

AdminNext == LoadReturns \/ UnloadSend \/ ShutdownSend \/ UnloadReturns \/ DropDrain \/ DropJoined

ReaderNext == ReaderCheck \/ ReaderError \/ ReaderEvent

WatchdogNext ==
    \/ WatchdogFaulted \/ WatchdogDead \/ WatchdogHeartbeat \/ WatchdogUnresponsive
    \/ WatchdogPatient \/ WatchdogLimit \/ WatchdogSnapshot \/ WatchdogCancels
    \/ WatchdogDeadline \/ WatchdogSleeps

WorkerStep == WorkerNext /\ UNCHANGED hostVars

Next ==
    \/ \E r \in Requests : \/ StartCheck(r) \/ CloseStream(r) \/ CancelLookup(r)
                           \/ CallerNext(r) \/ DeadlinePasses(r)
    \/ LoadCall \/ UnloadFaulted \/ UnloadCall \/ DropKill \/ AdminNext
    \/ ReaderNext \/ WatchdogNext \/ HeartbeatAges \/ WorkerStep

Spec == Init /\ [][Next]_vars

(* The threads of the host keep running, a SIGKILL is delivered, time      *)
(* passes.  Nothing is assumed of the worker, nor that anybody calls.      *)
FairSpec ==
    /\ Spec
    /\ WF_vars(ReaderNext) /\ WF_vars(WatchdogNext) /\ WF_vars(AdminNext)
    /\ \A r \in Requests : WF_vars(CallerNext(r)) /\ WF_vars(DeadlinePasses(r))
    /\ WF_vars(proc = "killed" /\ WorkerDies /\ UNCHANGED hostVars)

-----------------------------------------------------------------------------
(* Properties.                                                             *)

TypeOK ==
    /\ stdin \in Seq(Frame) /\ stdout \in Seq(Frame) /\ infQueue \in Seq(Frame)
    /\ proc \in {"running", "killed", "exited"}
    /\ workerView \in Validator /\ hostView \in Validator
    /\ cmdAlive \in BOOLEAN /\ model \in BOOLEAN /\ cancel \in BOOLEAN
    /\ shutdown \in BOOLEAN /\ hbAlive \in BOOLEAN
    /\ inf \in InfState
    /\ phase \in Phase
    /\ epoch \in 0 .. MaxLoads
    /\ heartbeat \in {"fresh", "late", "lost"}
    /\ registry \subseteq Requests
    /\ expiry \in [Requests -> {"running", "expired", "overdue"}]
    /\ stream \in [Requests -> Seq(StreamEvent)]
    /\ closed \subseteq Requests
    /\ start \in [Requests -> {"new", "checked", "inserted", "returned", "refused"}]
    /\ cancelling \in [Requests -> {"no", "send", "done"}]
    /\ admin \in {"idle", "loading", "unloading", "leaving", "waiting", "unloaded",
                  "dropping", "joining", "gone"}
    /\ reader \in {"check", "read", "gone"}
    /\ watchdog \in {"sleep", "recheck", "limits", "deadlines", "gone"}
    /\ due \in [expired : SUBSET Requests, overdue : SUBSET Requests]
    /\ captured \in [recorded : BOOLEAN, payloads : SUBSET Requests]

\* No two requests share a request_id, as with the UUIDs of the HTTP routes.
IdsUnique == \A r, s \in Requests : IdOf[r] = IdOf[s] => r = s

Ended(r) == \E i \in 1 .. Len(stream[r]) : IsTerminal(stream[r][i])

(* The terminal guarantee: however the reader, the watchdog, an unload and *)
(* a drop race for it, a request whose start_generation returned Ok is     *)
(* either still in the registry, its stream open, or has been sent one     *)
(* terminal event, behind which nothing was sent.                          *)
ExactlyOneTerminal ==
    \A r \in Requests :
        /\ start[r] = "returned" => (r \in registry <=> ~ Ended(r))
        /\ \A i \in 1 .. Len(stream[r]) : IsTerminal(stream[r][i]) => i = Len(stream[r])

(* A stream that carries any Token carries Started before it, though a     *)
(* closed or full stream drops events (run_event_reader over the frames of *)
(* the inference thread).                                                  *)
StreamsInOrder ==
    \A r \in Requests : \A i \in 1 .. Len(stream[r]) :
        \/ IsTerminal(stream[r][i]) \/ stream[r][1] = "Started"

(* The two halves of the protocol agree: the host's ProtocolValidator      *)
(* never refuses a frame of its own worker.                                *)
EventsAccepted == stdout # <<>> /\ reader # "gone" => WorkerEventOk(hostView, Head(stdout))

\* A request between start_generation and its terminal event.
Life(r) ==
    IF r \in registry THEN "open"
    ELSE IF Ended(r) THEN "ended"
    ELSE IF start[r] = "refused" THEN "refused" ELSE "new"

(* The supervisor with its worker implements the abstract service: what a  *)
(* caller of start_generation sees of the registry, the reader, the        *)
(* watchdog, unload and drop are steps of GenerationService.               *)
Service == INSTANCE GenerationService WITH life <- [r \in Requests |-> Life(r)]
ImplementsService == Service!Spec

(* The watchdog acts on a snapshot of the deadlines, by request_id, after  *)
(* the lock is gone: only a request that is overdue is told so, if         *)
(* identifiers are distinct.  (With two requests of one identifier the     *)
(* snapshot of the first ends the second.)                                 *)
DeadlineHitsOverdue ==
    \A r \in Requests : \A i \in 1 .. Len(stream[r]) :
        stream[r][i] = "DeadlineExceeded" => expiry[r] = "overdue"

(* Dropping the supervisor strands nobody: from the drain on, the registry *)
(* stays empty, whatever the background threads still do.                  *)
DropStrandsNobody == admin \in {"joining", "gone"} => registry = {}

(* Drop returns: join_threads waits for two threads that end by themselves *)
(* once the process is killed.                                             *)
JoinCompletes == admin = "dropping" ~> admin = "gone"

(* A dead worker is noticed for good: Failed may be overwritten by a late  *)
(* ModelReady, but the phase does not stay Ready.                          *)
DeathIsNoticed == (proc = "exited") ~> [](phase # "Ready")

(* A worker that has fallen silent is noticed: heartbeats stay away for    *)
(* longer than the timeout only until the watchdog has come round, which   *)
(* kills it, or until something else has declared it faulted.              *)
SilenceIsNoticed ==
    (heartbeat = "lost" /\ watchdog # "gone")
        ~> (heartbeat # "lost" \/ proc # "running" \/ phase = "Failed")

(* While a supervising thread is left, a registered request ends: by the   *)
(* worker, by a fault, or by its deadline.                                 *)
WatchedRequestsEnd ==
    \A r \in Requests :
        (r \in registry) ~> (r \notin registry \/ (reader = "gone" /\ watchdog = "gone"))

(* "Marks faulted, fails all active requests" (run_event_reader): a        *)
(* request that is registered does not stay so for ever.                   *)
EveryRequestEnds == \A r \in Requests : (r \in registry) ~> (r \notin registry)

(* CancelGeneration is an ordinary command: the worker's ProtocolValidator *)
(* accepts what the supervisor writes.                                     *)
CommandsAccepted ==
    stdin # <<>> /\ cmdAlive => HostCommandOk(workerView, Head(stdin))
=============================================================================
