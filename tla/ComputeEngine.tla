---------------------------- MODULE ComputeEngine ----------------------------
(* ComputeEngine (engine.rs): loading, restarting and unloading the worker *)
(* process, down to the handshake of launch_and_handshake                  *)
(* (worker_supervisor.rs).  The methods take &mut self, so one call runs   *)
(* at a time; the workers and the event readers run beside it.             *)
(*                                                                         *)
(* A supervisor is known here by the worker it owns and by what            *)
(* WorkerSupervisor shows of it: a phase, a registry that is empty or not, *)
(* and a Drop that kills the worker, fails its requests and joins its      *)
(* threads.  A call that is refused changes nothing and is not an action.  *)
EXTENDS Naturals

CONSTANTS Images,       \* image hashes in the model store
          NoImage,
          RestartLimit, \* policy.restart_limit
          MaxLaunches,  \* bound: worker processes ever spawned
          EnvBinary     \* TRUE: TRIBUNUS_WORKER_BINARY is set

ASSUME EngineAssumption ==
    /\ NoImage \notin Images
    /\ RestartLimit \in Nat
    /\ MaxLaunches \in Nat
    /\ EnvBinary \in BOOLEAN

Workers == 1 .. MaxLaunches
NoWorker == 0

VARIABLES worker_supervisor,  \* the worker the engine's supervisor owns
          loaded_model, restart_count,
          worker_binary_path, \* "None" or "Some"
          op, step,           \* the call in progress and where it stands
          target,             \* the image it launches a worker for
          fresh,              \* the worker of a supervisor it holds in a local variable
          launched,           \* workers spawned so far
          image, proc,        \* per worker: what it serves, is it alive
          phase,              \* runtime_state.phase
          busy,               \* workers whose registry is not empty
          shaken,             \* workers whose handshake_complete flag is set
          watched,            \* workers whose watchdog thread runs
          reader,             \* event reader threads
          heard               \* the last frame that mattered to the handshake and the load

engineVars == <<worker_supervisor, loaded_model, restart_count, worker_binary_path>>
callVars   == <<op, step, target, fresh>>
threadVars == <<shaken, watched, reader, heard>>
workerVars == <<launched, image, proc, phase, busy>>
vars       == <<engineVars, callVars, workerVars, threadVars>>

Phase == {"Absent", "Warming", "Ready", "Failed", "Stopped"}
Frame == {"none", "HelloAck", "Heartbeat", "RoutesValidated", "ModelReady"}

Init ==
    /\ worker_supervisor = NoWorker
    /\ loaded_model = NoImage
    /\ restart_count = 0
    /\ worker_binary_path = "None"
    /\ op = "idle" /\ step = "idle"
    /\ target = NoImage
    /\ fresh = NoWorker
    /\ launched = 0
    /\ image = [w \in Workers |-> NoImage]
    /\ proc = [w \in Workers |-> "unborn"]
    /\ phase = [w \in Workers |-> "Absent"]
    /\ busy = {}
    /\ shaken = {}
    /\ watched = {}
    /\ reader = [w \in Workers |-> "gone"]
    /\ heard = [w \in Workers |-> "none"]

-----------------------------------------------------------------------------
(* Steps several calls share.                                              *)

Return ==
    /\ op' = "idle" /\ step' = "idle"
    /\ target' = NoImage
    /\ fresh' = NoWorker

\* Mutant: the old supervisor is forgotten, not dropped.
Discard_Forget(w) ==
    /\ busy' = busy \ {w}
    /\ UNCHANGED <<proc, phase, watched, reader>>

\* Drop of a WorkerSupervisor: kill, fail_all, join_threads.
Discard(w) ==
    /\ proc' = [proc EXCEPT ![w] = "exited"]
    /\ phase' = [phase EXCEPT ![w] = "Stopped"]
    /\ busy' = busy \ {w}
    /\ watched' = watched \ {w}
    /\ reader' = [reader EXCEPT ![w] = "gone"]

-----------------------------------------------------------------------------
(* The calls.                                                              *)

set_worker_binary_path ==
    /\ op = "idle"
    /\ worker_binary_path' = "Some"
    /\ UNCHANGED <<worker_supervisor, loaded_model, restart_count, callVars, workerVars,
                   threadVars>>

\* Refused when there is a supervisor, the store or its seal says no, or no
\* binary is known.
load_model(i) ==
    /\ op = "idle"
    /\ worker_supervisor = NoWorker
    /\ worker_binary_path = "Some" \/ EnvBinary
    /\ op' = "load" /\ step' = "spawn"
    /\ target' = i
    /\ UNCHANGED <<fresh, engineVars, workerVars, threadVars>>

\* Mutant: one restart too many.
ensure_active_worker_OneMore ==
    IF phase[worker_supervisor] = "Failed"
    THEN /\ restart_count <= RestartLimit
         /\ restart_count' = restart_count + 1
         /\ step' = "drop"
    ELSE step' = "start" /\ UNCHANGED restart_count

\* The phase is looked at once.
ensure_active_worker ==
    IF phase[worker_supervisor] = "Failed"
    THEN /\ restart_count < RestartLimit
         /\ restart_count' = restart_count + 1
         /\ step' = "drop"
    ELSE step' = "start" /\ UNCHANGED restart_count

\* Refused for a bad token, by the policy, without a supervisor, and at the
\* restart limit.
generate ==
    /\ op = "idle"
    /\ worker_supervisor # NoWorker
    /\ op' = "generate"
    /\ ensure_active_worker
    /\ UNCHANGED <<worker_supervisor, loaded_model, worker_binary_path, target, fresh, workerVars,
                   threadVars>>

\* restart_worker: the old worker goes first; the binary named by the
\* environment is not looked up again.
restart_worker ==
    /\ step = "drop"
    /\ Discard(worker_supervisor)
    /\ worker_supervisor' = NoWorker
    /\ IF worker_binary_path = "Some" /\ loaded_model # NoImage
       THEN step' = "spawn" /\ target' = loaded_model /\ UNCHANGED <<op, fresh>>
       ELSE Return
    /\ UNCHANGED <<loaded_model, restart_count, worker_binary_path, launched, image, shaken, heard>>

\* The rest of generate: ModelBusy, the checks of start_generation, the write.
start_generation ==
    /\ step = "start"
    /\ LET w == worker_supervisor
           starts == w \notin busy /\ phase[w] = "Ready" /\ proc[w] = "running"
       IN  busy' = IF starts THEN busy \cup {w} ELSE busy
    /\ Return
    /\ UNCHANGED <<engineVars, launched, image, proc, phase, threadVars>>

\* The supervisor is taken out; its requests are cancelled, the worker told to
\* leave.
unload_model ==
    /\ op = "idle"
    /\ worker_supervisor # NoWorker
    /\ op' = "unload" /\ step' = "teardown"
    /\ fresh' = worker_supervisor
    /\ worker_supervisor' = NoWorker
    /\ UNCHANGED <<target, loaded_model, restart_count, worker_binary_path, workerVars, threadVars>>

unload_done ==
    /\ step = "teardown"
    /\ Discard(fresh)
    /\ loaded_model' = NoImage
    /\ restart_count' = 0
    /\ Return
    /\ UNCHANGED <<worker_supervisor, worker_binary_path, launched, image, shaken, heard>>

shutdown ==
    /\ op = "idle"
    /\ IF worker_supervisor # NoWorker THEN Discard(worker_supervisor)
       ELSE UNCHANGED <<proc, phase, busy, watched, reader>>
    /\ worker_supervisor' = NoWorker
    /\ loaded_model' = NoImage
    /\ restart_count' = 0
    /\ UNCHANGED <<worker_binary_path, callVars, launched, image, shaken, heard>>

-----------------------------------------------------------------------------
(* launch_and_handshake.                                                   *)

\* Child, event reader; Hello is on its way.
spawn ==
    /\ step = "spawn"
    /\ launched < MaxLaunches
    /\ LET w == launched + 1
       IN  /\ launched' = w
           /\ fresh' = w
           /\ image' = [image EXCEPT ![w] = target]
           /\ proc' = [proc EXCEPT ![w] = "running"]
           /\ reader' = [reader EXCEPT ![w] = "read"]
    /\ step' = "hello"
    /\ UNCHANGED <<op, target, engineVars, phase, busy, shaken, watched, heard>>

spawn_fails ==
    /\ step = "spawn"
    /\ Return
    /\ UNCHANGED <<engineVars, workerVars, threadVars>>

hello_acked ==
    /\ step = "hello"
    /\ heard[fresh] = "HelloAck"
    /\ step' = "acked"
    /\ UNCHANGED <<op, target, fresh, engineVars, workerVars, threadVars>>

\* Hello is not written, another frame comes first, or HANDSHAKE_TIMEOUT: an
\* early return, there is no supervisor yet whose Drop would kill the child.
hello_fails ==
    /\ step = "hello"
    /\ heard[fresh] # "HelloAck"
    /\ Return
    /\ UNCHANGED <<engineVars, workerVars, threadVars>>

\* handshake_complete.store(true), drop(handshake_rx), the watchdog; then
\* LoadModel is written by the supervisor's load_model.
handshake_done ==
    /\ step = "acked"
    /\ shaken' = shaken \cup {fresh}
    /\ watched' = watched \cup {fresh}
    /\ step' = "loading"
    /\ UNCHANGED <<op, target, fresh, engineVars, workerVars, reader, heard>>

-----------------------------------------------------------------------------
(* The supervisor's load_model, and what the engine does with its answer.  *)

\* Mutant: a restart gives the budget of restarts back.
load_ready_Refill ==
    /\ step = "loading"
    /\ phase[fresh] = "Ready"
    /\ worker_supervisor' = fresh
    /\ loaded_model' = target
    /\ restart_count' = 0
    /\ IF op = "load" THEN Return
       ELSE step' = "start" /\ fresh' = NoWorker /\ target' = NoImage /\ UNCHANGED op
    /\ UNCHANGED <<worker_binary_path, workerVars, threadVars>>

\* Mutant: the model of an earlier load is kept.
load_ready_KeepsModel ==
    /\ step = "loading"
    /\ phase[fresh] = "Ready"
    /\ worker_supervisor' = fresh
    /\ IF op = "load"
       THEN /\ loaded_model' = IF loaded_model = NoImage THEN target ELSE loaded_model
            /\ restart_count' = 0
            /\ Return
       ELSE /\ step' = "start" /\ fresh' = NoWorker /\ target' = NoImage
            /\ UNCHANGED <<op, loaded_model, restart_count>>
    /\ UNCHANGED <<worker_binary_path, workerVars, threadVars>>

load_ready ==
    /\ step = "loading"
    /\ phase[fresh] = "Ready"
    /\ worker_supervisor' = fresh
    /\ IF op = "load"
       THEN loaded_model' = target /\ restart_count' = 0 /\ Return
       ELSE /\ step' = "start" /\ fresh' = NoWorker /\ target' = NoImage
            /\ UNCHANGED <<op, loaded_model, restart_count>>
    /\ UNCHANGED <<worker_binary_path, workerVars, threadVars>>

\* Mutant: the poll has no deadline.
load_fails_NoDeadline ==
    /\ step = "loading"
    /\ phase[fresh] = "Failed" \/ proc[fresh] = "exited"
    /\ Discard(fresh)
    /\ Return
    /\ UNCHANGED <<engineVars, launched, image, shaken, heard>>

\* Faulted, exited, or model_load_timeout (looked at first): the supervisor
\* goes out of scope.
load_fails ==
    /\ step = "loading"
    /\ Discard(fresh)
    /\ Return
    /\ UNCHANGED <<engineVars, launched, image, shaken, heard>>

-----------------------------------------------------------------------------
(* The event reader of a worker, and the worker.                           *)

\* The receiving end of the handshake channel lives as long as the wait.
ReceiverAlive(w) == w = fresh /\ step \in {"hello", "acked"}

\* A frame is read and the flag is found unset.
reader_loads_flag(w, f) ==
    /\ reader[w] = "read"
    /\ w \notin shaken
    /\ f = "HelloAck" => heard[w] # "HelloAck"
    /\ reader' = [reader EXCEPT ![w] = f]
    /\ UNCHANGED <<engineVars, callVars, workerVars, shaken, watched, heard>>

\* The frame is forwarded, or nobody listens any more: the thread just ends.
reader_forwards(w) ==
    /\ reader[w] \in {"HelloAck", "Heartbeat"}
    /\ IF ReceiverAlive(w)
       THEN /\ reader' = [reader EXCEPT ![w] = "read"]
            /\ heard' = [heard EXCEPT ![w] = IF @ = "none" THEN reader[w] ELSE @]
       ELSE reader' = [reader EXCEPT ![w] = "gone"] /\ UNCHANGED heard
    /\ UNCHANGED <<engineVars, callVars, workerVars, shaken, watched>>

\* The answers to LoadModel.  They may come late: Failed is overwritten.
reader_lifecycle(w, from, to, p) ==
    /\ reader[w] = "read"
    /\ w \in shaken
    /\ heard[w] = from
    /\ heard' = [heard EXCEPT ![w] = to]
    /\ phase' = [phase EXCEPT ![w] = p]
    /\ UNCHANGED <<engineVars, callVars, launched, image, proc, busy, shaken, watched, reader>>

reader_routes_validated(w) == reader_lifecycle(w, "HelloAck", "RoutesValidated", "Warming")
reader_model_ready(w)      == reader_lifecycle(w, "RoutesValidated", "ModelReady", "Ready")

\* A terminal event.
reader_terminal(w) ==
    /\ reader[w] = "read"
    /\ w \in busy
    /\ busy' = busy \ {w}
    /\ UNCHANGED <<engineVars, callVars, launched, image, proc, phase, threadVars>>

\* The reader gives up (dead worker, bad frame, WorkerFatal), or the watchdog
\* declares the fault.
fault(w) ==
    /\ \/ reader[w] = "read" /\ reader' = [reader EXCEPT ![w] = "gone"] /\ UNCHANGED watched
       \/ w \in watched /\ watched' = watched \ {w} /\ UNCHANGED reader
    /\ phase' = [phase EXCEPT ![w] = "Failed"]
    /\ busy' = busy \ {w}
    /\ UNCHANGED <<engineVars, callVars, launched, image, proc, shaken, heard>>

worker_exits(w) ==
    /\ proc[w] = "running"
    /\ proc' = [proc EXCEPT ![w] = "exited"]
    /\ UNCHANGED <<engineVars, callVars, launched, image, phase, busy, threadVars>>

-----------------------------------------------------------------------------
\* What a call does once it has begun.
CallStep ==
    \/ restart_worker \/ start_generation \/ unload_done
    \/ spawn \/ spawn_fails \/ hello_acked \/ hello_fails \/ handshake_done
    \/ load_ready \/ load_fails

Next ==
    \/ set_worker_binary_path \/ generate \/ unload_model \/ shutdown
    \/ \E i \in Images : load_model(i)
    \/ CallStep
    \/ \E w \in Workers :
          \/ \E f \in {"HelloAck", "Heartbeat"} : reader_loads_flag(w, f)
          \/ reader_forwards(w) \/ reader_routes_validated(w) \/ reader_model_ready(w)
          \/ reader_terminal(w) \/ fault(w) \/ worker_exits(w)

Spec == Init /\ [][Next]_vars

(* A call goes on once it has begun: its waits all have a timeout.  Nothing *)
(* is assumed of the worker or of the caller.                              *)
FairSpec == Spec /\ WF_vars(CallStep)

-----------------------------------------------------------------------------
(* Types, and the bound on restarts: generate never respawns a worker more *)
(* than policy.restart_limit times.                                        *)
TypeOK ==
    /\ worker_supervisor \in Workers \cup {NoWorker}
    /\ loaded_model \in Images \cup {NoImage}
    /\ restart_count \in 0 .. RestartLimit
    /\ worker_binary_path \in {"None", "Some"}
    /\ op \in {"idle", "load", "generate", "unload"}
    /\ step \in {"idle", "drop", "start", "spawn", "hello", "acked", "loading", "teardown"}
    /\ target \in Images \cup {NoImage}
    /\ fresh \in Workers \cup {NoWorker}
    /\ launched \in 0 .. MaxLaunches
    /\ image \in [Workers -> Images \cup {NoImage}]
    /\ proc \in [Workers -> {"unborn", "running", "exited"}]
    /\ phase \in [Workers -> Phase]
    /\ busy \in SUBSET Workers
    /\ shaken \in SUBSET Workers
    /\ watched \in SUBSET Workers
    /\ reader \in [Workers -> {"read", "HelloAck", "Heartbeat", "gone"}]
    /\ heard \in [Workers -> Frame]

(* The worker that answers serves the model the engine says is loaded,     *)
(* after any number of failed restarts, loads of other models and unloads. *)
ServesLoadedModel ==
    worker_supervisor # NoWorker =>
        loaded_model \in Images /\ image[worker_supervisor] = loaded_model

(* What the engine has let go of is dead: a worker outside its supervisor  *)
(* and the call in progress has no request, and it runs only if its        *)
(* handshake failed (that early return leaves the child behind).           *)
NothingLeftBehind ==
    \A w \in Workers \ {worker_supervisor, fresh} :
        w \notin busy /\ (proc[w] = "running" => w \notin shaken)

(* A worker that keeps failing does not get its budget of restarts back by *)
(* being restarted: of the two uses of the launch, only load_model's       *)
(* resets restart_count (and unload_model and shutdown do).                *)
RestartsUseUpBudget ==
    [][op # "load" /\ restart_count' < restart_count => loaded_model' = NoImage]_vars

(* Every call returns, whatever the worker does or does not do.            *)
CallsReturn == op # "idle" ~> op = "idle"

(* "return a fully initialized supervisor with the event-reader and        *)
(* watchdog threads already running" (launch_and_handshake): once the      *)
(* handshake is over the reader ends only when the worker is marked        *)
(* faulted or is shut down.                                                *)
ReaderOutlivesHandshake ==
    \A w \in shaken : reader[w] = "gone" => phase[w] \in {"Failed", "Stopped"}
=============================================================================
