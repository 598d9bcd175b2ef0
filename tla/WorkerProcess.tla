---------------------------- MODULE WorkerProcess ----------------------------
(***************************************************************************)
(* The worker subprocess (bin/tribunus-compute-worker.rs): a command       *)
(* thread that reads stdin, an inference thread behind an mpsc queue, and  *)
(* a heartbeat thread, all of which write to stdout under one lock.        *)
(*                                                                         *)
(* Left out: the frames whose handler on the host changes no state         *)
(* (ModelLoaded, ComputeImageBound ... KvArenaReady, PrefillStarted,       *)
(* PrefillCompleted, StepMetrics, traces), MemoryPressure, which only      *)
(* empties a cache, and the Hello exchange that comes before all this.     *)
(***************************************************************************)
EXTENDS WorkerProtocol

CONSTANTS MaxTokens,    \* bound: tokens of one generation
          Scenario      \* bound: what may happen beside loading and generating

\* "silence": heartbeats matter.  Without it they are never late and, having
\* no effect, are not written either.
Scenarios == {"crash", "load fails", "generation fails", "silence", "limit", "deadline",
              "close", "cancel", "unload", "drop"}

ASSUME MaxTokensAssumption == MaxTokens \in Nat \ {0}
ASSUME ScenarioAssumption == Scenario \subseteq Scenarios

VARIABLES stdin,        \* host to worker pipe
          stdout,       \* worker to host pipe
          proc,         \* "running", "killed" (SIGKILL is on its way) or "exited"
          workerView,   \* the command thread's ProtocolValidator
          cmdAlive,     \* the command thread runs and holds cmd_tx
          infQueue,     \* the mpsc queue to the inference thread
          inf,          \* what the inference thread does
          model,        \* the inference thread's model is Some
          cancel,       \* InferenceState.cancel
          shutdown,     \* the shutdown flag
          hbAlive       \* the heartbeat thread runs

pipes == <<stdin, stdout>>
workerOwn == <<workerView, cmdAlive, infQueue, inf, model, cancel, shutdown, hbAlive>>
workerVars == <<pipes, proc, workerOwn>>

\* The inference thread waits for a command, has left its loop, or generates.
InfState == [req : {NoRequest}, at : {"idle", "gone"}, tokens : {0}]
              \cup [req : Requests, at : {"generate"}, tokens : 0 .. MaxTokens]
Idle == [req |-> NoRequest, at |-> "idle", tokens |-> 0]
Gone == [req |-> NoRequest, at |-> "gone", tokens |-> 0]
Generating(r, n) == [req |-> r, at |-> "generate", tokens |-> n]

WorkerInit ==
    /\ stdin = <<>> /\ stdout = <<>>
    /\ proc = "running"
    /\ workerView = NewValidator
    /\ cmdAlive = TRUE
    /\ infQueue = <<>>
    /\ inf = Idle
    /\ model = FALSE
    /\ cancel = FALSE
    /\ shutdown = FALSE
    /\ hbAlive = TRUE

Alive == proc # "exited"

Emit(frames) == stdout' = stdout \o frames

-----------------------------------------------------------------------------
(* Command thread.                                                         *)

\* The validator refuses the frame: WorkerFatal, and the thread ends.
CommandRefused ==
    /\ Alive /\ cmdAlive /\ stdin # <<>>
    /\ ~ HostCommandOk(workerView, Head(stdin))
    /\ stdin' = Tail(stdin)
    /\ Emit(<<PlainFrame("WorkerFatal")>>)
    /\ shutdown' = TRUE
    /\ cmdAlive' = FALSE
    /\ UNCHANGED <<proc, workerView, infQueue, inf, model, cancel, hbAlive>>

CommandDispatched ==
    /\ Alive /\ cmdAlive /\ stdin # <<>>
    /\ HostCommandOk(workerView, Head(stdin))
    /\ stdin' = Tail(stdin)
    /\ workerView' = AfterHostCommand(workerView, Head(stdin))
    /\ LET f == Head(stdin)
       IN  /\ infQueue' = IF f.kind = "Ping" THEN infQueue ELSE Append(infQueue, f)
           /\ cancel' = (cancel \/ f.kind = "CancelGeneration")
           /\ Emit(CASE f.kind = "UnloadModel" -> <<PlainFrame("ModelUnloaded")>>
                     [] f.kind = "Ping" -> <<PlainFrame("Heartbeat")>>
                     [] OTHER -> <<>>)
           /\ shutdown' = (shutdown \/ f.kind = "Shutdown")
           /\ cmdAlive' = (f.kind # "Shutdown")
    /\ UNCHANGED <<proc, inf, model, hbAlive>>

-----------------------------------------------------------------------------
(* Inference thread.                                                       *)

Take(kind) ==
    /\ Alive /\ inf = Idle
    /\ infQueue # <<>>
    /\ Head(infQueue).kind = kind
    /\ infQueue' = Tail(infQueue)

InferShutdown ==
    /\ Take("Shutdown")
    /\ inf' = Gone
    /\ shutdown' = TRUE
    /\ UNCHANGED <<pipes, proc, workerView, cmdAlive, model, cancel, hbAlive>>

\* UnloadModel, whose answer the command thread has already sent, and the
\* CancelGeneration poke, which finds no session: it is None between commands.
InferUnload ==
    /\ \E kind \in {"UnloadModel", "CancelGeneration"} :
          /\ Take(kind)
          /\ model' = (model /\ kind # "UnloadModel")
          /\ cancel' = (cancel /\ kind # "UnloadModel")
    /\ UNCHANGED <<pipes, proc, workerView, cmdAlive, inf, shutdown, hbAlive>>

InferLoad ==
    /\ Take("LoadModel")
    /\ model' = TRUE
    /\ Emit(<<EpochFrame("RoutesValidated", Head(infQueue).epoch),
              EpochFrame("ModelReady", Head(infQueue).epoch)>>)
    /\ UNCHANGED <<stdin, proc, workerView, cmdAlive, inf, cancel, shutdown, hbAlive>>

InferLoadFails ==
    /\ "load fails" \in Scenario
    /\ Take("LoadModel")
    /\ Emit(<<PlainFrame("WorkerFatal")>>)
    /\ shutdown' = TRUE
    /\ inf' = Gone
    /\ UNCHANGED <<stdin, proc, workerView, cmdAlive, model, cancel, hbAlive>>

\* Mutant: GenerationStarted is not sent.
InferStart_NoStarted ==
    /\ Take("StartGeneration")
    /\ inf' = IF model /\ ~ cancel THEN Generating(Head(infQueue).req, 0) ELSE inf
    /\ UNCHANGED <<pipes, proc, workerView, cmdAlive, model, cancel, shutdown, hbAlive>>

\* Without a model the command is dropped in silence; with the cancel flag
\* up the request is answered and the flag stays up.
InferStart ==
    /\ Take("StartGeneration")
    /\ LET r == Head(infQueue).req
       IN  IF ~ model THEN UNCHANGED <<stdout, inf>>
           ELSE IF cancel
           THEN Emit(<<RequestFrame("GenerationCancelled", r)>>) /\ UNCHANGED inf
           ELSE Emit(<<RequestFrame("GenerationStarted", r)>>) /\ inf' = Generating(r, 0)
    /\ UNCHANGED <<stdin, proc, workerView, cmdAlive, model, cancel, shutdown, hbAlive>>

Finish(kind) ==
    /\ Emit(<<RequestFrame(kind, inf.req)>>)
    /\ inf' = Idle
    /\ cancel' = FALSE
    /\ UNCHANGED <<stdin, proc, workerView, cmdAlive, infQueue, model, shutdown, hbAlive>>

\* One prefill or decode step; the flag is looked at before and after it.
InferToken ==
    /\ Alive /\ inf.at = "generate"
    /\ inf.tokens < MaxTokens
    /\ IF cancel THEN Finish("GenerationCancelled")
       ELSE /\ Emit(<<RequestFrame("Token", inf.req)>>)
            /\ inf' = Generating(inf.req, inf.tokens + 1)
            /\ UNCHANGED <<stdin, proc, workerView, cmdAlive, infQueue, model, cancel, shutdown,
                           hbAlive>>

InferFails ==
    /\ "generation fails" \in Scenario
    /\ Alive /\ inf.at = "generate"
    /\ inf.tokens < MaxTokens
    /\ Finish("GenerationFailed")

\* EOS, or the output ceiling: after at least the token of the prefill.
InferCompletes ==
    /\ Alive /\ inf.at = "generate"
    /\ inf.tokens > 0
    /\ Finish("GenerationCompleted")

\* The command thread dropped its sender and the queue is drained.
InferQueueClosed ==
    /\ Alive /\ inf = Idle
    /\ infQueue = <<>> /\ ~ cmdAlive
    /\ inf' = Gone
    /\ UNCHANGED <<pipes, proc, workerView, cmdAlive, infQueue, model, cancel, shutdown, hbAlive>>

-----------------------------------------------------------------------------
(* Heartbeat thread and process exit.                                      *)

\* Bound: a heartbeat is written only when none is unread.
HeartbeatBeat ==
    /\ "silence" \in Scenario
    /\ Alive /\ hbAlive
    /\ \A i \in 1 .. Len(stdout) : stdout[i].kind # "Heartbeat"
    /\ Emit(<<PlainFrame("Heartbeat")>>)
    /\ UNCHANGED <<stdin, proc, workerOwn>>

HeartbeatStops ==
    /\ Alive /\ hbAlive /\ shutdown
    /\ hbAlive' = FALSE
    /\ UNCHANGED <<pipes, proc, workerView, cmdAlive, infQueue, inf, model, cancel, shutdown>>

\* main has joined its peers.
MainReturns ==
    /\ Alive
    /\ ~ cmdAlive /\ inf = Gone /\ ~ hbAlive
    /\ proc' = "exited"
    /\ UNCHANGED <<pipes, workerOwn>>

\* The SIGKILL arrives; or a native crash, or the kernel's OOM killer.
WorkerDies ==
    /\ Alive
    /\ proc = "killed" \/ "crash" \in Scenario
    /\ proc' = "exited"
    /\ UNCHANGED <<pipes, workerOwn>>

WorkerNext ==
    \/ CommandRefused \/ CommandDispatched
    \/ InferShutdown \/ InferUnload \/ InferLoad \/ InferLoadFails
    \/ InferStart \/ InferToken \/ InferFails \/ InferCompletes \/ InferQueueClosed
    \/ HeartbeatBeat \/ HeartbeatStops \/ MainReturns \/ WorkerDies
=============================================================================
