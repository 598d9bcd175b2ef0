-------------------------- MODULE WorkerPipes_proofs --------------------------
(***************************************************************************)
(* What travels between the supervisor and its worker: the types of the    *)
(* composed system, that the host's validator accepts every frame of its   *)
(* own worker, and that a stream starts with Started.  For any number of   *)
(* requests, any bounds and any scenario.                                  *)
(***************************************************************************)
EXTENDS WorkerSupervisor_proofs, FiniteSetTheorems, SequenceTheorems

GenerationEvent == {"GenerationStarted", "Token"} \cup TerminalEvent

\* A command about a generation names its request, and so does an event;
\* no other event does.
CommandFrame == {f \in Frame : f.kind \in {"StartGeneration", "CancelGeneration"} =>
                                   f.req \in Requests}
EventFrame == {f \in Frame : f.req \in Requests <=> f.kind \in GenerationEvent}

PipeType ==
    /\ stdin \in Seq(CommandFrame) /\ infQueue \in Seq(CommandFrame)
    /\ stdout \in Seq(EventFrame)

WorkerType ==
    /\ proc \in {"running", "killed", "exited"}
    /\ workerView \in Validator
    /\ cmdAlive \in BOOLEAN /\ model \in BOOLEAN /\ cancel \in BOOLEAN
    /\ shutdown \in BOOLEAN /\ hbAlive \in BOOLEAN
    /\ inf \in InfState

\* The registry is finite: it grows by one call at a time.
StreamType ==
    /\ registry \subseteq Requests /\ IsFiniteSet(registry)
    /\ stream \in [Requests -> Seq(StreamEvent)]

HostType ==
    /\ phase \in Phase
    /\ epoch \in 0 .. MaxLoads
    /\ heartbeat \in {"fresh", "late", "lost"}
    /\ admin \in {"idle", "loading", "unloading", "leaving", "waiting", "unloaded",
                  "dropping", "joining", "gone"}
    /\ reader \in {"check", "read", "gone"}
    /\ watchdog \in {"sleep", "recheck", "limits", "deadlines", "gone"}
    /\ hostView \in Validator

CallType ==
    /\ expiry \in [Requests -> {"running", "expired", "overdue"}]
    /\ closed \subseteq Requests
    /\ start \in [Requests -> {"new", "checked", "inserted", "returned", "refused"}]
    /\ cancelling \in [Requests -> {"no", "send", "done"}]
    /\ due \in [expired : SUBSET Requests, overdue : SUBSET Requests]
    /\ captured \in [recorded : BOOLEAN, payloads : SUBSET Requests]

(* TypeOK alone is not inductive: what the worker and the reader take out  *)
(* of a pipe must name a request where they use it as one, and a finite    *)
(* registry is needed to write one CancelGeneration per entry.             *)
TypeInv == PipeType /\ WorkerType /\ StreamType /\ HostType /\ CallType

-----------------------------------------------------------------------------
(* The frames both sides write (WorkerCommandWriter, the worker's writer). *)
LEMMA FrameTypes ==
    /\ \A k \in {"UnloadModel", "Shutdown", "Ping"} : PlainFrame(k) \in CommandFrame
    /\ \A n \in Nat : EpochFrame("LoadModel", n) \in CommandFrame
    /\ \A k \in {"StartGeneration", "CancelGeneration"} : \A r \in Requests :
          RequestFrame(k, r) \in CommandFrame
    /\ \A k \in {"WorkerFatal", "ModelUnloaded", "Heartbeat"} : PlainFrame(k) \in EventFrame
    /\ \A k \in {"RoutesValidated", "ModelReady"} : \A n \in Nat : EpochFrame(k, n) \in EventFrame
    /\ \A k \in GenerationEvent : \A r \in Requests : RequestFrame(k, r) \in EventFrame
<1> USE RequestsAssumption DEF MessageKind, HostCommand, WorkerEvent, TerminalEvent,
        GenerationEvent, Frame
<1>1. \A k \in {"UnloadModel", "Shutdown", "Ping"} : PlainFrame(k) \in CommandFrame
  BY DEF PlainFrame, CommandFrame
<1>2. \A n \in Nat : EpochFrame("LoadModel", n) \in CommandFrame
  BY DEF EpochFrame, CommandFrame
<1>3. \A k \in {"StartGeneration", "CancelGeneration"} : \A r \in Requests :
          RequestFrame(k, r) \in CommandFrame
  BY DEF RequestFrame, CommandFrame
<1>4. \A k \in {"WorkerFatal", "ModelUnloaded", "Heartbeat"} : PlainFrame(k) \in EventFrame
  BY DEF PlainFrame, EventFrame
<1>5. \A k \in {"RoutesValidated", "ModelReady"} : \A n \in Nat : EpochFrame(k, n) \in EventFrame
  BY DEF EpochFrame, EventFrame
<1>6. \A k \in GenerationEvent : \A r \in Requests : RequestFrame(k, r) \in EventFrame
  BY DEF RequestFrame, EventFrame
<1> QED
  BY <1>1, <1>2, <1>3, <1>4, <1>5, <1>6

\* A sequence of one or two frames.
LEMMA FewFrames ==
    ASSUME NEW S, NEW f \in S, NEW g \in S
    PROVE  <<f>> \in Seq(S) /\ <<f, g>> \in Seq(S) /\ <<>> \in Seq(S)
OBVIOUS

(* The frames that go into stdin are commands, whoever writes them.        *)
LEMMA CommandsTyped ==
    ASSUME PipeType
    PROVE  /\ \A fs \in Seq(CommandFrame) : Write(fs) => stdin' \in Seq(CommandFrame)
           /\ \A f \in CommandFrame : WriteAgain(f) => stdin' \in Seq(CommandFrame)
<1>1. stdin \in Seq(CommandFrame)
  BY DEF PipeType
<1>2. ASSUME NEW fs \in Seq(CommandFrame), Write(fs) PROVE stdin' \in Seq(CommandFrame)
  <2>1. stdin \o fs \in Seq(CommandFrame)
    BY <1>1, ConcatProperties
  <2> QED
    BY <1>1, <1>2, <2>1 DEF Write
<1>3. ASSUME NEW f \in CommandFrame, WriteAgain(f) PROVE stdin' \in Seq(CommandFrame)
  BY <1>1, <1>3 DEF WriteAgain
<1> QED
  BY <1>2, <1>3

(* unload_model writes one CancelGeneration for each entry of the finite   *)
(* registry.                                                               *)
LEMMA CancelFrames ==
    ASSUME StreamType, NEW order \in [1 .. Cardinality(registry) -> registry]
    PROVE  [i \in DOMAIN order |-> RequestFrame("CancelGeneration", order[i])] \in Seq(CommandFrame)
<1>1. Cardinality(registry) \in Nat
  BY FS_CardinalityType DEF StreamType
<1>2. \A i \in 1 .. Cardinality(registry) :
          RequestFrame("CancelGeneration", order[i]) \in CommandFrame
  BY FrameTypes DEF StreamType
<1>3. DOMAIN order = 1 .. Cardinality(registry)
  OBVIOUS
<1> QED
  BY <1>1, <1>2, <1>3

(* The worker's stdout carries events, and its queue commands.             *)
LEMMA WorkerPipeTypes ==
    ASSUME TypeInv, WorkerNext
    PROVE  PipeType' /\ WorkerType'
<1>p. /\ stdin \in Seq(CommandFrame) /\ infQueue \in Seq(CommandFrame)
      /\ stdout \in Seq(EventFrame)
  BY DEF TypeInv, PipeType
<1>w. WorkerType
  BY DEF TypeInv
<1>v. /\ Idle \in InfState /\ Gone \in InfState
      /\ \A r \in Requests, n \in 0 .. MaxTokens : Generating(r, n) \in InfState
      /\ \A x \in InfState : x.at = "generate" => x.req \in Requests /\ x.tokens \in 0 .. MaxTokens
  BY DEF InfState, Idle, Gone, Generating
<1>e. ASSUME NEW fs \in Seq(EventFrame), Emit(fs) PROVE stdout' \in Seq(EventFrame)
  BY <1>e, <1>p, ConcatProperties DEF Emit
<1>f. \A f \in EventFrame : <<f>> \in Seq(EventFrame)
  BY FewFrames
<1>1. ASSUME CommandRefused PROVE PipeType' /\ WorkerType'
  <2>1. Tail(stdin) \in Seq(CommandFrame)
    BY <1>1, <1>p DEF CommandRefused
  <2>2. <<PlainFrame("WorkerFatal")>> \in Seq(EventFrame)
    BY <1>f, FrameTypes
  <2>3. PipeType'
    BY <1>1, <1>e, <1>p, <2>1, <2>2 DEF CommandRefused, PipeType
  <2>4. WorkerType'
    BY <1>1, <1>w DEF CommandRefused, WorkerType
  <2> QED
    BY <2>3, <2>4
<1>2. ASSUME CommandDispatched PROVE PipeType' /\ WorkerType'
  <2> DEFINE f == Head(stdin)
  <2>1. stdin # <<>> /\ f \in CommandFrame /\ Tail(stdin) \in Seq(CommandFrame)
    BY <1>2, <1>p DEF CommandDispatched
  <2>2. /\ stdin' = Tail(stdin)
        /\ infQueue' = IF f.kind = "Ping" THEN infQueue ELSE Append(infQueue, f)
        /\ cancel' = (cancel \/ f.kind = "CancelGeneration")
        /\ shutdown' = (shutdown \/ f.kind = "Shutdown")
        /\ cmdAlive' = (f.kind # "Shutdown")
        /\ workerView' = workerView
        /\ UNCHANGED <<proc, inf, model, hbAlive>>
    BY <1>2 DEF CommandDispatched, AfterHostCommand
  <2>3. Emit(<<PlainFrame("ModelUnloaded")>>) \/ Emit(<<PlainFrame("Heartbeat")>>) \/ Emit(<<>>)
    BY <1>2 DEF CommandDispatched
  <2> HIDE DEF f
  <2>4. /\ <<PlainFrame("ModelUnloaded")>> \in Seq(EventFrame)
        /\ <<PlainFrame("Heartbeat")>> \in Seq(EventFrame) /\ <<>> \in Seq(EventFrame)
    BY <1>f, FrameTypes
  <2>5. stdout' \in Seq(EventFrame)
    BY <1>e, <2>3, <2>4
  <2>6. infQueue' \in Seq(CommandFrame)
    BY <1>p, <2>1, <2>2
  <2>7. PipeType'
    BY <2>1, <2>2, <2>5, <2>6 DEF PipeType
  <2>8. WorkerType'
    BY <1>w, <2>2 DEF WorkerType
  <2> QED
    BY <2>7, <2>8
<1>t. ASSUME NEW k, Take(k)
      PROVE  /\ infQueue # <<>> /\ infQueue' \in Seq(CommandFrame)
             /\ Head(infQueue) \in CommandFrame /\ Head(infQueue).kind = k
  BY <1>t, <1>p DEF Take
<1>3. ASSUME InferShutdown PROVE PipeType' /\ WorkerType'
  BY <1>3, <1>t, <1>p, <1>w, <1>v DEF InferShutdown, PipeType, WorkerType, pipes
<1>4. ASSUME InferUnload PROVE PipeType' /\ WorkerType'
  <2>1. infQueue' \in Seq(CommandFrame)
    BY <1>4, <1>t DEF InferUnload
  <2>2. model' \in BOOLEAN /\ cancel' \in BOOLEAN
    BY <1>4, <1>w DEF InferUnload, WorkerType
  <2> QED
    BY <1>4, <1>p, <1>w, <2>1, <2>2 DEF InferUnload, PipeType, WorkerType, pipes
<1>5. ASSUME InferLoad PROVE PipeType' /\ WorkerType'
  <2> DEFINE n == Head(infQueue).epoch
  <2>1. n \in Nat /\ infQueue' \in Seq(CommandFrame)
    BY <1>5, <1>t DEF InferLoad, CommandFrame, Frame
  <2>2. /\ Emit(<<EpochFrame("RoutesValidated", n), EpochFrame("ModelReady", n)>>) /\ model' = TRUE
        /\ UNCHANGED <<stdin, proc, workerView, cmdAlive, inf, cancel, shutdown, hbAlive>>
    BY <1>5 DEF InferLoad
  <2> HIDE DEF n
  <2>3. EpochFrame("RoutesValidated", n) \in EventFrame /\ EpochFrame("ModelReady", n) \in EventFrame
    BY <2>1, FrameTypes
  <2>4. stdout' \in Seq(EventFrame)
    BY <1>e, <2>2, <2>3, FewFrames
  <2> QED
    BY <1>p, <1>w, <2>1, <2>2, <2>4 DEF PipeType, WorkerType
<1>6. ASSUME InferLoadFails PROVE PipeType' /\ WorkerType'
  <2>1. infQueue' \in Seq(CommandFrame)
    BY <1>6, <1>t DEF InferLoadFails
  <2>2. stdout' \in Seq(EventFrame)
    BY <1>6, <1>e, <1>f, FrameTypes DEF InferLoadFails
  <2> QED
    BY <1>6, <1>p, <1>w, <1>v, <2>1, <2>2 DEF InferLoadFails, PipeType, WorkerType
<1>7. ASSUME InferStart PROVE PipeType' /\ WorkerType'
  <2> DEFINE r == Head(infQueue).req
  <2>1. r \in Requests /\ infQueue' \in Seq(CommandFrame)
    BY <1>7, <1>t DEF InferStart, CommandFrame
  <2>2. /\ \/ stdout' = stdout /\ inf' = inf
           \/ Emit(<<RequestFrame("GenerationCancelled", r)>>) /\ inf' = inf
           \/ Emit(<<RequestFrame("GenerationStarted", r)>>) /\ inf' = Generating(r, 0)
        /\ UNCHANGED <<stdin, proc, workerView, cmdAlive, model, cancel, shutdown, hbAlive>>
    BY <1>7 DEF InferStart
  <2> HIDE DEF r
  <2>3. /\ RequestFrame("GenerationCancelled", r) \in EventFrame
        /\ RequestFrame("GenerationStarted", r) \in EventFrame
    BY <2>1, FrameTypes DEF GenerationEvent, TerminalEvent
  <2>4. stdout' \in Seq(EventFrame)
    BY <1>e, <1>f, <1>p, <2>2, <2>3
  <2>5. inf' \in InfState
    <3>1. 0 \in 0 .. MaxTokens
      BY MaxTokensAssumption
    <3> QED
      BY <1>v, <1>w, <2>1, <2>2, <3>1 DEF WorkerType
  <2> QED
    BY <1>p, <1>w, <2>1, <2>2, <2>4, <2>5 DEF PipeType, WorkerType
<1>g. ASSUME NEW k \in TerminalEvent, inf.at = "generate", Finish(k)
      PROVE  PipeType' /\ WorkerType'
  <2>1. inf.req \in Requests
    BY <1>g, <1>v, <1>w DEF WorkerType
  <2>2. RequestFrame(k, inf.req) \in EventFrame
    BY <2>1, FrameTypes DEF GenerationEvent
  <2>3. stdout' \in Seq(EventFrame)
    BY <1>e, <1>f, <1>g, <2>2 DEF Finish
  <2> QED
    BY <1>g, <1>p, <1>v, <1>w, <2>3 DEF Finish, PipeType, WorkerType
<1>8. ASSUME InferToken PROVE PipeType' /\ WorkerType'
  <2>1. CASE cancel
    BY <1>8, <1>g, <2>1 DEF InferToken, TerminalEvent
  <2>2. CASE ~ cancel
    <3>1. /\ inf.at = "generate" /\ inf.tokens < MaxTokens
          /\ Emit(<<RequestFrame("Token", inf.req)>>) /\ inf' = Generating(inf.req, inf.tokens + 1)
          /\ UNCHANGED <<stdin, proc, workerView, cmdAlive, infQueue, model, cancel, shutdown,
                         hbAlive>>
      BY <1>8, <2>2 DEF InferToken
    <3>2. inf.req \in Requests /\ inf.tokens \in 0 .. MaxTokens
      BY <3>1, <1>v, <1>w DEF WorkerType
    <3>3. inf.tokens + 1 \in 0 .. MaxTokens
      BY <3>1, <3>2, MaxTokensAssumption
    <3>4. inf' \in InfState
      BY <1>v, <3>1, <3>2, <3>3
    <3>5. RequestFrame("Token", inf.req) \in EventFrame
      BY <3>2, FrameTypes DEF GenerationEvent
    <3>6. stdout' \in Seq(EventFrame)
      BY <1>e, <1>f, <3>1, <3>5
    <3> QED
      BY <1>p, <1>w, <3>1, <3>4, <3>6 DEF PipeType, WorkerType
  <2> QED
    BY <2>1, <2>2
<1>9. ASSUME InferFails \/ InferCompletes PROVE PipeType' /\ WorkerType'
  BY <1>9, <1>g DEF InferFails, InferCompletes, TerminalEvent
<1>10. ASSUME InferQueueClosed PROVE PipeType' /\ WorkerType'
  BY <1>10, <1>p, <1>w, <1>v DEF InferQueueClosed, PipeType, WorkerType, pipes
<1>11. ASSUME HeartbeatBeat PROVE PipeType' /\ WorkerType'
  <2>1. stdout' \in Seq(EventFrame)
    BY <1>11, <1>e, <1>f, FrameTypes DEF HeartbeatBeat
  <2> QED
    BY <1>11, <1>p, <1>w, <2>1 DEF HeartbeatBeat, PipeType, WorkerType, workerOwn
<1>12. ASSUME HeartbeatStops PROVE PipeType' /\ WorkerType'
  BY <1>12, <1>p, <1>w DEF HeartbeatStops, PipeType, WorkerType, pipes
<1>13. ASSUME MainReturns \/ WorkerDies PROVE PipeType' /\ WorkerType'
  BY <1>13, <1>p, <1>w DEF MainReturns, WorkerDies, PipeType, WorkerType, pipes, workerOwn
<1> QED
  BY <1>1, <1>2, <1>3, <1>4, <1>5, <1>6, <1>7, <1>8, <1>9, <1>10, <1>11, <1>12, <1>13
     DEF WorkerNext

(* The host's side of the pipes, and its kill.                             *)
LEMMA PipeTypeStep ==
    ASSUME TypeInv, [Next]_vars
    PROVE  PipeType' /\ WorkerType'
<1>p. PipeType /\ WorkerType
  BY DEF TypeInv
<1>q. ASSUME stdin' \in Seq(CommandFrame), stdout' = stdout, UNCHANGED <<proc, workerOwn>>
      PROVE  PipeType' /\ WorkerType'
  BY <1>p, <1>q DEF PipeType, WorkerType, workerOwn
<1>w. ASSUME NEW f \in CommandFrame, Write(<<f>>) \/ WriteAgain(f)
      PROVE  stdin' \in Seq(CommandFrame)
  <2>1. <<f>> \in Seq(CommandFrame)
    BY FewFrames
  <2> QED
    BY <1>p, <1>w, <2>1, CommandsTyped
<1>k. ASSUME kill, UNCHANGED <<pipes, workerOwn>> PROVE PipeType' /\ WorkerType'
  BY <1>p, <1>k DEF kill, PipeType, WorkerType, pipes, workerOwn
<1>u. ASSUME UNCHANGED workerVars PROVE PipeType' /\ WorkerType'
  BY <1>p, <1>u DEF PipeType, WorkerType, workerVars, pipes, workerOwn
<1>1. ASSUME NEW r \in Requests, StartSend(r) \/ CancelSend(r) PROVE PipeType' /\ WorkerType'
  <2>1. /\ RequestFrame("StartGeneration", r) \in CommandFrame
        /\ RequestFrame("CancelGeneration", r) \in CommandFrame
    BY FrameTypes
  <2>2. stdin' \in Seq(CommandFrame)
    BY <1>1, <1>w, <2>1 DEF StartSend, CancelSend
  <2> QED
    BY <1>1, <1>q, <2>2 DEF StartSend, CancelSend
<1>2. ASSUME LoadCall PROVE PipeType' /\ WorkerType'
  <2>1. epoch + 1 \in Nat
    BY MaxLoadsAssumption DEF TypeInv, HostType
  <2>2. stdin' \in Seq(CommandFrame)
    BY <1>2, <1>w, <2>1, FrameTypes DEF LoadCall
  <2> QED
    BY <1>2, <1>q, <2>2 DEF LoadCall
<1>3. ASSUME UnloadCall PROVE PipeType' /\ WorkerType'
  <2>1. PICK order \in [1 .. Cardinality(registry) -> registry] :
            Write([i \in DOMAIN order |-> RequestFrame("CancelGeneration", order[i])])
    BY <1>3 DEF UnloadCall
  <2>2. stdin' \in Seq(CommandFrame)
    BY <1>p, <2>1, CancelFrames, CommandsTyped DEF TypeInv
  <2> QED
    BY <1>3, <1>q, <2>2 DEF UnloadCall
<1>4. ASSUME UnloadSend \/ ShutdownSend PROVE PipeType' /\ WorkerType'
  <2>1. stdin' \in Seq(CommandFrame)
    BY <1>4, <1>w, FrameTypes DEF UnloadSend, ShutdownSend
  <2> QED
    BY <1>4, <1>q, <2>1 DEF UnloadSend, ShutdownSend
<1>5. ASSUME WatchdogHeartbeat PROVE PipeType' /\ WorkerType'
  <2>1. stdin' \in Seq(CommandFrame)
    <3>1. stdin' = stdin \/ WriteAgain(PlainFrame("Ping"))
      BY <1>5 DEF WatchdogHeartbeat
    <3> QED
      BY <1>p, <1>w, <3>1, FrameTypes DEF PipeType
  <2> QED
    BY <1>5, <1>q, <2>1 DEF WatchdogHeartbeat
<1>6. ASSUME WatchdogCancels PROVE PipeType' /\ WorkerType'
  <2>1. PICK r \in due.expired : WriteAgain(RequestFrame("CancelGeneration", r))
    BY <1>6 DEF WatchdogCancels
  <2>2. r \in Requests
    BY DEF TypeInv, CallType
  <2>3. stdin' \in Seq(CommandFrame)
    BY <1>w, <2>1, <2>2, FrameTypes
  <2> QED
    BY <1>6, <1>q, <2>3 DEF WatchdogCancels
<1>7. ASSUME ReaderError \/ ReaderEvent PROVE PipeType' /\ WorkerType'
  <2>1. stdout' = stdout \/ (stdout # <<>> /\ stdout' = Tail(stdout))
    BY <1>7 DEF ReaderError, ReaderEvent
  <2>2. stdout' \in Seq(EventFrame)
    <3>1. stdout \in Seq(EventFrame)
      BY <1>p DEF PipeType
    <3>2. stdout # <<>> => Tail(stdout) \in Seq(EventFrame)
      BY <3>1
    <3> QED
      BY <2>1, <3>1, <3>2
  <2> QED
    BY <1>7, <1>p, <2>2 DEF ReaderError, ReaderEvent, PipeType, WorkerType, workerOwn
<1>8. ASSUME UnloadReturns \/ DropKill \/ WatchdogUnresponsive \/ WatchdogLimit \/ WatchdogDeadline
      PROVE  PipeType' /\ WorkerType'
  BY <1>8, <1>k DEF UnloadReturns, DropKill, WatchdogUnresponsive, WatchdogLimit, WatchdogKill,
                    WatchdogDeadline
<1>9. ASSUME NEW r \in Requests, StartCheck(r) \/ StartInsert(r) \/ CloseStream(r)
                                   \/ CancelLookup(r) \/ DeadlinePasses(r)
      PROVE  UNCHANGED workerVars
  BY <1>9 DEF StartCheck, StartInsert, CloseStream, CancelLookup, DeadlinePasses
<1>10. ASSUME LoadReturns \/ UnloadFaulted \/ DropDrain \/ DropJoined \/ ReaderCheck
                \/ WatchdogFaulted \/ WatchdogDead \/ WatchdogPatient \/ WatchdogSnapshot
                \/ WatchdogSleeps \/ HeartbeatAges \/ UNCHANGED vars
       PROVE  UNCHANGED workerVars
  BY <1>10 DEF LoadReturns, UnloadFaulted, DropDrain, DropJoined, ReaderCheck, WatchdogFaulted,
               WatchdogDead, WatchdogPatient, WatchdogSnapshot, WatchdogSleeps, HeartbeatAges, vars
<1> QED
  BY <1>1, <1>2, <1>3, <1>4, <1>5, <1>6, <1>7, <1>8, <1>9, <1>10, <1>u, WorkerPipeTypes
     DEF Next, CallerNext, AdminNext, ReaderNext, WatchdogNext, WorkerStep

(* The registry and the streams, whatever identifiers are in use.          *)
LEMMA StreamTypeStep ==
    ASSUME TypeInv, [Next]_vars
    PROVE  StreamType'
<1>s. /\ registry \subseteq Requests /\ IsFiniteSet(registry)
      /\ stream \in [Requests -> Seq(StreamEvent)]
  BY DEF TypeInv, StreamType
<1>d. \A S : registry \ S \subseteq Requests /\ IsFiniteSet(registry \ S)
  BY <1>s, FS_Difference
<1>e. ASSUME NEW S, NEW e \in StreamEvent, EndAll(S, e) PROVE StreamType'
  <2>1. stream' \in [Requests -> Seq(StreamEvent)]
    BY <1>e, <1>s DEF EndAll
  <2> QED
    BY <1>e, <1>d, <2>1 DEF EndAll, StreamType
<1>f. ASSUME fail_all PROVE StreamType'
  BY <1>e, <1>f DEF fail_all, StreamEvent
<1>u. ASSUME UNCHANGED <<registry, stream>> PROVE StreamType'
  BY <1>u, <1>s DEF StreamType
<1>1. ASSUME NEW r \in Requests, StartInsert(r) PROVE StreamType'
  <2>1. IsFiniteSet((registry \ Holder(IdOf[r])) \cup {r})
    BY <1>d, FS_AddElement
  <2>2. (registry \ Holder(IdOf[r])) \cup {r} \subseteq Requests
    BY <1>s
  <2> QED
    BY <1>1, <1>s, <2>1, <2>2 DEF StartInsert, insert, StreamType
<1>2. ASSUME NEW r \in Requests, StartSend(r) PROVE StreamType'
  <2>1. stream' = stream /\ (registry' = registry \/ registry' = registry \ Holder(IdOf[r]))
    BY <1>2 DEF StartSend
  <2> QED
    BY <1>d, <1>s, <2>1 DEF StreamType
<1>3. ASSUME ReaderEvent PROVE StreamType'
  <2> DEFINE f == Head(stdout)
  <2>1. Dispatch(f)
    BY <1>3 DEF ReaderEvent
  <2> HIDE DEF f
  <2>2. CASE f.kind = "WorkerFatal"
    BY <2>1, <2>2, <1>f DEF Dispatch, Fault
  <2>3. CASE f.kind # "WorkerFatal" /\ f.kind \in TerminalEvent
    BY <2>1, <2>3, <1>e DEF Dispatch, mark_terminal, OutcomeOf, StreamEvent
  <2>4. CASE f.kind # "WorkerFatal" /\ f.kind \notin TerminalEvent
    <3> DEFINE e == IF f.kind = "Token" THEN "Token" ELSE "Started"
    <3>1. registry' = registry /\ (try_send(IdOf[f.req], e) \/ stream' = stream)
      BY <2>1, <2>4 DEF Dispatch
    <3>2. e \in StreamEvent
      BY DEF StreamEvent
    <3> HIDE DEF e
    <3>3. CASE try_send(IdOf[f.req], e)
      <4>1. PICK accept \in BOOLEAN :
                stream' = [r \in Requests |-> IF accept /\ r \in Holder(IdOf[f.req])
                                              THEN Append(stream[r], e) ELSE stream[r]]
        BY <3>3 DEF try_send
      <4>2. stream' \in [Requests -> Seq(StreamEvent)]
        BY <4>1, <3>2, <1>s
      <4> QED
        BY <1>s, <3>1, <4>2 DEF StreamType
    <3> QED
      BY <1>u, <3>1, <3>3
  <2> QED
    BY <2>2, <2>3, <2>4
<1>4. ASSUME WatchdogDeadline PROVE StreamType'
  BY <1>4, <1>e DEF WatchdogDeadline, mark_terminal, StreamEvent
<1>5. ASSUME UnloadFaulted \/ DropDrain \/ ReaderError \/ WatchdogDead \/ WatchdogUnresponsive
               \/ WatchdogLimit
      PROVE  StreamType'
  BY <1>5, <1>f DEF UnloadFaulted, DropDrain, ReaderError, WatchdogDead, WatchdogUnresponsive,
                    WatchdogLimit, WatchdogKill, Fault
<1>6. ASSUME ReaderCheck PROVE StreamType'
  BY <1>6, <1>f, <1>u DEF ReaderCheck, Fault
<1>7. ASSUME NEW r \in Requests, StartCheck(r) \/ CloseStream(r) \/ CancelLookup(r)
                                   \/ CancelSend(r) \/ DeadlinePasses(r)
      PROVE  UNCHANGED <<registry, stream>>
  BY <1>7 DEF StartCheck, CloseStream, CancelLookup, CancelSend, DeadlinePasses
<1>8. ASSUME LoadCall \/ LoadReturns \/ UnloadCall \/ UnloadSend \/ ShutdownSend
               \/ UnloadReturns \/ DropKill \/ DropJoined
      PROVE  UNCHANGED <<registry, stream>>
  BY <1>8 DEF LoadCall, LoadReturns, UnloadCall, UnloadSend, ShutdownSend, UnloadReturns,
              DropKill, DropJoined, requestVars
<1>9. ASSUME WatchdogFaulted \/ WatchdogHeartbeat \/ WatchdogPatient \/ WatchdogSnapshot
               \/ WatchdogCancels \/ WatchdogSleeps \/ HeartbeatAges
      PROVE  UNCHANGED <<registry, stream>>
  BY <1>9 DEF WatchdogFaulted, WatchdogHeartbeat, WatchdogPatient, WatchdogSnapshot,
              WatchdogCancels, WatchdogSleeps, HeartbeatAges, requestVars
<1>10. ASSUME WorkerStep \/ UNCHANGED vars PROVE UNCHANGED <<registry, stream>>
  BY <1>10 DEF WorkerStep, vars, hostVars, requestVars
<1> QED
  BY <1>1, <1>2, <1>3, <1>4, <1>5, <1>6, <1>7, <1>8, <1>9, <1>10, <1>u
     DEF Next, CallerNext, AdminNext, ReaderNext, WatchdogNext

(* What the host's validator records of an event has its type.             *)
LEMMA ViewTyped ==
    ASSUME NEW v \in Validator, NEW f \in EventFrame
    PROVE  AfterWorkerEvent(v, f) \in Validator
<1>1. f.kind \in GenerationEvent => IdOf[f.req] \in Ids
  BY RequestsAssumption DEF EventFrame
<1>2. CASE f.kind = "GenerationStarted"
  BY <1>1, <1>2 DEF AfterWorkerEvent, Validator, GenerationEvent
<1>3. CASE f.kind # "GenerationStarted" /\ f.kind \in TerminalEvent
  BY <1>1, <1>3 DEF AfterWorkerEvent, Validator, GenerationEvent
<1>4. CASE f.kind # "GenerationStarted" /\ f.kind \notin TerminalEvent
  BY <1>4 DEF AfterWorkerEvent
<1> QED
  BY <1>2, <1>3, <1>4

(* The threads of the host.                                                *)
LEMMA HostTypeStep ==
    ASSUME TypeInv, [Next]_vars
    PROVE  HostType'
<1>h. HostType
  BY DEF TypeInv
<1>u. ASSUME UNCHANGED <<phase, epoch, heartbeat, admin, reader, watchdog, hostView>>
      PROVE  HostType'
  BY <1>h, <1>u DEF HostType
<1>1. ASSUME NEW r \in Requests, StartCheck(r) \/ StartInsert(r) \/ StartSend(r) \/ CloseStream(r)
                                   \/ CancelLookup(r) \/ CancelSend(r) \/ DeadlinePasses(r)
      PROVE  HostType'
  BY <1>1, <1>u DEF StartCheck, StartInsert, StartSend, CloseStream, CancelLookup, CancelSend,
                    DeadlinePasses
<1>2. ASSUME LoadCall PROVE HostType'
  <2>1. epoch' \in 0 .. MaxLoads
    BY <1>2, <1>h, MaxLoadsAssumption DEF LoadCall, HostType
  <2>2. admin' \in {"loading", "idle"}
    BY <1>2 DEF LoadCall
  <2> QED
    BY <1>2, <1>h, <2>1, <2>2 DEF LoadCall, HostType
<1>3. ASSUME LoadReturns PROVE HostType'
  <2>1. phase' \in {phase, "Failed"}
    BY <1>3 DEF LoadReturns
  <2> QED
    BY <1>3, <1>h, <2>1 DEF LoadReturns, HostType, Phase
<1>4. ASSUME UnloadFaulted \/ UnloadCall \/ UnloadSend \/ ShutdownSend \/ UnloadReturns
      PROVE  HostType'
  BY <1>4, <1>h DEF UnloadFaulted, UnloadCall, UnloadSend, ShutdownSend, UnloadReturns, HostType,
                    Phase
<1>5. ASSUME DropKill \/ DropDrain \/ DropJoined PROVE HostType'
  BY <1>5, <1>h DEF DropKill, DropDrain, DropJoined, HostType, Phase
<1>6. ASSUME ReaderCheck \/ ReaderError PROVE HostType'
  <2>1. phase' \in {phase, "Failed"} /\ reader' \in {"read", "gone"}
    BY <1>6 DEF ReaderCheck, ReaderError, Fault
  <2>2. UNCHANGED <<epoch, heartbeat, admin, hostView, watchdog>>
    BY <1>6 DEF ReaderCheck, ReaderError
  <2> QED
    BY <1>h, <2>1, <2>2 DEF HostType, Phase
<1>7. ASSUME ReaderEvent PROVE HostType'
  <2> DEFINE f == Head(stdout)
  <2>1. Dispatch(f) /\ hostView' = AfterWorkerEvent(hostView, f) /\ UNCHANGED <<epoch, admin, watchdog>>
    BY <1>7 DEF ReaderEvent
  <2>2. f \in EventFrame
    BY <1>7 DEF ReaderEvent, TypeInv, PipeType
  <2> HIDE DEF f
  <2>3. hostView' \in Validator
    BY <1>h, <2>1, <2>2, ViewTyped DEF HostType
  <2>4. phase' \in Phase
    <3>1. PhaseAfter(f) \in Phase
      BY <1>h DEF PhaseAfter, HostType, Phase
    <3> QED
      BY <2>1, <3>1 DEF Dispatch, Fault, Phase
  <2>5. heartbeat' \in {"fresh", heartbeat} /\ reader' \in {"gone", "check"}
    BY <2>1 DEF Dispatch
  <2> QED
    BY <1>h, <2>1, <2>3, <2>4, <2>5 DEF HostType
<1>8. ASSUME WatchdogFaulted \/ WatchdogPatient \/ WatchdogSnapshot \/ WatchdogCancels
               \/ WatchdogSleeps
      PROVE  HostType'
  BY <1>8, <1>h DEF WatchdogFaulted, WatchdogPatient, WatchdogSnapshot, WatchdogCancels,
                    WatchdogSleeps, HostType
<1>9. ASSUME WatchdogDead \/ WatchdogUnresponsive \/ WatchdogLimit \/ WatchdogDeadline
      PROVE  HostType'
  <2>1. phase' = "Failed" /\ watchdog' = "gone" /\ UNCHANGED <<epoch, heartbeat, admin, reader, hostView>>
    BY <1>9 DEF WatchdogDead, WatchdogUnresponsive, WatchdogLimit, WatchdogKill, WatchdogDeadline,
                Fault
  <2> QED
    BY <1>h, <2>1 DEF HostType, Phase
<1>10. ASSUME WatchdogHeartbeat PROVE HostType'
  <2>1. watchdog' \in {"limits", "recheck"}
    BY <1>10 DEF WatchdogHeartbeat
  <2> QED
    BY <1>10, <1>h, <2>1 DEF WatchdogHeartbeat, HostType
<1>11. ASSUME HeartbeatAges PROVE HostType'
  <2>1. heartbeat' \in {"late", "lost"}
    BY <1>11 DEF HeartbeatAges
  <2> QED
    BY <1>11, <1>h, <2>1 DEF HeartbeatAges, HostType
<1>12. ASSUME WorkerStep \/ UNCHANGED vars PROVE HostType'
  BY <1>12, <1>u DEF WorkerStep, vars, hostVars
<1> QED
  BY <1>1, <1>2, <1>3, <1>4, <1>5, <1>6, <1>7, <1>8, <1>9, <1>10, <1>11, <1>12
     DEF Next, CallerNext, AdminNext, ReaderNext, WatchdogNext

(* The calls, the deadlines and what is kept of a crash.                   *)
LEMMA CallTypeStep ==
    ASSUME TypeInv, [Next]_vars
    PROVE  CallType'
<1>c. CallType /\ registry \subseteq Requests
  BY DEF TypeInv, StreamType
<1>u. ASSUME UNCHANGED <<expiry, closed, start, cancelling, due, captured>> PROVE CallType'
  BY <1>c, <1>u DEF CallType
<1>1. ASSUME NEW r \in Requests, StartCheck(r) \/ StartInsert(r) \/ StartSend(r) PROVE CallType'
  <2>1. \E x \in {"checked", "refused", "inserted", "returned"} : start' = [start EXCEPT ![r] = x]
    BY <1>1 DEF StartCheck, StartInsert, StartSend
  <2>2. UNCHANGED <<expiry, closed, cancelling, due, captured>>
    BY <1>1 DEF StartCheck, StartInsert, StartSend
  <2> QED
    BY <1>c, <2>1, <2>2 DEF CallType
<1>2. ASSUME NEW r \in Requests, CloseStream(r) \/ CancelLookup(r) \/ CancelSend(r) PROVE CallType'
  BY <1>2, <1>c DEF CloseStream, CancelLookup, CancelSend, CallType
<1>3. ASSUME NEW r \in Requests, DeadlinePasses(r) PROVE CallType'
  <2>1. \E x \in {"expired", "overdue"} : expiry' = [expiry EXCEPT ![r] = x]
    BY <1>3 DEF DeadlinePasses
  <2> QED
    BY <1>3, <1>c, <2>1 DEF DeadlinePasses, CallType
<1>4. ASSUME WatchdogSnapshot PROVE CallType'
  BY <1>4, <1>c DEF WatchdogSnapshot, CallType, requestVars
<1>5. ASSUME WatchdogCancels PROVE CallType'
  <2>1. PICK r \in due.expired : due' = [due EXCEPT !.expired = @ \ {r}]
    BY <1>5 DEF WatchdogCancels
  <2>2. due' \in [expired : SUBSET Requests, overdue : SUBSET Requests]
    BY <1>c, <2>1 DEF CallType
  <2> QED
    BY <1>5, <1>c, <2>2 DEF WatchdogCancels, CallType, requestVars
<1>6. ASSUME WatchdogDeadline PROVE CallType'
  BY <1>6, <1>c DEF WatchdogDeadline, NothingDue, CallType
<1>7. ASSUME WatchdogDead PROVE CallType'
  BY <1>7, <1>c DEF WatchdogDead, CallType
<1>8. ASSUME LoadCall \/ LoadReturns \/ UnloadFaulted \/ UnloadCall \/ UnloadSend \/ ShutdownSend
               \/ UnloadReturns \/ DropKill \/ DropDrain \/ DropJoined
      PROVE  CallType'
  BY <1>8, <1>u DEF LoadCall, LoadReturns, UnloadFaulted, UnloadCall, UnloadSend, ShutdownSend,
                    UnloadReturns, DropKill, DropDrain, DropJoined, requestVars
<1>9. ASSUME ReaderCheck \/ ReaderError \/ ReaderEvent PROVE CallType'
  BY <1>9, <1>u DEF ReaderCheck, ReaderError, ReaderEvent
<1>10. ASSUME WatchdogFaulted \/ WatchdogHeartbeat \/ WatchdogUnresponsive \/ WatchdogPatient
                \/ WatchdogLimit \/ WatchdogSleeps \/ HeartbeatAges
       PROVE  CallType'
  BY <1>10, <1>u DEF WatchdogFaulted, WatchdogHeartbeat, WatchdogUnresponsive, WatchdogPatient,
                     WatchdogLimit, WatchdogKill, WatchdogSleeps, HeartbeatAges, requestVars
<1>11. ASSUME WorkerStep \/ UNCHANGED vars PROVE CallType'
  BY <1>11, <1>u DEF WorkerStep, vars, hostVars, requestVars
<1> QED
  BY <1>1, <1>2, <1>3, <1>4, <1>5, <1>6, <1>7, <1>8, <1>9, <1>10, <1>11
     DEF Next, CallerNext, AdminNext, ReaderNext, WatchdogNext

(* The composed system keeps its types, whatever identifiers are in use.   *)
LEMMA TypesInductive == Spec => []TypeInv
<1>1. Init => TypeInv
  <2> SUFFICES ASSUME Init PROVE TypeInv
    OBVIOUS
  <2>1. PipeType
    BY DEF Init, WorkerInit, PipeType
  <2>2. WorkerType
    BY DEF Init, WorkerInit, WorkerType, NewValidator, Validator, InfState, Idle
  <2>3. StreamType
    BY FS_EmptySet DEF Init, StreamType
  <2>4. HostType
    BY MaxLoadsAssumption DEF Init, HostType, Phase, NewValidator, Validator
  <2>5. CallType
    BY DEF Init, CallType, NothingDue, NotCrashed
  <2> QED
    BY <2>1, <2>2, <2>3, <2>4, <2>5 DEF TypeInv
<1>2. TypeInv /\ [Next]_vars => TypeInv'
  BY PipeTypeStep, StreamTypeStep, HostTypeStep, CallTypeStep DEF TypeInv
<1> QED
  BY <1>1, <1>2, PTL DEF Spec

(* Every variable of the supervisor and its worker keeps its type: a frame *)
(* is used as the command or event it is, and a stream carries stream      *)
(* events.                                                                 *)
THEOREM TypesHold == Spec => []TypeOK
<1>1. CommandFrame \subseteq Frame /\ EventFrame \subseteq Frame
  BY DEF CommandFrame, EventFrame
<1>2. TypeInv => stdin \in Seq(Frame) /\ stdout \in Seq(Frame) /\ infQueue \in Seq(Frame)
  BY <1>1, SeqMonotonic DEF TypeInv, PipeType
<1>3. TypeInv => TypeOK
  BY <1>2 DEF TypeInv, WorkerType, StreamType, HostType, CallType, TypeOK
<1> QED
  BY <1>3, TypesInductive, PTL

-----------------------------------------------------------------------------
(* The life of a request in the pipes.                                     *)

IsStart(f, r) == f.kind = "StartGeneration" /\ f.req = r
IsStarted(f, r) == f.kind = "GenerationStarted" /\ f.req = r
IsEnd(f, r) == f.kind \in TerminalEvent /\ f.req = r

Sent(pipe, r) == \E i \in 1 .. Len(pipe) : IsStart(pipe[i], r)

\* The worker has not taken up StartGeneration, and still may.
Early(s) == s \in {"new", "checked", "inserted"}
Pending(r) == Early(start[r]) \/ Sent(stdin, r) \/ Sent(infQueue, r)

\* A stream without a payload, and one that starts with Started if it has any.
OnlyEnds(s) == \A i \in 1 .. Len(s) : IsTerminal(s[i])
Orderly(s) == OnlyEnds(s) \/ s[1] = "Started"

\* Nothing was heard of the request.
Unheard(r) ==
    /\ inf.req # r
    /\ \A i \in 1 .. Len(stdout) : stdout[i].req # r
    /\ IdOf[r] \notin hostView.known /\ IdOf[r] \notin hostView.terminal
    /\ OnlyEnds(stream[r])

\* StartGeneration is written once and is in one place.
Once(pipe, r) ==
    \A i, j \in 1 .. Len(pipe) : IsStart(pipe[i], r) /\ IsStart(pipe[j], r) => i = j
SentOnce(r) ==
    /\ Once(stdin, r) /\ Once(infQueue, r)
    /\ ~ (Sent(stdin, r) /\ Sent(infQueue, r))
    /\ Early(start[r]) => ~ Sent(stdin, r) /\ ~ Sent(infQueue, r)

\* GenerationStarted is the first event about r, and the host has not read it.
StartedFirst(r) ==
    \A i \in 1 .. Len(stdout) : IsStarted(stdout[i], r) =>
        /\ \A j \in 1 .. Len(stdout) : stdout[j].req = r => i <= j
        /\ IdOf[r] \notin hostView.known /\ IdOf[r] \notin hostView.terminal
        /\ OnlyEnds(stream[r])

\* Any other event about r has it before it, or the host has read it.
Introduced(r) ==
    \A i \in 1 .. Len(stdout) : stdout[i].req = r =>
        /\ \/ IsStarted(stdout[i], r)
           \/ IdOf[r] \in hostView.known
           \/ \E j \in 1 .. Len(stdout) : IsStarted(stdout[j], r)
        /\ IdOf[r] \notin hostView.terminal

\* A terminal event is the last one about r.
EndLast(r) ==
    \A i, j \in 1 .. Len(stdout) : IsEnd(stdout[i], r) /\ stdout[j].req = r => j <= i

\* While the worker generates, r was introduced and has not ended.
GeneratesOpen(r) ==
    inf.req = r =>
        /\ \A i \in 1 .. Len(stdout) : ~ IsEnd(stdout[i], r)
        /\ \/ IdOf[r] \in hostView.known
           \/ \E i \in 1 .. Len(stdout) : IsStarted(stdout[i], r)
        /\ IdOf[r] \notin hostView.terminal

\* A stream that can still take a Token has taken Started.
OpenStarted(r) ==
    IdOf[r] \in hostView.known /\ r \in registry /\ r \notin closed =>
        stream[r] # <<>> /\ stream[r][1] = "Started"

\* The worker's validator records nothing, so it never lets a
\* CancelGeneration through and the cancel flag stays down.
NeverCancels == workerView = NewValidator /\ cancel = FALSE

QueueInv == \A r \in Requests : SentOnce(r)

EventInv(r) ==
    /\ StartedFirst(r) /\ Introduced(r) /\ EndLast(r) /\ GeneratesOpen(r)
    /\ OpenStarted(r) /\ Orderly(stream[r])

PipeInv ==
    /\ NeverCancels
    /\ QueueInv
    /\ \A r \in Requests : (Pending(r) => Unheard(r)) /\ EventInv(r)

-----------------------------------------------------------------------------
(* A validator that knows nobody refuses every CancelGeneration.           *)
LEMMA CancelStep ==
    ASSUME NeverCancels, [Next]_vars
    PROVE  NeverCancels'
<1>u. ASSUME UNCHANGED <<workerView, cancel>> PROVE NeverCancels'
  BY <1>u DEF NeverCancels
<1>1. ASSUME CommandDispatched PROVE NeverCancels'
  <2>1. Head(stdin).kind # "CancelGeneration"
    BY <1>1 DEF CommandDispatched, HostCommandOk, NeverCancels, NewValidator
  <2> QED
    BY <1>1, <2>1 DEF CommandDispatched, AfterHostCommand, NeverCancels
<1>2. ASSUME InferUnload PROVE NeverCancels'
  BY <1>2 DEF InferUnload, NeverCancels
<1>f. ASSUME NEW k, Finish(k) PROVE NeverCancels'
  BY <1>f DEF Finish, NeverCancels
<1>3. ASSUME InferToken \/ InferFails \/ InferCompletes PROVE NeverCancels'
  BY <1>3, <1>f, <1>u DEF InferToken, InferFails, InferCompletes
<1>4. ASSUME CommandRefused \/ InferShutdown \/ InferLoad \/ InferLoadFails \/ InferStart
               \/ InferQueueClosed \/ HeartbeatBeat \/ HeartbeatStops \/ MainReturns \/ WorkerDies
      PROVE  NeverCancels'
  BY <1>4, <1>u DEF CommandRefused, InferShutdown, InferLoad, InferLoadFails, InferStart,
                    InferQueueClosed, HeartbeatBeat, HeartbeatStops, MainReturns, WorkerDies,
                    workerOwn
<1>5. ASSUME NEW r \in Requests, StartCheck(r) \/ StartInsert(r) \/ StartSend(r) \/ CloseStream(r)
                                   \/ CancelLookup(r) \/ CancelSend(r) \/ DeadlinePasses(r)
      PROVE  NeverCancels'
  BY <1>5, <1>u DEF StartCheck, StartInsert, StartSend, CloseStream, CancelLookup, CancelSend,
                    DeadlinePasses, workerVars, workerOwn
<1>6. ASSUME LoadCall \/ LoadReturns \/ UnloadFaulted \/ UnloadCall \/ UnloadSend \/ ShutdownSend
               \/ UnloadReturns \/ DropKill \/ DropDrain \/ DropJoined
      PROVE  NeverCancels'
  BY <1>6, <1>u DEF LoadCall, LoadReturns, UnloadFaulted, UnloadCall, UnloadSend, ShutdownSend,
                    UnloadReturns, DropKill, DropDrain, DropJoined, workerVars, workerOwn
<1>7. ASSUME ReaderCheck \/ ReaderError \/ ReaderEvent PROVE NeverCancels'
  BY <1>7, <1>u DEF ReaderCheck, ReaderError, ReaderEvent, workerVars, workerOwn
<1>8. ASSUME WatchdogFaulted \/ WatchdogDead \/ WatchdogHeartbeat \/ WatchdogUnresponsive
               \/ WatchdogPatient \/ WatchdogLimit \/ WatchdogSnapshot \/ WatchdogCancels
               \/ WatchdogDeadline \/ WatchdogSleeps \/ HeartbeatAges \/ UNCHANGED vars
      PROVE  NeverCancels'
  BY <1>8, <1>u DEF WatchdogFaulted, WatchdogDead, WatchdogHeartbeat, WatchdogUnresponsive,
                    WatchdogPatient, WatchdogLimit, WatchdogKill, WatchdogSnapshot,
                    WatchdogCancels, WatchdogDeadline, WatchdogSleeps, HeartbeatAges, vars,
                    workerVars, workerOwn
<1> QED
  BY <1>1, <1>2, <1>3, <1>4, <1>5, <1>6, <1>7, <1>8
     DEF Next, CallerNext, AdminNext, ReaderNext, WatchdogNext, WorkerStep, WorkerNext

-----------------------------------------------------------------------------
(* What StartGeneration frames there are behind another pipe's.            *)
LEMMA SentConcat ==
    ASSUME NEW s \in Seq(CommandFrame), NEW t \in Seq(CommandFrame), NEW r
    PROVE  /\ Sent(s \o t, r) <=> Sent(s, r) \/ Sent(t, r)
           /\ Once(s, r) /\ Once(t, r) /\ ~ (Sent(s, r) /\ Sent(t, r)) => Once(s \o t, r)
<1>a. Len(s) \in Nat /\ Len(t) \in Nat
  OBVIOUS
<1>b. ASSUME NEW j \in 1 .. Len(t) PROVE (s \o t)[Len(s) + j] = t[j]
  BY <1>a, ConcatProperties
<1>d. ASSUME NEW i \in 1 .. Len(s) PROVE (s \o t)[i] = s[i]
  BY <1>a, ConcatProperties
<1> DEFINE u == s \o t
           n == Len(s)
           k == Len(t)
<1>1. n \in Nat /\ k \in Nat /\ Len(u) = n + k
  BY <1>a, ConcatProperties
<1>e. \A j \in 1 .. k : u[n + j] = t[j]
  BY <1>b
<1>f. \A i \in 1 .. n : u[i] = s[i]
  BY <1>d
<1> HIDE DEF u
<1>2. \A i \in 1 .. n : i \in 1 .. Len(u) /\ u[i] = s[i]
  BY <1>1, <1>f
<1>3. \A j \in 1 .. k : n + j \in 1 .. Len(u) /\ u[n + j] = t[j]
  BY <1>1, <1>e
<1>4. \A i \in 1 .. Len(u) : i \in 1 .. n \/ \E j \in 1 .. k : i = n + j
  <2> SUFFICES ASSUME NEW i \in 1 .. Len(u), i \notin 1 .. n PROVE \E j \in 1 .. k : i = n + j
    OBVIOUS
  <2>1. i - n \in 1 .. k /\ i = n + (i - n)
    BY <1>1
  <2> QED
    BY <2>1
<1>c. n \in Nat /\ k \in Nat
  BY <1>1
<1> HIDE DEF n, k
<1>5. Sent(u, r) => Sent(s, r) \/ Sent(t, r)
  <2> SUFFICES ASSUME NEW i \in 1 .. Len(u), IsStart(u[i], r) PROVE Sent(s, r) \/ Sent(t, r)
    BY DEF Sent
  <2>1. CASE i \in 1 .. n
    BY <1>2, <2>1 DEF Sent, n
  <2>2. ASSUME NEW j \in 1 .. k, i = n + j PROVE Sent(t, r)
    BY <1>3, <2>2 DEF Sent, k
  <2> QED
    BY <1>4, <2>1, <2>2
<1>6. Sent(s, r) => Sent(u, r)
  BY <1>2 DEF Sent, n
<1>7. Sent(t, r) => Sent(u, r)
  BY <1>3 DEF Sent, k
<1>8. ASSUME Once(s, r), Once(t, r), ~ (Sent(s, r) /\ Sent(t, r)) PROVE Once(u, r)
  <2> SUFFICES ASSUME NEW i \in 1 .. Len(u), NEW j \in 1 .. Len(u),
                      IsStart(u[i], r), IsStart(u[j], r)
               PROVE  i = j
    BY DEF Once
  <2>1. CASE i \in 1 .. n /\ j \in 1 .. n
    BY <1>2, <1>8, <2>1 DEF Once, n
  <2>2. ASSUME NEW a \in 1 .. k, NEW b \in 1 .. k, i = n + a, j = n + b PROVE i = j
    BY <1>3, <1>8, <2>2 DEF Once, k
  <2>3. ASSUME i \in 1 .. n, NEW b \in 1 .. k, j = n + b PROVE FALSE
    BY <1>2, <1>3, <1>8, <2>3 DEF Sent, n, k
  <2>4. ASSUME j \in 1 .. n, NEW a \in 1 .. k, i = n + a PROVE FALSE
    BY <1>2, <1>3, <1>8, <2>4 DEF Sent, n, k
  <2> QED
    BY <1>4, <2>1, <2>2, <2>3, <2>4
<1> QED
  BY <1>5, <1>6, <1>7, <1>8 DEF u

(* One frame, and none.                                                    *)
LEMMA SentOne ==
    ASSUME NEW f, NEW r
    PROVE  /\ Sent(<<f>>, r) <=> IsStart(f, r)
           /\ Once(<<f>>, r)
           /\ ~ Sent(<<>>, r) /\ Once(<<>>, r)
<1>1. Len(<<f>>) = 1 /\ <<f>>[1] = f /\ Len(<<>>) = 0
  OBVIOUS
<1> QED
  BY <1>1 DEF Sent, Once

(* What is left when the first frame is read.                              *)
LEMMA SentTail ==
    ASSUME NEW s \in Seq(CommandFrame), s # <<>>, NEW r
    PROVE  /\ Sent(s, r) <=> IsStart(Head(s), r) \/ Sent(Tail(s), r)
           /\ Once(s, r) => /\ Once(Tail(s), r)
                            /\ ~ (IsStart(Head(s), r) /\ Sent(Tail(s), r))
<1> DEFINE t == Tail(s)
           n == Len(s)
<1>1. /\ n \in Nat \ {0} /\ Len(t) = n - 1 /\ Head(s) = s[1]
      /\ \A i \in 1 .. n - 1 : t[i] = s[i + 1]
  BY HeadTailProperties
<1> HIDE DEF t
<1>2. \A i \in 1 .. Len(t) : i + 1 \in 1 .. n /\ t[i] = s[i + 1] /\ i + 1 # 1
  BY <1>1
<1>3. \A i \in 1 .. n : i # 1 => \E j \in 1 .. Len(t) : i = j + 1
  <2> SUFFICES ASSUME NEW i \in 1 .. n, i # 1 PROVE \E j \in 1 .. Len(t) : i = j + 1
    OBVIOUS
  <2>1. i - 1 \in 1 .. Len(t) /\ i = (i - 1) + 1
    BY <1>1
  <2> QED
    BY <2>1
<1>4. 1 \in 1 .. n
  BY <1>1
<1>5. Sent(t, r) => Sent(s, r)
  BY <1>2 DEF Sent
<1>6. IsStart(Head(s), r) => Sent(s, r)
  BY <1>1, <1>4 DEF Sent
<1>7. Sent(s, r) => IsStart(Head(s), r) \/ Sent(t, r)
  <2> SUFFICES ASSUME NEW i \in 1 .. n, IsStart(s[i], r), i # 1 PROVE Sent(t, r)
    BY <1>1 DEF Sent
  <2>1. PICK j \in 1 .. Len(t) : i = j + 1
    BY <1>3
  <2> QED
    BY <1>2, <2>1 DEF Sent
<1>8. ASSUME Once(s, r) PROVE Once(t, r) /\ ~ (IsStart(Head(s), r) /\ Sent(t, r))
  <2>1. Once(t, r)
    <3> SUFFICES ASSUME NEW i \in 1 .. Len(t), NEW j \in 1 .. Len(t),
                        IsStart(t[i], r), IsStart(t[j], r)
                 PROVE  i = j
      BY DEF Once
    <3>1. i + 1 = j + 1
      BY <1>2, <1>8 DEF Once
    <3> QED
      BY <3>1, <1>1
  <2>2. ~ (IsStart(Head(s), r) /\ Sent(t, r))
    <3> SUFFICES ASSUME IsStart(s[1], r), NEW i \in 1 .. Len(t), IsStart(t[i], r) PROVE FALSE
      BY <1>1 DEF Sent
    <3> QED
      BY <1>2, <1>4, <1>8 DEF Once
  <2> QED
    BY <2>1, <2>2
<1> QED
  BY <1>5, <1>6, <1>7, <1>8 DEF t

-----------------------------------------------------------------------------
(* The StartGeneration frames of a request, as one step may change them.   *)

\* As many in stdin as before.
QuietStdin(r) ==
    (Sent(stdin, r)' <=> Sent(stdin, r)) /\ (Once(stdin, r) => Once(stdin, r)')

LEMMA OthersAreQuiet ==
    ASSUME TypeInv, NEW r \in Requests
    PROVE  /\ \A fs \in Seq(CommandFrame) : Write(fs) /\ ~ Sent(fs, r) => QuietStdin(r)
           /\ \A f \in CommandFrame :
                 (Write(<<f>>) \/ WriteAgain(f)) /\ ~ IsStart(f, r) => QuietStdin(r)
           /\ stdin' = stdin => QuietStdin(r)
<1>1. stdin \in Seq(CommandFrame)
  BY DEF TypeInv, PipeType
<1>2. stdin' = stdin => QuietStdin(r)
  BY DEF QuietStdin, Sent, Once
<1>3. ASSUME NEW fs \in Seq(CommandFrame), ~ Sent(fs, r), stdin' = stdin \o fs PROVE QuietStdin(r)
  <2>1. Once(fs, r)
    BY <1>3 DEF Sent, Once
  <2>2. /\ Sent(stdin \o fs, r) <=> Sent(stdin, r)
        /\ Once(stdin, r) => Once(stdin \o fs, r)
    BY <1>1, <1>3, <2>1, SentConcat
  <2>3. /\ Sent(stdin', r) <=> Sent(stdin, r)
        /\ Once(stdin, r) => Once(stdin', r)
    BY <1>3, <2>2
  <2> QED
    BY <2>3 DEF QuietStdin, Sent, Once
<1>4. ASSUME NEW fs \in Seq(CommandFrame), Write(fs), ~ Sent(fs, r) PROVE QuietStdin(r)
  BY <1>2, <1>3, <1>4 DEF Write
<1>5. ASSUME NEW f \in CommandFrame, Write(<<f>>) \/ WriteAgain(f), ~ IsStart(f, r)
      PROVE  QuietStdin(r)
  <2>1. <<f>> \in Seq(CommandFrame) /\ ~ Sent(<<f>>, r)
    BY <1>5, FewFrames, SentOne
  <2>2. CASE Write(<<f>>)
    BY <1>4, <2>1, <2>2
  <2>3. CASE WriteAgain(f)
    <3>1. stdin' = stdin \/ stdin' = Append(stdin, f)
      BY <2>3 DEF WriteAgain
    <3>2. Append(stdin, f) = stdin \o <<f>>
      BY <1>1, AppendIsConcat
    <3> QED
      BY <1>2, <1>3, <2>1, <3>1, <3>2
  <2> QED
    BY <1>5, <2>2, <2>3
<1> QED
  BY <1>2, <1>4, <1>5

(* The inference thread takes the first command of its queue.              *)
LEMMA TakeStep ==
    ASSUME TypeInv, QueueInv, NEW k, Take(k), NEW r \in Requests
    PROVE  /\ Sent(infQueue, r) <=> IsStart(Head(infQueue), r) \/ Sent(infQueue, r)'
           /\ Once(infQueue, r)'
           /\ ~ (IsStart(Head(infQueue), r) /\ Sent(infQueue, r)')
<1>1. infQueue \in Seq(CommandFrame) /\ infQueue # <<>> /\ Once(infQueue, r)
  BY DEF TypeInv, PipeType, Take, QueueInv, SentOnce
<1>2. /\ Sent(infQueue, r) <=> IsStart(Head(infQueue), r) \/ Sent(Tail(infQueue), r)
      /\ Once(Tail(infQueue), r)
      /\ ~ (IsStart(Head(infQueue), r) /\ Sent(Tail(infQueue), r))
  BY <1>1, SentTail
<1>3. /\ Sent(infQueue, r) <=> IsStart(Head(infQueue), r) \/ Sent(infQueue', r)
      /\ Once(infQueue', r)
      /\ ~ (IsStart(Head(infQueue), r) /\ Sent(infQueue', r))
  BY <1>2 DEF Take
<1> QED
  BY <1>3 DEF Sent, Once

(* StartGeneration is written once for a request and moves from stdin to   *)
(* the queue of the inference thread.                                      *)
LEMMA StartStep ==
    ASSUME TypeInv, QueueInv, [Next]_vars, NEW r \in Requests
    PROVE  SentOnce(r)' /\ (Pending(r)' => Pending(r))
<1>o. SentOnce(r)
  BY DEF QueueInv
<1>q. ASSUME QuietStdin(r), infQueue' = infQueue, Early(start[r])' => Early(start[r])
      PROVE  SentOnce(r)' /\ (Pending(r)' => Pending(r))
  <2>1. (Sent(infQueue, r)' <=> Sent(infQueue, r)) /\ (Once(infQueue, r)' <=> Once(infQueue, r))
    BY <1>q DEF Sent, Once
  <2> QED
    BY <1>o, <1>q, <2>1 DEF SentOnce, Pending, QuietStdin
<1>s. stdin \in Seq(CommandFrame) /\ infQueue \in Seq(CommandFrame)
  BY DEF TypeInv, PipeType
<1>w. ASSUME NEW f \in CommandFrame, f.kind # "StartGeneration", Write(<<f>>) \/ WriteAgain(f),
             infQueue' = infQueue, start' = start
      PROVE  SentOnce(r)' /\ (Pending(r)' => Pending(r))
  <2>1. QuietStdin(r)
    BY <1>w, OthersAreQuiet DEF IsStart
  <2> QED
    BY <1>q, <1>w, <2>1
<1>u. ASSUME UNCHANGED <<stdin, infQueue, start>>
      PROVE  SentOnce(r)' /\ (Pending(r)' => Pending(r))
  BY <1>q, <1>u, OthersAreQuiet
<1>1. ASSUME NEW c \in Requests, StartCheck(c) \/ StartInsert(c)
      PROVE  SentOnce(r)' /\ (Pending(r)' => Pending(r))
  <2>1. Early(start[r])' => Early(start[r])
    BY <1>1 DEF TypeInv, CallType, StartCheck, StartInsert, Early
  <2>2. UNCHANGED <<stdin, infQueue>>
    BY <1>1 DEF StartCheck, StartInsert, workerVars, pipes, workerOwn
  <2> QED
    BY <1>q, <2>1, <2>2, OthersAreQuiet
<1>2. ASSUME NEW c \in Requests, StartSend(c)
      PROVE  SentOnce(r)' /\ (Pending(r)' => Pending(r))
  <2> DEFINE f == RequestFrame("StartGeneration", c)
  <2>1. f \in CommandFrame /\ f.req = c /\ f.kind = "StartGeneration"
    BY FrameTypes DEF RequestFrame
  <2>2. Early(start[r])' => Early(start[r])
    BY <1>2 DEF TypeInv, CallType, StartSend, Early
  <2>3. infQueue' = infQueue /\ Write(<<f>>)
    BY <1>2 DEF StartSend, workerOwn
  <2>4. CASE c # r
    <3>1. ~ IsStart(f, r)
      BY <2>1, <2>4 DEF IsStart
    <3> HIDE DEF f
    <3>2. QuietStdin(r)
      BY <2>1, <2>3, <3>1, OthersAreQuiet
    <3> QED
      BY <1>q, <2>2, <2>3, <3>2
  <2>5. CASE c = r
    <3>1. Early(start[r]) /\ ~ Early(start[r])'
      BY <1>2, <2>5 DEF TypeInv, CallType, StartSend, Early
    <3>2. CASE ~ Alive
      BY <1>q, <2>3, <3>1, <3>2, OthersAreQuiet DEF Write
    <3>3. CASE Alive
      <4>1. stdin' = stdin \o <<f>> /\ <<f>> \in Seq(CommandFrame)
        BY <2>1, <2>3, <3>3, FewFrames DEF Write
      <4>2. ~ Sent(stdin, r) /\ ~ Sent(infQueue, r) /\ Once(stdin, r) /\ Once(infQueue, r)
        BY <1>o, <3>1 DEF SentOnce
      <4> HIDE DEF f
      <4>3. Once(<<f>>, r)
        BY SentOne
      <4>4. Once(stdin \o <<f>>, r)
        BY <1>s, <4>1, <4>2, <4>3, SentConcat
      <4>5. Once(stdin', r)
        BY <4>1, <4>4
      <4>6. ~ Sent(infQueue, r)' /\ Once(infQueue, r)' /\ Once(stdin, r)'
        BY <2>3, <4>2, <4>5 DEF Sent, Once
      <4> QED
        BY <3>1, <4>6 DEF SentOnce, Pending
    <3> QED
      BY <3>2, <3>3
  <2> QED
    BY <2>4, <2>5
<1>3. ASSUME NEW c \in Requests, CancelSend(c)
      PROVE  SentOnce(r)' /\ (Pending(r)' => Pending(r))
  <2>1. RequestFrame("CancelGeneration", c) \in CommandFrame
    BY FrameTypes
  <2>2. RequestFrame("CancelGeneration", c).kind # "StartGeneration"
    BY DEF RequestFrame
  <2> QED
    BY <1>3, <1>w, <2>1, <2>2 DEF CancelSend, workerOwn
<1>4. ASSUME LoadCall PROVE SentOnce(r)' /\ (Pending(r)' => Pending(r))
  <2>1. epoch + 1 \in Nat
    BY MaxLoadsAssumption DEF TypeInv, HostType
  <2>2. EpochFrame("LoadModel", epoch + 1) \in CommandFrame
    BY <2>1, FrameTypes
  <2>3. EpochFrame("LoadModel", epoch + 1).kind # "StartGeneration"
    BY DEF EpochFrame
  <2> QED
    BY <1>4, <1>w, <2>2, <2>3 DEF LoadCall, workerOwn, requestVars
<1>5. ASSUME UnloadCall PROVE SentOnce(r)' /\ (Pending(r)' => Pending(r))
  <2>1. PICK order \in [1 .. Cardinality(registry) -> registry] :
            Write([i \in DOMAIN order |-> RequestFrame("CancelGeneration", order[i])])
    BY <1>5 DEF UnloadCall
  <2> DEFINE fs == [i \in DOMAIN order |-> RequestFrame("CancelGeneration", order[i])]
  <2>2. fs \in Seq(CommandFrame)
    BY CancelFrames DEF TypeInv
  <2>3. \A i \in DOMAIN fs : fs[i].kind = "CancelGeneration"
    BY DEF RequestFrame
  <2>5. Write(fs)
    BY <2>1
  <2> HIDE DEF fs
  <2>4. DOMAIN fs = 1 .. Len(fs)
    BY <2>2, LenProperties
  <2>6. ~ Sent(fs, r)
    BY <2>3, <2>4 DEF Sent, IsStart
  <2>7. QuietStdin(r)
    BY <2>2, <2>5, <2>6, OthersAreQuiet
  <2> QED
    BY <1>5, <1>q, <2>7 DEF UnloadCall, workerOwn, requestVars
<1>6. ASSUME UnloadSend \/ ShutdownSend PROVE SentOnce(r)' /\ (Pending(r)' => Pending(r))
  <2>1. /\ PlainFrame("UnloadModel") \in CommandFrame /\ PlainFrame("Shutdown") \in CommandFrame
        /\ PlainFrame("UnloadModel").kind # "StartGeneration"
        /\ PlainFrame("Shutdown").kind # "StartGeneration"
    BY FrameTypes DEF PlainFrame
  <2> QED
    BY <1>6, <1>w, <2>1 DEF UnloadSend, ShutdownSend, workerOwn, requestVars
<1>7. ASSUME WatchdogHeartbeat PROVE SentOnce(r)' /\ (Pending(r)' => Pending(r))
  <2>1. PlainFrame("Ping") \in CommandFrame /\ PlainFrame("Ping").kind # "StartGeneration"
    BY FrameTypes DEF PlainFrame
  <2>2. stdin' = stdin \/ WriteAgain(PlainFrame("Ping"))
    BY <1>7 DEF WatchdogHeartbeat
  <2>3. UNCHANGED <<infQueue, start>>
    BY <1>7 DEF WatchdogHeartbeat, workerOwn, requestVars
  <2> QED
    BY <1>u, <1>w, <2>1, <2>2, <2>3
<1>8. ASSUME WatchdogCancels PROVE SentOnce(r)' /\ (Pending(r)' => Pending(r))
  <2>1. PICK c \in due.expired : WriteAgain(RequestFrame("CancelGeneration", c))
    BY <1>8 DEF WatchdogCancels
  <2>2. c \in Requests
    BY DEF TypeInv, CallType
  <2>3. /\ RequestFrame("CancelGeneration", c) \in CommandFrame
        /\ RequestFrame("CancelGeneration", c).kind # "StartGeneration"
    BY <2>2, FrameTypes DEF RequestFrame
  <2>4. UNCHANGED <<infQueue, start>>
    BY <1>8 DEF WatchdogCancels, workerOwn, requestVars
  <2> QED
    BY <1>w, <2>1, <2>3, <2>4
<1>r. ASSUME stdin # <<>>, stdin' = Tail(stdin)
      PROVE  /\ Sent(stdin, r) <=> IsStart(Head(stdin), r) \/ Sent(stdin, r)'
             /\ Once(stdin, r)'
             /\ ~ (IsStart(Head(stdin), r) /\ Sent(stdin, r)')
  <2>1. /\ Sent(stdin, r) <=> IsStart(Head(stdin), r) \/ Sent(Tail(stdin), r)
        /\ Once(Tail(stdin), r)
        /\ ~ (IsStart(Head(stdin), r) /\ Sent(Tail(stdin), r))
    BY <1>o, <1>r, <1>s, SentTail DEF SentOnce
  <2>2. /\ Sent(stdin, r) <=> IsStart(Head(stdin), r) \/ Sent(stdin', r)
        /\ Once(stdin', r)
        /\ ~ (IsStart(Head(stdin), r) /\ Sent(stdin', r))
    BY <1>r, <2>1
  <2> QED
    BY <2>2 DEF Sent, Once
<1>9. ASSUME CommandRefused, start' = start PROVE SentOnce(r)' /\ (Pending(r)' => Pending(r))
  <2>1. stdin # <<>> /\ stdin' = Tail(stdin) /\ infQueue' = infQueue
    BY <1>9 DEF CommandRefused
  <2>2. (Sent(infQueue, r)' <=> Sent(infQueue, r)) /\ (Once(infQueue, r)' <=> Once(infQueue, r))
    BY <2>1 DEF Sent, Once
  <2>3. Early(start[r])' <=> Early(start[r])
    BY <1>9 DEF Early
  <2> QED
    BY <1>o, <1>r, <2>1, <2>2, <2>3 DEF SentOnce, Pending
<1>10. ASSUME CommandDispatched, start' = start
       PROVE  SentOnce(r)' /\ (Pending(r)' => Pending(r))
  <2> DEFINE f == Head(stdin)
  <2>1. /\ stdin # <<>> /\ stdin' = Tail(stdin)
        /\ infQueue' = IF f.kind = "Ping" THEN infQueue ELSE Append(infQueue, f)
    BY <1>10 DEF CommandDispatched
  <2>2. f \in CommandFrame /\ <<f>> \in Seq(CommandFrame)
    BY <1>s, <2>1, FewFrames
  <2> HIDE DEF f
  <2>3. Early(start[r])' <=> Early(start[r])
    BY <1>10 DEF Early
  <2>4. /\ Sent(stdin, r) <=> IsStart(f, r) \/ Sent(stdin, r)'
        /\ Once(stdin, r)'
        /\ ~ (IsStart(f, r) /\ Sent(stdin, r)')
    BY <1>r, <2>1 DEF f
  <2>5. /\ Sent(infQueue \o <<f>>, r) <=> Sent(infQueue, r) \/ IsStart(f, r)
        /\ Once(infQueue, r) /\ ~ (Sent(infQueue, r) /\ IsStart(f, r))
              => Once(infQueue \o <<f>>, r)
    <3>1. (Sent(<<f>>, r) <=> IsStart(f, r)) /\ Once(<<f>>, r)
      BY SentOne
    <3> QED
      BY <1>s, <2>2, <3>1, SentConcat
  <2>6. Once(infQueue, r) /\ ~ (Sent(infQueue, r) /\ IsStart(f, r))
    BY <1>o, <2>4 DEF SentOnce
  <2>7. /\ Once(infQueue', r)
        /\ Sent(infQueue', r) <=> Sent(infQueue, r) \/ IsStart(f, r)
    <3>1. CASE f.kind = "Ping"
      BY <2>1, <2>6, <3>1 DEF IsStart
    <3>2. CASE f.kind # "Ping"
      <4>1. infQueue' = infQueue \o <<f>>
        BY <1>s, <2>1, <2>2, <3>2, AppendIsConcat
      <4> QED
        BY <2>5, <2>6, <4>1
    <3> QED
      BY <3>1, <3>2
  <2>8. /\ Once(infQueue, r)'
        /\ Sent(infQueue, r)' <=> Sent(infQueue, r) \/ IsStart(f, r)
    BY <2>7 DEF Once, Sent
  <2> QED
    BY <1>o, <2>3, <2>4, <2>8 DEF SentOnce, Pending
<1>11. ASSUME NEW k, Take(k), stdin' = stdin, start' = start
       PROVE  SentOnce(r)' /\ (Pending(r)' => Pending(r))
  <2>1. (Sent(stdin, r)' <=> Sent(stdin, r)) /\ (Once(stdin, r)' <=> Once(stdin, r))
    BY <1>11 DEF Sent, Once
  <2>2. Early(start[r])' <=> Early(start[r])
    BY <1>11 DEF Early
  <2>3. /\ Sent(infQueue, r) <=> IsStart(Head(infQueue), r) \/ Sent(infQueue, r)'
        /\ Once(infQueue, r)'
    BY <1>11, TakeStep
  <2> QED
    BY <1>o, <2>1, <2>2, <2>3 DEF SentOnce, Pending
<1>12. ASSUME InferShutdown \/ InferUnload \/ InferLoad \/ InferLoadFails \/ InferStart,
              start' = start
       PROVE  SentOnce(r)' /\ (Pending(r)' => Pending(r))
  <2>1. stdin' = stdin /\ \E k : Take(k)
    BY <1>12 DEF InferShutdown, InferUnload, InferLoad, InferLoadFails, InferStart, pipes
  <2> QED
    BY <1>11, <1>12, <2>1
<1>13. ASSUME InferToken \/ InferFails \/ InferCompletes, start' = start
       PROVE  SentOnce(r)' /\ (Pending(r)' => Pending(r))
  BY <1>13, <1>u DEF InferToken, InferFails, InferCompletes, Finish
<1>14. ASSUME InferQueueClosed \/ HeartbeatBeat \/ HeartbeatStops \/ MainReturns \/ WorkerDies,
              start' = start
       PROVE  SentOnce(r)' /\ (Pending(r)' => Pending(r))
  BY <1>14, <1>u DEF InferQueueClosed, HeartbeatBeat, HeartbeatStops, MainReturns, WorkerDies,
                     pipes, workerOwn
<1>15. ASSUME WorkerStep PROVE SentOnce(r)' /\ (Pending(r)' => Pending(r))
  <2>1. WorkerNext /\ start' = start
    BY <1>15 DEF WorkerStep, hostVars, requestVars
  <2> QED
    BY <1>9, <1>10, <1>12, <1>13, <1>14, <2>1 DEF WorkerNext
<1>16. ASSUME NEW c \in Requests, CloseStream(c) \/ CancelLookup(c) \/ DeadlinePasses(c)
       PROVE  SentOnce(r)' /\ (Pending(r)' => Pending(r))
  BY <1>16, <1>u DEF CloseStream, CancelLookup, DeadlinePasses, workerVars, pipes, workerOwn
<1>17. ASSUME LoadReturns \/ UnloadFaulted \/ UnloadReturns \/ DropKill \/ DropDrain \/ DropJoined
       PROVE  SentOnce(r)' /\ (Pending(r)' => Pending(r))
  BY <1>17, <1>u DEF LoadReturns, UnloadFaulted, UnloadReturns, DropKill, DropDrain, DropJoined,
                     workerVars, pipes, workerOwn, requestVars
<1>18. ASSUME ReaderNext PROVE SentOnce(r)' /\ (Pending(r)' => Pending(r))
  BY <1>18, <1>u DEF ReaderNext, ReaderCheck, ReaderError, ReaderEvent, workerVars, pipes,
                     workerOwn
<1>19. ASSUME WatchdogFaulted \/ WatchdogDead \/ WatchdogUnresponsive \/ WatchdogPatient
                \/ WatchdogLimit \/ WatchdogSnapshot \/ WatchdogDeadline \/ WatchdogSleeps
                \/ HeartbeatAges \/ UNCHANGED vars
       PROVE  SentOnce(r)' /\ (Pending(r)' => Pending(r))
  BY <1>19, <1>u DEF WatchdogFaulted, WatchdogDead, WatchdogUnresponsive, WatchdogPatient,
                     WatchdogLimit, WatchdogKill, WatchdogSnapshot, WatchdogDeadline,
                     WatchdogSleeps, HeartbeatAges, vars, hostVars, workerVars, pipes, workerOwn,
                     requestVars
<1> QED
  BY <1>1, <1>2, <1>3, <1>4, <1>5, <1>6, <1>7, <1>8, <1>15, <1>16, <1>17, <1>18, <1>19
     DEF Next, CallerNext, AdminNext, WatchdogNext

(* Once taken up, StartGeneration is nowhere else and is not sent again.   *)
LEMMA StartTaken ==
    ASSUME TypeInv, QueueInv, InferStart, start' = start, NEW r \in Requests,
           Head(infQueue).req = r
    PROVE  Pending(r) /\ ~ Pending(r)'
<1>1. Take("StartGeneration") /\ stdin' = stdin /\ Head(infQueue).kind = "StartGeneration"
  BY DEF InferStart, Take
<1>2. IsStart(Head(infQueue), r) /\ Sent(infQueue, r) /\ ~ Sent(infQueue, r)'
  BY <1>1, TakeStep DEF IsStart
<1>3. SentOnce(r)
  BY DEF QueueInv
<1>4. Sent(stdin, r)' <=> Sent(stdin, r)
  BY <1>1 DEF Sent
<1> QED
  BY <1>2, <1>3, <1>4 DEF SentOnce, Pending, Early

-----------------------------------------------------------------------------
(* What one more event makes of a stream.                                  *)
LEMMA StreamGrows ==
    ASSUME NEW s \in Seq(StreamEvent), NEW e \in StreamEvent
    PROVE  /\ IsTerminal(e) /\ OnlyEnds(s) => OnlyEnds(Append(s, e))
           /\ IsTerminal(e) /\ Orderly(s) => Orderly(Append(s, e))
           /\ s = <<>> => Append(s, e)[1] = e
           /\ s # <<>> => Append(s, e)[1] = s[1]
           /\ Append(s, e) # <<>>
<1> DEFINE t == Append(s, e)
<1>1. /\ Len(s) \in Nat /\ Len(t) = Len(s) + 1 /\ t[Len(s) + 1] = e
      /\ \A i \in 1 .. Len(s) : t[i] = s[i]
      /\ t # <<>> /\ (s = <<>> <=> Len(s) = 0)
  BY AppendProperties, EmptySeq
<1> HIDE DEF t
<1>2. s = <<>> => t[1] = e
  BY <1>1
<1>3. s # <<>> => t[1] = s[1]
  BY <1>1
<1>4. \A i \in 1 .. Len(t) : i \in 1 .. Len(s) \/ i = Len(s) + 1
  BY <1>1
<1>5. ASSUME IsTerminal(e), OnlyEnds(s) PROVE OnlyEnds(t)
  BY <1>1, <1>4, <1>5 DEF OnlyEnds
<1>6. ASSUME IsTerminal(e), Orderly(s) PROVE Orderly(t)
  <2>1. CASE OnlyEnds(s)
    BY <1>5, <1>6, <2>1 DEF Orderly
  <2>2. CASE s # <<>> /\ s[1] = "Started"
    BY <1>3, <2>2 DEF Orderly
  <2>3. CASE s = <<>>
    BY <1>5, <1>6, <2>3 DEF Orderly, OnlyEnds
  <2> QED
    BY <1>6, <2>1, <2>2, <2>3 DEF Orderly
<1> QED
  BY <1>1, <1>2, <1>3, <1>5, <1>6 DEF t

(* A step of the host that reads nothing ends streams at most.             *)
LEMMA HostKeeps ==
    ASSUME TypeInv, NEW r \in Requests, EventInv(r),
           UNCHANGED <<stdout, inf, hostView>>, closed \subseteq closed',
           r \in registry' => r \in registry \/ IdOf[r] \notin hostView.known,
           \/ stream'[r] = stream[r]
           \/ /\ r \notin registry'
              /\ \E e \in StreamEvent : IsTerminal(e) /\ stream'[r] = Append(stream[r], e)
    PROVE  EventInv(r)' /\ (Unheard(r) => Unheard(r)')
<1>1. stream[r] \in Seq(StreamEvent)
  BY DEF TypeInv, StreamType
<1>2. (OnlyEnds(stream[r]) => OnlyEnds(stream'[r])) /\ (Orderly(stream[r]) => Orderly(stream'[r]))
  BY <1>1, StreamGrows
<1>3. /\ OnlyEnds(stream[r]) => OnlyEnds(stream[r])'
      /\ Orderly(stream[r]) => Orderly(stream[r])'
  BY <1>2 DEF OnlyEnds, Orderly
<1>4. StartedFirst(r)'
  BY <1>3 DEF EventInv, StartedFirst, IsStarted
<1>5. Introduced(r)' /\ EndLast(r)' /\ GeneratesOpen(r)'
  BY DEF EventInv, Introduced, EndLast, GeneratesOpen, IsStarted, IsEnd
<1>6. OpenStarted(r)'
  BY DEF EventInv, OpenStarted
<1>7. Unheard(r) => Unheard(r)'
  BY <1>3 DEF Unheard
<1> QED
  BY <1>3, <1>4, <1>5, <1>6, <1>7 DEF EventInv

-----------------------------------------------------------------------------
(* What the worker writes comes behind what it has written.                *)
LEMMA Emitted ==
    ASSUME TypeInv, NEW fs \in Seq(EventFrame), Emit(fs)
    PROVE  /\ Len(stdout) \in Nat /\ Len(stdout') \in Nat /\ Len(stdout) <= Len(stdout')
           /\ \A i \in 1 .. Len(stdout) : i \in 1 .. Len(stdout') /\ stdout'[i] = stdout[i]
           /\ \A i \in 1 .. Len(stdout') :
                 i \in 1 .. Len(stdout) \/ (\E j \in 1 .. Len(fs) : stdout'[i] = fs[j])
<1>1. stdout \in Seq(EventFrame) /\ stdout' = stdout \o fs
  BY DEF TypeInv, PipeType, Emit
<1>2. /\ Len(stdout) \in Nat /\ Len(fs) \in Nat /\ Len(stdout') = Len(stdout) + Len(fs)
      /\ \A i \in 1 .. Len(stdout) + Len(fs) :
            stdout'[i] = IF i <= Len(stdout) THEN stdout[i] ELSE fs[i - Len(stdout)]
  BY <1>1, ConcatProperties
<1> DEFINE n == Len(stdout)
           k == Len(fs)
<1>3. ASSUME NEW i \in 1 .. n + k, i \notin 1 .. n PROVE \E j \in 1 .. k : stdout'[i] = fs[j]
  <2>1. i - n \in 1 .. k /\ ~ (i <= n)
    BY <1>2, <1>3
  <2> QED
    BY <1>2, <2>1
<1>4. n \in Nat /\ k \in Nat /\ Len(stdout') = n + k
  BY <1>2
<1>5. ASSUME NEW i \in 1 .. n PROVE i \in 1 .. Len(stdout') /\ stdout'[i] = stdout[i]
  BY <1>2, <1>5
<1> HIDE DEF n, k
<1>6. n <= Len(stdout') /\ Len(stdout') \in Nat
  BY <1>4
<1>7. \A i \in 1 .. Len(stdout') : i \in 1 .. n \/ (\E j \in 1 .. k : stdout'[i] = fs[j])
  BY <1>3, <1>4
<1> QED
  BY <1>4, <1>5, <1>6, <1>7 DEF n, k

(* A frame about another request, or about none, changes nothing for r.    *)
LEMMA OthersEmit ==
    ASSUME TypeInv, NEW r \in Requests, EventInv(r),
           NEW fs \in Seq(EventFrame), Emit(fs), \A j \in 1 .. Len(fs) : fs[j].req # r,
           inf'.req = inf.req \/ inf'.req # r,
           UNCHANGED <<hostView, registry, stream, closed>>
    PROVE  EventInv(r)' /\ (Unheard(r) => Unheard(r)')
<1>1. /\ \A i \in 1 .. Len(stdout) : i \in 1 .. Len(stdout') /\ stdout'[i] = stdout[i]
      /\ \A i \in 1 .. Len(stdout') : i \in 1 .. Len(stdout) \/ stdout'[i].req # r
  BY Emitted
<1>2. StartedFirst(r)'
  BY <1>1 DEF EventInv, StartedFirst, IsStarted, OnlyEnds
<1>3. Introduced(r)'
  BY <1>1 DEF EventInv, Introduced, IsStarted
<1>4. EndLast(r)'
  BY <1>1 DEF EventInv, EndLast, IsEnd
<1>5. GeneratesOpen(r)'
  BY <1>1 DEF EventInv, GeneratesOpen, IsStarted, IsEnd
<1>6. OpenStarted(r)' /\ Orderly(stream[r])'
  BY DEF EventInv, OpenStarted, Orderly, OnlyEnds
<1>7. Unheard(r) => Unheard(r)'
  BY <1>1 DEF Unheard, OnlyEnds
<1> QED
  BY <1>2, <1>3, <1>4, <1>5, <1>6, <1>7 DEF EventInv

(* GenerationStarted is the first that is heard of a request.              *)
LEMMA StartedEmitted ==
    ASSUME TypeInv, NEW r \in Requests, EventInv(r), Unheard(r),
           Emit(<<RequestFrame("GenerationStarted", r)>>),
           UNCHANGED <<hostView, registry, stream, closed>>
    PROVE  EventInv(r)'
<1> DEFINE f == RequestFrame("GenerationStarted", r)
           n == Len(stdout)
<1>1. f \in EventFrame /\ f.kind = "GenerationStarted" /\ f.req = r
  BY FrameTypes DEF RequestFrame, GenerationEvent
<1>2. stdout \in Seq(EventFrame) /\ stdout' = Append(stdout, f)
  BY <1>1, AppendIsConcat DEF TypeInv, PipeType, Emit
<1> HIDE DEF f
<1>3. /\ n \in Nat /\ Len(stdout') = n + 1 /\ stdout'[n + 1] = f
      /\ \A i \in 1 .. n : stdout'[i] = stdout[i]
  BY <1>1, <1>2, AppendProperties
<1> HIDE DEF n
<1>4. \A i \in 1 .. Len(stdout') : stdout'[i].req = r => i = n + 1
  BY <1>3 DEF Unheard, n
<1>5. n + 1 \in 1 .. Len(stdout') /\ IsStarted(stdout'[n + 1], r) /\ ~ IsEnd(stdout'[n + 1], r)
  BY <1>1, <1>3 DEF IsStarted, IsEnd, TerminalEvent
<1>6. \A i \in 1 .. Len(stdout') : ~ IsEnd(stdout'[i], r)
  BY <1>4, <1>5 DEF IsEnd
<1>7. IdOf[r] \notin hostView'.known /\ IdOf[r] \notin hostView'.terminal
  BY DEF Unheard
<1>8. StartedFirst(r)'
  BY <1>3, <1>4, <1>7 DEF StartedFirst, IsStarted, Unheard, OnlyEnds
<1>9. Introduced(r)' /\ EndLast(r)'
  BY <1>4, <1>5, <1>6, <1>7 DEF Introduced, EndLast, IsStarted, IsEnd
<1>10. GeneratesOpen(r)'
  BY <1>5, <1>6, <1>7 DEF GeneratesOpen, IsStarted, IsEnd
<1>11. OpenStarted(r)' /\ Orderly(stream[r])'
  BY DEF EventInv, OpenStarted, Orderly, OnlyEnds
<1> QED
  BY <1>8, <1>9, <1>10, <1>11 DEF EventInv

(* A Token or a terminal event comes from the generation in progress,      *)
(* which a terminal event ends.                                            *)
LEMMA GenerationEmitted ==
    ASSUME TypeInv, NEW r \in Requests, EventInv(r), inf.req = r,
           NEW k \in {"Token"} \cup TerminalEvent, Emit(<<RequestFrame(k, r)>>),
           inf'.req = r => k = "Token",
           UNCHANGED <<hostView, registry, stream, closed>>
    PROVE  EventInv(r)'
<1> DEFINE f == RequestFrame(k, r)
           n == Len(stdout)
<1>1. f \in EventFrame /\ f.kind = k /\ f.req = r
  BY FrameTypes DEF RequestFrame, GenerationEvent
<1>2. stdout \in Seq(EventFrame) /\ stdout' = Append(stdout, f)
  BY <1>1, AppendIsConcat DEF TypeInv, PipeType, Emit
<1> HIDE DEF f
<1>3. /\ n \in Nat /\ Len(stdout') = n + 1 /\ stdout'[n + 1] = f
      /\ \A i \in 1 .. n : stdout'[i] = stdout[i]
  BY <1>1, <1>2, AppendProperties
<1> HIDE DEF n
<1>4. /\ \A i \in 1 .. Len(stdout') : i <= n + 1 /\ (i \in 1 .. n \/ i = n + 1)
      /\ \A i \in 1 .. n : i \in 1 .. Len(stdout')
  BY <1>3
<1>5. /\ \A i \in 1 .. n : ~ IsEnd(stdout[i], r)
      /\ IdOf[r] \in hostView.known \/ \E i \in 1 .. n : IsStarted(stdout[i], r)
      /\ IdOf[r] \notin hostView.terminal
  BY DEF EventInv, GeneratesOpen, n
<1>6. \A i \in 1 .. Len(stdout') : IsStarted(stdout'[i], r) => i \in 1 .. n
  BY <1>1, <1>3, <1>4 DEF IsStarted, TerminalEvent
<1>7. IdOf[r] \in hostView.known \/ \E i \in 1 .. Len(stdout') : IsStarted(stdout'[i], r)
  BY <1>3, <1>4, <1>5
<1>8. StartedFirst(r)'
  <2> SUFFICES ASSUME NEW i \in 1 .. Len(stdout'), IsStarted(stdout'[i], r)
               PROVE  /\ \A j \in 1 .. Len(stdout') : stdout'[j].req = r => i <= j
                      /\ IdOf[r] \notin hostView.known /\ IdOf[r] \notin hostView.terminal
                      /\ OnlyEnds(stream[r])
    BY DEF StartedFirst, IsStarted, OnlyEnds
  <2>1. i \in 1 .. n /\ IsStarted(stdout[i], r)
    BY <1>3, <1>6
  <2>2. /\ \A j \in 1 .. n : stdout[j].req = r => i <= j
        /\ IdOf[r] \notin hostView.known /\ IdOf[r] \notin hostView.terminal
        /\ OnlyEnds(stream[r])
    BY <2>1 DEF EventInv, StartedFirst, n
  <2>3. i <= n + 1
    BY <1>4
  <2> QED
    BY <1>3, <1>4, <2>2, <2>3
<1>9. Introduced(r)'
  BY <1>5, <1>7 DEF Introduced, IsStarted
<1>10. EndLast(r)'
  <2>1. \A i \in 1 .. Len(stdout') : IsEnd(stdout'[i], r) => i = n + 1
    BY <1>3, <1>4, <1>5
  <2> QED
    BY <1>4, <2>1 DEF EndLast, IsEnd
<1>11. GeneratesOpen(r)'
  <2>1. k = "Token" => \A i \in 1 .. Len(stdout') : ~ IsEnd(stdout'[i], r)
    BY <1>1, <1>3, <1>4, <1>5 DEF IsEnd, TerminalEvent
  <2> QED
    BY <1>5, <1>7, <2>1 DEF GeneratesOpen, IsStarted, IsEnd
<1>12. OpenStarted(r)' /\ Orderly(stream[r])'
  BY DEF EventInv, OpenStarted, Orderly, OnlyEnds
<1> QED
  BY <1>8, <1>9, <1>10, <1>11, <1>12 DEF EventInv

-----------------------------------------------------------------------------
(* What the host's reader leaves in the pipe.                              *)
LEMMA ReadShifts ==
    ASSUME TypeInv, stdout # <<>>, stdout' = Tail(stdout)
    PROVE  /\ Len(stdout) \in Nat /\ Len(stdout') \in Nat
           /\ 1 \in 1 .. Len(stdout) /\ Head(stdout) = stdout[1] /\ stdout[1] \in EventFrame
           /\ \A i \in 1 .. Len(stdout') :
                 i + 1 \in 1 .. Len(stdout) /\ i + 1 # 1 /\ stdout'[i] = stdout[i + 1]
           /\ \A i \in 1 .. Len(stdout) : i # 1 => \E j \in 1 .. Len(stdout') : i = j + 1
<1> DEFINE n == Len(stdout)
           m == Len(stdout')
<1>1. stdout \in Seq(EventFrame)
  BY DEF TypeInv, PipeType
<1>2. /\ n \in Nat \ {0} /\ m = n - 1 /\ Head(stdout) = stdout[1] /\ Head(stdout) \in EventFrame
      /\ \A i \in 1 .. n - 1 : stdout'[i] = stdout[i + 1]
  BY <1>1, HeadTailProperties
<1> HIDE DEF n, m
<1>3. n \in Nat /\ m \in Nat /\ 1 \in 1 .. n
  BY <1>2
<1>4. ASSUME NEW i \in 1 .. m
      PROVE  i + 1 \in 1 .. n /\ i + 1 # 1 /\ stdout'[i] = stdout[i + 1]
  <2>1. i + 1 \in 1 .. n /\ i + 1 # 1
    BY <1>2
  <2>2. i \in 1 .. n - 1
    BY <1>2
  <2> QED
    BY <1>2, <2>1, <2>2
<1>5. ASSUME NEW i \in 1 .. n, i # 1 PROVE \E j \in 1 .. m : i = j + 1
  <2>1. i - 1 \in 1 .. m /\ i = (i - 1) + 1
    BY <1>2, <1>5
  <2> QED
    BY <2>1
<1> QED
  BY <1>2, <1>3, <1>4, <1>5 DEF n, m

(* The order of what is left is the order it had.                          *)
LEMMA EndStaysLast ==
    ASSUME TypeInv, stdout # <<>>, stdout' = Tail(stdout), NEW r \in Requests, EndLast(r)
    PROVE  EndLast(r)'
<1> SUFFICES ASSUME NEW i \in 1 .. Len(stdout'), NEW j \in 1 .. Len(stdout'),
                    IsEnd(stdout'[i], r), stdout'[j].req = r
             PROVE  j <= i
  BY DEF EndLast, IsEnd
<1>1. /\ i + 1 \in 1 .. Len(stdout) /\ stdout'[i] = stdout[i + 1]
      /\ j + 1 \in 1 .. Len(stdout) /\ stdout'[j] = stdout[j + 1]
  BY ReadShifts
<1>2. j + 1 <= i + 1
  BY <1>1 DEF EndLast
<1>3. i \in Nat /\ j \in Nat
  BY ReadShifts
<1> QED
  BY <1>2, <1>3

(* A frame that is not about r leaves r as it was.                         *)
LEMMA OthersRead ==
    ASSUME TypeInv, NEW r \in Requests, EventInv(r),
           stdout # <<>>, stdout' = Tail(stdout), Head(stdout).req # r,
           UNCHANGED <<inf, closed>>, r \in registry' => r \in registry,
           IdOf[r] \in hostView'.known <=> IdOf[r] \in hostView.known,
           IdOf[r] \in hostView'.terminal <=> IdOf[r] \in hostView.terminal,
           \/ stream'[r] = stream[r]
           \/ /\ r \notin registry'
              /\ \E e \in StreamEvent : IsTerminal(e) /\ stream'[r] = Append(stream[r], e)
    PROVE  EventInv(r)' /\ (Unheard(r) => Unheard(r)')
<1>1. stream[r] \in Seq(StreamEvent)
  BY DEF TypeInv, StreamType
<1>2. (OnlyEnds(stream[r]) => OnlyEnds(stream'[r])) /\ (Orderly(stream[r]) => Orderly(stream'[r]))
  BY <1>1, StreamGrows
<1>3. /\ OnlyEnds(stream[r]) => OnlyEnds(stream[r])'
      /\ Orderly(stream[r]) => Orderly(stream[r])'
  BY <1>2 DEF OnlyEnds, Orderly
<1>4. /\ stdout[1].req # r
      /\ \A i \in 1 .. Len(stdout') : i + 1 \in 1 .. Len(stdout) /\ stdout'[i] = stdout[i + 1]
      /\ \A i \in 1 .. Len(stdout) : i # 1 => \E j \in 1 .. Len(stdout') : i = j + 1
  BY ReadShifts
<1>5. StartedFirst(r)'
  <2> SUFFICES ASSUME NEW i \in 1 .. Len(stdout'), IsStarted(stdout'[i], r)
               PROVE  /\ \A j \in 1 .. Len(stdout') : stdout'[j].req = r => i <= j
                      /\ IdOf[r] \notin hostView.known /\ IdOf[r] \notin hostView.terminal
                      /\ OnlyEnds(stream[r])
    BY <1>3 DEF StartedFirst, IsStarted
  <2>1. i + 1 \in 1 .. Len(stdout) /\ IsStarted(stdout[i + 1], r)
    BY <1>4
  <2>2. /\ \A j \in 1 .. Len(stdout) : stdout[j].req = r => i + 1 <= j
        /\ IdOf[r] \notin hostView.known /\ IdOf[r] \notin hostView.terminal
        /\ OnlyEnds(stream[r])
    BY <2>1 DEF EventInv, StartedFirst
  <2>3. ASSUME NEW j \in 1 .. Len(stdout'), stdout'[j].req = r PROVE i <= j
    <3>1. i + 1 <= j + 1
      BY <1>4, <2>2, <2>3
    <3>2. i \in Nat /\ j \in Nat
      BY ReadShifts
    <3> QED
      BY <3>1, <3>2
  <2> QED
    BY <2>2, <2>3
<1>6. \A i \in 1 .. Len(stdout) :
          IsStarted(stdout[i], r) => \E j \in 1 .. Len(stdout') : IsStarted(stdout'[j], r)
  <2> SUFFICES ASSUME NEW i \in 1 .. Len(stdout), IsStarted(stdout[i], r)
               PROVE  \E j \in 1 .. Len(stdout') : IsStarted(stdout'[j], r)
    OBVIOUS
  <2>1. i # 1
    BY <1>4 DEF IsStarted
  <2>2. PICK j \in 1 .. Len(stdout') : i = j + 1
    BY <1>4, <2>1
  <2> QED
    BY <1>4, <2>2
<1>7. Introduced(r)'
  <2> SUFFICES ASSUME NEW i \in 1 .. Len(stdout'), stdout'[i].req = r
               PROVE  /\ \/ IsStarted(stdout'[i], r)
                         \/ IdOf[r] \in hostView.known
                         \/ \E j \in 1 .. Len(stdout') : IsStarted(stdout'[j], r)
                      /\ IdOf[r] \notin hostView.terminal
    BY DEF Introduced, IsStarted
  <2>1. i + 1 \in 1 .. Len(stdout) /\ stdout[i + 1].req = r
    BY <1>4
  <2>2. /\ \/ IsStarted(stdout[i + 1], r)
           \/ IdOf[r] \in hostView.known
           \/ \E j \in 1 .. Len(stdout) : IsStarted(stdout[j], r)
        /\ IdOf[r] \notin hostView.terminal
    BY <2>1 DEF EventInv, Introduced
  <2> QED
    BY <1>6, <2>1, <2>2
<1>8. EndLast(r)'
  BY EndStaysLast DEF EventInv
<1>9. GeneratesOpen(r)'
  <2> SUFFICES ASSUME inf.req = r
               PROVE  /\ \A i \in 1 .. Len(stdout') : ~ IsEnd(stdout'[i], r)
                      /\ \/ IdOf[r] \in hostView.known
                         \/ \E i \in 1 .. Len(stdout') : IsStarted(stdout'[i], r)
                      /\ IdOf[r] \notin hostView.terminal
    BY DEF GeneratesOpen, IsStarted, IsEnd
  <2> QED
    BY <1>4, <1>6 DEF EventInv, GeneratesOpen
<1>10. OpenStarted(r)'
  BY DEF EventInv, OpenStarted
<1>11. Unheard(r) => Unheard(r)'
  BY <1>3, <1>4 DEF Unheard
<1> QED
  BY <1>3, <1>5, <1>7, <1>8, <1>9, <1>10, <1>11 DEF EventInv

(* The host knows the request of any other event than GenerationStarted,   *)
(* which is behind it then.                                                *)
LEMMA KnownWhenRead ==
    ASSUME TypeInv, NEW r \in Requests, EventInv(r), stdout # <<>>, Head(stdout).req = r,
           Head(stdout).kind # "GenerationStarted"
    PROVE  /\ IdOf[r] \in hostView.known /\ IdOf[r] \notin hostView.terminal
           /\ \A i \in 1 .. Len(stdout) : ~ IsStarted(stdout[i], r)
<1>1. /\ Len(stdout) \in Nat /\ 1 \in 1 .. Len(stdout) /\ Head(stdout) = stdout[1]
  <2>1. stdout \in Seq(EventFrame)
    BY DEF TypeInv, PipeType
  <2> QED
    BY <2>1, HeadTailProperties
<1>2. stdout[1].req = r /\ ~ IsStarted(stdout[1], r)
  BY <1>1 DEF IsStarted
<1>3. ASSUME NEW i \in 1 .. Len(stdout), IsStarted(stdout[i], r) PROVE FALSE
  <2>1. i <= 1
    BY <1>1, <1>2, <1>3 DEF EventInv, StartedFirst
  <2>2. i = 1
    BY <1>1, <2>1
  <2> QED
    BY <1>2, <1>3, <2>2
<1> QED
  BY <1>1, <1>2, <1>3 DEF EventInv, Introduced

(* The stream of a request under its own identifier.                       *)
LEMMA OwnHolder ==
    ASSUME IdsUnique, TypeInv, NEW r \in Requests
    PROVE  /\ \A q \in Requests : q \in Holder(IdOf[r]) <=> q = r /\ r \in registry
           /\ \A e : try_send(IdOf[r], e) =>
                 /\ \A q \in Requests : q # r => stream'[q] = stream[q]
                 /\ \/ stream'[r] = stream[r] /\ (r \in registry /\ r \notin closed =>
                                                     ~ (Len(stream[r]) < StreamCapacity))
                    \/ stream'[r] = Append(stream[r], e) /\ r \in registry /\ r \notin closed
           /\ \A e : mark_terminal(IdOf[r], e) =>
                 /\ \A q \in Requests : q # r => stream'[q] = stream[q]
                 /\ \/ stream'[r] = stream[r]
                    \/ stream'[r] = Append(stream[r], e) /\ r \notin registry'
                 /\ registry' \subseteq registry /\ r \notin registry'
<1>1. \A q \in Requests : q \in Holder(IdOf[r]) <=> q = r /\ r \in registry
  BY DEF Holder, IdsUnique
<1>2. ASSUME NEW e, try_send(IdOf[r], e)
      PROVE  /\ \A q \in Requests : q # r => stream'[q] = stream[q]
             /\ \/ stream'[r] = stream[r] /\ (r \in registry /\ r \notin closed =>
                                                 ~ (Len(stream[r]) < StreamCapacity))
                \/ stream'[r] = Append(stream[r], e) /\ r \in registry /\ r \notin closed
  <2>1. PICK accept \in BOOLEAN :
            /\ \A q \in Holder(IdOf[r]) :
                  /\ q \in closed => ~ accept
                  /\ Len(stream[q]) < StreamCapacity /\ q \notin closed => accept
            /\ stream' = [q \in Requests |-> IF accept /\ q \in Holder(IdOf[r])
                                             THEN Append(stream[q], e) ELSE stream[q]]
    BY <1>2 DEF try_send
  <2>2. \A q \in Requests : q # r => stream'[q] = stream[q]
    BY <1>1, <2>1
  <2>3. CASE accept /\ r \in registry
    BY <1>1, <2>1, <2>3
  <2>4. CASE ~ (accept /\ r \in registry)
    BY <1>1, <2>1, <2>4
  <2> QED
    BY <2>2, <2>3, <2>4
<1>3. ASSUME NEW e, mark_terminal(IdOf[r], e)
      PROVE  /\ \A q \in Requests : q # r => stream'[q] = stream[q]
             /\ \/ stream'[r] = stream[r]
                \/ stream'[r] = Append(stream[r], e) /\ r \notin registry'
             /\ registry' \subseteq registry /\ r \notin registry'
  BY <1>1, <1>3 DEF mark_terminal, EndAll
<1> QED
  BY <1>1, <1>2, <1>3

(* A registered stream that carried no payload carried nothing.            *)
LEMMA EmptyWhileRegistered ==
    ASSUME TypeInv, RequestInv, NEW r \in Requests, r \in registry, OnlyEnds(stream[r])
    PROVE  stream[r] = <<>> /\ Len(stream[r]) < StreamCapacity
<1>1. stream[r] \in Seq(StreamEvent)
  BY DEF TypeInv, StreamType
<1>2. ~ HasTerminal(stream[r])
  BY DEF RequestInv
<1>3. Len(stream[r]) \in Nat
  BY <1>1
<1>4. Len(stream[r]) # 0 => 1 \in 1 .. Len(stream[r])
  BY <1>3
<1>5. Len(stream[r]) = 0
  BY <1>2, <1>4 DEF OnlyEnds, HasTerminal
<1> QED
  BY <1>1, <1>5, EmptySeq, StreamCapacityAssumption

(* GenerationStarted is read.                                              *)
LEMMA StartedRead ==
    ASSUME IdsUnique, TypeInv, RequestInv, NEW r \in Requests, EventInv(r),
           stdout # <<>>, stdout' = Tail(stdout), Head(stdout).req = r,
           Head(stdout).kind = "GenerationStarted", UNCHANGED <<inf, closed, registry>>,
           hostView' = AfterWorkerEvent(hostView, Head(stdout)),
           try_send(IdOf[r], "Started")
    PROVE  EventInv(r)'
<1>1. /\ IdOf[r] \in hostView'.known
      /\ IdOf[r] \in hostView'.terminal <=> IdOf[r] \in hostView.terminal
  BY DEF AfterWorkerEvent, TypeInv, HostType, Validator
<1>2. /\ Len(stdout) \in Nat /\ 1 \in 1 .. Len(stdout) /\ IsStarted(stdout[1], r)
      /\ \A i \in 1 .. Len(stdout') :
            i + 1 \in 1 .. Len(stdout) /\ i + 1 # 1 /\ stdout'[i] = stdout[i + 1]
  BY ReadShifts DEF IsStarted
<1>3. IdOf[r] \notin hostView.terminal /\ OnlyEnds(stream[r])
  BY <1>2 DEF EventInv, StartedFirst
<1>4. \A i \in 1 .. Len(stdout) : IsStarted(stdout[i], r) => i = 1
  <2> SUFFICES ASSUME NEW i \in 1 .. Len(stdout), IsStarted(stdout[i], r) PROVE i = 1
    OBVIOUS
  <2>1. i <= 1
    BY <1>2 DEF EventInv, StartedFirst, IsStarted
  <2> QED
    BY <1>2, <2>1
<1>5. StartedFirst(r)'
  BY <1>2, <1>4 DEF StartedFirst, IsStarted
<1>6. Introduced(r)'
  BY <1>1, <1>3 DEF Introduced
<1>7. EndLast(r)'
  BY EndStaysLast DEF EventInv
<1>8. GeneratesOpen(r)'
  <2>1. inf.req = r => \A i \in 1 .. Len(stdout') : ~ IsEnd(stdout'[i], r)
    BY <1>2 DEF EventInv, GeneratesOpen
  <2> QED
    BY <1>1, <1>3, <2>1 DEF GeneratesOpen, IsEnd
<1>9. stream[r] \in Seq(StreamEvent) /\ "Started" \in StreamEvent
  BY DEF TypeInv, StreamType, StreamEvent
<1>10. r \in registry => stream[r] = <<>> /\ Len(stream[r]) < StreamCapacity
  BY <1>3, EmptyWhileRegistered
<1>11. \/ stream'[r] = stream[r] /\ (r \in closed \/ r \notin registry)
       \/ stream'[r] = Append(stream[r], "Started") /\ r \in registry
  BY <1>10, OwnHolder
<1>12. CASE stream'[r] = stream[r] /\ (r \in closed \/ r \notin registry)
  <2>1. OpenStarted(r)'
    BY <1>12 DEF OpenStarted
  <2>2. Orderly(stream[r])'
    BY <1>3, <1>12 DEF Orderly, OnlyEnds
  <2> QED
    BY <1>5, <1>6, <1>7, <1>8, <2>1, <2>2 DEF EventInv
<1>13. CASE stream'[r] = Append(stream[r], "Started") /\ r \in registry
  <2>1. stream'[r] # <<>> /\ stream'[r][1] = "Started"
    BY <1>9, <1>10, <1>13, StreamGrows
  <2>2. OpenStarted(r)' /\ Orderly(stream[r])'
    BY <2>1 DEF OpenStarted, Orderly
  <2> QED
    BY <1>5, <1>6, <1>7, <1>8, <2>2 DEF EventInv
<1> QED
  BY <1>11, <1>12, <1>13

(* Token is read.                                                          *)
LEMMA TokenRead ==
    ASSUME IdsUnique, TypeInv, NEW r \in Requests, EventInv(r),
           stdout # <<>>, stdout' = Tail(stdout), Head(stdout).req = r,
           Head(stdout).kind = "Token", UNCHANGED <<inf, closed, registry, hostView>>,
           try_send(IdOf[r], "Token")
    PROVE  EventInv(r)'
<1>1. /\ IdOf[r] \in hostView.known /\ IdOf[r] \notin hostView.terminal
      /\ \A i \in 1 .. Len(stdout) : ~ IsStarted(stdout[i], r)
  BY KnownWhenRead
<1>2. \A i \in 1 .. Len(stdout') : i + 1 \in 1 .. Len(stdout) /\ stdout'[i] = stdout[i + 1]
  BY ReadShifts
<1>3. StartedFirst(r)'
  BY <1>1, <1>2 DEF StartedFirst, IsStarted
<1>4. Introduced(r)'
  BY <1>1 DEF Introduced
<1>5. EndLast(r)'
  BY EndStaysLast DEF EventInv
<1>6. GeneratesOpen(r)'
  <2>1. inf.req = r => \A i \in 1 .. Len(stdout') : ~ IsEnd(stdout'[i], r)
    BY <1>2 DEF EventInv, GeneratesOpen
  <2> QED
    BY <1>1, <2>1 DEF GeneratesOpen, IsEnd
<1>7. stream[r] \in Seq(StreamEvent) /\ "Token" \in StreamEvent
  BY DEF TypeInv, StreamType, StreamEvent
<1>8. \/ stream'[r] = stream[r]
      \/ stream'[r] = Append(stream[r], "Token") /\ r \in registry /\ r \notin closed
  BY OwnHolder
<1>9. CASE stream'[r] = stream[r]
  <2>1. OpenStarted(r)' /\ Orderly(stream[r])'
    BY <1>9 DEF EventInv, OpenStarted, Orderly, OnlyEnds
  <2> QED
    BY <1>3, <1>4, <1>5, <1>6, <2>1 DEF EventInv
<1>10. CASE stream'[r] = Append(stream[r], "Token") /\ r \in registry /\ r \notin closed
  <2>1. stream[r] # <<>> /\ stream[r][1] = "Started"
    BY <1>1, <1>10 DEF EventInv, OpenStarted
  <2>2. stream'[r] # <<>> /\ stream'[r][1] = "Started"
    BY <1>7, <1>10, <2>1, StreamGrows
  <2>3. OpenStarted(r)' /\ Orderly(stream[r])'
    BY <2>2 DEF OpenStarted, Orderly
  <2> QED
    BY <1>3, <1>4, <1>5, <1>6, <2>3 DEF EventInv
<1> QED
  BY <1>8, <1>9, <1>10

(* A terminal event is read: nothing more is to come.                      *)
LEMMA EndRead ==
    ASSUME IdsUnique, TypeInv, NEW r \in Requests, EventInv(r),
           stdout # <<>>, stdout' = Tail(stdout), Head(stdout).req = r,
           Head(stdout).kind \in TerminalEvent, UNCHANGED <<inf, closed>>,
           hostView' = AfterWorkerEvent(hostView, Head(stdout)),
           NEW e \in StreamEvent, IsTerminal(e), mark_terminal(IdOf[r], e)
    PROVE  EventInv(r)'
<1>1. /\ Len(stdout) \in Nat /\ 1 \in 1 .. Len(stdout) /\ IsEnd(stdout[1], r)
      /\ \A i \in 1 .. Len(stdout') :
            i + 1 \in 1 .. Len(stdout) /\ i + 1 # 1 /\ stdout'[i] = stdout[i + 1]
  BY ReadShifts DEF IsEnd
<1>2. \A i \in 1 .. Len(stdout) : stdout[i].req = r => i = 1
  <2> SUFFICES ASSUME NEW i \in 1 .. Len(stdout), stdout[i].req = r PROVE i = 1
    OBVIOUS
  <2>1. i <= 1
    BY <1>1 DEF EventInv, EndLast
  <2> QED
    BY <1>1, <2>1
<1>3. \A i \in 1 .. Len(stdout') : stdout'[i].req # r
  BY <1>1, <1>2
<1>4. inf.req # r
  BY <1>1 DEF EventInv, GeneratesOpen
<1>5. StartedFirst(r)' /\ Introduced(r)' /\ EndLast(r)' /\ GeneratesOpen(r)'
  BY <1>3, <1>4 DEF StartedFirst, Introduced, EndLast, GeneratesOpen, IsStarted, IsEnd
<1>6. IdOf[r] \notin hostView'.known
  BY DEF AfterWorkerEvent, TerminalEvent
<1>7. stream[r] \in Seq(StreamEvent)
  BY DEF TypeInv, StreamType
<1>8. stream'[r] = stream[r] \/ stream'[r] = Append(stream[r], e)
  BY OwnHolder
<1>9. Orderly(stream'[r])
  BY <1>7, <1>8, StreamGrows DEF EventInv
<1>10. OpenStarted(r)' /\ Orderly(stream[r])'
  BY <1>6, <1>9 DEF OpenStarted, Orderly, OnlyEnds
<1> QED
  BY <1>5, <1>10 DEF EventInv

-----------------------------------------------------------------------------
(* The reader's validator accepts what is at the head of the pipe.         *)
LEMMA HeadAccepted ==
    ASSUME TypeInv, PipeInv, stdout # <<>>
    PROVE  WorkerEventOk(hostView, Head(stdout))
<1> DEFINE f == Head(stdout)
<1>1. f \in EventFrame
  BY DEF TypeInv, PipeType
<1>2. 1 \in 1 .. Len(stdout) /\ f = stdout[1]
  <2>1. stdout \in Seq(EventFrame)
    BY DEF TypeInv, PipeType
  <2> QED
    BY <2>1, HeadTailProperties
<1> HIDE DEF f
<1>3. ASSUME f.kind = "GenerationStarted" PROVE IdOf[f.req] \notin hostView.known
  <2>1. f.req \in Requests
    BY <1>1, <1>3 DEF EventFrame, GenerationEvent
  <2>2. EventInv(f.req) /\ IsStarted(stdout[1], f.req)
    BY <1>2, <1>3, <2>1 DEF PipeInv, IsStarted
  <2> QED
    BY <1>2, <2>2 DEF EventInv, StartedFirst
<1>4. ASSUME f.kind \in TerminalEvent
      PROVE  IdOf[f.req] \in hostView.known /\ IdOf[f.req] \notin hostView.terminal
  <2>1. f.req \in Requests
    BY <1>1, <1>4 DEF EventFrame, GenerationEvent
  <2>2. f.kind # "GenerationStarted"
    BY <1>4 DEF TerminalEvent
  <2>3. EventInv(f.req)
    BY <2>1 DEF PipeInv
  <2> QED
    BY <2>1, <2>2, <2>3, KnownWhenRead DEF f
<1> QED
  BY <1>3, <1>4 DEF WorkerEventOk, f

(* The reader takes one event.                                             *)
LEMMA ReaderEventStep ==
    ASSUME IdsUnique, TypeInv, RequestInv, PipeInv, ReaderEvent, NEW r \in Requests
    PROVE  EventInv(r)' /\ (Unheard(r) => Unheard(r)')
<1> DEFINE f == Head(stdout)
<1>e. EventInv(r)
  BY DEF PipeInv
<1>f. f \in EventFrame
  BY DEF TypeInv, PipeType, ReaderEvent
<1>1. /\ stdout # <<>> /\ stdout' = Tail(stdout) /\ UNCHANGED <<inf, closed>>
      /\ hostView' = AfterWorkerEvent(hostView, f)
      /\ Dispatch(f)
  BY DEF ReaderEvent, workerOwn
<1>2. Unheard(r) => f.req # r
  <2>1. stdout \in Seq(EventFrame)
    BY DEF TypeInv, PipeType
  <2>2. 1 \in 1 .. Len(stdout) /\ f = stdout[1]
    BY <1>1, <2>1, HeadTailProperties
  <2> QED
    BY <2>2 DEF Unheard
<1> HIDE DEF f
<1>3. CASE f.req = r
  <2>1. f.kind \in GenerationEvent
    BY <1>3, <1>f DEF EventFrame
  <2>2. CASE f.kind = "GenerationStarted"
    <3>1. registry' = registry /\ try_send(IdOf[r], "Started")
      BY <1>1, <1>3, <2>2 DEF Dispatch, TerminalEvent
    <3> QED
      BY <1>1, <1>2, <1>3, <1>e, <2>2, <3>1, StartedRead DEF f
  <2>3. CASE f.kind = "Token"
    <3>1. registry' = registry /\ try_send(IdOf[r], "Token")
      BY <1>1, <1>3, <2>3 DEF Dispatch, TerminalEvent
    <3>2. hostView' = hostView
      BY <1>1, <2>3 DEF AfterWorkerEvent, TerminalEvent
    <3> QED
      BY <1>1, <1>2, <1>3, <1>e, <2>3, <3>1, <3>2, TokenRead DEF f
  <2>4. CASE f.kind \in TerminalEvent
    <3>1. mark_terminal(IdOf[r], OutcomeOf(f.kind))
      BY <1>1, <1>3, <2>4 DEF Dispatch, TerminalEvent
    <3>2. OutcomeOf(f.kind) \in StreamEvent /\ IsTerminal(OutcomeOf(f.kind))
      BY DEF OutcomeOf, StreamEvent, IsTerminal
    <3> QED
      BY <1>1, <1>2, <1>3, <1>e, <2>4, <3>1, <3>2, EndRead DEF f
  <2> QED
    BY <2>1, <2>2, <2>3, <2>4 DEF GenerationEvent
<1>4. CASE f.req # r
  <2>1. f.req \in Requests => IdOf[f.req] # IdOf[r]
    BY <1>4 DEF IdsUnique
  <2>2. f.kind \in GenerationEvent <=> f.req \in Requests
    BY <1>f DEF EventFrame
  <2>3. /\ IdOf[r] \in hostView'.known <=> IdOf[r] \in hostView.known
        /\ IdOf[r] \in hostView'.terminal <=> IdOf[r] \in hostView.terminal
    <3>1. hostView \in Validator
      BY DEF TypeInv, HostType
    <3> QED
      BY <1>1, <2>1, <2>2, <3>1 DEF AfterWorkerEvent, GenerationEvent, Validator
  <2>t. "Error" \in StreamEvent /\ IsTerminal("Error")
    BY DEF StreamEvent, IsTerminal
  <2>4. /\ r \in registry' => r \in registry
        /\ \/ stream'[r] = stream[r]
           \/ /\ r \notin registry'
              /\ \E e \in StreamEvent : IsTerminal(e) /\ stream'[r] = Append(stream[r], e)
    <3>1. CASE f.kind = "WorkerFatal"
      <4>1. fail_all
        BY <1>1, <3>1 DEF Dispatch, Fault
      <4> QED
        BY <2>t, <4>1 DEF fail_all, EndAll
    <3>2. CASE f.kind \in TerminalEvent
      <4>1. mark_terminal(IdOf[f.req], OutcomeOf(f.kind)) /\ f.req \in Requests
        BY <1>1, <2>2, <3>2 DEF Dispatch, TerminalEvent, GenerationEvent
      <4> QED
        BY <1>4, <4>1, OwnHolder
    <3>3. CASE f.kind \in {"GenerationStarted", "Token"}
      <4>1. /\ registry' = registry /\ f.req \in Requests
            /\ \E e : try_send(IdOf[f.req], e)
        BY <1>1, <2>2, <3>3 DEF Dispatch, TerminalEvent, GenerationEvent
      <4> QED
        BY <1>4, <4>1, OwnHolder
    <3>4. CASE f.kind # "WorkerFatal" /\ f.kind \notin GenerationEvent
      BY <1>1, <3>4 DEF Dispatch, GenerationEvent
    <3> QED
      BY <3>1, <3>2, <3>3, <3>4 DEF GenerationEvent
  <2> QED
    BY <1>1, <1>4, <1>e, <2>3, <2>4, OthersRead DEF f
<1> QED
  BY <1>3, <1>4

(* The worker takes a step.                                                *)
LEMMA WorkerEventStep ==
    ASSUME TypeInv, PipeInv, WorkerStep, NEW r \in Requests
    PROVE  EventInv(r)' /\ (Unheard(r) /\ Pending(r)' => Unheard(r)')
<1>e. EventInv(r)
  BY DEF PipeInv
<1>h. UNCHANGED <<hostView, registry, stream, closed, start>>
  BY DEF WorkerStep, hostVars, requestVars
<1>t. \A f \in EventFrame : <<f>> \in Seq(EventFrame) /\ Len(<<f>>) = 1 /\ <<f>>[1] = f
  BY FewFrames
<1>i. Idle.req # r /\ Gone.req # r
  BY RequestsAssumption DEF Idle, Gone
<1>o. ASSUME NEW f \in EventFrame, f.req # r, Emit(<<f>>), inf'.req = inf.req \/ inf'.req # r
      PROVE  EventInv(r)' /\ (Unheard(r) => Unheard(r)')
  <2>1. \A j \in 1 .. Len(<<f>>) : <<f>>[j].req # r
    BY <1>o
  <2> QED
    BY <1>e, <1>h, <1>o, <1>t, <2>1, OthersEmit
<1>s. ASSUME stdout' = stdout, inf'.req = inf.req \/ inf'.req # r
      PROVE  EventInv(r)' /\ (Unheard(r) => Unheard(r)')
  <2>1. stdout \in Seq(EventFrame) /\ <<>> \in Seq(EventFrame) /\ Len(<<>>) = 0
    BY DEF TypeInv, PipeType
  <2>2. Emit(<<>>)
    BY <1>s, <2>1, ConcatEmptySeq DEF Emit
  <2>3. \A j \in 1 .. Len(<<>>) : <<>>[j].req # r
    BY <2>1
  <2> QED
    BY <1>e, <1>h, <1>s, <2>1, <2>2, <2>3, OthersEmit
<1>p. /\ \A k \in {"WorkerFatal", "ModelUnloaded", "Heartbeat"} :
            PlainFrame(k) \in EventFrame /\ PlainFrame(k).req # r
      /\ \A k \in {"RoutesValidated", "ModelReady"}, n \in Nat :
            EpochFrame(k, n) \in EventFrame /\ EpochFrame(k, n).req # r
  BY FrameTypes, RequestsAssumption DEF PlainFrame, EpochFrame
<1>g. inf.at = "generate" => inf.req \in Requests
  BY DEF TypeInv, WorkerType, InfState
<1>k. \A k \in GenerationEvent : \A q \in Requests :
          RequestFrame(k, q) \in EventFrame /\ RequestFrame(k, q).req = q
  BY FrameTypes DEF RequestFrame
<1>1. ASSUME CommandRefused PROVE EventInv(r)' /\ (Unheard(r) => Unheard(r)')
  BY <1>1, <1>o, <1>p DEF CommandRefused
<1>2. ASSUME CommandDispatched PROVE EventInv(r)' /\ (Unheard(r) => Unheard(r)')
  <2>1. /\ \/ Emit(<<PlainFrame("ModelUnloaded")>>) \/ Emit(<<PlainFrame("Heartbeat")>>)
           \/ Emit(<<>>)
        /\ inf' = inf
    BY <1>2 DEF CommandDispatched
  <2>2. Emit(<<>>) => stdout' = stdout
    BY ConcatEmptySeq DEF TypeInv, PipeType, Emit
  <2> QED
    BY <1>o, <1>p, <1>s, <2>1, <2>2
<1>3. ASSUME InferShutdown \/ InferUnload \/ InferQueueClosed \/ HeartbeatStops \/ MainReturns
               \/ WorkerDies
      PROVE  EventInv(r)' /\ (Unheard(r) => Unheard(r)')
  <2>1. stdout' = stdout /\ (inf' = inf \/ inf' = Gone)
    BY <1>3 DEF InferShutdown, InferUnload, InferQueueClosed, HeartbeatStops, MainReturns,
                WorkerDies, pipes, workerOwn
  <2> QED
    BY <1>i, <1>s, <2>1
<1>4. ASSUME InferLoad PROVE EventInv(r)' /\ (Unheard(r) => Unheard(r)')
  <2> DEFINE n == Head(infQueue).epoch
             f == EpochFrame("RoutesValidated", n)
             g == EpochFrame("ModelReady", n)
  <2>1. n \in Nat
    BY <1>4 DEF InferLoad, Take, TypeInv, PipeType, CommandFrame, Frame
  <2>2. f \in EventFrame /\ f.req # r /\ g \in EventFrame /\ g.req # r
    BY <1>p, <2>1
  <2>3. Emit(<<f, g>>) /\ inf' = inf
    BY <1>4 DEF InferLoad
  <2> HIDE DEF f, g
  <2>4. <<f, g>> \in Seq(EventFrame) /\ Len(<<f, g>>) = 2 /\ <<f, g>>[1] = f /\ <<f, g>>[2] = g
    BY <2>2, FewFrames
  <2>5. \A j \in 1 .. Len(<<f, g>>) : <<f, g>>[j].req # r
    BY <2>2, <2>4
  <2> QED
    BY <1>e, <1>h, <2>3, <2>4, <2>5, OthersEmit
<1>5. ASSUME InferLoadFails PROVE EventInv(r)' /\ (Unheard(r) => Unheard(r)')
  <2>1. Emit(<<PlainFrame("WorkerFatal")>>) /\ inf' = Gone
    BY <1>5 DEF InferLoadFails
  <2> QED
    BY <1>i, <1>o, <1>p, <2>1
<1>6. ASSUME InferStart PROVE EventInv(r)' /\ (Unheard(r) /\ Pending(r)' => Unheard(r)')
  <2>1. PICK q \in Requests : Head(infQueue).req = q
    BY <1>6 DEF InferStart, Take, TypeInv, PipeType, CommandFrame
  <2>2. cancel = FALSE /\ QueueInv
    BY DEF PipeInv, NeverCancels
  <2>3. \/ stdout' = stdout /\ inf' = inf
        \/ Emit(<<RequestFrame("GenerationStarted", q)>>) /\ inf' = Generating(q, 0)
    BY <1>6, <2>1, <2>2 DEF InferStart
  <2>4. Pending(q) /\ ~ Pending(q)'
    BY <1>6, <1>h, <2>1, <2>2, StartTaken
  <2>5. Generating(q, 0).req = q
    BY DEF Generating
  <2>6. CASE stdout' = stdout /\ inf' = inf
    BY <1>s, <2>6
  <2>7. CASE Emit(<<RequestFrame("GenerationStarted", q)>>) /\ inf' = Generating(q, 0)
    <3>1. CASE q = r
      <4>1. Unheard(r)
        BY <2>1, <2>4, <3>1 DEF PipeInv
      <4>2. EventInv(r)'
        BY <1>e, <1>h, <2>7, <3>1, <4>1, StartedEmitted
      <4> QED
        BY <2>4, <3>1, <4>2
    <3>2. CASE q # r
      BY <1>k, <1>o, <2>1, <2>5, <2>7, <3>2 DEF GenerationEvent
    <3> QED
      BY <3>1, <3>2
  <2> QED
    BY <2>3, <2>6, <2>7
<1>7. ASSUME NEW k \in {"Token"} \cup TerminalEvent, inf.at = "generate",
             Emit(<<RequestFrame(k, inf.req)>>), inf' = Idle \/ (k = "Token" /\ inf'.req = inf.req)
      PROVE  EventInv(r)' /\ (Unheard(r) => Unheard(r)')
  <2>1. inf.req \in Requests
    BY <1>7, <1>g
  <2>2. CASE inf.req = r
    <3>1. ~ Unheard(r)
      BY <2>2 DEF Unheard
    <3>2. inf'.req = r => k = "Token"
      BY <1>7, <1>i
    <3> QED
      BY <1>7, <1>e, <1>h, <2>2, <3>1, <3>2, GenerationEmitted
  <2>3. CASE inf.req # r
    <3>1. RequestFrame(k, inf.req) \in EventFrame /\ RequestFrame(k, inf.req).req # r
      BY <1>k, <2>1, <2>3 DEF GenerationEvent
    <3> QED
      BY <1>7, <1>i, <1>o, <3>1
  <2> QED
    BY <2>2, <2>3
<1>f. ASSUME NEW k \in TerminalEvent, inf.at = "generate", Finish(k)
      PROVE  EventInv(r)' /\ (Unheard(r) => Unheard(r)')
  BY <1>7, <1>f DEF Finish
<1>8. ASSUME InferToken PROVE EventInv(r)' /\ (Unheard(r) => Unheard(r)')
  <2>1. CASE cancel
    BY <1>8, <1>f, <2>1 DEF InferToken, TerminalEvent
  <2>2. CASE ~ cancel
    <3>1. /\ inf.at = "generate" /\ Emit(<<RequestFrame("Token", inf.req)>>)
          /\ inf'.req = inf.req
      BY <1>8, <2>2 DEF InferToken, Generating
    <3> QED
      BY <1>7, <3>1
  <2> QED
    BY <2>1, <2>2
<1>9. ASSUME InferFails \/ InferCompletes PROVE EventInv(r)' /\ (Unheard(r) => Unheard(r)')
  BY <1>9, <1>f DEF InferFails, InferCompletes, TerminalEvent
<1>10. ASSUME HeartbeatBeat PROVE EventInv(r)' /\ (Unheard(r) => Unheard(r)')
  <2>1. Emit(<<PlainFrame("Heartbeat")>>) /\ inf' = inf
    BY <1>10 DEF HeartbeatBeat, workerOwn
  <2> QED
    BY <1>o, <1>p, <2>1
<1> QED
  BY <1>1, <1>2, <1>3, <1>4, <1>5, <1>6, <1>8, <1>9, <1>10 DEF WorkerStep, WorkerNext

(* Every step keeps what is known of the events of a request.              *)
LEMMA PipeStep ==
    ASSUME IdsUnique, TypeInv, RequestInv, PipeInv, [Next]_vars, NEW r \in Requests
    PROVE  EventInv(r)' /\ (Unheard(r) /\ Pending(r)' => Unheard(r)')
<1>e. EventInv(r) /\ (Pending(r) => Unheard(r))
  BY DEF PipeInv
<1>h. ASSUME UNCHANGED <<stdout, inf, hostView, stream>>, closed \subseteq closed',
             registry' \subseteq registry
      PROVE  EventInv(r)' /\ (Unheard(r) => Unheard(r)')
  BY <1>e, <1>h, HostKeeps
<1>d. ASSUME NEW S \in SUBSET registry, NEW e \in StreamEvent, IsTerminal(e), EndAll(S, e),
             UNCHANGED <<stdout, inf, hostView, closed>>
      PROVE  EventInv(r)' /\ (Unheard(r) => Unheard(r)')
  <2>1. registry' \subseteq registry /\ (r \in S => r \notin registry')
    BY <1>d DEF EndAll
  <2>2. stream'[r] = IF r \in S THEN Append(stream[r], e) ELSE stream[r]
    BY <1>d DEF EndAll
  <2> QED
    BY <1>e, <1>d, <2>1, <2>2, HostKeeps
<1>t. "Error" \in StreamEvent /\ IsTerminal("Error")
  BY DEF StreamEvent, IsTerminal
<1>f. ASSUME fail_all, UNCHANGED <<stdout, inf, hostView, closed>>
      PROVE  EventInv(r)' /\ (Unheard(r) => Unheard(r)')
  BY <1>d, <1>f, <1>t DEF fail_all
<1>1. ASSUME NEW c \in Requests, StartCheck(c) \/ StartSend(c) \/ CloseStream(c)
               \/ CancelLookup(c) \/ CancelSend(c) \/ DeadlinePasses(c)
      PROVE  EventInv(r)' /\ (Unheard(r) => Unheard(r)')
  <2>1. /\ UNCHANGED <<stdout, inf, hostView, stream>> /\ closed \subseteq closed'
        /\ registry' \subseteq registry
    BY <1>1 DEF StartCheck, StartSend, CloseStream, CancelLookup, CancelSend, DeadlinePasses,
                workerVars, pipes, workerOwn
  <2> QED
    BY <1>h, <2>1
<1>2. ASSUME NEW c \in Requests, StartInsert(c)
      PROVE  EventInv(r)' /\ (Unheard(r) => Unheard(r)')
  <2>1. UNCHANGED <<stdout, inf, hostView, stream, closed>>
    BY <1>2 DEF StartInsert, workerVars, pipes, workerOwn
  <2>2. r \in registry' => r \in registry \/ r = c
    BY <1>2 DEF StartInsert, insert
  <2>3. r = c => IdOf[r] \notin hostView.known
    BY <1>2, <1>e DEF StartInsert, Pending, Early, Unheard
  <2> QED
    BY <1>e, <2>1, <2>2, <2>3, HostKeeps
<1>3. ASSUME LoadCall \/ LoadReturns \/ UnloadCall \/ UnloadSend \/ ShutdownSend \/ UnloadReturns
               \/ DropKill \/ DropJoined
      PROVE  EventInv(r)' /\ (Unheard(r) => Unheard(r)')
  <2>1. UNCHANGED <<stdout, inf, hostView, stream, closed, registry>>
    BY <1>3 DEF LoadCall, LoadReturns, UnloadCall, UnloadSend, ShutdownSend, UnloadReturns,
                DropKill, DropJoined, workerVars, pipes, workerOwn, requestVars
  <2> QED
    BY <1>h, <2>1
<1>4. ASSUME UnloadFaulted \/ DropDrain PROVE EventInv(r)' /\ (Unheard(r) => Unheard(r)')
  <2>1. fail_all /\ UNCHANGED <<stdout, inf, hostView, closed>>
    BY <1>4 DEF UnloadFaulted, DropDrain, workerVars, pipes, workerOwn
  <2> QED
    BY <1>f, <2>1
<1>5. ASSUME ReaderCheck PROVE EventInv(r)' /\ (Unheard(r) => Unheard(r)')
  <2>1. UNCHANGED <<stdout, inf, hostView, closed>>
    BY <1>5 DEF ReaderCheck, workerVars, pipes, workerOwn
  <2>2. fail_all \/ UNCHANGED <<registry, stream>>
    BY <1>5 DEF ReaderCheck, Fault
  <2> QED
    BY <1>f, <1>h, <2>1, <2>2
<1>6. ASSUME ReaderError PROVE EventInv(r)' /\ (Unheard(r) => Unheard(r)')
  <2>1. stdout = <<>>
    BY <1>6, HeadAccepted DEF ReaderError, ReadFails
  <2>2. fail_all /\ UNCHANGED <<stdout, inf, hostView, closed>>
    BY <1>6, <2>1 DEF ReaderError, Fault, workerOwn
  <2> QED
    BY <1>f, <2>2
<1>7. ASSUME ReaderEvent PROVE EventInv(r)' /\ (Unheard(r) => Unheard(r)')
  BY <1>7, ReaderEventStep
<1>8. ASSUME WatchdogFaulted \/ WatchdogHeartbeat \/ WatchdogPatient \/ WatchdogSnapshot
               \/ WatchdogCancels \/ WatchdogSleeps \/ HeartbeatAges \/ UNCHANGED vars
      PROVE  EventInv(r)' /\ (Unheard(r) => Unheard(r)')
  <2>1. UNCHANGED <<stdout, inf, hostView, stream, closed, registry>>
    BY <1>8 DEF WatchdogFaulted, WatchdogHeartbeat, WatchdogPatient, WatchdogSnapshot,
                WatchdogCancels, WatchdogSleeps, HeartbeatAges, vars, hostVars, workerVars,
                pipes, workerOwn, requestVars
  <2> QED
    BY <1>h, <2>1
<1>9. ASSUME WatchdogDead \/ WatchdogUnresponsive \/ WatchdogLimit
      PROVE  EventInv(r)' /\ (Unheard(r) => Unheard(r)')
  <2>1. fail_all /\ UNCHANGED <<stdout, inf, hostView, closed>>
    BY <1>9 DEF WatchdogDead, WatchdogUnresponsive, WatchdogLimit, WatchdogKill, Fault,
                workerVars, pipes, workerOwn
  <2> QED
    BY <1>f, <2>1
<1>10. ASSUME WatchdogDeadline PROVE EventInv(r)' /\ (Unheard(r) => Unheard(r)')
  <2>1. UNCHANGED <<stdout, inf, hostView, closed>>
    BY <1>10 DEF WatchdogDeadline, pipes, workerOwn
  <2>2. PICK c \in due.overdue : EndAll(Holder(IdOf[c]), "DeadlineExceeded")
    BY <1>10 DEF WatchdogDeadline, mark_terminal
  <2>3. Holder(IdOf[c]) \in SUBSET registry
    BY DEF Holder
  <2>4. "DeadlineExceeded" \in StreamEvent /\ IsTerminal("DeadlineExceeded")
    BY DEF StreamEvent, IsTerminal
  <2> QED
    BY <1>d, <2>1, <2>2, <2>3, <2>4
<1>11. ASSUME WorkerStep PROVE EventInv(r)' /\ (Unheard(r) /\ Pending(r)' => Unheard(r)')
  BY <1>11, WorkerEventStep
<1> QED
  BY <1>1, <1>2, <1>3, <1>4, <1>5, <1>6, <1>7, <1>8, <1>9, <1>10, <1>11
     DEF Next, CallerNext, AdminNext, ReaderNext, WatchdogNext

(* The invariant of the pipes, from the types and the terminal guarantee.  *)
LEMMA PipesInductive == IdsUnique => (Spec => [](TypeInv /\ PipeInv))
<1> SUFFICES ASSUME IdsUnique PROVE Spec => [](TypeInv /\ PipeInv)
  OBVIOUS
<1>1. Init => RequestType /\ RequestInv
  BY DEF Init, RequestType, RequestInv, TerminalLast, HasTerminal
<1>2. Init => PipeInv
  <2> SUFFICES ASSUME Init PROVE PipeInv
    OBVIOUS
  <2>1. /\ stdin = <<>> /\ stdout = <<>> /\ infQueue = <<>> /\ inf = Idle
        /\ hostView = NewValidator
        /\ \A r \in Requests : stream[r] = <<>>
    BY DEF Init, WorkerInit
  <2>e. /\ 1 .. Len(stdin) = {} /\ 1 .. Len(stdout) = {} /\ 1 .. Len(infQueue) = {}
        /\ \A r \in Requests : 1 .. Len(stream[r]) = {}
    BY <2>1
  <2>2. NeverCancels
    BY DEF Init, WorkerInit, NeverCancels
  <2>3. QueueInv
    BY <2>e DEF QueueInv, SentOnce, Once, Sent
  <2>4. \A r \in Requests : Unheard(r)
    BY <2>e, <2>1, RequestsAssumption DEF Unheard, OnlyEnds, Idle, NewValidator
  <2>5. \A r \in Requests : StartedFirst(r) /\ Introduced(r) /\ EndLast(r)
    BY <2>e DEF StartedFirst, Introduced, EndLast
  <2>6. \A r \in Requests : GeneratesOpen(r) /\ OpenStarted(r) /\ Orderly(stream[r])
    BY <2>1, <2>4 DEF GeneratesOpen, OpenStarted, Orderly, Unheard
  <2> QED
    BY <2>2, <2>3, <2>4, <2>5, <2>6 DEF PipeInv, EventInv
<1>3. RequestType /\ RequestInv /\ [Next]_vars => RequestType' /\ RequestInv'
  BY RequestStep
<1>4. ASSUME TypeInv, RequestInv, PipeInv, [Next]_vars PROVE PipeInv'
  <2>1. NeverCancels'
    BY <1>4, CancelStep DEF PipeInv
  <2>2. \A r \in Requests : SentOnce(r)' /\ (Pending(r)' => Pending(r))
    BY <1>4, StartStep DEF PipeInv
  <2>3. \A r \in Requests : EventInv(r)' /\ (Unheard(r) /\ Pending(r)' => Unheard(r)')
    BY <1>4, PipeStep
  <2>4. \A r \in Requests : Pending(r) => Unheard(r)
    BY <1>4 DEF PipeInv
  <2> QED
    BY <2>1, <2>2, <2>3, <2>4 DEF PipeInv, QueueInv
<1> QED
  BY <1>1, <1>2, <1>3, <1>4, TypesInductive, PTL DEF Spec

(* The two halves of the protocol agree, for every frame of every run: the *)
(* reader's ProtocolValidator accepts what the worker writes, so the       *)
(* supervisor never faults a healthy worker over its events.               *)
THEOREM EventsAreAccepted == IdsUnique => (Spec => []EventsAccepted)
<1> SUFFICES ASSUME IdsUnique PROVE Spec => []EventsAccepted
  OBVIOUS
<1>1. TypeInv /\ PipeInv => EventsAccepted
  BY HeadAccepted DEF EventsAccepted
<1> QED
  BY <1>1, PipesInductive, PTL

(* A consumer that sees a Token has seen Started first, though try_send    *)
(* drops events of a full or a closed stream and terminal events jump the  *)
(* queue of the pipe.                                                      *)
THEOREM StreamsStartInOrder == IdsUnique => (Spec => []StreamsInOrder)
<1> SUFFICES ASSUME IdsUnique PROVE Spec => []StreamsInOrder
  OBVIOUS
<1>1. PipeInv => \A r \in Requests : Orderly(stream[r])
  BY DEF PipeInv, EventInv
<1>2. PipeInv => StreamsInOrder
  BY <1>1 DEF StreamsInOrder, Orderly, OnlyEnds
<1> QED
  BY <1>2, PipesInductive, PTL

-----------------------------------------------------------------------------
(* The supervisor implements GenerationService.                            *)

life == [r \in Requests |-> Life(r)]

\* Where a request stands, by what the invariant says of it.
LEMMA LifeIs ==
    ASSUME TypeInv, RequestInv, NEW r \in Requests
    PROVE  /\ life[r] = Life(r)
           /\ r \in registry <=> Life(r) = "open"
           /\ r \notin registry /\ HasTerminal(stream[r]) => Life(r) = "ended"
           /\ start[r] \in {"new", "checked"} => Life(r) = "new" /\ stream[r] = <<>>
           /\ start[r] \in {"inserted", "returned"} /\ r \notin registry => Life(r) = "ended"
<1>1. Ended(r) <=> HasTerminal(stream[r])
  BY DEF Ended, HasTerminal
<1>2. ~ HasTerminal(<<>>)
  BY DEF HasTerminal
<1> QED
  BY <1>1, <1>2 DEF life, Life, RequestInv

\* Nothing a caller sees has changed.
LEMMA LifeStays ==
    ASSUME UNCHANGED <<registry, stream, closed>>, UNCHANGED start
    PROVE  UNCHANGED <<life, stream, closed>>
BY DEF life, Life, Ended

(* The helpers that end streams are End of the service.                    *)
LEMMA EndsAreEnds ==
    ASSUME TypeInv, RequestInv, NEW S \in SUBSET registry, NEW e \in StreamEvent, IsTerminal(e),
           EndAll(S, e), UNCHANGED <<start, closed>>
    PROVE  Service!End(S, e)
<1>1. \A r \in S : r \in Requests /\ life[r] = "open"
  BY LifeIs DEF TypeInv, StreamType
<1>2. ASSUME NEW r \in Requests PROVE Life(r)' = IF r \in S THEN "ended" ELSE Life(r)
  <2>1. CASE r \in S
    <3>1. /\ r \notin registry' /\ stream'[r] = Append(stream[r], e)
      BY <2>1 DEF EndAll
    <3>2. stream[r] \in Seq(StreamEvent) /\ ~ HasTerminal(stream[r])
      BY <2>1 DEF TypeInv, StreamType, RequestInv
    <3>3. HasTerminal(stream'[r])
      BY <3>1, <3>2, AppendToOpen
    <3>4. Ended(r)'
      BY <3>3 DEF Ended, HasTerminal
    <3> QED
      BY <2>1, <3>1, <3>4 DEF Life
  <2>2. CASE r \notin S
    <3>1. stream'[r] = stream[r] /\ (r \in registry' <=> r \in registry)
      BY <2>2 DEF EndAll
    <3> QED
      BY <2>2, <3>1 DEF Life, Ended
  <2> QED
    BY <2>1, <2>2
<1>3. life' = [r \in Requests |-> IF r \in S THEN "ended" ELSE life[r]]
  BY <1>2 DEF life
<1>4. stream' = [r \in Requests |-> IF r \in S THEN Append(stream[r], e) ELSE stream[r]]
  BY DEF EndAll
<1> QED
  BY <1>1, <1>3, <1>4 DEF Service!End, life

LEMMA FailAllFails ==
    ASSUME TypeInv, RequestInv, fail_all, UNCHANGED <<start, closed>>
    PROVE  Service!FailAll
<1>1. registry = {r \in Requests : life[r] = "open"}
  BY LifeIs DEF TypeInv, StreamType
<1>2. "Error" \in StreamEvent /\ IsTerminal("Error")
  BY DEF StreamEvent, IsTerminal
<1>3. Service!End(registry, "Error")
  BY <1>2, EndsAreEnds DEF fail_all
<1> QED
  BY <1>1, <1>3 DEF Service!FailAll, life

(* mark_terminal ends one stream, or none if another thread was first.     *)
LEMMA OneEnds ==
    ASSUME IdsUnique, TypeInv, RequestInv, NEW r \in Requests, NEW e \in StreamEvent,
           IsTerminal(e), mark_terminal(IdOf[r], e), UNCHANGED <<start, closed>>
    PROVE  \/ r \in registry /\ Service!End({r}, e)
           \/ UNCHANGED <<life, stream, closed>>
<1>1. CASE r \in registry
  <2>1. Holder(IdOf[r]) = {r}
    BY <1>1, OwnHolder DEF Holder, TypeInv, StreamType
  <2>2. {r} \in SUBSET registry /\ EndAll({r}, e)
    BY <1>1, <2>1 DEF mark_terminal
  <2> QED
    BY <1>1, <2>2, EndsAreEnds
<1>2. CASE r \notin registry
  <2>1. Holder(IdOf[r]) = {}
    BY <1>2, OwnHolder DEF Holder, TypeInv, StreamType
  <2>2. registry' = registry /\ stream' = stream
    BY <2>1 DEF mark_terminal, EndAll, TypeInv, StreamType
  <2> QED
    BY <2>2, LifeStays
<1> QED
  BY <1>1, <1>2

(* try_send delivers, or drops.                                            *)
LEMMA SendDelivers ==
    ASSUME IdsUnique, TypeInv, RequestInv, NEW r \in Requests, NEW e \in {"Started", "Token"},
           try_send(IdOf[r], e), UNCHANGED <<start, closed, registry>>,
           r \in registry /\ r \notin closed => (e = "Started" <=> stream[r] = <<>>)
    PROVE  Service!Deliver(r) \/ UNCHANGED <<life, stream, closed>>
<1>a. PICK accept \in BOOLEAN :
          stream' = [q \in Requests |-> IF accept /\ q \in Holder(IdOf[r])
                                        THEN Append(stream[q], e) ELSE stream[q]]
  BY DEF try_send
<1>1. /\ stream \in [Requests -> Seq(StreamEvent)]
      /\ stream' = [q \in Requests |-> stream'[q]]
  BY <1>a DEF TypeInv, StreamType
<1>2. \A q \in Requests : q # r => stream'[q] = stream[q]
  BY OwnHolder
<1>3. CASE stream'[r] = stream[r]
  <2>1. stream' = stream
    BY <1>1, <1>2, <1>3
  <2> QED
    BY <2>1, LifeStays
<1>4. CASE stream'[r] = Append(stream[r], e) /\ r \in registry /\ r \notin closed
  <2>1. stream' = [stream EXCEPT ![r] = Append(@, IF @ = <<>> THEN "Started" ELSE "Token")]
    BY <1>1, <1>2, <1>4
  <2>2. \A q \in Requests : Life(q)' = Life(q)
    <3> SUFFICES ASSUME NEW q \in Requests PROVE Life(q)' = Life(q)
      OBVIOUS
    <3>1. CASE q = r
      BY <1>4, <3>1 DEF Life
    <3>2. CASE q # r
      BY <1>2, <3>2 DEF Life, Ended
    <3> QED
      BY <3>1, <3>2
  <2>3. life' = life
    BY <2>2 DEF life
  <2>4. life[r] = "open"
    BY <1>4, LifeIs
  <2> QED
    BY <1>4, <2>1, <2>3, <2>4 DEF Service!Deliver, life
<1> QED
  BY <1>3, <1>4, OwnHolder

(* The reader's events are deliveries, completions and failures.           *)
LEMMA ReaderServes ==
    ASSUME IdsUnique, TypeInv, RequestInv, PipeInv, ReaderEvent
    PROVE  Service!Next \/ UNCHANGED <<life, stream, closed>>
<1> DEFINE f == Head(stdout)
<1>1. /\ stdout # <<>> /\ Dispatch(f) /\ UNCHANGED <<start, closed>>
  BY DEF ReaderEvent
<1>2. f \in EventFrame /\ 1 \in 1 .. Len(stdout) /\ f = stdout[1]
  <2>1. stdout \in Seq(EventFrame)
    BY DEF TypeInv, PipeType
  <2> QED
    BY <1>1, <2>1, HeadTailProperties
<1> HIDE DEF f
<1>3. CASE f.kind = "WorkerFatal"
  <2>1. fail_all
    BY <1>1, <1>3 DEF Dispatch, Fault
  <2> QED
    BY <1>1, <2>1, FailAllFails DEF Service!Next
<1>4. CASE f.kind \in TerminalEvent
  <2>1. PICK r \in Requests : r = f.req
    BY <1>2, <1>4 DEF EventFrame, GenerationEvent
  <2>2. mark_terminal(IdOf[r], OutcomeOf(f.kind))
    BY <1>1, <1>4, <2>1 DEF Dispatch, TerminalEvent
  <2>3. OutcomeOf(f.kind) \in StreamEvent /\ IsTerminal(OutcomeOf(f.kind))
    BY DEF OutcomeOf, StreamEvent, IsTerminal
  <2>4. \/ r \in registry /\ Service!End({r}, OutcomeOf(f.kind))
        \/ UNCHANGED <<life, stream, closed>>
    BY <1>1, <2>2, <2>3, OneEnds
  <2>5. EventInv(r) /\ f.kind # "GenerationStarted"
    BY <1>4 DEF PipeInv, TerminalEvent
  <2>6. IdOf[r] \in hostView.known
    BY <1>1, <2>1, <2>5, KnownWhenRead DEF f
  <2>7. r \in registry => r \in closed \/ stream[r] # <<>>
    BY <2>5, <2>6 DEF EventInv, OpenStarted
  <2>8. CASE r \in registry /\ Service!End({r}, OutcomeOf(f.kind))
    <3>1. OutcomeOf(f.kind) = "Done" \/ OutcomeOf(f.kind) = "Error"
      BY DEF OutcomeOf
    <3> QED
      BY <2>7, <2>8, <3>1 DEF Service!Next, Service!Complete, Service!Fail
  <2> QED
    BY <2>4, <2>8
<1>5. CASE f.kind \in {"GenerationStarted", "Token"}
  <2>1. PICK r \in Requests : r = f.req
    BY <1>2, <1>5 DEF EventFrame, GenerationEvent
  <2> DEFINE e == IF f.kind = "Token" THEN "Token" ELSE "Started"
  <2>2. registry' = registry /\ try_send(IdOf[r], e) /\ e \in {"Started", "Token"}
    BY <1>1, <1>5, <2>1 DEF Dispatch, TerminalEvent
  <2>3. EventInv(r)
    BY DEF PipeInv
  <2>4. CASE f.kind = "GenerationStarted"
    <3>1. OnlyEnds(stream[r])
      BY <1>2, <2>1, <2>3, <2>4 DEF EventInv, StartedFirst, IsStarted
    <3>2. r \in registry => stream[r] = <<>>
      BY <3>1, EmptyWhileRegistered
    <3>3. e = "Started"
      BY <2>4
    <3> HIDE DEF e
    <3>4. Service!Deliver(r) \/ UNCHANGED <<life, stream, closed>>
      BY <1>1, <2>2, <3>2, <3>3, SendDelivers
    <3> QED
      BY <3>4 DEF Service!Next
  <2>5. CASE f.kind = "Token"
    <3>1. IdOf[r] \in hostView.known
      BY <1>1, <2>1, <2>3, <2>5, KnownWhenRead DEF f
    <3>2. r \in registry /\ r \notin closed => stream[r] # <<>>
      BY <2>3, <3>1 DEF EventInv, OpenStarted
    <3>3. e = "Token"
      BY <2>5
    <3> HIDE DEF e
    <3>4. Service!Deliver(r) \/ UNCHANGED <<life, stream, closed>>
      BY <1>1, <2>2, <3>2, <3>3, SendDelivers
    <3> QED
      BY <3>4 DEF Service!Next
  <2> QED
    BY <1>5, <2>4, <2>5
<1>6. CASE f.kind # "WorkerFatal" /\ f.kind \notin GenerationEvent
  <2>1. registry' = registry /\ stream' = stream
    BY <1>1, <1>6 DEF Dispatch, GenerationEvent
  <2> QED
    BY <1>1, <2>1, LifeStays
<1> QED
  BY <1>3, <1>4, <1>5, <1>6 DEF GenerationEvent

(* The steps of start_generation.                                          *)
LEMMA CallerServes ==
    ASSUME IdsUnique, TypeInv, RequestInv, PipeInv, NEW c \in Requests,
           StartCheck(c) \/ StartInsert(c) \/ StartSend(c) \/ CloseStream(c)
    PROVE  Service!Next \/ UNCHANGED <<life, stream, closed>>
<1>t. start \in [Requests -> {"new", "checked", "inserted", "returned", "refused"}]
  BY DEF TypeInv, CallType
<1>o. ASSUME NEW x, UNCHANGED <<stream, closed>>, Life(c)' = x,
             \A q \in Requests : q # c => Life(q)' = Life(q)
      PROVE  life' = [life EXCEPT ![c] = x]
  BY <1>o DEF life
<1>q. ASSUME stream' = stream, \A q \in Requests : q # c => start'[q] = start[q],
             \A q \in Requests : q # c => (q \in registry' <=> q \in registry)
      PROVE  \A q \in Requests : q # c => Life(q)' = Life(q)
  BY <1>q DEF Life, Ended
<1>e. stream' = stream => (Ended(c)' <=> Ended(c))
  BY DEF Ended
<1>1. CASE StartCheck(c)
  <2>1. /\ start[c] = "new" /\ UNCHANGED <<stream, closed, registry>>
        /\ \A q \in Requests : q # c => start'[q] = start[q]
        /\ start'[c] = "checked" \/ start'[c] = "refused"
    BY <1>1, <1>t DEF StartCheck
  <2>2. life[c] = "new" /\ Life(c) = "new" /\ stream[c] = <<>> /\ c \notin registry
    BY <2>1, LifeIs
  <2>3. ~ Ended(c)
    BY <2>2 DEF Life
  <2>4. Life(c)' = IF start'[c] = "refused" THEN "refused" ELSE "new"
    BY <1>e, <2>1, <2>2, <2>3 DEF Life
  <2>5. CASE start'[c] = "refused"
    <3>1. life' = [life EXCEPT ![c] = "refused"]
      BY <1>o, <1>q, <2>1, <2>4, <2>5
    <3> QED
      BY <2>1, <2>2, <3>1 DEF Service!Next, Service!Refuse, life
  <2>6. CASE start'[c] = "checked"
    <3>1. \A q \in Requests : Life(q)' = Life(q)
      BY <1>q, <2>1, <2>2, <2>4, <2>6
    <3> QED
      BY <2>1, <3>1 DEF life
  <2> QED
    BY <2>1, <2>5, <2>6
<1>2. CASE StartInsert(c)
  <2>1. /\ start[c] = "checked" /\ UNCHANGED <<stream, closed>>
        /\ \A q \in Requests : q # c => start'[q] = start[q]
    BY <1>2, <1>t DEF StartInsert
  <2>2. life[c] = "new"
    BY <2>1, LifeIs
  <2>3. /\ c \in registry'
        /\ \A q \in Requests : q # c => (q \in registry' <=> q \in registry)
    BY <1>2, OwnHolder DEF StartInsert, insert
  <2>4. Life(c)' = "open"
    BY <2>3 DEF Life
  <2>5. life' = [life EXCEPT ![c] = "open"]
    BY <1>o, <1>q, <2>1, <2>3, <2>4
  <2> QED
    BY <2>1, <2>2, <2>5 DEF Service!Next, Service!Accept, life
<1>3. CASE StartSend(c)
  <2>1. /\ start[c] = "inserted" /\ UNCHANGED <<stream, closed>>
        /\ \A q \in Requests : q # c => start'[q] = start[q]
        /\ start'[c] = IF Alive THEN "returned" ELSE "refused"
        /\ registry' = IF Alive THEN registry ELSE registry \ Holder(IdOf[c])
    BY <1>3, <1>t DEF StartSend
  <2>2. /\ \A q \in Requests : q # c => (q \in registry' <=> q \in registry)
        /\ c \in registry' <=> Alive /\ c \in registry
    BY <2>1, OwnHolder
  <2>3. CASE c \in registry /\ ~ Alive
    <3>1. OnlyEnds(stream[c])
      BY <2>1 DEF PipeInv, Pending, Early, Unheard
    <3>2. stream[c] = <<>>
      BY <2>3, <3>1, EmptyWhileRegistered
    <3>3. ~ Ended(c)
      BY <2>3 DEF RequestInv, Ended, HasTerminal
    <3>4. Life(c)' = "refused"
      BY <1>e, <2>1, <2>2, <2>3, <3>3 DEF Life
    <3>5. life' = [life EXCEPT ![c] = "refused"]
      BY <1>o, <1>q, <2>1, <2>2, <3>4
    <3>6. life[c] = "open"
      BY <2>3, LifeIs
    <3> QED
      BY <2>1, <3>2, <3>5, <3>6 DEF Service!Next, Service!Refuse, life
  <2>4. CASE ~ (c \in registry /\ ~ Alive)
    <3>1. c \in registry' <=> c \in registry
      BY <2>2, <2>4
    <3>2. c \notin registry => Ended(c)
      BY <2>1 DEF RequestInv, Ended, HasTerminal
    <3>3. Life(c)' = Life(c)
      BY <1>e, <2>1, <3>1, <3>2 DEF Life
    <3>4. \A q \in Requests : Life(q)' = Life(q)
      BY <1>q, <2>1, <2>2, <3>3
    <3> QED
      BY <2>1, <3>4 DEF life
  <2> QED
    BY <2>3, <2>4
<1>4. CASE CloseStream(c)
  <2>1. UNCHANGED <<registry, stream, start>> /\ closed' = closed \cup {c}
    BY <1>4 DEF CloseStream
  <2>2. life' = life
    BY <2>1 DEF life, Life, Ended
  <2> QED
    BY <2>1, <2>2 DEF Service!Next, Service!Close, life
<1> QED
  BY <1>1, <1>2, <1>3, <1>4

(* Every step of the composed system is one of the service, or none.       *)
LEMMA ServiceStep ==
    ASSUME IdsUnique, TypeInv, RequestInv, PipeInv, [Next]_vars
    PROVE  Service!Next \/ UNCHANGED <<life, stream, closed>>
<1>u. ASSUME UNCHANGED <<registry, stream, closed, start>>
      PROVE  UNCHANGED <<life, stream, closed>>
  BY <1>u, LifeStays
<1>f. ASSUME fail_all, UNCHANGED <<start, closed>> PROVE Service!Next
  BY <1>f, FailAllFails DEF Service!Next
<1>1. ASSUME NEW c \in Requests, StartCheck(c) \/ StartInsert(c) \/ StartSend(c) \/ CloseStream(c)
      PROVE  Service!Next \/ UNCHANGED <<life, stream, closed>>
  BY <1>1, CallerServes
<1>2. ASSUME NEW c \in Requests, CancelLookup(c) \/ CancelSend(c) \/ DeadlinePasses(c)
      PROVE  UNCHANGED <<life, stream, closed>>
  BY <1>2, <1>u DEF CancelLookup, CancelSend, DeadlinePasses
<1>3. ASSUME LoadCall \/ LoadReturns \/ UnloadCall \/ UnloadSend \/ ShutdownSend \/ UnloadReturns
               \/ DropKill \/ DropJoined
      PROVE  UNCHANGED <<life, stream, closed>>
  BY <1>3, <1>u DEF LoadCall, LoadReturns, UnloadCall, UnloadSend, ShutdownSend, UnloadReturns,
                    DropKill, DropJoined, requestVars
<1>4. ASSUME UnloadFaulted \/ DropDrain PROVE Service!Next
  BY <1>4, <1>f DEF UnloadFaulted, DropDrain
<1>5. ASSUME ReaderCheck PROVE Service!Next \/ UNCHANGED <<life, stream, closed>>
  BY <1>5, <1>f, <1>u DEF ReaderCheck, Fault
<1>6. ASSUME ReaderError PROVE Service!Next
  BY <1>6, <1>f DEF ReaderError, Fault
<1>7. ASSUME ReaderEvent PROVE Service!Next \/ UNCHANGED <<life, stream, closed>>
  BY <1>7, ReaderServes
<1>8. ASSUME WatchdogFaulted \/ WatchdogHeartbeat \/ WatchdogPatient \/ WatchdogSnapshot
               \/ WatchdogCancels \/ WatchdogSleeps \/ HeartbeatAges \/ WorkerStep
               \/ UNCHANGED vars
      PROVE  UNCHANGED <<life, stream, closed>>
  BY <1>8, <1>u DEF WatchdogFaulted, WatchdogHeartbeat, WatchdogPatient, WatchdogSnapshot,
                    WatchdogCancels, WatchdogSleeps, HeartbeatAges, WorkerStep, vars, hostVars,
                    requestVars
<1>9. ASSUME WatchdogDead \/ WatchdogUnresponsive \/ WatchdogLimit PROVE Service!Next
  BY <1>9, <1>f DEF WatchdogDead, WatchdogUnresponsive, WatchdogLimit, WatchdogKill, Fault
<1>10. ASSUME WatchdogDeadline PROVE Service!Next \/ UNCHANGED <<life, stream, closed>>
  <2>1. PICK c \in due.overdue : mark_terminal(IdOf[c], "DeadlineExceeded")
    BY <1>10 DEF WatchdogDeadline
  <2>2. c \in Requests /\ UNCHANGED <<start, closed>>
    BY <1>10 DEF TypeInv, CallType, WatchdogDeadline
  <2>3. "DeadlineExceeded" \in StreamEvent /\ IsTerminal("DeadlineExceeded")
    BY DEF StreamEvent, IsTerminal
  <2>4. Service!End({c}, "DeadlineExceeded") \/ UNCHANGED <<life, stream, closed>>
    BY <2>1, <2>2, <2>3, OneEnds
  <2> QED
    BY <2>2, <2>4 DEF Service!Next, Service!Expire
<1> QED
  BY <1>1, <1>2, <1>3, <1>4, <1>5, <1>6, <1>7, <1>8, <1>9, <1>10
     DEF Next, CallerNext, AdminNext, ReaderNext, WatchdogNext

(* What a caller of start_generation may rely on, whatever the worker, the *)
(* reader, the watchdog, an unload or a drop do: the supervisor is a       *)
(* GenerationService.                                                      *)
THEOREM SupervisorImplementsService == IdsUnique => (Spec => ImplementsService)
<1> SUFFICES ASSUME IdsUnique PROVE Spec => ImplementsService
  OBVIOUS
<1>1. Init => Service!Init
  BY DEF Init, Service!Init, Life, Ended
<1>2. Init => RequestType /\ RequestInv
  BY DEF Init, RequestType, RequestInv, TerminalLast, HasTerminal
<1>3. RequestType /\ RequestInv /\ [Next]_vars => RequestType' /\ RequestInv'
  BY RequestStep
<1>4. TypeInv /\ PipeInv /\ RequestInv /\ [Next]_vars => [Service!Next]_(Service!vars)
  BY ServiceStep DEF Service!vars, life
<1> QED
  BY <1>1, <1>2, <1>3, <1>4, PipesInductive, PTL DEF Spec, ImplementsService, Service!Spec

(* No CancelGeneration of the host is ever acted upon: the worker's        *)
(* validator knows no request, refuses the command, and the cancel flag of *)
(* the inference thread stays down for ever.                               *)
THEOREM CancelNeverTaken == Spec => []NeverCancels
<1>1. Init => NeverCancels
  BY DEF Init, WorkerInit, NeverCancels
<1> QED
  BY <1>1, CancelStep, PTL DEF Spec
=============================================================================
