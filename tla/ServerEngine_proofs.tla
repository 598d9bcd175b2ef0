------------------------- MODULE ServerEngine_proofs -------------------------
(* ServerEngine is a correct caller of Scheduler, so the scheduler's         *)
(* invariant IInv (Scheduler_proofs) holds of it; on top of IInv the two     *)
(* books are shown to stay together, for every number of requests, tokens,   *)
(* slots and failures.                                                       *)
EXTENDS ServerEngine, Scheduler_proofs

\* Where a request and the sets about it stand.
Places ==
    /\ queue \subseteq pending_requests
    /\ pending_requests \subseteq queue \cup active
    /\ pending_requests \subseteq created
    /\ sessions \subseteq pending_requests
    /\ completed_ids \subseteq pending_requests
    /\ at # "executing" => todo = {} /\ completed_ids = {}
    /\ todo \subseteq DOMAIN batch
    /\ mode = "drain" => at = "idle"

\* The engine's book on each request.
EngineBook ==
    \A r \in pending_requests :
        /\ state[r] = "Queued" => generated[r] = 0
        /\ state[r] = "Decoding" => generated[r] < AtLeastOne(MaxTokens[r])
        /\ state[r] = "Completed" => generated[r] = AtLeastOne(MaxTokens[r])
        /\ r \in completed_ids => state[r] = "Completed"
        /\ slot[r] = NoSlot => state[r] = "Queued"

Executed(s) == at = "executing" /\ s \notin todo

\* The scheduler's book against the engine's.  A slot that has been executed
\* and does not complete is one token ahead in the engine.
SlotBook ==
    \A s \in DOMAIN slots :
        slots[s].request \in pending_requests =>
            /\ slots[s].tokens <= generated[slots[s].request]
            /\ Executed(s) => \/ slots[s].request \in completed_ids
                              \/ /\ slots[s].tokens < generated[slots[s].request]
                                 /\ generated[slots[s].request] < MaxTokens[slots[s].request]

\* What holds as long as no step has failed.
Agreement ==
    ~failed =>
        /\ active \subseteq pending_requests
        /\ \A s \in DOMAIN slots :
            slots[s].request \in Requests =>
                IF Executed(s) THEN generated[slots[s].request] = slots[s].tokens + 1
                ELSE /\ generated[slots[s].request] = slots[s].tokens
                     /\ state[slots[s].request] # "Completed"

\* The inductive invariant of the books, on top of IInv.
SInv == ServerTypeOK /\ Places /\ EngineBook /\ SlotBook /\ Agreement

\* Where the results a loop must return are.  While such a loop runs a step the
\* channel is empty, and a batch has at most PrefillBatch requests.
Delivery ==
    /\ Cardinality(active) <= PrefillBatch
    /\ mode = "out" => results = {} /\ awaited = {}
    /\ mode = "loop" /\ awaited # {} => completions = {}
    /\ PrefillBatch <= ChannelCap =>
        \A r \in awaited \ pending_requests : Held(completions, r) + Held(results, r) = 1

\* The inductive invariant of the results, on top of IInv and SInv.
RInv == ResultOnce /\ Delivery

USE SchedulerAssumption, ServerAssumption
-----------------------------------------------------------------------------
(* The scheduler under the engine.                                          *)

\* Every step of the engine is a step of the scheduler, or leaves it alone.
LEMMA ServerStep ==
    ASSUME [ServerNext]_serverVars
    PROVE  [Next]_vars
<1>1. ASSUME NEW r \in Requests, enqueue(r) PROVE Next
  BY <1>1 DEF enqueue, Next
<1>2. CASE step
  BY <1>2 DEF step, Next
<1>3. CASE Schedule
  BY <1>3 DEF Schedule, Next
<1>4. CASE Emit
  BY <1>4 DEF Emit, Next
<1>5. CASE EmptyStep
  BY <1>5 DEF EmptyStep, Next
<1>6. ASSUME NEW s \in todo, SkipSlot(s) \/ ExecuteSlot(s) \/ SessionFails(s)
      PROVE  [Next]_vars
  BY <1>6 DEF SkipSlot, ExecuteSlot, SessionFails, Next
<1>7. CASE FinishStep
  BY <1>7 DEF FinishStep, Next
<1>8. CASE Drain \/ LoopEnds \/ run_batch_loop \/ try_recv_completion \/ UNCHANGED serverVars
  BY <1>8 DEF Drain, LoopEnds, run_batch_loop, try_recv_completion, serverVars
<1> QED  BY <1>1, <1>2, <1>3, <1>4, <1>5, <1>6, <1>7, <1>8 DEF ServerNext, CallStep, SlotStep

\* So what Scheduler_proofs shows of Spec holds here.
LEMMA SchedulerBelow == ServerSpec => Spec
<1>1. ServerInit => Init
  BY DEF ServerInit
<1> QED  BY <1>1, ServerStep, PTL DEF ServerSpec, Spec

-----------------------------------------------------------------------------
(* The books.                                                               *)

\* A slot holds a request or none, and a count of tokens.
LEMMA SlotTypes ==
    ASSUME IInv
    PROVE  \A s \in DOMAIN slots :
             slots[s].tokens \in Nat /\ slots[s].request \in Requests \cup {NoRequest}
<1>1. \A s \in DOMAIN slots : slots[s] \in Slot
  BY SlotsFunction DEF IInv
<1> QED  BY <1>1 DEF Slot

\* A new engine satisfies the invariant.
LEMMA ServerInitially == ServerInit => SInv
<1> SUFFICES ASSUME ServerInit PROVE SInv
  OBVIOUS
<1>1. /\ created = {} /\ queue = {} /\ active = {} /\ at = "idle" /\ batch = << >>
      /\ \A s \in DOMAIN slots : slots[s].request = NoRequest
  BY DEF ServerInit, Init, EmptySlot
<1>2. ServerTypeOK
  <2>1. generated = [r \in Requests |-> 0] /\ \A r \in Requests : MaxTokens[r] \in Nat
    BY DEF ServerInit
  <2>2. \A r \in Requests : generated[r] <= AtLeastOne(MaxTokens[r])
    BY <2>1 DEF AtLeastOne
  <2>3. state \in [Requests -> {"Queued", "Decoding", "Completed"}]
    BY DEF ServerInit
  <2>4. generated \in [Requests -> Nat] /\ received \in [Requests -> Nat]
        /\ lost \in [Requests -> Nat]
    BY DEF ServerInit
  <2> QED  BY <1>1, <2>2, <2>3, <2>4 DEF ServerInit, ServerTypeOK
<1>3. Places /\ EngineBook /\ SlotBook /\ Agreement
  BY <1>1 DEF ServerInit, Places, EngineBook, SlotBook, Agreement
<1> QED  BY <1>2, <1>3 DEF SInv

\* A step that changes nothing the books are about.
LEMMA OtherStep ==
    ASSUME SInv, UNCHANGED <<created, queue, active, slots, slot, at, batch>>,
           UNCHANGED <<pending_requests, state, generated, sessions, todo, completed_ids, failed>>,
           completions' \cup results' \subseteq completions \cup results,
           received' \in [Requests -> Nat], lost' \in [Requests -> Nat], awaited' \subseteq created,
           mode' \in {"out", "loop"}
    PROVE  SInv'
<1>1. ServerTypeOK'
  BY DEF SInv, ServerTypeOK
<1>2. Places' /\ EngineBook' /\ SlotBook' /\ Agreement'
  BY DEF SInv, Places, EngineBook, SlotBook, Agreement, Executed
<1> QED  BY <1>1, <1>2 DEF SInv

\* enqueue enters the request in both books.
LEMMA EnqueueStep ==
    ASSUME SInv, IInv, IInv', NEW r \in Requests, enqueue(r)
    PROVE  SInv'
<1>1. /\ r \notin created /\ created' = created \cup {r} /\ queue' = queue \cup {r}
      /\ UNCHANGED <<active, slots, slot, at, batch>> /\ at = "idle" /\ mode = "out"
      /\ pending_requests' = pending_requests \cup {r}
      /\ state' = [state EXCEPT ![r] = "Queued"]
      /\ generated' = [generated EXCEPT ![r] = 0]
      /\ UNCHANGED <<sessions, todo, completed_ids, mode, failed>> /\ UNCHANGED resultVars
  BY DEF enqueue, enqueue_with_priority
<1>2. r \notin active /\ r \notin pending_requests /\ \A s \in DOMAIN slots : slots[s].request # r
  BY <1>1, SlotsFunction
     DEF IInv, NoRequestLost, SlotsMatchActive, BusySlots, FreeSlots, is_free, SInv, Places
<1>3. ServerTypeOK'
  BY <1>1 DEF SInv, ServerTypeOK, AtLeastOne, resultVars
<1>4. Places'
  BY <1>1 DEF SInv, Places
<1>5. EngineBook'
  BY <1>1, <1>2 DEF SInv, ServerTypeOK, EngineBook, Places
<1>6. SlotBook'
  BY <1>1, <1>2 DEF SInv, ServerTypeOK, SlotBook, Executed
<1>7. Agreement'
  BY <1>1, <1>2 DEF SInv, ServerTypeOK, Agreement, Executed
<1> QED  BY <1>3, <1>4, <1>5, <1>6, <1>7 DEF SInv

\* What Poll, EndPoll and Assign do to the slots.
LEMMA ScheduleSlots ==
    ASSUME IInv, IInv', Schedule
    PROVE  /\ at \in {"poll", "assign"} /\ at' \in {"poll", "assign"}
           /\ UNCHANGED <<created, batch>>
           /\ queue' \cup active' = queue \cup active /\ queue' \subseteq queue
           /\ \A r \in Requests : slot'[r] = NoSlot => slot[r] = NoSlot
           /\ \A s \in DOMAIN slots' :
                slots'[s].request \in Requests =>
                    \/ s \in DOMAIN slots /\ slots'[s] = slots[s]
                    \/ /\ slots'[s].tokens = 0
                       /\ slots'[s].request \in active /\ slot[slots'[s].request] = NoSlot
<1> DEFINE G ==
      /\ at \in {"poll", "assign"} /\ at' \in {"poll", "assign"}
      /\ UNCHANGED <<created, batch>>
      /\ queue' \cup active' = queue \cup active /\ queue' \subseteq queue
      /\ \A r \in Requests : slot'[r] = NoSlot => slot[r] = NoSlot
      /\ \A s \in DOMAIN slots' :
            slots'[s].request \in Requests =>
                \/ s \in DOMAIN slots /\ slots'[s] = slots[s]
                \/ /\ slots'[s].tokens = 0
                   /\ slots'[s].request \in active /\ slot[slots'[s].request] = NoSlot
<1>1. ASSUME NEW r \in queue, Poll(r) PROVE G
  BY <1>1 DEF Poll, origin
<1>2. CASE EndPoll
  <2> DEFINE n == Cardinality(SlotlessActive) - Cardinality(FreeSlots)
  <2>1. n \in Int /\ Len(slots) \in Nat /\ DOMAIN slots = 1 .. Len(slots)
    <3>1. IsFiniteSet(SlotlessActive)
      BY FS_Subset DEF SlotlessActive, SlotField, IInv
    <3> QED  BY <3>1, FreeSlotsFinite, FS_CardinalityType, SlotsFunction DEF IInv
  <2>2. slots' = add_slots(n) /\ UNCHANGED <<slot, active, queue, created, batch>>
        /\ at = "poll" /\ at' = "assign"
    BY <1>2 DEF EndPoll, origin
  <2> HIDE DEF n
  <2>3. \A s \in DOMAIN slots' :
            \/ s \in DOMAIN slots /\ slots'[s] = slots[s]
            \/ slots'[s].request = NoRequest
    <3>1. CASE n <= 0
      BY <2>1, <2>2, <3>1 DEF add_slots
    <3>2. CASE n > 0
      BY <2>1, <2>2, <3>2 DEF add_slots, EmptySlot
    <3> QED  BY <2>1, <3>1, <3>2
  <2> QED  BY <2>2, <2>3
<1>3. ASSUME NEW r \in active, NEW s \in DOMAIN slots, Assign(r, s) PROVE G
  <2>1. /\ DOMAIN slots' = DOMAIN slots
        /\ slots'[s].request = r /\ slots'[s].tokens = 0
        /\ \A t \in DOMAIN slots : t # s => slots'[t] = slots[t]
        /\ slot' = [slot EXCEPT ![r] = s]
        /\ UNCHANGED <<active, queue, created, batch, at>> /\ at = "assign"
        /\ slot[r] = NoSlot
    BY <1>3 DEF Assign, SlotlessActive, origin
  <2>2. slot \in [Requests -> Nat] /\ r \in Requests
    BY DEF IInv, TypeOK
  <2> QED  BY <2>1, <2>2
<1> QED  BY <1>1, <1>2, <1>3 DEF Schedule, PollSome, AssignSome

\* next_batch moves requests in the scheduler only.
LEMMA ScheduleStep ==
    ASSUME SInv, IInv, IInv', Schedule
    PROVE  SInv'
<1>1. UNCHANGED engineVars
  BY DEF Schedule
<1>2. ~Executed(0) /\ \A s : ~Executed(s) /\ ~Executed(s)'
  BY ScheduleSlots DEF Executed
<1>3. \A r \in Requests : slot[r] = NoSlot /\ r \in pending_requests
                           => state[r] = "Queued" /\ generated[r] = 0
  BY DEF SInv, EngineBook
<1>4. ServerTypeOK'
  BY <1>1, ScheduleSlots DEF engineVars, resultVars, SInv, ServerTypeOK
<1>5. Places'
  BY <1>1, ScheduleSlots DEF engineVars, SInv, Places
<1>6. EngineBook'
  BY <1>1, ScheduleSlots DEF engineVars, SInv, EngineBook, Places, IInv, TypeOK
<1>7. SlotBook'
  <2> SUFFICES ASSUME NEW s \in DOMAIN slots', slots'[s].request \in pending_requests
               PROVE  slots'[s].tokens <= generated[slots'[s].request]
    BY <1>1, <1>2 DEF engineVars, SlotBook
  <2>1. slots'[s].request \in Requests /\ generated[slots'[s].request] \in Nat
    BY DEF SInv, ServerTypeOK, IInv, TypeOK
  <2>2. CASE s \in DOMAIN slots /\ slots'[s] = slots[s]
    BY <2>2 DEF SInv, SlotBook
  <2>3. CASE slots'[s].tokens = 0
    BY <2>1, <2>3
  <2> QED  BY <2>1, <2>2, <2>3, ScheduleSlots
<1>8. Agreement'
  BY <1>1, <1>2, <1>3, ScheduleSlots DEF engineVars, SInv, Agreement, Places
<1> QED  BY <1>4, <1>5, <1>6, <1>7, <1>8 DEF SInv

\* The batch names every busy slot.
LEMMA EmitStep ==
    ASSUME SInv, IInv, IInv', Emit
    PROVE  SInv'
<1>1. /\ at = "assign" /\ at' = "executing"
      /\ batch' = [s \in BusySlots |-> slots[s].request]
      /\ todo' = BusySlots /\ completed_ids' = {}
      /\ UNCHANGED <<created, queue, active, slots, slot>>
      /\ UNCHANGED <<pending_requests, state, generated, sessions, mode, failed>>
      /\ UNCHANGED resultVars
  BY DEF Emit, EmitBatch, origin
<1>2. completed_ids = {} /\ mode # "drain"
  BY <1>1 DEF SInv, Places
<1>3. \A s \in DOMAIN slots : slots[s].request \in Requests => ~Executed(s) /\ ~Executed(s)'
  BY <1>1 DEF Executed, BusySlots, FreeSlots, is_free
<1>4. pending_requests \subseteq Requests
  BY DEF SInv, ServerTypeOK, IInv, TypeOK
<1>5. ServerTypeOK'
  BY <1>1 DEF SInv, ServerTypeOK, resultVars
<1>6. Places'
  BY <1>1, <1>2 DEF SInv, Places
<1>7. EngineBook'
  BY <1>1, <1>2 DEF SInv, EngineBook
<1>8. SlotBook'
  BY <1>1, <1>3, <1>4 DEF SInv, SlotBook
<1>9. Agreement'
  BY <1>1, <1>3 DEF SInv, Agreement
<1> QED  BY <1>5, <1>6, <1>7, <1>8, <1>9 DEF SInv

\* A batch that is dropped leaves the scheduler's book as it was.
LEMMA DropStep ==
    ASSUME SInv, IInv, ExecutionFails
    PROVE  /\ at' = "idle" /\ batch' = << >>
           /\ UNCHANGED <<created, queue, active, slots, slot>>
           /\ \A s : ~Executed(s)'
  BY DEF ExecutionFails, origin, Executed

\* A step without slots changes neither book.
LEMMA EmptyBatchStep ==
    ASSUME SInv, IInv, IInv', EmptyStep
    PROVE  SInv'
<1>1. /\ batch = << >> /\ ExecutionFails /\ mode' = AfterStep
      /\ UNCHANGED <<pending_requests, state, generated, sessions, todo, completed_ids, failed>>
      /\ UNCHANGED resultVars
  BY DEF EmptyStep
<1>2. at = "executing" /\ BusySlots = {}
  <2>1. at = "executing" /\ batch = [s \in BusySlots |-> slots[s].request]
    BY <1>1 DEF ExecutionFails, IInv, Calls
  <2>2. DOMAIN batch = BusySlots /\ DOMAIN batch = {}
    BY <1>1, <2>1
  <2> QED  BY <2>1, <2>2
<1>3. \A s \in DOMAIN slots : slots[s].request = NoRequest
  BY <1>2 DEF BusySlots, FreeSlots, is_free
<1>4. active = {}
  <2>1. \A r \in active : slot[r] # NoSlot
    BY <1>2 DEF IInv, SlotsMatchActive, SlotlessActive
  <2>2. \A r \in active : slot[r] \in DOMAIN slots /\ slots[slot[r]].request = r
    BY <2>1 DEF IInv, SlotsMatchActive
  <2>3. NoRequest \notin active
    BY DEF IInv, TypeOK
  <2> QED  BY <1>3, <2>2, <2>3
<1>5. todo = {} /\ completed_ids = {}
  <2>1. todo = {}
    BY <1>1 DEF SInv, Places
  <2>2. \A r \in Requests \ active : slot[r] = NoSlot
    BY DEF IInv, SlotField
  <2>3. completed_ids = {}
    BY <1>4, <2>2 DEF SInv, EngineBook, ServerTypeOK, IInv, TypeOK, Places
  <2> QED  BY <2>1, <2>3
<1>6. ServerTypeOK'
  BY <1>1, <1>5, DropStep DEF SInv, ServerTypeOK, AfterStep, resultVars
<1>7. Places'
  BY <1>1, <1>5, DropStep DEF SInv, Places, AfterStep
<1>8. EngineBook'
  BY <1>1, DropStep DEF SInv, EngineBook
<1>9. SlotBook' /\ Agreement'
  BY <1>1, <1>3, <1>4, DropStep DEF SInv, SlotBook, Agreement, ServerTypeOK, IInv, TypeOK
<1> QED  BY <1>6, <1>7, <1>8, <1>9 DEF SInv

-----------------------------------------------------------------------------
(* The slots of a batch.                                                    *)

\* The slot whose turn it is, and its request.
LEMMA NextSlot ==
    ASSUME SInv, IInv, NEW s \in todo, IsNext(s)
    PROVE  /\ at = "executing" /\ s \in DOMAIN slots /\ ~Executed(s)
           /\ batch[s] = slots[s].request /\ batch[s] \in Requests /\ batch[s] \in active
           /\ slot[batch[s]] = s /\ s # NoSlot
           /\ \A t \in DOMAIN slots : slots[t].request = batch[s] => t = s
<1>1. at = "executing" /\ batch = [t \in BusySlots |-> slots[t].request]
  BY DEF IsNext, IInv, Calls
<1>2. s \in BusySlots
  BY <1>1 DEF SInv, Places
<1>3. \A t \in BusySlots : slots[t].request \in active /\ slot[slots[t].request] = t
  BY DEF IInv, SlotsMatchActive
<1>4. active \subseteq Requests /\ BusySlots \subseteq DOMAIN slots /\ NoSlot \notin DOMAIN slots
  BY SlotsFunction DEF IInv, TypeOK, BusySlots
<1>5. \A t \in DOMAIN slots : slots[t].request \in Requests => t \in BusySlots
  BY DEF BusySlots, FreeSlots, is_free
<1> QED  BY <1>1, <1>2, <1>3, <1>4, <1>5 DEF Executed

\* A slot whose request was answered is passed over.
LEMMA SkipStep ==
    ASSUME SInv, IInv, IInv', NEW s \in todo, SkipSlot(s)
    PROVE  SInv'
<1>1. /\ IsNext(s) /\ batch[s] \notin pending_requests /\ todo' = todo \ {s}
      /\ UNCHANGED <<created, queue, active, slots, slot, at, batch>>
      /\ UNCHANGED <<pending_requests, state, generated, sessions, completed_ids, mode, failed>>
      /\ UNCHANGED resultVars
  BY DEF SkipSlot, vars, origin
<1>2. failed
  BY <1>1, NextSlot DEF SInv, Agreement
<1>3. \A t \in DOMAIN slots : slots[t].request \in pending_requests => (Executed(t)' <=> Executed(t))
  BY <1>1, NextSlot DEF Executed
<1>4. ServerTypeOK'
  BY <1>1 DEF SInv, ServerTypeOK, resultVars
<1>5. Places' /\ EngineBook'
  BY <1>1, NextSlot DEF SInv, Places, EngineBook
<1>6. SlotBook'
  BY <1>1, <1>3 DEF SInv, SlotBook
<1>7. Agreement'
  BY <1>1, <1>2 DEF Agreement
<1> QED  BY <1>4, <1>5, <1>6, <1>7 DEF SInv

\* A slot that runs is one token ahead in the engine.
LEMMA ExecuteStep ==
    ASSUME SInv, IInv, IInv', NEW s \in todo, ExecuteSlot(s)
    PROVE  SInv'
<1> DEFINE r == batch[s]
           n == IF Produces(r) THEN generated[r] + 1 ELSE generated[r]
<1>1. /\ IsNext(s) /\ r \in pending_requests /\ todo' = todo \ {s}
      /\ UNCHANGED <<created, queue, active, slots, slot, at, batch>>
      /\ UNCHANGED <<pending_requests, mode, failed>> /\ UNCHANGED resultVars
      /\ sessions' = sessions \cup {r}
      /\ generated' = [generated EXCEPT ![r] = n]
  BY DEF ExecuteSlot, vars, origin
<1>2. \/ /\ n >= MaxTokens[r]
         /\ state' = [state EXCEPT ![r] = "Completed"]
         /\ completed_ids' = completed_ids \cup {r}
      \/ /\ ~(n >= MaxTokens[r])
         /\ state' = [state EXCEPT ![r] = "Decoding"]
         /\ completed_ids' = completed_ids
  BY DEF ExecuteSlot, Done
<1>3. /\ at = "executing" /\ s \in DOMAIN slots /\ r = slots[s].request /\ r \in Requests
      /\ slot[r] = s /\ s # NoSlot /\ r \in active
      /\ \A t \in DOMAIN slots : slots[t].request = r => t = s
      /\ ~Executed(s)
  BY <1>1, NextSlot
<1>4. /\ generated \in [Requests -> Nat] /\ MaxTokens[r] \in Nat /\ slots[s].tokens \in Nat
      /\ state \in [Requests -> {"Queued", "Decoding", "Completed"}]
  BY <1>3, SlotTypes DEF SInv, ServerTypeOK
\* The new count of tokens.
<1>5. /\ n \in Nat /\ n <= AtLeastOne(MaxTokens[r])
      /\ n >= MaxTokens[r] => n = AtLeastOne(MaxTokens[r])
      /\ slots[s].tokens <= n
      /\ ~(n >= MaxTokens[r]) => slots[s].tokens < n
  <2>1. state[r] = "Completed" => generated[r] = AtLeastOne(MaxTokens[r])
    BY <1>1 DEF SInv, EngineBook
  <2>2. state[r] \in {"Queued", "Decoding"} => generated[r] < AtLeastOne(MaxTokens[r])
    BY <1>1, <1>4 DEF SInv, EngineBook, AtLeastOne
  <2>3. slots[s].tokens <= generated[r] /\ generated[r] \in Nat
    BY <1>1, <1>3, <1>4 DEF SInv, SlotBook
  <2>4. state[r] \in {"Queued", "Decoding", "Completed"}
    BY <1>3, <1>4
  <2> QED  BY <1>4, <2>1, <2>2, <2>3, <2>4 DEF Produces, AtLeastOne
<1> HIDE DEF n
<1>6. ServerTypeOK'
  <2>1. state' \in [Requests -> {"Queued", "Decoding", "Completed"}]
    BY <1>2, <1>4
  <2>2. /\ generated' \in [Requests -> Nat]
        /\ \A q \in Requests : generated'[q] <= AtLeastOne(MaxTokens[q])
    BY <1>1, <1>4, <1>5 DEF SInv, ServerTypeOK
  <2>3. completed_ids' \subseteq pending_requests
    BY <1>1, <1>2 DEF SInv, ServerTypeOK
  <2> QED  BY <1>1, <2>1, <2>2, <2>3 DEF SInv, ServerTypeOK, resultVars
<1>7. Places'
  BY <1>1, <1>2, <1>3 DEF SInv, Places
<1>8. EngineBook'
  <2> SUFFICES ASSUME NEW q \in pending_requests
               PROVE  /\ state'[q] = "Queued" => generated'[q] = 0
                      /\ state'[q] = "Decoding" => generated'[q] < AtLeastOne(MaxTokens[q])
                      /\ state'[q] = "Completed" => generated'[q] = AtLeastOne(MaxTokens[q])
                      /\ q \in completed_ids' => state'[q] = "Completed"
                      /\ slot[q] = NoSlot => state'[q] = "Queued"
    BY <1>1 DEF EngineBook
  <2>1. q \in Requests
    BY DEF SInv, ServerTypeOK, IInv, TypeOK
  <2>2. CASE q # r
    BY <1>1, <1>2, <1>3, <1>4, <2>1, <2>2 DEF SInv, EngineBook
  <2>3. CASE q = r
    <3>1. generated'[q] = n
      BY <1>1, <1>3, <1>4, <2>3
    <3>2. r \notin completed_ids \/ state[r] = "Completed"
      BY <1>1 DEF SInv, EngineBook
    <3>3. state[r] = "Completed" => n >= MaxTokens[r]
      BY <1>1, <1>4 DEF SInv, EngineBook, AtLeastOne, n, Produces
    <3> QED  BY <1>2, <1>3, <1>4, <1>5, <2>3, <3>1, <3>2, <3>3 DEF AtLeastOne
  <2> QED  BY <2>2, <2>3
<1>9. \A t \in DOMAIN slots : t # s => (Executed(t)' <=> Executed(t))
  BY <1>1 DEF Executed
<1>10. SlotBook'
  <2> SUFFICES ASSUME NEW t \in DOMAIN slots, slots[t].request \in pending_requests
               PROVE  /\ slots[t].tokens <= generated'[slots[t].request]
                      /\ Executed(t)' =>
                            \/ slots[t].request \in completed_ids'
                            \/ /\ slots[t].tokens < generated'[slots[t].request]
                               /\ generated'[slots[t].request] < MaxTokens[slots[t].request]
    BY <1>1 DEF SlotBook
  <2>1. CASE t = s
    <3>1. generated'[r] = n
      BY <1>1, <1>3, <1>4
    <3> QED  BY <1>2, <1>3, <1>4, <1>5, <2>1, <3>1
  <2>2. CASE t # s
    <3>1. slots[t].request # r /\ slots[t].request \in Requests
      BY <1>3, <2>2 DEF SInv, ServerTypeOK, IInv, TypeOK
    <3>2. generated'[slots[t].request] = generated[slots[t].request]
      BY <1>1, <1>4, <3>1
    <3> QED  BY <1>2, <1>9, <2>2, <3>2 DEF SInv, SlotBook
  <2> QED  BY <2>1, <2>2
<1>11. Agreement'
  <2> SUFFICES ASSUME ~failed, NEW t \in DOMAIN slots, slots[t].request \in Requests
               PROVE  IF Executed(t)' THEN generated'[slots[t].request] = slots[t].tokens + 1
                      ELSE /\ generated'[slots[t].request] = slots[t].tokens
                           /\ state'[slots[t].request] # "Completed"
    BY <1>1 DEF SInv, Agreement
  <2>1. CASE t = s
    <3>1. generated'[r] = n
      BY <1>1, <1>3, <1>4
    <3>2. generated[r] = slots[s].tokens /\ state[r] # "Completed"
      BY <1>3 DEF SInv, Agreement
    <3>3. n = slots[s].tokens + 1
      BY <1>3, <1>4, <3>2 DEF n, Produces
    <3>4. Executed(s)'
      BY <1>1, <1>3 DEF Executed
    <3> QED  BY <1>3, <2>1, <3>1, <3>3, <3>4
  <2>2. CASE t # s
    <3>1. slots[t].request # r
      BY <1>3, <2>2
    <3>2. /\ generated'[slots[t].request] = generated[slots[t].request]
          /\ state'[slots[t].request] = state[slots[t].request]
      BY <1>1, <1>2, <1>4, <3>1
    <3> QED  BY <1>9, <2>2, <3>2 DEF SInv, Agreement
  <2> QED  BY <2>1, <2>2
<1> QED  BY <1>6, <1>7, <1>8, <1>10, <1>11 DEF SInv

\* An error leaves the engine ahead, never behind.
LEMMA FailStep ==
    ASSUME SInv, IInv, IInv', NEW s \in todo, SessionFails(s)
    PROVE  SInv'
<1> DEFINE r == batch[s]
<1>1. /\ IsNext(s) /\ r \in pending_requests /\ ExecutionFails
      /\ state[r] \in {"Queued", "Decoding"}
      /\ sessions' = sessions \cup {r}
      /\ state' = [state EXCEPT ![r] = "Decoding"]
      /\ todo' = {} /\ completed_ids' = {} /\ results' = {} /\ awaited' = {}
      /\ lost' = [q \in Requests |-> lost[q] + Held(results, q)]
      /\ mode' = "out" /\ failed' = TRUE
      /\ UNCHANGED <<pending_requests, generated, completions, received>>
  BY DEF SessionFails, Produces
<1>2. /\ r \in Requests /\ slot[r] # NoSlot /\ r \in active
  BY <1>1, NextSlot
<1>3. /\ generated \in [Requests -> Nat] /\ MaxTokens[r] \in Nat
      /\ state \in [Requests -> {"Queued", "Decoding", "Completed"}]
  BY <1>2 DEF SInv, ServerTypeOK
<1>4. ServerTypeOK'
  <2>1. state' \in [Requests -> {"Queued", "Decoding", "Completed"}]
    BY <1>1, <1>3
  <2>2. lost' \in [Requests -> Nat]
    BY <1>1 DEF SInv, ServerTypeOK, Held
  <2> QED  BY <1>1, <2>1, <2>2, DropStep DEF SInv, ServerTypeOK
<1>5. Places'
  BY <1>1, DropStep DEF SInv, Places
<1>6. EngineBook'
  <2>1. generated[r] < AtLeastOne(MaxTokens[r])
    BY <1>1, <1>3 DEF SInv, EngineBook, AtLeastOne
  <2> QED  BY <1>1, <1>2, <1>3, <2>1, DropStep DEF SInv, EngineBook
<1>7. SlotBook'
  BY <1>1, DropStep DEF SInv, SlotBook
<1>8. Agreement'
  BY <1>1 DEF Agreement
<1> QED  BY <1>4, <1>5, <1>6, <1>7, <1>8 DEF SInv

\* process_results frees exactly the slots whose requests complete; the
\* others have one token more.
LEMMA ResultsTokens ==
    ASSUME IInv, process_results
    PROVE  /\ DOMAIN slots' = DOMAIN slots
           /\ \A s \in BusySlots :
                \/ /\ slots[s].tokens + 1 >= MaxTokens[slots[s].request]
                   /\ slots'[s].request = NoRequest
                \/ /\ slots[s].tokens + 1 < MaxTokens[slots[s].request]
                   /\ slots'[s].request = slots[s].request
                   /\ slots'[s].tokens = slots[s].tokens + 1
                   /\ slots[s].request \in active'
           /\ \A s \in DOMAIN slots \ BusySlots : slots'[s].request = NoRequest
           /\ at' = "idle" /\ batch' = << >> /\ UNCHANGED <<created, queue>>
           /\ active' \subseteq active
           /\ \A r \in active' : slot'[r] = slot[r]
<1>1. /\ DOMAIN slots' = DOMAIN slots
      /\ \A s \in DOMAIN slots : slots'[s] = AfterResults(s)
      /\ active' = {r \in active : \E s \in DOMAIN slots : AfterResults(s).request = r}
      /\ slot' = [r \in Requests |-> IF r \in active' THEN slot[r] ELSE NoSlot]
      /\ at' = "idle" /\ batch' = << >> /\ UNCHANGED <<created, queue>> /\ at = "executing"
  BY DEF process_results, origin
<1>2. batch = [s \in BusySlots |-> slots[s].request]
  BY <1>1 DEF IInv, Calls
<1>3. \A s \in DOMAIN slots : slots[s] \in Slot
  BY SlotsFunction DEF IInv
<1>4. \A s \in BusySlots : slots[s].request \in active /\ s \in DOMAIN slots
  BY DEF IInv, SlotsMatchActive, BusySlots
<1>5. ASSUME NEW s \in BusySlots
      PROVE  /\ slots[s].tokens + 1 >= MaxTokens[slots[s].request]
                 => slots'[s].request = NoRequest
             /\ ~(slots[s].tokens + 1 >= MaxTokens[slots[s].request])
                 => /\ slots'[s].request = slots[s].request
                    /\ slots'[s].tokens = slots[s].tokens + 1
                    /\ slots[s].request \in active'
  <2>1. batch[s] = slots[s].request /\ s \in DOMAIN batch
    BY <1>2
  <2>2. Completes(s) <=> slots[s].tokens + 1 >= MaxTokens[slots[s].request]
    BY <1>4, <2>1 DEF Completes
  <2>3. CASE Completes(s)
    BY <1>1, <1>4, <2>2, <2>3 DEF AfterResults, EmptySlot
  <2>4. CASE ~Completes(s)
    <3>1. slots'[s] = [slots[s] EXCEPT !.tokens = @ + 1]
      BY <1>1, <1>4, <2>1, <2>4 DEF AfterResults
    <3>2. slots'[s].request = slots[s].request /\ slots'[s].tokens = slots[s].tokens + 1
      BY <1>3, <1>4, <3>1 DEF Slot
    <3>3. AfterResults(s).request = slots[s].request
      BY <1>1, <1>4, <3>2
    <3> QED  BY <1>1, <1>4, <2>2, <2>4, <3>2, <3>3
  <2> QED  BY <2>2, <2>3, <2>4
<1>6. ASSUME NEW s \in DOMAIN slots \ BusySlots PROVE slots'[s].request = NoRequest
  <2>1. s \notin DOMAIN batch /\ slots[s].request = NoRequest
    BY <1>2 DEF BusySlots, FreeSlots, is_free
  <2> QED  BY <1>1, <2>1 DEF AfterResults, Completes
<1>7. active \subseteq Requests
  BY DEF IInv, TypeOK
<1>8. \A s \in BusySlots :
        slots[s].tokens + 1 \in Nat /\ MaxTokens[slots[s].request] \in Nat
  BY <1>4, <1>7, SlotTypes
<1> QED  BY <1>1, <1>5, <1>6, <1>7, <1>8

\* process_results catches up, and completed requests leave.
LEMMA FinishedStep ==
    ASSUME SInv, IInv, IInv', FinishStep
    PROVE  SInv'
<1>1. /\ at = "executing" /\ todo = {} /\ process_results
      /\ completions' = completions \cup {[request |-> r, tokens |-> generated[r]] : r \in Fits}
      /\ lost' = [r \in Requests |-> IF r \in completed_ids \ Fits THEN lost[r] + 1 ELSE lost[r]]
      /\ pending_requests' = pending_requests \ completed_ids
      /\ sessions' = sessions \ completed_ids
      /\ completed_ids' = {}
      /\ mode' = AfterStep
      /\ UNCHANGED <<state, generated, todo, results, received, awaited, failed>>
  BY DEF FinishStep, Forgotten
<1>2. /\ pending_requests \subseteq Requests /\ completed_ids \subseteq pending_requests
      /\ Fits \subseteq completed_ids /\ pending_requests \subseteq created
      /\ generated \in [Requests -> Nat] /\ lost \in [Requests -> Nat]
      /\ created \subseteq Requests
  BY DEF SInv, ServerTypeOK, IInv, TypeOK, Fits
<1>3. \A r \in completed_ids :
        state[r] = "Completed" /\ generated[r] = AtLeastOne(MaxTokens[r]) /\ slot[r] # NoSlot
  BY <1>2 DEF SInv, EngineBook
\* A request that goes on waiting keeps its slot.
<1>4. \A s \in BusySlots : slots[s].request \in pending_requests' =>
        /\ slots[s].tokens < generated[slots[s].request]
        /\ generated[slots[s].request] < MaxTokens[slots[s].request]
  BY <1>1 DEF SInv, SlotBook, Executed, BusySlots
<1>5. \A s \in BusySlots : /\ slots[s].tokens \in Nat /\ slots[s].request \in Requests
                            /\ MaxTokens[slots[s].request] \in Nat
                            /\ generated[slots[s].request] \in Nat
  <2>1. \A s \in BusySlots : s \in DOMAIN slots /\ slots[s].request # NoRequest
    BY DEF BusySlots, FreeSlots, is_free
  <2> QED  BY <1>2, <2>1, SlotTypes
<1>6. \A r \in pending_requests' \cap active : r \in active'
  <2> SUFFICES ASSUME NEW r \in pending_requests', r \in active PROVE r \in active'
    OBVIOUS
  <2>1. slot[r] # NoSlot
    BY <1>1 DEF IInv, SlotsMatchActive, SlotlessActive
  <2>2. slot[r] \in DOMAIN slots /\ slots[slot[r]].request = r /\ r # NoRequest
    BY <2>1 DEF IInv, SlotsMatchActive, TypeOK
  <2>3. slot[r] \in BusySlots
    BY <2>2 DEF BusySlots, FreeSlots, is_free
  <2>4. ~(slots[slot[r]].tokens + 1 >= MaxTokens[slots[slot[r]].request])
    BY <1>4, <1>5, <2>2, <2>3
  <2> QED  BY <1>1, <2>2, <2>3, <2>4, ResultsTokens
<1>7. ServerTypeOK'
  <2>1. completions' \subseteq Result
    BY <1>1, <1>2 DEF SInv, ServerTypeOK, Result
  <2>2. lost' \in [Requests -> Nat]
    BY <1>1, <1>2
  <2>3. pending_requests' \subseteq created'
    BY <1>1, <1>2, ResultsTokens
  <2> QED  BY <1>1, <2>1, <2>2, <2>3, ResultsTokens DEF SInv, ServerTypeOK, AfterStep
<1>8. Places'
  <2>1. queue \cap completed_ids = {}
    <3>1. \A r \in queue : r \in Requests /\ slot[r] = NoSlot
      BY DEF IInv, NoRequestLost, SlotField, TypeOK
    <3> QED  BY <1>3, <3>1
  <2>2. queue' \subseteq pending_requests' /\ pending_requests' \subseteq queue' \cup active'
    BY <1>1, <1>6, <2>1, ResultsTokens DEF SInv, Places
  <2> QED  BY <1>1, <1>2, <2>2, ResultsTokens DEF SInv, Places, AfterStep
<1>9. EngineBook'
  <2> SUFFICES ASSUME NEW r \in pending_requests'
               PROVE  slot'[r] = NoSlot => slot[r] = NoSlot
    BY <1>1 DEF SInv, EngineBook
  <2>1. CASE r \in active
    BY <1>1, <1>6, <2>1, ResultsTokens
  <2>2. CASE r \notin active
    BY <1>1, <1>2, <2>2 DEF IInv, SlotField
  <2> QED  BY <2>1, <2>2
<1>10. \A s \in DOMAIN slots' : slots'[s].request \in Requests =>
        /\ s \in BusySlots /\ slots'[s].request = slots[s].request
        /\ slots'[s].tokens = slots[s].tokens + 1
        /\ slots[s].tokens + 1 < MaxTokens[slots[s].request]
  BY <1>1, ResultsTokens
<1>11. SlotBook'
  <2> SUFFICES ASSUME NEW s \in DOMAIN slots', slots'[s].request \in pending_requests'
               PROVE  slots'[s].tokens <= generated[slots'[s].request]
    BY <1>1, ResultsTokens DEF SlotBook, Executed
  <2>1. slots'[s].request \in Requests
    BY <1>1, <1>2
  <2> QED  BY <1>4, <1>5, <1>10, <2>1
<1>12. Agreement'
  <2> SUFFICES ASSUME ~failed PROVE Agreement'
    BY <1>1 DEF Agreement
  <2>1. \A s \in BusySlots : generated[slots[s].request] = slots[s].tokens + 1
    BY <1>1, <1>5 DEF SInv, Agreement, Executed, BusySlots
  <2>2. ASSUME NEW s \in DOMAIN slots', slots'[s].request \in Requests
        PROVE  /\ generated[slots'[s].request] = slots'[s].tokens
               /\ slots'[s].request \in pending_requests'
               /\ state[slots'[s].request] # "Completed"
    <3>1. /\ s \in BusySlots /\ slots'[s].request = slots[s].request
          /\ slots'[s].tokens = slots[s].tokens + 1
          /\ slots[s].tokens + 1 < MaxTokens[slots[s].request]
      BY <1>10, <2>2
    <3>2. slots[s].request \in pending_requests
      BY <3>1 DEF SInv, Agreement, IInv, SlotsMatchActive
    <3>3. generated[slots[s].request] < AtLeastOne(MaxTokens[slots[s].request])
      BY <1>5, <2>1, <3>1 DEF AtLeastOne
    <3>4. state[slots[s].request] # "Completed"
      BY <1>5, <3>1, <3>2, <3>3 DEF SInv, EngineBook, AtLeastOne
    <3> QED  BY <1>1, <1>3, <2>1, <3>1, <3>2, <3>4
  <2>3. active' \subseteq pending_requests'
    <3> SUFFICES ASSUME NEW r \in active' PROVE r \in pending_requests'
      OBVIOUS
    <3>1. slot'[r] \in DOMAIN slots' /\ slots'[slot'[r]].request = r /\ r \in Requests
      BY <1>1, ResultsTokens DEF IInv, SlotsMatchActive, SlotlessActive, TypeOK
    <3> QED  BY <2>2, <3>1
  <2> QED  BY <1>1, <2>2, <2>3, ResultsTokens DEF Agreement, Executed
<1> QED  BY <1>7, <1>8, <1>9, <1>11, <1>12 DEF SInv

-----------------------------------------------------------------------------

\* Every step keeps the invariant.
LEMMA ServerInductive ==
    ASSUME SInv, IInv, IInv', [ServerNext]_serverVars
    PROVE  SInv'
<1>1. ASSUME NEW r \in Requests, enqueue(r) PROVE SInv'
  BY <1>1, EnqueueStep
<1>2. CASE step
  <2>1. /\ UNCHANGED <<created, queue, active, slots, slot, batch>> /\ UNCHANGED engineVars
        /\ at = "idle" /\ at' = "poll" /\ mode \in {"out", "loop"}
    BY <1>2 DEF step, next_batch, origin
  <2>2. \A s : ~Executed(s) /\ ~Executed(s)'
    BY <2>1 DEF Executed
  <2>3. ServerTypeOK' /\ Places'
    BY <2>1 DEF engineVars, resultVars, SInv, ServerTypeOK, Places
  <2>4. EngineBook'
    BY <2>1 DEF engineVars, SInv, EngineBook
  <2>5. SlotBook' /\ Agreement'
    BY <2>1, <2>2 DEF engineVars, SInv, SlotBook, Agreement
  <2> QED  BY <2>3, <2>4, <2>5 DEF SInv
<1>3. ASSUME NEW s \in todo, SkipSlot(s) \/ ExecuteSlot(s) \/ SessionFails(s) PROVE SInv'
  BY <1>3, SkipStep, ExecuteStep, FailStep
<1>4. CASE Drain \/ LoopEnds \/ run_batch_loop \/ try_recv_completion
  <2>1. /\ UNCHANGED <<created, queue, active, slots, slot, at, batch>>
        /\ UNCHANGED <<pending_requests, state, generated, sessions, todo, completed_ids, failed>>
        /\ mode' \in {"out", "loop"}
        /\ completions' \cup results' \subseteq completions \cup results
    BY <1>4 DEF Drain, Drained, LoopEnds, run_batch_loop, try_recv_completion, vars, origin
  <2>2. lost' = lost /\ awaited' \in {awaited, {}, pending_requests}
    BY <1>4 DEF Drain, LoopEnds, run_batch_loop, try_recv_completion
  <2>3. received' \in [Requests -> Nat]
    BY <1>4 DEF Drain, LoopEnds, run_batch_loop, try_recv_completion, Held, SInv, ServerTypeOK,
                Result
  <2>4. lost' \in [Requests -> Nat] /\ awaited' \subseteq created
    BY <2>2 DEF SInv, ServerTypeOK
  <2> QED  BY <2>1, <2>3, <2>4, OtherStep
<1>5. CASE UNCHANGED serverVars
  BY <1>5 DEF serverVars, vars, origin, engineVars, resultVars, SInv, ServerTypeOK, Places,
              EngineBook, SlotBook, Agreement, Executed
<1> QED  BY <1>1, <1>2, <1>3, <1>4, <1>5, ScheduleStep, EmitStep, EmptyBatchStep, FinishedStep
         DEF ServerNext, CallStep, SlotStep

\* The engine's invariant and the scheduler's hold together.
LEMMA ServerInvariance == ServerSpec => [](IInv /\ SInv)
<1>1. ServerSpec => []IInv
  BY SchedulerBelow, Invariance, PTL
<1>2. IInv /\ IInv' /\ SInv /\ [ServerNext]_serverVars => SInv'
  BY ServerInductive
<1> QED  BY <1>1, <1>2, ServerInitially, PTL DEF ServerSpec

\* Every variable of the engine keeps its type; no request ever holds more
\* than max_tokens tokens (one if it asked for none).
THEOREM ServerTypeCorrect == ServerSpec => []ServerTypeOK
<1>1. SInv => ServerTypeOK
  BY DEF SInv
<1> QED  BY <1>1, ServerInvariance, PTL

\* However many steps fail half way, the scheduler has every request the
\* engine still waits for and never counts more of its tokens.
THEOREM BooksStayTogether == ServerSpec => []NoOrphans
<1>1. SInv => NoOrphans
  BY DEF SInv, Places, SlotBook, NoOrphans, BusySlots
<1> QED  BY <1>1, ServerInvariance, PTL

\* Without a failed step the two books are the same between calls.
THEOREM BooksAgreeAlways == ServerSpec => []BooksAgree
<1>1. IInv /\ SInv => BooksAgree
  <2> SUFFICES ASSUME IInv, SInv, ~failed, at = "idle" PROVE BooksAgree
    BY DEF BooksAgree
  <2>1. \A s \in BusySlots : s \in DOMAIN slots /\ slots[s].request \in Requests /\ ~Executed(s)
    BY SlotTypes DEF BusySlots, FreeSlots, is_free, Executed
  <2> QED  BY <2>1 DEF SInv, Agreement, BooksAgree
<1> QED  BY <1>1, ServerInvariance, PTL

-----------------------------------------------------------------------------
(* The results.                                                             *)

\* A place holds the result of a request or not.
LEMMA HeldType == \A S, r : Held(S, r) \in {0, 1} /\ Held({}, r) = 0
  BY DEF Held

\* A request that is held anywhere has left the map.
LEMMA HeldLeft ==
    ASSUME ResultOnce, ServerTypeOK, NEW r \in Requests,
           Held(completions, r) = 1 \/ Held(results, r) = 1
    PROVE  r \in created \ pending_requests /\ Held(completions, r) + Held(results, r) = 1
<1>1. /\ Held(completions, r) + Held(results, r) + received[r] + lost[r]
           = IF r \in created \ pending_requests THEN 1 ELSE 0
      /\ received[r] \in Nat /\ lost[r] \in Nat
  BY DEF ResultOnce, ServerTypeOK
<1>2. Held(completions, r) \in {0, 1} /\ Held(results, r) \in {0, 1}
  BY HeldType
<1> QED  BY <1>1, <1>2

\* The batch never has more than PrefillBatch requests: only poll adds one.
LEMMA RoomStep ==
    ASSUME IInv, IInv', Cardinality(active) <= PrefillBatch, [ServerNext]_serverVars
    PROVE  Cardinality(active') <= PrefillBatch
<1>0. IsFiniteSet(active) /\ IsFiniteSet(active') /\ Cardinality(active) \in Nat
  BY FS_CardinalityType DEF IInv, SlotField
<1>1. ASSUME active' \subseteq active PROVE Cardinality(active') <= PrefillBatch
  BY <1>0, <1>1, FS_Subset, FS_CardinalityType
<1>2. ASSUME NEW r \in queue, Poll(r) PROVE Cardinality(active') <= PrefillBatch
  <2>1. Cardinality(active) < PrefillBatch /\ active' = active \cup {r}
    BY <1>2 DEF Poll, HasRoom
  <2> QED  BY <1>0, <2>1, FS_AddElement
<1>3. ASSUME NEW r \in Requests, enqueue(r) PROVE active' = active
  BY <1>3 DEF enqueue, enqueue_with_priority
<1>4. ASSUME step \/ EndPoll \/ AssignSome \/ Emit \/ EmptyStep PROVE active' = active
  BY <1>4 DEF step, next_batch, EndPoll, AssignSome, Assign, Emit, EmitBatch, EmptyStep,
              ExecutionFails
<1>5. ASSUME NEW s \in todo, SkipSlot(s) \/ ExecuteSlot(s) \/ SessionFails(s)
      PROVE  active' = active
  BY <1>5 DEF SkipSlot, ExecuteSlot, SessionFails, ExecutionFails, vars
<1>6. ASSUME FinishStep PROVE active' \subseteq active
  BY <1>6, ResultsTokens DEF FinishStep
<1>7. ASSUME Drain \/ LoopEnds \/ run_batch_loop \/ try_recv_completion \/ UNCHANGED serverVars
      PROVE  active' = active
  BY <1>7 DEF Drain, LoopEnds, run_batch_loop, try_recv_completion, serverVars, vars
<1> QED  BY <1>1, <1>2, <1>3, <1>4, <1>5, <1>6, <1>7
         DEF ServerNext, CallStep, SlotStep, Schedule, PollSome

\* A step that moves no result: the mode changes only when a step without
\* slots ends.
LEMMA NoResultMoves ==
    ASSUME RInv, UNCHANGED <<created, pending_requests>>, UNCHANGED resultVars,
           mode' = mode \/ (mode = "loop" /\ mode' = "drain"),
           Cardinality(active') <= PrefillBatch
    PROVE  RInv'
<1>1. ResultOnce'
  BY DEF RInv, ResultOnce, resultVars, Held
<1>2. Delivery'
  BY DEF RInv, Delivery, resultVars, Held
<1> QED  BY <1>1, <1>2 DEF RInv

\* The channel has room for a whole batch if it is empty and as large.
LEMMA AllFit ==
    ASSUME IInv, SInv, at = "executing", completions = {}, Cardinality(active) <= PrefillBatch,
           PrefillBatch <= ChannelCap
    PROVE  Fits = completed_ids
<1>1. completed_ids \subseteq active
  <2>1. \A r \in completed_ids : r \in Requests /\ slot[r] # NoSlot
    BY DEF SInv, EngineBook, ServerTypeOK, IInv, TypeOK
  <2> QED  BY <2>1 DEF IInv, SlotField
<1>2. IsFiniteSet(completed_ids) /\ Cardinality(completed_ids) <= ChannelCap
  <2>1. IsFiniteSet(active) /\ Cardinality(active) \in Nat
    BY FS_CardinalityType DEF IInv, SlotField
  <2>2. /\ IsFiniteSet(completed_ids) /\ Cardinality(completed_ids) \in Nat
        /\ Cardinality(completed_ids) <= Cardinality(active)
    BY <1>1, <2>1, FS_Subset, FS_CardinalityType
  <2> QED  BY <2>1, <2>2
<1>3. Cardinality(completions) = 0
  BY FS_EmptySet
<1> SUFFICES ASSUME NEW r \in completed_ids
             PROVE  Cardinality({q \in completed_ids : slot[q] < slot[r]}) < ChannelCap
  <2>1. \A r \in completed_ids :
            Cardinality({q \in completed_ids : slot[q] < slot[r]}) \in Nat
    BY <1>2, FS_Subset, FS_CardinalityType
  <2> QED  BY <1>3, <2>1 DEF Fits
<1> DEFINE before == {q \in completed_ids : slot[q] < slot[r]}
<1>4. before \subseteq completed_ids \ {r}
  <2>1. slot[r] \in Nat
    BY <1>1 DEF IInv, TypeOK
  <2> QED  BY <2>1
<1>5. /\ IsFiniteSet(completed_ids \ {r})
      /\ Cardinality(completed_ids \ {r}) = Cardinality(completed_ids) - 1
  BY <1>2, FS_RemoveElement
<1>6. Cardinality(before) <= Cardinality(completed_ids \ {r}) /\ IsFiniteSet(before)
  BY <1>4, <1>5, FS_Subset
<1>7. Cardinality(before) \in Nat /\ Cardinality(completed_ids) \in Nat
  BY <1>2, <1>6, FS_CardinalityType
<1> QED  BY <1>2, <1>5, <1>6, <1>7

\* A completed request leaves the map as its result goes into the channel, or
\* is dropped there.
LEMMA FinishResults ==
    ASSUME IInv, SInv, RInv, FinishStep, Cardinality(active') <= PrefillBatch
    PROVE  RInv'
<1>1. /\ at = "executing" /\ process_results /\ created' = created
      /\ completions' = completions \cup {[request |-> r, tokens |-> generated[r]] : r \in Fits}
      /\ lost' = [r \in Requests |-> IF r \in completed_ids \ Fits THEN lost[r] + 1 ELSE lost[r]]
      /\ pending_requests' = pending_requests \ completed_ids
      /\ mode' = AfterStep
      /\ UNCHANGED <<results, received, awaited>>
  BY DEF FinishStep, Forgotten, process_results, origin
<1>2. /\ completed_ids \subseteq pending_requests /\ pending_requests \subseteq created
      /\ created \subseteq Requests /\ Fits \subseteq completed_ids
      /\ received \in [Requests -> Nat] /\ lost \in [Requests -> Nat]
      /\ completions \subseteq Result /\ results \subseteq Result
  BY DEF SInv, ServerTypeOK, IInv, TypeOK, Fits
<1>3. \A r \in completed_ids : generated[r] = AtLeastOne(MaxTokens[r])
  BY <1>2 DEF SInv, EngineBook
<1>4. \A r \in Requests :
        Held(completions', r) = IF r \in Fits THEN 1 ELSE Held(completions, r)
  <2> SUFFICES ASSUME NEW r \in Requests
               PROVE  (\E x \in completions' : x.request = r)
                        <=> (r \in Fits \/ \E x \in completions : x.request = r)
    BY DEF Held
  <2> DEFINE made == {[request |-> q, tokens |-> generated[q]] : q \in Fits}
  <2>1. completions' = completions \cup made
    BY <1>1
  <2>2. \A x \in made : x.request \in Fits
    OBVIOUS
  <2>3. ASSUME r \in Fits PROVE \E x \in made : x.request = r
    <3>1. [request |-> r, tokens |-> generated[r]] \in made
      BY <2>3
    <3> QED  BY <3>1
  <2> HIDE DEF made
  <2> QED  BY <2>1, <2>2, <2>3
<1>5. \A r \in completed_ids :
        Held(completions, r) = 0 /\ Held(results, r) = 0 /\ received[r] = 0 /\ lost[r] = 0
  <2> SUFFICES ASSUME NEW r \in completed_ids
               PROVE  Held(completions, r) = 0 /\ Held(results, r) = 0 /\ received[r] = 0
                      /\ lost[r] = 0
    OBVIOUS
  <2>1. /\ Held(completions, r) + Held(results, r) + received[r] + lost[r] = 0
        /\ received[r] \in Nat /\ lost[r] \in Nat
    BY <1>2 DEF RInv, ResultOnce
  <2>2. Held(completions, r) \in {0, 1} /\ Held(results, r) \in {0, 1}
    BY HeldType
  <2> QED  BY <2>1, <2>2
<1>6. ResultOnce'
  <2>1. ASSUME NEW r \in Requests
        PROVE  Held(completions', r) + Held(results, r) + received[r] + lost'[r]
                 = IF r \in created \ pending_requests' THEN 1 ELSE 0
    <3>1. CASE r \in completed_ids
      BY <1>1, <1>2, <1>4, <1>5, <3>1
    <3>2. CASE r \notin completed_ids
      <4>1. Held(completions', r) = Held(completions, r) /\ lost'[r] = lost[r]
        BY <1>1, <1>2, <1>4, <3>2
      <4>2. r \in created \ pending_requests' <=> r \in created \ pending_requests
        BY <1>1, <3>2
      <4> QED  BY <4>1, <4>2 DEF RInv, ResultOnce
    <3> QED  BY <3>1, <3>2
  <2>2. \A x \in completions' \cup results : x.tokens = AtLeastOne(MaxTokens[x.request])
    BY <1>1, <1>2, <1>3 DEF RInv, ResultOnce
  <2> QED  BY <1>1, <2>1, <2>2 DEF ResultOnce
<1>7. Delivery'
  <2>1. mode' # "loop" /\ (mode' = "out" => mode = "out")
    BY <1>1 DEF AfterStep, SInv, ServerTypeOK
  <2>2. ASSUME PrefillBatch <= ChannelCap, NEW r \in awaited \ pending_requests'
        PROVE  Held(completions', r) + Held(results, r) = 1
    <3>0. r \in Requests
      BY <1>2, <2>2 DEF SInv, ServerTypeOK
    <3>1. CASE r \notin pending_requests
      <4>1. r \notin Fits
        BY <1>2, <3>1
      <4> QED  BY <1>4, <2>2, <3>0, <3>1, <4>1 DEF RInv, Delivery
    <3>2. CASE r \in completed_ids
      <4>1. mode = "loop"
        BY <1>1, <2>2 DEF RInv, Delivery, SInv, Places, ServerTypeOK
      <4>2. completions = {}
        BY <2>2, <4>1 DEF RInv, Delivery
      <4>3. r \in Fits
        BY <1>1, <2>2, <3>2, <4>2, AllFit DEF RInv, Delivery
      <4> QED  BY <1>4, <1>5, <3>0, <3>2, <4>3
    <3> QED  BY <1>1, <2>2, <3>1, <3>2
  <2> QED  BY <1>1, <2>1, <2>2 DEF RInv, Delivery
<1> QED  BY <1>6, <1>7 DEF RInv

\* A failing step takes run_batch_loop's results with it.
LEMMA FailResults ==
    ASSUME IInv, SInv, RInv, NEW s \in todo, SessionFails(s), Cardinality(active') <= PrefillBatch
    PROVE  RInv'
<1>1. /\ results' = {} /\ awaited' = {} /\ mode' = "out"
      /\ lost' = [r \in Requests |-> lost[r] + Held(results, r)]
      /\ UNCHANGED <<created, pending_requests, completions, received>>
  BY DEF SessionFails, ExecutionFails, origin
<1>2. \A r \in Requests : /\ Held(completions', r) = Held(completions, r)
                           /\ Held(results', r) = 0 /\ Held(results, r) \in Nat
                           /\ Held(completions, r) \in Nat
                           /\ received[r] \in Nat /\ lost[r] \in Nat
  BY <1>1, HeldType DEF SInv, ServerTypeOK
<1>3. ResultOnce'
  <2>1. ASSUME NEW r \in Requests
        PROVE  Held(completions', r) + Held(results', r) + received'[r] + lost'[r]
                 = IF r \in created' \ pending_requests' THEN 1 ELSE 0
    <3>1. Held(completions, r) + Held(results, r) + received[r] + lost[r]
            = IF r \in created \ pending_requests THEN 1 ELSE 0
      BY DEF RInv, ResultOnce
    <3>2. lost'[r] = lost[r] + Held(results, r) /\ received'[r] = received[r]
      BY <1>1
    <3> QED  BY <1>1, <1>2, <3>1, <3>2
  <2>2. \A x \in completions' \cup results' : x.tokens = AtLeastOne(MaxTokens[x.request])
    BY <1>1 DEF RInv, ResultOnce
  <2> QED  BY <2>1, <2>2 DEF ResultOnce
<1>4. Delivery'
  BY <1>1 DEF Delivery
<1> QED  BY <1>3, <1>4 DEF RInv

\* run_batch_loop takes what is in the channel.
LEMMA DrainResults ==
    ASSUME IInv, SInv, RInv, Drain, Cardinality(active') <= PrefillBatch
    PROVE  RInv'
<1>1. /\ results' = results \cup completions /\ completions' = {} /\ mode' = "loop"
      /\ UNCHANGED <<created, pending_requests, received, lost, awaited>>
  BY DEF Drain, Drained, vars, origin
<1>2. \A r \in Requests : /\ Held(completions', r) = 0
                           /\ Held(results', r) = Held(completions, r) + Held(results, r)
  <2> TAKE r \in Requests
  <2>1. Held(results', r) = IF Held(completions, r) = 1 \/ Held(results, r) = 1 THEN 1 ELSE 0
    BY <1>1 DEF Held
  <2>2. CASE Held(completions, r) = 1 \/ Held(results, r) = 1
    BY <1>1, <2>1, <2>2, HeldType, HeldLeft DEF RInv, SInv
  <2>3. CASE ~(Held(completions, r) = 1 \/ Held(results, r) = 1)
    <3>1. Held(completions, r) = 0 /\ Held(results, r) = 0
      BY <2>3, HeldType
    <3> QED  BY <1>1, <2>1, <3>1, HeldType
  <2> QED  BY <2>2, <2>3
<1>3. \A r \in Requests : /\ Held(completions, r) \in Nat /\ Held(results, r) \in Nat
                           /\ received[r] \in Nat /\ lost[r] \in Nat
  BY HeldType DEF SInv, ServerTypeOK
<1>4. ResultOnce'
  <2>1. \A x \in completions' \cup results' : x.tokens = AtLeastOne(MaxTokens[x.request])
    BY <1>1 DEF RInv, ResultOnce
  <2>2. ASSUME NEW r \in Requests
        PROVE  Held(completions', r) + Held(results', r) + received'[r] + lost'[r]
                 = IF r \in created' \ pending_requests' THEN 1 ELSE 0
    <3>1. Held(completions, r) + Held(results, r) + received[r] + lost[r]
            = IF r \in created \ pending_requests THEN 1 ELSE 0
      BY DEF RInv, ResultOnce
    <3>2. /\ received'[r] = received[r] /\ lost'[r] = lost[r]
          /\ created' \ pending_requests' = created \ pending_requests
      BY <1>1
    <3>3. /\ Held(completions', r) = 0 /\ Held(results', r) = Held(completions, r) + Held(results, r)
          /\ Held(completions, r) \in Nat /\ Held(results, r) \in Nat
          /\ received[r] \in Nat /\ lost[r] \in Nat
      BY <1>2, <1>3
    <3>4. Held(completions', r) + Held(results', r) + received'[r] + lost'[r]
            = Held(completions, r) + Held(results, r) + received[r] + lost[r]
      BY <3>2, <3>3
    <3> QED  BY <3>1, <3>2, <3>4
  <2> QED  BY <2>1, <2>2 DEF ResultOnce
<1>5. Delivery'
  <2>1. awaited \subseteq Requests
    BY DEF SInv, ServerTypeOK, IInv, TypeOK
  <2>2. ASSUME PrefillBatch <= ChannelCap, NEW r \in awaited \ pending_requests
        PROVE  Held(completions', r) + Held(results', r) = 1
    <3>1. Held(completions, r) + Held(results, r) = 1 /\ r \in Requests
      BY <2>1, <2>2 DEF RInv, Delivery
    <3> QED  BY <1>2, <1>3, <3>1
  <2> QED  BY <1>1, <2>2 DEF Delivery
<1> QED  BY <1>4, <1>5 DEF RInv

\* The caller gets what the loop has collected.
LEMMA ReturnResults ==
    ASSUME IInv, SInv, RInv, LoopEnds, Cardinality(active') <= PrefillBatch
    PROVE  RInv'
<1>1. /\ results' = {} /\ awaited' = {} /\ mode' = "out"
      /\ received' = [r \in Requests |-> received[r] + Held(results, r)]
      /\ UNCHANGED <<created, pending_requests, completions, lost>>
  BY DEF LoopEnds, vars, origin
<1>2. \A r \in Requests : /\ Held(completions', r) = Held(completions, r)
                           /\ Held(results', r) = 0 /\ Held(results, r) \in Nat
                           /\ Held(completions, r) \in Nat
                           /\ received[r] \in Nat /\ lost[r] \in Nat
  BY <1>1, HeldType DEF SInv, ServerTypeOK
<1>3. ResultOnce'
  <2>1. ASSUME NEW r \in Requests
        PROVE  Held(completions', r) + Held(results', r) + received'[r] + lost'[r]
                 = IF r \in created' \ pending_requests' THEN 1 ELSE 0
    <3>1. Held(completions, r) + Held(results, r) + received[r] + lost[r]
            = IF r \in created \ pending_requests THEN 1 ELSE 0
      BY DEF RInv, ResultOnce
    <3>2. received'[r] = received[r] + Held(results, r) /\ lost'[r] = lost[r]
      BY <1>1
    <3> QED  BY <1>1, <1>2, <3>1, <3>2
  <2>2. \A x \in completions' \cup results' : x.tokens = AtLeastOne(MaxTokens[x.request])
    BY <1>1 DEF RInv, ResultOnce
  <2> QED  BY <2>1, <2>2 DEF ResultOnce
<1>4. Delivery'
  BY <1>1 DEF Delivery
<1> QED  BY <1>3, <1>4 DEF RInv

\* A caller takes one result out of the channel.
LEMMA ReceiveResult ==
    ASSUME IInv, SInv, RInv, try_recv_completion, Cardinality(active') <= PrefillBatch
    PROVE  RInv'
<1>1. /\ mode = "out" /\ UNCHANGED <<created, pending_requests, results, mode, lost, awaited>>
  BY DEF try_recv_completion, vars, origin
<1>2. PICK x \in completions : /\ completions' = completions \ {x}
                               /\ received' = [received EXCEPT ![x.request] = @ + 1]
  BY DEF try_recv_completion
<1>3. /\ completions \subseteq Result /\ x.request \in Requests
      /\ received \in [Requests -> Nat] /\ lost \in [Requests -> Nat]
  BY DEF SInv, ServerTypeOK, Result
\* It is the only one of its request: the tokens are determined.
<1>4. \A y \in completions : y.request = x.request => y = x
  <2> SUFFICES ASSUME NEW y \in completions, y.request = x.request PROVE y = x
    OBVIOUS
  <2>1. y.tokens = x.tokens
    BY DEF RInv, ResultOnce
  <2> QED  BY <1>3, <2>1 DEF Result
<1>5. \A r \in Requests :
        /\ r # x.request => Held(completions', r) = Held(completions, r) /\ received'[r] = received[r]
        /\ r = x.request => /\ Held(completions', r) = 0 /\ Held(completions, r) = 1
                            /\ received'[r] = received[r] + 1
  BY <1>2, <1>3, <1>4 DEF Held
<1>6. ResultOnce'
  <2>1. ASSUME NEW r \in Requests
        PROVE  Held(completions', r) + Held(results', r) + received'[r] + lost'[r]
                 = IF r \in created' \ pending_requests' THEN 1 ELSE 0
    <3>1. Held(completions, r) + Held(results, r) + received[r] + lost[r]
            = IF r \in created \ pending_requests THEN 1 ELSE 0
      BY DEF RInv, ResultOnce
    <3>2. Held(results, r) \in Nat /\ received[r] \in Nat /\ lost[r] \in Nat
      BY <1>3, HeldType
    <3>3. Held(results', r) = Held(results, r) /\ lost'[r] = lost[r]
      BY <1>1
    <3> QED  BY <1>1, <1>5, <3>1, <3>2, <3>3
  <2>2. \A y \in completions' \cup results' : y.tokens = AtLeastOne(MaxTokens[y.request])
    BY <1>1, <1>2 DEF RInv, ResultOnce
  <2> QED  BY <2>1, <2>2 DEF ResultOnce
<1>7. Delivery'
  BY <1>1 DEF RInv, Delivery
<1> QED  BY <1>6, <1>7 DEF RInv

\* Every step keeps account of every result.
LEMMA ResultsInductive ==
    ASSUME IInv, IInv', SInv, RInv, [ServerNext]_serverVars
    PROVE  RInv'
<1>0. Cardinality(active') <= PrefillBatch
  BY RoomStep DEF RInv, Delivery
<1>1. ASSUME NEW r \in Requests, enqueue(r) PROVE RInv'
  <2>1. /\ r \notin created /\ created' = created \cup {r} /\ mode = "out" /\ mode' = "out"
        /\ pending_requests' = pending_requests \cup {r} /\ UNCHANGED resultVars
    BY <1>1 DEF enqueue, enqueue_with_priority
  <2>2. created' \ pending_requests' = created \ pending_requests
    BY <2>1
  <2>3. ResultOnce'
    BY <2>1, <2>2 DEF RInv, ResultOnce, resultVars
  <2>4. Delivery'
    BY <1>0, <2>1 DEF RInv, Delivery, resultVars
  <2> QED  BY <2>3, <2>4 DEF RInv
<1>2. CASE step \/ Schedule
  BY <1>0, <1>2, NoResultMoves
     DEF step, next_batch, Schedule, PollSome, Poll, EndPoll, AssignSome, Assign, origin, engineVars
<1>3. CASE Emit \/ EmptyStep
  BY <1>0, <1>3, NoResultMoves DEF Emit, EmitBatch, EmptyStep, ExecutionFails, AfterStep, origin
<1>4. ASSUME NEW s \in todo, SkipSlot(s) \/ ExecuteSlot(s) PROVE RInv'
  BY <1>0, <1>4, NoResultMoves DEF SkipSlot, ExecuteSlot, vars, origin
<1>5. ASSUME NEW s \in todo, SessionFails(s) PROVE RInv'
  BY <1>0, <1>5, FailResults
<1>6. CASE FinishStep \/ Drain \/ LoopEnds \/ try_recv_completion
  BY <1>0, <1>6, FinishResults, DrainResults, ReturnResults, ReceiveResult
<1>7. CASE run_batch_loop
  <2>1. /\ mode = "out" /\ mode' = "loop" /\ results' = {}
        /\ awaited' = IF completions = {} THEN pending_requests ELSE {}
        /\ UNCHANGED <<created, pending_requests, completions, received, lost>>
    BY <1>7 DEF run_batch_loop, vars, origin
  <2>2. results = {}
    BY <2>1 DEF RInv, Delivery
  <2>3. ResultOnce'
    BY <2>1, <2>2 DEF RInv, ResultOnce
  <2>4. Delivery'
    BY <1>0, <2>1 DEF Delivery
  <2> QED  BY <2>3, <2>4 DEF RInv
<1>8. CASE UNCHANGED serverVars
  BY <1>0, <1>8, NoResultMoves DEF serverVars, vars, origin, engineVars
<1> QED  BY <1>1, <1>2, <1>3, <1>4, <1>5, <1>6, <1>7, <1>8 DEF ServerNext, CallStep, SlotStep

\* The results are accounted for in every reachable state.
LEMMA ResultsInvariance == ServerSpec => [](SInv /\ RInv)
<1>1. ServerInit => RInv
  <2> SUFFICES ASSUME ServerInit PROVE RInv
    OBVIOUS
  <2>1. /\ created = {} /\ completions = {} /\ results = {} /\ awaited = {} /\ active = {}
        /\ \A r \in Requests : received[r] = 0 /\ lost[r] = 0
    BY DEF ServerInit, Init
  <2>2. Cardinality(active) = 0 /\ PrefillBatch \in Nat
    BY <2>1, FS_EmptySet
  <2> QED  BY <2>1, <2>2, HeldType DEF RInv, ResultOnce, Delivery
<1>2. IInv /\ SInv /\ IInv' /\ SInv' /\ RInv /\ [ServerNext]_serverVars => RInv'
  BY ResultsInductive
<1> QED  BY <1>1, <1>2, ServerInvariance, PTL DEF ServerSpec

\* Every request that has left the engine's map has exactly one result: still
\* in the channel, with run_batch_loop, received by a caller, or dropped; one
\* that has not left has none.  It has max_tokens tokens (one if none were
\* asked for).
THEOREM ResultsAccountedFor == ServerSpec => []ResultOnce
<1>1. RInv => ResultOnce
  BY DEF RInv
<1> QED  BY <1>1, ResultsInvariance, PTL

\* No result of a loop is dropped when the channel was empty at its start and
\* is as large as a batch, however many requests and batches the loop runs.
THEOREM LoopDeliversAll == ServerSpec => []LoopDelivers
<1>1. SInv /\ RInv => LoopDelivers
  <2> SUFFICES ASSUME RInv, PrefillBatch <= ChannelCap, mode = "loop",
                      NEW r \in awaited \ pending_requests
               PROVE  Held(results, r) = 1
    BY DEF LoopDelivers
  <2>1. completions = {} /\ Held(completions, r) + Held(results, r) = 1
    BY DEF RInv, Delivery
  <2> QED  BY <2>1, HeldType
<1> QED  BY <1>1, ResultsInvariance, PTL
=============================================================================
