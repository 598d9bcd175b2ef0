-------------------------- MODULE Scheduler_proofs --------------------------
(* The invariants of Scheduler, proved for every set of requests, every    *)
(* number of pages and every batch size.                                    *)
EXTENDS Scheduler, TLAPS, FiniteSetTheorems

\* A request that has no slot field set is not active, and conversely.
SlotField ==
    /\ IsFiniteSet(active)
    /\ \A r \in Requests : r \notin active => slot[r] = NoSlot

\* The SavedRequests the scheduler lists are copies of the caller's, the batch
\* under execution is the busy slots, and the prefill loop has free slots
\* enough for every request without one.
Calls ==
    /\ preempted \subseteq saved
    /\ at = "executing" => batch = [s \in BusySlots |-> slots[s].request]
    /\ at = "assign" => Cardinality(SlotlessActive) <= Cardinality(FreeSlots)

\* What is left of the priority value after the boosts so far.
Remaining(count, value, from) ==
    LET k == count - MaxPreemptions
    IN  k > 0 => /\ Boost * (k * (k + 1)) < 2 * from
                 /\ value = 0 \/ 2 * value + Boost * (k * (k + 1)) <= 2 * from

Starvation ==
    /\ \A r \in Requests \ created : starvation_counters[r] = 0
    /\ \A sv \in saved : sv.priority = priority[sv.request]
    /\ \A r \in Requests : /\ priority[r] <= asked[r]
                           /\ Remaining(starvation_counters[r], priority[r], asked[r])

IInv ==
    /\ TypeOK /\ SlotField /\ Calls
    /\ PagesOwnedOnce /\ SlotsMatchActive /\ NoRequestLost /\ Starvation

USE SchedulerAssumption
-----------------------------------------------------------------------------
(* Arithmetic and the operators.                                            *)

\* The boost of several cycles is a natural number.
LEMMA ProductNat == \A a, b \in Nat : a * b \in Nat
  OBVIOUS

\* A boosted priority is a priority and not above the one before.
LEMMA BoostedType ==
    ASSUME TypeOK, NEW r \in Requests
    PROVE  Boosted(r) \in 0 .. Lowest /\ Boosted(r) <= priority[r]
<1> DEFINE cycles == starvation_counters[r] - MaxPreemptions + 1
<1>1. starvation_counters[r] \in Nat /\ priority[r] \in 0 .. Lowest /\ cycles \in Int
  BY DEF TypeOK
<1>2. CASE r \notin active \/ cycles <= 0
  BY <1>1, <1>2 DEF Boosted
<1>3. CASE ~(r \notin active \/ cycles <= 0)
  <2>1. cycles * Boost \in Nat
    BY <1>1, <1>3, ProductNat
  <2> DEFINE b == cycles * Boost
  <2>2. Boosted(r) = IF priority[r] > b THEN priority[r] - b ELSE 0
    BY <1>3 DEF Boosted
  <2>3. b \in Nat
    BY <2>1
  <2> HIDE DEF b, cycles
  <2> QED  BY <1>1, <2>2, <2>3
<1> QED  BY <1>2, <1>3

\* The slots are a function on 1 .. Len(slots).
LEMMA SlotsFunction ==
    ASSUME TypeOK
    PROVE  /\ Len(slots) \in Nat /\ DOMAIN slots = 1 .. Len(slots)
           /\ \A s \in DOMAIN slots : slots[s] \in Slot
           /\ NoSlot \notin DOMAIN slots
  BY DEF TypeOK, NoSlot

\* One more token leaves the rest of a slot as it is.
LEMMA TokenAdded ==
    \A x \in Slot : LET y == [x EXCEPT !.tokens = @ + 1]
                    IN  y \in Slot /\ y.request = x.request /\ y.pages = x.pages
  BY DEF Slot

\* Slot::new makes a slot.
LEMMA EmptySlotType == EmptySlot \in Slot
  BY DEF EmptySlot, Slot

\* A function on an initial segment with values in Slot is a sequence.
LEMMA SlotsSeq ==
    ASSUME NEW n \in Nat, NEW f \in [1 .. n -> Slot]
    PROVE  f \in Seq(Slot)
  OBVIOUS

\* Replacing one slot.
LEMMA SlotsUpdate ==
    ASSUME TypeOK, NEW s \in DOMAIN slots, NEW v \in Slot
    PROVE  [slots EXCEPT ![s] = v] \in Seq(Slot)
<1>1. slots \in [1 .. Len(slots) -> Slot] /\ Len(slots) \in Nat
  BY DEF TypeOK
<1>2. [slots EXCEPT ![s] = v] \in [1 .. Len(slots) -> Slot]
  BY <1>1
<1> QED  BY <1>1, <1>2, SlotsSeq

\* The free slots can be counted.
LEMMA FreeSlotsFinite ==
    ASSUME TypeOK
    PROVE  IsFiniteSet(FreeSlots)
<1>1. IsFiniteSet(1 .. Len(slots))
  BY SlotsFunction, FS_Interval
<1>2. FreeSlots \subseteq 1 .. Len(slots)
  BY SlotsFunction DEF FreeSlots
<1> QED  BY <1>1, <1>2, FS_Subset

-----------------------------------------------------------------------------
(* The type invariant.                                                      *)

\* No step leaves the types.
LEMMA TypeStep ==
    ASSUME IInv, [Next]_vars
    PROVE  TypeOK'
<1> USE DEF IInv
<1> USE SlotsFunction, EmptySlotType
<1>1. ASSUME NEW r \in Requests, NEW p \in Priorities, enqueue_with_priority(r, p)
      PROVE  TypeOK'
  BY <1>1 DEF TypeOK, enqueue_with_priority, Stamped, configVars
<1>2. CASE configure_for_hardware
  BY <1>2 DEF TypeOK, configure_for_hardware, origin
<1>3. ASSUME NEW b \in BOOLEAN, set_preemption_enabled(b) PROVE TypeOK'
  BY <1>3 DEF TypeOK, set_preemption_enabled, origin
<1>4. CASE next_batch
  BY <1>4 DEF TypeOK, next_batch, origin, configVars
<1>5. CASE PollSome
  BY <1>5 DEF TypeOK, PollSome, Poll, origin, configVars
<1>6. CASE EndPoll
  <2> DEFINE n == Cardinality(SlotlessActive) - Cardinality(FreeSlots)
  <2>1. Cardinality(SlotlessActive) \in Nat /\ Cardinality(FreeSlots) \in Nat
    <3>1. IsFiniteSet(SlotlessActive)
      BY FS_Subset DEF SlotlessActive, SlotField
    <3>2. IsFiniteSet(FreeSlots)
      BY FreeSlotsFinite
    <3> QED  BY <3>1, <3>2, FS_CardinalityType
  <2>2. slots' \in Seq(Slot)
    <3>1. n \in Int
      BY <2>1
    <3> HIDE DEF n
    <3>2. slots' = add_slots(n)
      BY <1>6 DEF EndPoll, n
    <3>3. CASE n <= 0
      BY <3>1, <3>2, <3>3 DEF add_slots, TypeOK
    <3>4. CASE n > 0
      <4>1. slots' \in [1 .. Len(slots) + n -> Slot]
        BY <3>1, <3>2, <3>4 DEF add_slots
      <4> QED  BY <3>1, <3>4, <4>1, SlotsSeq
    <3> QED  BY <3>1, <3>3, <3>4
  <2> QED  BY <1>6, <2>2 DEF TypeOK, EndPoll, origin, configVars
<1>7. CASE AssignSome
  <2>1. PICK r \in active, s \in DOMAIN slots : Assign(r, s)
    BY <1>7 DEF AssignSome
  <2>2. PICK pages \in IF Runs = {} THEN {slots[s].pages} ELSE allocate_pages :
            /\ slots' = [slots EXCEPT ![s] = [request |-> r, tokens |-> 0, pages |-> pages]]
            /\ free_bitmap' = free_bitmap \ pages
    BY <2>1 DEF Assign
  <2>3. pages \subseteq Pages
    <3>1. CASE Runs = {}
      BY <2>2, <3>1 DEF Slot
    <3>2. CASE Runs # {}
      <4>1. pages \in allocate_pages
        BY <2>2, <3>2
      <4>2. PICK p \in Runs : pages = p .. p + PagesPerSlot - 1
        BY <4>1 DEF allocate_pages
      <4>3. pages \subseteq free_bitmap
        BY <4>2 DEF Runs
      <4> QED  BY <4>3 DEF TypeOK
    <3> QED  BY <3>1, <3>2
  <2>4. [request |-> r, tokens |-> 0, pages |-> pages] \in Slot
    BY <2>3 DEF Slot, TypeOK
  <2>5. slots' \in Seq(Slot)
    BY <2>2, <2>4, SlotsUpdate
  <2>6. slot' \in [Requests -> Nat]
    <3>1. s \in Nat
      OBVIOUS
    <3> QED  BY <2>1, <3>1 DEF Assign, TypeOK
  <2> QED  BY <2>1, <2>2, <2>5, <2>6 DEF TypeOK, Assign, origin, configVars
<1>8. CASE EmitBatch
  BY <1>8 DEF TypeOK, EmitBatch, origin, configVars
<1>9. CASE ExecutionFails
  BY <1>9 DEF TypeOK, ExecutionFails, origin, configVars
<1>10. CASE process_results
  <2>1. \A s \in DOMAIN slots : AfterResults(s) \in Slot
    <3> TAKE s \in DOMAIN slots
    <3> QED  BY TokenAdded DEF AfterResults
  <2>2. slots' \in Seq(Slot)
    <3>1. slots' \in [1 .. Len(slots) -> Slot]
      BY <1>10, <2>1 DEF process_results
    <3> QED  BY <3>1, SlotsSeq
  <2>3. free_bitmap' \subseteq Pages
    <3>1. \A s \in Completed : slots[s].pages \subseteq Pages
      BY DEF Completed, Slot
    <3> QED  BY <1>10, <3>1 DEF process_results, TypeOK
  <2>4. ended' \subseteq Requests
    BY <1>10 DEF process_results, Completed, Completes, TypeOK
  <2>5. slot' \in [Requests -> Nat]
    BY <1>10 DEF process_results, TypeOK, NoSlot
  <2>6. active' \subseteq Requests
    BY <1>10 DEF process_results, TypeOK
  <2> QED  BY <1>10, <2>2, <2>3, <2>4, <2>5, <2>6 DEF TypeOK, process_results, origin, configVars
<1>11. ASSUME NEW r \in active, preempt_lowest(r) PROVE TypeOK'
  <2>0. r \in Requests
    BY DEF TypeOK
  <2>1. priority' \in [Requests -> 0 .. Lowest]
    BY <1>11, BoostedType DEF preempt_lowest, TypeOK
  <2>2. CASE Evict(r)
    <3>1. slot[r] \in DOMAIN slots
      BY <1>11 DEF preempt_lowest, SlotsMatchActive, SlotlessActive
    <3>2. Saved(r) \in SavedRequest
      BY <2>0, <3>1, BoostedType DEF Saved, SavedRequest, Slot
    <3>3. slots' \in Seq(Slot)
      BY <2>2, <3>1, EmptySlotType, SlotsUpdate DEF Evict, ClearSlot
    <3>4. preempted' \subseteq SavedRequest /\ saved' \subseteq SavedRequest
      BY <2>2, <3>2 DEF Evict, TypeOK
    <3>5. slot' \in [Requests -> Nat] /\ starvation_counters' \in [Requests -> Nat]
      <4>1. slot \in [Requests -> Nat] /\ starvation_counters \in [Requests -> Nat]
        BY DEF TypeOK
      <4>2. NoSlot \in Nat /\ starvation_counters[r] + 1 \in Nat
        BY <2>0, <4>1 DEF NoSlot
      <4>3. slot' = [slot EXCEPT ![r] = NoSlot]
        BY <2>2 DEF Evict
      <4>4. starvation_counters' = [starvation_counters EXCEPT ![r] = @ + 1]
        BY <2>2 DEF Evict
      <4>5. slot' \in [Requests -> Nat]
        BY <2>0, <4>1, <4>2, <4>3
      <4> QED  BY <2>0, <4>1, <4>2, <4>4, <4>5
    <3>6. active' \subseteq Requests
      BY <2>2 DEF Evict, TypeOK
    <3> QED
      BY <1>11, <2>1, <3>3, <3>4, <3>5, <3>6 DEF TypeOK, preempt_lowest, origin, configVars
  <2>3. CASE UNCHANGED <<active, slots, slot, starvation_counters, preempted, saved>>
    BY <1>11, <2>1, <2>3 DEF TypeOK, preempt_lowest, origin, configVars
  <2> QED  BY <1>11, <2>2, <2>3 DEF preempt_lowest
<1>12. ASSUME NEW sv \in saved, resume(sv) PROVE TypeOK'
  <2>1. sv \in SavedRequest
    BY DEF TypeOK
  <2>2. [request |-> sv.request, tokens |-> sv.tokens, pages |-> sv.pages] \in Slot
    BY <2>1 DEF SavedRequest, Slot
  <2>3. sv.request \in Requests /\ sv.priority \in 0 .. Lowest
    BY <2>1 DEF SavedRequest
  <2>4. sv.request \in created
    BY DEF NoRequestLost
  <2>5. slots' \in Seq(Slot) /\ slot' \in [Requests -> Nat]
        /\ active' \subseteq Requests /\ queue' \subseteq Requests
    <3>1. CASE \E s \in DOMAIN slots :
            /\ FirstFree(s)
            /\ slots' = [slots EXCEPT ![s] = [request |-> sv.request, tokens |-> sv.tokens,
                                              pages |-> sv.pages]]
            /\ slot' = [slot EXCEPT ![sv.request] = s]
            /\ active' = active \cup {sv.request}
            /\ UNCHANGED queue
      <4>1. PICK s \in DOMAIN slots :
              /\ slots' = [slots EXCEPT ![s] = [request |-> sv.request, tokens |-> sv.tokens,
                                              pages |-> sv.pages]]
              /\ slot' = [slot EXCEPT ![sv.request] = s]
        BY <3>1
      <4>2. slots' \in Seq(Slot)
        BY <4>1, <2>2, SlotsUpdate
      <4>3. slot' \in [Requests -> Nat]
        BY <4>1, <2>3 DEF TypeOK
      <4> QED  BY <3>1, <4>2, <4>3, <2>3 DEF TypeOK
    <3>2. CASE /\ queue' = queue \cup {sv.request}
               /\ UNCHANGED <<active, slots, slot>>
      BY <3>2, <2>3 DEF TypeOK
    <3> QED  BY <1>12, <3>1, <3>2 DEF resume
  <2>6. priority' \in [Requests -> 0 .. Lowest]
    BY <1>12, <2>3 DEF resume, TypeOK
  <2>7. preempted' \subseteq SavedRequest /\ saved' \subseteq SavedRequest
    BY <1>12 DEF resume, TypeOK
  <2>8. created' \subseteq Requests /\ older' \subseteq created' \X created'
    BY <1>12, <2>4 DEF resume, Stamped, TypeOK
  <2> QED  BY <1>12, <2>5, <2>6, <2>7, <2>8 DEF TypeOK, resume, configVars
<1>13. CASE drain_all
  <2>1. slots' \in Seq(Slot)
    <3>1. slots' \in [1 .. Len(slots) -> Slot]
      BY <1>13 DEF drain_all
    <3> QED  BY <3>1, SlotsSeq
  <2>2. free_bitmap' \subseteq Pages
    <3>1. \A s \in BusySlots : slots[s].pages \subseteq Pages
      BY DEF BusySlots, Slot
    <3>2. free_bitmap \subseteq Pages
      BY DEF TypeOK
    <3> QED  BY <1>13, <3>1, <3>2 DEF drain_all
  <2>3. slot' \in [Requests -> Nat] /\ starvation_counters' \in [Requests -> Nat]
    BY <1>13 DEF drain_all, NoSlot
  <2> QED  BY <1>13, <2>1, <2>2, <2>3 DEF TypeOK, drain_all, KeptByDrain, origin, configVars
<1>14. CASE UNCHANGED vars
  BY <1>14 DEF TypeOK, vars, origin, configVars
<1> QED
  BY <1>1, <1>2, <1>3, <1>4, <1>5, <1>6, <1>7, <1>8, <1>9, <1>10, <1>11, <1>12, <1>13, <1>14
  DEF Next
-----------------------------------------------------------------------------
(* Every KV page has one owner.                                             *)

\* What the four actions that move pages do to the owners.
LEMMA PagesStep ==
    ASSUME IInv, [Next]_vars
    PROVE  PagesOwnedOnce'
<1> USE DEF IInv
<1> USE SlotsFunction
<1>1. CASE UNCHANGED <<slots, free_bitmap, saved>>
  BY <1>1 DEF PagesOwnedOnce
<1>2. CASE EndPoll
  <2> DEFINE n == Cardinality(SlotlessActive) - Cardinality(FreeSlots)
  <2>1. n \in Int
    <3>1. IsFiniteSet(SlotlessActive)
      BY FS_Subset DEF SlotlessActive, SlotField
    <3> QED  BY <3>1, FreeSlotsFinite, FS_CardinalityType
  <2>2. slots' = add_slots(n) /\ UNCHANGED <<free_bitmap, saved>>
    BY <1>2 DEF EndPoll
  <2> HIDE DEF n
  <2>3. CASE n <= 0
    BY <2>1, <2>2, <2>3 DEF add_slots, PagesOwnedOnce
  <2>4. CASE n > 0
    <3>1. DOMAIN slots' = 1 .. Len(slots) + n
      BY <2>1, <2>2, <2>4 DEF add_slots
    <3>2. \A s \in DOMAIN slots' :
            \/ s \in DOMAIN slots /\ slots'[s].pages = slots[s].pages
            \/ s \notin DOMAIN slots /\ slots'[s].pages = {}
      BY <2>1, <2>2, <2>4 DEF add_slots, EmptySlot
    <3> QED  BY <2>2, <3>1, <3>2 DEF PagesOwnedOnce
  <2> QED  BY <2>1, <2>3, <2>4
<1>3. CASE AssignSome
  <2>1. PICK r \in active, s \in DOMAIN slots : Assign(r, s)
    BY <1>3 DEF AssignSome
  <2>2. PICK pages \in IF Runs = {} THEN {slots[s].pages} ELSE allocate_pages :
            /\ slots' = [slots EXCEPT ![s] = [request |-> r, tokens |-> 0, pages |-> pages]]
            /\ free_bitmap' = free_bitmap \ pages
    BY <2>1 DEF Assign
  <2>3. pages = slots[s].pages \/ pages \subseteq free_bitmap
    BY <2>2 DEF allocate_pages, Runs
  <2>4. /\ DOMAIN slots' = DOMAIN slots
        /\ slots'[s].pages = pages
        /\ \A t \in DOMAIN slots : t # s => slots'[t].pages = slots[t].pages
    BY <2>2
  <2>5. UNCHANGED saved
    BY <2>1 DEF Assign
  <2> QED  BY <2>2, <2>3, <2>4, <2>5 DEF PagesOwnedOnce
<1>4. CASE process_results
  <2>1. \A s \in DOMAIN slots :
            \/ s \in Completed /\ slots'[s].pages = {}
            \/ s \notin Completed /\ slots'[s].pages = slots[s].pages
    BY <1>4, TokenAdded DEF process_results, AfterResults, Completed, EmptySlot
  <2>2. DOMAIN slots' = DOMAIN slots /\ UNCHANGED saved
    BY <1>4 DEF process_results
  <2>3. free_bitmap' = free_bitmap \cup UNION {slots[s].pages : s \in Completed}
    BY <1>4 DEF process_results
  <2>4. Completed \subseteq DOMAIN slots
    BY DEF Completed
  <2> QED  BY <2>1, <2>2, <2>3, <2>4 DEF PagesOwnedOnce
<1>5. ASSUME NEW r \in active, preempt_lowest(r) PROVE PagesOwnedOnce'
  <2>1. CASE Evict(r)
    <3>1. slot[r] \in DOMAIN slots
      BY <1>5 DEF preempt_lowest, SlotsMatchActive, SlotlessActive
    <3>2. /\ DOMAIN slots' = DOMAIN slots
          /\ slots'[slot[r]].pages = {}
          /\ \A t \in DOMAIN slots : t # slot[r] => slots'[t].pages = slots[t].pages
      BY <2>1, <3>1 DEF Evict, ClearSlot, EmptySlot
    <3>3. saved' = saved \cup {Saved(r)} /\ Saved(r).pages = slots[slot[r]].pages
      BY <2>1 DEF Evict, Saved
    <3>4. UNCHANGED free_bitmap
      BY <1>5 DEF preempt_lowest
    <3> QED  BY <3>1, <3>2, <3>3, <3>4 DEF PagesOwnedOnce
  <2>2. CASE UNCHANGED <<active, slots, slot, starvation_counters, preempted, saved>>
    BY <1>5, <2>2 DEF preempt_lowest, PagesOwnedOnce
  <2> QED  BY <1>5, <2>1, <2>2 DEF preempt_lowest
<1>6. ASSUME NEW sv \in saved, resume(sv) PROVE PagesOwnedOnce'
  <2>1. saved' = saved \ {sv} /\ UNCHANGED free_bitmap
    BY <1>6 DEF resume
  <2>2. CASE UNCHANGED slots
    BY <2>1, <2>2 DEF PagesOwnedOnce
  <2>3. CASE \E s \in DOMAIN slots :
            slots' = [slots EXCEPT ![s] = [request |-> sv.request, tokens |-> sv.tokens,
                                           pages |-> sv.pages]]
    <3>1. PICK s \in DOMAIN slots :
            slots' = [slots EXCEPT ![s] = [request |-> sv.request, tokens |-> sv.tokens,
                                           pages |-> sv.pages]]
      BY <2>3
    <3>2. /\ DOMAIN slots' = DOMAIN slots
          /\ slots'[s].pages = sv.pages
          /\ \A t \in DOMAIN slots : t # s => slots'[t].pages = slots[t].pages
      BY <3>1
    <3> QED  BY <2>1, <3>2 DEF PagesOwnedOnce
  <2> QED  BY <1>6, <2>2, <2>3 DEF resume
<1>7. CASE drain_all
  <2>1. \A s \in DOMAIN slots :
            \/ s \in BusySlots /\ slots'[s].pages = {}
            \/ s \notin BusySlots /\ slots'[s].pages = slots[s].pages
    BY <1>7 DEF drain_all, BusySlots, FreeSlots, EmptySlot
  <2>2. DOMAIN slots' = DOMAIN slots
    BY <1>7 DEF drain_all
  <2>3. saved' = saved
    BY <1>7 DEF drain_all, Calls
  <2>4. free_bitmap' = free_bitmap \cup UNION {slots[s].pages : s \in BusySlots}
    BY <1>7 DEF drain_all
  <2>5. BusySlots \subseteq DOMAIN slots
    BY DEF BusySlots
  <2> QED  BY <2>1, <2>2, <2>3, <2>4, <2>5 DEF PagesOwnedOnce
<1>8. ASSUME \/ \E r \in Requests, p \in Priorities : enqueue_with_priority(r, p)
             \/ configure_for_hardware
             \/ \E b \in BOOLEAN : set_preemption_enabled(b)
             \/ next_batch \/ PollSome \/ EmitBatch \/ ExecutionFails \/ UNCHANGED vars
      PROVE  UNCHANGED <<slots, free_bitmap, saved>>
  BY <1>8 DEF enqueue_with_priority, configure_for_hardware, set_preemption_enabled, next_batch,
              PollSome, Poll, EmitBatch, ExecutionFails, vars
<1> QED  BY <1>1, <1>2, <1>3, <1>4, <1>5, <1>6, <1>7, <1>8 DEF Next
-----------------------------------------------------------------------------
(* Slots and active requests.                                               *)

\* The prefill loop stops only when every active request has a slot.
LEMMA PrefillComplete ==
    ASSUME IInv, EmitBatch
    PROVE  SlotlessActive = {}
<1>1. IsFiniteSet(SlotlessActive)
  BY FS_Subset DEF SlotlessActive, SlotField, IInv
<1>2. CASE FreeSlots = {}
  <2>1. Cardinality(SlotlessActive) <= Cardinality(FreeSlots)
    BY DEF IInv, Calls, EmitBatch
  <2>2. Cardinality(FreeSlots) = 0
    BY <1>2, FS_EmptySet
  <2>3. Cardinality(SlotlessActive) \in Nat
    BY <1>1, FS_CardinalityType
  <2> QED  BY <1>1, <2>1, <2>2, <2>3, FS_EmptySet
<1> QED  BY <1>2 DEF EmitBatch

\* What process_results does to a slot.
LEMMA ResultsSlots ==
    ASSUME IInv, process_results
    PROVE  /\ DOMAIN slots' = DOMAIN slots
           /\ \A s \in DOMAIN slots :
                /\ s \in Completed <=> Completes(s)
                /\ Completes(s) => slots'[s].request = NoRequest
                /\ ~Completes(s) => slots'[s].request = slots[s].request
           /\ active' = {r \in active : \E s \in DOMAIN slots : slots'[s].request = r}
           /\ slot' = [r \in Requests |-> IF r \in active' THEN slot[r] ELSE NoSlot]
<1>1. TypeOK
  BY DEF IInv
<1> USE <1>1, SlotsFunction
<1>2. slots' = [s \in DOMAIN slots |-> AfterResults(s)]
  BY DEF process_results
<1>3. \A s \in DOMAIN slots :
        /\ Completes(s) => AfterResults(s).request = NoRequest
        /\ ~Completes(s) => AfterResults(s).request = slots[s].request
  BY TokenAdded DEF AfterResults, EmptySlot
<1> QED  BY <1>2, <1>3 DEF process_results, Completed

\* Slots and active requests keep pointing to each other.
LEMMA SlotsStep ==
    ASSUME IInv, [Next]_vars
    PROVE  SlotsMatchActive' /\ SlotField'
<1> USE DEF IInv
<1> USE SlotsFunction
<1> DEFINE I == SlotsMatchActive' /\ SlotField'
<1>1. ASSUME UNCHANGED <<slots, slot, active>>,
             at' \in {"idle", "executing"} => SlotlessActive = {}
      PROVE  I
  BY <1>1 DEF SlotsMatchActive, SlotField, SlotlessActive, BusySlots, FreeSlots, is_free
<1>2. ASSUME NEW r \in queue, Poll(r) PROVE I
  <2>1. /\ UNCHANGED <<slots, slot>> /\ active' = active \cup {r} /\ at' = "poll"
    BY <1>2 DEF Poll
  <2>2. slot[r] = NoSlot
    BY DEF SlotField, NoRequestLost, TypeOK
  <2>3. IsFiniteSet(active')
    BY <2>1, FS_AddElement DEF SlotField
  <2> QED  BY <2>1, <2>2, <2>3
           DEF SlotsMatchActive, SlotField, SlotlessActive, BusySlots, FreeSlots, is_free
<1>3. CASE EndPoll
  <2> DEFINE n == Cardinality(SlotlessActive) - Cardinality(FreeSlots)
  <2>1. n \in Int
    <3>1. IsFiniteSet(SlotlessActive)
      BY FS_Subset DEF SlotlessActive, SlotField
    <3> QED  BY <3>1, FreeSlotsFinite, FS_CardinalityType
  <2>2. slots' = add_slots(n) /\ UNCHANGED <<slot, active>> /\ at' = "assign"
    BY <1>3 DEF EndPoll
  <2> HIDE DEF n
  <2>3. /\ DOMAIN slots \subseteq DOMAIN slots'
        /\ \A s \in DOMAIN slots' :
            \/ s \in DOMAIN slots /\ slots'[s] = slots[s]
            \/ s \notin DOMAIN slots /\ slots'[s].request = NoRequest
    <3>1. CASE n <= 0
      BY <2>1, <2>2, <3>1 DEF add_slots
    <3>2. CASE n > 0
      BY <2>1, <2>2, <3>2 DEF add_slots, EmptySlot
    <3> QED  BY <2>1, <3>1, <3>2
  <2> QED  BY <2>2, <2>3
           DEF SlotsMatchActive, SlotField, SlotlessActive, BusySlots, FreeSlots, is_free
<1>4. ASSUME NEW r \in active, NEW s \in DOMAIN slots, Assign(r, s) PROVE I
  <2>1. /\ DOMAIN slots' = DOMAIN slots
        /\ slots'[s].request = r
        /\ \A t \in DOMAIN slots : t # s => slots'[t] = slots[t]
        /\ slot' = [slot EXCEPT ![r] = s]
        /\ UNCHANGED <<active, at>> /\ at = "assign"
        /\ slots[s].request = NoRequest /\ slot[r] = NoSlot
    BY <1>4 DEF Assign, FirstFree, is_free, SlotlessActive
  <2>2. slot \in [Requests -> Nat] /\ r \in Requests /\ NoRequest \notin Requests
    BY DEF TypeOK
  <2>3. \A q \in Requests : slot'[q] = IF q = r THEN s ELSE slot[q]
    BY <2>1, <2>2
  <2>4. active \subseteq Requests /\ \A t \in BusySlots : slots[t].request \in active
    BY DEF TypeOK, SlotsMatchActive
  <2>5. SlotField'
    BY <2>1, <2>3 DEF SlotField
  <2> QED  BY <2>1, <2>2, <2>3, <2>4, <2>5
           DEF SlotsMatchActive, SlotlessActive, BusySlots, FreeSlots, is_free
<1>5. CASE process_results
  <2>1. NoRequest \notin active
    BY DEF TypeOK
  <2>2. active' \subseteq active /\ active \subseteq Requests
    BY <1>5, ResultsSlots DEF TypeOK
  <2>3. SlotField'
    <3>1. IsFiniteSet(active')
      BY <2>2, FS_Subset DEF SlotField
    <3> QED  BY <1>5, <3>1, ResultsSlots DEF SlotField
  <2>4. \A s \in BusySlots' : slots'[s].request \in active' /\ slot'[slots'[s].request] = s
    <3> SUFFICES ASSUME NEW s \in BusySlots'
                 PROVE  slots'[s].request \in active' /\ slot'[slots'[s].request] = s
      OBVIOUS
    <3>1. s \in DOMAIN slots /\ slots'[s].request # NoRequest
      BY <1>5, ResultsSlots DEF BusySlots, FreeSlots, is_free
    <3>2. slots'[s].request = slots[s].request /\ s \in BusySlots
      BY <1>5, <3>1, ResultsSlots DEF BusySlots, FreeSlots, is_free
    <3>3. slots[s].request \in active /\ slot[slots[s].request] = s
      BY <3>2 DEF SlotsMatchActive
    <3>4. slots[s].request \in active'
      BY <1>5, <3>1, <3>2, <3>3, ResultsSlots
    <3> QED  BY <1>5, <2>2, <3>2, <3>3, <3>4, ResultsSlots
  <2>5. \A r \in active' : slot'[r] \in DOMAIN slots' /\ slots'[slot'[r]].request = r
                          /\ slot'[r] # NoSlot
    <3> SUFFICES ASSUME NEW r \in active'
                 PROVE  slot'[r] \in DOMAIN slots' /\ slots'[slot'[r]].request = r
                        /\ slot'[r] # NoSlot
      OBVIOUS
    <3>1. PICK s \in DOMAIN slots : slots'[s].request = r
      BY <1>5, ResultsSlots
    <3>2. s \in BusySlots'
      BY <1>5, <2>1, <2>2, <3>1, ResultsSlots DEF BusySlots, FreeSlots, is_free
    <3>3. slot'[r] = s
      BY <2>4, <3>1, <3>2
    <3> QED  BY <1>5, <3>1, <3>3, ResultsSlots
  <2> QED  BY <2>3, <2>4, <2>5 DEF SlotsMatchActive, SlotlessActive
<1>6. ASSUME NEW r \in active, preempt_lowest(r), Evict(r) PROVE I
  <2>1. slot[r] \in DOMAIN slots /\ slots[slot[r]].request = r /\ r \in Requests
    BY <1>6 DEF preempt_lowest, SlotsMatchActive, SlotlessActive, TypeOK
  <2>2. /\ DOMAIN slots' = DOMAIN slots
        /\ slots'[slot[r]].request = NoRequest
        /\ \A t \in DOMAIN slots : t # slot[r] => slots'[t] = slots[t]
        /\ active' = active \ {r}
        /\ \A q \in Requests : slot'[q] = IF q = r THEN NoSlot ELSE slot[q]
        /\ at = "idle" /\ at' = "idle"
    BY <1>6, <2>1 DEF Evict, ClearSlot, EmptySlot, preempt_lowest, TypeOK
  <2>3. active \subseteq Requests
    BY DEF TypeOK
  <2>4. SlotField'
    <3>1. IsFiniteSet(active')
      BY <2>2, FS_Subset DEF SlotField
    <3> QED  BY <2>2, <3>1 DEF SlotField
  <2> QED  BY <2>1, <2>2, <2>3, <2>4
           DEF SlotsMatchActive, SlotlessActive, BusySlots, FreeSlots, is_free
<1>7. ASSUME NEW sv \in saved, resume(sv), UNCHANGED <<active, slots, slot>> PROVE I
  BY <1>7 DEF resume, SlotsMatchActive, SlotField, SlotlessActive, BusySlots, FreeSlots, is_free
<1>8. ASSUME NEW sv \in saved, resume(sv), NEW s \in DOMAIN slots, FirstFree(s),
             slots' = [slots EXCEPT ![s] = [request |-> sv.request, tokens |-> sv.tokens,
                                            pages |-> sv.pages]],
             slot' = [slot EXCEPT ![sv.request] = s],
             active' = active \cup {sv.request}
      PROVE  I
  <2> DEFINE r == sv.request
  <2>1. r \in Requests /\ r \notin active /\ active \subseteq Requests
    BY DEF TypeOK, SavedRequest, NoRequestLost
  <2>2. /\ DOMAIN slots' = DOMAIN slots
        /\ slots'[s].request = r
        /\ \A t \in DOMAIN slots : t # s => slots'[t] = slots[t]
        /\ \A q \in Requests : slot'[q] = IF q = r THEN s ELSE slot[q]
        /\ at = "idle" /\ at' = "idle"
        /\ slots[s].request = NoRequest
    BY <1>8, <2>1 DEF resume, FirstFree, is_free, TypeOK
  <2>3. SlotField'
    <3>1. IsFiniteSet(active')
      BY <1>8, FS_AddElement DEF SlotField
    <3> QED  BY <1>8, <2>2, <3>1 DEF SlotField
  <2>4. active' = active \cup {r} /\ s # NoSlot /\ NoRequest \notin Requests
    BY <1>8
  <2> HIDE DEF r
  <2> QED  BY <2>1, <2>2, <2>3, <2>4
           DEF SlotsMatchActive, SlotlessActive, BusySlots, FreeSlots, is_free
<1>9. CASE drain_all
  <2>1. /\ DOMAIN slots' = DOMAIN slots
        /\ \A s \in DOMAIN slots : slots'[s].request = NoRequest
        /\ active' = {} /\ slot' = [q \in Requests |-> NoSlot]
    BY <1>9 DEF drain_all, KeptByDrain, is_free, EmptySlot
  <2> QED  BY <2>1, FS_EmptySet
           DEF SlotsMatchActive, SlotField, SlotlessActive, BusySlots, FreeSlots, is_free
<1>10. ASSUME \/ \E r \in Requests, p \in Priorities : enqueue_with_priority(r, p)
              \/ configure_for_hardware
              \/ \E b \in BOOLEAN : set_preemption_enabled(b)
              \/ next_batch \/ EmitBatch \/ ExecutionFails \/ UNCHANGED vars
       PROVE  I
  <2>1. UNCHANGED <<slots, slot, active>>
    BY <1>10 DEF enqueue_with_priority, configure_for_hardware, set_preemption_enabled, next_batch,
                 EmitBatch, ExecutionFails, vars
  <2>2. at' \in {"idle", "executing"} => at \in {"idle", "executing"} \/ EmitBatch
    BY <1>10 DEF enqueue_with_priority, configure_for_hardware, set_preemption_enabled, next_batch,
                 ExecutionFails, vars
  <2>3. at' \in {"idle", "executing"} => SlotlessActive = {}
    BY <2>2, PrefillComplete DEF SlotsMatchActive
  <2> QED  BY <1>1, <2>1, <2>3
<1>11. ASSUME NEW r \in active, preempt_lowest(r) PROVE I
  <2>1. CASE UNCHANGED <<active, slots, slot, starvation_counters, preempted, saved>>
    BY <1>1, <1>11, <2>1 DEF preempt_lowest, SlotsMatchActive
  <2> QED  BY <1>6, <1>11, <2>1 DEF preempt_lowest
<1>12. ASSUME NEW sv \in saved, resume(sv) PROVE I
  BY <1>7, <1>8, <1>12 DEF resume
<1> QED
  BY <1>2, <1>3, <1>4, <1>5, <1>9, <1>10, <1>11, <1>12 DEF Next, PollSome, AssignSome
-----------------------------------------------------------------------------
(* The saved copies, the batch and the free slots of the prefill loop.      *)

\* Where next_batch stands says what is left to assign.
LEMMA CallsStep ==
    ASSUME IInv, [Next]_vars
    PROVE  Calls'
<1> USE DEF IInv
<1> USE SlotsFunction
<1>0. IsFiniteSet(SlotlessActive) /\ IsFiniteSet(FreeSlots)
      /\ Cardinality(SlotlessActive) \in Nat /\ Cardinality(FreeSlots) \in Nat
  <2>1. IsFiniteSet(SlotlessActive)
    BY FS_Subset DEF SlotlessActive, SlotField
  <2> QED  BY <2>1, FreeSlotsFinite, FS_CardinalityType
<1>1. ASSUME \/ \E r \in Requests, p \in Priorities : enqueue_with_priority(r, p)
             \/ configure_for_hardware
             \/ \E b \in BOOLEAN : set_preemption_enabled(b)
             \/ next_batch \/ PollSome \/ ExecutionFails \/ process_results
      PROVE  UNCHANGED <<preempted, saved>> /\ at' \in {"idle", "poll"}
  BY <1>1 DEF enqueue_with_priority, configure_for_hardware, set_preemption_enabled, next_batch,
              PollSome, Poll, ExecutionFails, process_results
<1>2. CASE EmitBatch
  BY <1>2 DEF EmitBatch, Calls, BusySlots, FreeSlots, is_free
<1>3. CASE UNCHANGED vars
  BY <1>3 DEF vars, origin, configVars, Calls, BusySlots, FreeSlots, is_free, SlotlessActive
<1>4. CASE EndPoll
  <2> DEFINE n == Cardinality(SlotlessActive) - Cardinality(FreeSlots)
             new == Len(slots) + 1 .. Len(slots) + n
  <2>1. n \in Int
    BY <1>0
  <2>2. slots' = add_slots(n) /\ UNCHANGED <<slot, active, preempted, saved>> /\ at' = "assign"
    BY <1>4 DEF EndPoll
  <2>3. SlotlessActive' = SlotlessActive
    BY <2>2 DEF SlotlessActive
  <2>4. Cardinality(SlotlessActive) <= Cardinality(FreeSlots)'
    <3>1. CASE n <= 0
      <4>1. slots' = slots
        <5> HIDE DEF n
        <5> QED  BY <2>1, <2>2, <3>1 DEF add_slots
      <4>2. FreeSlots' = FreeSlots
        BY <4>1 DEF FreeSlots, is_free
      <4> QED  BY <1>0, <3>1, <4>2
    <3>2. CASE n > 0
      <4>1. FreeSlots' = FreeSlots \cup new
        <5> HIDE DEF n
        <5> QED  BY <2>1, <2>2, <3>2 DEF add_slots, FreeSlots, is_free, EmptySlot
      <4>2. IsFiniteSet(new) /\ Cardinality(new) = n
        <5> HIDE DEF n
        <5>1. Len(slots) + 1 \in Int /\ Len(slots) + n \in Int
          BY <2>1
        <5>2. IsFiniteSet(new) /\ Cardinality(new) =
                IF Len(slots) + 1 > Len(slots) + n THEN 0
                ELSE (Len(slots) + n) - (Len(slots) + 1) + 1
          BY <5>1, FS_Interval
        <5> QED  BY <2>1, <3>2, <5>2
      <4>3. FreeSlots \cap new = {}
        BY <2>1 DEF FreeSlots
      <4>4. Cardinality(FreeSlots \cup new) =
              Cardinality(FreeSlots) + Cardinality(new) - Cardinality(FreeSlots \cap new)
        BY <1>0, <4>2, FS_Union
      <4>5. Cardinality(FreeSlots \cap new) = 0
        BY <4>3, FS_EmptySet
      <4> QED  BY <1>0, <4>1, <4>2, <4>4, <4>5
    <3> QED  BY <2>1, <3>1, <3>2
  <2> QED  BY <2>2, <2>3, <2>4 DEF Calls
<1>5. ASSUME NEW r \in active, NEW s \in DOMAIN slots, Assign(r, s) PROVE Calls'
  <2>1. /\ DOMAIN slots' = DOMAIN slots
        /\ slots'[s].request = r
        /\ \A t \in DOMAIN slots : t # s => slots'[t] = slots[t]
        /\ slot' = [slot EXCEPT ![r] = s]
        /\ UNCHANGED <<active, at, preempted, saved>> /\ at = "assign"
        /\ s \in FreeSlots /\ r \in SlotlessActive
    BY <1>5 DEF Assign, FirstFree, FreeSlots
  <2>2. FreeSlots' = FreeSlots \ {s}
    BY <2>1 DEF FreeSlots, is_free, TypeOK
  <2>3. SlotlessActive' = SlotlessActive \ {r}
    BY <2>1 DEF SlotlessActive, TypeOK
  <2>4. /\ Cardinality(FreeSlots \ {s}) = Cardinality(FreeSlots) - 1
        /\ Cardinality(SlotlessActive \ {r}) = Cardinality(SlotlessActive) - 1
    BY <1>0, <2>1, FS_RemoveElement
  <2> QED  BY <1>0, <2>1, <2>2, <2>3, <2>4 DEF Calls
<1>6. ASSUME NEW r \in active, preempt_lowest(r) PROVE Calls'
  <2>1. at' = "idle"
    BY <1>6 DEF preempt_lowest
  <2>2. preempted' \subseteq saved'
    BY <1>6 DEF preempt_lowest, Evict, Calls
  <2> QED  BY <2>1, <2>2 DEF Calls
<1>7. ASSUME NEW sv \in saved, resume(sv) PROVE Calls'
  BY <1>7 DEF resume, Calls
<1>8. CASE drain_all
  BY <1>8 DEF drain_all, Calls
<1> QED
  BY <1>1, <1>2, <1>3, <1>4, <1>5, <1>6, <1>7, <1>8 DEF Next, AssignSome, Calls

-----------------------------------------------------------------------------
(* No request is lost.                                                      *)

\* Every request stays in exactly one place.
LEMMA LostStep ==
    ASSUME IInv, [Next]_vars
    PROVE  NoRequestLost'
<1> USE DEF IInv
<1>1. CASE UNCHANGED <<created, queue, active, saved, ended>>
  BY <1>1 DEF NoRequestLost
<1>2. ASSUME NEW r \in Requests, NEW p \in Priorities, enqueue_with_priority(r, p)
      PROVE  NoRequestLost'
  BY <1>2 DEF enqueue_with_priority, NoRequestLost
<1>3. ASSUME NEW r \in queue, Poll(r) PROVE NoRequestLost'
  BY <1>3 DEF Poll, origin, NoRequestLost
<1>4. CASE process_results
  <2>1. /\ UNCHANGED <<created, queue, saved>>
        /\ ended' = ended \cup {batch[s] : s \in Completed}
    BY <1>4 DEF process_results, origin
  <2>2. batch = [s \in BusySlots |-> slots[s].request]
    BY <1>4 DEF process_results, Calls
  <2>3. \A s \in Completed : s \in BusySlots /\ batch[s] = slots[s].request
    BY <2>2 DEF Completed, Completes
  <2>4. \A s \in Completed : batch[s] \in active \ active'
    <3> SUFFICES ASSUME NEW s \in Completed, batch[s] \in active'
                 PROVE  FALSE
      BY <2>3 DEF SlotsMatchActive
    <3>1. s \in DOMAIN slots /\ Completes(s) /\ slots'[s].request = NoRequest
      BY <1>4, ResultsSlots DEF Completed
    <3>2. PICK t \in DOMAIN slots : slots'[t].request = batch[s]
      BY <1>4, ResultsSlots
    <3>3. batch[s] \in Requests
      BY <1>4, ResultsSlots DEF TypeOK
    <3>4. slots[t].request = batch[s] /\ t \in BusySlots
      BY <1>4, <3>2, <3>3, ResultsSlots DEF BusySlots, FreeSlots, is_free
    <3>5. slot[batch[s]] = s /\ slot[batch[s]] = t
      BY <2>3, <3>4 DEF SlotsMatchActive
    <3> QED  BY <3>1, <3>2, <3>3, <3>5
  <2>5. active \ active' \subseteq {batch[s] : s \in Completed}
    <3> SUFFICES ASSUME NEW r \in active, r \notin active'
                 PROVE  \E s \in Completed : batch[s] = r
      OBVIOUS
    <3>1. slot[r] \in DOMAIN slots /\ slots[slot[r]].request = r
      BY <1>4 DEF process_results, SlotsMatchActive, SlotlessActive
    <3>2. slots'[slot[r]].request # r
      BY <1>4, <3>1, ResultsSlots
    <3>3. slot[r] \in Completed
      BY <1>4, <3>1, <3>2, ResultsSlots
    <3> QED  BY <2>3, <3>1, <3>3
  <2>6. active' \subseteq active
    BY <1>4, ResultsSlots
  <2> QED  BY <2>1, <2>4, <2>5, <2>6 DEF NoRequestLost
<1>5. ASSUME NEW r \in active, preempt_lowest(r) PROVE NoRequestLost'
  <2>1. UNCHANGED <<created, queue, ended>>
    BY <1>5 DEF preempt_lowest, origin
  <2>2. CASE Evict(r)
    <3>1. Saved(r).request = r
      BY DEF Saved
    <3>2. active' = active \ {r} /\ saved' = saved \cup {Saved(r)}
      BY <2>2 DEF Evict
    <3>3. {sv.request : sv \in saved'} = {sv.request : sv \in saved} \cup {r}
      BY <3>1, <3>2
    <3> QED  BY <2>1, <3>1, <3>2, <3>3 DEF NoRequestLost
  <2> QED  BY <1>1, <1>5, <2>1, <2>2 DEF preempt_lowest
<1>6. ASSUME NEW sv \in saved, resume(sv) PROVE NoRequestLost'
  <2>1. saved' = saved \ {sv} /\ UNCHANGED <<created, ended>>
    BY <1>6 DEF resume
  <2>2. \/ active' = active \cup {sv.request} /\ queue' = queue
        \/ active' = active /\ queue' = queue \cup {sv.request}
    BY <1>6 DEF resume
  <2>3. {x.request : x \in saved'} = {x.request : x \in saved} \ {sv.request}
    BY <2>1 DEF NoRequestLost
  <2> QED  BY <2>1, <2>2, <2>3 DEF NoRequestLost
<1>7. CASE drain_all
  <2>1. saved' = saved
    BY <1>7 DEF drain_all, Calls
  <2> QED  BY <1>7, <2>1 DEF drain_all, KeptByDrain, origin, NoRequestLost
<1>8. ASSUME \/ configure_for_hardware
             \/ \E b \in BOOLEAN : set_preemption_enabled(b)
             \/ next_batch \/ EndPoll \/ AssignSome \/ EmitBatch \/ ExecutionFails
             \/ UNCHANGED vars
      PROVE  UNCHANGED <<created, queue, active, saved, ended>>
  BY <1>8 DEF configure_for_hardware, set_preemption_enabled, next_batch, EndPoll, AssignSome,
              Assign, EmitBatch, ExecutionFails, vars, origin
<1> QED  BY <1>1, <1>2, <1>3, <1>4, <1>5, <1>6, <1>7, <1>8 DEF Next, PollSome
-----------------------------------------------------------------------------
(* Starvation protection.                                                   *)

\* One more preemption takes one more multiple of the boost.
LEMMA Triangle ==
    ASSUME NEW k \in Int
    PROVE  /\ (k + 1) * (k + 2) = k * (k + 1) + 2 * (k + 1)
           /\ k * (k + 1) \in Int
           /\ Boost * ((k + 1) * (k + 2)) = Boost * (k * (k + 1)) + 2 * ((k + 1) * Boost)
<1>1. (k + 1) * (k + 2) = k * (k + 1) + 2 * (k + 1) /\ k * (k + 1) \in Int
  OBVIOUS
<1>2. ASSUME NEW a \in Int, NEW b \in Int, NEW c \in Int
      PROVE  a * (b + 2 * c) = a * b + 2 * (c * a)
  OBVIOUS
<1>3. Boost \in Int
  OBVIOUS
<1> QED  BY <1>1, <1>2, <1>3

\* Less value leaves the bound as it is.
LEMMA RemainingLess ==
    ASSUME NEW c \in Nat, NEW v \in Nat, NEW w \in Nat, NEW from \in Nat, w <= v,
           Remaining(c, v, from)
    PROVE  Remaining(c, w, from)
<1> DEFINE k == c - MaxPreemptions
           b == Boost * (k * (k + 1))
<1>1. k \in Int /\ b \in Int /\ 2 * from \in Int
  BY Triangle
<1>2. k > 0 => b < 2 * from /\ (v = 0 \/ 2 * v + b <= 2 * from)
  BY DEF Remaining
<1>3. k > 0 => b < 2 * from /\ (w = 0 \/ 2 * w + b <= 2 * from)
  <2> HIDE DEF k, b
  <2> QED  BY <1>1, <1>2
<1> QED  BY <1>3 DEF Remaining

\* An eviction: the boost has been taken and something is left.
LEMMA RemainingEvicted ==
    ASSUME TypeOK, NEW r \in active, Remaining(starvation_counters[r], priority[r], asked[r]),
           priority[r] <= asked[r], Boosted(r) # 0
    PROVE  Remaining(starvation_counters[r] + 1, Boosted(r), asked[r])
<1> DEFINE k == starvation_counters[r] - MaxPreemptions
           b == Boost * (k * (k + 1))
           d == (k + 1) * Boost
           b1 == Boost * ((k + 1) * (k + 2))
<1>1. /\ k \in Int /\ b \in Int /\ d \in Int /\ b1 = b + 2 * d
      /\ priority[r] \in 0 .. Lowest /\ asked[r] \in Nat /\ Boosted(r) \in Nat
      /\ starvation_counters[r] \in Nat
  <2>1. r \in Requests
    BY DEF TypeOK
  <2>2. /\ k \in Int /\ starvation_counters[r] \in Nat /\ priority[r] \in 0 .. Lowest
        /\ asked[r] \in Nat
    BY <2>1 DEF TypeOK
  <2>3. b1 = b + 2 * d
    BY <2>2, Triangle
  <2>4. b \in Int /\ d \in Int
    <3>1. k * (k + 1) \in Int /\ k + 1 \in Int /\ Boost \in Int
      BY <2>2, Triangle
    <3>2. \A x, y \in Int : x * y \in Int
      OBVIOUS
    <3> QED  BY <3>1, <3>2
  <2> QED  BY <2>1, <2>2, <2>3, <2>4, BoostedType
<1>2. CASE k + 1 <= 0
  BY <1>1, <1>2 DEF Remaining
<1>3. CASE k + 1 > 0
  <2>1. Boosted(r) = IF priority[r] > d THEN priority[r] - d ELSE 0
    BY <1>1, <1>3 DEF Boosted
  <2>2. k > 0 => priority[r] = 0 \/ 2 * priority[r] + b <= 2 * asked[r]
    BY DEF Remaining
  <2>3. k = 0 => b = 0
    OBVIOUS
  <2>4. d >= 0
    BY <1>1, <1>3, ProductNat
  <2>5. b1 < 2 * asked[r] /\ 2 * Boosted(r) + b1 <= 2 * asked[r]
    <3> HIDE DEF k, b, d, b1
    <3> QED  BY <1>1, <1>3, <2>1, <2>2, <2>3, <2>4
  <2> DEFINE j == (starvation_counters[r] + 1) - MaxPreemptions
  <2>6. j = k + 1 /\ j + 1 = k + 2
    BY <1>1
  <2>7. Boost * (j * (j + 1)) = b1
    BY <2>6
  <2>8. Boost * (j * (j + 1)) < 2 * asked[r] /\ 2 * Boosted(r) + Boost * (j * (j + 1)) <= 2 * asked[r]
    BY <2>5, <2>7
  <2> QED  BY <2>8 DEF Remaining
<1> QED  BY <1>1, <1>2, <1>3

\* What a request has lost of its priority value pays for its preemptions.
LEMMA StarvationStep ==
    ASSUME IInv, [Next]_vars
    PROVE  Starvation'
<1> USE DEF IInv
<1>0. /\ starvation_counters \in [Requests -> Nat] /\ priority \in [Requests -> 0 .. Lowest]
      /\ asked \in [Requests -> 0 .. Lowest] /\ active \subseteq created
      /\ \A sv \in saved : sv.request \in created /\ sv.request \notin active
  BY DEF TypeOK, NoRequestLost
<1>1. CASE UNCHANGED <<starvation_counters, priority, saved, created, asked>>
  BY <1>1 DEF Starvation, Remaining
<1>2. ASSUME NEW r \in Requests, NEW p \in Priorities, enqueue_with_priority(r, p)
      PROVE  Starvation'
  <2>1. starvation_counters[r] = 0 /\ r \notin created
    BY <1>2 DEF enqueue_with_priority, Starvation
  <2>2. Remaining(0, p, p)
    BY DEF Remaining
  <2>3. /\ created' = created \cup {r} /\ UNCHANGED <<starvation_counters, saved>>
        /\ priority' = [priority EXCEPT ![r] = p] /\ asked' = [asked EXCEPT ![r] = p]
    BY <1>2 DEF enqueue_with_priority
  <2> QED  BY <1>0, <2>1, <2>2, <2>3 DEF Starvation, Remaining
<1>3. ASSUME NEW r \in active, preempt_lowest(r) PROVE Starvation'
  <2>1. priority' = [q \in Requests |-> Boosted(q)] /\ UNCHANGED <<created, asked>>
    BY <1>3 DEF preempt_lowest, origin
  <2>2. \A q \in Requests : /\ Boosted(q) <= asked[q]
                            /\ Remaining(starvation_counters[q], Boosted(q), asked[q])
    <3> TAKE q \in Requests
    <3>1. Boosted(q) \in Nat /\ Boosted(q) <= priority[q]
      BY BoostedType
    <3>2. priority[q] \in Nat /\ starvation_counters[q] \in Nat /\ asked[q] \in Nat
      BY <1>0
    <3> QED  BY <3>1, <3>2, RemainingLess DEF Starvation
  <2>3. \A q \in Requests : q \notin active => Boosted(q) = priority[q]
    BY DEF Boosted
  <2>4. \A sv \in saved : sv.request \in Requests
    BY DEF TypeOK, SavedRequest
  <2>5. CASE Evict(r)
    <3>1. Boosted(r) # 0
      BY <1>3, <2>5 DEF preempt_lowest, Evict
    <3>2. r \in Requests /\ Remaining(starvation_counters[r] + 1, Boosted(r), asked[r])
      BY <3>1, RemainingEvicted DEF Starvation, TypeOK
    <3>3. /\ starvation_counters' = [starvation_counters EXCEPT ![r] = @ + 1]
          /\ saved' = saved \cup {Saved(r)}
          /\ Saved(r).request = r /\ Saved(r).priority = Boosted(r)
      BY <2>5 DEF Evict, Saved
    <3>4. \A q \in Requests : /\ priority'[q] <= asked[q]
                              /\ Remaining(starvation_counters'[q], priority'[q], asked[q])
      BY <1>0, <2>1, <2>2, <3>2, <3>3
    <3>5. \A sv \in saved' : sv.priority = priority'[sv.request]
      BY <1>0, <2>1, <2>3, <2>4, <3>2, <3>3 DEF Starvation
    <3>6. \A q \in Requests \ created : starvation_counters'[q] = 0
      BY <1>0, <3>3 DEF Starvation
    <3> QED  BY <2>1, <3>4, <3>5, <3>6 DEF Starvation, Remaining
  <2>6. CASE UNCHANGED <<active, slots, slot, starvation_counters, preempted, saved>>
    BY <1>0, <2>1, <2>2, <2>3, <2>4, <2>6 DEF Starvation, Remaining
  <2> QED  BY <1>3, <2>5, <2>6 DEF preempt_lowest
<1>4. ASSUME NEW sv \in saved, resume(sv) PROVE Starvation'
  <2>1. sv.priority = priority[sv.request] /\ sv.request \in Requests
    BY DEF Starvation, TypeOK, SavedRequest
  <2>2. priority' = priority
    BY <1>0, <1>4, <2>1 DEF resume
  <2>3. saved' \subseteq saved /\ UNCHANGED <<starvation_counters, created, asked>>
    BY <1>4 DEF resume
  <2> QED  BY <2>2, <2>3 DEF Starvation, Remaining
<1>5. CASE drain_all
  <2>1. saved' = saved /\ UNCHANGED <<priority, created, asked>>
    BY <1>5 DEF drain_all, Calls, origin
  <2>2. starvation_counters' = [q \in Requests |-> 0]
    BY <1>5 DEF drain_all
  <2> QED  BY <2>1, <2>2 DEF Starvation, Remaining
<1>6. ASSUME \/ configure_for_hardware
             \/ \E b \in BOOLEAN : set_preemption_enabled(b)
             \/ next_batch \/ PollSome \/ EndPoll \/ AssignSome \/ EmitBatch
             \/ ExecutionFails \/ process_results \/ UNCHANGED vars
      PROVE  UNCHANGED <<starvation_counters, priority, saved, created, asked>>
  BY <1>6 DEF configure_for_hardware, set_preemption_enabled, next_batch, PollSome, Poll, EndPoll,
              AssignSome, Assign, EmitBatch, ExecutionFails, process_results, vars, origin
<1> QED  BY <1>1, <1>2, <1>3, <1>4, <1>5, <1>6 DEF Next

-----------------------------------------------------------------------------
(* The theorems.                                                            *)

\* A new scheduler satisfies the invariant.
LEMMA InitIInv == Init => IInv
<1> SUFFICES ASSUME Init PROVE IInv
  OBVIOUS
<1>1. slots \in Seq(Slot) /\ DOMAIN slots = 1 .. BatchSize
  BY EmptySlotType, SlotsSeq DEF Init
<1>2. TypeOK
  BY <1>1 DEF Init, TypeOK, NoSlot
<1>3. SlotField /\ Calls
  BY FS_EmptySet DEF Init, SlotField, Calls
<1>4. PagesOwnedOnce
  BY DEF Init, PagesOwnedOnce, EmptySlot
<1>5. SlotsMatchActive
  BY DEF Init, SlotsMatchActive, SlotlessActive, BusySlots, FreeSlots, is_free, EmptySlot
<1>6. NoRequestLost
  BY DEF Init, NoRequestLost
<1>7. Starvation
  BY DEF Init, Starvation, Remaining
<1> QED  BY <1>2, <1>3, <1>4, <1>5, <1>6, <1>7 DEF IInv

\* Every step keeps it.
LEMMA NextIInv == IInv /\ [Next]_vars => IInv'
  BY TypeStep, PagesStep, SlotsStep, CallsStep, LostStep, StarvationStep DEF IInv

\* The inductive invariant of the scheduler.
LEMMA Invariance == Spec => []IInv
  BY InitIInv, NextIInv, PTL DEF Spec

\* Every variable of the scheduler keeps its type; in particular a boosted
\* priority stays a u8 (_apply_starvation_boosts saturates).
THEOREM TypeCorrect == Spec => []TypeOK
<1>1. IInv => TypeOK
  BY DEF IInv
<1> QED  BY <1>1, Invariance, PTL

\* No KV page ever has two owners, for any number of requests, slots and
\* pages: allocate_pages, preempt_lowest, resume, process_results and
\* drain_all move ownership without sharing it.
THEOREM PageOwnership == Spec => []PagesOwnedOnce
<1>1. IInv => PagesOwnedOnce
  BY DEF IInv
<1> QED  BY <1>1, Invariance, PTL

\* Request.slot and Slot.request_id stay two copies of one relation, and
\* next_batch never ends with an active request that has no slot.
THEOREM SlotConsistency == Spec => []SlotsMatchActive
<1>1. IInv => SlotsMatchActive
  BY DEF IInv
<1> QED  BY <1>1, Invariance, PTL

\* A request is always in exactly one of the queue, the active set, the
\* caller's saved requests and the finished ones.
THEOREM RequestsConserved == Spec => []NoRequestLost
<1>1. IInv => NoRequestLost
  BY DEF IInv
<1> QED  BY <1>1, Invariance, PTL

\* The starvation boosts bound how often preempt_lowest can evict one request
\* between two drains, by the priority value it was enqueued with.
THEOREM StarvationBound == Spec => []BoundedPreemption
<1>1. IInv => BoundedPreemption
  <2> SUFFICES ASSUME IInv, NEW r \in Requests
               PROVE  LET k == starvation_counters[r] - MaxPreemptions
                      IN  k > 0 => Boost * k * (k + 1) < 2 * asked[r]
    BY DEF BoundedPreemption
  <2> DEFINE k == starvation_counters[r] - MaxPreemptions
  <2>1. k \in Int /\ Boost \in Int
    BY DEF IInv, TypeOK
  <2>2. k > 0 => Boost * (k * (k + 1)) < 2 * asked[r]
    BY DEF IInv, Starvation, Remaining
  <2>3. Boost * (k * (k + 1)) = Boost * k * (k + 1)
    BY <2>1
  <2> QED  BY <2>2, <2>3
<1> QED  BY <1>1, Invariance, PTL
=============================================================================
