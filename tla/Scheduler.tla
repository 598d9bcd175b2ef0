------------------------------ MODULE Scheduler ------------------------------
(* The continuous-batching scheduler (scheduling/scheduler.rs) with its     *)
(* paged allocator (PagedIosurfaceAllocator, memory/allocator.rs).          *)
(*                                                                          *)
(* Every method takes &mut self, so one call runs at a time.  next_batch is *)
(* cut into the turns of its two loops; no other call starts in between.    *)
(* A batch is executed by the caller and then handed to process_results, or *)
(* dropped when the execution fails (run_inference_cycle in engine.rs, step *)
(* in server/engine.rs): neither calls the scheduler in between.            *)
(*                                                                          *)
(* queue and active are Vecs in the code.  The order of active decides only *)
(* which request gets which of several free slots.  The stable sort of the  *)
(* queue keeps requests of one priority in the order in which they were     *)
(* pushed, which is the order of their created_at: `older` has it.          *)
(* kv_cache_length and the backend of a slot decide nothing here.           *)
EXTENDS Integers, Sequences, FiniteSets

CONSTANTS Requests, NoRequest,
          MaxTokens,      \* Request.max_tokens of each request
          NumPages,       \* pages of the allocator (0: no allocator is set)
          PagesPerSlot,   \* kv_cache_pages_per_slot
          Priorities,     \* priorities callers ask for
          Lowest,         \* PRIORITY_LOWEST
          MaxPreemptions, \* MAX_PREEMPTIONS_BEFORE_BOOST
          Boost,          \* STARVATION_PRIORITY_BOOST
          BatchSize,      \* max_batch_size of the configuration
          PrefillBatch,   \* max_prefill_batch of the configuration
          HwBatch         \* recommended_batch_size of the detected hardware

ASSUME SchedulerAssumption ==
    /\ NoRequest \notin Requests
    /\ MaxTokens \in [Requests -> Nat]
    /\ NumPages \in Nat /\ PagesPerSlot \in Nat \ {0}
    /\ Lowest \in Nat /\ Priorities \subseteq 0 .. Lowest
    /\ MaxPreemptions \in Nat \ {0} /\ Boost \in Nat
    /\ BatchSize \in Nat \ {0} /\ PrefillBatch \in Nat \ {0} /\ HwBatch \in Nat \ {0}

Pages == 0 .. NumPages - 1
NoSlot == 0

VARIABLES queue, active,
          slots,               \* records: the request, its tokens, its pages
          slot,                \* Request.slot
          priority,            \* Request.priority
          created,             \* requests made so far
          older,               \* the order of created_at
          asked,               \* history: the priority a request was enqueued with
          max_batch_size,      \* the only limit that changes
          preempted,           \* SavedRequests the scheduler lists
          starvation_counters, \* 0 where the map has no entry
          preemption_enabled,
          free_bitmap,         \* free pages
          at,                  \* where the call in progress stands
          batch,               \* the batch being executed: slot -> request
          saved,               \* SavedRequests the caller holds and may resume
          ended                \* history: requests completed or drained

origin == <<created, older, asked>>
configVars == <<max_batch_size, preemption_enabled>>
vars == <<queue, active, slots, slot, priority, origin, preempted, starvation_counters,
          free_bitmap, at, batch, saved, ended, configVars>>

EmptySlot == [request |-> NoRequest, tokens |-> 0, pages |-> {}]
Slot == [request : Requests \cup {NoRequest}, tokens : Nat, pages : SUBSET Pages]
SavedRequest == [request : Requests, tokens : Nat, pages : SUBSET Pages, priority : 0 .. Lowest]

is_free(s) == slots[s].request = NoRequest
FreeSlots == {s \in DOMAIN slots : is_free(s)}
BusySlots == DOMAIN slots \ FreeSlots
FirstFree(s) == is_free(s) /\ \A t \in FreeSlots : s <= t
SlotlessActive == {r \in active : slot[r] = NoSlot}

\* r was created after q.
Younger(r, q) == <<q, r>> \in older

\* A new created_at for r.
Stamped(r) == {e \in older : r # e[1] /\ r # e[2]} \cup (created \ {r}) \X {r}

Init ==
    /\ queue = {} /\ active = {}
    /\ slots = [s \in 1 .. BatchSize |-> EmptySlot]
    /\ slot = [r \in Requests |-> NoSlot]
    /\ priority = [r \in Requests |-> 0]
    /\ created = {} /\ older = {} /\ asked = [r \in Requests |-> 0]
    /\ max_batch_size = BatchSize
    /\ preempted = {} /\ saved = {}
    /\ starvation_counters = [r \in Requests |-> 0]
    /\ preemption_enabled = TRUE
    /\ free_bitmap = Pages
    /\ at = "idle"
    /\ batch = << >>
    /\ ended = {}

-----------------------------------------------------------------------------
(* The allocator.                                                           *)

Runs == {p \in Pages : p .. p + PagesPerSlot - 1 \subseteq free_bitmap}

\* The first run of free pages that is long enough; none: {}.
allocate_pages ==
    {p .. p + PagesPerSlot - 1 : p \in {p \in Runs : \A q \in Runs : p <= q}}

-----------------------------------------------------------------------------
(* Admission and batches.                                                   *)

\* Request::new, then enqueue (priority 0) or enqueue_with_priority.  The id of
\* a Request is the time in nanoseconds: the model has requests made in
\* different ticks of that clock, so ids tell them apart.
enqueue_with_priority(r, p) ==
    /\ at = "idle"
    /\ r \notin created
    /\ created' = created \cup {r}
    /\ queue' = queue \cup {r}
    /\ priority' = [priority EXCEPT ![r] = p]
    /\ asked' = [asked EXCEPT ![r] = p]
    /\ older' = Stamped(r)
    /\ UNCHANGED <<active, slots, slot, preempted, starvation_counters, free_bitmap, at, batch,
                   saved, ended, configVars>>

\* It also sets Scheduler.max_prefill_batch and max_concurrent, which nothing
\* reads: the prefill limit of next_batch is the one of the configuration.
configure_for_hardware ==
    /\ at = "idle"
    /\ max_batch_size' = HwBatch
    /\ UNCHANGED <<queue, active, slots, slot, priority, origin, preempted, starvation_counters,
                   free_bitmap, at, batch, saved, ended, preemption_enabled>>

set_preemption_enabled(enabled) ==
    /\ at = "idle"
    /\ preemption_enabled' = enabled
    /\ UNCHANGED <<queue, active, slots, slot, priority, origin, preempted, starvation_counters,
                   free_bitmap, at, batch, saved, ended, max_batch_size>>

next_batch ==
    /\ at = "idle"
    /\ at' = "poll"
    /\ UNCHANGED <<queue, active, slots, slot, priority, origin, preempted, starvation_counters,
                   free_bitmap, batch, saved, ended, configVars>>

HasRoom ==
    /\ Cardinality(active) < max_batch_size
    /\ Cardinality(active) < PrefillBatch

\* The last element of the queue sorted by ascending priority value.
Pops(r) ==
    \A q \in queue \ {r} :
        priority[q] < priority[r] \/ (priority[q] = priority[r] /\ Younger(r, q))

Poll(r) ==
    /\ at = "poll"
    /\ HasRoom
    /\ Pops(r)
    /\ queue' = queue \ {r}
    /\ active' = active \cup {r}
    /\ UNCHANGED <<slots, slot, priority, origin, preempted, starvation_counters, free_bitmap, at,
                   batch, saved, ended, configVars>>

\* Mutant: no slots are added when the free ones do not suffice.
add_slots_Never(n) == slots
add_slots(n) ==
    IF n > 0 THEN [s \in 1 .. Len(slots) + n |-> IF s <= Len(slots) THEN slots[s] ELSE EmptySlot]
    ELSE slots

EndPoll ==
    /\ at = "poll"
    /\ ~HasRoom \/ queue = {}
    /\ slots' = add_slots(Cardinality(SlotlessActive) - Cardinality(FreeSlots))
    /\ at' = "assign"
    /\ UNCHANGED <<queue, active, slot, priority, origin, preempted, starvation_counters,
                   free_bitmap, batch, saved, ended, configVars>>

\* One turn of the prefill loop: a slot and pages for a request without one.
Assign(r, s) ==
    /\ at = "assign"
    /\ r \in SlotlessActive
    /\ FirstFree(s)
    /\ \E pages \in IF Runs = {} THEN {slots[s].pages} ELSE allocate_pages :
        /\ slots' = [slots EXCEPT ![s] = [request |-> r, tokens |-> 0, pages |-> pages]]
        /\ free_bitmap' = free_bitmap \ pages
    /\ slot' = [slot EXCEPT ![r] = s]
    /\ UNCHANGED <<queue, active, priority, origin, preempted, starvation_counters, at, batch,
                   saved, ended, configVars>>

EmitBatch ==
    /\ at = "assign"
    /\ SlotlessActive = {} \/ FreeSlots = {}
    /\ batch' = [s \in BusySlots |-> slots[s].request]
    /\ at' = "executing"
    /\ UNCHANGED <<queue, active, slots, slot, priority, origin, preempted, starvation_counters,
                   free_bitmap, saved, ended, configVars>>

\* The execution failed (or step found the batch empty): process_results is
\* not called and the batch is gone.
ExecutionFails ==
    /\ at = "executing"
    /\ at' = "idle"
    /\ batch' = << >>
    /\ UNCHANGED <<queue, active, slots, slot, priority, origin, preempted, starvation_counters,
                   free_bitmap, saved, ended, configVars>>

\* The slot of the batch that has its last token now.
Completes(s) ==
    /\ s \in DOMAIN batch
    /\ batch[s] \in active
    /\ slots[s].tokens + 1 >= MaxTokens[batch[s]]

Completed == {s \in DOMAIN slots : Completes(s)}

AfterResults(s) ==
    IF Completes(s) THEN EmptySlot
    ELSE IF s \in DOMAIN batch THEN [slots[s] EXCEPT !.tokens = @ + 1]
    ELSE slots[s]

process_results ==
    /\ at = "executing"
    /\ slots' = [s \in DOMAIN slots |-> AfterResults(s)]
    /\ free_bitmap' = free_bitmap \cup UNION {slots[s].pages : s \in Completed}
    /\ active' = {r \in active : \E s \in DOMAIN slots : AfterResults(s).request = r}
    /\ slot' = [r \in Requests |-> IF r \in active' THEN slot[r] ELSE NoSlot]
    /\ ended' = ended \cup {batch[s] : s \in Completed}
    /\ batch' = << >>
    /\ at' = "idle"
    /\ UNCHANGED <<queue, priority, origin, preempted, starvation_counters, saved, configVars>>

-----------------------------------------------------------------------------
(* Preemption.                                                              *)

\* Mutants: no boost; a subtraction that does not stop at 0.
Boosted_Never(r) == priority[r]
Boosted_NoFloor(r) ==
    LET cycles == starvation_counters[r] - MaxPreemptions + 1
    IN  IF r \notin active \/ cycles <= 0 THEN priority[r] ELSE priority[r] - cycles * Boost
\* _apply_starvation_boosts: the priority of r afterwards.
Boosted(r) ==
    LET cycles == starvation_counters[r] - MaxPreemptions + 1
    IN  IF r \notin active \/ cycles <= 0 THEN priority[r]
        ELSE IF priority[r] > cycles * Boost THEN priority[r] - cycles * Boost
        ELSE 0

\* max_by_key over (priority, created_at).
Victim(r) ==
    \A q \in active \ {r} :
        Boosted(q) < Boosted(r) \/ (Boosted(q) = Boosted(r) /\ Younger(r, q))

\* Mutant: the slot keeps the pages it has handed to the SavedRequest.
ClearSlot_KeepsPages(s) == [EmptySlot EXCEPT !.pages = slots[s].pages]
ClearSlot(s) == EmptySlot

Saved(r) == [request |-> r, tokens |-> slots[slot[r]].tokens, pages |-> slots[slot[r]].pages,
             priority |-> Boosted(r)]

\* The pages stay allocated and belong to the SavedRequest.
Evict(r) ==
    /\ active' = active \ {r}
    /\ slots' = [slots EXCEPT ![slot[r]] = ClearSlot(slot[r])]
    /\ slot' = [slot EXCEPT ![r] = NoSlot]
    /\ starvation_counters' = [starvation_counters EXCEPT ![r] = @ + 1]
    /\ preempted' = preempted \cup {Saved(r)}
    /\ saved' = saved \cup {Saved(r)}

\* The boosts stay even when nobody can be preempted.
preempt_lowest(r) ==
    /\ at = "idle"
    /\ preemption_enabled
    /\ Cardinality(active) >= max_batch_size
    /\ Victim(r)
    /\ priority' = [q \in Requests |-> Boosted(q)]
    /\ IF Boosted(r) = 0 \/ slot[r] = NoSlot
       THEN UNCHANGED <<active, slots, slot, starvation_counters, preempted, saved>>
       ELSE Evict(r)
    /\ UNCHANGED <<queue, origin, free_bitmap, at, batch, ended, configVars>>

\* With a free slot the request goes on where it was; without one it is
\* queued as if it were new, and its pages are nobody's from then on.
resume(sv) ==
    /\ at = "idle"
    /\ preempted' = {x \in preempted : x.request # sv.request}
    /\ saved' = saved \ {sv}
    /\ priority' = [priority EXCEPT ![sv.request] = sv.priority]
    /\ older' = Stamped(sv.request)
    /\ \/ \E s \in DOMAIN slots :
            /\ FirstFree(s)
            /\ slots' = [slots EXCEPT ![s] = [request |-> sv.request, tokens |-> sv.tokens,
                                              pages |-> sv.pages]]
            /\ slot' = [slot EXCEPT ![sv.request] = s]
            /\ active' = active \cup {sv.request}
            /\ UNCHANGED queue
       \/ /\ FreeSlots = {}
          /\ queue' = queue \cup {sv.request}
          /\ UNCHANGED <<active, slots, slot>>
    /\ UNCHANGED <<created, asked, starvation_counters, free_bitmap, at, batch, ended, configVars>>

\* Mutant: the slots are cleared and their requests stay active.
KeptByDrain_Active == active
KeptByDrain == {}

\* It returns the scheduler's copies of SavedRequests whose originals
\* preempt_lowest has handed out.  `saved` is a set and has both as one
\* element: callers are assumed to resume a request once, from either copy.
\* (Nothing in resume would stop the second, which doubles the request and the
\* owner of its pages.)
drain_all ==
    /\ at = "idle"
    /\ queue' = {}
    /\ active' = KeptByDrain
    /\ free_bitmap' = free_bitmap \cup UNION {slots[s].pages : s \in BusySlots}
    /\ slots' = [s \in DOMAIN slots |-> IF is_free(s) THEN slots[s] ELSE EmptySlot]
    /\ slot' = [r \in Requests |-> NoSlot]
    /\ starvation_counters' = [r \in Requests |-> 0]
    /\ preempted' = {}
    /\ saved' = saved \cup preempted
    /\ ended' = ended \cup queue \cup active
    /\ UNCHANGED <<priority, origin, at, batch, configVars>>

-----------------------------------------------------------------------------

PollSome == \E r \in queue : Poll(r)
AssignSome == \E r \in active, s \in DOMAIN slots : Assign(r, s)

Next ==
    \/ \E r \in Requests, p \in Priorities : enqueue_with_priority(r, p)
    \/ configure_for_hardware
    \/ \E b \in BOOLEAN : set_preemption_enabled(b)
    \/ next_batch \/ PollSome \/ EndPoll \/ AssignSome \/ EmitBatch
    \/ ExecutionFails \/ process_results
    \/ \E r \in active : preempt_lowest(r)
    \/ \E sv \in saved : resume(sv)
    \/ drain_all

Spec == Init /\ [][Next]_vars

ResumeOf(r) == \E sv \in saved : sv.request = r /\ resume(sv)

\* The caller's loop keeps asking for batches, an execution does not fail
\* for ever, and the caller resumes what it has preempted.
FairSpec ==
    /\ Spec
    /\ WF_vars(next_batch) /\ WF_vars(PollSome) /\ WF_vars(EndPoll)
    /\ WF_vars(AssignSome) /\ WF_vars(EmitBatch)
    /\ SF_vars(process_results)
    /\ \A r \in Requests : SF_vars(ResumeOf(r))

-----------------------------------------------------------------------------
(* Properties.                                                              *)

\* The state of Scheduler keeps its types: a priority stays a u8 however often
\* it is boosted, and a page is one of the allocator.
TypeOK ==
    /\ queue \subseteq Requests /\ active \subseteq Requests /\ ended \subseteq Requests
    /\ slots \in Seq(Slot)
    /\ slot \in [Requests -> Nat]
    /\ priority \in [Requests -> 0 .. Lowest]
    /\ created \subseteq Requests /\ older \subseteq created \X created
    /\ asked \in [Requests -> 0 .. Lowest]
    /\ max_batch_size \in Nat \ {0}
    /\ preempted \subseteq SavedRequest /\ saved \subseteq SavedRequest
    /\ starvation_counters \in [Requests -> Nat]
    /\ preemption_enabled \in BOOLEAN
    /\ free_bitmap \subseteq Pages
    /\ at \in {"idle", "poll", "assign", "executing"}

\* A KV page has at most one owner: two slots, two saved requests or a slot
\* and a saved request never share one, and no owned page is free.  It is
\* handed over by allocate_pages, preempt_lowest, resume, process_results and
\* drain_all, each of which updates the two sides separately.
PagesOwnedOnce ==
    /\ \A s \in DOMAIN slots :
        /\ slots[s].pages \cap free_bitmap = {}
        /\ \A t \in DOMAIN slots : s # t => slots[s].pages \cap slots[t].pages = {}
        /\ \A sv \in saved : slots[s].pages \cap sv.pages = {}
    /\ \A sv \in saved :
        /\ sv.pages \cap free_bitmap = {}
        /\ \A sw \in saved : sv # sw => sv.pages \cap sw.pages = {}

\* Request.slot and Slot.request_id are two copies of one relation: a busy
\* slot belongs to the active request that points to it, and between calls
\* every active request has a slot (process_results drops those that have
\* none).
SlotsMatchActive ==
    /\ \A s \in BusySlots : slots[s].request \in active /\ slot[slots[s].request] = s
    /\ \A r \in active :
        slot[r] # NoSlot => slot[r] \in DOMAIN slots /\ slots[slot[r]].request = r
    /\ at \in {"idle", "executing"} => SlotlessActive = {}

\* A request is in exactly one place: queued, active, saved with the caller,
\* or ended.  Preempting, resuming, failing and draining never lose one.
NoRequestLost ==
    LET with == {sv.request : sv \in saved}
    IN  /\ created = queue \cup active \cup with \cup ended
        /\ queue \cap active = {} /\ queue \cap with = {} /\ active \cap with = {}
        /\ ended \cap (queue \cup active \cup with) = {}
        /\ \A sv, sw \in saved : sv.request = sw.request => sv = sw

\* Starvation protection adds up: a request preempted k times more than
\* MAX_PREEMPTIONS_BEFORE_BOOST has lost Boost * (1 + ... + k) of the priority
\* value it was enqueued with, and something was left.  So a value up to one
\* Boost is safe after MAX_PREEMPTIONS_BEFORE_BOOST preemptions, which is what
\* scheduler.rs:287-288 and saved_request.rs:18-20 promise of every request;
\* with the code's constants (3, 64) a value above 64 is preempted a fourth
\* time and one above 192 a fifth: "exempts it from further preemption" does
\* not hold of the default priority 128.
BoundedPreemption ==
    \A r \in Requests :
        LET k == starvation_counters[r] - MaxPreemptions
        IN  k > 0 => Boost * k * (k + 1) < 2 * asked[r]

\* Whatever is preempted, resumed or queued again, every request ends: the
\* boosts stop the preemptions, and a drained scheduler that is used again
\* stays live too.  (Only drain_all, called for ever, could prevent it: it
\* forgets the starvation counters.)
EveryRequestEnds ==
    \/ []<><<drain_all>>_vars
    \/ \A r \in Requests : r \in created ~> r \in ended
=============================================================================
