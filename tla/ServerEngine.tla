---------------------------- MODULE ServerEngine ----------------------------
(* The server's batching bridge (server/engine.rs): it owns a Scheduler and *)
(* keeps a second book on every request, advanced slot by slot while a      *)
(* batch runs, whereas the scheduler's moves in process_results at the end. *)
(* An error of one session leaves step in the middle: the slots before it   *)
(* have advanced in one book only.                                          *)
(*                                                                          *)
(* Every method but try_recv_completion takes &mut self, and that one needs *)
(* a &self: one call runs at a time.  Every request has priority 0 and the  *)
(* pager is never handed to the scheduler (NumPages = 0).  A session is a   *)
(* model run: it yields a token or fails.  Completions are kept as a set;   *)
(* the order in which they are received decides nothing.  The scheduler's   *)
(* state changes only through its methods, so every step here is one of     *)
(* Scheduler or leaves it alone: the composition is by construction.        *)
EXTENDS Scheduler

CONSTANT ChannelCap  \* capacity of the completion channel

ASSUME ServerAssumption == ChannelCap \in Nat \ {0} /\ 0 \in Priorities

VARIABLES pending_requests,
          state,          \* PendingRequest.state
          generated,      \* length of PendingRequest.generated_tokens
          sessions,
          todo,           \* slots of the batch not yet executed
          completed_ids,
          completions,    \* results in the channel
          results,        \* results run_batch_loop has collected
          mode,           \* "out", or where run_batch_loop stands
          received,       \* history: results handed to a caller, for each request
          lost,           \* history: results that were dropped, for each request
          awaited,        \* history: what a loop that found the channel empty waits for
          failed          \* history: some step has failed

resultVars == <<completions, results, received, lost, awaited>>
engineVars == <<pending_requests, state, generated, sessions, todo, completed_ids, mode, failed,
                resultVars>>
serverVars == <<vars, engineVars>>

Result == [request : Requests, tokens : Nat]

ServerInit ==
    /\ Init
    /\ pending_requests = {} /\ sessions = {}
    /\ state = [r \in Requests |-> "Queued"]
    /\ generated = [r \in Requests |-> 0]
    /\ todo = {} /\ completed_ids = {}
    /\ completions = {} /\ results = {}
    /\ mode = "out"
    /\ received = [r \in Requests |-> 0]
    /\ lost = [r \in Requests |-> 0]
    /\ awaited = {}
    /\ failed = FALSE

\* 1 if S holds a result of r.
Held(S, r) == IF \E x \in S : x.request = r THEN 1 ELSE 0

enqueue(r) ==
    /\ mode = "out"
    /\ enqueue_with_priority(r, 0)
    /\ pending_requests' = pending_requests \cup {r}
    /\ state' = [state EXCEPT ![r] = "Queued"]
    /\ generated' = [generated EXCEPT ![r] = 0]
    /\ UNCHANGED <<sessions, todo, completed_ids, mode, failed, resultVars>>

-----------------------------------------------------------------------------
(* step, called alone or by run_batch_loop.                                 *)

step ==
    /\ mode = "out" \/ (mode = "loop" /\ pending_requests # {})
    /\ next_batch
    /\ UNCHANGED engineVars

Schedule ==
    /\ PollSome \/ EndPoll \/ AssignSome
    /\ UNCHANGED engineVars

Emit ==
    /\ EmitBatch
    /\ todo' = BusySlots
    /\ completed_ids' = {}
    /\ UNCHANGED <<pending_requests, state, generated, sessions, mode, failed, resultVars>>

AfterStep == IF mode = "loop" THEN "drain" ELSE mode

EmptyStep ==
    /\ batch = << >>
    /\ ExecutionFails
    /\ mode' = AfterStep
    /\ UNCHANGED <<pending_requests, state, generated, sessions, todo, completed_ids, failed,
                   resultVars>>

IsNext(s) == at = "executing" /\ s \in todo /\ \A t \in todo : s <= t

\* The request's result has been sent, but the scheduler still runs it.
SkipSlot(s) ==
    /\ IsNext(s)
    /\ batch[s] \notin pending_requests
    /\ todo' = todo \ {s}
    /\ UNCHANGED <<vars, pending_requests, state, generated, sessions, completed_ids, mode, failed,
                   resultVars>>

\* Mutants: the token of the prefill is not kept; a finished request runs on.
Produces_Decode(r) == state[r] = "Decoding"
Produces_Always(r) == TRUE
Produces(r) == state[r] \in {"Queued", "Decoding"}

\* Mutant: one token too early.
Done_Early(r, n) == n + 1 >= MaxTokens[r]
Done(r, n) == n >= MaxTokens[r]

ExecuteSlot(s) ==
    /\ IsNext(s)
    /\ LET r == batch[s]
           n == IF Produces(r) THEN generated[r] + 1 ELSE generated[r]
       IN  /\ r \in pending_requests
           /\ sessions' = sessions \cup {r}
           /\ generated' = [generated EXCEPT ![r] = n]
           /\ IF Done(r, n)
              THEN /\ state' = [state EXCEPT ![r] = "Completed"]
                   /\ completed_ids' = completed_ids \cup {r}
              ELSE /\ state' = [state EXCEPT ![r] = "Decoding"]
                   /\ UNCHANGED completed_ids
    /\ todo' = todo \ {s}
    /\ UNCHANGED <<vars, pending_requests, mode, failed, resultVars>>

\* prefill or decode_one returns an error, after the state was set: step
\* returns, and run_batch_loop with it, dropping what it has collected.
SessionFails(s) ==
    /\ IsNext(s)
    /\ LET r == batch[s]
       IN  /\ r \in pending_requests
           /\ Produces(r)
           /\ sessions' = sessions \cup {r}
           /\ state' = [state EXCEPT ![r] = "Decoding"]
    /\ ExecutionFails
    /\ todo' = {} /\ completed_ids' = {} /\ results' = {} /\ awaited' = {}
    /\ lost' = [r \in Requests |-> lost[r] + Held(results, r)]
    /\ mode' = "out"
    /\ failed' = TRUE
    /\ UNCHANGED <<pending_requests, generated, completions, received>>

\* try_send in the order of the slots: the first that fit in the channel.
Fits ==
    {r \in completed_ids :
        Cardinality({q \in completed_ids : slot[q] < slot[r]}) + Cardinality(completions)
            < ChannelCap}

\* Mutant: a finished request is not forgotten.
Forgotten_None == {}
Forgotten == completed_ids

FinishStep ==
    /\ at = "executing" /\ batch # << >> /\ todo = {}
    /\ completions' = completions \cup {[request |-> r, tokens |-> generated[r]] : r \in Fits}
    /\ lost' = [r \in Requests |-> IF r \in completed_ids \ Fits THEN lost[r] + 1 ELSE lost[r]]
    /\ process_results
    /\ pending_requests' = pending_requests \ Forgotten
    /\ sessions' = sessions \ Forgotten
    /\ completed_ids' = {}
    /\ mode' = AfterStep
    /\ UNCHANGED <<state, generated, todo, results, received, awaited, failed>>

-----------------------------------------------------------------------------
(* run_batch_loop and the receiver.                                         *)

run_batch_loop ==
    /\ mode = "out" /\ at = "idle"
    /\ mode' = "loop"
    /\ results' = {}
    /\ awaited' = IF completions = {} THEN pending_requests ELSE {}
    /\ UNCHANGED <<vars, pending_requests, state, generated, sessions, todo, completed_ids,
                   completions, received, lost, failed>>

\* Mutant: one result is taken after each step, not all.
Drained_One == {x \in completions : x = CHOOSE y \in completions : TRUE}
Drained == completions

Drain ==
    /\ mode = "drain"
    /\ results' = results \cup Drained
    /\ completions' = completions \ Drained
    /\ mode' = "loop"
    /\ UNCHANGED <<vars, pending_requests, state, generated, sessions, todo, completed_ids,
                   received, lost, awaited, failed>>

\* The results are returned.
LoopEnds ==
    /\ mode = "loop" /\ at = "idle" /\ pending_requests = {}
    /\ mode' = "out"
    /\ results' = {} /\ awaited' = {}
    /\ received' = [r \in Requests |-> received[r] + Held(results, r)]
    /\ UNCHANGED <<vars, pending_requests, state, generated, sessions, todo, completed_ids,
                   completions, lost, failed>>

try_recv_completion ==
    /\ mode = "out" /\ at = "idle"
    /\ \E x \in completions :
          /\ completions' = completions \ {x}
          /\ received' = [received EXCEPT ![x.request] = @ + 1]
    /\ UNCHANGED <<vars, pending_requests, state, generated, sessions, todo, completed_ids, results,
                   mode, lost, awaited, failed>>

-----------------------------------------------------------------------------

SlotStep == \E s \in todo : SkipSlot(s) \/ ExecuteSlot(s) \/ SessionFails(s)

CallStep ==
    \/ Schedule \/ Emit \/ EmptyStep \/ SlotStep \/ FinishStep \/ Drain \/ LoopEnds
    \/ mode = "loop" /\ step

ServerNext ==
    \/ CallStep
    \/ mode = "out" /\ step
    \/ \E r \in Requests : enqueue(r)
    \/ run_batch_loop
    \/ try_recv_completion

ServerSpec == ServerInit /\ [][ServerNext]_serverVars

\* The task that made a call drives it on.
ServerFairSpec == ServerSpec /\ WF_serverVars(CallStep)

-----------------------------------------------------------------------------
(* Properties.                                                              *)

AtLeastOne(n) == IF n = 0 THEN 1 ELSE n

\* The state keeps its types, and no request is given more tokens than it asked
\* for, even when step runs its slot again after an error.
ServerTypeOK ==
    /\ pending_requests \subseteq created
    /\ state \in [Requests -> {"Queued", "Decoding", "Completed"}]
    /\ generated \in [Requests -> Nat]
    /\ \A r \in Requests : generated[r] <= AtLeastOne(MaxTokens[r])
    /\ todo \subseteq DOMAIN batch /\ completed_ids \subseteq pending_requests
    /\ completions \subseteq Result /\ results \subseteq Result
    /\ mode \in {"out", "loop", "drain"}
    /\ received \in [Requests -> Nat] /\ lost \in [Requests -> Nat]
    /\ awaited \subseteq created
    /\ failed \in BOOLEAN

\* The two books never part for good, however many steps fail half way: the
\* scheduler still has every request the engine waits for, and never counts
\* more tokens than the engine, so it cannot free a slot (and forget the
\* request) before the engine has completed it.
NoOrphans ==
    /\ pending_requests \subseteq queue \cup active
    /\ sessions \subseteq pending_requests
    /\ \A s \in BusySlots :
        slots[s].request \in pending_requests => slots[s].tokens <= generated[slots[s].request]

\* As long as no step fails they agree between calls: every slot runs a
\* request that still waits for its result, with the same count of tokens.
BooksAgree ==
    ~failed /\ at = "idle" =>
        /\ active \subseteq pending_requests
        /\ \A s \in BusySlots : slots[s].tokens = generated[slots[s].request]

\* No result is made twice, wrong or out of nothing, though a step that fails
\* may have completed a request before without sending, and will complete it
\* again: once a request has left the engine's map its one result is in the
\* channel, with run_batch_loop, with a caller, or was dropped (by a full
\* channel, or by a loop that failed).  It has all max_tokens tokens (one if
\* none were asked for).
ResultOnce ==
    /\ \A r \in Requests :
        Held(completions, r) + Held(results, r) + received[r] + lost[r]
            = IF r \in created \ pending_requests THEN 1 ELSE 0
    /\ \A x \in completions \cup results : x.tokens = AtLeastOne(MaxTokens[x.request])

\* "Returns every completion that was produced during the loop": if it found
\* the channel empty and the channel holds the results of one batch, a loop
\* that does not fail has a result for every request that was waiting when it
\* began, for run_batch_loop drains the channel after every step.
LoopDelivers ==
    PrefillBatch <= ChannelCap /\ mode = "loop" /\ at = "idle" =>
        \A r \in awaited \ pending_requests : Held(results, r) = 1

\* run_batch_loop returns: it never waits for a request the scheduler will
\* not run.
LoopReturns == mode # "out" ~> mode = "out"
=============================================================================
