----------------------------- MODULE TokenBudget -----------------------------
(* The token-budget scheduler (scheduling/token_budget.rs) and the engine's *)
(* loop over it (run_with_token_budget in engine.rs).  Both are &mut self:  *)
(* requests run one after the other, but what one leaves in the queue the   *)
(* next one finds there.  schedule is cut into the turns of its loop.  The  *)
(* speculative phases are never enqueued; KV blocks, priorities and         *)
(* deadlines of a unit decide nothing.                                      *)
EXTENDS Integers, Sequences

CONSTANTS Requests, NoRequest,
          PromptLen, MaxOutput,  \* of each request
          Budget,                \* max_num_batched_tokens
          MaxSeqs                \* max_num_seqs

ASSUME BudgetAssumption ==
    /\ NoRequest \notin Requests
    /\ PromptLen \in [Requests -> Nat] /\ MaxOutput \in [Requests -> Nat]
    /\ Budget \in Nat \ {0} /\ MaxSeqs \in Nat \ {0}

VARIABLES run_queue,
          active_requests,
          total_budget_tokens,
          request,           \* the call in progress
          generated_tokens,  \* how many tokens it has
          ended,             \* whether the last of them is EOS
          batch,             \* units taken by schedule and not yet executed
          at,                \* where the call stands
          prefilled,         \* history: prompt tokens executed
          dropped,           \* history: prompt tokens that went with a batch that failed
          called             \* requests that were called

vars == <<run_queue, active_requests, total_budget_tokens, request, generated_tokens, ended, batch,
          at, prefilled, dropped, called>>

Unit == [request : Requests, phase : {"Prefill", "Decode"}, span : Nat]
Decode == [request |-> request, phase |-> "Decode", span |-> 1]

\* The prefill units of r in s, and their tokens: s has at most one of them.
PrefillUnits(s, r) == {i \in DOMAIN s : s[i].phase = "Prefill" /\ s[i].request = r}
PrefillTokens(s, r) ==
    IF PrefillUnits(s, r) = {} THEN 0 ELSE s[CHOOSE i \in PrefillUnits(s, r) : TRUE].span

Init ==
    /\ run_queue = << >> /\ batch = << >>
    /\ active_requests = {}
    /\ total_budget_tokens = Budget
    /\ request = NoRequest
    /\ generated_tokens = 0 /\ ended = FALSE
    /\ at = "idle"
    /\ prefilled = [r \in Requests |-> 0]
    /\ dropped = [r \in Requests |-> 0]
    /\ called = {}

-----------------------------------------------------------------------------

\* The prompt is enqueued as one unit.
run_with_token_budget(r) ==
    /\ at = "idle" /\ r \notin called
    /\ run_queue' = Append(run_queue, [request |-> r, phase |-> "Prefill", span |-> PromptLen[r]])
    /\ request' = r
    /\ generated_tokens' = 0 /\ ended' = FALSE
    /\ at' = "loop"
    /\ called' = called \cup {r}
    /\ UNCHANGED <<active_requests, total_budget_tokens, batch, prefilled, dropped>>

\* The call returns; complete is called only when it returns Ok.
Return(completes) ==
    /\ at' = "idle"
    /\ request' = NoRequest
    /\ generated_tokens' = 0 /\ ended' = FALSE
    /\ batch' = << >>
    /\ active_requests' = active_requests \ (IF completes THEN {request} ELSE {})

\* Mutant: the limit is tested with > instead of >=.
MaxReached_OneMore == generated_tokens > MaxOutput[request]
MaxReached == generated_tokens >= MaxOutput[request]

Refreshed == Budget

Loop ==
    /\ at = "loop"
    /\ \/ /\ MaxReached
          /\ Return(TRUE)
          /\ UNCHANGED total_budget_tokens
       \/ /\ ~MaxReached
          /\ total_budget_tokens' = Refreshed
          /\ at' = "schedule"
          /\ UNCHANGED <<active_requests, request, generated_tokens, ended, batch>>
    /\ UNCHANGED <<run_queue, prefilled, dropped, called>>

HasSeat == Len(batch) < MaxSeqs

\* A unit that fits.
ScheduleTake ==
    /\ at = "schedule" /\ run_queue # << >> /\ HasSeat
    /\ LET unit == Head(run_queue)
       IN  /\ unit.span <= total_budget_tokens
           /\ total_budget_tokens' = total_budget_tokens - unit.span
           /\ active_requests' = active_requests \cup {unit.request}
           /\ batch' = Append(batch, unit)
    /\ run_queue' = Tail(run_queue)
    /\ UNCHANGED <<request, generated_tokens, ended, at, prefilled, dropped, called>>

\* Mutants: the rest of a cut unit goes to the back; it keeps its length.
Rest_Back(unit, q) == Append(q, [unit EXCEPT !.span = @ - total_budget_tokens])
Rest_Whole(unit, q) == << unit >> \o q
Rest(unit, q) == << [unit EXCEPT !.span = @ - total_budget_tokens] >> \o q

\* A unit that does not fit is cut: the first part takes what is left of the
\* budget, even nothing, and the rest stays in front.
ScheduleChunk ==
    /\ at = "schedule" /\ run_queue # << >> /\ HasSeat
    /\ LET unit == Head(run_queue)
       IN  /\ unit.span > total_budget_tokens
           /\ batch' = Append(batch, [unit EXCEPT !.span = total_budget_tokens])
           /\ run_queue' = Rest(unit, Tail(run_queue))
    /\ total_budget_tokens' = 0
    /\ at' = "execute"
    /\ UNCHANGED <<active_requests, request, generated_tokens, ended, prefilled, dropped, called>>

\* An empty batch ends the call.
ScheduleEnd ==
    /\ at = "schedule"
    /\ run_queue = << >> \/ ~HasSeat
    /\ \/ /\ batch = << >>
          /\ Return(TRUE)
       \/ /\ batch # << >>
          /\ at' = "execute"
          /\ UNCHANGED <<active_requests, request, generated_tokens, ended, batch>>
    /\ UNCHANGED <<run_queue, total_budget_tokens, prefilled, dropped, called>>

\* Every prefill unit, a part of a cut one too, starts a decode of its own.
ExecutePrefill ==
    /\ at = "execute" /\ batch # << >>
    /\ LET unit == Head(batch)
       IN  /\ unit.phase = "Prefill"
           /\ prefilled' = [prefilled EXCEPT ![unit.request] = @ + unit.span]
    /\ batch' = Tail(batch)
    /\ run_queue' = Append(run_queue, Decode)
    /\ UNCHANGED <<active_requests, total_budget_tokens, request, generated_tokens, ended, at,
                   dropped, called>>

\* Mutant: the last decode is not enqueued.
Continues_OneLess(eos) == ~eos /\ generated_tokens + 2 < MaxOutput[request]
Continues(eos) == ~eos /\ generated_tokens + 1 < MaxOutput[request]

\* Mutant: the token is handed out and not kept.
Pushed_Not == generated_tokens
Pushed == generated_tokens + 1

\* The token counts for the call in progress, whoever's unit it was.
ExecuteDecode(eos) ==
    /\ at = "execute" /\ batch # << >>
    /\ Head(batch).phase = "Decode"
    /\ generated_tokens' = Pushed
    /\ ended' = eos
    /\ run_queue' = IF Continues(eos) THEN Append(run_queue, Decode) ELSE run_queue
    /\ batch' = Tail(batch)
    /\ UNCHANGED <<active_requests, total_budget_tokens, request, at, prefilled, dropped, called>>

\* HybridExecutor::execute fails: the units of the batch are gone, those in
\* the queue stay, and complete is not called.
ExecuteFails ==
    /\ at = "execute" /\ batch # << >>
    /\ Return(FALSE)
    /\ dropped' = [r \in Requests |-> dropped[r] + PrefillTokens(batch, r)]
    /\ UNCHANGED <<run_queue, total_budget_tokens, prefilled, called>>

BatchDone ==
    /\ at = "execute" /\ batch = << >>
    /\ at' = "pressure"
    /\ UNCHANGED <<run_queue, active_requests, total_budget_tokens, request, generated_tokens, ended,
                   batch, prefilled, dropped, called>>

\* check_memory_pressure: an error above 95 % ends the call.
check_memory_pressure(critical) ==
    /\ at = "pressure"
    /\ \/ /\ critical \/ ended
          /\ Return(~critical)
       \/ /\ ~critical /\ ~ended
          /\ at' = "loop"
          /\ UNCHANGED <<active_requests, request, generated_tokens, ended, batch>>
    /\ UNCHANGED <<run_queue, total_budget_tokens, prefilled, dropped, called>>

-----------------------------------------------------------------------------

Step ==
    \/ Loop \/ ScheduleTake \/ ScheduleChunk \/ ScheduleEnd
    \/ ExecutePrefill \/ ExecuteFails \/ BatchDone
    \/ \E b \in BOOLEAN : ExecuteDecode(b) \/ check_memory_pressure(b)

Next == Step \/ \E r \in Requests : run_with_token_budget(r)

Spec == Init /\ [][Next]_vars

\* The thread that called goes on.
FairSpec == Spec /\ WF_vars(Step)

-----------------------------------------------------------------------------
(* Properties.                                                              *)

\* The state keeps its types: the budget stays between 0 and its maximum, and
\* a call in progress has a request.
TypeOK ==
    /\ run_queue \in Seq(Unit) /\ batch \in Seq(Unit)
    /\ active_requests \subseteq Requests /\ called \subseteq Requests
    /\ total_budget_tokens \in 0 .. Budget
    /\ request \in Requests \cup {NoRequest}
    /\ generated_tokens \in Nat /\ ended \in BOOLEAN
    /\ at \in {"idle", "loop", "schedule", "execute", "pressure"}
    /\ at = "idle" <=> request = NoRequest
    /\ prefilled \in [Requests -> Nat] /\ dropped \in [Requests -> Nat]

\* Cutting prompts to the budget neither repeats nor skips a prompt token: a
\* prompt is at most one unit of the queue, its next part at most one of the
\* batch, and what was executed, what waits and what failed add up to it.
PromptConserved ==
    \A r \in called :
        /\ \A s \in {batch, run_queue} : \A i, j \in PrefillUnits(s, r) : i = j
        /\ prefilled[r] + dropped[r] + PrefillTokens(batch, r) + PrefillTokens(run_queue, r)
              = PromptLen[r]

\* No unit of a request decodes before the last part of its prompt: the rest
\* of a cut prompt stays in front of the decodes its earlier parts started.
PrefillFirst ==
    LET units == batch \o run_queue
    IN  \A i, j \in DOMAIN units :
            units[i].phase = "Decode" /\ units[j].phase = "Prefill"
                /\ units[i].request = units[j].request
            => j < i

\* A call never ends because schedule finds nothing: until the limit or EOS
\* is reached there is work in the queue, so a call that returns Ok has
\* generated max_tokens or stopped at EOS.
WorkWaits == at = "schedule" /\ batch = << >> => run_queue # << >>

\* A call may generate more than max_tokens, because the limit is tested once
\* per batch and every part of a cut prompt decodes on its own; it never
\* generates max_num_seqs too many.
OverrunBounded ==
    /\ Len(batch) <= MaxSeqs
    /\ request # NoRequest => generated_tokens < MaxOutput[request] + MaxSeqs

\* Every call returns, whatever earlier calls left in the queue.
CallReturns == at # "idle" ~> at = "idle"
=============================================================================
