------------------------- MODULE TokenBudget_proofs -------------------------
(* Proofs about TokenBudget, for every set of requests, prompt and output   *)
(* length, budget and number of sequences.                                  *)
EXTENDS TokenBudget, TLAPS, SequenceTheorems

\* What the tail of the batch still may add to the tokens of the call.
Seats ==
    /\ Len(batch) <= MaxSeqs
    /\ at \in {"idle", "loop", "pressure"} => batch = << >>
    /\ at = "schedule" => generated_tokens < MaxOutput[request]
    /\ at # "idle" => generated_tokens + Len(batch) < MaxOutput[request] + MaxSeqs

\* While the call has neither its tokens nor EOS there is a unit to run.
Work ==
    /\ at \in {"loop", "schedule"} => ~ended
    /\ at # "idle" => MaxReached \/ ended \/ batch # << >> \/ run_queue # << >>

\* The inductive invariant.
IInv == TypeOK /\ Seats /\ Work

-----------------------------------------------------------------------------

\* A new scheduler satisfies the invariant.
LEMMA Initially == Init => IInv
  <1> SUFFICES ASSUME Init PROVE IInv
    OBVIOUS
  <1>1. << >> \in Seq(Unit) /\ Len(<< >>) = 0
    OBVIOUS
  <1>2. [r \in Requests |-> 0] \in [Requests -> Nat] /\ Budget \in 0 .. Budget
    BY BudgetAssumption
  <1>3. TypeOK
    BY <1>1, <1>2, BudgetAssumption DEF Init, TypeOK
  <1>4. Seats /\ Work
    BY <1>1, BudgetAssumption DEF Init, Seats, Work
  <1> QED BY <1>3, <1>4 DEF IInv

\* The tokens of a sequence of units are a number.
LEMMA TokensAreNat ==
    ASSUME NEW s \in Seq(Unit), NEW r
    PROVE  PrefillTokens(s, r) \in Nat
  <1> DEFINE i == CHOOSE i \in PrefillUnits(s, r) : TRUE
  <1>1. CASE PrefillUnits(s, r) = {}
    BY <1>1 DEF PrefillTokens
  <1>2. CASE PrefillUnits(s, r) # {}
    <2>1. i \in PrefillUnits(s, r)
      BY <1>2
    <2>2. s[i] \in Unit
      BY <2>1 DEF PrefillUnits
    <2> QED BY <1>2, <2>2 DEF PrefillTokens, Unit
  <1> QED BY <1>1, <1>2

\* enqueue_decode makes a unit.
LEMMA DecodeUnit ==
    ASSUME TypeOK, request # NoRequest
    PROVE  Decode \in Unit
  BY DEF TypeOK, Decode, Unit

\* A call brings its prompt as work.
LEMMA CallStep ==
    ASSUME IInv, NEW r \in Requests, run_with_token_budget(r)
    PROVE  IInv'
  <1> DEFINE unit == [request |-> r, phase |-> "Prefill", span |-> PromptLen[r]]
  <1>1. unit \in Unit
    BY BudgetAssumption DEF Unit
  <1>2. run_queue' = Append(run_queue, unit) /\ run_queue \in Seq(Unit)
    BY DEF IInv, TypeOK, run_with_token_budget
  <1> HIDE DEF unit
  <1>3. run_queue' \in Seq(Unit) /\ run_queue' # << >>
    BY <1>1, <1>2
  <1>4. TypeOK'
    BY <1>3, BudgetAssumption DEF IInv, TypeOK, run_with_token_budget
  <1>5. Seats'
    BY BudgetAssumption DEF IInv, TypeOK, Seats, run_with_token_budget
  <1>6. Work'
    BY <1>3 DEF Work, run_with_token_budget
  <1> QED BY <1>4, <1>5, <1>6 DEF IInv

\* A call that returns leaves an empty batch.
LEMMA ReturnStep ==
    ASSUME IInv, NEW c \in BOOLEAN, Return(c),
           run_queue' \in Seq(Unit), total_budget_tokens' \in 0 .. Budget,
           prefilled' = prefilled, dropped' \in [Requests -> Nat], called' = called
    PROVE  IInv'
  <1>1. << >> \in Seq(Unit) /\ Len(<< >>) = 0 /\ request \in Requests \cup {NoRequest}
    BY DEF IInv, TypeOK
  <1>2. active_requests' \subseteq Requests
    BY DEF IInv, TypeOK, Return
  <1>3. TypeOK'
    BY <1>1, <1>2, BudgetAssumption DEF IInv, TypeOK, Return
  <1>4. Seats'
    BY <1>1, BudgetAssumption DEF Seats, Return
  <1>5. Work'
    BY DEF Work, Return
  <1> QED BY <1>3, <1>4, <1>5 DEF IInv

\* A call below its limit goes on with a full budget.
LEMMA LoopStep == IInv /\ Loop => IInv'
  <1> SUFFICES ASSUME IInv, Loop PROVE IInv'
    OBVIOUS
  <1>1. CASE MaxReached /\ Return(TRUE) /\ UNCHANGED total_budget_tokens
    BY <1>1, ReturnStep DEF IInv, TypeOK, Loop
  <1>2. CASE /\ ~MaxReached
             /\ total_budget_tokens' = Refreshed
             /\ at' = "schedule"
             /\ UNCHANGED <<active_requests, request, generated_tokens, ended, batch>>
    <2>1. UNCHANGED <<run_queue, prefilled, dropped, called>>
      BY DEF Loop
    <2>2. TypeOK' /\ request \in Requests /\ at = "loop"
      BY <1>2, <2>1, BudgetAssumption DEF IInv, TypeOK, Loop, Refreshed
    <2>3. Seats'
      BY <1>2, <2>2, BudgetAssumption DEF IInv, TypeOK, Seats, MaxReached
    <2>4. Work'
      BY <1>2, <2>1, <2>2 DEF IInv, Work, MaxReached
    <2> QED BY <2>2, <2>3, <2>4 DEF IInv
  <1> QED BY <1>1, <1>2 DEF Loop

\* A unit that fits keeps the budget above zero.
LEMMA TakeStep == IInv /\ ScheduleTake => IInv'
  <1> SUFFICES ASSUME IInv, ScheduleTake PROVE IInv'
    OBVIOUS
  <1>1. PICK unit \in Unit : unit = Head(run_queue)
    BY DEF IInv, TypeOK, ScheduleTake
  <1>2. /\ unit.span \in Nat /\ unit.request \in Requests
        /\ unit.span <= total_budget_tokens
        /\ total_budget_tokens' = total_budget_tokens - unit.span
        /\ active_requests' = active_requests \cup {unit.request}
        /\ batch' = Append(batch, unit)
    BY <1>1 DEF ScheduleTake, Unit
  <1>3. /\ run_queue' \in Seq(Unit)
        /\ batch \in Seq(Unit) /\ batch' \in Seq(Unit) /\ Len(batch') = Len(batch) + 1
    BY <1>2 DEF IInv, TypeOK, ScheduleTake
  <1>4. TypeOK'
    <2>0. total_budget_tokens \in 0 .. Budget /\ Budget \in Nat
      BY BudgetAssumption DEF IInv, TypeOK
    <2>1. total_budget_tokens' \in 0 .. Budget
      BY <1>2, <2>0
    <2>2. active_requests' \subseteq Requests
      BY <1>2 DEF IInv, TypeOK
    <2> QED BY <1>3, <2>1, <2>2 DEF IInv, TypeOK, ScheduleTake
  <1>5. Seats'
    BY <1>3, BudgetAssumption DEF IInv, TypeOK, Seats, ScheduleTake, HasSeat
  <1>6. Work'
    BY <1>3 DEF IInv, Work, ScheduleTake
  <1> QED BY <1>4, <1>5, <1>6 DEF IInv

\* A unit that is cut leaves its rest as work.
LEMMA ChunkStep == IInv /\ ScheduleChunk => IInv'
  <1> SUFFICES ASSUME IInv, ScheduleChunk PROVE IInv'
    OBVIOUS
  <1>1. PICK unit \in Unit : unit = Head(run_queue)
    BY DEF IInv, TypeOK, ScheduleChunk
  <1> DEFINE first == [unit EXCEPT !.span = total_budget_tokens]
             rest == [unit EXCEPT !.span = @ - total_budget_tokens]
  <1>2. /\ unit.span > total_budget_tokens /\ total_budget_tokens \in Nat
        /\ batch' = Append(batch, first)
        /\ run_queue' = << rest >> \o Tail(run_queue)
    BY <1>1, BudgetAssumption DEF IInv, TypeOK, ScheduleChunk, Rest
  <1>3. first \in Unit /\ rest \in Unit
    <2>1. unit.span \in Nat /\ unit.span - total_budget_tokens \in Nat
      BY <1>2 DEF Unit
    <2>2. first \in Unit
      BY <1>2 DEF Unit
    <2>3. rest \in Unit
      BY <2>1 DEF Unit
    <2> QED BY <2>2, <2>3
  <1> HIDE DEF first, rest
  <1>4. /\ run_queue' \in Seq(Unit)
        /\ batch \in Seq(Unit) /\ batch' \in Seq(Unit) /\ Len(batch') = Len(batch) + 1
    <2>1. run_queue \in Seq(Unit) /\ run_queue # << >> /\ batch \in Seq(Unit)
      BY DEF IInv, TypeOK, ScheduleChunk
    <2>2. Tail(run_queue) \in Seq(Unit) /\ << rest >> \in Seq(Unit)
      BY <1>3, <2>1
    <2>3. run_queue' \in Seq(Unit)
      BY <1>2, <2>2, ConcatProperties
    <2> QED BY <1>2, <1>3, <2>1, <2>3
  <1>5. TypeOK'
    BY <1>4, BudgetAssumption DEF IInv, TypeOK, ScheduleChunk
  <1>6. Seats'
    BY <1>4, BudgetAssumption DEF IInv, TypeOK, Seats, ScheduleChunk, HasSeat
  <1>7. Work'
    BY <1>4 DEF IInv, Work, ScheduleChunk
  <1> QED BY <1>5, <1>6, <1>7 DEF IInv

\* schedule ends with a batch within max_num_seqs.
LEMMA EndStep == IInv /\ ScheduleEnd => IInv'
  <1> SUFFICES ASSUME IInv, ScheduleEnd PROVE IInv'
    OBVIOUS
  <1>1. CASE Return(TRUE)
    BY <1>1, ReturnStep DEF IInv, TypeOK, ScheduleEnd
  <1>2. CASE /\ batch # << >>
             /\ at' = "execute"
             /\ UNCHANGED <<active_requests, request, generated_tokens, ended, batch>>
    BY <1>2 DEF IInv, TypeOK, Seats, Work, MaxReached, ScheduleEnd
  <1> QED BY <1>1, <1>2 DEF ScheduleEnd

\* A prefill leaves a decode as work.
LEMMA PrefillStep == IInv /\ ExecutePrefill => IInv'
  <1> SUFFICES ASSUME IInv, ExecutePrefill PROVE IInv'
    OBVIOUS
  <1>1. PICK unit \in Unit : unit = Head(batch)
    BY DEF IInv, TypeOK, ExecutePrefill
  <1>2. /\ unit.span \in Nat /\ unit.request \in Requests
        /\ prefilled' = [prefilled EXCEPT ![unit.request] = @ + unit.span]
    BY <1>1 DEF ExecutePrefill, Unit
  <1>3. Decode \in Unit
    BY DecodeUnit DEF IInv, TypeOK, ExecutePrefill
  <1>4. run_queue' \in Seq(Unit) /\ run_queue' # << >>
    BY <1>3 DEF IInv, TypeOK, ExecutePrefill
  <1>5. batch \in Seq(Unit) /\ batch' \in Seq(Unit) /\ Len(batch') = Len(batch) - 1
    BY DEF IInv, TypeOK, ExecutePrefill
  <1>6. TypeOK'
    <2>1. prefilled' \in [Requests -> Nat]
      BY <1>2 DEF IInv, TypeOK
    <2> QED BY <1>4, <1>5, <2>1 DEF IInv, TypeOK, ExecutePrefill
  <1>7. Seats'
    <2>1. /\ at = "execute" /\ request \in Requests /\ generated_tokens \in Nat
          /\ UNCHANGED <<at, request, generated_tokens>>
      BY DEF IInv, TypeOK, ExecutePrefill
    <2> QED BY <1>5, <2>1, BudgetAssumption DEF IInv, Seats
  <1>8. Work'
    BY <1>4 DEF IInv, Work, ExecutePrefill
  <1> QED BY <1>6, <1>7, <1>8 DEF IInv

\* A decode below the limit leaves another, or the call ends at EOS.
LEMMA DecodeStep ==
    ASSUME IInv, NEW eos \in BOOLEAN, ExecuteDecode(eos)
    PROVE  IInv'
  <1>1. Decode \in Unit /\ request \in Requests
    BY DecodeUnit DEF IInv, TypeOK, ExecuteDecode
  <1>2. run_queue' \in Seq(Unit) /\ (Continues(eos) => run_queue' # << >>)
    <2>1. /\ run_queue \in Seq(Unit)
          /\ run_queue' = IF Continues(eos) THEN Append(run_queue, Decode) ELSE run_queue
      BY DEF IInv, TypeOK, ExecuteDecode
    <2>2. Append(run_queue, Decode) \in Seq(Unit) /\ Append(run_queue, Decode) # << >>
      BY <1>1, <2>1, AppendProperties
    <2> QED BY <2>1, <2>2
  <1>3. batch \in Seq(Unit) /\ batch' \in Seq(Unit) /\ Len(batch') = Len(batch) - 1
    BY DEF IInv, TypeOK, ExecuteDecode
  <1>4. TypeOK'
    BY <1>2, <1>3 DEF IInv, TypeOK, ExecuteDecode, Pushed
  <1>5. Seats'
    BY <1>1, <1>3, BudgetAssumption DEF IInv, TypeOK, Seats, ExecuteDecode, Pushed
  <1>6. Work'
    BY <1>1, <1>2, BudgetAssumption
       DEF IInv, TypeOK, Work, ExecuteDecode, Pushed, Continues, MaxReached
  <1> QED BY <1>4, <1>5, <1>6 DEF IInv

\* An execution that fails ends the call.
LEMMA FailsStep == IInv /\ ExecuteFails => IInv'
  <1> SUFFICES ASSUME IInv, ExecuteFails PROVE IInv'
    OBVIOUS
  <1>1. dropped' \in [Requests -> Nat]
    BY TokensAreNat DEF IInv, TypeOK, ExecuteFails
  <1> QED BY <1>1, ReturnStep DEF IInv, TypeOK, ExecuteFails

\* The batch is done.
LEMMA DoneStep == IInv /\ BatchDone => IInv'
  BY DEF IInv, TypeOK, Seats, Work, MaxReached, BatchDone

\* check_memory_pressure ends the call or lets it go on.
LEMMA PressureStep ==
    ASSUME IInv, NEW critical \in BOOLEAN, check_memory_pressure(critical)
    PROVE  IInv'
  <1>1. CASE Return(~critical)
    BY <1>1, ReturnStep DEF IInv, TypeOK, check_memory_pressure
  <1>2. CASE /\ ~critical /\ ~ended
             /\ at' = "loop"
             /\ UNCHANGED <<active_requests, request, generated_tokens, ended, batch>>
    BY <1>2 DEF IInv, TypeOK, Seats, Work, MaxReached, check_memory_pressure
  <1> QED BY <1>1, <1>2 DEF check_memory_pressure

\* A step of nobody keeps the invariant.
LEMMA Stutter == IInv /\ UNCHANGED vars => IInv'
  BY DEF vars, IInv, TypeOK, Seats, Work, MaxReached

\* Every step of the scheduler and of the loop over it keeps the invariant.
THEOREM Inductive == Spec => []IInv
  <1>1. IInv /\ [Next]_vars => IInv'
    <2> SUFFICES ASSUME IInv, [Next]_vars PROVE IInv'
      OBVIOUS
    <2>1. ASSUME Step PROVE IInv'
      BY <2>1, LoopStep, TakeStep, ChunkStep, EndStep, PrefillStep, FailsStep, DoneStep,
         DecodeStep, PressureStep DEF Step
    <2>2. ASSUME NEW r \in Requests, run_with_token_budget(r) PROVE IInv'
      BY <2>2, CallStep
    <2> QED BY <2>1, <2>2, Stutter DEF Next
  <1> QED BY Initially, <1>1, PTL DEF Spec

\* Every variable keeps its type: a budget never goes below zero or above
\* max_num_batched_tokens, and no unit has a negative span.
THEOREM TypeCorrect == Spec => []TypeOK
  <1>1. IInv => TypeOK
    BY DEF IInv
  <1> QED BY Inductive, <1>1, PTL

\* schedule never returns an empty batch to run_with_token_budget: a call that
\* returns Ok has generated max_tokens or stopped at EOS.
THEOREM WorkAlwaysWaits == Spec => []WorkWaits
  <1>1. IInv => WorkWaits
    BY BudgetAssumption DEF IInv, TypeOK, Seats, Work, WorkWaits, MaxReached
  <1> QED BY Inductive, <1>1, PTL

\* A batch has at most max_num_seqs units and a call generates fewer than
\* max_tokens + max_num_seqs tokens.
THEOREM Overrun == Spec => []OverrunBounded
  <1>1. IInv => OverrunBounded
    BY BudgetAssumption DEF IInv, TypeOK, Seats, OverrunBounded
  <1> QED BY Inductive, <1>1, PTL

-----------------------------------------------------------------------------
(* Prompts are cut without loss.                                            *)

IsPrefill(u, r) == u.phase = "Prefill" /\ u.request = r

AtMostOne(s, r) == \A i, j \in PrefillUnits(s, r) : i = j

\* The prompt tokens of one unit.
TokensOf(u, r) == IF IsPrefill(u, r) THEN u.span ELSE 0

\* PrefillTokens is the span of the one prefill unit there is.
LEMMA TokensAt ==
    ASSUME NEW s \in Seq(Unit), NEW r, AtMostOne(s, r), NEW i \in PrefillUnits(s, r)
    PROVE  PrefillTokens(s, r) = s[i].span
  <1>1. i = CHOOSE k \in PrefillUnits(s, r) : TRUE
    BY DEF AtMostOne
  <1> QED BY <1>1 DEF PrefillTokens

\* Without one there are none.
LEMMA NoTokens ==
    ASSUME NEW s, NEW r, PrefillUnits(s, r) = {}
    PROVE  PrefillTokens(s, r) = 0 /\ AtMostOne(s, r)
  BY DEF PrefillTokens, AtMostOne

\* A unit at the back adds its tokens.
LEMMA AppendUnit ==
    ASSUME NEW s \in Seq(Unit), NEW u \in Unit, NEW r, AtMostOne(s, r),
           IsPrefill(u, r) => PrefillUnits(s, r) = {}
    PROVE  /\ AtMostOne(Append(s, u), r)
           /\ PrefillTokens(Append(s, u), r) = PrefillTokens(s, r) + TokensOf(u, r)
           /\ PrefillUnits(Append(s, u), r) = {} <=> PrefillUnits(s, r) = {} /\ ~IsPrefill(u, r)
  <1> DEFINE t == Append(s, u)
  <1>1. /\ t \in Seq(Unit) /\ DOMAIN t = 1 .. Len(s) + 1 /\ DOMAIN s = 1 .. Len(s)
        /\ t[Len(s) + 1] = u /\ \A i \in 1 .. Len(s) : t[i] = s[i]
        /\ Len(s) \in Nat
    BY AppendProperties
  <1> HIDE DEF t
  <1>2. CASE IsPrefill(u, r)
    <2>1. PrefillUnits(t, r) = {Len(s) + 1}
      BY <1>1, <1>2 DEF PrefillUnits, IsPrefill
    <2>2. AtMostOne(t, r)
      BY <2>1 DEF AtMostOne
    <2>3. PrefillTokens(t, r) = u.span /\ u.span \in Nat
      BY <1>1, <2>1, <2>2, TokensAt DEF Unit
    <2>4. PrefillTokens(s, r) = 0
      BY <1>2, NoTokens
    <2> QED BY <1>2, <2>1, <2>2, <2>3, <2>4 DEF t, TokensOf
  <1>3. CASE ~IsPrefill(u, r)
    <2>1. PrefillUnits(t, r) = PrefillUnits(s, r)
      BY <1>1, <1>3 DEF PrefillUnits, IsPrefill
    <2>2. AtMostOne(t, r)
      BY <2>1 DEF AtMostOne
    <2>3. PrefillTokens(t, r) = PrefillTokens(s, r)
      <3>1. CASE PrefillUnits(s, r) = {}
        BY <2>1, <3>1, NoTokens
      <3>2. ASSUME NEW i \in PrefillUnits(s, r) PROVE PrefillTokens(t, r) = PrefillTokens(s, r)
        <4>1. t[i] = s[i]
          BY <1>1, <3>2 DEF PrefillUnits
        <4> QED BY <1>1, <2>1, <2>2, <3>2, <4>1, TokensAt
      <3> QED BY <3>1, <3>2
    <2> QED BY <1>3, <2>1, <2>2, <2>3, TokensAreNat DEF t, TokensOf
  <1> QED BY <1>2, <1>3

\* A unit that leaves the front takes its tokens along.
LEMMA TailUnit ==
    ASSUME NEW s \in Seq(Unit), s # << >>, NEW r, AtMostOne(s, r)
    PROVE  /\ AtMostOne(Tail(s), r)
           /\ PrefillTokens(s, r) = PrefillTokens(Tail(s), r) + TokensOf(Head(s), r)
           /\ IsPrefill(Head(s), r) \/ PrefillUnits(s, r) = {} => PrefillUnits(Tail(s), r) = {}
           /\ IsPrefill(Head(s), r) => PrefillUnits(s, r) # {}
  <1> DEFINE t == Tail(s)
             n == Len(s)
  <1>1. /\ t \in Seq(Unit) /\ n \in Nat \ {0} /\ DOMAIN t = 1 .. n - 1 /\ DOMAIN s = 1 .. n
        /\ Head(s) = s[1] /\ s[1] \in Unit
        /\ \A i \in 1 .. n - 1 : t[i] = s[i + 1]
    BY HeadTailProperties
  <1> HIDE DEF t, n
  <1>2. \A i \in PrefillUnits(t, r) : i \in Nat /\ i + 1 \in PrefillUnits(s, r) /\ t[i] = s[i + 1]
    BY <1>1 DEF PrefillUnits
  <1>3. AtMostOne(t, r)
    <2> SUFFICES ASSUME NEW i \in PrefillUnits(t, r), NEW j \in PrefillUnits(t, r) PROVE i = j
      BY DEF AtMostOne
    <2>1. i + 1 = j + 1 /\ i \in Nat /\ j \in Nat
      BY <1>2 DEF AtMostOne
    <2> QED BY <2>1
  <1>4. CASE IsPrefill(Head(s), r)
    <2>1. 1 \in PrefillUnits(s, r)
      BY <1>1, <1>4 DEF PrefillUnits, IsPrefill
    <2>2. PrefillUnits(t, r) = {}
      <3> SUFFICES ASSUME NEW i \in PrefillUnits(t, r) PROVE FALSE
        OBVIOUS
      <3>1. i + 1 = 1 /\ i \in 1 .. n - 1
        BY <1>1, <1>2, <2>1 DEF AtMostOne, PrefillUnits
      <3> QED BY <1>1, <3>1
    <2>3. PrefillTokens(t, r) = 0 /\ PrefillTokens(s, r) = s[1].span /\ s[1].span \in Nat
      BY <1>1, <2>1, <2>2, NoTokens, TokensAt DEF Unit
    <2> QED BY <1>1, <1>3, <1>4, <2>1, <2>2, <2>3 DEF t, TokensOf
  <1>5. CASE ~IsPrefill(Head(s), r)
    <2>1. \A i \in PrefillUnits(s, r) : i - 1 \in PrefillUnits(t, r) /\ t[i - 1] = s[i]
      <3> SUFFICES ASSUME NEW i \in PrefillUnits(s, r)
                   PROVE  i - 1 \in PrefillUnits(t, r) /\ t[i - 1] = s[i]
        OBVIOUS
      <3>1. i \in 1 .. n /\ s[i].phase = "Prefill" /\ s[i].request = r
        BY <1>1 DEF PrefillUnits
      <3>2. i # 1
        BY <1>1, <1>5, <3>1 DEF IsPrefill
      <3>3. i - 1 \in 1 .. n - 1 /\ (i - 1) + 1 = i
        BY <1>1, <3>1, <3>2
      <3>4. t[i - 1] = s[i]
        BY <1>1, <3>3
      <3> QED BY <1>1, <3>1, <3>3, <3>4 DEF PrefillUnits
    <2>2. PrefillTokens(t, r) = PrefillTokens(s, r)
      <3>1. CASE PrefillUnits(s, r) = {}
        <4>1. PrefillUnits(t, r) = {}
          BY <1>2, <3>1
        <4> QED BY <3>1, <4>1, NoTokens
      <3>2. ASSUME NEW i \in PrefillUnits(s, r) PROVE PrefillTokens(t, r) = PrefillTokens(s, r)
        <4>1. PrefillTokens(s, r) = s[i].span
          BY <3>2, TokensAt
        <4>2. PrefillTokens(t, r) = t[i - 1].span
          BY <1>1, <1>3, <2>1, <3>2, TokensAt
        <4> QED BY <2>1, <3>2, <4>1, <4>2
      <3> QED BY <3>1, <3>2
    <2>3. PrefillUnits(s, r) = {} => PrefillUnits(t, r) = {}
      BY <1>2
    <2> QED BY <1>3, <1>5, <2>2, <2>3, TokensAreNat DEF t, TokensOf
  <1> QED BY <1>4, <1>5

\* A unit that is cut in place loses the tokens of its first part.
LEMMA CutUnit ==
    ASSUME NEW s \in Seq(Unit), s # << >>, NEW rest \in Unit, NEW r, AtMostOne(s, r),
           rest.request = Head(s).request, rest.phase = Head(s).phase
    PROVE  LET t == << rest >> \o Tail(s)
           IN  /\ AtMostOne(t, r)
               /\ PrefillTokens(t, r) =
                     PrefillTokens(s, r) - TokensOf(Head(s), r) + TokensOf(rest, r)
  <1> DEFINE t == << rest >> \o Tail(s)
             n == Len(s)
  <1>1. /\ t \in Seq(Unit) /\ n \in Nat \ {0} /\ DOMAIN t = 1 .. n /\ DOMAIN s = 1 .. n
        /\ Head(s) = s[1] /\ s[1] \in Unit /\ t[1] = rest
        /\ \A i \in 1 .. n : i # 1 => t[i] = s[i]
    <2>1. /\ n \in Nat \ {0} /\ DOMAIN s = 1 .. n /\ Head(s) = s[1] /\ s[1] \in Unit
          /\ Tail(s) \in Seq(Unit) /\ Len(Tail(s)) = n - 1
          /\ \A i \in 1 .. n - 1 : Tail(s)[i] = s[i + 1]
      BY HeadTailProperties
    <2>2. << rest >> \in Seq(Unit) /\ Len(<< rest >>) = 1 /\ << rest >>[1] = rest
      OBVIOUS
    <2>3. /\ t \in Seq(Unit) /\ Len(t) = n
          /\ \A i \in 1 .. n : t[i] = IF i <= 1 THEN << rest >>[i] ELSE Tail(s)[i - 1]
      BY <2>1, <2>2, ConcatProperties
    <2> HIDE DEF t, n
    <2>4. \A i \in 1 .. n : i # 1 => t[i] = s[i]
      <3> SUFFICES ASSUME NEW i \in 1 .. n, i # 1 PROVE t[i] = s[i]
        OBVIOUS
      <3>1. i - 1 \in 1 .. n - 1 /\ (i - 1) + 1 = i /\ ~(i <= 1)
        BY <2>1
      <3> QED BY <2>1, <2>3, <3>1
    <2>5. 1 \in 1 .. n /\ DOMAIN t = 1 .. n
      BY <2>1, <2>3
    <2> QED BY <2>1, <2>2, <2>3, <2>4, <2>5
  <1> HIDE DEF t, n
  <1>2. PrefillUnits(t, r) = PrefillUnits(s, r)
    <2> SUFFICES ASSUME NEW i \in 1 .. n
                 PROVE  t[i].phase = s[i].phase /\ t[i].request = s[i].request
      BY <1>1 DEF PrefillUnits
    <2> QED BY <1>1
  <1>3. AtMostOne(t, r)
    BY <1>2 DEF AtMostOne
  <1>4. IsPrefill(rest, r) <=> IsPrefill(Head(s), r)
    BY DEF IsPrefill
  <1>5. rest.span \in Nat /\ Head(s).span \in Nat
    BY <1>1 DEF Unit
  <1>6. CASE IsPrefill(Head(s), r)
    <2>1. 1 \in PrefillUnits(s, r) /\ 1 \in PrefillUnits(t, r)
      BY <1>1, <1>2, <1>6 DEF PrefillUnits, IsPrefill
    <2>2. PrefillTokens(s, r) = Head(s).span /\ PrefillTokens(t, r) = rest.span
      BY <1>1, <1>3, <2>1, TokensAt
    <2> QED BY <1>3, <1>4, <1>5, <1>6, <2>2 DEF t, TokensOf
  <1>7. CASE ~IsPrefill(Head(s), r)
    <2>1. PrefillTokens(t, r) = PrefillTokens(s, r)
      <3>1. CASE PrefillUnits(s, r) = {}
        BY <1>2, <3>1, NoTokens
      <3>2. ASSUME NEW i \in PrefillUnits(s, r) PROVE PrefillTokens(t, r) = PrefillTokens(s, r)
        <4>1. i \in 1 .. n /\ i # 1
          BY <1>1, <1>7, <3>2 DEF PrefillUnits, IsPrefill
        <4>2. t[i] = s[i]
          BY <1>1, <4>1
        <4> QED BY <1>1, <1>2, <1>3, <3>2, <4>2, TokensAt
      <3> QED BY <3>1, <3>2
    <2> QED BY <1>3, <1>4, <1>7, <2>1, TokensAreNat DEF t, TokensOf
  <1> QED BY <1>6, <1>7

\* What was executed, what failed and what waits of a prompt.
Accounted(r) ==
    prefilled[r] + dropped[r] + PrefillTokens(batch, r) + PrefillTokens(run_queue, r)

\* The units of s belong to requests of C.
Known(s, C) == \A i \in 1 .. Len(s) : s[i].request \in C

\* A request has units only once it was called, and while schedule fills the
\* batch its prompt is not in both: only the last unit taken is ever cut.
PromptInv ==
    /\ request # NoRequest => request \in called
    /\ Known(batch, called) /\ Known(run_queue, called)
    /\ \A r \in Requests : AtMostOne(batch, r) /\ AtMostOne(run_queue, r)
    /\ \A r \in Requests : Accounted(r) = IF r \in called THEN PromptLen[r] ELSE 0
    /\ at = "schedule" =>
          \A r \in Requests : PrefillUnits(batch, r) = {} \/ PrefillUnits(run_queue, r) = {}

\* Units that come, go and are cut belong to called requests.
LEMMA KnownUnits ==
    ASSUME NEW s \in Seq(Unit), NEW C, Known(s, C)
    PROVE  /\ \A u \in Unit : u.request \in C => Known(Append(s, u), C)
           /\ s # << >> => /\ Head(s).request \in C
                           /\ Known(Tail(s), C)
                           /\ \A u \in Unit : u.request \in C => Known(<< u >> \o Tail(s), C)
  <1>1. ASSUME NEW u \in Unit, u.request \in C PROVE Known(Append(s, u), C)
    BY <1>1, AppendProperties DEF Known
  <1>2. ASSUME s # << >> PROVE Head(s).request \in C /\ Known(Tail(s), C)
    <2>1. /\ Len(s) \in Nat \ {0} /\ Head(s) = s[1] /\ Len(Tail(s)) = Len(s) - 1
          /\ \A i \in 1 .. Len(s) - 1 : Tail(s)[i] = s[i + 1]
      BY <1>2, HeadTailProperties
    <2> QED BY <2>1 DEF Known
  <1>3. ASSUME s # << >>, NEW u \in Unit, u.request \in C PROVE Known(<< u >> \o Tail(s), C)
    <2>1. /\ Tail(s) \in Seq(Unit) /\ << u >> \in Seq(Unit)
          /\ Len(<< u >>) = 1 /\ << u >>[1] = u
      BY <1>3
    <2>2. Len(<< u >> \o Tail(s)) = 1 + Len(Tail(s)) /\ Len(Tail(s)) \in Nat
      BY <2>1, ConcatProperties
    <2>3. \A i \in 1 .. 1 + Len(Tail(s)) :
             (<< u >> \o Tail(s))[i] = IF i <= 1 THEN << u >>[i] ELSE Tail(s)[i - 1]
      BY <2>1, ConcatProperties
    <2>4. ASSUME NEW i \in 1 .. 1 + Len(Tail(s)) PROVE (<< u >> \o Tail(s))[i].request \in C
      <3>1. CASE i = 1
        BY <1>3, <2>1, <2>2, <2>3, <3>1
      <3>2. CASE i # 1
        <4>1. i - 1 \in 1 .. Len(Tail(s)) /\ ~(i <= 1)
          BY <2>2, <3>2
        <4> QED BY <1>2, <1>3, <2>3, <4>1 DEF Known
      <3> QED BY <3>1, <3>2
    <2> QED BY <2>2, <2>4 DEF Known
  <1> QED BY <1>1, <1>2, <1>3

\* A request that was not called has no unit.
LEMMA UnknownHasNone ==
    ASSUME NEW s \in Seq(Unit), NEW C, Known(s, C), NEW r, r \notin C
    PROVE  PrefillUnits(s, r) = {}
  BY DEF Known, PrefillUnits

\* A step that leaves the units alone.
LEMMA UnitsAlone ==
    ASSUME IInv, PromptInv, UNCHANGED <<batch, run_queue, prefilled, dropped, called>>,
           request' \in {request, NoRequest}, at' = "schedule" => at = "schedule" \/ batch = << >>
    PROVE  PromptInv'
  <1>1. batch = << >> => \A r \in Requests : PrefillUnits(batch, r) = {}
    BY DEF PrefillUnits
  <1>2. \A r \in Requests : Accounted(r)' = Accounted(r)
    BY DEF Accounted
  <1>3. at' = "schedule" =>
          \A r \in Requests : PrefillUnits(batch, r) = {} \/ PrefillUnits(run_queue, r) = {}
    BY <1>1 DEF PromptInv
  <1> QED BY <1>2, <1>3 DEF PromptInv

\* A new prompt is whole and waits at the back.
LEMMA CallPrompt ==
    ASSUME IInv, PromptInv, NEW r \in Requests, run_with_token_budget(r)
    PROVE  PromptInv'
  <1> DEFINE unit == [request |-> r, phase |-> "Prefill", span |-> PromptLen[r]]
  <1>1. unit \in Unit /\ unit.request = r /\ unit.phase = "Prefill" /\ unit.span = PromptLen[r]
    BY BudgetAssumption DEF Unit
  <1>2. /\ r \notin called /\ called' = called \cup {r} /\ request' = r /\ at' = "loop"
        /\ run_queue' = Append(run_queue, unit) /\ run_queue \in Seq(Unit) /\ batch \in Seq(Unit)
        /\ UNCHANGED <<batch, prefilled, dropped>>
    BY DEF IInv, TypeOK, run_with_token_budget
  <1> HIDE DEF unit
  <1>3. Known(batch, called') /\ Known(run_queue, called')
    BY <1>2 DEF PromptInv, Known
  <1>4. Known(batch', called') /\ Known(run_queue', called')
    BY <1>1, <1>2, <1>3, KnownUnits
  <1>5. ASSUME NEW q \in Requests
        PROVE  /\ AtMostOne(batch', q) /\ AtMostOne(run_queue', q)
               /\ Accounted(q)' = IF q \in called' THEN PromptLen[q] ELSE 0
    <2>1. AtMostOne(batch, q) /\ AtMostOne(run_queue, q)
      BY DEF PromptInv
    <2>2. IsPrefill(unit, q) <=> q = r
      BY <1>1 DEF IsPrefill
    <2>3. IsPrefill(unit, q) => PrefillUnits(run_queue, q) = {}
      BY <1>2, <2>2, UnknownHasNone DEF PromptInv
    <2>4. /\ AtMostOne(run_queue', q)
          /\ PrefillTokens(run_queue', q) = PrefillTokens(run_queue, q) + TokensOf(unit, q)
      BY <1>1, <1>2, <2>1, <2>3, AppendUnit
    <2>5. /\ prefilled[q] \in Nat /\ dropped[q] \in Nat /\ PromptLen[q] \in Nat
          /\ PrefillTokens(batch, q) \in Nat /\ PrefillTokens(run_queue, q) \in Nat
      BY <1>2, TokensAreNat, BudgetAssumption DEF IInv, TypeOK
    <2>6. Accounted(q) = IF q \in called THEN PromptLen[q] ELSE 0
      BY DEF PromptInv
    <2>7. TokensOf(unit, q) = IF q = r THEN PromptLen[q] ELSE 0
      BY <1>1, <2>2 DEF TokensOf
    <2>8. Accounted(q)' = Accounted(q) + TokensOf(unit, q)
      BY <1>2, <2>4, <2>5, <2>7 DEF Accounted
    <2>9. Accounted(q)' = IF q \in called' THEN PromptLen[q] ELSE 0
      BY <1>2, <2>5, <2>6, <2>7, <2>8
    <2> QED BY <1>2, <2>1, <2>4, <2>9
  <1> QED BY <1>2, <1>4, <1>5 DEF PromptInv

\* A unit that is taken moves from the queue to the batch.
LEMMA TakePrompt ==
    ASSUME IInv, PromptInv, ScheduleTake
    PROVE  PromptInv'
  <1> DEFINE unit == Head(run_queue)
  <1>1. /\ run_queue \in Seq(Unit) /\ run_queue # << >> /\ batch \in Seq(Unit) /\ unit \in Unit
        /\ batch' = Append(batch, unit) /\ run_queue' = Tail(run_queue)
        /\ at = "schedule" /\ UNCHANGED <<request, at, prefilled, dropped, called>>
    BY DEF IInv, TypeOK, ScheduleTake
  <1>2. Known(batch', called') /\ Known(run_queue', called')
    BY <1>1, KnownUnits DEF PromptInv
  <1> HIDE DEF unit
  <1>3. ASSUME NEW q \in Requests
        PROVE  /\ AtMostOne(batch', q) /\ AtMostOne(run_queue', q)
               /\ Accounted(q)' = Accounted(q)
               /\ PrefillUnits(batch', q) = {} \/ PrefillUnits(run_queue', q) = {}
    <2>1. /\ AtMostOne(batch, q) /\ AtMostOne(run_queue, q)
          /\ PrefillUnits(batch, q) = {} \/ PrefillUnits(run_queue, q) = {}
      BY <1>1 DEF PromptInv
    <2>2. /\ AtMostOne(run_queue', q)
          /\ PrefillTokens(run_queue, q) = PrefillTokens(run_queue', q) + TokensOf(unit, q)
          /\ IsPrefill(unit, q) \/ PrefillUnits(run_queue, q) = {} => PrefillUnits(run_queue', q) = {}
          /\ IsPrefill(unit, q) => PrefillUnits(run_queue, q) # {}
      BY <1>1, <2>1, TailUnit DEF unit
    <2>3. IsPrefill(unit, q) => PrefillUnits(batch, q) = {}
      BY <2>1, <2>2
    <2>4. /\ AtMostOne(batch', q)
          /\ PrefillTokens(batch', q) = PrefillTokens(batch, q) + TokensOf(unit, q)
          /\ PrefillUnits(batch', q) = {} <=> PrefillUnits(batch, q) = {} /\ ~IsPrefill(unit, q)
      BY <1>1, <2>1, <2>3, AppendUnit
    <2>5. /\ prefilled[q] \in Nat /\ dropped[q] \in Nat /\ TokensOf(unit, q) \in Nat
          /\ PrefillTokens(batch, q) \in Nat /\ PrefillTokens(run_queue', q) \in Nat
      <3>1. TokensOf(unit, q) \in Nat
        BY <1>1 DEF TokensOf, Unit
      <3>2. run_queue' \in Seq(Unit)
        BY <1>1
      <3> QED BY <1>1, <3>1, <3>2, TokensAreNat DEF IInv, TypeOK
    <2>6. Accounted(q)' = Accounted(q)
      BY <1>1, <2>2, <2>4, <2>5 DEF Accounted
    <2> QED BY <2>1, <2>2, <2>4, <2>6
  <1> QED BY <1>1, <1>2, <1>3 DEF PromptInv

\* The first part of a unit that is cut moves to the batch, the rest stays.
LEMMA ChunkPrompt ==
    ASSUME IInv, PromptInv, ScheduleChunk
    PROVE  PromptInv'
  <1> DEFINE unit == Head(run_queue)
             n == total_budget_tokens
             first == [unit EXCEPT !.span = n]
             rest == [unit EXCEPT !.span = @ - n]
  <1>1. /\ run_queue \in Seq(Unit) /\ run_queue # << >> /\ batch \in Seq(Unit) /\ unit \in Unit
        /\ n \in Nat /\ unit.span > n /\ unit.span \in Nat
        /\ batch' = Append(batch, first) /\ run_queue' = << rest >> \o Tail(run_queue)
        /\ at = "schedule" /\ at' = "execute" /\ UNCHANGED <<request, prefilled, dropped, called>>
    <2>1. /\ run_queue \in Seq(Unit) /\ run_queue # << >> /\ batch \in Seq(Unit)
          /\ n \in Nat /\ at = "schedule" /\ at' = "execute"
          /\ UNCHANGED <<request, prefilled, dropped, called>>
      BY BudgetAssumption DEF IInv, TypeOK, ScheduleChunk
    <2>2. unit \in Unit
      BY <2>1
    <2>s. unit.span \in Nat
      BY <2>2 DEF Unit
    <2>3. /\ unit.span > n
          /\ batch' = Append(batch, first) /\ run_queue' = << rest >> \o Tail(run_queue)
      BY DEF ScheduleChunk, Rest
    <2> QED BY <2>1, <2>2, <2>s, <2>3
  <1>2. /\ first \in Unit /\ first.span = n
        /\ first.request = unit.request /\ first.phase = unit.phase
    BY <1>1 DEF Unit
  <1>3. /\ rest \in Unit /\ rest.span = unit.span - n
        /\ rest.request = unit.request /\ rest.phase = unit.phase
    <2>1. unit.span - n \in Nat
      BY <1>1
    <2> QED BY <1>1, <2>1 DEF Unit
  <1> HIDE DEF first, rest
  <1>4. Known(batch', called') /\ Known(run_queue', called')
    <2>1. Known(batch, called) /\ Known(run_queue, called)
      BY DEF PromptInv
    <2>2. unit.request \in called
      BY <1>1, <2>1, KnownUnits
    <2> QED BY <1>1, <1>2, <1>3, <2>1, <2>2, KnownUnits
  <1>5. ASSUME NEW q \in Requests
        PROVE  /\ AtMostOne(batch', q) /\ AtMostOne(run_queue', q)
               /\ Accounted(q)' = Accounted(q)
    <2>1. /\ AtMostOne(batch, q) /\ AtMostOne(run_queue, q)
          /\ PrefillUnits(batch, q) = {} \/ PrefillUnits(run_queue, q) = {}
      BY <1>1 DEF PromptInv
    <2>2. /\ AtMostOne(run_queue', q)
          /\ PrefillTokens(run_queue', q) =
                PrefillTokens(run_queue, q) - TokensOf(unit, q) + TokensOf(rest, q)
      BY <1>1, <1>3, <2>1, CutUnit
    <2>3. IsPrefill(first, q) => PrefillUnits(batch, q) = {}
      <3>1. IsPrefill(unit, q) => PrefillUnits(run_queue, q) # {}
        BY <1>1, <2>1, TailUnit
      <3> QED BY <1>2, <2>1, <3>1 DEF IsPrefill
    <2>4. /\ AtMostOne(batch', q)
          /\ PrefillTokens(batch', q) = PrefillTokens(batch, q) + TokensOf(first, q)
      BY <1>1, <1>2, <2>1, <2>3, AppendUnit
    <2>5. /\ TokensOf(unit, q) = TokensOf(first, q) + TokensOf(rest, q)
          /\ TokensOf(unit, q) \in Nat /\ TokensOf(first, q) \in Nat /\ TokensOf(rest, q) \in Nat
      <3>1. unit.span = first.span + rest.span /\ first.span \in Nat /\ rest.span \in Nat
        BY <1>1, <1>2, <1>3 DEF Unit
      <3> QED BY <1>1, <1>2, <1>3, <3>1 DEF TokensOf, IsPrefill
    <2>6. /\ prefilled[q] \in Nat /\ dropped[q] \in Nat
          /\ PrefillTokens(batch, q) \in Nat /\ PrefillTokens(run_queue, q) \in Nat
      BY <1>1, TokensAreNat DEF IInv, TypeOK
    <2>7. Accounted(q)' = Accounted(q)
      BY <1>1, <2>2, <2>4, <2>5, <2>6 DEF Accounted
    <2> QED BY <2>2, <2>4, <2>7
  <1> QED BY <1>1, <1>4, <1>5 DEF PromptInv

\* A part of a prompt that is executed counts, and the decode behind it is no
\* part of a prompt.
LEMMA ExecutePrompt ==
    ASSUME IInv, PromptInv, ExecutePrefill \/ \E eos \in BOOLEAN : ExecuteDecode(eos)
    PROVE  PromptInv'
  <1> DEFINE unit == Head(batch)
  <1>1. /\ run_queue \in Seq(Unit) /\ batch # << >> /\ batch \in Seq(Unit) /\ unit \in Unit
        /\ batch' = Tail(batch) /\ run_queue' \in {run_queue, Append(run_queue, Decode)}
        /\ at = "execute" /\ request \in Requests /\ prefilled \in [Requests -> Nat]
        /\ UNCHANGED <<at, request, dropped, called>>
    BY DEF IInv, TypeOK, ExecutePrefill, ExecuteDecode
  <1>2. Decode \in Unit /\ Decode.request = request /\ Decode.phase = "Decode"
    BY <1>1 DEF Decode, Unit
  <1>3. \A q \in Requests : prefilled'[q] = prefilled[q] + TokensOf(unit, q)
    <2>1. CASE ExecutePrefill
      <3>1. /\ unit.phase = "Prefill" /\ unit.request \in Requests /\ unit.span \in Nat
            /\ prefilled' = [prefilled EXCEPT ![unit.request] = @ + unit.span]
        BY <1>1, <2>1 DEF ExecutePrefill, Unit
      <3> HIDE DEF unit
      <3> QED BY <1>1, <3>1 DEF TokensOf, IsPrefill
    <2>2. CASE \E eos \in BOOLEAN : ExecuteDecode(eos)
      <3>1. unit.phase = "Decode" /\ prefilled' = prefilled
        BY <2>2 DEF ExecuteDecode
      <3> HIDE DEF unit
      <3>2. \A q \in Requests : TokensOf(unit, q) = 0
        BY <3>1 DEF TokensOf, IsPrefill
      <3> QED BY <1>1, <3>1, <3>2
    <2> QED BY <2>1, <2>2
  <1>4. Known(batch', called') /\ Known(run_queue', called')
    <2>1. Known(batch, called) /\ Known(run_queue, called) /\ request \in called
      BY <1>1, BudgetAssumption DEF PromptInv
    <2> QED BY <1>1, <1>2, <2>1, KnownUnits
  <1> HIDE DEF unit
  <1>5. ASSUME NEW q \in Requests
        PROVE  /\ AtMostOne(batch', q) /\ AtMostOne(run_queue', q)
               /\ Accounted(q)' = Accounted(q)
    <2>1. AtMostOne(batch, q) /\ AtMostOne(run_queue, q)
      BY DEF PromptInv
    <2>2. /\ AtMostOne(batch', q)
          /\ PrefillTokens(batch, q) = PrefillTokens(batch', q) + TokensOf(unit, q)
      BY <1>1, <2>1, TailUnit DEF unit
    <2>3. ~IsPrefill(Decode, q)
      BY <1>2 DEF IsPrefill
    <2>4. /\ AtMostOne(Append(run_queue, Decode), q)
          /\ PrefillTokens(Append(run_queue, Decode), q) =
                PrefillTokens(run_queue, q) + TokensOf(Decode, q)
      BY <1>1, <1>2, <2>1, <2>3, AppendUnit
    <2>5. TokensOf(Decode, q) = 0
      BY <2>3 DEF TokensOf
    <2>6. /\ prefilled[q] \in Nat /\ dropped[q] \in Nat /\ TokensOf(unit, q) \in Nat
          /\ PrefillTokens(batch', q) \in Nat /\ PrefillTokens(run_queue, q) \in Nat
      <3>1. TokensOf(unit, q) \in Nat
        BY <1>1 DEF TokensOf, Unit
      <3>2. batch' \in Seq(Unit)
        BY <1>1
      <3> QED BY <1>1, <3>1, <3>2, TokensAreNat DEF IInv, TypeOK
    <2>7. AtMostOne(run_queue', q) /\ PrefillTokens(run_queue', q) = PrefillTokens(run_queue, q)
      <3>1. CASE run_queue' = run_queue
        BY <2>1, <3>1
      <3>2. CASE run_queue' = Append(run_queue, Decode)
        BY <2>4, <2>5, <2>6, <3>2
      <3> QED BY <1>1, <3>1, <3>2
    <2>8. Accounted(q)' = Accounted(q)
      BY <1>1, <1>3, <2>2, <2>6, <2>7 DEF Accounted
    <2> QED BY <2>2, <2>7, <2>8
  <1> QED BY <1>1, <1>4, <1>5 DEF PromptInv

\* A batch that fails takes its parts of prompts along.
LEMMA FailsPrompt ==
    ASSUME IInv, PromptInv, ExecuteFails
    PROVE  PromptInv'
  <1>1. /\ batch \in Seq(Unit) /\ run_queue \in Seq(Unit)
        /\ batch' = << >> /\ request' = NoRequest /\ at' = "idle"
        /\ UNCHANGED <<run_queue, prefilled, called>>
        /\ dropped' = [r \in Requests |-> dropped[r] + PrefillTokens(batch, r)]
    BY DEF IInv, TypeOK, ExecuteFails, Return
  <1>2. Known(batch', called') /\ Known(run_queue', called')
    BY <1>1 DEF PromptInv, Known
  <1>3. ASSUME NEW q \in Requests
        PROVE  AtMostOne(batch', q) /\ Accounted(q)' = Accounted(q)
    <2>1. PrefillUnits(batch', q) = {}
      BY <1>1 DEF PrefillUnits
    <2>2. AtMostOne(batch', q) /\ PrefillTokens(batch', q) = 0
      BY <2>1, NoTokens
    <2>3. /\ prefilled[q] \in Nat /\ dropped[q] \in Nat
          /\ PrefillTokens(batch, q) \in Nat /\ PrefillTokens(run_queue, q) \in Nat
      BY <1>1, TokensAreNat DEF IInv, TypeOK
    <2>4. dropped'[q] = dropped[q] + PrefillTokens(batch, q)
      BY <1>1
    <2> QED BY <1>1, <2>2, <2>3, <2>4 DEF Accounted
  <1> QED BY <1>1, <1>2, <1>3 DEF PromptInv

\* Every step accounts for the prompts.
LEMMA PromptStep ==
    ASSUME IInv, PromptInv, [Next]_vars
    PROVE  PromptInv'
  <1>1. CASE Loop
    BY <1>1, UnitsAlone DEF Loop, Return, IInv, Seats
  <1>2. CASE ScheduleEnd
    BY <1>2, UnitsAlone DEF ScheduleEnd, Return
  <1>3. CASE BatchDone
    BY <1>3, UnitsAlone DEF BatchDone
  <1>4. ASSUME NEW b \in BOOLEAN, check_memory_pressure(b) PROVE PromptInv'
    BY <1>4, UnitsAlone DEF check_memory_pressure, Return, IInv, Seats
  <1>5. CASE UNCHANGED vars
    BY <1>5, UnitsAlone DEF vars
  <1> QED BY <1>1, <1>2, <1>3, <1>4, <1>5, TakePrompt, ChunkPrompt, ExecutePrompt, FailsPrompt,
             CallPrompt DEF Next, Step

\* Every step accounts for every prompt token.
LEMMA PromptsInductive == Spec => []PromptInv
  <1>1. Init => PromptInv
    <2> SUFFICES ASSUME Init PROVE PromptInv
      OBVIOUS
    <2>0. DOMAIN << >> = {}
      OBVIOUS
    <2>1. \A r \in Requests : PrefillUnits(batch, r) = {} /\ PrefillUnits(run_queue, r) = {}
      BY <2>0 DEF Init, PrefillUnits
    <2>2. ASSUME NEW r \in Requests PROVE Accounted(r) = 0
      <3>1. PrefillTokens(batch, r) = 0 /\ PrefillTokens(run_queue, r) = 0
        BY <2>1, NoTokens
      <3> QED BY <3>1 DEF Init, Accounted
    <2>3. Known(batch, called) /\ Known(run_queue, called)
      BY DEF Init, Known
    <2> QED BY <2>1, <2>2, <2>3, NoTokens DEF Init, PromptInv
  <1> QED BY <1>1, Inductive, PromptStep, PTL DEF Spec

\* schedule cuts prompts to the budget without losing or repeating a token,
\* whatever an execution that failed left in the queue.
THEOREM PromptsConserved == Spec => []PromptConserved
  <1>1. IInv /\ PromptInv => PromptConserved
    BY DEF IInv, TypeOK, PromptInv, Accounted, AtMostOne, PromptConserved
  <1> QED BY <1>1, Inductive, PromptsInductive, PTL

-----------------------------------------------------------------------------
(* Prompts come before decodes.                                             *)

\* PrefillFirst of the units u.
Ordered(u) ==
    \A i, j \in 1 .. Len(u) :
        u[i].phase = "Decode" /\ u[j].phase = "Prefill" /\ u[i].request = u[j].request => j < i

OrderInv == Ordered(batch \o run_queue)

\* Units that keep their order, even if some are lost or cut in two, stay
\* ordered: m says where each of v was in u.
LEMMA OrderKept ==
    ASSUME NEW u \in Seq(Unit), NEW v \in Seq(Unit), Ordered(u),
           NEW m \in [1 .. Len(v) -> 1 .. Len(u)],
           \A i, j \in 1 .. Len(v) : i <= j => m[i] <= m[j],
           \A i \in 1 .. Len(v) : v[i].phase = u[m[i]].phase /\ v[i].request = u[m[i]].request
    PROVE  Ordered(v)
  <1> SUFFICES ASSUME NEW i \in 1 .. Len(v), NEW j \in 1 .. Len(v),
                      v[i].phase = "Decode", v[j].phase = "Prefill", v[i].request = v[j].request
               PROVE  j < i
    BY DEF Ordered
  <1>1. m[i] \in 1 .. Len(u) /\ m[j] \in 1 .. Len(u)
    OBVIOUS
  <1>2. m[j] < m[i]
    BY <1>1 DEF Ordered
  <1>3. ~(i <= j)
    BY <1>1, <1>2
  <1> QED BY <1>3

\* A unit at the back is ordered when it decodes, or when its request has no
\* unit yet.
LEMMA OrderedBack ==
    ASSUME NEW u \in Seq(Unit), NEW d \in Unit, Ordered(u),
           d.phase = "Decode" \/ \A i \in 1 .. Len(u) : u[i].request # d.request
    PROVE  Ordered(Append(u, d))
  <1> DEFINE v == Append(u, d)
  <1>1. /\ Len(u) \in Nat /\ Len(v) = Len(u) + 1 /\ v[Len(u) + 1] = d
        /\ \A i \in 1 .. Len(u) : v[i] = u[i]
    BY AppendProperties
  <1> HIDE DEF v
  <1> SUFFICES ASSUME NEW i \in 1 .. Len(u) + 1, NEW j \in 1 .. Len(u) + 1,
                      v[i].phase = "Decode", v[j].phase = "Prefill", v[i].request = v[j].request
               PROVE  j < i
    BY <1>1 DEF Ordered, v
  <1>2. CASE i = Len(u) + 1
    <2>1. j # i
      OBVIOUS
    <2> QED BY <1>1, <1>2, <2>1
  <1>3. CASE i # Len(u) + 1
    <2>1. i \in 1 .. Len(u) /\ v[i] = u[i]
      BY <1>1, <1>3
    <2>2. j # Len(u) + 1
      <3> SUFFICES ASSUME j = Len(u) + 1 PROVE FALSE
        OBVIOUS
      <3>1. v[j] = d
        BY <1>1
      <3> QED BY <2>1, <3>1
    <2>3. j \in 1 .. Len(u) /\ v[j] = u[j]
      BY <1>1, <2>2
    <2> QED BY <2>1, <2>3 DEF Ordered
  <1> QED BY <1>2, <1>3

\* Where the units of two sequences are in their concatenation.
LEMMA ConcatUnits ==
    ASSUME NEW s \in Seq(Unit), NEW t \in Seq(Unit)
    PROVE  /\ s \o t \in Seq(Unit) /\ Len(s \o t) = Len(s) + Len(t)
           /\ \A i \in 1 .. Len(s) : (s \o t)[i] = s[i]
           /\ \A j \in 1 .. Len(t) : (s \o t)[Len(s) + j] = t[j]
  <1>1. Len(s) \in Nat /\ Len(t) \in Nat
    OBVIOUS
  <1>2. ASSUME NEW i \in 1 .. Len(s) PROVE (s \o t)[i] = s[i]
    BY <1>1, ConcatProperties
  <1>3. ASSUME NEW j \in 1 .. Len(t) PROVE (s \o t)[Len(s) + j] = t[j]
    BY <1>1, ConcatProperties
  <1> QED BY <1>2, <1>3, ConcatProperties

\* PrefillFirst is about the batch followed by the queue.
LEMMA PrefillFirstIsOrdered ==
    ASSUME IInv
    PROVE  PrefillFirst <=> Ordered(batch \o run_queue)
  <1> DEFINE u == batch \o run_queue
  <1>1. u \in Seq(Unit)
    BY ConcatProperties DEF IInv, TypeOK
  <1>2. PrefillFirst <=> \A i, j \in DOMAIN u :
            u[i].phase = "Decode" /\ u[j].phase = "Prefill" /\ u[i].request = u[j].request => j < i
    BY DEF PrefillFirst
  <1> HIDE DEF u
  <1>3. DOMAIN u = 1 .. Len(u)
    BY <1>1, LenProperties
  <1>4. PrefillFirst <=> Ordered(u)
    BY <1>2, <1>3 DEF Ordered
  <1> QED BY <1>4 DEF u

\* Taking a unit changes nothing in the batch followed by the queue.
LEMMA TakeOrder ==
    ASSUME IInv, Ordered(batch \o run_queue), ScheduleTake
    PROVE  Ordered(batch' \o run_queue')
  <1> DEFINE unit == Head(run_queue)
             q == Tail(run_queue)
  <1>1. /\ run_queue \in Seq(Unit) /\ run_queue # << >> /\ batch \in Seq(Unit)
        /\ batch' = Append(batch, unit) /\ run_queue' = q
    BY DEF IInv, TypeOK, ScheduleTake
  <1>2. unit \in Unit /\ q \in Seq(Unit) /\ << unit >> \in Seq(Unit)
    BY <1>1
  <1>3. run_queue = << unit >> \o q
    BY <1>1, HeadTailProperties, ConcatProperties
  <1> HIDE DEF unit, q
  <1>4. batch' = batch \o << unit >>
    BY <1>1, <1>2, AppendIsConcat
  <1>5. batch' \o run_queue' = batch \o run_queue
    BY <1>1, <1>2, <1>3, <1>4, ConcatAssociative
  <1> QED BY <1>5

\* Both parts of a unit that is cut are where it was.
LEMMA ChunkOrder ==
    ASSUME IInv, Ordered(batch \o run_queue), ScheduleChunk
    PROVE  Ordered(batch' \o run_queue')
  <1> DEFINE unit == Head(run_queue)
             q == Tail(run_queue)
             first == [unit EXCEPT !.span = total_budget_tokens]
             rest == [unit EXCEPT !.span = @ - total_budget_tokens]
             n == Len(batch)
             k == Len(q)
  <1>1. /\ run_queue \in Seq(Unit) /\ run_queue # << >> /\ batch \in Seq(Unit)
        /\ total_budget_tokens \in Nat
    BY BudgetAssumption DEF IInv, TypeOK, ScheduleChunk
  <1>2. /\ unit.span > total_budget_tokens
        /\ batch' = Append(batch, first) /\ run_queue' = << rest >> \o q
    BY DEF ScheduleChunk, Rest
  <1>3. unit \in Unit /\ q \in Seq(Unit)
    BY <1>1
  <1>4. unit.span - total_budget_tokens \in Nat
    <2>1. unit.span \in Nat
      BY <1>3 DEF Unit
    <2> QED BY <1>1, <1>2, <2>1
  <1>5. first \in Unit /\ first.phase = unit.phase /\ first.request = unit.request
    BY <1>1, <1>3 DEF Unit
  <1>6. rest \in Unit /\ rest.phase = unit.phase /\ rest.request = unit.request
    BY <1>3, <1>4 DEF Unit
  <1>7. n \in Nat /\ k \in Nat /\ Len(run_queue) = k + 1 /\ run_queue[1] = unit
        /\ \A i \in 1 .. k : q[i] = run_queue[i + 1]
    BY <1>1, HeadTailProperties
  <1> HIDE DEF unit, q, first, rest
  <1> DEFINE u == batch \o run_queue
             v == batch' \o run_queue'
             m == [i \in 1 .. n + k + 2 |-> IF i <= n + 1 THEN i ELSE i - 1]
  <1>8. /\ u \in Seq(Unit) /\ Len(u) = n + (k + 1)
        /\ \A i \in 1 .. n : u[i] = batch[i]
        /\ \A j \in 1 .. k + 1 : u[n + j] = run_queue[j]
    <2>1. /\ u \in Seq(Unit) /\ Len(u) = Len(batch) + Len(run_queue)
          /\ \A i \in 1 .. Len(batch) : u[i] = batch[i]
          /\ \A j \in 1 .. Len(run_queue) : u[Len(batch) + j] = run_queue[j]
      BY <1>1, ConcatUnits
    <2> HIDE DEF u, k
    <2> QED BY <1>7, <2>1
  <1>9. /\ batch' \in Seq(Unit) /\ Len(batch') = n + 1 /\ batch'[n + 1] = first
        /\ \A i \in 1 .. n : batch'[i] = batch[i]
    BY <1>1, <1>2, <1>5, AppendProperties
  <1>10. /\ run_queue' \in Seq(Unit) /\ Len(run_queue') = k + 1 /\ run_queue'[1] = rest
         /\ \A i \in 2 .. k + 1 : run_queue'[i] = run_queue[i]
    <2>1. << rest >> \in Seq(Unit) /\ Len(<< rest >>) = 1 /\ << rest >>[1] = rest
      BY <1>6
    <2>2. /\ run_queue' \in Seq(Unit) /\ Len(run_queue') = 1 + k
          /\ \A i \in 1 .. 1 + k : run_queue'[i] = IF i <= 1 THEN << rest >>[i] ELSE q[i - 1]
      BY <1>2, <1>3, <2>1, ConcatProperties
    <2>3. ASSUME NEW i \in 2 .. k + 1 PROVE run_queue'[i] = run_queue[i]
      <3>1. i - 1 \in 1 .. k /\ (i - 1) + 1 = i /\ i \in 1 .. 1 + k /\ ~(i <= 1)
        BY <1>7
      <3> QED BY <1>7, <2>2, <3>1
    <2> QED BY <1>7, <2>1, <2>2, <2>3
  <1> HIDE DEF n, k
  <1>11. /\ v \in Seq(Unit) /\ Len(v) = (n + 1) + (k + 1)
         /\ \A i \in 1 .. n + 1 : v[i] = batch'[i]
         /\ \A j \in 1 .. k + 1 : v[(n + 1) + j] = run_queue'[j]
    <2>1. /\ v \in Seq(Unit) /\ Len(v) = Len(batch') + Len(run_queue')
          /\ \A i \in 1 .. Len(batch') : v[i] = batch'[i]
          /\ \A j \in 1 .. Len(run_queue') : v[Len(batch') + j] = run_queue'[j]
      BY <1>9, <1>10, ConcatUnits
    <2> HIDE DEF v
    <2>2. Len(batch') = n + 1 /\ Len(run_queue') = k + 1
      BY <1>9, <1>10
    <2> QED BY <2>1, <2>2
  <1> HIDE DEF u, v
  <1>12. m \in [1 .. Len(v) -> 1 .. Len(u)] /\ \A i, j \in 1 .. Len(v) : i <= j => m[i] <= m[j]
    BY <1>7, <1>8, <1>11
  <1>13. ASSUME NEW i \in 1 .. Len(v)
         PROVE  v[i].phase = u[m[i]].phase /\ v[i].request = u[m[i]].request
    <2>1. CASE i <= n
      <3>1. i \in 1 .. n /\ i \in 1 .. n + 1 /\ m[i] = i
        BY <1>7, <1>11, <2>1
      <3> QED BY <1>8, <1>9, <1>11, <3>1
    <2>2. CASE i = n + 1
      <3>1. m[i] = n + 1 /\ i \in 1 .. n + 1 /\ 1 \in 1 .. k + 1
        BY <1>7, <1>11, <2>2
      <3>2. v[i] = first /\ u[n + 1] = unit
        BY <1>7, <1>8, <1>9, <1>11, <2>2, <3>1
      <3> QED BY <1>5, <3>1, <3>2
    <2>3. CASE i > n + 1
      <3>1. PICK j \in 1 .. k + 1 : i = (n + 1) + j
        <4>1. i - (n + 1) \in 1 .. k + 1 /\ i = (n + 1) + (i - (n + 1))
          BY <1>7, <1>11, <2>3
        <4> QED BY <4>1
      <3>2. m[i] = n + j
        BY <1>7, <1>11, <2>3, <3>1
      <3>3. v[i] = run_queue'[j] /\ u[n + j] = run_queue[j]
        BY <1>8, <1>11, <3>1
      <3>4. CASE j = 1
        BY <1>6, <1>7, <1>10, <3>2, <3>3, <3>4
      <3>5. CASE j # 1
        <4>1. j \in 2 .. k + 1
          BY <1>7, <3>1, <3>5
        <4> QED BY <1>10, <3>2, <3>3, <4>1
      <3> QED BY <3>4, <3>5
    <2> QED BY <1>7, <1>11, <2>1, <2>2, <2>3
  <1> HIDE DEF m
  <1>14. Ordered(v)
    BY <1>8, <1>11, <1>12, <1>13, OrderKept DEF u
  <1> QED BY <1>14 DEF v

\* A unit leaves the front of the batch.
LEMMA TailOrder ==
    ASSUME IInv, Ordered(batch \o run_queue), batch # << >>
    PROVE  Ordered(Tail(batch) \o run_queue)
  <1> DEFINE n == Len(batch) - 1
             k == Len(run_queue)
             u == batch \o run_queue
             v == Tail(batch) \o run_queue
             m == [i \in 1 .. n + k |-> i + 1]
  <1>1. run_queue \in Seq(Unit) /\ batch \in Seq(Unit) /\ k \in Nat
    BY DEF IInv, TypeOK
  <1>2. /\ Tail(batch) \in Seq(Unit) /\ n \in Nat /\ Len(Tail(batch)) = n /\ Len(batch) = n + 1
        /\ \A i \in 1 .. n : Tail(batch)[i] = batch[i + 1]
    BY <1>1, HeadTailProperties
  <1>3. /\ u \in Seq(Unit) /\ Len(u) = (n + 1) + k
        /\ \A i \in 1 .. n + 1 : u[i] = batch[i]
        /\ \A j \in 1 .. k : u[(n + 1) + j] = run_queue[j]
    BY <1>1, <1>2, ConcatUnits
  <1>4. /\ v \in Seq(Unit) /\ Len(v) = n + k
        /\ \A i \in 1 .. n : v[i] = Tail(batch)[i]
        /\ \A j \in 1 .. k : v[n + j] = run_queue[j]
    BY <1>1, <1>2, ConcatUnits
  <1> HIDE DEF n, k, u, v
  <1>5. m \in [1 .. Len(v) -> 1 .. Len(u)] /\ \A i, j \in 1 .. Len(v) : i <= j => m[i] <= m[j]
    BY <1>1, <1>2, <1>3, <1>4
  <1>6. ASSUME NEW i \in 1 .. Len(v) PROVE v[i] = u[m[i]]
    <2>1. m[i] = i + 1 /\ i \in 1 .. n + k
      BY <1>1, <1>2, <1>4
    <2>2. CASE i <= n
      <3>1. i \in 1 .. n /\ i + 1 \in 1 .. n + 1
        BY <1>2, <2>1, <2>2
      <3> QED BY <1>2, <1>3, <1>4, <2>1, <3>1
    <2>3. CASE ~(i <= n)
      <3>1. PICK j \in 1 .. k : i = n + j
        <4>1. i - n \in 1 .. k /\ i = n + (i - n)
          BY <1>1, <1>2, <2>1, <2>3
        <4> QED BY <4>1
      <3>2. i + 1 = (n + 1) + j
        BY <1>2, <3>1
      <3> QED BY <1>3, <1>4, <2>1, <3>1, <3>2
    <2> QED BY <2>2, <2>3
  <1> HIDE DEF m
  <1>7. Ordered(v)
    BY <1>3, <1>4, <1>5, <1>6, OrderKept DEF u
  <1> QED BY <1>7 DEF v

\* What comes last in the queue comes last behind the batch.
LEMMA AppendBehind ==
    ASSUME NEW b \in Seq(Unit), NEW q \in Seq(Unit), NEW d \in Unit
    PROVE  Append(b \o q, d) = b \o Append(q, d)
  <1> DEFINE s == << d >>
             u == b \o q
  <1>1. s \in Seq(Unit) /\ u \in Seq(Unit)
    BY ConcatProperties
  <1>2. Append(q, d) = q \o s
    BY AppendIsConcat
  <1> HIDE DEF u
  <1>3. Append(u, d) = u \o s
    BY <1>1, AppendIsConcat
  <1> HIDE DEF s
  <1>4. u \o s = b \o (q \o s)
    BY <1>1, ConcatAssociative DEF u
  <1> QED BY <1>2, <1>3, <1>4 DEF u

\* The decode that a prefill or a decode starts comes last.
LEMMA ExecuteOrder ==
    ASSUME IInv, Ordered(batch \o run_queue),
           ExecutePrefill \/ \E eos \in BOOLEAN : ExecuteDecode(eos)
    PROVE  Ordered(batch' \o run_queue')
  <1> DEFINE b == Tail(batch)
  <1>1. /\ run_queue \in Seq(Unit) /\ batch \in Seq(Unit) /\ batch # << >>
        /\ batch' = b /\ run_queue' \in {run_queue, Append(run_queue, Decode)}
        /\ request \in Requests
    BY DEF IInv, TypeOK, ExecutePrefill, ExecuteDecode
  <1>2. Ordered(b \o run_queue) /\ b \in Seq(Unit)
    BY <1>1, TailOrder
  <1>3. Decode \in Unit /\ Decode.phase = "Decode"
    BY <1>1 DEF Decode, Unit
  <1> HIDE DEF b
  <1>4. b \o run_queue \in Seq(Unit)
    BY <1>1, <1>2, ConcatProperties
  <1>5. Ordered(Append(b \o run_queue, Decode))
    BY <1>2, <1>3, <1>4, OrderedBack
  <1>6. Append(b \o run_queue, Decode) = b \o Append(run_queue, Decode)
    BY <1>1, <1>2, <1>3, AppendBehind
  <1>7. CASE run_queue' = run_queue
    BY <1>1, <1>2, <1>7
  <1>8. CASE run_queue' = Append(run_queue, Decode)
    BY <1>1, <1>5, <1>6, <1>8
  <1> QED BY <1>1, <1>7, <1>8

\* A batch that fails is lost as a whole.
LEMMA FailsOrder ==
    ASSUME IInv, Ordered(batch \o run_queue)
    PROVE  Ordered(<< >> \o run_queue)
  <1> DEFINE n == Len(batch)
             k == Len(run_queue)
             u == batch \o run_queue
             m == [i \in 1 .. k |-> n + i]
  <1>1. run_queue \in Seq(Unit) /\ batch \in Seq(Unit) /\ k \in Nat /\ n \in Nat
    BY DEF IInv, TypeOK
  <1>2. << >> \o run_queue = run_queue
    BY <1>1, ConcatEmptySeq
  <1>3. /\ u \in Seq(Unit) /\ Len(u) = n + k
        /\ \A j \in 1 .. k : u[n + j] = run_queue[j]
    BY <1>1, ConcatUnits
  <1> HIDE DEF n, u
  <1>4. m \in [1 .. k -> 1 .. Len(u)] /\ \A i, j \in 1 .. k : i <= j => m[i] <= m[j]
    BY <1>1, <1>3
  <1>5. ASSUME NEW i \in 1 .. k PROVE run_queue[i] = u[m[i]]
    BY <1>3
  <1> HIDE DEF m
  <1>6. Ordered(run_queue)
    BY <1>1, <1>3, <1>4, <1>5, OrderKept DEF u
  <1> QED BY <1>2, <1>6

\* A new prompt comes behind the units of other requests only.
LEMMA CallOrder ==
    ASSUME IInv, PromptInv, Ordered(batch \o run_queue),
           NEW r \in Requests, run_with_token_budget(r)
    PROVE  Ordered(batch' \o run_queue')
  <1> DEFINE unit == [request |-> r, phase |-> "Prefill", span |-> PromptLen[r]]
             u == batch \o run_queue
  <1>1. unit \in Unit /\ unit.request = r
    BY BudgetAssumption DEF Unit
  <1>2. /\ r \notin called /\ run_queue \in Seq(Unit) /\ batch \in Seq(Unit) /\ batch' = batch
        /\ run_queue' = Append(run_queue, unit)
    BY DEF IInv, TypeOK, run_with_token_budget
  <1> HIDE DEF unit
  <1>3. /\ u \in Seq(Unit) /\ Len(u) = Len(batch) + Len(run_queue)
        /\ \A i \in 1 .. Len(batch) : u[i] = batch[i]
        /\ \A j \in 1 .. Len(run_queue) : u[Len(batch) + j] = run_queue[j]
    BY <1>2, ConcatUnits
  <1>4. Len(batch) \in Nat /\ Len(run_queue) \in Nat
    BY <1>2
  <1> HIDE DEF u
  <1>5. ASSUME NEW i \in 1 .. Len(u) PROVE u[i].request # r
    <2>1. Known(batch, called) /\ Known(run_queue, called)
      BY DEF PromptInv
    <2>2. CASE i <= Len(batch)
      <3>1. i \in 1 .. Len(batch) /\ u[i] = batch[i]
        BY <1>3, <1>4, <2>2
      <3> QED BY <1>2, <2>1, <3>1 DEF Known
    <2>3. CASE ~(i <= Len(batch))
      <3>1. PICK j \in 1 .. Len(run_queue) : i = Len(batch) + j
        <4>1. i - Len(batch) \in 1 .. Len(run_queue) /\ i = Len(batch) + (i - Len(batch))
          BY <1>3, <1>4, <2>3
        <4> QED BY <4>1
      <3> QED BY <1>2, <1>3, <2>1, <3>1 DEF Known
    <2> QED BY <2>2, <2>3
  <1>6. Ordered(Append(u, unit))
    BY <1>1, <1>3, <1>5, OrderedBack DEF u
  <1>7. Append(u, unit) = batch \o Append(run_queue, unit)
    <2>1. << unit >> \in Seq(Unit)
      BY <1>1
    <2>2. Append(u, unit) = u \o << unit >> /\ Append(run_queue, unit) = run_queue \o << unit >>
      BY <1>1, <1>2, <1>3, AppendIsConcat
    <2>3. (batch \o run_queue) \o << unit >> = batch \o (run_queue \o << unit >>)
      BY <1>2, <2>1, ConcatAssociative
    <2> QED BY <2>2, <2>3 DEF u
  <1> QED BY <1>2, <1>6, <1>7

\* Every step keeps prompts before decodes.
LEMMA OrderStep ==
    ASSUME IInv, PromptInv, Ordered(batch \o run_queue), [Next]_vars
    PROVE  Ordered(batch' \o run_queue')
  <1>1. CASE UNCHANGED <<batch, run_queue>>
    BY <1>1
  <1>2. CASE Loop
    BY <1>1, <1>2 DEF Loop, Return, IInv, Seats
  <1>3. CASE ScheduleEnd
    BY <1>1, <1>3 DEF ScheduleEnd, Return
  <1>4. ASSUME NEW b \in BOOLEAN, check_memory_pressure(b) PROVE Ordered(batch' \o run_queue')
    BY <1>1, <1>4 DEF check_memory_pressure, Return, IInv, Seats
  <1>5. CASE ExecuteFails
    <2>1. batch' = << >> /\ run_queue' = run_queue
      BY <1>5 DEF ExecuteFails, Return
    <2> QED BY <2>1, FailsOrder
  <1>6. CASE BatchDone \/ UNCHANGED vars
    BY <1>1, <1>6 DEF BatchDone, vars
  <1> QED BY <1>2, <1>3, <1>4, <1>5, <1>6, TakeOrder, ChunkOrder, ExecuteOrder, CallOrder
          DEF Next, Step

\* No unit of a request decodes before the last part of its prompt, though
\* every part of it starts a decode and leftovers of other calls interleave.
THEOREM PromptsFirst == Spec => []PrefillFirst
  <1>1. Init => OrderInv
    <2> SUFFICES ASSUME Init PROVE OrderInv
      OBVIOUS
    <2>1. << >> \in Seq(Unit) /\ << >> \o << >> = << >> /\ Len(<< >>) = 0
      OBVIOUS
    <2> QED BY <2>1 DEF Init, OrderInv, Ordered
  <1>2. IInv /\ OrderInv => PrefillFirst
    BY PrefillFirstIsOrdered DEF OrderInv
  <1>3. IInv /\ PromptInv /\ OrderInv /\ [Next]_vars => OrderInv'
    BY OrderStep DEF OrderInv
  <1> QED BY <1>1, <1>2, <1>3, Inductive, PromptsInductive, PTL DEF Spec
=============================================================================
