----------------------- MODULE WorkerSupervisor_proofs -----------------------
(***************************************************************************)
(* The terminal guarantee of the supervisor, for any number of requests,   *)
(* any bounds and any scenario.  The argument does not depend on what the  *)
(* worker does, so no invariant of the pipes is needed.                    *)
(***************************************************************************)
EXTENDS WorkerSupervisor, TLAPS

\* The variables the guarantee is about.
guarded == <<registry, stream, start>>

RequestType ==
    /\ registry \subseteq Requests
    /\ stream \in [Requests -> Seq(StreamEvent)]
    /\ start \in [Requests -> {"new", "checked", "inserted", "returned", "refused"}]

TerminalLast(s) == \A i \in 1 .. Len(s) : IsTerminal(s[i]) => i = Len(s)
HasTerminal(s) == \E i \in 1 .. Len(s) : IsTerminal(s[i])

(* What makes the guarantee inductive: a registered stream is open, an     *)
(* inserted request that is not registered has been ended, and a stream    *)
(* that was not inserted yet has carried nothing.                          *)
RequestInv ==
    \A r \in Requests :
        /\ TerminalLast(stream[r])
        /\ r \in registry => start[r] \in {"inserted", "returned"} /\ ~ HasTerminal(stream[r])
        /\ start[r] \in {"new", "checked"} => stream[r] = <<>>
        /\ start[r] \in {"inserted", "returned"} /\ r \notin registry => HasTerminal(stream[r])

\* No call is in progress while the supervisor is dropped.
DropInv ==
    /\ admin \in {"dropping", "joining", "gone"} =>
          \A r \in Requests : start[r] \notin {"checked", "inserted"}
    /\ admin \in {"joining", "gone"} => registry = {}

\* The watchdog's snapshot does not go stale: time does not run backwards.
DueInv == due.overdue \subseteq {r \in Requests : expiry[r] = "overdue"}

-----------------------------------------------------------------------------
(* An open stream takes one more event: it is ended exactly when the event *)
(* is terminal, and the event is last either way (Append in try_send and   *)
(* send_terminal).                                                         *)
LEMMA AppendToOpen ==
    ASSUME NEW s \in Seq(StreamEvent), NEW e \in StreamEvent, ~ HasTerminal(s)
    PROVE  /\ Append(s, e) \in Seq(StreamEvent)
           /\ TerminalLast(Append(s, e))
           /\ HasTerminal(Append(s, e)) <=> IsTerminal(e)
<1> DEFINE t == Append(s, e)
<1>1. t \in Seq(StreamEvent) /\ Len(t) = Len(s) + 1 /\ t[Len(t)] = e
  OBVIOUS
<1>2. \A i \in 1 .. Len(s) : t[i] = s[i] /\ ~ IsTerminal(s[i])
  BY DEF HasTerminal
<1>3. \A i \in 1 .. Len(t) : i # Len(t) => ~ IsTerminal(t[i])
  BY <1>1, <1>2
<1> HIDE DEF t
<1>4. Len(t) \in 1 .. Len(t)
  BY <1>1
<1>5. TerminalLast(t)
  BY <1>3 DEF TerminalLast
<1>6. HasTerminal(t) <=> IsTerminal(e)
  BY <1>1, <1>3, <1>4 DEF HasTerminal
<1> QED
  BY <1>1, <1>5, <1>6 DEF t

(* mark_terminal and fail_all keep the invariant: they take entries out    *)
(* and end exactly their streams.                                          *)
LEMMA EndAllKeeps ==
    ASSUME RequestType, RequestInv, NEW S \in SUBSET registry,
           NEW e \in StreamEvent, IsTerminal(e), EndAll(S, e), UNCHANGED start
    PROVE  RequestType' /\ RequestInv'
<1>1. \A r \in Requests : stream'[r] = IF r \in S THEN Append(stream[r], e) ELSE stream[r]
  BY DEF EndAll
<1>2. \A r \in S : /\ r \in Requests /\ r \in registry
                   /\ stream[r] \in Seq(StreamEvent)
                   /\ ~ HasTerminal(stream[r])
  BY DEF RequestType, RequestInv
<1>3. \A r \in S : /\ Append(stream[r], e) \in Seq(StreamEvent)
                   /\ TerminalLast(Append(stream[r], e))
                   /\ HasTerminal(Append(stream[r], e))
  BY <1>2, AppendToOpen
<1>4. registry' = registry \ S
  BY DEF EndAll
<1>5. RequestType'
  <2>1. registry' \subseteq Requests
    BY <1>4 DEF RequestType
  <2>2. stream' \in [Requests -> Seq(StreamEvent)]
    BY <1>3 DEF EndAll, RequestType
  <2> QED
    BY <2>1, <2>2 DEF RequestType
<1>6. RequestInv'
  <2> SUFFICES ASSUME NEW r \in Requests
               PROVE  /\ TerminalLast(stream'[r])
                      /\ r \in registry' => /\ start[r] \in {"inserted", "returned"}
                                            /\ ~ HasTerminal(stream'[r])
                      /\ start[r] \in {"new", "checked"} => stream'[r] = <<>>
                      /\ start[r] \in {"inserted", "returned"} /\ r \notin registry' =>
                            HasTerminal(stream'[r])
    BY DEF RequestInv, TerminalLast, HasTerminal
  <2>1. CASE r \in S
    <3>1. stream'[r] = Append(stream[r], e) /\ r \in registry /\ r \notin registry'
      BY <2>1, <1>1, <1>2, <1>4
    <3>2. start[r] \in {"inserted", "returned"}
      BY <3>1 DEF RequestInv
    <3> QED
      BY <2>1, <3>1, <3>2, <1>3
  <2>2. CASE r \notin S
    BY <2>2, <1>1, <1>4 DEF RequestInv
  <2> QED
    BY <2>1, <2>2
<1> QED
  BY <1>5, <1>6

(* try_send keeps it too: a payload event reaches only registered streams, *)
(* which are open, and does not end them.                                  *)
LEMMA TrySendKeeps ==
    ASSUME RequestType, RequestInv, NEW i,
           NEW e \in StreamEvent, ~ IsTerminal(e), try_send(i, e), UNCHANGED <<registry, start>>
    PROVE  RequestType' /\ RequestInv'
<1>1. PICK accept \in BOOLEAN :
          stream' = [r \in Requests |-> IF accept /\ r \in Holder(i)
                                        THEN Append(stream[r], e) ELSE stream[r]]
  BY DEF try_send
<1>2. \A r \in Holder(i) : /\ r \in registry /\ r \in Requests
                           /\ stream[r] \in Seq(StreamEvent) /\ ~ HasTerminal(stream[r])
  BY DEF Holder, RequestType, RequestInv
<1>3. \A r \in Holder(i) : /\ Append(stream[r], e) \in Seq(StreamEvent)
                           /\ TerminalLast(Append(stream[r], e))
                           /\ ~ HasTerminal(Append(stream[r], e))
  BY <1>2, AppendToOpen
<1>4. RequestType'
  BY <1>1, <1>3 DEF RequestType
<1>5. RequestInv'
  <2> SUFFICES ASSUME NEW r \in Requests
               PROVE  /\ TerminalLast(stream'[r])
                      /\ r \in registry => /\ start[r] \in {"inserted", "returned"}
                                           /\ ~ HasTerminal(stream'[r])
                      /\ start[r] \in {"new", "checked"} => stream'[r] = <<>>
                      /\ start[r] \in {"inserted", "returned"} /\ r \notin registry =>
                            HasTerminal(stream'[r])
    BY DEF RequestInv, TerminalLast, HasTerminal
  <2>1. CASE accept /\ r \in Holder(i)
    <3>1. stream'[r] = Append(stream[r], e) /\ r \in registry
      BY <2>1, <1>1, <1>2
    <3> QED
      BY <2>1, <3>1, <1>3 DEF RequestInv
  <2>2. CASE ~ (accept /\ r \in Holder(i))
    <3>1. stream'[r] = stream[r]
      BY <2>2, <1>1
    <3> QED
      BY <3>1 DEF RequestInv
  <2> QED
    BY <2>1, <2>2
<1> QED
  BY <1>4, <1>5

(* A step that touches neither the registry nor a stream nor a call in     *)
(* progress keeps the invariant.                                           *)
LEMMA UnguardedKeeps ==
    ASSUME RequestType, RequestInv, UNCHANGED guarded
    PROVE  RequestType' /\ RequestInv'
BY DEF RequestType, RequestInv, guarded, TerminalLast, HasTerminal

-----------------------------------------------------------------------------
(* Every step of the composed system keeps the invariant; one step per     *)
(* action that touches a guarded variable, all the others together.        *)
LEMMA RequestStep ==
    ASSUME IdsUnique, RequestType, RequestInv, [Next]_vars
    PROVE  RequestType' /\ RequestInv'
<1>t. "Error" \in StreamEvent /\ IsTerminal("Error")
  BY DEF StreamEvent, IsTerminal
<1>f. ASSUME fail_all, UNCHANGED start PROVE RequestType' /\ RequestInv'
  BY <1>f, <1>t, EndAllKeeps DEF fail_all
<1>m. ASSUME NEW i, NEW e \in StreamEvent, IsTerminal(e), mark_terminal(i, e), UNCHANGED start
      PROVE  RequestType' /\ RequestInv'
  <2>1. Holder(i) \in SUBSET registry
    BY DEF Holder
  <2> QED
    BY <1>m, <2>1, EndAllKeeps DEF mark_terminal
<1>1. ASSUME NEW r \in Requests, StartCheck(r) PROVE RequestType' /\ RequestInv'
  <2>1. /\ start[r] = "new" /\ registry' = registry /\ stream' = stream
        /\ \E x \in {"checked", "refused"} : start' = [start EXCEPT ![r] = x]
    BY <1>1 DEF StartCheck
  <2>2. RequestType'
    BY <2>1 DEF RequestType
  <2>3. RequestInv'
    BY <2>1 DEF RequestType, RequestInv, TerminalLast, HasTerminal
  <2> QED
    BY <2>2, <2>3
<1>2. ASSUME NEW r \in Requests, StartInsert(r) PROVE RequestType' /\ RequestInv'
  <2>1. /\ start[r] = "checked" /\ stream' = stream
        /\ start' = [start EXCEPT ![r] = "inserted"]
        /\ registry' = (registry \ Holder(IdOf[r])) \cup {r}
    BY <1>2 DEF StartInsert, insert
  <2>2. Holder(IdOf[r]) \subseteq {r}
    BY DEF Holder, IdsUnique, RequestType
  <2>3. r \notin registry /\ stream[r] = <<>> /\ ~ HasTerminal(stream[r])
    BY <2>1 DEF RequestInv, HasTerminal
  <2>4. registry' = registry \cup {r}
    BY <2>1, <2>2, <2>3
  <2>5. RequestType'
    BY <2>1, <2>4 DEF RequestType
  <2>6. RequestInv'
    BY <2>1, <2>3, <2>4 DEF RequestType, RequestInv, TerminalLast, HasTerminal
  <2> QED
    BY <2>5, <2>6
<1>3. ASSUME NEW r \in Requests, StartSend(r) PROVE RequestType' /\ RequestInv'
  <2>1. start[r] = "inserted" /\ stream' = stream
    BY <1>3 DEF StartSend
  <2>2. \/ registry' = registry /\ start' = [start EXCEPT ![r] = "returned"]
        \/ /\ registry' = registry \ Holder(IdOf[r])
           /\ start' = [start EXCEPT ![r] = "refused"]
    BY <1>3 DEF StartSend
  <2>3. Holder(IdOf[r]) \subseteq {r} /\ (r \in registry => r \in Holder(IdOf[r]))
    BY DEF Holder, IdsUnique, RequestType
  <2>4. CASE registry' = registry /\ start' = [start EXCEPT ![r] = "returned"]
    BY <2>1, <2>4 DEF RequestType, RequestInv, TerminalLast, HasTerminal
  <2>5. CASE /\ registry' = registry \ Holder(IdOf[r])
             /\ start' = [start EXCEPT ![r] = "refused"]
    <3>1. registry' = registry \ {r}
      BY <2>3, <2>5
    <3> QED
      BY <2>1, <2>5, <3>1 DEF RequestType, RequestInv, TerminalLast, HasTerminal
  <2> QED
    BY <2>2, <2>4, <2>5
<1>4. ASSUME UnloadFaulted \/ DropDrain PROVE RequestType' /\ RequestInv'
  BY <1>4, <1>f DEF UnloadFaulted, DropDrain
<1>5. ASSUME ReaderCheck PROVE RequestType' /\ RequestInv'
  <2>1. start' = start /\ (fail_all \/ UNCHANGED <<registry, stream>>)
    BY <1>5 DEF ReaderCheck, Fault
  <2> QED
    BY <2>1, <1>f, UnguardedKeeps DEF guarded
<1>6. ASSUME ReaderError PROVE RequestType' /\ RequestInv'
  BY <1>6, <1>f DEF ReaderError, Fault
<1>7. ASSUME ReaderEvent PROVE RequestType' /\ RequestInv'
  <2> DEFINE f == Head(stdout)
  <2>1. start' = start /\ Dispatch(f)
    BY <1>7 DEF ReaderEvent
  <2> HIDE DEF f
  <2>2. CASE f.kind = "WorkerFatal"
    BY <2>1, <2>2, <1>f DEF Dispatch, Fault
  <2>3. CASE f.kind # "WorkerFatal" /\ f.kind \in TerminalEvent
    <3>1. mark_terminal(IdOf[f.req], OutcomeOf(f.kind))
      BY <2>1, <2>3 DEF Dispatch
    <3>2. OutcomeOf(f.kind) \in StreamEvent /\ IsTerminal(OutcomeOf(f.kind))
      BY DEF OutcomeOf, StreamEvent, IsTerminal
    <3> QED
      BY <2>1, <3>1, <3>2, <1>m
  <2>4. CASE f.kind # "WorkerFatal" /\ f.kind \notin TerminalEvent
    <3> DEFINE e == IF f.kind = "Token" THEN "Token" ELSE "Started"
    <3>1. registry' = registry /\ (try_send(IdOf[f.req], e) \/ stream' = stream)
      BY <2>1, <2>4 DEF Dispatch
    <3>2. e \in StreamEvent /\ ~ IsTerminal(e)
      BY DEF StreamEvent, IsTerminal
    <3> HIDE DEF e
    <3> QED
      BY <2>1, <3>1, <3>2, TrySendKeeps, UnguardedKeeps DEF guarded
  <2> QED
    BY <2>2, <2>3, <2>4
<1>8. ASSUME WatchdogDead \/ WatchdogUnresponsive \/ WatchdogLimit
      PROVE  RequestType' /\ RequestInv'
  BY <1>8, <1>f DEF WatchdogDead, WatchdogUnresponsive, WatchdogLimit, WatchdogKill, Fault
<1>9. ASSUME WatchdogDeadline PROVE RequestType' /\ RequestInv'
  <2>1. PICK r \in due.overdue : mark_terminal(IdOf[r], "DeadlineExceeded")
    BY <1>9 DEF WatchdogDeadline
  <2>2. "DeadlineExceeded" \in StreamEvent /\ IsTerminal("DeadlineExceeded") /\ start' = start
    BY <1>9 DEF WatchdogDeadline, StreamEvent, IsTerminal
  <2> QED
    BY <2>1, <2>2, <1>m
<1>10. ASSUME NEW r \in Requests,
              CloseStream(r) \/ CancelLookup(r) \/ CancelSend(r) \/ DeadlinePasses(r)
       PROVE  UNCHANGED guarded
  BY <1>10 DEF CloseStream, CancelLookup, CancelSend, DeadlinePasses, guarded
<1>11. ASSUME LoadCall \/ LoadReturns \/ UnloadCall \/ UnloadSend \/ ShutdownSend
                \/ UnloadReturns \/ DropKill \/ DropJoined
       PROVE  UNCHANGED guarded
  BY <1>11 DEF LoadCall, LoadReturns, UnloadCall, UnloadSend, ShutdownSend, UnloadReturns,
               DropKill, DropJoined, requestVars, guarded
<1>12. ASSUME WatchdogFaulted \/ WatchdogHeartbeat \/ WatchdogPatient \/ WatchdogSnapshot
                \/ WatchdogCancels \/ WatchdogSleeps \/ HeartbeatAges
       PROVE  UNCHANGED guarded
  BY <1>12 DEF WatchdogFaulted, WatchdogHeartbeat, WatchdogPatient, WatchdogSnapshot,
               WatchdogCancels, WatchdogSleeps, HeartbeatAges, requestVars, guarded
<1>13. ASSUME WorkerStep \/ UNCHANGED vars PROVE UNCHANGED guarded
  BY <1>13 DEF WorkerStep, vars, hostVars, requestVars, guarded
<1> QED
  BY <1>1, <1>2, <1>3, <1>4, <1>5, <1>6, <1>7, <1>8, <1>9, <1>10, <1>11, <1>12, <1>13,
     UnguardedKeeps
     DEF Next, CallerNext, AdminNext, ReaderNext, WatchdogNext

(* The terminal guarantee: whatever the worker does and however the        *)
(* threads of the host interleave, a request that start_generation         *)
(* accepted is in the registry with an open stream or was sent exactly one *)
(* terminal event, and nothing is sent behind it.                          *)
THEOREM TerminalGuarantee == IdsUnique => (Spec => []ExactlyOneTerminal)
<1> SUFFICES ASSUME IdsUnique PROVE Spec => []ExactlyOneTerminal
  OBVIOUS
<1>1. Init => RequestType /\ RequestInv
  BY DEF Init, RequestType, RequestInv, TerminalLast, HasTerminal
<1>2. RequestType /\ RequestInv /\ [Next]_vars => RequestType' /\ RequestInv'
  BY RequestStep
<1>3. RequestType /\ RequestInv => ExactlyOneTerminal
  BY DEF RequestType, RequestInv, ExactlyOneTerminal, Ended, HasTerminal, TerminalLast
<1> QED
  BY <1>1, <1>2, <1>3, PTL DEF Spec

-----------------------------------------------------------------------------
(* Drop needs the last reference, and the registry only grows inside a     *)
(* start_generation: after the drain it stays empty.                       *)
LEMMA DropStep ==
    ASSUME DropInv, [Next]_vars
    PROVE  DropInv'
<1> DEFINE Dropping == {"dropping", "joining", "gone"}
<1>q. ASSUME start' = start, admin' = admin \/ admin' \notin Dropping, registry' \subseteq registry
      PROVE  DropInv'
  BY <1>q DEF DropInv
<1>e. \A S, e : EndAll(S, e) => registry' \subseteq registry
  BY DEF EndAll
<1>1. ASSUME NEW r \in Requests, StartCheck(r) PROVE DropInv'
  BY <1>1 DEF StartCheck, Borrowed, DropInv
<1>2. ASSUME NEW r \in Requests, StartInsert(r) PROVE DropInv'
  BY <1>2 DEF StartInsert, DropInv
<1>3. ASSUME NEW r \in Requests, StartSend(r) PROVE DropInv'
  BY <1>3 DEF StartSend, DropInv
<1>4. ASSUME DropKill \/ DropJoined PROVE DropInv'
  BY <1>4 DEF DropKill, DropJoined, DropInv, requestVars
<1>5. ASSUME DropDrain PROVE DropInv'
  <2>1. registry' = {}
    BY <1>5 DEF DropDrain, fail_all, EndAll
  <2> QED
    BY <1>5, <2>1 DEF DropDrain, DropInv
<1>6. ASSUME UnloadFaulted PROVE DropInv'
  BY <1>6, <1>e, <1>q DEF UnloadFaulted, fail_all
<1>7. ASSUME ReaderCheck \/ ReaderError PROVE DropInv'
  <2>1. start' = start /\ admin' = admin /\ registry' \subseteq registry
    BY <1>7, <1>e DEF ReaderCheck, ReaderError, Fault, fail_all
  <2> QED
    BY <2>1, <1>q
<1>8. ASSUME ReaderEvent PROVE DropInv'
  <2>1. start' = start /\ admin' = admin /\ Dispatch(Head(stdout))
    BY <1>8 DEF ReaderEvent
  <2>2. registry' \subseteq registry
    BY <2>1, <1>e DEF Dispatch, Fault, fail_all, mark_terminal
  <2> QED
    BY <2>1, <2>2, <1>q
<1>9. ASSUME WatchdogDead \/ WatchdogUnresponsive \/ WatchdogLimit \/ WatchdogDeadline
      PROVE  DropInv'
  <2>1. start' = start /\ admin' = admin
    BY <1>9 DEF WatchdogDead, WatchdogUnresponsive, WatchdogLimit, WatchdogKill, WatchdogDeadline
  <2>2. registry' \subseteq registry
    BY <1>9, <1>e DEF WatchdogDead, WatchdogUnresponsive, WatchdogLimit, WatchdogKill,
                      WatchdogDeadline, Fault, fail_all, mark_terminal
  <2> QED
    BY <2>1, <2>2, <1>q
<1>10. ASSUME NEW r \in Requests,
              CloseStream(r) \/ CancelLookup(r) \/ CancelSend(r) \/ DeadlinePasses(r)
       PROVE  DropInv'
  BY <1>10, <1>q DEF CloseStream, CancelLookup, CancelSend, DeadlinePasses
<1>11. ASSUME LoadCall \/ LoadReturns \/ UnloadCall \/ UnloadSend \/ ShutdownSend
                \/ UnloadReturns
       PROVE  DropInv'
  BY <1>11, <1>q DEF LoadCall, LoadReturns, UnloadCall, UnloadSend, ShutdownSend, UnloadReturns,
                     requestVars
<1>12. ASSUME WatchdogFaulted \/ WatchdogHeartbeat \/ WatchdogPatient \/ WatchdogSnapshot
                \/ WatchdogCancels \/ WatchdogSleeps \/ HeartbeatAges
       PROVE  DropInv'
  BY <1>12, <1>q DEF WatchdogFaulted, WatchdogHeartbeat, WatchdogPatient, WatchdogSnapshot,
                     WatchdogCancels, WatchdogSleeps, HeartbeatAges, requestVars
<1>13. ASSUME WorkerStep \/ UNCHANGED vars PROVE DropInv'
  BY <1>13, <1>q DEF WorkerStep, vars, hostVars, requestVars
<1> QED
  BY <1>1, <1>2, <1>3, <1>4, <1>5, <1>6, <1>7, <1>8, <1>9, <1>10, <1>11, <1>12, <1>13
     DEF Next, CallerNext, AdminNext, ReaderNext, WatchdogNext

(* Dropping the supervisor leaves no stream open: whatever the two         *)
(* background threads do until they are joined, the registry stays empty   *)
(* once shutdown() has drained it.                                         *)
THEOREM DropIsClean == Spec => []DropStrandsNobody
<1>1. Init => DropInv
  BY DEF Init, DropInv
<1>2. DropInv /\ [Next]_vars => DropInv'
  BY DropStep
<1>3. DropInv => DropStrandsNobody
  BY DEF DropInv, DropStrandsNobody
<1> QED
  BY <1>1, <1>2, <1>3, PTL DEF Spec

-----------------------------------------------------------------------------
(* A stream event that says so is the only thing the deadline proof needs  *)
(* to know of a stream.                                                    *)
LEMMA OnlyNewEvent ==
    ASSUME NEW s \in Seq(StreamEvent), NEW e \in StreamEvent,
           NEW x \in StreamEvent, x # e, NEW i \in 1 .. Len(Append(s, e)), Append(s, e)[i] = x
    PROVE  i \in 1 .. Len(s) /\ s[i] = x
OBVIOUS

DeadlineType ==
    /\ expiry \in [Requests -> {"running", "expired", "overdue"}]
    /\ due \in [expired : SUBSET Requests, overdue : SUBSET Requests]

(* Deadlines only move forward, the snapshot is taken of overdue requests, *)
(* and with unique identifiers it names them and nobody else.              *)
LEMMA DeadlineStep ==
    ASSUME IdsUnique, RequestType, RequestInv, DeadlineType, DueInv, DeadlineHitsOverdue,
           [Next]_vars
    PROVE  DeadlineType' /\ DueInv' /\ DeadlineHitsOverdue'
<1> DEFINE Told(s) == \E i \in 1 .. Len(s) : s[i] = "DeadlineExceeded"
<1>h. DeadlineHitsOverdue <=> \A r \in Requests : Told(stream[r]) => expiry[r] = "overdue"
  BY DEF DeadlineHitsOverdue
<1>hp. DeadlineHitsOverdue' <=> \A r \in Requests : Told(stream'[r]) => expiry'[r] = "overdue"
  BY DEF DeadlineHitsOverdue
<1>a. ASSUME NEW s \in Seq(StreamEvent), NEW e \in StreamEvent, e # "DeadlineExceeded",
             Told(Append(s, e))
      PROVE  Told(s)
  BY <1>a, OnlyNewEvent DEF StreamEvent
<1> HIDE DEF Told
<1>s. \A r \in Requests : stream[r] \in Seq(StreamEvent)
  BY DEF RequestType
<1>q. ASSUME UNCHANGED <<expiry, due>>, stream' \in [Requests -> Seq(StreamEvent)],
             \A r \in Requests : Told(stream'[r]) => Told(stream[r])
      PROVE  DeadlineType' /\ DueInv' /\ DeadlineHitsOverdue'
  BY <1>q, <1>h, <1>hp DEF DeadlineType, DueInv
<1>e. ASSUME UNCHANGED <<expiry, due>>, NEW S \in SUBSET registry, NEW e \in StreamEvent,
             e # "DeadlineExceeded", EndAll(S, e)
      PROVE  DeadlineType' /\ DueInv' /\ DeadlineHitsOverdue'
  <2>1. stream' = [r \in Requests |-> IF r \in S THEN Append(stream[r], e) ELSE stream[r]]
    BY <1>e DEF EndAll
  <2>2. stream' \in [Requests -> Seq(StreamEvent)]
    BY <2>1, <1>s, <1>e
  <2>3. \A r \in Requests : Told(stream'[r]) => Told(stream[r])
    BY <2>1, <1>s, <1>e, <1>a
  <2> QED
    BY <2>2, <2>3, <1>e, <1>q
<1>f. ASSUME UNCHANGED <<expiry, due>>, fail_all
      PROVE  DeadlineType' /\ DueInv' /\ DeadlineHitsOverdue'
  <2>1. "Error" \in StreamEvent /\ "Error" # "DeadlineExceeded"
    BY DEF StreamEvent
  <2> QED
    BY <1>f, <2>1, <1>e DEF fail_all
<1>u. ASSUME UNCHANGED <<expiry, due, stream>>
      PROVE  DeadlineType' /\ DueInv' /\ DeadlineHitsOverdue'
  BY <1>u, <1>h, <1>hp DEF DeadlineType, DueInv
<1>1. ASSUME NEW r \in Requests, DeadlinePasses(r)
      PROVE  DeadlineType' /\ DueInv' /\ DeadlineHitsOverdue'
  <2>1. /\ expiry[r] # "overdue" /\ stream' = stream /\ due' = due
        /\ \E x \in {"expired", "overdue"} : expiry' = [expiry EXCEPT ![r] = x]
    BY <1>1 DEF DeadlinePasses
  <2>2. \A q \in Requests : expiry[q] = "overdue" => expiry'[q] = "overdue"
    BY <2>1 DEF DeadlineType
  <2>3. DeadlineType' /\ DueInv'
    BY <2>1, <2>2 DEF DeadlineType, DueInv
  <2>4. DeadlineHitsOverdue'
    BY <2>1, <2>2, <1>h, <1>hp
  <2> QED
    BY <2>3, <2>4
<1>2. ASSUME WatchdogSnapshot PROVE DeadlineType' /\ DueInv' /\ DeadlineHitsOverdue'
  <2>1. /\ due' = [expired |-> {r \in registry : expiry[r] = "expired"},
                   overdue |-> {r \in registry : expiry[r] = "overdue"}]
        /\ stream' = stream /\ expiry' = expiry
    BY <1>2 DEF WatchdogSnapshot, requestVars
  <2>2. DeadlineType' /\ DueInv'
    BY <2>1 DEF DeadlineType, DueInv, RequestType
  <2> QED
    BY <2>1, <2>2, <1>h, <1>hp
<1>3. ASSUME WatchdogCancels PROVE DeadlineType' /\ DueInv' /\ DeadlineHitsOverdue'
  <2>1. PICK r \in due.expired : due' = [due EXCEPT !.expired = @ \ {r}]
    BY <1>3 DEF WatchdogCancels
  <2>2. stream' = stream /\ expiry' = expiry
    BY <1>3 DEF WatchdogCancels, requestVars
  <2>3. DeadlineType' /\ DueInv'
    BY <2>1, <2>2 DEF DeadlineType, DueInv
  <2> QED
    BY <2>2, <2>3, <1>h, <1>hp
<1>4. ASSUME WatchdogDeadline PROVE DeadlineType' /\ DueInv' /\ DeadlineHitsOverdue'
  <2>1. PICK r \in due.overdue : mark_terminal(IdOf[r], "DeadlineExceeded")
    BY <1>4 DEF WatchdogDeadline
  <2>2. due' = NothingDue /\ expiry' = expiry
    BY <1>4 DEF WatchdogDeadline
  <2>3. r \in Requests /\ expiry[r] = "overdue"
    BY DEF DueInv
  <2>4. \A q \in Holder(IdOf[r]) : q = r
    BY <2>3 DEF Holder, IdsUnique, RequestType
  <2>5. \A q \in Requests : q # r => stream'[q] = stream[q]
    BY <2>1, <2>4 DEF mark_terminal, EndAll
  <2>6. DeadlineType' /\ DueInv'
    BY <2>2 DEF DeadlineType, DueInv, NothingDue
  <2>7. DeadlineHitsOverdue'
    BY <2>2, <2>3, <2>5, <1>h, <1>hp
  <2> QED
    BY <2>6, <2>7
<1>5. ASSUME ReaderEvent PROVE DeadlineType' /\ DueInv' /\ DeadlineHitsOverdue'
  <2> DEFINE f == Head(stdout)
  <2>1. UNCHANGED <<expiry, due>> /\ Dispatch(f)
    BY <1>5 DEF ReaderEvent
  <2> HIDE DEF f
  <2>2. CASE f.kind = "WorkerFatal"
    BY <2>1, <2>2, <1>f DEF Dispatch, Fault
  <2>3. CASE f.kind # "WorkerFatal" /\ f.kind \in TerminalEvent
    <3>1. EndAll(Holder(IdOf[f.req]), OutcomeOf(f.kind))
      BY <2>1, <2>3 DEF Dispatch, mark_terminal
    <3>2. OutcomeOf(f.kind) \in StreamEvent /\ OutcomeOf(f.kind) # "DeadlineExceeded"
      BY DEF OutcomeOf, StreamEvent
    <3>3. Holder(IdOf[f.req]) \in SUBSET registry
      BY DEF Holder
    <3> QED
      BY <2>1, <3>1, <3>2, <3>3, <1>e
  <2>4. CASE f.kind # "WorkerFatal" /\ f.kind \notin TerminalEvent
    <3> DEFINE e == IF f.kind = "Token" THEN "Token" ELSE "Started"
    <3>1. try_send(IdOf[f.req], e) \/ stream' = stream
      BY <2>1, <2>4 DEF Dispatch
    <3>2. e \in StreamEvent /\ e # "DeadlineExceeded"
      BY DEF StreamEvent
    <3> HIDE DEF e
    <3>3. CASE try_send(IdOf[f.req], e)
      <4>1. PICK accept \in BOOLEAN :
                stream' = [r \in Requests |-> IF accept /\ r \in Holder(IdOf[f.req])
                                              THEN Append(stream[r], e) ELSE stream[r]]
        BY <3>3 DEF try_send
      <4>2. stream' \in [Requests -> Seq(StreamEvent)]
        BY <4>1, <3>2, <1>s
      <4>3. \A r \in Requests : Told(stream'[r]) => Told(stream[r])
        BY <4>1, <3>2, <1>s, <1>a
      <4> QED
        BY <2>1, <4>2, <4>3, <1>q
    <3> QED
      BY <2>1, <3>1, <3>3, <1>u
  <2> QED
    BY <2>2, <2>3, <2>4
<1>6. ASSUME ReaderCheck PROVE DeadlineType' /\ DueInv' /\ DeadlineHitsOverdue'
  <2>1. UNCHANGED <<expiry, due>> /\ (fail_all \/ stream' = stream)
    BY <1>6 DEF ReaderCheck, Fault
  <2> QED
    BY <2>1, <1>f, <1>u
<1>7. ASSUME ReaderError \/ WatchdogDead \/ WatchdogUnresponsive \/ WatchdogLimit
               \/ UnloadFaulted \/ DropDrain
      PROVE  DeadlineType' /\ DueInv' /\ DeadlineHitsOverdue'
  BY <1>7, <1>f DEF ReaderError, WatchdogDead, WatchdogUnresponsive, WatchdogLimit, WatchdogKill,
                    UnloadFaulted, DropDrain, Fault
<1>8. ASSUME NEW r \in Requests,
             StartCheck(r) \/ StartInsert(r) \/ StartSend(r) \/ CloseStream(r) \/ CancelLookup(r)
               \/ CancelSend(r)
      PROVE  UNCHANGED <<expiry, due, stream>>
  BY <1>8 DEF StartCheck, StartInsert, StartSend, CloseStream, CancelLookup, CancelSend
<1>9. ASSUME LoadCall \/ LoadReturns \/ UnloadCall \/ UnloadSend \/ ShutdownSend
               \/ UnloadReturns \/ DropKill \/ DropJoined
      PROVE  UNCHANGED <<expiry, due, stream>>
  BY <1>9 DEF LoadCall, LoadReturns, UnloadCall, UnloadSend, ShutdownSend, UnloadReturns,
              DropKill, DropJoined, requestVars
<1>10. ASSUME WatchdogFaulted \/ WatchdogHeartbeat \/ WatchdogPatient \/ WatchdogSleeps
                \/ HeartbeatAges
       PROVE  UNCHANGED <<expiry, due, stream>>
  BY <1>10 DEF WatchdogFaulted, WatchdogHeartbeat, WatchdogPatient, WatchdogSleeps,
               HeartbeatAges, requestVars
<1>11. ASSUME WorkerStep \/ UNCHANGED vars PROVE UNCHANGED <<expiry, due, stream>>
  BY <1>11 DEF WorkerStep, vars, hostVars, requestVars
<1> QED
  BY <1>1, <1>2, <1>3, <1>4, <1>5, <1>6, <1>7, <1>8, <1>9, <1>10, <1>11, <1>u
     DEF Next, CallerNext, AdminNext, ReaderNext, WatchdogNext

(* The watchdog, acting by request_id on a snapshot taken before it let go *)
(* of the registry lock, tells only overdue requests that their deadline   *)
(* is exceeded, provided identifiers are not reused.                       *)
THEOREM DeadlinesAreFair == IdsUnique => (Spec => []DeadlineHitsOverdue)
<1> SUFFICES ASSUME IdsUnique PROVE Spec => []DeadlineHitsOverdue
  OBVIOUS
<1> DEFINE I == RequestType /\ RequestInv /\ DeadlineType /\ DueInv /\ DeadlineHitsOverdue
<1>1. Init => I
  BY DEF Init, RequestType, RequestInv, TerminalLast, HasTerminal, DeadlineType, DueInv,
         DeadlineHitsOverdue, NothingDue
<1>2. I /\ [Next]_vars => I'
  BY RequestStep, DeadlineStep
<1> QED
  BY <1>1, <1>2, PTL DEF Spec
=============================================================================
