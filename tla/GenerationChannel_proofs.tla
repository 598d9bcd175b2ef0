---------------------- MODULE GenerationChannel_proofs ----------------------
(***************************************************************************)
(* Proofs about GenerationChannel, for every set of threads, every         *)
(* capacity and every number of events.                                    *)
(***************************************************************************)
EXTENDS GenerationChannel, SequenceTheorems, TLAPS

-----------------------------------------------------------------------------
(* The condition variable.                                                 *)

(* notify_one moves at most one thread from the wait set to the mutex, and *)
(* does move one when the wait set is not empty.                           *)
LEMMA NotifyOneEffect ==
  ASSUME NEW p0 \in [Threads -> PC], NEW p1 \in NotifyOne(p0)
  PROVE  /\ p1 \in [Threads -> PC]
         /\ \A t \in Threads : p1[t] = p0[t] \/ (p0[t] = "waiting" /\ p1[t] = "locking")
         /\ (\E t \in Threads : p0[t] = "waiting")
               => \E t \in Threads : p0[t] = "waiting" /\ p1[t] = "locking"
<1> DEFINE W == {t \in Threads : p0[t] = "waiting"}
<1>1. CASE W = {}
  <2>1. p1 = p0  BY <1>1 DEF NotifyOne
  <2> QED  BY <1>1, <2>1
<1>2. CASE W # {}
  <2>1. PICK t \in W : p1 = [p0 EXCEPT ![t] = "locking"]
    BY <1>2 DEF NotifyOne
  <2>2. "locking" \in PC  BY DEF PC
  <2> QED  BY <2>1, <2>2
<1> QED  BY <1>1, <1>2

(* notify_all moves every thread of the wait set to the mutex.             *)
LEMMA NotifyAllEffect ==
  ASSUME NEW p0 \in [Threads -> PC]
  PROVE  /\ NotifyAll(p0) \in [Threads -> PC]
         /\ \A t \in Threads : NotifyAll(p0)[t] =
                IF p0[t] = "waiting" THEN "locking" ELSE p0[t]
BY DEF NotifyAll, PC

-----------------------------------------------------------------------------
(* Type correctness.                                                       *)

\* A new channel has its types.
LEMMA TypeInit == Init => TypeOK
<1> SUFFICES ASSUME Init PROVE TypeOK  OBVIOUS
<1>1. (CHOOSE e \in Events : TRUE) \in Events
  BY EventsAssumption DEF Events
<1>2. arg \in [Producers -> Events]  BY <1>1, Zenon DEF Init
<1>3. queue \in Seq(Events) /\ delivered \in Seq(Events)  BY EmptySeq DEF Init
<1>4. pc \in [Threads -> PC]  BY DEF Init, PC
<1> QED  BY <1>2, <1>3, <1>4 DEF Init, TypeOK

(* Every critical section of the channel keeps the types.                  *)
LEMMA TypeStep == TypeOK /\ [Next]_vars => TypeOK'
<1> SUFFICES ASSUME TypeOK, [Next]_vars PROVE TypeOK'  OBVIOUS
<1> USE DEF TypeOK
<1>c. Consumer \in Threads /\ Producers \subseteq Threads  BY DEF Threads
<1>1. ASSUME NEW p \in Producers, NEW e \in Payload, TrySend(p, e) PROVE TypeOK'
  BY <1>1, NotifyOneEffect DEF TrySend, flags, Events
<1>2. ASSUME NEW p \in Producers, NEW e \in Terminal, SendTerminal(p, e) PROVE TypeOK'
  BY <1>2, NotifyOneEffect DEF SendTerminal, flags, Events
<1>3. ASSUME NEW p \in Producers, NEW e \in Payload, BlockingSendCall(p, e) PROVE TypeOK'
  BY <1>3, <1>c DEF BlockingSendCall, flags, Events, PC
<1>4. ASSUME NEW p \in Producers, BlockingSendPush(p) PROVE TypeOK'
  <2>1. [pc EXCEPT ![p] = "idle"] \in [Threads -> PC]  BY <1>c DEF PC
  <2>2. pc' \in [Threads -> PC]  BY <1>4, <2>1, NotifyOneEffect DEF BlockingSendPush
  <2> QED  BY <1>4, <2>2 DEF BlockingSendPush, flags
<1>5. ASSUME NEW p \in Producers,
             BlockingSendClosed(p) \/ BlockingSendPark(p)
      PROVE TypeOK'
  BY <1>5, <1>c DEF BlockingSendClosed, BlockingSendPark, flags, PC
<1>6. ASSUME NEW p \in Producers, DropSender(p) PROVE TypeOK'
  BY <1>6 DEF DropSender, PC
<1>7. ASSUME NEW p \in Producers, DropSenderNotify(p) PROVE TypeOK'
  <2>1. [pc EXCEPT ![p] = "gone"] \in [Threads -> PC]  BY <1>c DEF PC
  <2>2. pc' \in [Threads -> PC]  BY <1>7, <2>1, NotifyAllEffect DEF DropSenderNotify
  <2> QED  BY <1>7, <2>2 DEF DropSenderNotify, flags
<1>8. ASSUME NEW t \in Threads, Wait(t) PROVE TypeOK'
  BY <1>8 DEF Wait, flags, PC
<1>9. ASSUME Pop PROVE TypeOK'
  <2>1. [pc EXCEPT ![Consumer] = "idle"] \in [Threads -> PC]  BY <1>c DEF PC
  <2>2. pc' \in [Threads -> PC]  BY <1>9, <2>1, NotifyOneEffect DEF Pop
  <2>3. Head(queue) \in Events /\ Tail(queue) \in Seq(Events)
    BY <1>9, HeadTailProperties DEF Pop
  <2>4. terminalSeen' \in BOOLEAN  BY <1>9 DEF Pop, is_terminal
  <2> QED  BY <1>9, <2>2, <2>3, <2>4 DEF Pop
<1>10. ASSUME RecvCall \/ RecvNone \/ RecvPark PROVE TypeOK'
  BY <1>10, <1>c DEF RecvCall, RecvNone, RecvPark, flags, PC
<1>11. ASSUME Close \/ DropStream PROVE TypeOK'
  BY <1>11, <1>c DEF Close, DropStream, PC
<1>12. ASSUME CloseNotify \/ DropStreamNotify PROVE TypeOK'
  <2>1. /\ [pc EXCEPT ![Consumer] = "idle"] \in [Threads -> PC]
        /\ [pc EXCEPT ![Consumer] = "gone"] \in [Threads -> PC]
    BY <1>c DEF PC
  <2>2. pc' \in [Threads -> PC]
    BY <1>12, <2>1, NotifyAllEffect DEF CloseNotify, DropStreamNotify
  <2> QED  BY <1>12, <2>2 DEF CloseNotify, DropStreamNotify
<1>13. CASE UNCHANGED vars  BY <1>13 DEF vars, flags
<1> QED
  BY <1>1, <1>2, <1>3, <1>4, <1>5, <1>6, <1>7, <1>8, <1>9, <1>10, <1>11, <1>12, <1>13, <1>c
  DEF Next, ProducerInside, ProducerCalls, ConsumerInside, ConsumerCalls, TryRecv, RecvPop

(* The variables of the channel keep their types in every behaviour.       *)
THEOREM TypeCorrect == Spec => []TypeOK
BY TypeInit, TypeStep, PTL DEF Spec

-----------------------------------------------------------------------------
(* The capacity.  Together with the types the bound is inductive: the two  *)
(* sends test the length in the critical section that pushes.              *)

\* Only send_terminal pushes past the capacity.
LEMMA CapacityStep == TypeOK /\ CapacityBound /\ [Next]_vars => CapacityBound'
<1> SUFFICES ASSUME TypeOK, CapacityBound, [Next]_vars PROVE CapacityBound'  OBVIOUS
<1> USE CapacityAssumption DEF TypeOK, CapacityBound
<1>1. ASSUME NEW p \in Producers, NEW e \in Payload, TrySend(p, e) PROVE CapacityBound'
  BY <1>1 DEF TrySend, Events
<1>2. ASSUME NEW p \in Producers, NEW e \in Terminal, SendTerminal(p, e) PROVE CapacityBound'
  BY <1>2 DEF SendTerminal, Events
<1>3. ASSUME NEW p \in Producers, BlockingSendPush(p) PROVE CapacityBound'
  BY <1>3 DEF BlockingSendPush
<1>4. ASSUME Pop PROVE CapacityBound'
  BY <1>4, HeadTailProperties DEF Pop
<1>5. ASSUME UNCHANGED <<queue, bypassed>> PROVE CapacityBound'
  BY <1>5
<1> QED
  BY <1>1, <1>2, <1>3, <1>4, <1>5
  DEF Next, ProducerInside, ProducerCalls, ConsumerInside, ConsumerCalls, TryRecv, RecvPop,
      BlockingSendCall, BlockingSendClosed, BlockingSendPark, DropSender, DropSenderNotify, Wait,
      RecvCall, RecvNone, RecvPark, Close, CloseNotify, DropStream, DropStreamNotify, vars, flags

(* Backpressure holds for every number of producers and every capacity.    *)
THEOREM CapacityCorrect == Spec => []CapacityBound
<1>1. Init => CapacityBound
  BY CapacityAssumption DEF Init, CapacityBound
<1> QED  BY <1>1, TypeCorrect, CapacityStep, PTL DEF Spec

-----------------------------------------------------------------------------
(* The terminal event.  The strengthening says what terminal_seen records: *)
(* whether a terminal event has been handed to the consumer.               *)

TerminalInv ==
    /\ NothingAfterTerminal
    /\ (\E i \in 1 .. Len(delivered) : is_terminal(delivered[i])) => terminalSeen

\* terminal_seen follows what was delivered.
LEMMA TerminalStep == TypeOK /\ TerminalInv /\ [Next]_vars => TerminalInv'
<1> SUFFICES ASSUME TypeOK, TerminalInv, [Next]_vars PROVE TerminalInv'  OBVIOUS
<1> USE DEF TypeOK, TerminalInv, NothingAfterTerminal, is_terminal
<1>1. ASSUME Pop PROVE TerminalInv'
  <2>1. Head(queue) \in Events  BY <1>1, HeadTailProperties DEF Pop
  <2>2. /\ Len(delivered') = Len(delivered) + 1
        /\ \A i \in 1 .. Len(delivered) : delivered'[i] = delivered[i]
        /\ delivered'[Len(delivered) + 1] = Head(queue)
    BY <1>1, <2>1, AppendProperties DEF Pop
  <2>3. \A i \in 1 .. Len(delivered) : delivered[i] \notin Terminal
    BY <1>1 DEF Pop
  <2>4. Head(queue) \in Terminal => terminalSeen'  BY <1>1 DEF Pop
  <2>5. ASSUME NEW i \in 1 .. Len(delivered'), delivered'[i] \in Terminal
        PROVE  i = Len(delivered') /\ Head(queue) \in Terminal
    <3>1. i \in 1 .. Len(delivered) \/ i = Len(delivered) + 1  BY <2>2
    <3> QED  BY <3>1, <2>2, <2>3, <2>5
  <2> QED  BY <2>4, <2>5
<1>2. ASSUME UNCHANGED <<delivered, terminalSeen>> PROVE TerminalInv'
  BY <1>2
<1> QED
  BY <1>1, <1>2
  DEF Next, ProducerInside, ProducerCalls, ConsumerInside, ConsumerCalls, TryRecv, RecvPop,
      TrySend, SendTerminal, BlockingSendPush,
      BlockingSendCall, BlockingSendClosed, BlockingSendPark, DropSender, DropSenderNotify, Wait,
      RecvCall, RecvNone, RecvPark, Close, CloseNotify, DropStream, DropStreamNotify, vars, flags

(* The consumer never sees an event after a terminal one.                  *)
THEOREM TerminalCorrect == Spec => []NothingAfterTerminal
<1>1. Init => TerminalInv
  BY DEF Init, TerminalInv, NothingAfterTerminal
<1>2. TerminalInv => NothingAfterTerminal  BY DEF TerminalInv
<1> QED  BY <1>1, <1>2, TypeCorrect, TerminalStep, PTL DEF Spec

-----------------------------------------------------------------------------
(* The wait set.  A thread that holds the mutex between its test and its   *)
(* wait ("parking") already has its reason, and the mutex keeps the queue  *)
(* as it is until the thread has joined the wait set.  With one blocking   *)
(* producer the two reasons exclude each other, so notify_one, which       *)
(* cannot choose between a producer and a consumer, always wakes the       *)
(* thread the change is for.                                               *)

WaitInv ==
    /\ pc[Consumer] \in {"parking", "waiting"} => queue = <<>>
    /\ \A p \in Producers :
          pc[p] \in {"parking", "waiting"} => Len(queue) >= Capacity
    /\ \A p \in Producers : pc[p] \in Inside => p \in Blockers

\* A push wakes the consumer when it waits.
LEMMA PushKeepsWaitInv ==
  ASSUME TypeOK, WaitInv, Unlocked,
         NEW e \in Events, queue' = Append(queue, e),
         NEW p0 \in [Threads -> PC], pc' \in NotifyOne(p0),
         \A t \in Threads : p0[t] = pc[t] \/ p0[t] = "idle"
  PROVE  WaitInv'
<1> USE CapacityAssumption DEF Inside
<1>c. Consumer \in Threads /\ \A p \in Producers : p \in Threads  BY DEF Threads
<1>1. Len(queue) \in Nat /\ Len(queue') = Len(queue) + 1  BY DEF TypeOK
<1>2. \A t \in Threads : pc'[t] = p0[t] \/ (p0[t] = "waiting" /\ pc'[t] = "locking")
  BY NotifyOneEffect
<1>3. (\E t \in Threads : p0[t] = "waiting")
          => \E t \in Threads : p0[t] = "waiting" /\ pc'[t] = "locking"
  BY NotifyOneEffect
<1>4. \A t \in Threads : pc'[t] \in {"parking", "waiting"} => pc[t] = "waiting" /\ p0[t] = "waiting"
  BY <1>2 DEF Unlocked
<1>5. \A p \in Producers : pc'[p] \in {"parking", "waiting"} => Len(queue') >= Capacity
  BY <1>1, <1>4, <1>c DEF WaitInv
<1>6. \A p \in Producers : pc'[p] \in Inside => p \in Blockers
  BY <1>2, <1>4, <1>c DEF WaitInv
<1>7. pc'[Consumer] \notin {"parking", "waiting"}
  <2> SUFFICES ASSUME pc'[Consumer] \in {"parking", "waiting"} PROVE FALSE  OBVIOUS
  <2>1. pc[Consumer] = "waiting" /\ p0[Consumer] = "waiting"  BY <1>4, <1>c
  <2>2. queue = <<>>  BY <2>1 DEF WaitInv
  <2>3. PICK t \in Threads : p0[t] = "waiting" /\ pc'[t] = "locking"  BY <2>1, <1>3, <1>c
  <2>4. t \in Producers  BY <2>3 DEF Threads
  <2>5. pc[t] = "waiting"  BY <2>3
  <2>6. Len(queue) >= Capacity  BY <2>4, <2>5 DEF WaitInv
  <2>7. Len(queue) = 0  BY <2>2
  <2> QED  BY <2>6, <2>7
<1> QED  BY <1>5, <1>6, <1>7 DEF WaitInv

\* A pop wakes the producer when it waits.
LEMMA PopKeepsWaitInv ==
  ASSUME TypeOK, WaitInv, Unlocked, OneBlocker, Pop
  PROVE  WaitInv'
<1> USE DEF Inside
<1> DEFINE p0 == [pc EXCEPT ![Consumer] = "idle"]
<1>c. Consumer \in Threads /\ \A p \in Producers : p \in Threads /\ p # Consumer
  BY ProducersAssumption DEF Threads
<1>0. p0 \in [Threads -> PC] /\ p0[Consumer] = "idle"
      /\ \A t \in Threads : t # Consumer => p0[t] = pc[t]
  BY <1>c DEF TypeOK, PC
<1>1. pc' \in NotifyOne(p0)  BY DEF Pop
<1> HIDE DEF p0
<1>2. \A t \in Threads : pc'[t] = p0[t] \/ (p0[t] = "waiting" /\ pc'[t] = "locking")
  BY <1>0, <1>1, NotifyOneEffect
<1>3. (\E t \in Threads : p0[t] = "waiting")
          => \E t \in Threads : p0[t] = "waiting" /\ pc'[t] = "locking"
  BY <1>0, <1>1, NotifyOneEffect
<1>4. pc'[Consumer] = "idle"  BY <1>0, <1>2, <1>c
<1>5. \A p \in Producers : pc'[p] \in Inside => p \in Blockers
  BY <1>0, <1>2, <1>c DEF WaitInv
<1>6. \A p \in Producers : pc'[p] \notin {"parking", "waiting"}
  <2> SUFFICES ASSUME NEW p \in Producers, pc'[p] \in {"parking", "waiting"} PROVE FALSE
    OBVIOUS
  <2>1. p0[p] = "waiting" /\ pc[p] = "waiting"  BY <1>0, <1>2, <1>c DEF Unlocked
  <2>2. PICK t \in Threads : p0[t] = "waiting" /\ pc'[t] = "locking"  BY <2>1, <1>3, <1>c
  <2>3. t \in Producers /\ pc[t] = "waiting"  BY <2>2, <1>0 DEF Threads
  <2>4. t \in Blockers /\ p \in Blockers  BY <2>1, <2>3 DEF WaitInv
  <2> QED  BY <2>2, <2>4 DEF OneBlocker
<1> QED  BY <1>4, <1>5, <1>6 DEF WaitInv

\* Nobody waits who has something to do.
LEMMA WaitStep == OneBlocker /\ TypeOK /\ WaitInv /\ [Next]_vars => WaitInv'
<1> SUFFICES ASSUME OneBlocker, TypeOK, WaitInv, [Next]_vars PROVE WaitInv'  OBVIOUS
<1>c. Consumer \in Threads /\ \A p \in Producers : p \in Threads /\ p # Consumer
  BY ProducersAssumption DEF Threads
<1>t. pc \in [Threads -> PC]  BY DEF TypeOK
<1>1. ASSUME NEW p \in Producers, NEW e \in Payload, TrySend(p, e) PROVE WaitInv'
  BY <1>1, <1>t, PushKeepsWaitInv DEF TrySend, Events
<1>2. ASSUME NEW p \in Producers, NEW e \in Terminal, SendTerminal(p, e) PROVE WaitInv'
  BY <1>2, <1>t, PushKeepsWaitInv DEF SendTerminal, Events
<1>3. ASSUME NEW p \in Producers, NEW e \in Payload, BlockingSendCall(p, e) PROVE WaitInv'
  BY <1>3, <1>c, <1>t DEF BlockingSendCall, WaitInv, Inside
<1>4. ASSUME NEW p \in Producers, BlockingSendPush(p) PROVE WaitInv'
  <2> DEFINE p0 == [pc EXCEPT ![p] = "idle"]
  <2>1. p0 \in [Threads -> PC] /\ \A t \in Threads : p0[t] = pc[t] \/ p0[t] = "idle"
    BY <1>c, <1>t DEF PC
  <2>2. arg[p] \in Events  BY DEF TypeOK
  <2>3. pc' \in NotifyOne(p0) /\ queue' = Append(queue, arg[p]) /\ Unlocked
    BY <1>4 DEF BlockingSendPush
  <2> HIDE DEF p0
  <2> QED  BY <2>1, <2>2, <2>3, PushKeepsWaitInv
<1>5. ASSUME NEW p \in Producers, BlockingSendClosed(p) \/ BlockingSendPark(p) PROVE WaitInv'
  BY <1>5, <1>c, <1>t DEF BlockingSendClosed, BlockingSendPark, WaitInv, Inside
<1>6. ASSUME NEW p \in Producers, DropSender(p) PROVE WaitInv'
  BY <1>6, <1>c, <1>t DEF DropSender, WaitInv, Inside
<1>7. ASSUME NEW p \in Producers, DropSenderNotify(p) PROVE WaitInv'
  BY <1>7, <1>c, <1>t DEF DropSenderNotify, NotifyAll, WaitInv, Inside
<1>8. ASSUME NEW t \in Threads, Wait(t) PROVE WaitInv'
  BY <1>8, <1>c, <1>t DEF Wait, WaitInv, Inside
<1>9. ASSUME TryRecv \/ RecvPop PROVE WaitInv'
  BY <1>9, PopKeepsWaitInv DEF TryRecv, RecvPop
<1>10. ASSUME RecvCall \/ RecvNone \/ RecvPark PROVE WaitInv'
  BY <1>10, <1>c, <1>t DEF RecvCall, RecvNone, RecvPark, WaitInv, Inside
<1>11. ASSUME Close \/ DropStream PROVE WaitInv'
  BY <1>11, <1>c, <1>t DEF Close, DropStream, WaitInv, Inside
<1>12. ASSUME CloseNotify \/ DropStreamNotify PROVE WaitInv'
  BY <1>12, <1>c, <1>t DEF CloseNotify, DropStreamNotify, NotifyAll, WaitInv, Inside
<1>13. CASE UNCHANGED vars  BY <1>13 DEF vars, flags, WaitInv, Inside
<1> QED
  BY <1>1, <1>2, <1>3, <1>4, <1>5, <1>6, <1>7, <1>8, <1>9, <1>10, <1>11, <1>12, <1>13, <1>c
  DEF Next, ProducerInside, ProducerCalls, ConsumerInside, ConsumerCalls

(* With at most one blocking producer the shared condition variable misses *)
(* nobody, for every capacity and any number of other producers.           *)
THEOREM WaitersCorrect == OneBlocker => (Spec => []WaitersHaveReason)
<1> SUFFICES ASSUME OneBlocker PROVE Spec => []WaitersHaveReason  OBVIOUS
<1>c. \A p \in Producers : p \in Threads  BY DEF Threads
<1>1. Init => WaitInv
  BY <1>c DEF Init, WaitInv, Inside, Threads
<1>2. TypeOK /\ WaitInv /\ [Next]_vars => WaitInv'  BY WaitStep
<1>3. WaitInv => WaitersHaveReason
  BY ProducersAssumption DEF WaitInv, WaitersHaveReason
<1> QED  BY <1>1, <1>2, <1>3, TypeCorrect, PTL DEF Spec

-----------------------------------------------------------------------------
(* Refinement.                                                             *)

\* A push is a Send, a pop a Receive, the rest stutters.
LEMMA StreamStep == TypeOK /\ TerminalInv /\ [Next]_vars => [Stream!Next]_(Stream!vars)
<1> SUFFICES ASSUME TypeOK, TerminalInv, [Next]_vars PROVE [Stream!Next]_(Stream!vars)
  OBVIOUS
<1> DEFINE sent == delivered \o queue
<1>q. queue \in Seq(Events) /\ delivered \in Seq(Events)  BY DEF TypeOK
<1>1. ASSUME NEW e \in Events, queue' = Append(queue, e), UNCHANGED delivered
      PROVE  Stream!Next
  <2>1. delivered' \o queue' = Append(sent, e)
    <3>1. Append(queue, e) = queue \o <<e>>  BY <1>q, AppendIsConcat
    <3>2. sent \in Seq(Events)  BY <1>q, ConcatProperties
    <3>3. Append(sent, e) = sent \o <<e>>  BY <3>2, AppendIsConcat
    <3>4. <<e>> \in Seq(Events)  OBVIOUS
    <3> QED  BY <1>q, <1>1, <3>1, <3>3, <3>4, ConcatAssociative
  <2> QED  BY <1>1, <2>1 DEF Stream!Next, Stream!Send, Stream!Events, Events
<1>2. ASSUME Pop PROVE Stream!Next
  <2>1. Head(queue) \in Events /\ Tail(queue) \in Seq(Events) /\ queue = <<Head(queue)>> \o Tail(queue)
    BY <1>2, <1>q, HeadTailProperties DEF Pop
  <2>2. <<Head(queue)>> \in Seq(Events)  BY <2>1
  <2>3. delivered' = delivered \o <<Head(queue)>>
    BY <1>2, <1>q, <2>1, AppendIsConcat DEF Pop
  <2>4. delivered' \o queue' = sent
    BY <1>2, <1>q, <2>1, <2>2, <2>3, ConcatAssociative DEF Pop
  <2>5. Len(delivered) < Len(sent) /\ sent[Len(delivered) + 1] = Head(queue)
    BY <1>2, <1>q DEF Pop
  <2>6. ~ Stream!Ended
    BY <1>2 DEF Pop, TerminalInv, Stream!Ended, is_terminal
  <2> QED  BY <1>2, <2>4, <2>5, <2>6 DEF Stream!Next, Stream!Receive, Pop
<1>3. ASSUME UNCHANGED <<queue, delivered>> PROVE UNCHANGED Stream!vars
  BY <1>3 DEF Stream!vars
<1>4. ASSUME NEW p \in Producers, NEW e \in Payload, TrySend(p, e) PROVE Stream!Next
  BY <1>1, <1>4 DEF TrySend, Events
<1>5. ASSUME NEW p \in Producers, NEW e \in Terminal, SendTerminal(p, e) PROVE Stream!Next
  BY <1>1, <1>5 DEF SendTerminal, Events
<1>6. ASSUME NEW p \in Producers, BlockingSendPush(p) PROVE Stream!Next
  BY <1>1, <1>6 DEF BlockingSendPush, TypeOK
<1> QED
  BY <1>2, <1>3, <1>4, <1>5, <1>6
  DEF Next, ProducerInside, ProducerCalls, ConsumerInside, ConsumerCalls, TryRecv, RecvPop,
      BlockingSendCall, BlockingSendClosed, BlockingSendPark, DropSender, DropSenderNotify, Wait,
      RecvCall, RecvNone, RecvPark, Close, CloseNotify, DropStream, DropStreamNotify, vars, flags

(* The channel implements the event stream: FIFO, exactly once, nothing    *)
(* after the terminal event, whatever the threads do.                      *)
THEOREM ChannelImplementsEventStream == Spec => ImplementsEventStream
<1>1. Init => Stream!Init
  BY DEF Init, Stream!Init
<1>2. Init => TerminalInv
  BY DEF Init, TerminalInv, NothingAfterTerminal
<1> QED
  BY <1>1, <1>2, TypeCorrect, TerminalStep, StreamStep, PTL
  DEF Spec, ImplementsEventStream, Stream!Spec
=============================================================================
