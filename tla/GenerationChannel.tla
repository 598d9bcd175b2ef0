-------------------------- MODULE GenerationChannel --------------------------
(***************************************************************************)
(* The bounded event queue between a generation and its consumer           *)
(* (compute-core/src/streaming.rs): one VecDeque behind a mutex, ONE       *)
(* condition variable for both directions, and three atomic flags that are *)
(* written without the mutex.                                              *)
(*                                                                         *)
(* The threads in Producers share one GenerationSender (its methods take   *)
(* &self); Consumer owns the GenerationStream (its methods take &mut self, *)
(* so it runs one of them at a time).  A step is a critical section of the *)
(* queue mutex, cut at the one place where a flag written outside the      *)
(* mutex matters: between the test of the flags and Condvar::wait.  In     *)
(* between a thread is "parking": it holds the mutex and is not yet in the *)
(* wait set.  parking_lot has no spurious wake-ups.                        *)
(***************************************************************************)
EXTENDS Sequences, Naturals, FiniteSets

CONSTANTS Producers,    \* threads that call the sender
          Blockers,     \* those of them that use blocking_send
          Consumer,     \* the thread that owns the stream
          Payload,      \* non-terminal events
          Terminal,     \* terminal events
          Capacity,     \* SharedQueue.capacity
          MaxEvents     \* bound: events accepted in one behaviour

ASSUME ProducersAssumption == Blockers \subseteq Producers /\ Consumer \notin Producers
ASSUME CapacityAssumption == Capacity \in Nat \ {0}
ASSUME MaxEventsAssumption == MaxEvents \in Nat
ASSUME EventsAssumption == Payload \cap Terminal = {} /\ Terminal # {}

VARIABLES queue,          \* SharedQueue.queue
          closed,         \* SharedQueue.closed
          senderAlive,    \* SharedQueue.sender_alive
          terminalSeen,   \* SharedQueue.terminal_seen
          disconnected,   \* the disconnect oneshot has resolved
          pc,             \* where each thread is
          arg,            \* the event a blocking_send in progress carries
          delivered,      \* history: events recv and try_recv returned
          bypassed        \* history: how many events send_terminal pushed

flags == <<closed, senderAlive, terminalSeen, disconnected>>
vars == <<queue, flags, pc, arg, delivered, bypassed>>

Threads == Producers \cup {Consumer}
Events == Payload \cup Terminal

(* "locking": inside blocking_send or recv, waiting for the mutex at the   *)
(* head of its loop.  "notifying": a close or a drop has stored its flag   *)
(* and has not signalled yet.  "gone": the handle was dropped.             *)
PC == {"idle", "locking", "parking", "waiting", "closing", "notifying", "gone"}

is_terminal(e) == e \in Terminal

Init ==
    /\ queue = <<>>
    /\ closed = FALSE
    /\ senderAlive = TRUE
    /\ terminalSeen = FALSE
    /\ disconnected = FALSE
    /\ pc = [t \in Threads |-> "idle"]
    /\ arg = [p \in Producers |-> CHOOSE e \in Events : TRUE]
    /\ delivered = <<>>
    /\ bypassed = 0

-----------------------------------------------------------------------------
(* The mutex and the condition variable.                                   *)

Unlocked == \A t \in Threads : pc[t] # "parking"

Waiters == {t \in Threads : pc[t] = "waiting"}

\* The possible values of pc after notify_one, from the value p.
NotifyOne(p) ==
    LET W == {t \in Threads : p[t] = "waiting"}
    IN  IF W = {} THEN {p} ELSE {[p EXCEPT ![t] = "locking"] : t \in W}

NotifyAll(p) == [t \in Threads |-> IF p[t] = "waiting" THEN "locking" ELSE p[t]]

\* Events accepted or on their way in; MaxEvents bounds it.
Accepted == Len(delivered) + Len(queue)
              + Cardinality({p \in Producers : pc[p] \in {"locking", "parking", "waiting"}})

-----------------------------------------------------------------------------
(* GenerationSender.  A refused try_send changes nothing and is no step.   *)

\* Mutant: the capacity test is off by one.
TrySend_OneTooMany(p, e) ==
    /\ pc[p] = "idle" /\ Unlocked
    /\ Accepted < MaxEvents
    /\ ~ closed
    /\ Len(queue) <= Capacity
    /\ queue' = Append(queue, e)
    /\ pc' \in NotifyOne(pc)
    /\ UNCHANGED <<flags, arg, delivered, bypassed>>

\* Mutant: the consumer is not notified.
TrySend_NoNotify(p, e) ==
    /\ pc[p] = "idle" /\ Unlocked
    /\ Accepted < MaxEvents
    /\ ~ closed
    /\ Len(queue) < Capacity
    /\ queue' = Append(queue, e)
    /\ UNCHANGED <<flags, pc, arg, delivered, bypassed>>

\* try_send and try_send_or_cancel: they differ in the error text only.
TrySend(p, e) ==
    /\ pc[p] = "idle" /\ Unlocked
    /\ Accepted < MaxEvents
    /\ ~ closed
    /\ Len(queue) < Capacity
    /\ queue' = Append(queue, e)
    /\ pc' \in NotifyOne(pc)
    /\ UNCHANGED <<flags, arg, delivered, bypassed>>

\* send_terminal looks at neither the flags nor the capacity.
SendTerminal(p, e) ==
    /\ pc[p] = "idle" /\ Unlocked
    /\ Accepted < MaxEvents
    /\ queue' = Append(queue, e)
    /\ bypassed' = bypassed + 1
    /\ pc' \in NotifyOne(pc)
    /\ UNCHANGED <<flags, arg, delivered>>

BlockingSendCall(p, e) ==
    /\ p \in Blockers
    /\ pc[p] = "idle"
    /\ Accepted < MaxEvents
    /\ pc' = [pc EXCEPT ![p] = "locking"]
    /\ arg' = [arg EXCEPT ![p] = e]
    /\ UNCHANGED <<queue, flags, delivered, bypassed>>

\* There is room: the event is queued, and closed is not looked at.
BlockingSendPush(p) ==
    /\ pc[p] = "locking" /\ Unlocked
    /\ Len(queue) < Capacity
    /\ queue' = Append(queue, arg[p])
    /\ pc' \in NotifyOne([pc EXCEPT ![p] = "idle"])
    /\ UNCHANGED <<flags, arg, delivered, bypassed>>

BlockingSendClosed(p) ==
    /\ pc[p] = "locking" /\ Unlocked
    /\ Len(queue) >= Capacity
    /\ closed
    /\ pc' = [pc EXCEPT ![p] = "idle"]
    /\ UNCHANGED <<queue, flags, arg, delivered, bypassed>>

BlockingSendPark(p) ==
    /\ pc[p] = "locking" /\ Unlocked
    /\ Len(queue) >= Capacity
    /\ ~ closed
    /\ pc' = [pc EXCEPT ![p] = "parking"]
    /\ UNCHANGED <<queue, flags, arg, delivered, bypassed>>

\* Drop needs the last reference, so no thread is inside a method.
DropSender(p) ==
    /\ \A q \in Producers : pc[q] = "idle"
    /\ senderAlive' = FALSE
    /\ pc' = [t \in Threads |-> IF t = p THEN "notifying"
                                ELSE IF t \in Producers THEN "gone" ELSE pc[t]]
    /\ UNCHANGED <<queue, closed, terminalSeen, disconnected, arg, delivered, bypassed>>

DropSenderNotify(p) ==
    /\ pc[p] = "notifying"
    /\ pc' = NotifyAll([pc EXCEPT ![p] = "gone"])
    /\ UNCHANGED <<queue, flags, arg, delivered, bypassed>>

-----------------------------------------------------------------------------
(* Condvar::wait: joins the wait set and releases the mutex in one step.   *)

Wait(t) ==
    /\ pc[t] = "parking"
    /\ pc' = [pc EXCEPT ![t] = "waiting"]
    /\ UNCHANGED <<queue, flags, arg, delivered, bypassed>>

-----------------------------------------------------------------------------
(* GenerationStream.                                                       *)

\* Mutant: terminal_seen is never set.
Pop_NoTerminalSeen ==
    /\ queue # <<>>
    /\ delivered' = Append(delivered, Head(queue))
    /\ queue' = Tail(queue)
    /\ pc' \in NotifyOne([pc EXCEPT ![Consumer] = "idle"])
    /\ UNCHANGED <<flags, arg, bypassed>>

\* Mutant: the producers are not notified of the room.
Pop_NoNotify ==
    /\ ~ terminalSeen
    /\ queue # <<>>
    /\ delivered' = Append(delivered, Head(queue))
    /\ queue' = Tail(queue)
    /\ terminalSeen' = (terminalSeen \/ is_terminal(Head(queue)))
    /\ pc' = [pc EXCEPT ![Consumer] = "idle"]
    /\ UNCHANGED <<closed, senderAlive, disconnected, arg, bypassed>>

\* Mutant: the event at the other end of the deque is taken.
Pop_Back ==
    /\ ~ terminalSeen
    /\ queue # <<>>
    /\ delivered' = Append(delivered, queue[Len(queue)])
    /\ queue' = SubSeq(queue, 1, Len(queue) - 1)
    /\ terminalSeen' = (terminalSeen \/ is_terminal(queue[Len(queue)]))
    /\ pc' \in NotifyOne([pc EXCEPT ![Consumer] = "idle"])
    /\ UNCHANGED <<closed, senderAlive, disconnected, arg, bypassed>>

\* pop_front, note a terminal event, wake a producer: shared by both recvs.
Pop ==
    /\ ~ terminalSeen
    /\ queue # <<>>
    /\ delivered' = Append(delivered, Head(queue))
    /\ queue' = Tail(queue)
    /\ terminalSeen' = (terminalSeen \/ is_terminal(Head(queue)))
    /\ pc' \in NotifyOne([pc EXCEPT ![Consumer] = "idle"])
    /\ UNCHANGED <<closed, senderAlive, disconnected, arg, bypassed>>

TryRecv == pc[Consumer] = "idle" /\ Unlocked /\ Pop

RecvCall ==
    /\ pc[Consumer] = "idle"
    /\ pc' = [pc EXCEPT ![Consumer] = "locking"]
    /\ UNCHANGED <<queue, flags, arg, delivered, bypassed>>

RecvPop == pc[Consumer] = "locking" /\ Unlocked /\ Pop

\* recv returns None.
RecvNone ==
    /\ pc[Consumer] = "locking" /\ Unlocked
    /\ terminalSeen \/ (queue = <<>> /\ (closed \/ ~ senderAlive))
    /\ pc' = [pc EXCEPT ![Consumer] = "idle"]
    /\ UNCHANGED <<queue, flags, arg, delivered, bypassed>>

RecvPark ==
    /\ pc[Consumer] = "locking" /\ Unlocked
    /\ ~ terminalSeen /\ queue = <<>> /\ ~ closed /\ senderAlive
    /\ pc' = [pc EXCEPT ![Consumer] = "parking"]
    /\ UNCHANGED <<queue, flags, arg, delivered, bypassed>>

Close ==
    /\ pc[Consumer] = "idle"
    /\ closed' = TRUE
    /\ pc' = [pc EXCEPT ![Consumer] = "closing"]
    /\ UNCHANGED <<queue, senderAlive, terminalSeen, disconnected, arg, delivered, bypassed>>

CloseNotify ==
    /\ pc[Consumer] = "closing"
    /\ disconnected' = TRUE
    /\ pc' = NotifyAll([pc EXCEPT ![Consumer] = "idle"])
    /\ UNCHANGED <<queue, closed, senderAlive, terminalSeen, arg, delivered, bypassed>>

DropStream ==
    /\ pc[Consumer] = "idle"
    /\ closed' = TRUE
    /\ pc' = [pc EXCEPT ![Consumer] = "notifying"]
    /\ UNCHANGED <<queue, senderAlive, terminalSeen, disconnected, arg, delivered, bypassed>>

\* The oneshot's sender is a field: it goes with the stream, which resolves it.
DropStreamNotify ==
    /\ pc[Consumer] = "notifying"
    /\ disconnected' = TRUE
    /\ pc' = NotifyAll([pc EXCEPT ![Consumer] = "gone"])
    /\ UNCHANGED <<queue, closed, senderAlive, terminalSeen, arg, delivered, bypassed>>

-----------------------------------------------------------------------------
ProducerInside(p) ==
    \/ BlockingSendPush(p) \/ BlockingSendClosed(p) \/ BlockingSendPark(p)
    \/ DropSenderNotify(p) \/ Wait(p)

ProducerCalls(p) ==
    \/ \E e \in Payload : TrySend(p, e)
    \/ \E e \in Terminal : SendTerminal(p, e)
    \/ \E e \in Payload : BlockingSendCall(p, e)
    \/ DropSender(p)

ConsumerInside ==
    RecvPop \/ RecvNone \/ RecvPark \/ CloseNotify \/ DropStreamNotify \/ Wait(Consumer)

ConsumerCalls == TryRecv \/ RecvCall \/ Close \/ DropStream

Next ==
    \/ \E p \in Producers : ProducerInside(p) \/ ProducerCalls(p)
    \/ ConsumerInside \/ ConsumerCalls

Spec == Init /\ [][Next]_vars

(* A thread inside a method keeps running until it returns or waits; the   *)
(* calls themselves are the program's choice and are not fair.             *)
FairSpec ==
    /\ Spec
    /\ \A p \in Producers : SF_vars(ProducerInside(p))
    /\ SF_vars(ConsumerInside)

-----------------------------------------------------------------------------
(* Properties.                                                             *)

TypeOK ==
    /\ queue \in Seq(Events)
    /\ closed \in BOOLEAN /\ senderAlive \in BOOLEAN
    /\ terminalSeen \in BOOLEAN /\ disconnected \in BOOLEAN
    /\ pc \in [Threads -> PC]
    /\ arg \in [Producers -> Events]
    /\ delivered \in Seq(Events)
    /\ bypassed \in Nat

(* Backpressure: whatever try_send and blocking_send do concurrently, only *)
(* the events that send_terminal pushed stand above the capacity.          *)
CapacityBound == Len(queue) <= Capacity + bypassed

(* recv and try_recv return nothing after the first terminal event, even   *)
(* when a thread queued a token behind it (terminal_seen).                 *)
NothingAfterTerminal ==
    \A i \in 1 .. Len(delivered) : is_terminal(delivered[i]) => i = Len(delivered)

(* Both directions share one condition variable and are signalled with     *)
(* notify_one.  Nobody who waits has anything to do: a consumer in the     *)
(* wait set has an empty queue, a producer in it a full one.               *)
WaitersHaveReason ==
    /\ pc[Consumer] = "waiting" => queue = <<>>
    /\ \A p \in Blockers : pc[p] = "waiting" => Len(queue) >= Capacity

\* At most one thread uses blocking_send on a channel.
OneBlocker == \A p, q \in Blockers : p = q

(* The channel delivers what was sent: in order, once, up to the terminal. *)
Stream == INSTANCE EventStream WITH sent <- delivered \o queue, received <- delivered
ImplementsEventStream == Stream!Spec

Inside == {"locking", "parking", "waiting"}

(* "There is no wake-up race" (recv): a recv that is in progress while an  *)
(* event is queued returns.                                                *)
RecvReturns == (pc[Consumer] \in Inside /\ queue # <<>>) ~> pc[Consumer] = "idle"
=============================================================================
