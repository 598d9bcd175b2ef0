----------------------------- MODULE RateLimiter -----------------------------
(* The per-client rate limiter of the HTTP server (server/rate_limiter.rs). *)
(* check runs in one task per request; the steps of a task are the atomic   *)
(* operations of the code, so any other task may run between two of them.   *)
(* The clock is SystemTime in seconds, which may also be set back.          *)
EXTENDS Integers, FiniteSets

CONSTANTS Callers,           \* tasks that call check
          Ips,
          NoBucket,
          Capacity,          \* default_capacity
          RateNum, RateDen,  \* default_refill_rate, tokens per second
          StaleSecs,         \* STALE_SECS
          MaxTime,           \* bound on the clock
          MaxBuckets         \* bound on the buckets ever made

ASSUME LimiterAssumption ==
    /\ Capacity \in Nat \ {0}
    /\ RateNum \in Nat /\ RateDen \in Nat \ {0}
    /\ StaleSecs \in Nat /\ MaxTime \in Nat /\ MaxBuckets \in Nat
    /\ NoBucket \notin Nat
    /\ IsFiniteSet(Callers)

VARIABLES clock,
          buckets,   \* the map under the RwLock
          made,      \* number of TokenBuckets made so far (an Arc outlives its entry)
          tokens, last_refill,
          pc,        \* the next step of each caller
          ip,        \* the argument of its check
          bucket,    \* the Arc it holds
          now, last, current,  \* locals of refill and try_consume
          \* history of each bucket: its birth, what passed, refills, lost exchanges
          born, admitted, stored, lost,
          makers     \* history: who made a bucket since the entry was last removed

history == <<born, admitted, stored, lost, makers>>
locals == <<ip, bucket, now, last, current>>
vars == <<clock, buckets, made, tokens, last_refill, pc, locals, history>>

Made == 1 .. made
Buckets == 1 .. MaxBuckets

Gained(elapsed) == (elapsed * RateNum) \div RateDen

Init ==
    /\ clock = 0
    /\ buckets = [i \in Ips |-> NoBucket]
    /\ made = 0
    /\ tokens = [b \in Buckets |-> 0]
    /\ last_refill = [b \in Buckets |-> 0]
    /\ born = [b \in Buckets |-> 0]
    /\ admitted = [b \in Buckets |-> 0]
    /\ stored = [b \in Buckets |-> 0]
    /\ lost = [b \in Buckets |-> 0]
    /\ pc = [c \in Callers |-> "idle"]
    /\ ip \in [Callers -> Ips]
    /\ bucket = [c \in Callers |-> NoBucket]
    /\ now = [c \in Callers |-> 0]
    /\ last = [c \in Callers |-> 0]
    /\ current = [c \in Callers |-> 0]
    /\ makers = [i \in Ips |-> {}]

Goto(c, step) == pc' = [pc EXCEPT ![c] = step]

\* refill returns, or try_consume does: the locals go out of scope.
EndRefill(c) ==
    /\ Goto(c, "consume")
    /\ now' = [now EXCEPT ![c] = 0]
    /\ last' = [last EXCEPT ![c] = 0]
    /\ current' = [current EXCEPT ![c] = 0]
Return(c) ==
    /\ Goto(c, "idle")
    /\ current' = [current EXCEPT ![c] = 0]
    /\ bucket' = [bucket EXCEPT ![c] = NoBucket]

\* SystemTime::now may go on or be set back.  In the code the clock has no last
\* value: MaxTime bounds it for TLC, and no property rests on refills ending.
ClockChanges(t) ==
    /\ t # clock
    /\ clock' = t
    /\ UNCHANGED <<buckets, made, tokens, last_refill, pc, locals, history>>

-----------------------------------------------------------------------------
(* RateLimiter::check                                                       *)

\* The read lock: the bucket of the client, if it has one.
Lookup(c, i) ==
    /\ pc[c] = "idle"
    /\ ip' = [ip EXCEPT ![c] = i]
    /\ bucket' = [bucket EXCEPT ![c] = buckets[i]]
    /\ Goto(c, IF buckets[i] = NoBucket THEN "make" ELSE "time")
    /\ UNCHANGED <<clock, buckets, made, tokens, last_refill, now, last, current, history>>

\* Arc::new(TokenBucket::new(..)), before the write lock is awaited.
Make(c) ==
    /\ pc[c] = "make"
    /\ made < MaxBuckets
    /\ made' = made + 1
    /\ tokens' = [tokens EXCEPT ![made'] = Capacity]
    /\ last_refill' = [last_refill EXCEPT ![made'] = clock]
    /\ born' = [born EXCEPT ![made'] = clock]
    /\ bucket' = [bucket EXCEPT ![c] = made']
    /\ makers' = [makers EXCEPT ![ip[c]] = @ \cup {c}]
    /\ Goto(c, "insert")
    /\ UNCHANGED <<clock, buckets, ip, now, last, current, admitted, stored, lost>>

\* Mutant: the new bucket is used and never stored.
Insert_Forgets(c) ==
    /\ pc[c] = "insert"
    /\ Goto(c, "time")
    /\ UNCHANGED <<clock, buckets, made, tokens, last_refill, locals, history>>
\* The write lock: whatever entry there is by now is replaced.
Insert(c) ==
    /\ pc[c] = "insert"
    /\ buckets' = [buckets EXCEPT ![ip[c]] = bucket[c]]
    /\ Goto(c, "time")
    /\ UNCHANGED <<clock, made, tokens, last_refill, locals, history>>

-----------------------------------------------------------------------------
(* TokenBucket::refill                                                      *)

ReadClock(c) ==
    /\ pc[c] = "time"
    /\ now' = [now EXCEPT ![c] = clock]
    /\ Goto(c, "last")
    /\ UNCHANGED <<clock, buckets, made, tokens, last_refill, ip, bucket, last, current, history>>

LoadLast(c) ==
    /\ pc[c] = "last"
    /\ \/ /\ now[c] <= last_refill[bucket[c]]
          /\ EndRefill(c)
       \/ /\ now[c] > last_refill[bucket[c]]
          /\ last' = [last EXCEPT ![c] = last_refill[bucket[c]]]
          /\ Goto(c, "claim")
          /\ UNCHANGED <<now, current>>
    /\ UNCHANGED <<clock, buckets, made, tokens, last_refill, ip, bucket, history>>

\* Mutant: a plain store instead of the compare_exchange.
Claimed_Always(c) == TRUE
Claimed(c) == last_refill[bucket[c]] = last[c]

\* The compare_exchange of last_refill.
Claim(c) ==
    /\ pc[c] = "claim"
    /\ IF Claimed(c) THEN last_refill' = [last_refill EXCEPT ![bucket[c]] = now[c]]
       ELSE UNCHANGED last_refill
    /\ \/ /\ Claimed(c) /\ Gained(now[c] - last[c]) > 0
          /\ Goto(c, "load")
          /\ UNCHANGED <<now, last, current>>
       \/ /\ ~(Claimed(c) /\ Gained(now[c] - last[c]) > 0)
          /\ EndRefill(c)
    /\ UNCHANGED <<clock, buckets, made, tokens, ip, bucket, history>>

LoadTokens(c) ==
    /\ pc[c] = "load"
    /\ current' = [current EXCEPT ![c] = tokens[bucket[c]]]
    /\ Goto(c, "store")
    /\ UNCHANGED <<clock, buckets, made, tokens, last_refill, ip, bucket, now, last, history>>

Least(a, b) == IF a <= b THEN a ELSE b

Refilled(c) == Least(Capacity, current[c] + Gained(now[c] - last[c]))

\* A plain store: what was consumed since LoadTokens is given back.
StoreTokens(c) ==
    /\ pc[c] = "store"
    /\ tokens' = [tokens EXCEPT ![bucket[c]] = Refilled(c)]
    /\ stored' = [stored EXCEPT ![bucket[c]] = @ + 1]
    /\ EndRefill(c)
    /\ UNCHANGED <<clock, buckets, made, last_refill, ip, bucket, born, admitted, lost, makers>>

-----------------------------------------------------------------------------
(* TokenBucket::try_consume(1), after the refill                            *)

LoadConsume(c) ==
    /\ pc[c] = "consume"
    /\ \/ /\ tokens[bucket[c]] < 1
          /\ Return(c)
       \/ /\ tokens[bucket[c]] >= 1
          /\ current' = [current EXCEPT ![c] = tokens[bucket[c]]]
          /\ Goto(c, "take")
          /\ UNCHANGED bucket
    /\ UNCHANGED <<clock, buckets, made, tokens, last_refill, ip, now, last, history>>

Taken(c) == tokens[bucket[c]] = current[c]

\* Mutant: an exchange that failed is tried again without a new load.
TakeAgain_SameValue(c) == Goto(c, "take") /\ UNCHANGED <<current, bucket>>
TakeAgain(c) ==
    /\ Goto(c, "consume")
    /\ current' = [current EXCEPT ![c] = 0]
    /\ UNCHANGED bucket

Take(c) ==
    /\ pc[c] = "take"
    /\ \/ /\ Taken(c)
          /\ tokens' = [tokens EXCEPT ![bucket[c]] = current[c] - 1]
          /\ admitted' = [admitted EXCEPT ![bucket[c]] = @ + 1]
          /\ Return(c)
          /\ UNCHANGED lost
       \/ /\ ~Taken(c)
          /\ TakeAgain(c)
          /\ lost' = [lost EXCEPT ![bucket[c]] = @ + 1]
          /\ UNCHANGED <<tokens, admitted>>
    /\ UNCHANGED <<clock, buckets, made, last_refill, ip, now, last, born, stored, makers>>

-----------------------------------------------------------------------------

\* cleanup_stale reads the clock before it has the write lock: at is that
\* reading, and with a clock that may be set it can have any value.
cleanup_stale(at) ==
    LET stale == {i \in Ips : /\ buckets[i] # NoBucket
                              /\ last_refill[buckets[i]] + StaleSecs < at}
    IN  /\ stale # {}
        /\ buckets' = [i \in Ips |-> IF i \in stale THEN NoBucket ELSE buckets[i]]
        /\ makers' = [i \in Ips |-> IF i \in stale THEN {} ELSE makers[i]]
        /\ UNCHANGED <<clock, made, tokens, last_refill, pc, locals, born, admitted, stored,
                       lost>>

CallerStep(c) ==
    \/ Make(c) \/ Insert(c)
    \/ ReadClock(c) \/ LoadLast(c) \/ Claim(c) \/ LoadTokens(c) \/ StoreTokens(c)
    \/ LoadConsume(c) \/ Take(c)

Next ==
    \/ \E c \in Callers : CallerStep(c) \/ \E i \in Ips : Lookup(c, i)
    \/ \E t \in 0 .. MaxTime : ClockChanges(t) \/ cleanup_stale(t)

Spec == Init /\ [][Next]_vars

-----------------------------------------------------------------------------
(* Properties.                                                              *)

\* The state keeps its types: no bucket holds more than its capacity, and every
\* Arc names a bucket that was made.
TypeOK ==
    /\ clock \in 0 .. MaxTime
    /\ buckets \in [Ips -> Made \cup {NoBucket}]
    /\ made \in 0 .. MaxBuckets
    /\ tokens \in [Buckets -> 0 .. Capacity] /\ last_refill \in [Buckets -> 0 .. MaxTime]
    /\ born \in [Buckets -> 0 .. MaxTime]
    /\ admitted \in [Buckets -> Nat] /\ stored \in [Buckets -> Nat] /\ lost \in [Buckets -> Nat]
    /\ pc \in [Callers -> {"idle", "make", "insert", "time", "last", "claim", "load", "store",
                           "consume", "take"}]
    /\ ip \in [Callers -> Ips]
    /\ bucket \in [Callers -> Made \cup {NoBucket}]
    /\ now \in [Callers -> 0 .. MaxTime] /\ last \in [Callers -> 0 .. MaxTime]
    /\ current \in [Callers -> 0 .. Capacity]
    /\ makers \in [Ips -> SUBSET Callers]

\* What the races of refill cannot exceed: a bucket never admits more than its
\* capacity for each second in which it was refilled, and one capacity to
\* begin with.  (The intended capacity + rate * seconds does not hold: the
\* store of refill gives back what was consumed since its load.)
AdmissionBound ==
    \A b \in Made :
        /\ tokens[b] + admitted[b] <= Capacity * (1 + stored[b])
        /\ stored[b] <= last_refill[b] - born[b]

\* Concurrent first visits make several buckets, but no caller makes a second
\* one for a client unless cleanup_stale removed the entry: between two
\* cleanups a client has at most as many buckets as there are tasks.
OneBucketEach ==
    \A c \in Callers : pc[c] = "make" => c \notin makers[ip[c]]

\* The loop of try_consume is lock-free: a compare_exchange fails only because
\* some other task changed the tokens after the load, so the failures on one
\* bucket are paid for by the requests it admitted and the refills stored, each
\* of which every other task loses to at most once.  (It is not wait-free: with
\* a clock that goes on, one task may lose to the others for ever.)
ExchangesPaid ==
    \A b \in Made : lost[b] <= (Cardinality(Callers) - 1) * (admitted[b] + stored[b])
=============================================================================
