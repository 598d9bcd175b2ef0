------------------------- MODULE RateLimiter_proofs -------------------------
(* The invariants of RateLimiter, proved for every number of tasks, every   *)
(* capacity and every refill rate.                                          *)
EXTENDS RateLimiter, TLAPS, FiniteSetTheorems

\* Tasks that hold a claimed second of bucket b and have not stored yet.
Pending(b) == {c \in Callers : bucket[c] = b /\ pc[c] \in {"load", "store"}}

\* A call in progress holds a bucket, a claimed interval is not empty, and a
\* task about to take has seen a token.
Calls ==
    \A c \in Callers :
        /\ pc[c] \notin {"idle", "make"} => bucket[c] \in Made
        /\ pc[c] \in {"claim", "load", "store"} => last[c] < now[c]
        /\ pc[c] = "take" => current[c] >= 1

\* Every store has a second of its own: the compare_exchange of last_refill
\* moves it forward, and only its winner stores.
Claims ==
    \A b \in Made :
        /\ stored[b] + Cardinality(Pending(b)) <= last_refill[b] - born[b]
        /\ tokens[b] + admitted[b] <= Capacity * (1 + stored[b])

\* Tasks whose next exchange on bucket b will fail.
Outrun(b) == {c \in Callers : bucket[c] = b /\ pc[c] = "take" /\ current[c] # tokens[b]}

\* Exchanges that failed, and those that are bound to, were overtaken by a
\* change of the tokens.
Paid ==
    \A b \in Made :
        lost[b] + Cardinality(Outrun(b)) <= (Cardinality(Callers) - 1) * (admitted[b] + stored[b])

\* Nothing has happened to a bucket that is not made yet.
Unmade == \A b \in Buckets : b > made => admitted[b] = 0 /\ stored[b] = 0 /\ lost[b] = 0

\* While a client has no entry, whoever made a bucket for it is about to
\* insert it.
Makers ==
    \A i \in Ips : buckets[i] = NoBucket =>
        \A c \in makers[i] : pc[c] = "insert" /\ ip[c] = i

IInv == TypeOK /\ Calls /\ Claims /\ Unmade /\ Paid /\ Makers /\ OneBucketEach

USE LimiterAssumption
-----------------------------------------------------------------------------

\* What refill adds is a natural number.
LEMMA GainedNat == \A e \in Nat : Gained(e) \in Nat
<1> SUFFICES ASSUME NEW e \in Nat PROVE Gained(e) \in Nat
  OBVIOUS
<1>1. e * RateNum \in Nat
  OBVIOUS
<1>2. ASSUME NEW a \in Nat, NEW d \in Nat \ {0} PROVE a \div d \in Nat
  OBVIOUS
<1> QED  BY <1>1, <1>2 DEF Gained

\* The value refill stores is within the capacity.
LEMMA RefilledType ==
    ASSUME TypeOK, Calls, NEW c \in Callers, pc[c] \in {"load", "store"}
    PROVE  Refilled(c) \in 0 .. Capacity
<1>1. now[c] - last[c] \in Nat
  BY DEF TypeOK, Calls
<1>2. Gained(now[c] - last[c]) \in Nat
  BY <1>1, GainedNat
<1>3. current[c] \in 0 .. Capacity /\ Capacity \in Nat
  BY DEF TypeOK
<1> QED  BY <1>2, <1>3 DEF Refilled, Least

\* A made bucket is a bucket.
LEMMA MadeBuckets ==
    ASSUME TypeOK
    PROVE  /\ Made \subseteq Buckets /\ Made \subseteq Nat /\ NoBucket \notin Made
           /\ \A c \in Callers : bucket[c] \in Made \cup {NoBucket}
  BY DEF TypeOK, Made, Buckets

-----------------------------------------------------------------------------
(* Types and the state of the calls.                                        *)

\* No step leaves the types.
LEMMA TypeStep ==
    ASSUME IInv, [Next]_vars
    PROVE  TypeOK' /\ Calls'
<1> USE DEF IInv
<1> DEFINE I == TypeOK' /\ Calls'
<1>0. /\ Made \subseteq Buckets /\ NoBucket \notin Made
      /\ \A c \in Callers : pc[c] \notin {"idle", "make"} => bucket[c] \in Buckets
  BY MadeBuckets DEF Calls
<1>1. ASSUME NEW t \in 0 .. MaxTime, ClockChanges(t) PROVE I
  BY <1>1 DEF ClockChanges, TypeOK, Calls, Made, locals, history
<1>2. ASSUME NEW t \in 0 .. MaxTime, cleanup_stale(t) PROVE I
  <2>1. UNCHANGED <<clock, made, tokens, last_refill, pc, locals, born, admitted, stored, lost>>
    BY <1>2 DEF cleanup_stale
  <2>2. buckets' \in [Ips -> Made \cup {NoBucket}] /\ makers' \in [Ips -> SUBSET Callers]
    BY <1>2 DEF cleanup_stale, TypeOK
  <2> QED  BY <2>1, <2>2 DEF TypeOK, Calls, Made, locals
<1>3. ASSUME NEW c \in Callers, NEW i \in Ips, Lookup(c, i) PROVE I
  <2>1. TypeOK'
    BY <1>3 DEF Lookup, Goto, TypeOK, Made, history
  <2>2. Calls'
    BY <1>3 DEF Lookup, Goto, TypeOK, Calls, Made
  <2> QED  BY <2>1, <2>2
<1>4. ASSUME NEW c \in Callers, Make(c) PROVE I
  <2>1. made' = made + 1 /\ made' \in Buckets /\ made' \in 0 .. MaxBuckets
    BY <1>4 DEF Make, TypeOK, Buckets
  <2>2. Made \subseteq Made' /\ made' \in Made'
    BY <2>1 DEF Made, TypeOK
  <2>3. /\ tokens' \in [Buckets -> 0 .. Capacity] /\ last_refill' \in [Buckets -> 0 .. MaxTime]
        /\ born' \in [Buckets -> 0 .. MaxTime]
    BY <1>4, <2>1 DEF Make, TypeOK
  <2>4. bucket' \in [Callers -> Made' \cup {NoBucket}]
    BY <1>4, <2>2 DEF Make, TypeOK
  <2>5. buckets' \in [Ips -> Made' \cup {NoBucket}]
    BY <1>4, <2>2 DEF Make, TypeOK
  <2>6. makers' \in [Ips -> SUBSET Callers]
    BY <1>4 DEF Make, TypeOK
  <2>7. TypeOK'
    BY <1>4, <2>1, <2>3, <2>4, <2>5, <2>6 DEF Make, Goto, TypeOK
  <2>8. Calls'
    BY <1>4, <2>2 DEF Make, Goto, TypeOK, Calls
  <2> QED  BY <2>7, <2>8
<1>5. ASSUME NEW c \in Callers, Insert(c) PROVE I
  BY <1>5 DEF Insert, Goto, TypeOK, Calls, Made, locals, history
<1>6. ASSUME NEW c \in Callers, ReadClock(c) PROVE I
  BY <1>6 DEF ReadClock, Goto, TypeOK, Calls, Made, history
<1>7. ASSUME NEW c \in Callers, LoadLast(c) PROVE I
  <2>1. bucket[c] \in Buckets /\ last_refill[bucket[c]] \in 0 .. MaxTime
    BY <1>0, <1>7 DEF LoadLast, TypeOK
  <2>2. TypeOK'
    BY <1>7, <2>1 DEF LoadLast, EndRefill, Goto, TypeOK, Made, history
  <2>3. Calls'
    BY <1>7, <2>1 DEF LoadLast, EndRefill, Goto, TypeOK, Calls, Made
  <2> QED  BY <2>2, <2>3
<1>8. ASSUME NEW c \in Callers, Claim(c) PROVE I
  <2>1. bucket[c] \in Buckets /\ now[c] \in 0 .. MaxTime
    BY <1>0, <1>8 DEF Claim, TypeOK
  <2>2. last_refill' \in [Buckets -> 0 .. MaxTime]
    BY <1>8, <2>1 DEF Claim, TypeOK
  <2>3. TypeOK'
    BY <1>8, <2>2 DEF Claim, EndRefill, Goto, TypeOK, Made, history
  <2>4. Calls'
    BY <1>8 DEF Claim, EndRefill, Goto, TypeOK, Calls, Made
  <2> QED  BY <2>3, <2>4
<1>9. ASSUME NEW c \in Callers, LoadTokens(c) PROVE I
  <2>1. tokens[bucket[c]] \in 0 .. Capacity
    BY <1>0, <1>9 DEF LoadTokens, TypeOK
  <2> QED  BY <1>9, <2>1 DEF LoadTokens, Goto, TypeOK, Calls, Made, history
<1>10. ASSUME NEW c \in Callers, StoreTokens(c) PROVE I
  <2>1. bucket[c] \in Buckets /\ Refilled(c) \in 0 .. Capacity
    BY <1>0, <1>10, RefilledType DEF StoreTokens
  <2>2. tokens' \in [Buckets -> 0 .. Capacity] /\ stored' \in [Buckets -> Nat]
    BY <1>10, <2>1 DEF StoreTokens, TypeOK
  <2>3. TypeOK'
    BY <1>10, <2>2 DEF StoreTokens, EndRefill, Goto, TypeOK, Made
  <2>4. Calls'
    BY <1>10 DEF StoreTokens, EndRefill, Goto, TypeOK, Calls, Made
  <2> QED  BY <2>3, <2>4
<1>11. ASSUME NEW c \in Callers, LoadConsume(c) PROVE I
  <2>1. tokens[bucket[c]] \in 0 .. Capacity
    BY <1>0, <1>11 DEF LoadConsume, TypeOK
  <2>2. TypeOK'
    BY <1>11, <2>1 DEF LoadConsume, Return, Goto, TypeOK, Made, history
  <2>3. Calls'
    BY <1>11, <2>1 DEF LoadConsume, Return, Goto, TypeOK, Calls, Made
  <2> QED  BY <2>2, <2>3
<1>12. ASSUME NEW c \in Callers, Take(c) PROVE I
  <2>1. bucket[c] \in Buckets /\ current[c] - 1 \in 0 .. Capacity
    BY <1>0, <1>12 DEF Take, TypeOK, Calls
  <2>2. /\ tokens' \in [Buckets -> 0 .. Capacity] /\ admitted' \in [Buckets -> Nat]
        /\ lost' \in [Buckets -> Nat]
    BY <1>12, <2>1 DEF Take, TypeOK
  <2>3. TypeOK'
    <3>1. CASE Taken(c)
      <4>1. /\ pc' = [pc EXCEPT ![c] = "idle"] /\ current' = [current EXCEPT ![c] = 0]
            /\ bucket' = [bucket EXCEPT ![c] = NoBucket]
            /\ UNCHANGED <<clock, buckets, made, last_refill, ip, now, last, born, stored, makers>>
        BY <1>12, <3>1 DEF Take, Return, Goto
      <4>2. 0 \in 0 .. Capacity
        OBVIOUS
      <4> QED  BY <2>2, <4>1, <4>2 DEF TypeOK, Made
    <3>2. CASE ~Taken(c)
      BY <1>12, <2>2, <3>2 DEF Take, TakeAgain, Goto, TypeOK, Made
    <3> QED  BY <3>1, <3>2
  <2>4. Calls'
    BY <1>12 DEF Take, TakeAgain, Return, Goto, TypeOK, Calls, Made
  <2> QED  BY <2>3, <2>4
<1>13. CASE UNCHANGED vars
  BY <1>13 DEF vars, TypeOK, Calls, Made, locals, history
<1> QED
  BY <1>1, <1>2, <1>3, <1>4, <1>5, <1>6, <1>7, <1>8, <1>9, <1>10, <1>11, <1>12, <1>13
  DEF Next, CallerStep
-----------------------------------------------------------------------------
(* What a bucket admits.                                                    *)

\* Only finitely many tasks are inside a refill that has claimed its second.
LEMMA PendingFinite == \A b : IsFiniteSet(Pending(b)) /\ Cardinality(Pending(b)) \in Nat
<1> TAKE b
<1>1. IsFiniteSet(Pending(b))
  BY FS_Subset DEF Pending
<1> QED  BY <1>1, FS_CardinalityType

\* Nothing that the bound speaks of changes.
LEMMA ClaimsFrame ==
    ASSUME IInv, UNCHANGED <<made, tokens, last_refill, born, admitted, stored, lost>>,
           \A b \in Made : Pending(b)' = Pending(b)
    PROVE  Claims' /\ Unmade'
  BY DEF IInv, Claims, Unmade, Made, Buckets

\* Every store of refill was paid for by a claim, which moved last_refill on.
LEMMA ClaimsStep ==
    ASSUME IInv, [Next]_vars
    PROVE  Claims' /\ Unmade'
<1> USE DEF IInv
<1> DEFINE I == Claims' /\ Unmade'
<1>0. /\ Made \subseteq Buckets /\ NoBucket \notin Made /\ Made \subseteq Nat
      /\ \A c \in Callers : pc[c] \notin {"idle", "make"} => bucket[c] \in Made
  BY MadeBuckets DEF Calls
<1>1. ASSUME NEW t \in 0 .. MaxTime, ClockChanges(t) \/ cleanup_stale(t) PROVE I
  <2>1. UNCHANGED <<made, tokens, last_refill, pc, bucket, born, admitted, stored, lost>>
    BY <1>1 DEF ClockChanges, cleanup_stale, locals, history
  <2> QED  BY <2>1, ClaimsFrame DEF Pending
<1>2. ASSUME NEW c \in Callers, NEW i \in Ips, Lookup(c, i) PROVE I
  <2>1. UNCHANGED <<made, tokens, last_refill, born, admitted, stored, lost>>
    BY <1>2 DEF Lookup, history
  <2>2. \A b \in Made : Pending(b)' = Pending(b)
    BY <1>2 DEF Lookup, Goto, Pending, TypeOK
  <2> QED  BY <2>1, <2>2, ClaimsFrame
<1>3. ASSUME NEW c \in Callers,
             Insert(c) \/ ReadClock(c) \/ LoadLast(c) \/ LoadTokens(c) \/ LoadConsume(c)
      PROVE  I
  <2>1. UNCHANGED <<made, tokens, last_refill, born, admitted, stored, lost>>
    BY <1>3 DEF Insert, ReadClock, LoadLast, LoadTokens, LoadConsume, history
  <2>2. \A b \in Made : Pending(b)' = Pending(b)
    <3>1. CASE Insert(c) \/ ReadClock(c)
      BY <3>1 DEF Insert, ReadClock, Goto, Pending, TypeOK, locals
    <3>2. CASE LoadLast(c)
      BY <3>2 DEF LoadLast, EndRefill, Goto, Pending, TypeOK
    <3>3. CASE LoadTokens(c)
      BY <3>3 DEF LoadTokens, Goto, Pending, TypeOK
    <3>4. CASE LoadConsume(c)
      BY <1>0, <3>4 DEF LoadConsume, Return, Goto, Pending, TypeOK
    <3> QED  BY <1>3, <3>1, <3>2, <3>3, <3>4
  <2> QED  BY <2>1, <2>2, ClaimsFrame
<1>4. ASSUME NEW c \in Callers, Make(c) PROVE I
  <2>0. PICK m \in Int : m = made + 1
    BY DEF TypeOK
  <2>1. made' = m /\ m = made + 1 /\ m \in Buckets /\ made \in Nat
    BY <1>4, <2>0 DEF Make, TypeOK, Buckets
  <2>2. \A b \in Made : /\ b \in Buckets /\ b # m
                        /\ Pending(b)' = Pending(b)
    <3>1. \A b \in Made : b \in Buckets /\ b # m
      BY <1>0, <2>1 DEF Made
    <3> QED  BY <1>4, <3>1 DEF Make, Goto, Pending, TypeOK
  <2>3. Pending(m)' = {}
    <3>1. \A d \in Callers : pc'[d] \in {"load", "store"} => d # c /\ bucket'[d] \in Made
      BY <1>0, <1>4 DEF Make, Goto, TypeOK
    <3> QED  BY <2>2, <3>1 DEF Pending
  <2>4. Cardinality(Pending(m)') = 0
    BY <2>3, FS_EmptySet
  <2>5. /\ tokens' = [tokens EXCEPT ![m] = Capacity]
        /\ last_refill' = [last_refill EXCEPT ![m] = clock]
        /\ born' = [born EXCEPT ![m] = clock]
        /\ UNCHANGED <<admitted, stored, lost>>
    BY <1>4, <2>1 DEF Make
  <2>6. admitted[m] = 0 /\ stored[m] = 0
    BY <2>1 DEF Unmade
  <2>7. \A b \in Made' : b \in Made \/ b = m
    BY <2>1 DEF Made
  <2>8. clock \in Nat /\ Capacity \in Nat
    BY DEF TypeOK
  <2>9. \A b \in Made : /\ tokens'[b] = tokens[b] /\ last_refill'[b] = last_refill[b]
                        /\ born'[b] = born[b]
    BY <2>2, <2>5 DEF TypeOK
  <2>10. tokens'[m] = Capacity /\ last_refill'[m] = clock /\ born'[m] = clock
    BY <2>1, <2>5 DEF TypeOK
  <2>11. ASSUME NEW b \in Made'
         PROVE  /\ stored'[b] + Cardinality(Pending(b))' <= last_refill'[b] - born'[b]
                /\ tokens'[b] + admitted'[b] <= Capacity * (1 + stored'[b])
    <3>1. CASE b \in Made
      BY <2>2, <2>5, <2>9, <3>1 DEF Claims
    <3>2. CASE b = m
      <4>1. stored'[m] = 0 /\ admitted'[m] = 0 /\ Cardinality(Pending(m))' = 0
        BY <2>4, <2>5, <2>6
      <4>2. Capacity * (1 + 0) = Capacity
        OBVIOUS
      <4> QED  BY <2>8, <2>10, <3>2, <4>1, <4>2
    <3> QED  BY <2>7, <3>1, <3>2
  <2>12. Unmade'
    BY <2>1, <2>5 DEF Unmade, Buckets
  <2> QED  BY <2>11, <2>12 DEF Claims
<1>5. ASSUME NEW c \in Callers, Claim(c) PROVE I
  <2> DEFINE b == bucket[c]
  <2>1. /\ b \in Made /\ b \in Buckets /\ now[c] \in Nat /\ last[c] \in Nat /\ last[c] < now[c]
        /\ last_refill[b] \in Nat /\ born[b] \in Nat /\ stored[b] \in Nat
    <3>1. b \in Made /\ b \in Buckets /\ last[c] < now[c]
      BY <1>0, <1>5 DEF Claim, Calls
    <3> QED  BY <3>1 DEF TypeOK
  <2>2. UNCHANGED <<made, tokens, born, admitted, stored, lost, bucket>>
    BY <1>5 DEF Claim, history
  <2>3. \A d \in Made : d # b => Pending(d)' = Pending(d)
    BY <1>5 DEF Claim, EndRefill, Goto, Pending, TypeOK
  <2>4. CASE Claimed(c)
    <3>1. last_refill' = [last_refill EXCEPT ![b] = now[c]] /\ last_refill[b] = last[c]
      BY <1>5, <2>4 DEF Claim, Claimed
    <3>2. Pending(b)' \subseteq Pending(b) \cup {c}
      BY <1>5 DEF Claim, EndRefill, Goto, Pending, TypeOK
    <3>3. Cardinality(Pending(b))' <= Cardinality(Pending(b)) + 1
      <4>0. IsFiniteSet(Pending(b)) /\ Cardinality(Pending(b)) \in Nat
        BY PendingFinite
      <4>1. IsFiniteSet(Pending(b) \cup {c})
            /\ Cardinality(Pending(b) \cup {c}) <= Cardinality(Pending(b)) + 1
        <5>1. PICK S : S = Pending(b)
          OBVIOUS
        <5>2. IsFiniteSet(S) /\ Cardinality(S) \in Nat
          BY <4>0, <5>1
        <5>3. /\ IsFiniteSet(S \cup {c})
              /\ Cardinality(S \cup {c}) = Cardinality(S)
                 \/ Cardinality(S \cup {c}) = Cardinality(S) + 1
          BY <5>2, FS_AddElement
        <5>4. Cardinality(S \cup {c}) <= Cardinality(S) + 1
          BY <5>2, <5>3
        <5> QED  BY <5>1, <5>3, <5>4
      <4>2. Cardinality(Pending(b)') <= Cardinality(Pending(b) \cup {c})
        BY <3>2, <4>1, FS_Subset
      <4>3. Cardinality(Pending(b) \cup {c}) \in Nat /\ Cardinality(Pending(b)') \in Nat
        BY <3>2, <4>1, FS_Subset, FS_CardinalityType
      <4> QED  BY <4>1, <4>2, <4>3, PendingFinite
    <3>4. ASSUME NEW d \in Made
          PROVE  /\ stored'[d] + Cardinality(Pending(d))' <= last_refill'[d] - born'[d]
                 /\ tokens'[d] + admitted'[d] <= Capacity * (1 + stored'[d])
      <4>1. CASE d # b
        <5>1. last_refill'[d] = last_refill[d]
          BY <1>0, <2>1, <3>1, <4>1 DEF TypeOK
        <5> QED  BY <2>2, <2>3, <4>1, <5>1 DEF Claims
      <4>2. CASE d = b
        <5>1. last_refill'[b] = now[c]
          BY <2>1, <3>1 DEF TypeOK
        <5>2. stored[b] + Cardinality(Pending(b)) <= last_refill[b] - born[b]
              /\ tokens[b] + admitted[b] <= Capacity * (1 + stored[b])
          BY <2>1 DEF Claims
        <5>3. Cardinality(Pending(b)) \in Nat /\ Cardinality(Pending(b)') \in Nat
          BY <3>2, PendingFinite, FS_AddElement, FS_Subset, FS_CardinalityType
        <5>4. stored[b] + Cardinality(Pending(b)') <= now[c] - born[b]
          <6> HIDE DEF b
          <6> QED  BY <2>1, <3>1, <3>3, <5>2, <5>3
        <5> QED  BY <2>2, <4>2, <5>1, <5>2, <5>4
      <4> QED  BY <4>1, <4>2
    <3> QED  BY <2>2, <3>4 DEF Claims, Unmade, Made, Buckets
  <2>5. CASE ~Claimed(c)
    <3>1. UNCHANGED last_refill
      BY <1>5, <2>5 DEF Claim
    <3>2. \A d \in Made : Pending(d)' = Pending(d)
      BY <1>5, <2>5 DEF Claim, EndRefill, Goto, Pending, TypeOK
    <3> QED  BY <2>2, <3>1, <3>2, ClaimsFrame
  <2> QED  BY <2>4, <2>5
<1>6. ASSUME NEW c \in Callers, StoreTokens(c) PROVE I
  <2> DEFINE b == bucket[c]
  <2>1. b \in Made /\ b \in Buckets /\ Refilled(c) \in 0 .. Capacity
    BY <1>0, <1>6, RefilledType DEF StoreTokens
  <2>2. /\ UNCHANGED <<made, last_refill, born, admitted, lost, bucket>>
        /\ tokens' = [tokens EXCEPT ![b] = Refilled(c)]
        /\ stored' = [stored EXCEPT ![b] = @ + 1]
    BY <1>6 DEF StoreTokens
  <2>3. \A d \in Made : d # b => Pending(d)' = Pending(d)
    BY <1>6 DEF StoreTokens, EndRefill, Goto, Pending, TypeOK
  <2>4. Pending(b)' = Pending(b) \ {c} /\ c \in Pending(b)
    BY <1>6 DEF StoreTokens, EndRefill, Goto, Pending, TypeOK
  <2>5. Cardinality(Pending(b))' = Cardinality(Pending(b)) - 1
    <3>1. IsFiniteSet(Pending(b))
      BY PendingFinite
    <3>2. Cardinality(Pending(b) \ {c}) = Cardinality(Pending(b)) - 1
      BY <2>4, <3>1, FS_RemoveElement
    <3> QED  BY <2>4, <3>2
  <2>6. ASSUME NEW d \in Made
        PROVE  /\ stored'[d] + Cardinality(Pending(d))' <= last_refill'[d] - born'[d]
               /\ tokens'[d] + admitted'[d] <= Capacity * (1 + stored'[d])
    <3>1. CASE d # b
      <4>1. tokens'[d] = tokens[d] /\ stored'[d] = stored[d]
        BY <1>0, <2>1, <2>2, <3>1 DEF TypeOK
      <4> QED  BY <2>2, <2>3, <3>1, <4>1 DEF Claims
    <3>2. CASE d = b
      <4>1. tokens'[b] = Refilled(c) /\ stored'[b] = stored[b] + 1
        BY <2>1, <2>2 DEF TypeOK
      <4>2. stored[b] + Cardinality(Pending(b)) <= last_refill[b] - born[b]
            /\ tokens[b] + admitted[b] <= Capacity * (1 + stored[b])
        BY <2>1 DEF Claims
      <4>3. /\ tokens[b] \in Nat /\ admitted[b] \in Nat /\ stored[b] \in Nat
            /\ last_refill[b] \in Nat /\ born[b] \in Nat /\ Capacity \in Nat
            /\ Cardinality(Pending(b)) \in Nat
        BY <2>1, PendingFinite DEF TypeOK
      <4>4. Capacity * (1 + (stored[b] + 1)) = Capacity * (1 + stored[b]) + Capacity
        <5>1. \A x, y \in Nat : x * (1 + (y + 1)) = x * (1 + y) + x
          OBVIOUS
        <5> QED  BY <4>3, <5>1
      <4>5. Capacity * (1 + stored[b]) \in Nat
        <5>1. \A x, y \in Nat : x * (1 + y) \in Nat
          OBVIOUS
        <5> QED  BY <4>3, <5>1
      <4>6. Refilled(c) + admitted[b] <= Capacity * (1 + (stored[b] + 1))
        BY <2>1, <4>2, <4>3, <4>4, <4>5
      <4>7. (stored[b] + 1) + Cardinality(Pending(b))' <= last_refill[b] - born[b]
        BY <2>5, <4>2, <4>3
      <4> QED  BY <2>2, <3>2, <4>1, <4>6, <4>7
    <3> QED  BY <3>1, <3>2
  <2>7. Unmade'
    <3>1. \A d \in Buckets : d > made => d # b
      BY <2>1 DEF Made, TypeOK, Buckets
    <3> QED  BY <2>2, <3>1 DEF Unmade, TypeOK, Buckets
  <2> QED  BY <2>2, <2>6, <2>7 DEF Claims, Made
<1>7. ASSUME NEW c \in Callers, Take(c) PROVE I
  <2> DEFINE b == bucket[c]
  <2>1. b \in Made /\ b \in Buckets
    BY <1>0, <1>7 DEF Take
  <2>2. \A d \in Made : Pending(d)' = Pending(d)
    BY <1>0, <1>7 DEF Take, TakeAgain, Return, Goto, Pending, TypeOK
  <2>3. CASE ~Taken(c)
    <3>1. /\ UNCHANGED <<made, tokens, last_refill, born, admitted, stored>>
          /\ lost' = [lost EXCEPT ![b] = @ + 1]
      BY <1>7, <2>3 DEF Take
    <3>2. Unmade'
      <4>1. \A d \in Buckets : d > made => d # b
        BY <2>1 DEF Made, TypeOK, Buckets
      <4> QED  BY <3>1, <4>1 DEF Unmade, TypeOK, Buckets
    <3>3. Claims'
      BY <2>2, <3>1 DEF Claims, Made
    <3> QED  BY <3>2, <3>3
  <2>4. CASE Taken(c)
    <3>1. /\ UNCHANGED <<made, last_refill, born, stored, lost>>
          /\ tokens' = [tokens EXCEPT ![b] = current[c] - 1] /\ current[c] = tokens[b]
          /\ admitted' = [admitted EXCEPT ![b] = @ + 1]
      BY <1>7, <2>4 DEF Take, Taken
    <3>2. \A d \in Made : tokens'[d] + admitted'[d] = tokens[d] + admitted[d]
      BY <1>0, <2>1, <3>1 DEF TypeOK
    <3>3. Unmade'
      <4>1. \A d \in Buckets : d > made => d # b
        BY <2>1 DEF Made, TypeOK, Buckets
      <4> QED  BY <3>1, <4>1 DEF Unmade, TypeOK, Buckets
    <3>4. Claims'
      BY <2>2, <3>1, <3>2 DEF Claims, Made
    <3> QED  BY <3>3, <3>4
  <2> QED  BY <2>3, <2>4
<1>8. CASE UNCHANGED vars
  BY <1>8, ClaimsFrame DEF vars, Pending, locals, history
<1> QED
  BY <1>1, <1>2, <1>3, <1>4, <1>5, <1>6, <1>7, <1>8 DEF Next, CallerStep

-----------------------------------------------------------------------------
(* Who pays for a lost exchange.                                            *)

\* Only finitely many tasks are about to lose.
LEMMA OutrunFinite ==
    /\ Cardinality(Callers) \in Nat
    /\ \A b : IsFiniteSet(Outrun(b)) /\ Cardinality(Outrun(b)) \in Nat
<1>1. \A b : IsFiniteSet(Outrun(b))
  BY FS_Subset DEF Outrun
<1> QED  BY <1>1, FS_CardinalityType

\* Nothing changes for bucket b.
LEMMA PaidFrame ==
    ASSUME Paid, NEW b \in Made, Outrun(b)' = Outrun(b),
           lost'[b] = lost[b], admitted'[b] = admitted[b], stored'[b] = stored[b]
    PROVE  lost'[b] + Cardinality(Outrun(b))'
             <= (Cardinality(Callers) - 1) * (admitted'[b] + stored'[b])
<1>1. Cardinality(Outrun(b))' = Cardinality(Outrun(b))
  OBVIOUS
<1> QED  BY <1>1 DEF Paid

\* A change of the tokens of b by c: every other task may be overtaken by it.
LEMMA PaidChange ==
    ASSUME TypeOK, Paid, NEW b \in Made, NEW c \in Callers, c \notin Outrun(b)',
           lost'[b] = lost[b], admitted'[b] + stored'[b] = admitted[b] + stored[b] + 1
    PROVE  lost'[b] + Cardinality(Outrun(b))'
             <= (Cardinality(Callers) - 1) * (admitted'[b] + stored'[b])
<1> DEFINE others == Cardinality(Callers) - 1
           old == admitted[b] + stored[b]
           new == admitted'[b] + stored'[b]
<1>1. /\ IsFiniteSet(Callers \ {c}) /\ Cardinality(Callers \ {c}) = others
      /\ Outrun(b)' \subseteq Callers \ {c}
  BY FS_RemoveElement DEF Outrun
<1>2. Cardinality(Outrun(b)') <= others /\ Cardinality(Outrun(b)') \in Nat
  BY <1>1, FS_Subset, FS_CardinalityType
<1>3. others \in Nat
  BY <1>1, FS_CardinalityType
<1>4. b \in Buckets /\ lost[b] \in Nat /\ old \in Nat /\ new = old + 1
  BY MadeBuckets DEF TypeOK
<1>5. lost[b] + Cardinality(Outrun(b)) <= others * old
  BY DEF Paid
<1>6. others * old \in Nat /\ others * (old + 1) = others * old + others
  <2>1. \A x, y \in Nat : x * y \in Nat /\ x * (y + 1) = x * y + x
    OBVIOUS
  <2> HIDE DEF others, old
  <2> QED  BY <1>3, <1>4, <2>1
<1>7. lost[b] <= others * old
  <2> HIDE DEF others, old
  <2> QED  BY <1>4, <1>5, <1>6, OutrunFinite
<1>8. lost[b] + Cardinality(Outrun(b)') <= others * (old + 1)
  <2> HIDE DEF others, old
  <2> QED  BY <1>2, <1>3, <1>4, <1>6, <1>7
<1>9. Cardinality(Outrun(b))' = Cardinality(Outrun(b)')
  OBVIOUS
<1> QED  BY <1>4, <1>8, <1>9

\* Every failed exchange is paid for.
LEMMA PaidStep ==
    ASSUME IInv, [Next]_vars
    PROVE  Paid'
<1> USE DEF IInv
<1>0. /\ Made \subseteq Buckets /\ NoBucket \notin Made
      /\ \A c \in Callers : pc[c] \notin {"idle", "make"} => bucket[c] \in Made
  BY MadeBuckets DEF Calls
<1>1. ASSUME UNCHANGED <<made, lost, admitted, stored>>,
             \A b \in Made : Outrun(b)' = Outrun(b)
      PROVE  Paid'
  <2>1. Made' = Made
    BY <1>1 DEF Made
  <2> QED  BY <1>1, <2>1, PaidFrame DEF Paid
<1>2. ASSUME NEW t \in 0 .. MaxTime, ClockChanges(t) \/ cleanup_stale(t) PROVE Paid'
  BY <1>1, <1>2 DEF ClockChanges, cleanup_stale, locals, history, Outrun
<1>3. ASSUME NEW c \in Callers, NEW i \in Ips, Lookup(c, i) PROVE Paid'
  <2>1. \A b \in Made : Outrun(b)' = Outrun(b)
    BY <1>3 DEF Lookup, Goto, Outrun, TypeOK
  <2> QED  BY <1>1, <1>3, <2>1 DEF Lookup, history
<1>4. ASSUME NEW c \in Callers, Make(c) PROVE Paid'
  <2>0. PICK m \in Int : m = made + 1
    BY DEF TypeOK
  <2>1. made' = m /\ m \in Buckets /\ made \in Nat /\ UNCHANGED <<admitted, stored, lost>>
    BY <1>4, <2>0 DEF Make, TypeOK, Buckets
  <2>2. \A b \in Made : b \in Buckets /\ b # m
    BY <1>0, <2>0, <2>1 DEF Made
  <2>3. \A b \in Made : Outrun(b)' = Outrun(b)
    BY <1>4, <2>1, <2>2 DEF Make, Goto, Outrun, TypeOK
  <2>4. Outrun(m)' = {}
    <3>1. \A d \in Callers : pc'[d] = "take" => d # c /\ bucket'[d] \in Made
      BY <1>0, <1>4 DEF Make, Goto, TypeOK
    <3> QED  BY <2>2, <3>1 DEF Outrun
  <2>5. Cardinality(Outrun(m))' = 0 /\ lost'[m] = 0 /\ admitted'[m] = 0 /\ stored'[m] = 0
    BY <2>0, <2>1, <2>4, FS_EmptySet DEF Unmade
  <2>6. (Cardinality(Callers) - 1) * (0 + 0) = 0
    BY OutrunFinite
  <2>7. Made' = Made \cup {m}
    BY <2>0, <2>1 DEF Made
  <2> QED  BY <2>1, <2>3, <2>5, <2>6, <2>7, PaidFrame DEF Paid
<1>5. ASSUME NEW c \in Callers,
             Insert(c) \/ ReadClock(c) \/ LoadLast(c) \/ Claim(c) \/ LoadTokens(c)
      PROVE  Paid'
  <2>1. /\ UNCHANGED <<made, lost, admitted, stored, tokens, bucket>>
        /\ pc[c] # "take" /\ pc'[c] # "take"
        /\ \A d \in Callers : d # c => pc'[d] = pc[d] /\ current'[d] = current[d]
    BY <1>5 DEF Insert, ReadClock, LoadLast, Claim, LoadTokens, EndRefill, Goto, locals, history,
                TypeOK
  <2> QED  BY <1>1, <2>1 DEF Outrun
<1>6. ASSUME NEW c \in Callers, LoadConsume(c) PROVE Paid'
  <2>1. UNCHANGED <<made, lost, admitted, stored>>
    BY <1>6 DEF LoadConsume, history
  <2>2. \A b \in Made : Outrun(b)' = Outrun(b)
    BY <1>0, <1>6 DEF LoadConsume, Return, Goto, Outrun, TypeOK
  <2> QED  BY <1>1, <2>1, <2>2
<1>7. ASSUME NEW c \in Callers, StoreTokens(c) PROVE Paid'
  <2>0. PICK b \in Made : b = bucket[c]
    BY <1>0, <1>7 DEF StoreTokens
  <2>1. /\ UNCHANGED <<made, lost, admitted, bucket>>
        /\ tokens' = [tokens EXCEPT ![b] = Refilled(c)]
        /\ stored' = [stored EXCEPT ![b] = @ + 1]
    BY <1>7, <2>0 DEF StoreTokens
  <2>2. \A d \in Made : d # b => Outrun(d)' = Outrun(d) /\ stored'[d] = stored[d]
    BY <1>0, <1>7, <2>0, <2>1 DEF StoreTokens, EndRefill, Goto, Outrun, TypeOK
  <2>3. c \notin Outrun(b)'
    BY <1>7 DEF StoreTokens, EndRefill, Goto, Outrun, TypeOK
  <2>4. admitted'[b] + stored'[b] = admitted[b] + stored[b] + 1
    BY <1>0, <2>1 DEF TypeOK
  <2>5. lost'[b] + Cardinality(Outrun(b))'
          <= (Cardinality(Callers) - 1) * (admitted'[b] + stored'[b])
    BY <2>1, <2>3, <2>4, PaidChange
  <2>6. ASSUME NEW d \in Made, d # b
        PROVE  lost'[d] + Cardinality(Outrun(d))'
                 <= (Cardinality(Callers) - 1) * (admitted'[d] + stored'[d])
    BY <2>1, <2>2, <2>6, PaidFrame
  <2>7. Made' = Made
    BY <2>1 DEF Made
  <2> QED  BY <2>5, <2>6, <2>7 DEF Paid
<1>8. ASSUME NEW c \in Callers, Take(c) PROVE Paid'
  <2>0. PICK b \in Made : b = bucket[c]
    BY <1>0, <1>8 DEF Take
  <2>1. b \in Buckets /\ UNCHANGED <<made, stored>> /\ Made' = Made
    BY <1>0, <1>8 DEF Take, Made
  <2>2. CASE Taken(c)
    <3>1. /\ tokens' = [tokens EXCEPT ![b] = current[c] - 1]
          /\ admitted' = [admitted EXCEPT ![b] = @ + 1] /\ UNCHANGED lost
          /\ Return(c)
      BY <1>8, <2>0, <2>2 DEF Take
    <3>2. \A d \in Made : d # b => Outrun(d)' = Outrun(d) /\ admitted'[d] = admitted[d]
      BY <1>0, <2>0, <2>1, <3>1 DEF Return, Goto, Outrun, TypeOK
    <3>3. c \notin Outrun(b)'
      BY <3>1 DEF Return, Goto, Outrun, TypeOK
    <3>4. admitted'[b] + stored'[b] = admitted[b] + stored[b] + 1
      BY <2>1, <3>1 DEF TypeOK
    <3>5. lost'[b] + Cardinality(Outrun(b))'
            <= (Cardinality(Callers) - 1) * (admitted'[b] + stored'[b])
      BY <2>1, <3>1, <3>3, <3>4, PaidChange
    <3>6. ASSUME NEW d \in Made, d # b
          PROVE  lost'[d] + Cardinality(Outrun(d))'
                   <= (Cardinality(Callers) - 1) * (admitted'[d] + stored'[d])
      BY <2>1, <3>1, <3>2, <3>6, PaidFrame
    <3> QED  BY <2>1, <3>5, <3>6 DEF Paid
  <2>3. CASE ~Taken(c)
    <3>1. /\ UNCHANGED <<tokens, admitted, bucket>> /\ lost' = [lost EXCEPT ![b] = @ + 1]
          /\ TakeAgain(c)
      BY <1>8, <2>0, <2>3 DEF Take, TakeAgain
    <3>2. \A d \in Made : d # b => Outrun(d)' = Outrun(d) /\ lost'[d] = lost[d]
      BY <1>0, <2>0, <2>1, <3>1 DEF TakeAgain, Goto, Outrun, TypeOK
    <3>3. c \in Outrun(b) /\ Outrun(b)' = Outrun(b) \ {c}
      BY <1>8, <2>0, <2>3, <3>1 DEF Take, Taken, TakeAgain, Goto, Outrun, TypeOK
    <3>4. Cardinality(Outrun(b))' = Cardinality(Outrun(b)) - 1
      <4>1. Cardinality(Outrun(b) \ {c}) = Cardinality(Outrun(b)) - 1
        BY <3>3, OutrunFinite, FS_RemoveElement
      <4> QED  BY <3>3, <4>1
    <3>5. lost'[b] = lost[b] + 1 /\ lost[b] \in Nat
      BY <2>1, <3>1 DEF TypeOK
    <3>6. lost'[b] + Cardinality(Outrun(b))' = lost[b] + Cardinality(Outrun(b))
      BY <3>4, <3>5, OutrunFinite
    <3>7. lost'[b] + Cardinality(Outrun(b))'
            <= (Cardinality(Callers) - 1) * (admitted'[b] + stored'[b])
      BY <2>1, <3>1, <3>6 DEF Paid
    <3>8. ASSUME NEW d \in Made, d # b
          PROVE  lost'[d] + Cardinality(Outrun(d))'
                   <= (Cardinality(Callers) - 1) * (admitted'[d] + stored'[d])
      BY <2>1, <3>1, <3>2, <3>8, PaidFrame
    <3> QED  BY <2>1, <3>7, <3>8 DEF Paid
  <2> QED  BY <2>2, <2>3
<1>9. CASE UNCHANGED vars
  BY <1>1, <1>9 DEF vars, locals, history, Outrun
<1> QED
  BY <1>2, <1>3, <1>4, <1>5, <1>6, <1>7, <1>8, <1>9 DEF Next, CallerStep

-----------------------------------------------------------------------------
(* How many buckets a client has.                                           *)

\* A task that is about to make a bucket has not made one since the last cleanup.
LEMMA MakersStep ==
    ASSUME IInv, [Next]_vars
    PROVE  Makers' /\ OneBucketEach'
<1> USE DEF IInv
<1> DEFINE I == Makers' /\ OneBucketEach'
<1>1. CASE UNCHANGED <<buckets, makers, pc, ip>>
  BY <1>1 DEF Makers, OneBucketEach
<1>2. ASSUME NEW t \in 0 .. MaxTime, cleanup_stale(t) PROVE I
  BY <1>2 DEF cleanup_stale, locals, Makers, OneBucketEach, TypeOK
<1>3. ASSUME NEW c \in Callers, NEW i \in Ips, Lookup(c, i) PROVE I
  <2>1. \A j \in Ips : buckets[j] = NoBucket => c \notin makers[j]
    BY <1>3 DEF Lookup, Makers
  <2> QED  BY <1>3, <2>1 DEF Lookup, Goto, history, Makers, OneBucketEach, TypeOK
<1>4. ASSUME NEW c \in Callers, Make(c) PROVE I
  <2>1. \A j \in Ips : buckets[j] = NoBucket => c \notin makers[j]
    BY <1>4 DEF Make, Makers
  <2> QED  BY <1>4, <2>1 DEF Make, Goto, Makers, OneBucketEach, TypeOK
<1>5. ASSUME NEW c \in Callers, Insert(c) PROVE I
  <2>1. bucket[c] # NoBucket
    BY <1>5, MadeBuckets DEF Insert, Calls
  <2> QED  BY <1>5, <2>1 DEF Insert, Goto, locals, history, Makers, OneBucketEach, TypeOK
<1>6. ASSUME NEW c \in Callers,
             \/ ReadClock(c) \/ LoadLast(c) \/ Claim(c) \/ LoadTokens(c) \/ StoreTokens(c)
             \/ LoadConsume(c) \/ Take(c)
      PROVE  I
  <2>1. /\ UNCHANGED <<buckets, makers, ip>>
        /\ \A d \in Callers : d # c => pc'[d] = pc[d]
        /\ pc[c] # "insert" /\ pc'[c] # "make"
    BY <1>6 DEF ReadClock, LoadLast, Claim, LoadTokens, StoreTokens, LoadConsume, Take, TakeAgain,
                Return, EndRefill, Goto, history, TypeOK
  <2> QED  BY <2>1 DEF Makers, OneBucketEach, TypeOK
<1>7. ASSUME NEW t \in 0 .. MaxTime, ClockChanges(t) PROVE I
  BY <1>1, <1>7 DEF ClockChanges, locals, history
<1>8. CASE UNCHANGED vars
  BY <1>1, <1>8 DEF vars, locals, history
<1> QED
  BY <1>2, <1>3, <1>4, <1>5, <1>6, <1>7, <1>8 DEF Next, CallerStep

-----------------------------------------------------------------------------
(* The theorems.                                                            *)

\* A new limiter satisfies the invariant.
LEMMA InitIInv == Init => IInv
<1> SUFFICES ASSUME Init PROVE IInv
  OBVIOUS
<1>1. Made = {}
  BY DEF Init, Made
<1>2. TypeOK
  BY DEF Init, TypeOK
<1>3. Calls /\ Claims /\ Unmade /\ Paid
  BY <1>1 DEF Init, Calls, Claims, Unmade, Paid
<1>4. Makers /\ OneBucketEach
  BY DEF Init, Makers, OneBucketEach
<1> QED  BY <1>2, <1>3, <1>4 DEF IInv

\* Every step keeps it.
LEMMA NextIInv == IInv /\ [Next]_vars => IInv'
  BY TypeStep, ClaimsStep, PaidStep, MakersStep DEF IInv

\* The inductive invariant of the rate limiter.
LEMMA Invariance == Spec => []IInv
  BY InitIInv, NextIInv, PTL DEF Spec

\* A bucket never holds more than its capacity, whatever the tasks in refill
\* and try_consume interleave, and every local keeps its type.
THEOREM TypeCorrect == Spec => []TypeOK
<1>1. IInv => TypeOK
  BY DEF IInv
<1> QED  BY <1>1, Invariance, PTL

\* The bound on what a bucket admits, for every number of tasks, capacity,
\* rate and clock: one capacity, and one more for each second refilled.
THEOREM Admission == Spec => []AdmissionBound
<1>1. IInv => AdmissionBound
  <2> SUFFICES ASSUME IInv, NEW b \in Made
               PROVE  /\ tokens[b] + admitted[b] <= Capacity * (1 + stored[b])
                      /\ stored[b] <= last_refill[b] - born[b]
    BY DEF AdmissionBound
  <2>1. stored[b] + Cardinality(Pending(b)) <= last_refill[b] - born[b]
        /\ tokens[b] + admitted[b] <= Capacity * (1 + stored[b])
    BY DEF IInv, Claims
  <2>2. stored[b] \in Nat /\ last_refill[b] - born[b] \in Int
    BY MadeBuckets DEF IInv, TypeOK
  <2> QED  BY <2>1, <2>2, PendingFinite
<1> QED  BY <1>1, Invariance, PTL

\* check makes at most one bucket per task and client between two cleanups.
THEOREM OneBucket == Spec => []OneBucketEach
<1>1. IInv => OneBucketEach
  BY DEF IInv
<1> QED  BY <1>1, Invariance, PTL

\* The loop of try_consume is lock-free, for every number of tasks and
\* whatever the clock does: a task that loses an exchange lost it to a request
\* that was admitted or a refill that was stored after its load.
THEOREM LockFree == Spec => []ExchangesPaid
<1>1. IInv => ExchangesPaid
  <2> SUFFICES ASSUME IInv, NEW b \in Made
               PROVE  lost[b] <= (Cardinality(Callers) - 1) * (admitted[b] + stored[b])
    BY DEF ExchangesPaid
  <2>1. lost[b] + Cardinality(Outrun(b)) <= (Cardinality(Callers) - 1) * (admitted[b] + stored[b])
    BY DEF IInv, Paid
  <2>2. lost[b] \in Nat /\ admitted[b] + stored[b] \in Int
    BY MadeBuckets DEF IInv, TypeOK
  <2>3. (Cardinality(Callers) - 1) * (admitted[b] + stored[b]) \in Int
    <3>1. \A x, y \in Int : x * y \in Int
      OBVIOUS
    <3> QED  BY <2>2, <3>1, OutrunFinite
  <2> QED  BY <2>1, <2>2, <2>3, OutrunFinite
<1> QED  BY <1>1, Invariance, PTL
=============================================================================
