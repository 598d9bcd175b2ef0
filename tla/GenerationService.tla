-------------------------- MODULE GenerationService --------------------------
(***************************************************************************)
(* What a supervisor promises the callers of start_generation, whatever    *)
(* worker, pipes and threads are behind it: a request is accepted or       *)
(* refused once, its stream carries Started, then tokens, then one         *)
(* terminal event, and a consumer that kept its stream open is told Done   *)
(* only after Started.                                                     *)
(***************************************************************************)
EXTENDS Sequences

CONSTANT Requests

VARIABLES life,     \* of each request: "new", "open", "ended" or "refused"
          stream,   \* what each stream accepted
          closed    \* the streams their consumer has closed

vars == <<life, stream, closed>>

Init ==
    /\ life = [r \in Requests |-> "new"]
    /\ stream = [r \in Requests |-> <<>>]
    /\ closed = {}

Accept(r) ==
    /\ life[r] = "new"
    /\ life' = [life EXCEPT ![r] = "open"]
    /\ UNCHANGED <<stream, closed>>

\* A request that cannot be written to the worker is refused as well.
Refuse(r) ==
    /\ life[r] \in {"new", "open"}
    /\ stream[r] = <<>>
    /\ life' = [life EXCEPT ![r] = "refused"]
    /\ UNCHANGED <<stream, closed>>

Close(r) ==
    /\ closed' = closed \cup {r}
    /\ UNCHANGED <<life, stream>>

Deliver(r) ==
    /\ life[r] = "open" /\ r \notin closed
    /\ stream' = [stream EXCEPT ![r] = Append(@, IF @ = <<>> THEN "Started" ELSE "Token")]
    /\ UNCHANGED <<life, closed>>

\* Ends the open streams in S with the event e.
End(S, e) ==
    /\ \A r \in S : life[r] = "open"
    /\ life' = [r \in Requests |-> IF r \in S THEN "ended" ELSE life[r]]
    /\ stream' = [r \in Requests |-> IF r \in S THEN Append(stream[r], e) ELSE stream[r]]
    /\ UNCHANGED closed

Complete(r) == (r \in closed \/ stream[r] # <<>>) /\ End({r}, "Done")

Expire(r) == End({r}, "DeadlineExceeded")

Fail(r) == End({r}, "Error")

\* The worker is lost, and every generation with it.
FailAll == End({r \in Requests : life[r] = "open"}, "Error")

Next ==
    \/ \E r \in Requests : \/ Accept(r) \/ Refuse(r) \/ Close(r) \/ Deliver(r)
                           \/ Complete(r) \/ Expire(r) \/ Fail(r)
    \/ FailAll

Spec == Init /\ [][Next]_vars
=============================================================================
