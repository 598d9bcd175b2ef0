------------------------- MODULE MCWorkerSupervisor -------------------------
(* Model-checking instances of WorkerSupervisor. *)
EXTENDS WorkerSupervisor, TLC

CONSTANTS r1, r2, id

\* UUIDs (server/routes.rs): an identifier of its own for each request.
UniqueIds == [r \in Requests |-> r]

\* gen-<prompt length> (engine.rs): two prompts of one length share theirs.
SharedIds == [r \in Requests |-> id]

Symmetry == Permutations(Requests)
=============================================================================
