--------------------------- MODULE WorkerProtocol ---------------------------
(***************************************************************************)
(* The frames between the host and the worker, and the stateful            *)
(* ProtocolValidator that each side runs on what it reads                  *)
(* (compute-core/src/worker_protocol.rs).                                  *)
(*                                                                         *)
(* A frame is [kind, req, epoch]: the request is the generation it is      *)
(* about, of which only the identifier IdOf[req] travels; the epoch is the *)
(* load_epoch of the payload.  Version, worker id, size and sequence       *)
(* number are left out: both writers number and write a frame under one    *)
(* lock, and a pipe neither loses nor reorders.                            *)
(***************************************************************************)
EXTENDS Naturals, Sequences

CONSTANTS Requests,     \* generation requests
          Ids,          \* request_id strings
          IdOf,         \* the request_id the engine gives each request
          NoRequest     \* the request field of a frame that has none

ASSUME RequestsAssumption == IdOf \in [Requests -> Ids] /\ NoRequest \notin Requests

HostCommand == {"LoadModel", "StartGeneration", "CancelGeneration", "UnloadModel", "Ping",
                "Shutdown"}

WorkerEvent == {"RoutesValidated", "ModelReady", "ModelUnloaded", "GenerationStarted", "Token",
                "GenerationCompleted", "GenerationCancelled", "GenerationFailed", "Heartbeat",
                "WorkerFatal"}

TerminalEvent == {"GenerationCompleted", "GenerationCancelled", "GenerationFailed"}

MessageKind == HostCommand \cup WorkerEvent

Frame == [kind : MessageKind, req : Requests \cup {NoRequest}, epoch : Nat]

PlainFrame(kind) == [kind |-> kind, req |-> NoRequest, epoch |-> 0]
EpochFrame(kind, epoch) == [kind |-> kind, req |-> NoRequest, epoch |-> epoch]
RequestFrame(kind, req) == [kind |-> kind, req |-> req, epoch |-> 0]

-----------------------------------------------------------------------------
(* ProtocolValidator: known_requests and terminal_requests.                *)

Validator == [known : SUBSET Ids, terminal : SUBSET Ids]

NewValidator == [known |-> {}, terminal |-> {}]

\* validate_host_command accepts the frame.
HostCommandOk(v, f) ==
    /\ f.kind = "StartGeneration" => IdOf[f.req] \notin v.known
    /\ f.kind = "CancelGeneration" => IdOf[f.req] \in v.known

\* What validate_host_command records: only the sequence number moves.
AfterHostCommand(v, f) == v

\* validate_worker_event accepts the frame.
WorkerEventOk(v, f) ==
    /\ f.kind = "GenerationStarted" => IdOf[f.req] \notin v.known
    /\ f.kind \in TerminalEvent => IdOf[f.req] \in v.known /\ IdOf[f.req] \notin v.terminal

\* Mutant: a started request is not recorded.
AfterWorkerEvent_NoPush(v, f) ==
    IF f.kind \in TerminalEvent
    THEN [known |-> v.known \ {IdOf[f.req]}, terminal |-> v.terminal \cup {IdOf[f.req]}]
    ELSE v

\* What validate_worker_event records.
AfterWorkerEvent(v, f) ==
    IF f.kind = "GenerationStarted" THEN [v EXCEPT !.known = @ \cup {IdOf[f.req]}]
    ELSE IF f.kind \in TerminalEvent
         THEN [known |-> v.known \ {IdOf[f.req]}, terminal |-> v.terminal \cup {IdOf[f.req]}]
    ELSE v
=============================================================================
