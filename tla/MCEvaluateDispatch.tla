------------------------- MODULE MCEvaluateDispatch -------------------------
(* Instances of EvaluateDispatch for TLC, and two statements of the design *)
(* document that the code does not keep.                                   *)
EXTENDS EvaluateDispatch

(* DD-02, section 8: a pipeline that exceeds its timeout is aborted and    *)
(* activates the fallback.                                                 *)
TimeoutActivatesFallback == reply.kind = "offer" => ~Aborted

(* DD-02, section 6: every activation of the fallback is recorded with its *)
(* specific reason, so "no_candidates" means that the filter left none.    *)
ReasonIsSpecific ==
    reply.kind = "fallback" /\ reply.row.reason = "no_candidates" => error = "empty"
=============================================================================
