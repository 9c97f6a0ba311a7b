-------------------------- MODULE MCDispatchSystem --------------------------
(* An instance of DispatchSystem for TLC. *)
EXTENDS DispatchSystem

(* A point is created, deactivated or deleted while it is being confirmed. *)
MCChangeRequests ==
    {i \in Catalogue!Inputs : i.op \in {"CREATE", "DEACTIVATE", "DELETE"}}
=============================================================================
