-------------------------- MODULE MCConfirmDispatch --------------------------
(* Instances of ConfirmDispatch for TLC. *)
EXTENDS ConfirmDispatch, TLC

(* Calls are interchangeable, and so are requests, which start out unused, *)
(* and riders, of whom the code only asks whether two are the same.        *)
CallSymmetry ==
    Permutations(Calls) \cup Permutations(Requests) \cup Permutations(Riders)
=============================================================================
