-------------------------- MODULE MCDispatchPolicy --------------------------
(***************************************************************************)
(* Three vehicles, of which a search finds two; two safe points, scores in *)
(* hundredths around the baseline 0.20 and its 15 %; walks of 0, 120 and   *)
(* 121 m; one kind of vehicle for every rule of the filter and of the      *)
(* fallback.                                                               *)
(***************************************************************************)
EXTENDS DispatchPolicy

Fit == [status |-> "in_service", eligible |-> TRUE, autonomy |-> 3, battery |-> 80,
        stale |-> FALSE]

MCHashes == {Fit,
             [Fit EXCEPT !.status = "busy"],
             [Fit EXCEPT !.eligible = FALSE],
             [Fit EXCEPT !.autonomy = 2],
             [Fit EXCEPT !.battery = 10],
             [Fit EXCEPT !.stale = TRUE]}

MCCurated == [safety : {20, 23, 24}, walking : {120}] \cup [safety : {24}, walking : {121}]
MCCuratedOrigin == [safety : {23, 24}, walking : {0, 120}]

(* Bounds: the last vehicle starts out fit, and safe points are explored   *)
(* with fleets of fit vehicles that nothing changes.                       *)
MCInit == Init /\ hash[3] = Fit
MCSpec == MCInit /\ [][Next]_vars

QuietWithPoints ==
    safePoints # Empty => updates = 0 /\ \A v \in Vehicles : hash[v] \in {Fit, NoHash}
=============================================================================
