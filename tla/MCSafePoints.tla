---------------------------- MODULE MCSafePoints ----------------------------
(* Instances of SafePoints for TLC. *)
EXTENDS SafePoints, TLC

(* Calls are interchangeable, and so are the values of the data columns. *)
CatalogueSymmetry == Permutations(Calls) \cup Permutations(Data)
=============================================================================
