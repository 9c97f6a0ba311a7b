------------------------ MODULE DispatchPolicyProofs ------------------------
(***************************************************************************)
(* Theorems about DispatchPolicy, for any fleet, catalogue, weights,       *)
(* thresholds and radii, and any number of changes during the request.     *)
(***************************************************************************)
EXTENDS DispatchPolicy, FiniteSetTheorems, WellFoundedInduction, TLAPS

(* What was found and read of a vehicle was true of it at some time since  *)
(* the pipeline, or the fallback, began.                                   *)
Reading ==
    \A v \in Vehicles :
        /\ hash[v] \in held[v] /\ distance[v] \in been[v]
        /\ v \in DOMAIN near => near[v] \in been[v] /\ near[v] <= CandidateRadius
        /\ v \in DOMAIN read => read[v] \in held[v]

(* GEOSEARCH found whoever was in radius all along, or enough others who   *)
(* were no farther.                                                        *)
Covered ==
    stage # "search" =>
        \A v \in Vehicles : (\A d \in been[v] : d <= CandidateRadius) =>
            v \in DOMAIN near \/ Crowded(v)

(* From the scoring on, what the filter read is kept with what it passed.  *)
Scored ==
    stage \in {"decide", "offer"} =>
        ~degraded /\ DOMAIN read = DOMAIN near /\ passed = Filtered

Decided ==
    stage = "offer" =>
        /\ primary \in Winners
        /\ chosen = primary[1]
        /\ suggestion \in Suggestions(chosen)

Picked ==
    stage = "fallback" => degraded /\ DOMAIN read = DOMAIN near /\ Picks(chosen)

Unserved ==
    stage = "unavailable" => DOMAIN read = DOMAIN near /\ ViableFound = {}

Unanswered ==
    /\ stage # "offer" => suggestion = NoPoint
    /\ stage \notin {"offer", "fallback"} => chosen = NoVehicle

IInv == /\ TypeOK
        /\ Reading /\ Covered /\ Scored /\ Decided /\ Picked /\ Unserved /\ Unanswered

----------------------------------------------------------------------------
LEMMA InitIInv == Init => IInv
<1> SUFFICES ASSUME Init
             PROVE  IInv
  OBVIOUS
<1> USE PolicyAssumption DEF Init, Empty, NoCombo
<1>1. TypeOK
  <2>1. safePoints \in Catalogues
    <3>1. safePoints \in [{} -> Curated]
      OBVIOUS
    <3>q. QED
      BY <3>1 DEF Catalogues
  <2>2. base \in [passed -> Bases]
    OBVIOUS
  <2>3. updates \in 0..MaxUpdates
    OBVIOUS
  <2>4. primary \in (Vehicles \cup {NoVehicle}) \X (Points \cup {NoPoint})
    OBVIOUS
  <2>5. /\ held \in [Vehicles -> SUBSET (Hashes \cup {NoHash})]
        /\ been \in [Vehicles -> SUBSET Distances]
    OBVIOUS
  <2>q. QED
    BY <2>1, <2>2, <2>3, <2>4, <2>5 DEF TypeOK
<1>2. Reading /\ Covered /\ Scored /\ Decided /\ Picked /\ Unserved /\ Unanswered
  BY DEF Reading, Covered, Crowded, Scored, Decided, Picked, Unserved, Unanswered
<1>q. QED
  BY <1>1, <1>2 DEF IInv

(* Each step preserves the invariant. *)
LEMMA ChangesStep ==
    ASSUME IInv, NEW v \in Vehicles,
           \/ \E h \in Hashes \cup {NoHash} : Telemetry(v, h)
           \/ \E d \in Distances : Move(v, d)
    PROVE  IInv'
<1> USE DEF IInv, Telemetry, Move, Changes, answer
<1>1. TypeOK'
  <2>1. updates' \in 0..MaxUpdates
    BY PolicyAssumption DEF TypeOK
  <2>2. hash' \in [Vehicles -> Hashes \cup {NoHash}] /\ distance' \in [Vehicles -> Distances]
    BY DEF TypeOK
  <2>q. QED
    BY <2>1, <2>2 DEF TypeOK
<1>2. Reading' /\ Covered'
  BY DEF Reading, Covered, Crowded, TypeOK
<1>3. Scored' /\ Decided' /\ Picked' /\ Unserved' /\ Unanswered'
  BY DEF Scored, Decided, Picked, Unserved, Unanswered
<1>q. QED
  BY <1>1, <1>2, <1>3

LEMMA GeoSearchStep ==
    ASSUME IInv, NEW S \in SUBSET Vehicles, GeoSearch(S)
    PROVE  IInv'
<1> USE DEF IInv, GeoSearch, fleet, answer
<1>1. TypeOK'
  BY DEF TypeOK, Empty
<1>2. Reading'
  BY DEF Reading, Empty, Nearest, InRadius, TypeOK
<1>3. Covered'
  <2> SUFFICES ASSUME NEW v \in Vehicles, \A d \in been[v] : d <= CandidateRadius,
                      v \notin S
               PROVE  Crowded(v)'
    BY DEF Covered
  <2>1. distance[v] \in been[v] /\ v \in InRadius \ S
    BY DEF Reading, InRadius
  <2>2. Cardinality(S) = MaxFound /\ \A w \in S : distance[w] <= distance[v]
    BY <2>1 DEF Nearest
  <2>3. DOMAIN near' = S /\ \A w \in S : near'[w] = distance[w]
    OBVIOUS
  <2>q. QED
    BY <2>1, <2>2, <2>3 DEF Crowded
<1>4. Scored' /\ Decided' /\ Picked' /\ Unserved' /\ Unanswered'
  BY DEF Scored, Decided, Picked, Unserved, Unanswered
<1>q. QED
  BY <1>1, <1>2, <1>3, <1>4

LEMMA ReadHashStep ==
    ASSUME IInv, NEW v \in Vehicles, ReadHash(v)
    PROVE  IInv'
<1> USE DEF IInv, ReadHash, fleet, answer
<1>1. TypeOK'
  BY DEF TypeOK
<1>2. Reading' /\ Covered'
  BY DEF Reading, Covered, Crowded
<1>3. Scored' /\ Decided' /\ Picked' /\ Unserved' /\ Unanswered'
  BY DEF Scored, Decided, Picked, Unserved, Unanswered
<1>q. QED
  BY <1>1, <1>2, <1>3

LEMMA EnterFallbackStep ==
    ASSUME IInv, EnterFallback, stage \in {"search", "read", "decide"}
    PROVE  IInv'
<1> USE DEF IInv, EnterFallback, Restart, answer
<1>1. TypeOK'
  <2>1. safePoints' \in Catalogues
    <3>1. safePoints' \in [{} -> Curated]
      BY DEF Empty
    <3>q. QED
      BY <3>1 DEF Catalogues
  <2>2. Catalogues' = Catalogues /\ base' \in [passed' -> Bases]
    BY DEF Catalogues, Empty
  <2>3. /\ held' \in [Vehicles -> SUBSET (Hashes \cup {NoHash})]
        /\ been' \in [Vehicles -> SUBSET Distances]
    BY DEF TypeOK
  <2>q. QED
    BY <2>1, <2>2, <2>3 DEF TypeOK, Empty
<1>2. Reading' /\ Covered'
  BY DEF Reading, Covered, Crowded, Empty
<1>3. Scored' /\ Decided' /\ Picked' /\ Unserved' /\ Unanswered'
  BY DEF Scored, Decided, Picked, Unserved, Unanswered
<1>q. QED
  BY <1>1, <1>2, <1>3

LEMMA ScoreStep ==
    ASSUME IInv, NEW P \in Catalogues, NEW b \in [Filtered -> Bases], Score(P, b)
    PROVE  IInv'
<1> USE DEF IInv, Score, Complete, fleet, answer
<1>1. TypeOK'
  BY DEF TypeOK, Filtered
<1>2. Reading' /\ Covered'
  BY DEF Reading, Covered, Crowded
<1>3. Scored'
  BY DEF Scored, Filtered
<1>4. Decided' /\ Picked' /\ Unserved' /\ Unanswered'
  BY DEF Decided, Picked, Unserved, Unanswered
<1>q. QED
  BY <1>1, <1>2, <1>3, <1>4

LEMMA DecideStep ==
    ASSUME IInv, NEW k \in Combos(passed), NEW p \in Points \cup {NoPoint}, Decide(k, p)
    PROVE  IInv'
<1> USE DEF IInv, Decide, fleet
<1>1. k[1] \in Vehicles /\ k \in Vehicles \X (Points \cup {NoPoint})
  BY DEF Combos, Catalogues, TypeOK
<1>2. TypeOK'
  BY <1>1 DEF TypeOK
<1>3. Reading' /\ Covered'
  BY DEF Reading, Covered, Crowded
<1>4. Scored'
  BY DEF Scored, Filtered
<1>5. Decided'
  BY DEF Decided, Winners, Suggestions, Suggests, First, Before, Total, Safety,
     Combos, Clear, Improves
<1>6. Picked' /\ Unserved' /\ Unanswered'
  BY DEF Picked, Unserved, Unanswered
<1>q. QED
  BY <1>2, <1>3, <1>4, <1>5, <1>6

LEMMA FallbackPicksStep ==
    ASSUME IInv, NEW v \in Vehicles, FallbackPicks(v)
    PROVE  IInv'
<1> USE DEF IInv, FallbackPicks, Complete, fleet
<1>1. TypeOK'
  BY DEF TypeOK
<1>2. Reading' /\ Covered' /\ Scored' /\ Decided' /\ Unserved' /\ Unanswered'
  BY DEF Reading, Covered, Crowded, Scored, Decided, Unserved, Unanswered
<1>3. Picked'
  BY DEF Picked, Picks, ViableFound
<1>q. QED
  BY <1>1, <1>2, <1>3

LEMMA NoAvailabilityStep ==
    ASSUME IInv, NoAvailability
    PROVE  IInv'
<1> USE DEF IInv, NoAvailability, Complete, fleet, answer
<1>1. TypeOK'
  BY DEF TypeOK
<1>2. Reading' /\ Covered' /\ Scored' /\ Decided' /\ Picked' /\ Unanswered'
  BY DEF Reading, Covered, Crowded, Scored, Decided, Picked, Unanswered
<1>3. Unserved'
  BY DEF Unserved, ViableFound
<1>q. QED
  BY <1>1, <1>2, <1>3

LEMMA StutterIInv == IInv /\ UNCHANGED vars => IInv'
<1> SUFFICES ASSUME IInv, UNCHANGED vars
             PROVE  IInv'
  OBVIOUS
<1> USE DEF IInv, vars
<1>1. TypeOK' /\ Reading' /\ Covered' /\ Unanswered'
  BY DEF TypeOK, Reading, Covered, Crowded, Unanswered
<1>2. Scored' /\ Picked' /\ Unserved'
  BY DEF Scored, Picked, Unserved, Filtered, Picks, ViableFound
<1>3. Decided'
  BY DEF Decided, Winners, Suggestions, Suggests, First, Before, Total, Safety,
     Combos, Clear, Improves
<1>q. QED
  BY <1>1, <1>2, <1>3

LEMMA NextIInv == IInv /\ [Next]_vars => IInv'
<1> SUFFICES ASSUME IInv, [Next]_vars
             PROVE  IInv'
  OBVIOUS
<1>1. ASSUME NEW v \in Vehicles, NEW h \in Hashes \cup {NoHash}, Telemetry(v, h)
      PROVE  IInv'
  BY <1>1, ChangesStep
<1>2. ASSUME NEW v \in Vehicles, NEW d \in Distances, Move(v, d)
      PROVE  IInv'
  BY <1>2, ChangesStep
<1>3. ASSUME NEW S \in SUBSET Vehicles, GeoSearch(S)
      PROVE  IInv'
  BY <1>3, GeoSearchStep
<1>4. ASSUME NEW v \in Vehicles, ReadHash(v)
      PROVE  IInv'
  BY <1>4, ReadHashStep
<1>5. ASSUME NEW P \in Catalogues, NEW b \in [Filtered -> Bases], Score(P, b)
      PROVE  IInv'
  BY <1>5, ScoreStep
<1>6. CASE FilterLeavesNobody \/ PipelineFails
  BY <1>6, EnterFallbackStep DEF FilterLeavesNobody, PipelineFails, Complete
<1>7. ASSUME NEW k \in Combos(passed), NEW p \in Points \cup {NoPoint}, Decide(k, p)
      PROVE  IInv'
  BY <1>7, DecideStep
<1>8. ASSUME NEW v \in Vehicles, FallbackPicks(v)
      PROVE  IInv'
  BY <1>8, FallbackPicksStep
<1>9. CASE NoAvailability
  BY <1>9, NoAvailabilityStep
<1>10. CASE UNCHANGED vars
  BY <1>10, StutterIInv
<1>q. QED
  BY <1>1, <1>2, <1>3, <1>4, <1>5, <1>6, <1>7, <1>8, <1>9, <1>10 DEF Next

(* The inductive invariant holds in every state of every behaviour.        *)
THEOREM Inductive == Spec => []IInv
  BY InitIInv, NextIInv, PTL DEF Spec

(* Every variable keeps its type, whatever the fleet does meanwhile. *)
THEOREM TypeCorrect == Spec => []TypeOK
<1>1. IInv => TypeOK
  BY DEF IInv
<1>q. QED
  BY <1>1, Inductive, PTL

----------------------------------------------------------------------------
LEMMA SafePointOK ==
    ASSUME TypeOK, NEW p \in DOMAIN safePoints
    PROVE  p \in Points /\ p \in Nat /\ p # NoPoint /\ safePoints[p].safety \in Nat
<1>1. PICK S \in SUBSET Points : safePoints \in [S -> Curated]
  BY DEF TypeOK, Catalogues
<1>2. p \in Points /\ safePoints[p] \in Curated
  BY <1>1
<1>3. Curated \subseteq [safety : Nat, walking : Nat]
  BY PolicyAssumption
<1>q. QED
  BY <1>2, <1>3, PolicyAssumption

(* The numbers the totals are made of. *)
LEMMA Scores ==
    ASSUME TypeOK, NEW v \in passed, NEW p \in DOMAIN safePoints \cup {NoPoint}
    PROVE  /\ base[v] \in Int
           /\ Safety(p) \in Nat
           /\ Weight * Safety(p) \in Nat
           /\ Total(<<v, p>>) = base[v] + Weight * Safety(p)
<1> USE PolicyAssumption
<1>1. base[v] \in Int
  BY DEF TypeOK
<1>2. Safety(p) \in Nat
  BY SafePointOK DEF Safety
<1>q. QED
  BY <1>1, <1>2 DEF Total

LEMMA WeightIsMonotone ==
    ASSUME NEW m \in Nat, NEW n \in Nat, m <= n
    PROVE  Weight * m <= Weight * n
  BY PolicyAssumption

(* A clear safe point has at least the baseline's score. *)
LEMMA ClearIsSafe ==
    ASSUME TypeOK, NEW p \in DOMAIN safePoints, Clear(p)
    PROVE  Safety(p) >= Safety(NoPoint)
<1> USE PolicyAssumption
<1>1. p # NoPoint /\ safePoints[p].safety \in Nat
  BY SafePointOK
<1>2. Threshold * Baseline >= 0
  OBVIOUS
<1>q. QED
  BY <1>1, <1>2 DEF Clear, Improves, Safety

(* Nothing comes before what it comes after. *)
LEMMA BeforeIsAsymmetric ==
    ASSUME TypeOK, NEW v \in passed,
           NEW p \in DOMAIN safePoints, NEW q \in DOMAIN safePoints,
           Before(<<v, p>>, <<v, q>>)
    PROVE  ~Before(<<v, q>>, <<v, p>>)
<1>1. Total(<<v, p>>) \in Int /\ Total(<<v, q>>) \in Int
  BY Scores
<1>2. p \in Nat /\ q \in Nat /\ p # NoPoint /\ q # NoPoint
  BY SafePointOK
<1>3. v \in Nat
  BY PolicyAssumption DEF TypeOK
<1>q. QED
  BY <1>1, <1>2, <1>3 DEF Before, PointBefore

(* runPipeline may report primary.safety as the suggestion's: the combo    *)
(* suggested is the one that won, for every weight and threshold.          *)
THEOREM SuggestedComboWon == Spec => []SuggestionIsPrimary
<1>1. ASSUME IInv
      PROVE  SuggestionIsPrimary
  <2> SUFFICES ASSUME suggestion # NoPoint
               PROVE  primary = <<chosen, suggestion>>
    BY DEF SuggestionIsPrimary
  <2> DEFINE v == primary[1]
             q == primary[2]
             s == <<v, suggestion>>
  <2>1. /\ TypeOK /\ stage = "offer" /\ chosen = v
        /\ First(primary, Combos(passed))
        /\ suggestion \in DOMAIN safePoints /\ Suggests(v, suggestion)
    BY <1>1 DEF IInv, Unanswered, Decided, Winners, Suggestions
  <2>2. primary = <<v, q>> /\ v \in passed /\ q \in DOMAIN safePoints \cup {NoPoint}
    BY <2>1 DEF First, Combos
  <2>3. /\ Clear(suggestion)
        /\ First(s, {v} \X DOMAIN safePoints)
    BY <2>1 DEF Suggests
  <2>4. SUFFICES ASSUME q # suggestion
                 PROVE  FALSE
    BY <2>1, <2>2
  <2>5. Before(<<v, q>>, s)
    <3>1. s \in Combos(passed) \ {primary}
      BY <2>1, <2>2, <2>4 DEF Combos
    <3>q. QED
      BY <2>1, <2>2, <3>1 DEF First
  <2>6. CASE q = NoPoint
    <3>1. Weight * Safety(NoPoint) <= Weight * Safety(suggestion)
      BY <2>1, <2>2, <2>3, ClearIsSafe, WeightIsMonotone, Scores
    <3>2. Total(s) >= Total(<<v, q>>)
      BY <2>1, <2>2, <2>6, <3>1, Scores
    <3>3. Total(s) \in Int /\ Total(<<v, q>>) \in Int /\ v \in Nat
      BY <2>1, <2>2, Scores, PolicyAssumption DEF TypeOK
    <3>q. QED
      BY <2>5, <2>6, <3>2, <3>3 DEF Before, PointBefore
  <2>7. CASE q # NoPoint
    <3>1. <<v, q>> \in ({v} \X DOMAIN safePoints) \ {s}
      BY <2>2, <2>4, <2>7
    <3>2. Before(s, <<v, q>>)
      BY <2>3, <3>1 DEF First
    <3>q. QED
      BY <2>1, <2>2, <2>5, <2>7, <3>2, BeforeIsAsymmetric
  <2>q. QED
    BY <2>6, <2>7
<1>q. QED
  BY <1>1, Inductive, PTL

(* The vehicle that comes is the one that would come if there were no safe *)
(* point: a suggestion costs the rider no other vehicle.                   *)
THEOREM VehicleIgnoresPoints == Spec => []PointsDoNotChooseVehicle
<1>1. ASSUME IInv
      PROVE  PointsDoNotChooseVehicle
  <2> SUFFICES ASSUME stage = "offer", NEW w \in passed \ {chosen}
               PROVE  Before(<<chosen, NoPoint>>, <<w, NoPoint>>)
    BY DEF PointsDoNotChooseVehicle
  <2> DEFINE q == primary[2]
  <2>1. /\ TypeOK /\ chosen = primary[1]
        /\ First(primary, Combos(passed))
    BY <1>1 DEF IInv, Decided, Winners
  <2>2. /\ primary = <<chosen, q>> /\ chosen \in passed
        /\ q \in DOMAIN safePoints \cup {NoPoint}
    BY <2>1 DEF First, Combos
  <2>3. <<w, q>> \in Combos(passed) \ {primary}
    BY <2>2 DEF Combos
  <2>4. Before(<<chosen, q>>, <<w, q>>)
    BY <2>1, <2>2, <2>3 DEF First
  <2>5. /\ base[chosen] \in Int /\ base[w] \in Int
        /\ Weight * Safety(q) \in Nat /\ Weight * Safety(NoPoint) \in Nat
        /\ Total(<<chosen, q>>) = base[chosen] + Weight * Safety(q)
        /\ Total(<<w, q>>) = base[w] + Weight * Safety(q)
        /\ Total(<<chosen, NoPoint>>) = base[chosen] + Weight * Safety(NoPoint)
        /\ Total(<<w, NoPoint>>) = base[w] + Weight * Safety(NoPoint)
    BY <2>1, <2>2, Scores
  <2>q. QED
    BY <2>4, <2>5 DEF Before
<1>q. QED
  BY <1>1, Inductive, PTL

(* What the non-atomic read of the fleet says of a vehicle was true of it  *)
(* while the search that led to its assignment went on.                    *)
THEOREM AssignmentsAreFit == Spec => []AssignedWasFit
<1>1. ASSUME IInv
      PROVE  AssignedWasFit
  <2> SUFFICES ASSUME chosen # NoVehicle
               PROVE  \E h \in held[chosen], d \in been[chosen] :
                          /\ h # NoHash /\ d <= CandidateRadius
                          /\ Operational(h) /\ h.eligible
                          /\ IF degraded THEN Viable(h) ELSE Passes(h, d)
    BY DEF AssignedWasFit
  <2>1. stage \in {"offer", "fallback"}
    BY <1>1 DEF IInv, Unanswered
  <2>2. ASSUME chosen \in DOMAIN near, DOMAIN read = DOMAIN near
        PROVE  /\ read[chosen] \in held[chosen]
               /\ near[chosen] \in been[chosen] /\ near[chosen] <= CandidateRadius
    BY <1>1, <2>2 DEF IInv, TypeOK, Reading
  <2>3. CASE stage = "offer"
    <3>1. ~degraded /\ DOMAIN read = DOMAIN near /\ chosen \in Filtered
      BY <1>1, <2>3 DEF IInv, Scored, Decided, Winners, First, Combos
    <3>q. QED
      BY <2>2, <3>1 DEF Filtered, Passes
  <2>4. CASE stage = "fallback"
    <3>1. degraded /\ DOMAIN read = DOMAIN near /\ chosen \in ViableFound
      BY <1>1, <2>4 DEF IInv, Picked, Picks
    <3>q. QED
      BY <2>2, <3>1 DEF ViableFound, Viable
  <2>q. QED
    BY <2>1, <2>3, <2>4
<1>q. QED
  BY <1>1, Inductive, PTL

(* A vehicle that was fit all along is left out, of the scoring or by a    *)
(* 422, only behind MaxFound others that were no farther away; and the     *)
(* fallback's choice is never farther away than it was.                    *)
THEOREM EveryFitVehicleCounts == Spec => []NobodyOverlooked
<1>1. ASSUME IInv
      PROVE  NobodyOverlooked
  <2> SUFFICES ASSUME NEW v \in Vehicles, Usable(v)
               PROVE  /\ stage = "offer" /\ FitThroughout(v) => v \in passed \/ Crowded(v)
                      /\ stage = "fallback" /\ ViableThroughout(v) =>
                             \E d \in been[v] : near[chosen] <= d
                      /\ stage = "unavailable" /\ ViableThroughout(v) => Crowded(v)
    BY DEF NobodyOverlooked, FitThroughout, ViableThroughout
  <2>1. stage # "search" => v \in DOMAIN near \/ Crowded(v)
    BY <1>1 DEF IInv, Usable, Covered
  <2>2. v \in DOMAIN near => near[v] \in been[v]
    BY <1>1 DEF IInv, Reading
  <2>3. v \in DOMAIN read => read[v] \in held[v] /\ read[v] # NoHash
    BY <1>1 DEF IInv, Usable, Reading
  <2>4. stage = "offer" /\ FitThroughout(v) => v \in passed \/ Crowded(v)
    BY <1>1, <2>1, <2>2, <2>3 DEF IInv, Scored, Filtered, FitThroughout
  <2>5. ASSUME stage = "fallback", ViableThroughout(v)
        PROVE  \E d \in been[v] : near[chosen] <= d
    <3>1. DOMAIN read = DOMAIN near /\ Picks(chosen)
      BY <1>1, <2>5 DEF IInv, Picked
    <3>2. CASE v \in DOMAIN near
      BY <2>2, <2>3, <2>5, <3>1, <3>2 DEF Picks, ViableFound, ViableThroughout
    <3>3. CASE Crowded(v)
      BY <3>1, <3>3 DEF Picks, ViableFound, Crowded
    <3>q. QED
      BY <2>1, <2>5, <3>2, <3>3
  <2>6. stage = "unavailable" /\ ViableThroughout(v) => Crowded(v)
    BY <1>1, <2>1, <2>3 DEF IInv, Unserved, ViableFound, ViableThroughout
  <2>q. QED
    BY <2>4, <2>5, <2>6
<1>q. QED
  BY <1>1, Inductive, PTL

----------------------------------------------------------------------------
(* A nonempty set of numbers has a least one. *)
LEMMA LeastNumber ==
    ASSUME NEW T \in SUBSET Nat, T # {}
    PROVE  \E n \in T : \A m \in T : n <= m
<1> DEFINE R == OpToRel(<, Nat)
<1>1. IsWellFoundedOn(R, Nat)
  BY NatLessThanWellFounded
<1>2. PICK n \in T : \A m \in T : ~ (<<m, n>> \in R)
  <2> HIDE DEF R
  <2>q. QED
    BY <1>1, WFMin
<1>3. ASSUME NEW m \in T
      PROVE  n <= m
  <2>1. <<m, n>> \in Nat \X Nat /\ <<m, n>> \notin R
    BY <1>2
  <2>q. QED
    BY <2>1 DEF OpToRel
<1>q. QED
  BY <1>3

(* Ranking the safe points for one vehicle leaves no two of them level.    *)
LEMMA BeforeIsTotal ==
    ASSUME TypeOK, NEW v \in passed,
           NEW p \in DOMAIN safePoints, NEW q \in DOMAIN safePoints, p # q
    PROVE  Before(<<v, p>>, <<v, q>>) \/ Before(<<v, q>>, <<v, p>>)
<1>1. Total(<<v, p>>) \in Int /\ Total(<<v, q>>) \in Int
  BY Scores
<1>2. p \in Nat /\ q \in Nat /\ p # NoPoint /\ q # NoPoint
  BY SafePointOK
<1>q. QED
  BY <1>1, <1>2 DEF Before, PointBefore

LEMMA BeforeIsTransitive ==
    ASSUME TypeOK, NEW v \in passed,
           NEW p \in DOMAIN safePoints, NEW q \in DOMAIN safePoints, NEW r \in DOMAIN safePoints,
           Before(<<v, p>>, <<v, q>>), Before(<<v, q>>, <<v, r>>)
    PROVE  Before(<<v, p>>, <<v, r>>)
<1>1. Total(<<v, p>>) \in Int /\ Total(<<v, q>>) \in Int /\ Total(<<v, r>>) \in Int
  BY Scores
<1>2. /\ p \in Nat /\ q \in Nat /\ r \in Nat
      /\ p # NoPoint /\ q # NoPoint /\ r # NoPoint
  BY SafePointOK
<1>3. v \in Nat
  BY PolicyAssumption DEF TypeOK
<1>q. QED
  BY <1>1, <1>2, <1>3 DEF Before, PointBefore

(* So one of them comes first: the one with the fewest before it.          *)
LEMMA SomePointIsFirst ==
    ASSUME TypeOK, NEW v \in passed, DOMAIN safePoints # {}
    PROVE  \E p \in DOMAIN safePoints : First(<<v, p>>, {v} \X DOMAIN safePoints)
<1> DEFINE D == DOMAIN safePoints
           Ahead(p) == {q \in D : Before(<<v, q>>, <<v, p>>)}
<1>1. IsFiniteSet(D)
  BY SafePointOK, CatalogueAssumption, FS_Subset
<1>2. ASSUME NEW p \in D
      PROVE  IsFiniteSet(Ahead(p)) /\ Cardinality(Ahead(p)) \in Nat
  BY <1>1, FS_Subset, FS_CardinalityType
<1>3. PICK p \in D : \A q \in D : Cardinality(Ahead(p)) <= Cardinality(Ahead(q))
  <2> DEFINE Counts == {Cardinality(Ahead(q)) : q \in D}
  <2>1. Counts \in SUBSET Nat /\ Counts # {}
    BY <1>2
  <2> HIDE DEF Counts
  <2>2. PICK n \in Counts : \A m \in Counts : n <= m
    BY <2>1, LeastNumber
  <2>q. QED
    BY <2>2 DEF Counts
<1>4. SUFFICES ASSUME NEW q \in D, q # p, ~Before(<<v, p>>, <<v, q>>)
               PROVE  FALSE
  <2>1. \A j \in ({v} \X D) \ {<<v, p>>} : \E q \in D \ {p} : j = <<v, q>>
    OBVIOUS
  <2>2. \A j \in ({v} \X D) \ {<<v, p>>} : Before(<<v, p>>, j)
    BY <1>4, <2>1
  <2>3. <<v, p>> \in {v} \X D
    OBVIOUS
  <2>q. QED
    BY <2>2, <2>3 DEF First
<1>5. Before(<<v, q>>, <<v, p>>)
  BY <1>4, BeforeIsTotal
<1>6. Ahead(q) \subseteq Ahead(p)
  BY <1>5, BeforeIsTransitive
<1>7. q \in Ahead(p) /\ q \notin Ahead(q)
  BY <1>5, BeforeIsAsymmetric
<1>8. Cardinality(Ahead(q)) < Cardinality(Ahead(p))
  <2> HIDE DEF Ahead
  <2>q. QED
    BY <1>2, <1>6, <1>7, FS_Subset
<1>q. QED
  BY <1>2, <1>3, <1>8

(* With safety weighted, ahead means at least as safe. *)
LEMMA AheadIsSafer ==
    ASSUME TypeOK, NEW v \in passed, Weight > 0,
           NEW p \in DOMAIN safePoints, NEW q \in DOMAIN safePoints,
           Before(<<v, p>>, <<v, q>>)
    PROVE  safePoints[q].safety <= safePoints[p].safety
<1>1. /\ Safety(p) = safePoints[p].safety /\ Safety(p) \in Nat
      /\ Safety(q) = safePoints[q].safety /\ Safety(q) \in Nat
  BY SafePointOK DEF Safety
<1>2. Weight * Safety(q) <= Weight * Safety(p)
  <2>1. Total(<<v, p>>) >= Total(<<v, q>>)
    BY Scores DEF Before
  <2>q. QED
    BY <2>1, Scores
<1>3. SUFFICES ASSUME Safety(p) + 1 <= Safety(q)
               PROVE  FALSE
  BY <1>1
<1>4. Weight * (Safety(p) + 1) <= Weight * Safety(q)
  BY <1>1, <1>3, WeightIsMonotone
<1>5. Weight * (Safety(p) + 1) = Weight * Safety(p) + Weight
  BY <1>1, PolicyAssumption
<1>6. Weight \in Nat /\ Weight * Safety(p) \in Nat /\ Weight * Safety(q) \in Nat
  BY Scores, PolicyAssumption
<1>q. QED
  BY <1>2, <1>4, <1>5, <1>6

(* Over a baseline, a clear improvement is what the threshold says. *)
LEMMA ImprovesIsClearlySafer ==
    ASSUME TypeOK, NEW p \in DOMAIN safePoints, Baseline > 0
    PROVE  Improves(p) <=> ClearlySafer(p)
<1>1. safePoints[p].safety \in Nat /\ Baseline \in Nat /\ Threshold \in Nat
  BY SafePointOK, PolicyAssumption
<1>2. Baseline * (100 + Threshold) = Baseline * 100 + Threshold * Baseline
  BY <1>1
<1>3. Threshold * Baseline \in Nat
  BY <1>1
<1>q. QED
  BY <1>1, <1>2, <1>3 DEF Improves, ClearlySafer

(* With safety weighted and every walk within the radius, a suggestion is  *)
(* made exactly when some safe point is safer by the threshold, and it is  *)
(* then the safest: looking at the best total alone misses none.           *)
THEOREM NoSuggestionMissed == Spec => []NoClearSuggestionMissed
<1>1. ASSUME IInv
      PROVE  NoClearSuggestionMissed
  <2> SUFFICES ASSUME stage = "offer", Weight > 0, Baseline > 0,
                      \A p \in DOMAIN safePoints : safePoints[p].walking <= SafePointRadius
               PROVE  /\ suggestion # NoPoint <=> \E p \in DOMAIN safePoints : ClearlySafer(p)
                      /\ suggestion # NoPoint => \A p \in DOMAIN safePoints :
                             safePoints[p].safety <= safePoints[suggestion].safety
    BY DEF NoClearSuggestionMissed
  <2> DEFINE best(p) == First(<<chosen, p>>, {chosen} \X DOMAIN safePoints)
  <2>1. /\ TypeOK /\ chosen \in passed
        /\ suggestion \in DOMAIN safePoints \cup {NoPoint} /\ Suggests(chosen, suggestion)
    BY <1>1 DEF IInv, Decided, Winners, Suggestions, First, Combos
  <2>2. \A p \in DOMAIN safePoints : Clear(p) <=> ClearlySafer(p)
    BY <2>1, ImprovesIsClearlySafer DEF Clear
  <2>3. ASSUME NEW p \in DOMAIN safePoints, best(p), NEW q \in DOMAIN safePoints
        PROVE  safePoints[q].safety <= safePoints[p].safety
    <3>1. CASE q = p
      BY <2>1, <3>1, SafePointOK
    <3>2. CASE q # p
      <4>1. <<chosen, q>> \in ({chosen} \X DOMAIN safePoints) \ {<<chosen, p>>}
        BY <3>2
      <4>2. Before(<<chosen, p>>, <<chosen, q>>)
        BY <2>3, <4>1 DEF First
      <4>q. QED
        BY <2>1, <4>2, AheadIsSafer
    <3>q. QED
      BY <3>1, <3>2
  <2>4. CASE suggestion # NoPoint
    <3>1. suggestion \in DOMAIN safePoints /\ best(suggestion) /\ Clear(suggestion)
      BY <2>1, <2>4 DEF Suggests
    <3>q. QED
      BY <2>2, <2>3, <2>4, <3>1
  <2>5. CASE suggestion = NoPoint
    <3>1. SUFFICES ASSUME NEW p \in DOMAIN safePoints, ClearlySafer(p)
                   PROVE  FALSE
      BY <2>5
    <3>2. PICK q \in DOMAIN safePoints : best(q)
      BY <2>1, SomePointIsFirst
    <3>3. safePoints[p].safety <= safePoints[q].safety
      BY <2>3, <3>2
    <3>4. /\ safePoints[p].safety \in Nat /\ safePoints[q].safety \in Nat
          /\ Baseline * (100 + Threshold) \in Nat
      BY <2>1, SafePointOK, PolicyAssumption
    <3>5. ClearlySafer(q)
      BY <3>1, <3>3, <3>4 DEF ClearlySafer
    <3>q. QED
      BY <2>1, <2>2, <2>5, <3>2, <3>5 DEF Suggests
  <2>q. QED
    BY <2>4, <2>5
<1>q. QED
  BY <1>1, Inductive, PTL
=============================================================================
