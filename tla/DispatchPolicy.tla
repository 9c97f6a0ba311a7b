--------------------------- MODULE DispatchPolicy ---------------------------
(***************************************************************************)
(* Which vehicle and which point a request gets: the fleet read            *)
(* (FleetService over Redis), CandidateGenerator, CandidateFilter,         *)
(* ScoringEngine, DecisionMaker and, when the pipeline fails,              *)
(* FallbackHandler, while telemetry goes on changing the fleet.            *)
(*                                                                         *)
(* The fleet read is not atomic: GEOSEARCH gives the vehicles near the     *)
(* origin, then one HGETALL per vehicle gives the rest.  Vehicles and      *)
(* points are numbers in the order of their ids.  Distances are in km,     *)
(* rates in per cent, scores in units above the 1e-9 of the comparator.    *)
(* base[v] is what proximity, energy and continuity add to a total: they   *)
(* depend on the vehicle alone.                                            *)
(***************************************************************************)
EXTENDS Integers, FiniteSets

CONSTANTS
    Vehicles, Points,
    Hashes,        \* what fleet:vehicles:{id} may hold
    Distances,     \* from the origin to a vehicle in fleet:geo
    Curated,       \* safety score and walking distance of a safe point
    Bases,         \* values of base[v]
    NoHash, NoPoint, NoVehicle,
    CandidateRadius, MaxFound,                    \* GEOSEARCH BYRADIUS, COUNT
    TripKm, MinimumReserve, FallbackMinBattery,
    Weight,        \* weights.safety
    Baseline,      \* originalSafetyBaseline
    Threshold,     \* suggestionThresholdPct
    SafePointRadius,
    MaxUpdates     \* bound: changes of the fleet during the request

ASSUME PolicyAssumption ==
    /\ Vehicles \subseteq Nat /\ Points \subseteq Nat
    /\ NoPoint \notin Points /\ NoVehicle \notin Vehicles
    /\ Hashes \subseteq [status : STRING, eligible : BOOLEAN, autonomy : Nat,
                         battery : Nat, stale : BOOLEAN]
    /\ NoHash \notin Hashes
    /\ Distances \subseteq Nat /\ Bases \subseteq Int
    /\ Curated \subseteq [safety : Nat, walking : Nat]
    /\ {CandidateRadius, MaxFound, TripKm, MinimumReserve, FallbackMinBattery} \subseteq Nat
    /\ {Weight, Baseline, Threshold, SafePointRadius, MaxUpdates} \subseteq Nat

(* findWithin returns an array. *)
ASSUME CatalogueAssumption == IsFiniteSet(Points)

VARIABLES
    hash,        \* fleet:vehicles:{id}, or NoHash
    distance,    \* fleet:geo, as the distance of each vehicle
    stage,       \* "search", "read", "decide", "offer", "fallback", "unavailable"
    degraded,    \* the pipeline failed and the fallback runs
    near,        \* the vehicles GEOSEARCH found, with their distances
    read,        \* the hashes read so far
    passed,      \* the vehicles that passed the filter
    safePoints,  \* what findWithin returned, a function on some points
    base,        \* see above, a function on passed
    primary,     \* the winning <<vehicle, point>> combo
    suggestion,  \* the point suggested, or NoPoint
    chosen,      \* the vehicle of the answer, or NoVehicle
    updates,     \* changes of the fleet so far
    held, been   \* history: the hashes and the distances each vehicle has had since
                 \* the pipeline, or the fallback, began

fleet == <<hash, distance, updates, held, been>>
answer == <<primary, suggestion, chosen>>
vars == <<hash, distance, stage, degraded, near, read, passed, safePoints, base,
          primary, suggestion, chosen, updates, held, been>>

Empty == [x \in {} |-> 0]
NoCombo == <<NoVehicle, NoPoint>>

Init ==
    /\ hash \in [Vehicles -> Hashes \cup {NoHash}]
    /\ distance \in [Vehicles -> Distances]
    /\ stage = "search" /\ degraded = FALSE
    /\ near = Empty /\ read = Empty /\ passed = {}
    /\ safePoints = Empty /\ base = Empty
    /\ primary = NoCombo /\ suggestion = NoPoint /\ chosen = NoVehicle
    /\ updates = 0
    /\ held = [v \in Vehicles |-> {hash[v]}]
    /\ been = [v \in Vehicles |-> {distance[v]}]

----------------------------------------------------------------------------
(* External: a vehicle's hash is written, or it moves.  A change while     *)
(* nothing is being read is one before the next read.                      *)
Changes ==
    /\ updates < MaxUpdates
    /\ stage \in {"search", "read"}
    /\ updates' = updates + 1
    /\ UNCHANGED <<stage, degraded, near, read, passed, safePoints, base, answer>>

Telemetry(v, h) ==
    /\ h # hash[v]
    /\ hash' = [hash EXCEPT ![v] = h]
    /\ held' = [held EXCEPT ![v] = @ \cup {h}]
    /\ Changes
    /\ UNCHANGED <<distance, been>>

Move(v, d) ==
    /\ d # distance[v]
    /\ distance' = [distance EXCEPT ![v] = d]
    /\ been' = [been EXCEPT ![v] = @ \cup {d}]
    /\ Changes
    /\ UNCHANGED <<hash, held>>

----------------------------------------------------------------------------
(* findCandidatesInRadius: the nearest MaxFound of the vehicles in radius. *)
(* The mutant takes any MaxFound of them, as COUNT 100 ANY does.           *)
InRadius == {v \in Vehicles : distance[v] <= CandidateRadius}

MutantNearest(S) ==
    /\ S \subseteq InRadius
    /\ Cardinality(S) <= MaxFound
    /\ S # InRadius => Cardinality(S) = MaxFound
Nearest(S) ==
    /\ S \subseteq InRadius
    /\ Cardinality(S) <= MaxFound
    /\ S # InRadius => Cardinality(S) = MaxFound
    /\ \A v \in S, w \in InRadius \ S : distance[v] <= distance[w]

(* The mutant keeps the metres the adapter converts to. *)
MutantGeoSearch(S) ==
    /\ stage = "search"
    /\ Nearest(S)
    /\ near' = [v \in S |-> distance[v] * 1000]
    /\ read' = Empty
    /\ stage' = "read"
    /\ UNCHANGED <<fleet, degraded, passed, safePoints, base, answer>>
GeoSearch(S) ==
    /\ stage = "search"
    /\ Nearest(S)
    /\ near' = [v \in S |-> distance[v]]
    /\ read' = Empty
    /\ stage' = "read"
    /\ UNCHANGED <<fleet, degraded, passed, safePoints, base, answer>>

ReadHash(v) ==
    /\ stage = "read"
    /\ v \in DOMAIN near \ DOMAIN read
    /\ read' = [w \in DOMAIN read \cup {v} |-> IF w = v THEN hash[v] ELSE read[w]]
    /\ UNCHANGED <<fleet, stage, degraded, near, passed, safePoints, base, answer>>

Complete == stage = "read" /\ DOMAIN read = DOMAIN near

(* The catch block: the fallback searches the fleet again, and what the    *)
(* pipeline had found is out of scope.  The mutant hands it what was read. *)
Restart ==
    /\ degraded' = TRUE
    /\ passed' = {} /\ safePoints' = Empty /\ base' = Empty
    /\ held' = [v \in Vehicles |-> {hash[v]}]
    /\ been' = [v \in Vehicles |-> {distance[v]}]
    /\ UNCHANGED <<hash, distance, updates, answer>>

MutantEnterFallback ==
    /\ Restart
    /\ stage' = "read"
    /\ UNCHANGED <<near, read>>
EnterFallback ==
    /\ Restart
    /\ stage' = "search"
    /\ near' = Empty /\ read' = Empty

----------------------------------------------------------------------------
(* CandidateGenerator's reading of the status, and the rules of            *)
(* CandidateFilter.  The mutant is the filter before rule 1.5.             *)
Operational(h) == h.status \in {"available", "in_service"}

MutantPasses(h, d) ==
    /\ h.status # "out_of_service"
    /\ h.eligible
    /\ h.autonomy * 100 >= (TripKm + d) * (100 + MinimumReserve)
    /\ ~h.stale
Passes(h, d) ==
    /\ Operational(h)
    /\ h.eligible
    /\ h.autonomy * 100 >= (TripKm + d) * (100 + MinimumReserve)
    /\ ~h.stale

Filtered == {v \in DOMAIN read : read[v] # NoHash /\ Passes(read[v], near[v])}

(* Phases 1 and 2 end, findWithin having returned P, and phase 3 scores    *)
(* every combo.                                                            *)
Score(P, b) ==
    /\ Complete /\ ~degraded /\ Filtered # {}
    /\ passed' = Filtered
    /\ safePoints' = P
    /\ base' = b
    /\ stage' = "decide"
    /\ UNCHANGED <<fleet, degraded, near, read, answer>>

FilterLeavesNobody == Complete /\ ~degraded /\ Filtered = {} /\ EnterFallback

(* A query rejects, or the abort signal stops the pipeline. *)
PipelineFails ==
    /\ ~degraded /\ stage \in {"search", "read", "decide"}
    /\ EnterFallback

----------------------------------------------------------------------------
(* The matrix of runPipeline, and the totals of ScoringEngine.  The mutant *)
(* combines the safe points with the first vehicle only.                   *)
MutantCombos(V) ==
    {k \in V \X (DOMAIN safePoints \cup {NoPoint}) :
        k[2] = NoPoint \/ \A v \in V : k[1] <= v}
Combos(V) == V \X (DOMAIN safePoints \cup {NoPoint})

Safety(p) == IF p = NoPoint THEN Baseline ELSE safePoints[p].safety
Total(k) == base[k[1]] + Weight * Safety(k[2])

(* The order of tiebreak: null sorts last. *)
PointBefore(p, q) == p # NoPoint /\ (q = NoPoint \/ p < q)

Before(j, k) ==
    \/ Total(j) > Total(k)
    \/ Total(j) = Total(k) /\ j[1] < k[1]
    \/ Total(j) = Total(k) /\ j[1] = k[1] /\ PointBefore(j[2], k[2])

First(k, S) == k \in S /\ \A j \in S \ {k} : Before(k, j)

(* A clear improvement within walking distance.  Dividing by a baseline    *)
(* of 0 gives Infinity, or NaN, which is below every threshold.  The       *)
(* mutant wants more than the threshold.                                   *)
MutantImproves(p) == (safePoints[p].safety - Baseline) * 100 > Threshold * Baseline
Improves(p) ==
    LET gain == safePoints[p].safety - Baseline
    IN  IF Baseline = 0 THEN gain > 0 ELSE gain * 100 >= Threshold * Baseline

Clear(p) == Improves(p) /\ safePoints[p].walking <= SafePointRadius

(* The suggestion for the winning vehicle: the first of its safe points,   *)
(* or none, whatever the others are like.  The mutant takes the first id   *)
(* that is clear.                                                          *)
MutantSuggests(v, p) ==
    IF p = NoPoint THEN \A q \in DOMAIN safePoints : ~Clear(q)
    ELSE Clear(p) /\ \A q \in DOMAIN safePoints : Clear(q) => p <= q
Suggests(v, p) ==
    LET best(q) == First(<<v, q>>, {v} \X DOMAIN safePoints)
    IN  IF p = NoPoint THEN \A q \in DOMAIN safePoints : best(q) => ~Clear(q)
                       ELSE best(p) /\ Clear(p)

Winners == {k \in Combos(passed) : First(k, Combos(passed))}
Suggestions(v) == {p \in DOMAIN safePoints \cup {NoPoint} : Suggests(v, p)}

Decide(k, p) ==
    /\ stage = "decide"
    /\ k \in Winners
    /\ p \in Suggestions(k[1])
    /\ primary' = k
    /\ suggestion' = p
    /\ chosen' = k[1]
    /\ stage' = "offer"
    /\ UNCHANGED <<fleet, degraded, near, read, passed, safePoints, base>>

----------------------------------------------------------------------------
(* FallbackHandler.  Telemetry and autonomy are not looked at. *)
Viable(h) == h.battery >= FallbackMinBattery /\ h.eligible /\ Operational(h)

ViableFound == {v \in DOMAIN read : read[v] # NoHash /\ Viable(read[v])}

Picks(v) == v \in ViableFound /\ \A w \in ViableFound : near[v] <= near[w]

FallbackPicks(v) ==
    /\ Complete /\ degraded
    /\ Picks(v)
    /\ chosen' = v
    /\ stage' = "fallback"
    /\ UNCHANGED <<fleet, degraded, near, read, passed, safePoints, base, primary, suggestion>>

NoAvailability ==
    /\ Complete /\ degraded /\ ViableFound = {}
    /\ stage' = "unavailable"
    /\ UNCHANGED <<fleet, degraded, near, read, passed, safePoints, base, answer>>

Catalogues == UNION {[S -> Curated] : S \in SUBSET Points}

Next ==
    \/ \E v \in Vehicles, h \in Hashes \cup {NoHash} : Telemetry(v, h)
    \/ \E v \in Vehicles, d \in Distances : Move(v, d)
    \/ \E S \in SUBSET Vehicles : GeoSearch(S)
    \/ \E v \in Vehicles : ReadHash(v)
    \/ \E P \in Catalogues, b \in [Filtered -> Bases] : Score(P, b)
    \/ FilterLeavesNobody \/ PipelineFails
    \/ \E k \in Combos(passed), p \in Points \cup {NoPoint} : Decide(k, p)
    \/ \E v \in Vehicles : FallbackPicks(v)
    \/ NoAvailability

Spec == Init /\ [][Next]_vars

----------------------------------------------------------------------------
TypeOK ==
    /\ hash \in [Vehicles -> Hashes \cup {NoHash}]
    /\ distance \in [Vehicles -> Distances]
    /\ stage \in {"search", "read", "decide", "offer", "fallback", "unavailable"}
    /\ degraded \in BOOLEAN
    /\ DOMAIN near \subseteq Vehicles /\ \A v \in DOMAIN near : near[v] \in Distances
    /\ DOMAIN read \subseteq DOMAIN near
    /\ \A v \in DOMAIN read : read[v] \in Hashes \cup {NoHash}
    /\ passed \subseteq Vehicles
    /\ safePoints \in Catalogues
    /\ base \in [passed -> Bases]
    /\ primary \in (Vehicles \cup {NoVehicle}) \X (Points \cup {NoPoint})
    /\ suggestion \in Points \cup {NoPoint}
    /\ chosen \in Vehicles \cup {NoVehicle}
    /\ updates \in 0..MaxUpdates
    /\ held \in [Vehicles -> SUBSET (Hashes \cup {NoHash})]
    /\ been \in [Vehicles -> SUBSET Distances]

(* A suggested point is the winning combo's own, which runPipeline takes   *)
(* for granted: it reports primary.safety as the suggestion's.             *)
SuggestionIsPrimary ==
    suggestion # NoPoint => primary = <<chosen, suggestion>>

(* Safe points never decide which vehicle comes: the winner is the vehicle *)
(* that would win with no safe point at all.                               *)
PointsDoNotChooseVehicle ==
    stage = "offer" => \A v \in passed \ {chosen} : Before(<<chosen, NoPoint>>, <<v, NoPoint>>)

(* With safety weighted and every walk within the radius, a suggestion is  *)
(* made exactly when some safe point is safer by the threshold, and it is  *)
(* then the safest, though only the best total is ever looked at.          *)
ClearlySafer(p) == safePoints[p].safety * 100 >= Baseline * (100 + Threshold)

NoClearSuggestionMissed ==
    /\ stage = "offer" /\ Weight > 0 /\ Baseline > 0
    /\ \A p \in DOMAIN safePoints : safePoints[p].walking <= SafePointRadius
    => /\ suggestion # NoPoint <=> \E p \in DOMAIN safePoints : ClearlySafer(p)
       /\ suggestion # NoPoint => \A p \in DOMAIN safePoints :
              safePoints[p].safety <= safePoints[suggestion].safety

(* A vehicle is only assigned on what it was while it was looked at: a     *)
(* torn read may pair a place it has left with a state it took on later,   *)
(* but neither is invented or left over from the failed pipeline, and one  *)
(* that did not change is fit as it stands.                                *)
AssignedWasFit ==
    chosen # NoVehicle => \E h \in held[chosen], d \in been[chosen] :
        /\ h # NoHash /\ d <= CandidateRadius
        /\ Operational(h) /\ h.eligible
        /\ IF degraded THEN Viable(h) ELSE Passes(h, d)

(* Conversely, a vehicle that was fit all along, through whatever changes, *)
(* is scored, is no nearer than the fallback's choice, and rules out a     *)
(* 422: unless MaxFound others, fit or not, stood no farther away.         *)
Usable(v) == NoHash \notin held[v] /\ \A d \in been[v] : d <= CandidateRadius
FitThroughout(v) == Usable(v) /\ \A h \in held[v], d \in been[v] : Passes(h, d)
ViableThroughout(v) == Usable(v) /\ \A h \in held[v] : Viable(h)

Crowded(v) ==
    /\ Cardinality(DOMAIN near) = MaxFound
    /\ \E d \in been[v] : \A w \in DOMAIN near : near[w] <= d

NobodyOverlooked ==
    \A v \in Vehicles :
        /\ stage = "offer" /\ FitThroughout(v) => v \in passed \/ Crowded(v)
        /\ stage = "fallback" /\ ViableThroughout(v) =>
               \E d \in been[v] : near[chosen] <= d
        /\ stage = "unavailable" /\ ViableThroughout(v) => Crowded(v)

(* "a menos que coincida con un punto del catalogo curado": an origin that *)
(* is itself a safe point has that point's score, so what is suggested is  *)
(* clearly safer than it.                                                  *)
CuratedOriginKeepsItsScore ==
    suggestion # NoPoint => \A p \in DOMAIN safePoints : safePoints[p].walking = 0 =>
        safePoints[suggestion].safety * 100 >= safePoints[p].safety * (100 + Threshold)
=============================================================================
