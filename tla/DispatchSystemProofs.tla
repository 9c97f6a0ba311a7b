------------------------ MODULE DispatchSystemProofs ------------------------
(***************************************************************************)
(* Theorems about DispatchSystem: each component, beside the other, is     *)
(* still the component its own proofs are about, and so keeps its promise; *)
(* and what the two components say together that neither says alone.       *)
(***************************************************************************)
EXTENDS DispatchSystem, ConfirmDispatchProofs

(* The proofs about SafePoints, for the catalogue of this system. *)
Proved == INSTANCE SafePointsProofs WITH
    Calls <- Changes, suggested <- Suggested,
    input <- changeInput, pc <- changePc, staged <- changeStaged, reply <- changeReply

----------------------------------------------------------------------------
(* Every step of the system is one step of a confirmation or of an offer   *)
(* being stored, or changes nothing they keep.                             *)
LEMMA ConfirmationsStep == [SystemNext]_systemVars => [Next]_vars
<1> SUFFICES ASSUME SystemNext
             PROVE  Next \/ UNCHANGED vars
  BY DEF systemVars
<1>1. ASSUME NEW r \in Requests, NEW o \in Offers, StoreOffer(r, o)
      PROVE  Next
  BY <1>1 DEF StoreOffer, Next
<1>2. ASSUME NEW c \in Calls,
             Confirm(c) \/ ConfirmArrivesOrFails(c) \/ ConfirmLosesDeadlock(c)
      PROVE  Next
  BY <1>2 DEF Confirm, ConfirmArrivesOrFails, ConfirmLosesDeadlock, Next, Step
<1>3. ASSUME NEW d \in Changes,
             \/ Change(d) \/ CheckFindsUnlocked(d) \/ ChangeArrivesOrFails(d)
             \/ ChangeLosesDeadlock(d)
      PROVE  UNCHANGED vars
  BY <1>3 DEF Change, CheckFindsUnlocked, ChangeArrivesOrFails, ChangeLosesDeadlock
<1>4. CASE ProcessCrash
  BY <1>4 DEF ProcessCrash, Next
<1>q. QED
  BY <1>1, <1>2, <1>3, <1>4 DEF SystemNext

(* Beside the catalogue, a confirmation does what ConfirmDispatch says:    *)
(* shared connections, foreign keys and deadlocks only delay or fail it.   *)
THEOREM ConfirmationsAlone == SystemSpec => Spec
<1>1. SystemInit => Init
  BY DEF SystemInit
<1>q. QED
  BY <1>1, ConfirmationsStep, PTL DEF SystemSpec, Spec

----------------------------------------------------------------------------
(* The suggested points are a function of the offers alone. *)
LEMMA SuggestedKept == UNCHANGED offer => UNCHANGED Suggested
  BY DEF Suggested

LEMMA StoreOfferStep ==
    ASSUME NEW r \in Requests, NEW o \in Offers, StoreOffer(r, o)
    PROVE  Catalogue!Next \/ UNCHANGED Catalogue!vars
<1>1. CASE o.point = NoPoint
  <2>1. UNCHANGED Suggested
    BY <1>1, AbsentAssumption DEF StoreOffer, SavePreliminary, Suggested
  <2>q. QED
    BY <1>1, <2>1 DEF StoreOffer, catalogueVars, changeVars, Catalogue!vars
<1>2. CASE o.point # NoPoint
  <2>1. o.point \in Points
    BY <1>2 DEF Offers
  <2>q. QED
    BY <1>2, <2>1 DEF StoreOffer, Catalogue!Next
<1>q. QED
  BY <1>1, <1>2

(* Every step of the system is one step of the catalogue, in which storing *)
(* an offer is Offer, or changes nothing that it keeps.                    *)
LEMMA CatalogueStep == [SystemNext]_systemVars => [Catalogue!Next]_(Catalogue!vars)
<1> SUFFICES ASSUME [SystemNext]_systemVars
             PROVE  Catalogue!Next \/ UNCHANGED Catalogue!vars
  OBVIOUS
<1>1. ASSUME UNCHANGED <<offer, catalogueVars>>
      PROVE  UNCHANGED Catalogue!vars
  BY <1>1, SuggestedKept DEF catalogueVars, changeVars, Catalogue!vars
<1>2. ASSUME NEW r \in Requests, NEW o \in Offers, StoreOffer(r, o)
      PROVE  Catalogue!Next \/ UNCHANGED Catalogue!vars
  BY <1>2, StoreOfferStep
<1>3. ASSUME NEW c \in Calls,
             Confirm(c) \/ ConfirmArrivesOrFails(c) \/ ConfirmLosesDeadlock(c)
      PROVE  UNCHANGED <<offer, catalogueVars>>
  BY <1>3 DEF Confirm, ConfirmArrivesOrFails, ConfirmLosesDeadlock, rowVars, callVars,
     ReadDecision, BeginTransaction, LockDecision, CreateMinimum, UpdateDecision, Commit,
     Rollback, Emit, Call, CommitUnacknowledged, QueryFails
<1>4. ASSUME NEW d \in Changes,
             \/ Change(d) \/ CheckFindsUnlocked(d) \/ ChangeArrivesOrFails(d)
             \/ ChangeLosesDeadlock(d)
      PROVE  Catalogue!Next
  BY <1>4, SystemAssumption DEF Change, ProceedWithChange, CheckFindsUnlocked,
     ChangeArrivesOrFails, ChangeLosesDeadlock, Catalogue!Next, Catalogue!Step
<1>5. CASE ProcessCrash
  <2>1. ASSUME Crash, UNCHANGED catalogueVars
        PROVE  UNCHANGED <<offer, catalogueVars>>
    BY <2>1 DEF Crash, rowVars
  <2>q. QED
    BY <1>1, <1>5, <2>1 DEF ProcessCrash, Catalogue!Next
<1>6. CASE UNCHANGED systemVars
  BY <1>1, <1>6 DEF systemVars, vars
<1>q. QED
  BY <1>1, <1>2, <1>3, <1>4, <1>5, <1>6 DEF SystemNext

(* Beside confirmations and offers, the catalogue does what SafePoints     *)
(* says.                                                                   *)
THEOREM CatalogueIsAlone == SystemSpec => CatalogueAlone
<1>1. SystemInit => Catalogue!Init
  BY DEF SystemInit
<1>q. QED
  BY <1>1, CatalogueStep, PTL DEF SystemSpec, CatalogueAlone, Catalogue!Spec

----------------------------------------------------------------------------
(* What the proofs about SafePoints assume of its constants. *)
LEMMA CatalogueAssumptions ==
    /\ NoPoint \notin Points
    /\ Unset \notin Data \cup {"active", "inactive"}
    /\ PoolSize \in Nat \ {0}
    /\ NoRow \notin Proved!Rows
  BY ConfirmAssumption, SystemAssumption DEF Catalogue!Rows, Catalogue!Statuses,
     Proved!Rows, Proved!Statuses

(* SafePointsProofs extends SafePoints, and means by each name the same.   *)
LEMMA SameInit == Catalogue!Init => Proved!Init
  BY DEF Catalogue!Init, Catalogue!NoInput, Proved!Init, Proved!NoInput

(* Each action, and what it is built from. *)
LEMMA SameLocks ==
    ASSUME NEW c \in Changes, NEW m
    PROVE  /\ Catalogue!Granted(c, m) = Proved!Granted(c, m)
           /\ Catalogue!Lock(c, m) = Proved!Lock(c, m)
  BY DEF Catalogue!Granted, Catalogue!Blocks, Catalogue!Compatible,
     Catalogue!Point, Catalogue!Lock, Proved!Granted, Proved!Blocks,
     Proved!Compatible, Proved!Point, Proved!Lock

LEMMA SameSizes == \A S : Catalogue!Cardinality(S) = Proved!Cardinality(S)
  BY DEF Catalogue!Cardinality, Proved!Cardinality

LEMMA SamePool == Catalogue!FreeConnection = Proved!FreeConnection
<1>1. \A c : Catalogue!Open(c) = Proved!Open(c)
  BY DEF Catalogue!Open, Proved!Open
<1>q. QED
  BY <1>1, SameSizes DEF Catalogue!FreeConnection, Proved!FreeConnection

LEMMA SameIds ==
    /\ \A p \in Points : Catalogue!Fresh(p) = Proved!Fresh(p)
    /\ Catalogue!IdLeft = Proved!IdLeft
<1>1. ASSUME NEW p \in Points
      PROVE  Catalogue!Fresh(p) = Proved!Fresh(p)
  BY DEF Catalogue!Fresh, Catalogue!Point, Proved!Fresh, Proved!Point
<1>2. {p \in Points : Catalogue!Fresh(p)} = {p \in Points : Proved!Fresh(p)}
  BY <1>1
<1>3. Catalogue!IdLeft = Proved!IdLeft
  BY <1>2, SameSizes DEF Catalogue!IdLeft, Catalogue!Op, Proved!IdLeft, Proved!Op
<1>q. QED
  BY <1>1, <1>3

LEMMA SameCommit ==
    ASSUME NEW c \in Changes
    PROVE  Catalogue!Commit(c) => Proved!Commit(c)
  BY DEF Catalogue!Commit, Catalogue!Audited, Catalogue!Snapshot,
     Catalogue!Unlinked, Catalogue!Unlink, Catalogue!End, Catalogue!Point,
     Catalogue!Op, Catalogue!Goto, Catalogue!Throw, Catalogue!tables,
     Proved!Commit, Proved!Audited, Proved!Snapshot, Proved!Unlinked,
     Proved!Unlink, Proved!End, Proved!Point, Proved!Op, Proved!Goto,
     Proved!Throw, Proved!tables

LEMMA SameAudit ==
    ASSUME NEW c \in Changes
    PROVE  Catalogue!WriteAudit(c) => Proved!WriteAudit(c)
  BY SameLocks DEF Catalogue!WriteAudit, Catalogue!RunnerReady,
     Catalogue!InsertAudit, Catalogue!Point, Catalogue!Op, Catalogue!Goto,
     Catalogue!Throw, Catalogue!tables, Proved!WriteAudit, Proved!RunnerReady,
     Proved!InsertAudit, Proved!Point, Proved!Op, Proved!Goto, Proved!Throw,
     Proved!tables

LEMMA SameUpdate ==
    ASSUME NEW c \in Changes
    PROVE  Catalogue!Update(c) => Proved!Update(c)
  BY SameLocks DEF Catalogue!Update, Catalogue!Updated, Catalogue!Merge,
     Catalogue!Point, Catalogue!Op, Catalogue!Goto, Catalogue!Throw,
     Catalogue!tables, Proved!Update, Proved!Updated, Proved!Merge, Proved!Point,
     Proved!Op, Proved!Goto, Proved!Throw, Proved!tables

LEMMA SameCreate ==
    ASSUME NEW c \in Changes, NEW p \in Points
    PROVE  Catalogue!Create(c, p) => Proved!Create(c, p)
  BY SameIds DEF Catalogue!Create, Catalogue!Point, Catalogue!Op, Catalogue!Goto,
     Catalogue!Throw, Catalogue!tables, Proved!Create, Proved!Point, Proved!Op,
     Proved!Goto, Proved!Throw, Proved!tables

LEMMA SameDelete ==
    ASSUME NEW c \in Changes
    PROVE  /\ Catalogue!Delete(c) => Proved!Delete(c)
           /\ Catalogue!CheckReferences(c) => Proved!CheckReferences(c)
           /\ Catalogue!DeadlockAborts(c) => Proved!DeadlockAborts(c)
  BY SameLocks DEF Catalogue!Delete, Catalogue!CheckReferences,
     Catalogue!DeadlockAborts, Catalogue!Blocks, Catalogue!Compatible,
     Catalogue!Point, Catalogue!Op, Catalogue!Goto, Catalogue!Throw,
     Catalogue!tables, Proved!Delete, Proved!CheckReferences,
     Proved!DeadlockAborts, Proved!Blocks, Proved!Compatible, Proved!Point,
     Proved!Op, Proved!Goto, Proved!Throw, Proved!tables

LEMMA SameCalls ==
    ASSUME NEW c \in Changes
    PROVE  /\ Catalogue!RequireReason(c) => Proved!RequireReason(c)
           /\ Catalogue!FindById(c) => Proved!FindById(c)
           /\ Catalogue!BeginTransaction(c) => Proved!BeginTransaction(c)
           /\ Catalogue!Rollback(c) => Proved!Rollback(c)
           /\ Catalogue!QueryFails(c) => Proved!QueryFails(c)
           /\ \A i : Catalogue!Receive(c, i) => Proved!Receive(c, i)
  BY SamePool, SameIds DEF Catalogue!RequireReason, Catalogue!FindById,
     Catalogue!BeginTransaction, Catalogue!Rollback, Catalogue!QueryFails,
     Catalogue!Receive, Catalogue!End, Catalogue!Point, Catalogue!Op,
     Catalogue!Goto, Catalogue!Throw, Catalogue!tables, Proved!RequireReason,
     Proved!FindById, Proved!BeginTransaction, Proved!Rollback, Proved!QueryFails,
     Proved!Receive, Proved!End, Proved!Point, Proved!Op, Proved!Goto,
     Proved!Throw, Proved!tables

LEMMA SameCatalogue ==
    /\ Catalogue!Crash => Proved!Crash
    /\ \A p \in Points : Catalogue!Offer(p) => Proved!Offer(p)
  BY DEF Catalogue!Crash, Catalogue!InFlight, Catalogue!Offer,
     Catalogue!Referable, Catalogue!Compatible, Catalogue!Point, Catalogue!tables,
     Proved!Crash, Proved!InFlight, Proved!Offer, Proved!Referable,
     Proved!Compatible, Proved!Point, Proved!tables

LEMMA SameSteps == [Catalogue!Next]_(Catalogue!vars) => [Proved!Next]_(Proved!vars)
<1>1. UNCHANGED Catalogue!vars => UNCHANGED Proved!vars
  BY DEF Catalogue!vars, Proved!vars
<1>2. Catalogue!Inputs = Proved!Inputs
  BY DEF Catalogue!Inputs, Catalogue!Statuses, Proved!Inputs, Proved!Statuses
<1>3. ASSUME NEW c \in Changes
      PROVE  Catalogue!Step(c) => Proved!Step(c)
  BY SameCommit, SameAudit, SameUpdate, SameCreate, SameDelete, SameCalls
     DEF Catalogue!Step, Proved!Step
<1>4. ASSUME Catalogue!Next
      PROVE  Proved!Next
  <2>1. ASSUME NEW c \in Changes,
               Catalogue!RequireReason(c) \/ Catalogue!QueryFails(c) \/ Catalogue!Step(c)
        PROVE  Proved!Next
    BY <1>3, <2>1, SameCalls DEF Proved!Next
  <2>2. ASSUME NEW c \in Changes, NEW i \in Catalogue!Inputs, Catalogue!Receive(c, i)
        PROVE  Proved!Next
    BY <1>2, <2>2, SameCalls DEF Proved!Next
  <2>3. ASSUME Catalogue!Crash \/ \E p \in Points : Catalogue!Offer(p)
        PROVE  Proved!Next
    BY <2>3, SameCatalogue DEF Proved!Next
  <2>q. QED
    BY <1>4, <2>1, <2>2, <2>3 DEF Catalogue!Next
<1>q. QED
  BY <1>1, <1>4

LEMMA SameBehaviours == Catalogue!Spec => Proved!Spec
  BY SameInit, SameSteps, PTL DEF Catalogue!Spec, Proved!Spec

----------------------------------------------------------------------------
(* The points of the trips are suggested points: a trip, staged or stored, *)
(* is the one its call asked for on a decision that is still the row.      *)
LEMMA TripPointsAreSuggested ==
    ASSUME IInv, NEW c \in Calls, NEW t \in {trips[c], staged[c]},
           t # NoTrip, t.point # NoPoint
    PROVE  t.point \in Suggested
<1>1. decision[c] # NoOffer /\ t = TripOf(c) /\ pc[c] # "idle"
  BY DEF IInv, StoredTrip, StagedTrip
<1>2. Request(c) \in Requests
  BY <1>1, InputOK
<1>3. offer[Request(c)] = decision[c]
  BY <1>1 DEF IInv, PreRead
<1>4. t.point = decision[c].point
  BY <1>1 DEF TripOf
<1>q. QED
  BY <1>1, <1>2, <1>3, <1>4 DEF Suggested

(* A point that a trip or a decision refers to is never missing, neither   *)
(* once it is stored nor while the transaction that inserts it is open: no *)
(* DELETE is committed past a foreign key, whatever locks the two          *)
(* components hold, wait for or lose.                                      *)
THEOREM TripsKeepPoints == SystemSpec => []TripsKeepTheirPoint
<1>1. SystemSpec => []IInv
  BY ConfirmationsAlone, Inductive, PTL
<1>2. Proved!Spec => []Proved!OfferedPointsExist
  BY Proved!OffersStay, CatalogueAssumptions
<1>3. SystemSpec => []Proved!OfferedPointsExist
  BY <1>2, CatalogueIsAlone, SameBehaviours, PTL DEF CatalogueAlone
<1>4. IInv /\ Proved!OfferedPointsExist => TripsKeepTheirPoint
  BY TripPointsAreSuggested DEF Proved!OfferedPointsExist, TripsKeepTheirPoint
<1>q. QED
  BY <1>1, <1>3, <1>4, PTL

(* The two promises are the same, too. *)
LEMMA SamePromisedInit == Proved!Promise!Init => Catalogue!Promise!Init
  BY DEF Catalogue!Promise!Init, Catalogue!Promise!NoChange, Catalogue!Entry,
     Catalogue!Asked, Proved!Promise!Init, Proved!Promise!NoChange, Proved!Entry,
     Proved!Asked

LEMMA SamePromisedSteps ==
    [Proved!Promise!Next]_(Proved!Promise!catalogueVars)
      => [Catalogue!Promise!Next]_(Catalogue!Promise!catalogueVars)
  BY DEF Catalogue!Promise!Next, Catalogue!Promise!Ask, Catalogue!Promise!Refuse,
     Catalogue!Promise!Apply, Catalogue!Promise!Answer,
     Catalogue!Promise!LoseConnections, Catalogue!Promise!Pending,
     Catalogue!Promise!Applied, Catalogue!Promise!Known, Catalogue!Promise!Takes,
     Catalogue!Promise!After, Catalogue!Promise!Set, Catalogue!Promise!Truthful,
     Catalogue!Promise!Requested, Catalogue!Promise!Statuses,
     Catalogue!Promise!NoChange, Catalogue!Promise!catalogueVars, Catalogue!Entry,
     Catalogue!Asked, Proved!Promise!Next, Proved!Promise!Ask,
     Proved!Promise!Refuse, Proved!Promise!Apply, Proved!Promise!Answer,
     Proved!Promise!LoseConnections, Proved!Promise!Pending,
     Proved!Promise!Applied, Proved!Promise!Known, Proved!Promise!Takes,
     Proved!Promise!After, Proved!Promise!Set, Proved!Promise!Truthful,
     Proved!Promise!Requested, Proved!Promise!Statuses, Proved!Promise!NoChange,
     Proved!Promise!catalogueVars, Proved!Entry, Proved!Asked

(* And so, confirmations, crashes and deadlocks notwithstanding, the       *)
(* catalogue keeps its promise: a change takes effect in one step, with    *)
(* its audit row, on the point as it is, and its caller is told nothing    *)
(* untrue.                                                                 *)
THEOREM ChangesStayAtomic == SystemSpec => ChangesAreAtomic
<1>1. Proved!Spec => Proved!ImplementsAuditedCatalogue
  BY Proved!ChangesAreAudited, CatalogueAssumptions
<1>2. Proved!ImplementsAuditedCatalogue => Catalogue!ImplementsAuditedCatalogue
  BY SamePromisedInit, SamePromisedSteps, PTL
     DEF Proved!ImplementsAuditedCatalogue, Catalogue!ImplementsAuditedCatalogue,
     Proved!Promise!Spec, Catalogue!Promise!Spec
<1>q. QED
  BY <1>1, <1>2, CatalogueIsAlone, SameBehaviours, PTL
     DEF CatalogueAlone, ChangesAreAtomic

(* The other component keeps its own beside these: a request is booked at  *)
(* most once, in one step, and answers about it stay true.                 *)
THEOREM BookingsStayAtomic == SystemSpec => BookedOnce
  BY ConfirmationsAlone, ImplementsRideBooking, PTL
=============================================================================
