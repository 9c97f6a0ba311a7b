--------------------------- MODULE DispatchSystem ---------------------------
(***************************************************************************)
(* The confirmations of ConfirmDispatch and the catalogue of SafePoints in *)
(* one process over one database.  What each component takes from the      *)
(* other: the pool has PoolSize connections for both; a point may be       *)
(* deleted only if no decision or trip refers to it; and the foreign keys  *)
(* dispatch_decisions.suggested_point_id and trips.suggested_point_id take *)
(* KEY SHARE on the point as it is referred to, and on the decision as the *)
(* point is deleted.                                                       *)
(*                                                                         *)
(* A step of the system is a step of one component that the other's locks  *)
(* and connections allow; only storing an offer and a crash are steps of   *)
(* both.                                                                   *)
(***************************************************************************)
EXTENDS ConfirmDispatch, Sequences

CONSTANTS Changes,         \* calls to the admin routes of safe points
          ChangeRequests,  \* the requests they may carry
          Data, Unset, NoRow

VARIABLES points, audit,   \* safe_points, safe_point_audit
          changeInput, changePc, existing, changeStaged, held, changeReply

(* The points that dispatch_decisions refers to. *)
Suggested == {offer[r].point : r \in {q \in Requests : offer[q] # NoOffer}} \ {NoPoint}

Catalogue == INSTANCE SafePoints WITH
    Calls <- Changes, suggested <- Suggested,
    input <- changeInput, pc <- changePc, staged <- changeStaged, reply <- changeReply

ASSUME SystemAssumption ==
    /\ ChangeRequests \subseteq Catalogue!Inputs
    /\ Unset \notin Data \cup {"active", "inactive"}
    /\ NoRow \notin Catalogue!Rows

changeVars == <<changeInput, changePc, existing, changeStaged, held, changeReply>>
catalogueVars == <<points, audit, changeVars>>
systemVars == <<vars, catalogueVars>>

SystemInit == Init /\ Catalogue!Init

----------------------------------------------------------------------------
(* The pool is the process's. *)
OpenChanges == {d \in Changes : Catalogue!Open(d)}
SharedConnection == Cardinality(InTransaction) + Cardinality(OpenChanges) < PoolSize

(* trips.suggested_point_id: the INSERT of a trip waits for a DELETE of    *)
(* its point that is under way.                                            *)
PointIsFree(p) ==
    \A d \in Changes : Catalogue!Point(d) = p /\ p # NoPoint => held[d] # "update"

(* The transactions that inserted a trip which refers to p. *)
Referring(p) == {c \in Calls : staged[c] # NoTrip /\ staged[c].point = p}

(* The rows of dispatch_decisions that suggest p, and those of them that a *)
(* confirmation has locked.                                                *)
OffersOf(p) == {r \in Requests : offer[r] # NoOffer /\ offer[r].point = p}
LockedOffersOf(p) == {r \in OffersOf(p) : lock[r] # NoCall}

----------------------------------------------------------------------------
(* POST /rides/request stores its offer, and refers to its point.  The     *)
(* mutant is a suggested_point_id without REFERENCES.                      *)
MutantStoreOffer(r, o) == SavePreliminary(r, o) /\ UNCHANGED catalogueVars
StoreOffer(r, o) ==
    /\ SavePreliminary(r, o)
    /\ IF o.point = NoPoint THEN UNCHANGED catalogueVars ELSE Catalogue!Offer(o.point)

(* A confirmation. *)
Confirm(c) ==
    /\ \/ SharedConnection /\ (ReadDecision(c) \/ BeginTransaction(c))
       \/ LockDecision(c)
       \/ CreateMinimum(c) /\ PointIsFree(TripOf(c).point)
       \/ UpdateDecision(c) \/ Commit(c) \/ Rollback(c) \/ Emit(c)
    /\ UNCHANGED catalogueVars

ConfirmArrivesOrFails(c) ==
    /\ (\E i \in Inputs : Call(c, i)) \/ CommitUnacknowledged(c) \/ QueryFails(c)
    /\ UNCHANGED catalogueVars

(* The check of a DELETE reads a row that refers to the point FOR KEY      *)
(* SHARE: it fails on the first it gets, and waits for one that is locked. *)
(* Which row comes first is the planner's choice.  A trip that refers to   *)
(* the point has such a row, so trips' own check adds nothing.             *)
CheckFinds(d) == LET p == Catalogue!Point(d) IN LockedOffersOf(p) # OffersOf(p)
CheckDone(d) == LockedOffersOf(Catalogue!Point(d)) = {}

(* A change of the catalogue. *)
ProceedWithChange(d) ==
    \/ SharedConnection /\ (Catalogue!FindById(d) \/ Catalogue!BeginTransaction(d))
    \/ \E p \in Points : Catalogue!Create(d, p)
    \/ Catalogue!Update(d) \/ Catalogue!WriteAudit(d)
    \/ Referring(Catalogue!Point(d)) = {} /\ Catalogue!Delete(d)
    \/ CheckDone(d) /\ Catalogue!CheckReferences(d)
    \/ Catalogue!Commit(d) \/ Catalogue!Rollback(d) \/ Catalogue!DeadlockAborts(d)

Change(d) == UNCHANGED vars /\ ProceedWithChange(d)

CheckFindsUnlocked(d) ==
    /\ CheckFinds(d)
    /\ UNCHANGED vars
    /\ Catalogue!CheckReferences(d)

ChangeArrivesOrFails(d) ==
    /\ UNCHANGED vars
    /\ \/ Catalogue!RequireReason(d)
       \/ \E i \in ChangeRequests : Catalogue!Receive(d, i)
       \/ Catalogue!QueryFails(d)

(* External: a confirmation holds its decision and waits for the point, a  *)
(* delete holds the point and waits for that decision.  deadlock_timeout   *)
(* aborts one of the two.                                                  *)
WaitForEachOther(c, d) ==
    /\ pc[c] = "insert"
    /\ changePc[d] = "check"
    /\ TripOf(c).point = Catalogue!Point(d)
    /\ lock[Request(c)] = c

ConfirmLosesDeadlock(c) ==
    /\ \E d \in Changes : WaitForEachOther(c, d)
    /\ QueryFails(c)
    /\ UNCHANGED catalogueVars

ChangeLosesDeadlock(d) ==
    /\ \E c \in Calls : WaitForEachOther(c, d)
    /\ UNCHANGED vars
    /\ Catalogue!QueryFails(d)

(* The process dies with everything it had open. *)
ProcessCrash ==
    \/ Crash /\ Catalogue!Crash
    \/ Crash /\ Catalogue!InFlight = {} /\ UNCHANGED catalogueVars
    \/ InFlight = {} /\ UNCHANGED vars /\ Catalogue!Crash

SystemNext ==
    \/ \E r \in Requests, o \in Offers : StoreOffer(r, o)
    \/ \E c \in Calls :
         Confirm(c) \/ ConfirmArrivesOrFails(c) \/ ConfirmLosesDeadlock(c)
    \/ \E d \in Changes :
         \/ Change(d) \/ CheckFindsUnlocked(d) \/ ChangeArrivesOrFails(d)
         \/ ChangeLosesDeadlock(d)
    \/ ProcessCrash

SystemSpec == SystemInit /\ [][SystemNext]_systemVars

(* Every query settles: with its result, once it has its locks, or with a  *)
(* deadlock error.                                                         *)
SystemFairSpec ==
    /\ SystemSpec
    /\ \A c \in Calls : WF_systemVars(Confirm(c) \/ ConfirmLosesDeadlock(c))
    /\ \A d \in Changes : WF_systemVars(Change(d) \/ ChangeLosesDeadlock(d))

----------------------------------------------------------------------------
(* A point that a trip or a decision refers to is never missing, neither   *)
(* once it is stored nor while the transaction that inserts it is open:    *)
(* the two tables agree though no component looks at the other's.          *)
TripsKeepTheirPoint ==
    /\ \A c \in Calls : \A t \in {trips[c], staged[c]} :
         t # NoTrip /\ t.point # NoPoint => points[t.point] # NoRow
    /\ \A p \in Suggested : points[p] # NoRow

(* Every change of the catalogue is answered, whatever confirmations hold  *)
(* or wait for; EveryCallAnswered says the same of confirmations.          *)
ChangesAnswered == Catalogue!EveryChangeAnswered

(* Beside confirmations and offers, the catalogue does what SafePoints     *)
(* says: its Offer is the storing of an offer, at the same moment.         *)
CatalogueAlone == Catalogue!Spec

(* And so, confirmations, crashes and deadlocks notwithstanding, it keeps  *)
(* its promise: a change takes effect in one step, with its audit row, on  *)
(* the point as it is, and its caller is told nothing untrue.              *)
ChangesAreAtomic == Catalogue!ImplementsAuditedCatalogue
=============================================================================
