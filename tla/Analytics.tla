----------------------------- MODULE Analytics ------------------------------
(***************************************************************************)
(* DispatchAnalyticsHandler behind the confirmations of ConfirmDispatch.   *)
(* emit() returns at once; each listener, registered with async, runs on a *)
(* later turn of the event loop and saves one row of analytics_events in a *)
(* transaction of its own, on a connection of the same pool.  A save that  *)
(* rejects is counted in analyticsPersistFailures and forgotten: nothing   *)
(* is retried, and nothing but the rows survives the process.              *)
(*                                                                         *)
(* A report is one emitted event: its name, and the request (for what an   *)
(* evaluation emits) or the trip, named by its call (for what a            *)
(* confirmation emits) that it is about.                                   *)
(***************************************************************************)
EXTENDS ConfirmDispatch

CONSTANT Listened  \* bound: the events whose listeners an instance includes

EvaluationNames == {"RequestCreated", "SuggestionShown", "FallbackActivated",
                    "NoAvailability"}

ASSUME ListenedAssumption == Listened \subseteq EvaluationNames \cup EventNames

Reports == [name : Listened \cap EvaluationNames, about : Requests]
           \cup [name : Listened \cap EventNames, about : Calls]

VARIABLES
    listener,  \* where the listener of each report is
    rows,      \* how many rows of analytics_events each report has
    counted    \* reports the process's analyticsPersistFailures counts

analyticsVars == <<listener, rows, counted>>
allVars == <<vars, analyticsVars>>

AnalyticsInit ==
    /\ Init
    /\ listener = [e \in Reports |-> "none"]
    /\ rows = [e \in Reports |-> 0]
    /\ counted = {}

----------------------------------------------------------------------------
Saving == {e \in Reports : listener[e] = "saving"}
Pending == Saving \cup {e \in Reports : listener[e] = "queued"}

(* The pool is the process's. *)
SharedConnection == Cardinality(InTransaction) + Cardinality(Saving) < PoolSize

(* emit() schedules the listener of each event. *)
Queue(names, id) ==
    listener' = [e \in Reports |-> IF e.about = id /\ e.name \in names
                                   THEN "queued" ELSE listener[e]]

(* External to a confirmation: what the evaluation of r emits, and what it *)
(* has stored by then.                                                     *)
EvaluationEmits(r, n) ==
    /\ \A e \in Reports : e.name = n /\ e.about = r => listener[e] = "none"
    /\ n = "SuggestionShown" => offer[r] # NoOffer /\ offer[r].point # NoPoint
    /\ n \in {"RequestCreated", "FallbackActivated", "NoAvailability"}
           => offer[r] = NoOffer
    /\ Queue({n}, r)
    /\ UNCHANGED <<vars, rows, counted>>

(* A confirmation: an emit is the end of one. *)
Confirm(c) ==
    \/ /\ \/ SharedConnection /\ (ReadDecision(c) \/ BeginTransaction(c))
          \/ LockDecision(c) \/ CreateMinimum(c) \/ UpdateDecision(c)
          \/ Commit(c) \/ Rollback(c)
       /\ UNCHANGED analyticsVars
    \/ /\ Emit(c)
       /\ Queue(Events(c), c)
       /\ UNCHANGED <<rows, counted>>

ElsewhereInConfirm ==
    /\ \/ \E r \in Requests, o \in Offers : SavePreliminary(r, o)
       \/ \E c \in Calls, i \in Inputs : Call(c, i)
       \/ \E c \in Calls : CommitUnacknowledged(c) \/ QueryFails(c)
    /\ UNCHANGED analyticsVars

----------------------------------------------------------------------------
(* persist: the listener's save takes a connection. *)
Persist(e) ==
    /\ listener[e] = "queued"
    /\ SharedConnection
    /\ listener' = [listener EXCEPT ![e] = "saving"]
    /\ UNCHANGED <<vars, rows, counted>>

(* The save resolves. *)
Saved(e) ==
    /\ listener[e] = "saving"
    /\ rows' = [rows EXCEPT ![e] = @ + 1]
    /\ listener' = [listener EXCEPT ![e] = "done"]
    /\ UNCHANGED <<vars, counted>>

(* It rejects, before or after the row was committed: the counter goes up, *)
(* and that is all.  One mutant forgets the counter, the other tries again.*)
MutantCatch(e) ==
    /\ listener' = [listener EXCEPT ![e] = "done"]
    /\ UNCHANGED counted
MutantRetryCatch(e) ==
    /\ listener' = [listener EXCEPT ![e] = IF e \in counted THEN "done" ELSE "queued"]
    /\ counted' = counted \cup {e}
Catch(e) ==
    /\ listener' = [listener EXCEPT ![e] = "done"]
    /\ counted' = counted \cup {e}

SaveRejects(e) ==
    /\ listener[e] = "saving"
    /\ \E stored \in {0, 1} : rows' = [rows EXCEPT ![e] = @ + stored]
    /\ Catch(e)
    /\ UNCHANGED vars

(* The process dies: what it had queued and counted is gone; of the saves  *)
(* under way some were committed.                                          *)
ProcessCrash ==
    /\ \/ Crash
       \/ InFlight = {} /\ Pending # {} /\ UNCHANGED vars
    /\ \E stored \in SUBSET Saving :
         rows' = [e \in Reports |-> IF e \in stored THEN rows[e] + 1 ELSE rows[e]]
    /\ listener' = [e \in Reports |-> IF listener[e] = "none" THEN "none" ELSE "lost"]
    /\ counted' = {}

Listen(e) == Persist(e) \/ Saved(e) \/ SaveRejects(e)

AnalyticsNext ==
    \/ \E r \in Requests, n \in Listened \cap EvaluationNames : EvaluationEmits(r, n)
    \/ \E c \in Calls : Confirm(c)
    \/ ElsewhereInConfirm
    \/ \E e \in Reports : Listen(e)
    \/ ProcessCrash

AnalyticsSpec == AnalyticsInit /\ [][AnalyticsNext]_allVars

(* Every query settles, and the event loop gets to every listener. *)
AnalyticsFairSpec ==
    /\ AnalyticsSpec
    /\ \A c \in Calls : WF_allVars(Confirm(c))
    /\ \A e \in Reports : WF_allVars(Listen(e))

----------------------------------------------------------------------------
(* No event is ever stored twice, though a save that rejected may have     *)
(* been committed.                                                         *)
AnalyticsTypeOK ==
    /\ listener \in [Reports -> {"none", "queued", "saving", "done", "lost"}]
    /\ rows \in [Reports -> {0, 1}]
    /\ counted \subseteq Reports

(* A row tells what is stored: the trip it names exists, whatever crashed  *)
(* or failed before the listener came to run, and was picked up where the  *)
(* row says; a suggestion reported as shown is in its decision.            *)
Stored(e) == rows[e] > 0
Pickup == [SuggestionAccepted |-> "suggested", SuggestionRejected |-> "original"]

RowsAreTrue ==
    \A e \in Reports : Stored(e) =>
        /\ e.name \in EventNames => trips[e.about] # NoTrip
        /\ e.name \in DOMAIN Pickup => trips[e.about].pickup = Pickup[e.name]
        /\ e.name = "SuggestionShown" => offer[e.about].point # NoPoint

(* The acceptance funnel counts a request once: of all the confirmations   *)
(* of a request, retries included, one row at most says that its           *)
(* suggestion was taken or declined.                                       *)
Verdicts(r) == {e \in Reports : /\ e.name \in DOMAIN Pickup
                                /\ input[e.about].request = r
                                /\ Stored(e)}

OneVerdict == \A r \in Requests : Cardinality(Verdicts(r)) <= 1

(* analytics_persist_failures_total misses no loss: a listener that is     *)
(* done without a row has counted it.  (The converse is false: a save in   *)
(* doubt is counted and may be stored.)                                    *)
LossesAreCounted ==
    \A e \in Reports : listener[e] = "done" /\ ~Stored(e) => e \in counted

(* Every listener comes to an end while the process lives, although it     *)
(* competes with confirmations that wait for a row lock with a connection  *)
(* in hand; EveryCallAnswered says the same the other way round.           *)
EveryReportSettles ==
    \A e \in Reports : listener[e] = "queued" ~> listener[e] \in {"done", "lost"}
=============================================================================
