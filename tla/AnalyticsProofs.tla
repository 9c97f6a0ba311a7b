-------------------------- MODULE AnalyticsProofs ---------------------------
(***************************************************************************)
(* Theorems about Analytics, for any number of confirmations, requests,    *)
(* connections and listened events.  What is known of confirmations is     *)
(* what ConfirmDispatchProofs proves, for the listeners do not touch them. *)
(***************************************************************************)
EXTENDS Analytics, ConfirmDispatchProofs, FiniteSetTheorems

(* A row is written by a save, and each listener saves once.               *)
Unsaved ==
    \A e \in Reports : listener[e] \in {"none", "queued", "saving"} => rows[e] = 0

(* A listener runs on what was emitted, and that stays true: a trip is     *)
(* never removed, and an offer is written once.                            *)
Queued ==
    \A e \in Reports : listener[e] # "none" =>
        /\ e.name \in EventNames => e.name \in emitted[e.about]
        /\ e.name = "SuggestionShown" =>
               offer[e.about] # NoOffer /\ offer[e.about].point # NoPoint

AInv == AnalyticsTypeOK /\ Unsaved /\ Queued /\ LossesAreCounted

----------------------------------------------------------------------------
(* What a report is about. *)
LEMMA ReportOK ==
    ASSUME NEW e \in Reports
    PROVE  /\ e.name \in EvaluationNames \/ e.name \in EventNames
           /\ e.name \in EvaluationNames => e.about \in Requests
           /\ e.name \in EventNames => e.about \in Calls
           /\ ~(e.name \in EvaluationNames /\ e.name \in EventNames)
  BY DEF Reports, EvaluationNames, EventNames

LEMMA SameReport ==
    ASSUME NEW e \in Reports, NEW f \in Reports, e.name = f.name, e.about = f.about
    PROVE  e = f
  BY DEF Reports

----------------------------------------------------------------------------
(* Every step of Analytics is a step of ConfirmDispatch or leaves it alone:*)
(* listeners change nothing for confirmations.                             *)
LEMMA ConfirmsOrStutters == [AnalyticsNext]_allVars => [Next]_vars
<1> SUFFICES ASSUME [AnalyticsNext]_allVars PROVE [Next]_vars
  OBVIOUS
<1>1. ASSUME NEW c \in Calls, Confirm(c) PROVE Next
  BY <1>1 DEF Confirm, Next, Step
<1>2. CASE ElsewhereInConfirm
  BY <1>2 DEF ElsewhereInConfirm, Next
<1>3. CASE ProcessCrash
  BY <1>3 DEF ProcessCrash, Next
<1>4. ASSUME NEW e \in Reports, Listen(e) PROVE UNCHANGED vars
  BY <1>4 DEF Listen, Persist, Saved, SaveRejects
<1>5. ASSUME NEW r \in Requests, NEW n, EvaluationEmits(r, n) PROVE UNCHANGED vars
  BY <1>5 DEF EvaluationEmits
<1>6. CASE UNCHANGED allVars
  BY <1>6 DEF allVars
<1>q. QED
  BY <1>1, <1>2, <1>3, <1>4, <1>5, <1>6 DEF AnalyticsNext

(* Behind its listeners, a confirmation does what ConfirmDispatch says, so *)
(* every theorem about ConfirmDispatch holds of Analytics too.             *)
THEOREM ConfirmsAlone == AnalyticsSpec => Spec
<1>1. AnalyticsInit => Init
  BY DEF AnalyticsInit
<1>q. QED
  BY <1>1, ConfirmsOrStutters, PTL DEF AnalyticsSpec, Spec

----------------------------------------------------------------------------
(* What was emitted, and what an offer says, is never taken back.          *)
LEMMA OfferStays ==
    ASSUME IInv, [Next]_vars, NEW r \in Requests, offer[r] # NoOffer
    PROVE  offer'[r] = offer[r]
<1>1. ASSUME NEW q \in Requests, NEW o \in Offers, SavePreliminary(q, o)
      PROVE  offer'[r] = offer[r]
  BY <1>1 DEF SavePreliminary, IInv, TypeOK
<1>q. QED
  BY <1>1 DEF Next, vars, Step, Call, ReadDecision, BeginTransaction, LockDecision,
     CreateMinimum, UpdateDecision, Commit, TransactionEffect, Rollback, Emit,
     CommitUnacknowledged, QueryFails, Crash, rowVars, callVars

LEMMA EmittedStays ==
    ASSUME IInv, [Next]_vars, NEW c \in Calls
    PROVE  emitted[c] \subseteq emitted'[c]
<1>1. ASSUME NEW d \in Calls, Emit(d) PROVE emitted[c] \subseteq emitted'[c]
  BY <1>1 DEF Emit, IInv, TypeOK, Heard
<1>q. QED
  BY <1>1 DEF Next, vars, Step, Call, ReadDecision, BeginTransaction, LockDecision,
     CreateMinimum, UpdateDecision, Commit, TransactionEffect, Rollback, SavePreliminary,
     CommitUnacknowledged, QueryFails, Crash, rowVars, callVars

LEMMA QueuedStays ==
    ASSUME IInv, AInv, [Next]_vars, NEW e \in Reports, listener[e] # "none"
    PROVE  /\ e.name \in EventNames => e.name \in emitted'[e.about]
           /\ e.name = "SuggestionShown" =>
                  offer'[e.about] # NoOffer /\ offer'[e.about].point # NoPoint
<1>1. e.name = "SuggestionShown" => e.about \in Requests
  BY ReportOK DEF EvaluationNames
<1>q. QED
  BY <1>1, ReportOK, OfferStays, EmittedStays DEF AInv, Queued

(* A step of confirmations alone. *)
LEMMA ConfirmOnlyStep ==
    ASSUME IInv, AInv, [Next]_vars, UNCHANGED analyticsVars
    PROVE  AInv'
<1>1. Queued'
  BY QueuedStays DEF Queued, analyticsVars
<1>q. QED
  BY <1>1 DEF AInv, AnalyticsTypeOK, Unsaved, LossesAreCounted, Stored, analyticsVars

(* New reports are queued: nobody has heard of them before.                *)
LEMMA QueueStep ==
    ASSUME IInv, AInv, [Next]_vars, NEW S, NEW id, Queue(S, id),
           UNCHANGED <<rows, counted>>,
           \A e \in Reports : e.about = id /\ e.name \in S =>
               /\ listener[e] = "none"
               /\ e.name \in EventNames => e.name \in emitted'[e.about]
               /\ e.name = "SuggestionShown" =>
                      offer'[e.about] # NoOffer /\ offer'[e.about].point # NoPoint
    PROVE  AInv'
<1>1. AnalyticsTypeOK' /\ Unsaved' /\ LossesAreCounted'
  BY DEF Queue, AInv, AnalyticsTypeOK, Unsaved, LossesAreCounted, Stored
<1>2. Queued'
  <2> SUFFICES ASSUME NEW e \in Reports, listener'[e] # "none"
               PROVE  /\ e.name \in EventNames => e.name \in emitted'[e.about]
                      /\ e.name = "SuggestionShown" =>
                             offer'[e.about] # NoOffer /\ offer'[e.about].point # NoPoint
    BY DEF Queued
  <2>1. CASE e.about = id /\ e.name \in S
    BY <2>1
  <2>2. CASE ~(e.about = id /\ e.name \in S)
    <3>1. listener[e] # "none"
      BY <2>2 DEF Queue
    <3>q. QED
      BY <3>1, QueuedStays
  <2>q. QED
    BY <2>1, <2>2
<1>q. QED
  BY <1>1, <1>2 DEF AInv

LEMMA EmitReportsStep ==
    ASSUME IInv, AInv, NEW c \in Calls, Emit(c), Queue(Events(c), c),
           UNCHANGED <<rows, counted>>
    PROVE  AInv'
<1>1. Next
  <2>1. Step(c)
    BY DEF Step
  <2>q. QED
    BY <2>1 DEF Next
<1>2. /\ emitted[c] = {}
      /\ emitted'[c] = Events(c)
      /\ Events(c) \subseteq EventNames
  BY EventsOK DEF Emit, IInv, TypeOK, Heard
<1>3. ASSUME NEW e \in Reports, e.about = c, e.name \in Events(c)
      PROVE  /\ listener[e] = "none"
             /\ e.name \in EventNames => e.name \in emitted'[e.about]
             /\ e.name # "SuggestionShown"
  BY <1>2, <1>3 DEF AInv, Queued, EventNames
<1>q. QED
  BY <1>1, <1>3, QueueStep

LEMMA EvaluationEmitsStep ==
    ASSUME IInv, AInv, NEW r \in Requests, NEW n \in EvaluationNames, EvaluationEmits(r, n)
    PROVE  AInv'
<1>1. n \notin EventNames
  BY DEF EvaluationNames, EventNames
<1>2. UNCHANGED vars /\ offer' = offer
  BY DEF EvaluationEmits, vars
<1>q. QED
  BY <1>1, <1>2, QueueStep DEF EvaluationEmits

LEMMA ListenStep ==
    ASSUME IInv, AInv, NEW e \in Reports, Listen(e)
    PROVE  AInv'
<1> USE DEF AInv, AnalyticsTypeOK
<1>1. UNCHANGED vars /\ UNCHANGED <<emitted, offer>>
  BY DEF Listen, Persist, Saved, SaveRejects, vars
<1>2. /\ listener' = [listener EXCEPT ![e] = listener'[e]]
      /\ listener[e] # "none" /\ listener'[e] \in {"saving", "done"}
  BY DEF Listen, Persist, Saved, SaveRejects, Catch
<1>3. Queued'
  BY <1>1, <1>2 DEF Queued
<1>4. CASE Persist(e)
  BY <1>3, <1>4 DEF Persist, Unsaved, LossesAreCounted, Stored
<1>5. CASE Saved(e)
  <2>1. rows[e] = 0
    BY <1>5 DEF Saved, Unsaved
  <2>2. rows' = [rows EXCEPT ![e] = 1]
    BY <1>5, <2>1 DEF Saved
  <2>q. QED
    BY <1>3, <1>5, <2>2 DEF Saved, Unsaved, LossesAreCounted, Stored
<1>6. CASE SaveRejects(e)
  <2>1. rows[e] = 0
    BY <1>6 DEF SaveRejects, Unsaved
  <2>2. PICK stored \in {0, 1} : rows' = [rows EXCEPT ![e] = rows[e] + stored]
    BY <1>6 DEF SaveRejects
  <2>3. rows' = [rows EXCEPT ![e] = stored]
    <3>1. rows[e] + stored = stored
      BY <2>1
    <3>q. QED
      BY <2>2, <3>1
  <2>q. QED
    BY <1>3, <1>6, <2>3 DEF SaveRejects, Catch, Unsaved, LossesAreCounted, Stored
<1>q. QED
  BY <1>4, <1>5, <1>6 DEF Listen

LEMMA ProcessCrashStep ==
    ASSUME IInv, AInv, ProcessCrash
    PROVE  AInv'
<1> USE DEF AInv, AnalyticsTypeOK
<1>1. [Next]_vars
  BY DEF ProcessCrash, Next
<1>2. PICK stored \in SUBSET Saving :
          rows' = [e \in Reports |-> IF e \in stored THEN rows[e] + 1 ELSE rows[e]]
  BY DEF ProcessCrash
<1>3. /\ listener' = [e \in Reports |-> IF listener[e] = "none" THEN "none" ELSE "lost"]
      /\ counted' = {}
  BY DEF ProcessCrash
<1>4. \A e \in stored : rows[e] = 0 /\ listener[e] = "saving"
  BY DEF Saving, Unsaved
<1>5. AnalyticsTypeOK' /\ Unsaved' /\ LossesAreCounted'
  BY <1>2, <1>3, <1>4 DEF Unsaved, LossesAreCounted
<1>6. Queued'
  BY <1>1, <1>3, QueuedStays DEF Queued
<1>q. QED
  BY <1>5, <1>6

LEMMA NextAInv == IInv /\ AInv /\ [AnalyticsNext]_allVars => AInv'
<1> SUFFICES ASSUME IInv, AInv, [AnalyticsNext]_allVars PROVE AInv'
  OBVIOUS
<1>1. [Next]_vars
  BY ConfirmsOrStutters
<1>2. ASSUME NEW c \in Calls, Confirm(c) PROVE AInv'
  <2>1. CASE UNCHANGED analyticsVars
    BY <1>1, <2>1, ConfirmOnlyStep
  <2>2. CASE Emit(c) /\ Queue(Events(c), c) /\ UNCHANGED <<rows, counted>>
    BY <2>2, EmitReportsStep
  <2>q. QED
    BY <1>2, <2>1, <2>2 DEF Confirm
<1>3. CASE ElsewhereInConfirm
  BY <1>1, <1>3, ConfirmOnlyStep DEF ElsewhereInConfirm
<1>4. CASE UNCHANGED allVars
  BY <1>1, <1>4, ConfirmOnlyStep DEF allVars
<1>q. QED
  BY <1>2, <1>3, <1>4, EvaluationEmitsStep, ListenStep, ProcessCrashStep DEF AnalyticsNext

(* The inductive invariant of the listeners, beside that of confirmations. *)
THEOREM ListenersInductive == AnalyticsSpec => [](IInv /\ AInv)
<1>1. AnalyticsInit => AInv
  BY DEF AnalyticsInit, AInv, AnalyticsTypeOK, Unsaved, Queued, LossesAreCounted
<1>q. QED
  BY <1>1, NextAInv, ConfirmsAlone, Inductive, PTL DEF AnalyticsSpec

(* No event is ever stored twice, though a save that rejected may have     *)
(* been committed and a crash may cut it off.                              *)
THEOREM NoEventTwice == AnalyticsSpec => []AnalyticsTypeOK
<1>1. AInv => AnalyticsTypeOK
  BY DEF AInv
<1>q. QED
  BY <1>1, ListenersInductive, PTL

(* Every loss is counted while the process lives. *)
THEOREM NoLossUncounted == AnalyticsSpec => []LossesAreCounted
<1>1. AInv => LossesAreCounted
  BY DEF AInv
<1>q. QED
  BY <1>1, ListenersInductive, PTL

----------------------------------------------------------------------------
(* What a stored row of a confirmation knows: its trip, and how it was     *)
(* picked up.                                                              *)
LEMMA TripBehindRow ==
    ASSUME IInv, AInv, NEW e \in Reports, Stored(e), e.name \in EventNames
    PROVE  /\ e.about \in Calls
           /\ trips[e.about] # NoTrip
           /\ tripId[Request(e.about)] = e.about
           /\ e.name \in DOMAIN Pickup => trips[e.about].pickup = Pickup[e.name]
<1>1. e.about \in Calls
  BY ReportOK
<1>2. listener[e] # "none"
  BY DEF AInv, AnalyticsTypeOK, Unsaved, Stored
<1>3. e.name \in emitted[e.about]
  BY <1>2 DEF AInv, Queued
<1>4. trips[e.about] # NoTrip /\ emitted[e.about] = Events(e.about)
  BY <1>1, <1>3 DEF IInv, Heard
<1>5. /\ tripId[Request(e.about)] = e.about
      /\ trips[e.about] = TripOf(e.about)
  BY <1>1, <1>4 DEF IInv, StoredTrip
<1>6. trips[e.about].pickup = Choice(e.about)
  BY <1>5 DEF TripOf
<1>7. Choice(e.about) \in Choices
  BY <1>1, <1>4, InputOK DEF IInv, StoredTrip
<1>8. /\ DOMAIN Pickup = {"SuggestionAccepted", "SuggestionRejected"}
      /\ Pickup["SuggestionAccepted"] = "suggested"
      /\ Pickup["SuggestionRejected"] = "original"
  BY DEF Pickup
<1>9. e.name \in DOMAIN Pickup => Choice(e.about) = Pickup[e.name]
  BY <1>3, <1>4, <1>7, <1>8 DEF Events, Choices
<1>q. QED
  BY <1>1, <1>4, <1>5, <1>6, <1>9

(* The rows tell the truth: of trips that are stored, of pickups as they   *)
(* were chosen, of suggestions as they were offered.                       *)
THEOREM RowsTellTheTruth == AnalyticsSpec => []RowsAreTrue
<1>1. IInv /\ AInv => RowsAreTrue
  <2> SUFFICES ASSUME IInv, AInv, NEW e \in Reports, Stored(e)
               PROVE  /\ e.name \in EventNames => trips[e.about] # NoTrip
                      /\ e.name \in DOMAIN Pickup => trips[e.about].pickup = Pickup[e.name]
                      /\ e.name = "SuggestionShown" => offer[e.about].point # NoPoint
    BY DEF RowsAreTrue
  <2>1. listener[e] # "none"
    BY DEF AInv, AnalyticsTypeOK, Unsaved, Stored
  <2>2. DOMAIN Pickup \subseteq EventNames
    BY DEF Pickup, EventNames
  <2>q. QED
    BY <2>1, <2>2, TripBehindRow DEF AInv, Queued
<1>q. QED
  BY <1>1, ListenersInductive, PTL

(* A request has one verdict at most in the acceptance funnel, however     *)
(* often it was confirmed.                                                 *)
THEOREM OneVerdictPerRequest == AnalyticsSpec => []OneVerdict
<1>1. IInv /\ AInv => OneVerdict
  <2> SUFFICES ASSUME IInv, AInv, NEW r \in Requests
               PROVE  Cardinality(Verdicts(r)) <= 1
    BY DEF OneVerdict
  <2>1. ASSUME NEW e \in Verdicts(r), NEW f \in Verdicts(r) PROVE e = f
    <3>1. /\ DOMAIN Pickup \subseteq EventNames
          /\ DOMAIN Pickup = {"SuggestionAccepted", "SuggestionRejected"}
          /\ Pickup["SuggestionAccepted"] # Pickup["SuggestionRejected"]
      BY DEF Pickup, EventNames
    <3>2. /\ e \in Reports /\ Stored(e) /\ e.name \in DOMAIN Pickup /\ Request(e.about) = r
          /\ f \in Reports /\ Stored(f) /\ f.name \in DOMAIN Pickup /\ Request(f.about) = r
      BY DEF Verdicts, Request
    <3>3. e.about = f.about
      BY <3>1, <3>2, TripBehindRow
    <3>4. Pickup[e.name] = Pickup[f.name]
      BY <3>1, <3>2, <3>3, TripBehindRow
    <3>5. e.name = f.name
      BY <3>1, <3>2, <3>4
    <3>q. QED
      BY <3>2, <3>3, <3>5, SameReport
  <2>2. CASE Verdicts(r) = {}
    BY <2>2, FS_EmptySet
  <2>3. CASE \E e : Verdicts(r) = {e}
    BY <2>3, FS_Singleton
  <2>q. QED
    BY <2>1, <2>2, <2>3
<1>q. QED
  BY <1>1, ListenersInductive, PTL
=============================================================================
