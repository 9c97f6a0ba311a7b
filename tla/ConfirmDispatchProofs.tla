----------------------- MODULE ConfirmDispatchProofs -----------------------
(***************************************************************************)
(* Theorems about ConfirmDispatch, for any number of calls, requests,      *)
(* riders, vehicles and safe points, any pool and any number of crashes.   *)
(***************************************************************************)
EXTENDS ConfirmDispatch, TLAPS

(* A call that has started has a well-formed input, and one that has not   *)
(* has done nothing.                                                       *)
Started ==
    \A c \in Calls :
        /\ pc[c] # "idle" => input[c] \in Inputs
        /\ pc[c] = "idle" => decision[c] = NoOffer /\ input[c] = NoInput

(* The row lock is held by a call inside its transaction, on its own       *)
(* request, and by every call past LockDecision.                           *)
Locking ==
    /\ \A r \in Requests : lock[r] # NoCall =>
            /\ pc[lock[r]] \in {"insert", "update", "commit", "rollback"}
            /\ Request(lock[r]) = r
    /\ \A c \in Calls : Exclusive(c) => lock[Request(c)] = c

(* A call past the pre-read has read the row as it still is, and owns it.  *)
PreRead ==
    \A c \in Calls :
        /\ pc[c] \in {"begin", "lock", "insert", "update", "commit", "emit"}
               => decision[c] # NoOffer
        /\ decision[c] # NoOffer =>
               /\ offer[Request(c)] = decision[c]
               /\ decision[c].rider = input[c].rider

(* While a call is past the lock, its request is not confirmed.            *)
Guarded ==
    \A c \in Calls : Exclusive(c) =>
        /\ tripId[Request(c)] = NoCall
        /\ Choice(c) = "suggested" => decision[c].point # NoPoint

(* An open transaction has staged the trip its call asked for, holds the   *)
(* lock that protects it, and its request is not confirmed.                *)
StagedTrip ==
    \A c \in Calls :
        /\ pc[c] \in {"update", "commit"} => staged[c] # NoTrip
        /\ staged[c] # NoTrip =>
               /\ pc[c] \in {"update", "commit", "rollback"}
               /\ decision[c] # NoOffer
               /\ staged[c] = TripOf(c)
               /\ lock[Request(c)] = c
               /\ tripId[Request(c)] = NoCall

(* A stored trip is its call's, and its request's confirmation.            *)
StoredTrip ==
    \A c \in Calls :
        /\ trips[c] # NoTrip =>
               /\ pc[c] \in {"emit", "answered"}
               /\ decision[c] # NoOffer
               /\ trips[c] = TripOf(c)
               /\ tripId[Request(c)] = c
               /\ userChoice[Request(c)] = Choice(c)
               /\ Choice(c) = "suggested" => decision[c].point # NoPoint
        /\ pc[c] = "emit" => trips[c] # NoTrip

Confirmed ==
    \A r \in Requests :
        /\ tripId[r] = NoCall => userChoice[r] = "none"
        /\ tripId[r] # NoCall => trips[tripId[r]] # NoTrip /\ Request(tripId[r]) = r

Heard ==
    \A c \in Calls : emitted[c] # {} =>
        /\ pc[c] = "answered"
        /\ trips[c] # NoTrip
        /\ emitted[c] = Events(c)

(* A call rolling back has decided its answer, and a 409 is already true.  *)
Refused ==
    \A c \in Calls : pc[c] = "rollback" =>
        /\ reply[c] \in {"alreadyConfirmed", "missingCoordinates", "error"}
        /\ reply[c] = "alreadyConfirmed" => tripId[Request(c)] \notin {NoCall, c}

IInv == /\ TypeOK
        /\ Started /\ Locking /\ PreRead /\ Guarded
        /\ StagedTrip /\ StoredTrip /\ Confirmed /\ Heard /\ Refused

----------------------------------------------------------------------------
(* What a started call asks for. *)
LEMMA InputOK ==
    ASSUME IInv, NEW c \in Calls, pc[c] # "idle"
    PROVE  Request(c) \in Requests /\ Choice(c) \in Choices
  BY DEF IInv, Started, Inputs, Request, Choice

LEMMA InputNone ==
    ASSUME IInv, NEW c \in Calls, pc[c] = "idle"
    PROVE  Request(c) = NoRequest
  BY DEF IInv, Started, NoInput, Request

(* The trip a call inserts is a well-formed row. *)
LEMMA TripOK ==
    ASSUME IInv, NEW c \in Calls, pc[c] = "insert"
    PROVE  TripOf(c) \in Trips
<1>1. Request(c) \in Requests /\ Choice(c) \in Choices
  BY InputOK
<1>2. decision[c] \in Offers /\ offer[Request(c)] \in Offers
  BY <1>1, AbsentAssumption DEF IInv, TypeOK, PreRead
<1>q. QED
  BY <1>1, <1>2 DEF Trips, TripOf, Offers

LEMMA EventsOK ==
    ASSUME NEW c \in Calls
    PROVE  Events(c) \in SUBSET EventNames
  BY DEF Events, EventNames

(* Each step preserves the invariant.  A lemma has one step for the parts  *)
(* the action leaves alone, and one for each part it could disturb.        *)
LEMMA SavePreliminaryStep ==
    ASSUME IInv, NEW r \in Requests, NEW o \in Offers, SavePreliminary(r, o)
    PROVE  IInv'
<1> USE ConfirmAssumption, AbsentAssumption DEF IInv, SavePreliminary,
      callVars
<1>1. TypeOK'
  BY DEF TypeOK
<1>2. /\ Started' /\ Locking' /\ PreRead' /\ Guarded'
      /\ Confirmed' /\ Heard' /\ Refused'
  BY DEF Started, Locking, PreRead, Guarded, Confirmed, Heard, Refused,
     Request, Choice, Exclusive, Events
<1>3. StagedTrip'
  BY DEF StagedTrip, TripOf, Request, Choice, TypeOK, PreRead
<1>4. StoredTrip'
  BY DEF StoredTrip, TripOf, Request, Choice, TypeOK, PreRead
<1>q. QED
  BY <1>1, <1>2, <1>3, <1>4

LEMMA CallStep ==
    ASSUME IInv, NEW c \in Calls, NEW i \in Inputs, Call(c, i)
    PROVE  IInv'
<1> USE ConfirmAssumption, AbsentAssumption DEF IInv, Call, rowVars, Goto
<1>1. TypeOK'
  BY DEF TypeOK, Stages
<1>2. Locking' /\ Guarded' /\ Heard' /\ Refused'
  BY DEF Locking, Guarded, Heard, Refused, Request, Choice, Exclusive, Events
<1>3. Started'
  BY DEF Started, TypeOK
<1>4. PreRead'
  BY DEF PreRead, Request, Started
<1>5. StagedTrip'
  BY DEF StagedTrip, TripOf, Request, Choice, TypeOK
<1>6. StoredTrip'
  BY DEF StoredTrip, TripOf, Request, Choice, TypeOK
<1>7. Confirmed'
  BY DEF Confirmed, StoredTrip, Request
<1>q. QED
  BY <1>1, <1>2, <1>3, <1>4, <1>5, <1>6, <1>7

LEMMA ReadDecisionStep ==
    ASSUME IInv, NEW c \in Calls, ReadDecision(c)
    PROVE  IInv'
<1> USE ConfirmAssumption, AbsentAssumption DEF IInv, ReadDecision, rowVars,
      Goto, Throw, Owns
<1>1. TypeOK'
  BY InputOK DEF TypeOK, Stages, Replies
<1>2. Confirmed'
  BY DEF Confirmed, Request
<1>3. Started'
  BY DEF Started, TypeOK
<1>4. Locking'
  BY DEF Locking, Exclusive, Request, TypeOK
<1>5. PreRead'
  BY DEF PreRead, Request, TypeOK
<1>6. Guarded'
  BY DEF Guarded, Exclusive, Request, Choice, TypeOK
<1>7. StagedTrip'
  BY DEF StagedTrip, TripOf, Request, Choice, TypeOK
<1>8. StoredTrip'
  BY DEF StoredTrip, TripOf, Request, Choice, TypeOK
<1>9. Heard'
  BY DEF Heard, Events, Choice, TypeOK
<1>10. Refused'
  BY DEF Refused, Request, TypeOK
<1>q. QED
  BY <1>1, <1>2, <1>3, <1>4, <1>5, <1>6, <1>7, <1>8, <1>9, <1>10

LEMMA BeginTransactionStep ==
    ASSUME IInv, NEW c \in Calls, BeginTransaction(c)
    PROVE  IInv'
<1> USE ConfirmAssumption, AbsentAssumption DEF IInv, BeginTransaction,
      rowVars, callVars, Goto
<1>1. TypeOK'
  BY DEF TypeOK, Stages
<1>2. /\ Started' /\ Locking' /\ PreRead' /\ Guarded' /\ StagedTrip'
      /\ StoredTrip' /\ Confirmed' /\ Heard' /\ Refused'
  BY DEF Started, Locking, PreRead, Guarded, StagedTrip, StoredTrip,
     Confirmed, Heard, Refused, Request, Choice, Exclusive, TripOf, Events
<1>q. QED
  BY <1>1, <1>2

LEMMA LockDecisionStep ==
    ASSUME IInv, NEW c \in Calls, LockDecision(c)
    PROVE  IInv'
<1> USE ConfirmAssumption, AbsentAssumption DEF IInv, LockDecision, Locked,
      AlreadyConfirmed, MissingCoordinates, rowVars, Goto, Throw
<1>1. TypeOK'
  BY DEF TypeOK, Stages, Replies, Started
<1>2. Confirmed'
  BY DEF Confirmed, Request
<1>3. Started'
  BY DEF Started, TypeOK
<1>4. Locking'
  BY InputOK DEF Locking, Exclusive, TypeOK, Request
<1>5. PreRead'
  BY DEF PreRead, Request, TypeOK
<1>6. Guarded'
  BY DEF Guarded, Exclusive, Request, Choice, TypeOK
<1>7. StagedTrip'
  BY DEF StagedTrip, TripOf, Request, Choice, TypeOK
<1>8. StoredTrip'
  BY DEF StoredTrip, TripOf, Request, Choice, TypeOK
<1>9. Heard'
  BY DEF Heard, Events, Choice, TypeOK
<1>10. Refused'
  BY InputOK DEF Refused, StoredTrip, Confirmed, TypeOK, Request
<1>q. QED
  BY <1>1, <1>2, <1>3, <1>4, <1>5, <1>6, <1>7, <1>8, <1>9, <1>10

LEMMA CreateMinimumStep ==
    ASSUME IInv, NEW c \in Calls, CreateMinimum(c)
    PROVE  IInv'
<1> USE ConfirmAssumption, AbsentAssumption DEF IInv, CreateMinimum,
      InsertSession, rowVars, callVars, Goto
<1>1. TypeOK'
  BY TripOK DEF TypeOK, Stages
<1>2. /\ Started' /\ Locking' /\ PreRead' /\ Guarded'
      /\ StoredTrip' /\ Confirmed' /\ Heard' /\ Refused'
  BY DEF Started, Locking, PreRead, Guarded, StoredTrip, Confirmed, Heard,
     Refused, Request, Choice, Exclusive, TripOf, Events
<1>3. StagedTrip'
  BY InputOK, TripOK DEF StagedTrip, PreRead, TypeOK, Request, Choice, TripOf,
     Guarded, Locking, Exclusive
<1>q. QED
  BY <1>1, <1>2, <1>3

LEMMA UpdateDecisionStep ==
    ASSUME IInv, NEW c \in Calls, UpdateDecision(c)
    PROVE  IInv'
<1> USE ConfirmAssumption, AbsentAssumption DEF IInv, UpdateDecision, rowVars,
      callVars, Goto
<1>1. TypeOK'
  BY DEF TypeOK, Stages
<1>2. /\ Started' /\ Locking' /\ PreRead' /\ Guarded' /\ StagedTrip'
      /\ StoredTrip' /\ Confirmed' /\ Heard' /\ Refused'
  BY DEF Started, Locking, PreRead, Guarded, StagedTrip, StoredTrip,
     Confirmed, Heard, Refused, Request, Choice, Exclusive, TripOf, Events
<1>q. QED
  BY <1>1, <1>2

LEMMA CommitStep ==
    ASSUME IInv, NEW c \in Calls, Commit(c)
    PROVE  IInv'
<1> USE ConfirmAssumption, AbsentAssumption DEF IInv, Commit,
      TransactionEffect, EndTransaction, Released, callVars, Goto
<1>1. TypeOK'
  BY InputOK DEF TypeOK, Stages
<1>2. Started' /\ PreRead' /\ Heard' /\ Refused'
  BY DEF Started, PreRead, Heard, Refused, Request, Choice, Events
<1>3. Locking'
  BY InputOK DEF Locking, Exclusive, TypeOK, Request
<1>4. Guarded'
  BY DEF Guarded, Exclusive, Locking, TypeOK, Request, Choice
<1>5. StagedTrip'
  BY InputOK DEF StagedTrip, TypeOK, Request, Choice, TripOf
<1>6. StoredTrip'
  BY InputOK DEF StoredTrip, Exclusive, TypeOK, Request, Choice, TripOf,
     StagedTrip, Guarded
<1>7. Confirmed'
  BY DEF Confirmed, StagedTrip, TypeOK, Request
<1>q. QED
  BY <1>1, <1>2, <1>3, <1>4, <1>5, <1>6, <1>7

LEMMA CommitUnacknowledgedStep ==
    ASSUME IInv, NEW c \in Calls, CommitUnacknowledged(c)
    PROVE  IInv'
<1> USE ConfirmAssumption, AbsentAssumption DEF IInv, CommitUnacknowledged,
      rowVars, Goto, Throw
<1>1. TypeOK'
  BY DEF TypeOK, Stages, Replies
<1>2. /\ Started' /\ Locking' /\ PreRead' /\ Guarded' /\ StagedTrip'
      /\ StoredTrip' /\ Confirmed' /\ Heard' /\ Refused'
  BY DEF Started, Locking, PreRead, Guarded, StagedTrip, StoredTrip,
     Confirmed, Heard, Refused, Request, Choice, Exclusive, TripOf, Events
<1>q. QED
  BY <1>1, <1>2

LEMMA RollbackStep ==
    ASSUME IInv, NEW c \in Calls, Rollback(c)
    PROVE  IInv'
<1> USE ConfirmAssumption, AbsentAssumption DEF IInv, Rollback,
      EndTransaction, Released, rowVars, callVars, Goto
<1>1. TypeOK'
  BY DEF TypeOK, Stages
<1>2. /\ Started' /\ PreRead' /\ Guarded' /\ StoredTrip'
      /\ Confirmed' /\ Heard' /\ Refused'
  BY DEF Started, PreRead, Guarded, StoredTrip, Confirmed, Heard, Refused,
     Request, Choice, Exclusive, TripOf, Events
<1>3. Locking'
  BY InputOK DEF Locking, Exclusive, Request
<1>4. StagedTrip'
  BY InputOK DEF StagedTrip, TypeOK, Request, Choice, TripOf
<1>q. QED
  BY <1>1, <1>2, <1>3, <1>4

LEMMA EmitStep ==
    ASSUME IInv, NEW c \in Calls, Emit(c)
    PROVE  IInv'
<1> USE ConfirmAssumption, AbsentAssumption DEF IInv, Emit, rowVars, Goto,
      Throw
<1>1. TypeOK'
  BY EventsOK DEF TypeOK, Stages, Replies
<1>2. /\ Started' /\ Locking' /\ PreRead' /\ Guarded'
      /\ StagedTrip' /\ StoredTrip' /\ Confirmed' /\ Refused'
  BY DEF Started, Locking, PreRead, Guarded, StagedTrip, StoredTrip,
     Confirmed, Refused, Request, Choice, Exclusive, TripOf
<1>3. Heard'
  BY DEF Heard, StoredTrip, TypeOK, Choice, Events
<1>q. QED
  BY <1>1, <1>2, <1>3

LEMMA QueryFailsStep ==
    ASSUME IInv, NEW c \in Calls, QueryFails(c)
    PROVE  IInv'
<1> USE ConfirmAssumption, AbsentAssumption DEF IInv, QueryFails, rowVars,
      Goto, Throw
<1>1. TypeOK'
  BY DEF TypeOK, Stages, Replies
<1>2. Confirmed'
  BY DEF Confirmed, Request
<1>3. Started'
  BY DEF Started, TypeOK
<1>4. Locking'
  BY DEF Locking, Exclusive, Request, TypeOK
<1>5. PreRead'
  BY DEF PreRead, Request, TypeOK
<1>6. Guarded'
  BY DEF Guarded, Exclusive, Request, Choice, TypeOK
<1>7. StagedTrip'
  BY DEF StagedTrip, TripOf, Request, Choice, TypeOK
<1>8. StoredTrip'
  BY DEF StoredTrip, TripOf, Request, Choice, TypeOK
<1>9. Heard'
  BY DEF Heard, Events, Choice, TypeOK
<1>10. Refused'
  BY DEF Refused, Request, TypeOK
<1>q. QED
  BY <1>1, <1>2, <1>3, <1>4, <1>5, <1>6, <1>7, <1>8, <1>9, <1>10

LEMMA CrashStep ==
    ASSUME IInv, Crash
    PROVE  IInv'
<1> USE ConfirmAssumption, AbsentAssumption DEF IInv, Crash, InFlight, rowVars
<1>1. TypeOK'
  BY DEF TypeOK, Stages, Replies
<1>2. /\ Started' /\ Locking' /\ PreRead' /\ Guarded' /\ StagedTrip'
      /\ StoredTrip' /\ Confirmed' /\ Heard' /\ Refused'
  BY DEF Started, Locking, PreRead, Guarded, StagedTrip, StoredTrip,
     Confirmed, Heard, Refused, Request, Choice, Exclusive, TripOf, Events
<1>q. QED
  BY <1>1, <1>2

----------------------------------------------------------------------------
(* The invariant is inductive: it holds initially, and every step of       *)
(* every call, every fault and every crash preserves it.                   *)
LEMMA InitIInv == Init => IInv
<1> SUFFICES ASSUME Init
             PROVE  IInv
  OBVIOUS
<1> USE ConfirmAssumption, AbsentAssumption DEF Init
<1>1. TypeOK
  BY DEF TypeOK, NoInput, Stages, Replies
<1>2. Started /\ Locking /\ PreRead /\ Guarded
  BY DEF Started, Locking, PreRead, Guarded, Exclusive
<1>3. StagedTrip /\ StoredTrip /\ Confirmed /\ Heard /\ Refused
  BY DEF StagedTrip, StoredTrip, Confirmed, Heard, Refused
<1>q. QED
  BY <1>1, <1>2, <1>3 DEF IInv

LEMMA StutterIInv == IInv /\ UNCHANGED vars => IInv'
<1> SUFFICES ASSUME IInv, UNCHANGED vars
             PROVE  IInv'
  OBVIOUS
<1> USE DEF IInv, vars
<1>1. TypeOK' /\ Started' /\ PreRead'
  BY DEF TypeOK, Started, PreRead, Request
<1>2. Locking' /\ Guarded'
  BY DEF Locking, Guarded, Exclusive, Request, Choice
<1>3. StagedTrip' /\ StoredTrip'
  BY DEF StagedTrip, StoredTrip, TripOf, Request, Choice
<1>4. Confirmed' /\ Heard' /\ Refused'
  BY DEF Confirmed, Heard, Refused, Events, Request, Choice
<1>q. QED
  BY <1>1, <1>2, <1>3, <1>4

LEMMA NextIInv == IInv /\ [Next]_vars => IInv'
<1> SUFFICES ASSUME IInv, [Next]_vars
             PROVE  IInv'
  OBVIOUS
<1>1. ASSUME NEW r \in Requests, NEW o \in Offers, SavePreliminary(r, o)
      PROVE  IInv'
  BY <1>1, SavePreliminaryStep
<1>2. ASSUME NEW c \in Calls, NEW i \in Inputs, Call(c, i)
      PROVE  IInv'
  BY <1>2, CallStep
<1>3. ASSUME NEW c \in Calls, Step(c)
      PROVE  IInv'
  BY <1>3, ReadDecisionStep, BeginTransactionStep, LockDecisionStep,
     CreateMinimumStep, UpdateDecisionStep, CommitStep, RollbackStep, EmitStep
     DEF Step
<1>4. ASSUME NEW c \in Calls, CommitUnacknowledged(c) \/ QueryFails(c)
      PROVE  IInv'
  BY <1>4, CommitUnacknowledgedStep, QueryFailsStep
<1>5. CASE Crash
  BY <1>5, CrashStep
<1>6. CASE UNCHANGED vars
  BY <1>6, StutterIInv
<1>q. QED
  BY <1>1, <1>2, <1>3, <1>4, <1>5, <1>6 DEF Next

(* The inductive invariant holds in every state of every behaviour.        *)
THEOREM Inductive == Spec => []IInv
  BY InitIInv, NextIInv, PTL DEF Spec

(* Every variable keeps its type, whatever the calls do. *)
THEOREM TypeCorrect == Spec => []TypeOK
<1>1. IInv => TypeOK
  BY DEF IInv
<1>q. QED
  BY <1>1, Inductive, PTL

LEMMA TripFields ==
    ASSUME NEW c \in Calls
    PROVE  /\ TripOf(c).request = Request(c)
           /\ TripOf(c).rider = decision[c].rider
           /\ TripOf(c).pickup = Choice(c)
  BY DEF TripOf

(* SELECT ... FOR UPDATE excludes: no two calls are past the lock of one   *)
(* request at the same time.                                               *)
THEOREM LockingIsExclusive == Spec => []LockExcludes
<1>1. IInv => LockExcludes
  BY DEF IInv, Locking, LockExcludes
<1>q. QED
  BY <1>1, Inductive, PTL

(* A double confirmation never reaches the unique index of trips: at most  *)
(* one trip per request is stored or staged, by any number of calls.       *)
THEOREM AtMostOneTrip == Spec => []UniqueIndexNeverRejects
<1>1. IInv => UniqueIndexNeverRejects
  <2> SUFFICES ASSUME IInv, NEW r \in Requests, NEW c \in Calls, NEW d \in Calls,
                      HasTrip(c, r), HasTrip(d, r)
               PROVE  c = d
    BY DEF UniqueIndexNeverRejects
  <2>1. Request(c) = r /\ Request(d) = r
    BY TripFields DEF HasTrip, IInv, StagedTrip, StoredTrip
  <2>2. \/ tripId[r] = c
        \/ tripId[r] = NoCall /\ lock[r] = c
    BY <2>1 DEF HasTrip, IInv, StagedTrip, StoredTrip
  <2>3. \/ tripId[r] = d
        \/ tripId[r] = NoCall /\ lock[r] = d
    BY <2>1 DEF HasTrip, IInv, StagedTrip, StoredTrip
  <2>q. QED
    BY <2>2, <2>3, ConfirmAssumption
<1>q. QED
  BY <1>1, Inductive, PTL

(* The trip and the confirmation columns agree in every committed state:   *)
(* neither is ever stored without the other.                               *)
THEOREM TripAndDecisionAgree == Spec => []TripMatchesDecision
<1>1. IInv => TripMatchesDecision
  <2> SUFFICES ASSUME IInv
               PROVE  TripMatchesDecision
    OBVIOUS
  <2>1. ASSUME NEW c \in Calls, trips[c] # NoTrip
        PROVE  tripId[Request(c)] = c /\ trips[c].rider = input[c].rider
    BY <2>1, TripFields DEF IInv, StoredTrip, PreRead
  <2>2. ASSUME NEW r \in Requests, tripId[r] # NoCall
        PROVE  /\ offer[r] # NoOffer
               /\ trips[tripId[r]] # NoTrip
               /\ Confirms(trips[tripId[r]], r)
    <3> DEFINE d == tripId[r]
    <3>1. d \in Calls /\ trips[d] # NoTrip /\ Request(d) = r
      BY <2>2 DEF IInv, TypeOK, Confirmed
    <3>2. /\ trips[d] = TripOf(d)
          /\ userChoice[r] = Choice(d)
          /\ decision[d] # NoOffer
          /\ Choice(d) = "suggested" => decision[d].point # NoPoint
      BY <3>1 DEF IInv, StoredTrip
    <3>3. offer[r] = decision[d] /\ offer[r] \in Offers
      BY <3>1, <3>2 DEF IInv, PreRead, TypeOK
    <3>q. QED
      BY <3>1, <3>2, <3>3, AbsentAssumption DEF Confirms, TripOf, Offers
  <2>q. QED
    BY <2>1, <2>2 DEF TripMatchesDecision, IInv, Confirmed
<1>q. QED
  BY <1>1, Inductive, PTL

(* No listener hears of a trip that is not stored, or of a choice that the *)
(* rider did not make.                                                     *)
THEOREM EventsAreTrue == Spec => []EventsFollowCommit
<1>1. IInv => EventsFollowCommit
  <2> SUFFICES ASSUME IInv, NEW c \in Calls, emitted[c] # {}
               PROVE  /\ trips[c] # NoTrip
                      /\ "TripAssigned" \in emitted[c]
                      /\ "SuggestionAccepted" \in emitted[c] <=> trips[c].pickup = "suggested"
                      /\ "SuggestionRejected" \in emitted[c] <=>
                             trips[c].pickup = "original" /\ offer[Request(c)].point # NoPoint
    BY DEF EventsFollowCommit
  <2>1. trips[c] # NoTrip /\ pc[c] = "answered" /\ emitted[c] = Events(c)
    BY DEF IInv, Heard
  <2>2. /\ trips[c] = TripOf(c) /\ offer[Request(c)] = decision[c]
        /\ Choice(c) = "suggested" => decision[c].point # NoPoint
    BY <2>1 DEF IInv, StoredTrip, PreRead
  <2>3. trips[c].pickup = Choice(c) /\ Choice(c) \in Choices
    BY <2>1, <2>2, InputOK DEF TripOf
  <2>q. QED
    BY <2>1, <2>2, <2>3 DEF Events, Choices
<1>q. QED
  BY <1>1, Inductive, PTL

(* A confirmation is never replaced, changed or undone. *)
THEOREM Finality == Spec => ConfirmationIsFinal
<1>1. IInv /\ [Next]_vars => KeepsConfirmations
  <2> SUFFICES ASSUME IInv, [Next]_vars
               PROVE  KeepsConfirmations
    OBVIOUS
  <2>1. ASSUME NEW c \in Calls, Commit(c)
        PROVE  KeepsConfirmations
    <3> SUFFICES ASSUME NEW r \in Requests, tripId[r] # NoCall
                 PROVE  /\ tripId'[r] = tripId[r]
                        /\ userChoice'[r] = userChoice[r]
                        /\ trips'[tripId[r]] = trips[tripId[r]]
      BY DEF KeepsConfirmations
    <3>1. pc[c] = "commit" /\ r # Request(c)
      BY <2>1 DEF Commit, IInv, Guarded, Exclusive
    <3>2. tripId[r] \in Calls /\ tripId[r] # c
      BY <3>1 DEF IInv, TypeOK, Confirmed, StoredTrip
    <3>q. QED
      BY <2>1, <3>1, <3>2 DEF Commit, TransactionEffect, IInv, TypeOK
  <2>2. CASE UNCHANGED <<tripId, userChoice, trips>>
    BY <2>2 DEF KeepsConfirmations
  <2>q. QED
    BY <2>1, <2>2 DEF Next, vars, rowVars, Step, SavePreliminary, Call,
       ReadDecision, BeginTransaction, LockDecision, CreateMinimum,
       UpdateDecision, CommitUnacknowledged, Rollback, Emit, QueryFails, Crash
<1>q. QED
  BY <1>1, Inductive, PTL DEF Spec, ConfirmationIsFinal

----------------------------------------------------------------------------
(* Refinement: every step of ConfirmDispatch is a step of RideBooking, or  *)
(* leaves it unchanged.  COMMIT is where a request is booked.              *)
LEMMA PendingCall ==
    ASSUME IInv, NEW c \in Calls, pc[c] \notin {"idle", "answered"}
    PROVE  Booking!Pending(c)
<1>1. Request(c) \in Requests
  BY InputOK
<1>q. QED
  BY <1>1, ConfirmAssumption DEF Booking!Pending, Told

(* A call that is answered by a step answers in RideBooking.               *)
LEMMA AnswerRefines ==
    ASSUME IInv, NEW c \in Calls, NEW answer \in Booking!Answers,
           pc[c] \notin {"idle", "answered"},
           pc' = [pc EXCEPT ![c] = "answered"],
           \A d \in Calls \ {c} : reply'[d] = reply[d],
           Told(c)' = answer,
           Booking!Truthful(c, answer),
           UNCHANGED <<tripId, input>>
    PROVE  Booking!Answer(c, answer)
<1>1. Booking!Pending(c)
  BY PendingCall
<1>2. [d \in Calls |-> Told(d)]' = [[d \in Calls |-> Told(d)] EXCEPT ![c] = answer]
  <2>1. \A d \in Calls \ {c} : Told(d)' = Told(d)
    BY DEF Told, IInv, TypeOK
  <2>q. QED
    BY <2>1
<1>3. [d \in Calls |-> Request(d)]' = [d \in Calls |-> Request(d)]
  BY DEF Request
<1>q. QED
  BY <1>1, <1>2, <1>3 DEF Booking!Answer

(* A step that answers nobody leaves RideBooking's answers alone.          *)
LEMMA SilentRefines ==
    ASSUME IInv, NEW c \in Calls, NEW stage,
           pc[c] \notin {"idle", "answered"}, stage # "answered",
           pc' = [pc EXCEPT ![c] = stage],
           UNCHANGED <<input>>,
           \A d \in Calls \ {c} : reply'[d] = reply[d]
    PROVE  /\ [d \in Calls |-> Told(d)]' = [d \in Calls |-> Told(d)]
           /\ [d \in Calls |-> Request(d)]' = [d \in Calls |-> Request(d)]
<1>1. \A d \in Calls : Told(d)' = Told(d)
  BY DEF Told, IInv, TypeOK
<1>2. \A d \in Calls : Request(d)' = Request(d)
  BY DEF Request
<1>q. QED
  BY <1>1, <1>2

LEMMA RefinesCall ==
    ASSUME IInv, NEW c \in Calls, NEW i \in Inputs, Call(c, i)
    PROVE  Booking!Ask(c, i.request)
<1> USE DEF Call
<1>1. [d \in Calls |-> Request(d)]' =
          [[d \in Calls |-> Request(d)] EXCEPT ![c] = i.request]
  BY DEF Request, IInv, TypeOK
<1>2. [d \in Calls |-> Told(d)]' = [d \in Calls |-> Told(d)]
  BY DEF Told, Goto, IInv, TypeOK
<1>3. Request(c) = NoRequest
  BY InputNone
<1>q. QED
  BY <1>1, <1>2, <1>3 DEF Booking!Ask, rowVars

(* The step of each call, by what it means to its caller.                  *)
LEMMA RefinesStep ==
    ASSUME IInv, NEW c \in Calls, Step(c) \/ CommitUnacknowledged(c) \/ QueryFails(c)
    PROVE  [Booking!Next]_(Booking!bookingVars)
<1> DEFINE Stutters == UNCHANGED Booking!bookingVars
<1>1. CASE ReadDecision(c)
  <2>1. tripId[Request(c)] # c
    BY <1>1, InputOK, ConfirmAssumption DEF ReadDecision, IInv, StoredTrip, Confirmed
  <2>2. CASE pc' = [pc EXCEPT ![c] = "begin"]
    <3>1. UNCHANGED <<reply, input, tripId>>
      BY <1>1, <2>2 DEF ReadDecision, rowVars, Throw, Goto, IInv, TypeOK
    <3>2. Stutters
      BY <1>1, <2>2, <3>1, SilentRefines DEF ReadDecision, Booking!bookingVars
    <3>q. QED
      BY <3>2
  <2>3. CASE pc' = [pc EXCEPT ![c] = "answered"]
    <3>1. Told(c)' = "refused"
      BY <1>1, <2>3 DEF ReadDecision, Throw, Goto, Told, Refusals, IInv, TypeOK
    <3>2. Booking!Answer(c, "refused")
      BY <1>1, <2>1, <2>3, <3>1, AnswerRefines
         DEF ReadDecision, rowVars, Throw, Goto, IInv, TypeOK, Booking!Answers, Booking!Truthful
    <3>q. QED
      BY <3>2 DEF Booking!Next, Booking!Answers
  <2>q. QED
    BY <1>1, <2>2, <2>3 DEF ReadDecision, Throw, Goto
<1>2. CASE BeginTransaction(c) \/ CreateMinimum(c) \/ UpdateDecision(c)
  <2>1. Stutters
    BY <1>2, SilentRefines DEF BeginTransaction, CreateMinimum, UpdateDecision,
       rowVars, callVars, Goto, Booking!bookingVars
  <2>q. QED
    BY <2>1
<1>3. CASE LockDecision(c)
  <2>1. Stutters
    BY <1>3, SilentRefines DEF LockDecision, rowVars, Throw, Goto, IInv, TypeOK,
       Booking!bookingVars
  <2>q. QED
    BY <2>1
<1>4. CASE Commit(c)
  <2>1. /\ [d \in Calls |-> Told(d)]' = [d \in Calls |-> Told(d)]
        /\ [d \in Calls |-> Request(d)]' = [d \in Calls |-> Request(d)]
    BY <1>4, SilentRefines DEF Commit, callVars, Goto
  <2>2. Booking!Pending(c) /\ tripId[Request(c)] = NoCall
    BY <1>4, PendingCall DEF Commit, IInv, Guarded, Exclusive
  <2>3. Booking!Book(c)
    BY <1>4, <2>1, <2>2 DEF Commit, TransactionEffect, Booking!Book
  <2>q. QED
    BY <2>3 DEF Booking!Next
<1>5. CASE Rollback(c)
  <2>1. /\ reply[c] \in {"alreadyConfirmed", "missingCoordinates", "error"}
        /\ reply[c] = "alreadyConfirmed" => tripId[Request(c)] \notin {NoCall, c}
        /\ tripId[Request(c)] # c
    BY <1>5, InputOK, ConfirmAssumption DEF Rollback, IInv, Refused, StoredTrip, Confirmed
  <2>2. PICK answer \in Booking!Answers :
            Told(c)' = answer /\ Booking!Truthful(c, answer)
    BY <1>5, <2>1 DEF Rollback, Goto, callVars, Told, Refusals, IInv, TypeOK,
       Booking!Answers, Booking!Truthful
  <2>3. Booking!Answer(c, answer)
    BY <1>5, <2>2, AnswerRefines DEF Rollback, rowVars, callVars, Goto
  <2>q. QED
    BY <2>3 DEF Booking!Next
<1>6. CASE Emit(c)
  <2>1. tripId[Request(c)] = c
    BY <1>6 DEF Emit, IInv, StoredTrip
  <2>2. Told(c)' = "assigned" /\ Booking!Truthful(c, "assigned")
    BY <1>6, <2>1 DEF Emit, Throw, Goto, Told, Refusals, IInv, TypeOK, Booking!Truthful
  <2>3. Booking!Answer(c, "assigned")
    BY <1>6, <2>2, AnswerRefines DEF Emit, rowVars, Throw, Goto, IInv, TypeOK, Booking!Answers
  <2>q. QED
    BY <2>3 DEF Booking!Next, Booking!Answers
<1>7. CASE /\ CommitUnacknowledged(c) \/ QueryFails(c)
           /\ pc' = [pc EXCEPT ![c] = "answered"]
  <2>1. Told(c)' = "error" /\ Booking!Truthful(c, "error")
    BY <1>7 DEF CommitUnacknowledged, QueryFails, Throw, Goto, Told, Refusals,
       IInv, TypeOK, Booking!Truthful
  <2>2. Booking!Answer(c, "error")
    BY <1>7, <2>1, AnswerRefines DEF CommitUnacknowledged, QueryFails, rowVars,
       Throw, Goto, IInv, TypeOK, Booking!Answers
  <2>q. QED
    BY <2>2 DEF Booking!Next, Booking!Answers
<1>8. CASE QueryFails(c) /\ pc' = [pc EXCEPT ![c] = "rollback"]
  <2>1. Stutters
    BY <1>8, SilentRefines DEF QueryFails, rowVars, Throw, Goto, IInv, TypeOK,
       Booking!bookingVars
  <2>q. QED
    BY <2>1
<1>q. QED
  BY <1>1, <1>2, <1>3, <1>4, <1>5, <1>6, <1>7, <1>8
     DEF Step, CommitUnacknowledged, QueryFails, Throw, Goto

LEMMA RefinesCrash ==
    ASSUME IInv, Crash
    PROVE  Booking!LoseConnections(InFlight)
<1> USE DEF Crash, InFlight
<1>1. \A c \in InFlight : Booking!Pending(c)
  BY PendingCall
<1>2. [c \in Calls |-> Told(c)]' =
          [c \in Calls |-> IF c \in InFlight THEN "error" ELSE Told(c)]
  BY DEF Told, Refusals, IInv, TypeOK
<1>3. [c \in Calls |-> Request(c)]' = [c \in Calls |-> Request(c)]
  BY DEF Request
<1>q. QED
  BY <1>1, <1>2, <1>3 DEF Booking!LoseConnections, rowVars

(* ConfirmDispatch implements RideBooking: a request is booked at most     *)
(* once and atomically, and every answer is true of the bookings when it   *)
(* is given.                                                               *)
THEOREM ImplementsRideBooking == Spec => BookedOnce
<1>1. Init => Booking!Init
  BY DEF Init, Booking!Init, Told, Request, NoInput
<1>2. IInv /\ [Next]_vars => [Booking!Next]_(Booking!bookingVars)
  <2> SUFFICES ASSUME IInv, [Next]_vars
               PROVE  [Booking!Next]_(Booking!bookingVars)
    OBVIOUS
  <2>1. ASSUME NEW r \in Requests, NEW o \in Offers, SavePreliminary(r, o)
        PROVE  UNCHANGED Booking!bookingVars
    BY <2>1 DEF SavePreliminary, callVars, Booking!bookingVars, Told, Request
  <2>2. ASSUME NEW c \in Calls, NEW i \in Inputs, Call(c, i)
        PROVE  Booking!Next
    <3>1. i.request \in Requests
      BY DEF Inputs
    <3>q. QED
      BY <2>2, <3>1, RefinesCall DEF Booking!Next
  <2>3. ASSUME NEW c \in Calls, Step(c) \/ CommitUnacknowledged(c) \/ QueryFails(c)
        PROVE  [Booking!Next]_(Booking!bookingVars)
    BY <2>3, RefinesStep
  <2>4. CASE Crash
    <3>1. InFlight \in SUBSET Calls
      BY DEF InFlight
    <3>q. QED
      BY <2>4, <3>1, RefinesCrash DEF Booking!Next
  <2>5. CASE UNCHANGED vars
    BY <2>5 DEF vars, Booking!bookingVars, Told, Request
  <2>q. QED
    BY <2>1, <2>2, <2>3, <2>4, <2>5 DEF Next
<1>q. QED
  BY <1>1, <1>2, Inductive, PTL DEF Spec, BookedOnce, Booking!Spec
=============================================================================
