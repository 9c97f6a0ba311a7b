-------------------------- MODULE ConfirmDispatch --------------------------
(***************************************************************************)
(* POST /rides/confirm: ConfirmDispatchUseCase.execute, as many concurrent *)
(* calls over the tables dispatch_decisions and trips.  One action is what *)
(* a call does between two awaits.  A transaction's writes are staged and  *)
(* become visible at COMMIT (PostgreSQL, READ COMMITTED); SELECT ... FOR   *)
(* UPDATE is a row lock held to the end of the transaction.                *)
(*                                                                         *)
(* The columns of dispatch_decisions are split in two: offer[r], written   *)
(* once by POST /rides/request, and tripId[r], userChoice[r], written by   *)
(* the confirmation.  A trip's id is a fresh UUID, so it is named by the   *)
(* call that creates it.  The null check after the lock (lines 69-72) has  *)
(* no action: no code deletes a row of dispatch_decisions.                 *)
(***************************************************************************)
EXTENDS Naturals, FiniteSets

CONSTANTS Calls, Requests, Riders, Vehicles, Points,
          NoCall, NoRequest, NoPoint, NoOffer, NoTrip,
          PoolSize,     \* connections of the DataSource's pool
          MaxCrashes    \* bound: crashes of the server process

ASSUME ConfirmAssumption ==
    /\ NoCall \notin Calls
    /\ NoRequest \notin Requests
    /\ NoPoint \notin Points
    /\ PoolSize \in Nat \ {0}
    /\ MaxCrashes \in Nat

Choices == {"original", "suggested"}

(* What an evaluation stores: point is suggested_point_id together with    *)
(* suggested_lat/lng and suggestion_status = 'shown', which it sets and    *)
(* leaves out together.                                                    *)
Offers == [rider : Riders, vehicle : Vehicles, point : Points \cup {NoPoint}]

Trips == [request : Requests, rider : Riders, vehicle : Vehicles,
          pickup : Choices, point : Points \cup {NoPoint}]

Inputs == [request : Requests, rider : Riders, choice : Choices]

ASSUME AbsentAssumption == NoOffer \notin Offers /\ NoTrip \notin Trips

Stages == {"idle", "read", "begin", "lock", "insert", "update", "commit",
           "emit", "rollback", "answered"}

Replies == {"none", "assigned", "notFound", "notAuthorized",
            "alreadyConfirmed", "missingCoordinates", "error"}

EventNames == {"TripAssigned", "Completed", "SuggestionAccepted",
               "SuggestionRejected"}

VARIABLES
    offer,       \* dispatch_decisions: the columns the evaluation wrote
    tripId,      \* dispatch_decisions.trip_id
    userChoice,  \* dispatch_decisions.user_choice, "none" for null
    trips,       \* trips, by id
    lock,        \* the call whose transaction locks the decision row
    input,       \* the ConfirmDispatchInput of each call
    pc,          \* where each call is
    decision,    \* the call's local `decision`, read before the transaction
    staged,      \* the trip inserted by the call's open transaction
    reply,       \* what the call answers, or will once it is rolled back
    emitted,     \* the events the call emitted
    crashes      \* crashes of the process so far

rowVars == <<offer, tripId, userChoice, trips>>
callVars == <<input, decision, reply, emitted>>
vars == <<offer, tripId, userChoice, trips, lock, input, pc, decision, staged,
          reply, emitted, crashes>>

NoInput == [request |-> NoRequest, rider |-> NoCall, choice |-> "none"]

Init ==
    /\ offer = [r \in Requests |-> NoOffer]
    /\ tripId = [r \in Requests |-> NoCall]
    /\ userChoice = [r \in Requests |-> "none"]
    /\ trips = [c \in Calls |-> NoTrip]
    /\ lock = [r \in Requests |-> NoCall]
    /\ input = [c \in Calls |-> NoInput]
    /\ pc = [c \in Calls |-> "idle"]
    /\ decision = [c \in Calls |-> NoOffer]
    /\ staged = [c \in Calls |-> NoTrip]
    /\ reply = [c \in Calls |-> "none"]
    /\ emitted = [c \in Calls |-> {}]
    /\ crashes = 0

----------------------------------------------------------------------------
Request(c) == input[c].request
Choice(c) == input[c].choice

InTransaction == {c \in Calls : pc[c] \in {"lock", "insert", "update", "commit",
                                           "rollback"}}
FreeConnection == Cardinality(InTransaction) < PoolSize

Goto(c, stage) == pc' = [pc EXCEPT ![c] = stage]

(* Throwing ends the call where no transaction is open and rolls back      *)
(* where one is.                                                           *)
Throw(c, stage, answer) ==
    /\ Goto(c, stage)
    /\ reply' = [reply EXCEPT ![c] = answer]

(* What ending its transaction does to a call's row locks. *)
Released(c) == [r \in Requests |-> IF lock[r] = c THEN NoCall ELSE lock[r]]

----------------------------------------------------------------------------
(* External to a confirmation: POST /rides/request stores its offer before *)
(* it answers with the requestId.  That an offer is stored once is taken   *)
(* for granted here; ConfirmableRowIsFinal of EvaluateDispatch is what the *)
(* evaluation has to keep for it.                                          *)
SavePreliminary(r, o) ==
    /\ offer[r] = NoOffer
    /\ offer' = [offer EXCEPT ![r] = o]
    /\ UNCHANGED <<tripId, userChoice, trips, lock, pc, staged, crashes, callVars>>

(* A client confirms, for the first time or again. *)
Call(c, i) ==
    /\ pc[c] = "idle"
    /\ input' = [input EXCEPT ![c] = i]
    /\ Goto(c, "read")
    /\ UNCHANGED <<rowVars, lock, decision, staged, reply, emitted, crashes>>

(* The rider of the pre-read decision is the caller. *)
Owns(c) == offer[Request(c)].rider = input[c].rider

(* findByRequestId, without a lock, then the ownership check. *)
ReadDecision(c) ==
    /\ pc[c] = "read"
    /\ FreeConnection
    /\ \/ /\ offer[Request(c)] = NoOffer
          /\ Throw(c, "answered", "notFound")
          /\ UNCHANGED decision
       \/ /\ offer[Request(c)] # NoOffer
          /\ ~Owns(c)
          /\ Throw(c, "answered", "notAuthorized")
          /\ UNCHANGED decision
       \/ /\ offer[Request(c)] # NoOffer
          /\ Owns(c)
          /\ decision' = [decision EXCEPT ![c] = offer[Request(c)]]
          /\ Goto(c, "begin")
          /\ UNCHANGED reply
    /\ UNCHANGED <<rowVars, lock, input, staged, emitted, crashes>>

(* dataSource.transaction takes a connection of the pool until it ends. *)
BeginTransaction(c) ==
    /\ pc[c] = "begin"
    /\ FreeConnection
    /\ Goto(c, "lock")
    /\ UNCHANGED <<rowVars, lock, staged, crashes, callVars>>

(* setLock('pessimistic_write'): FOR UPDATE waits for the row, then holds  *)
(* it to the end of the transaction.  The mutant is a plain SELECT.        *)
MutantLocked(c) == lock
Locked(c) == [lock EXCEPT ![Request(c)] = c]

(* The idempotency check, on the row just locked.  The mutant forgets it.  *)
MutantAlreadyConfirmed(c) == FALSE
AlreadyConfirmed(c) == tripId[Request(c)] # NoCall

MissingCoordinates(c) == Choice(c) = "suggested" /\ decision[c].point = NoPoint

LockDecision(c) ==
    /\ pc[c] = "lock"
    /\ lock[Request(c)] = NoCall
    /\ lock' = Locked(c)
    /\ \/ AlreadyConfirmed(c) /\ Throw(c, "rollback", "alreadyConfirmed")
       \/ /\ ~AlreadyConfirmed(c)
          /\ MissingCoordinates(c)
          /\ Throw(c, "rollback", "missingCoordinates")
       \/ /\ ~AlreadyConfirmed(c)
          /\ ~MissingCoordinates(c)
          /\ Goto(c, "insert")
          /\ UNCHANGED reply
    /\ UNCHANGED <<rowVars, input, decision, staged, emitted, crashes>>

(* The session createMinimum inserts on: the transaction's, through the    *)
(* manager it is given.  The mutant takes another connection of the pool,  *)
(* a session that holds no lock.                                           *)
MutantInsertSession(c) == NoCall
InsertSession(c) == c

MutantTripOf(c) ==
    [request |-> Request(c), rider |-> input[c].rider,
     vehicle |-> offer[Request(c)].vehicle, pickup |-> Choice(c),
     point |-> decision[c].point]
TripOf(c) ==
    [request |-> Request(c), rider |-> decision[c].rider,
     vehicle |-> offer[Request(c)].vehicle, pickup |-> Choice(c),
     point |-> IF Choice(c) = "suggested" THEN decision[c].point ELSE NoPoint]

(* TripService.createMinimum.  The foreign key on request_id takes KEY     *)
(* SHARE on the decision row, which waits for any other session's FOR      *)
(* UPDATE.  UniqueIndexNeverRejects justifies leaving out the rejection    *)
(* by UNIQUE (request_id).                                                 *)
CreateMinimum(c) ==
    /\ pc[c] = "insert"
    /\ lock[Request(c)] \in {NoCall, InsertSession(c)}
    /\ staged' = [staged EXCEPT ![c] = TripOf(c)]
    /\ Goto(c, "update")
    /\ UNCHANGED <<rowVars, lock, crashes, callVars>>

(* UPDATE dispatch_decisions, in the same transaction: its values are the  *)
(* staged trip's, so there is nothing more to stage.                       *)
UpdateDecision(c) ==
    /\ pc[c] = "update"
    /\ Goto(c, "commit")
    /\ UNCHANGED <<rowVars, lock, staged, crashes, callVars>>

(* COMMIT publishes both writes and frees the row. *)
MutantTransactionEffect(c) ==
    /\ trips' = [trips EXCEPT ![c] = staged[c]]
    /\ UNCHANGED <<tripId, userChoice>>
MutantSwappedParameters(c) ==
    /\ trips' = [trips EXCEPT ![c] = staged[c]]
    /\ tripId' = [tripId EXCEPT ![Request(c)] = Choice(c)]
    /\ userChoice' = [userChoice EXCEPT ![Request(c)] = c]
TransactionEffect(c) ==
    /\ trips' = [trips EXCEPT ![c] = staged[c]]
    /\ tripId' = [tripId EXCEPT ![Request(c)] = c]
    /\ userChoice' = [userChoice EXCEPT ![Request(c)] = Choice(c)]

EndTransaction(c) ==
    /\ lock' = Released(c)
    /\ staged' = [staged EXCEPT ![c] = NoTrip]

Commit(c) ==
    /\ pc[c] = "commit"
    /\ TransactionEffect(c)
    /\ EndTransaction(c)
    /\ Goto(c, "emit")
    /\ UNCHANGED <<offer, crashes, callVars>>

(* The acknowledgement of COMMIT is lost: the transaction rejects, and the *)
(* call ends in a 500 without emitting anything, its trip stored.          *)
CommitUnacknowledged(c) ==
    /\ pc[c] = "emit"
    /\ Throw(c, "answered", "error")
    /\ UNCHANGED <<rowVars, lock, input, decision, staged, emitted, crashes>>

(* ROLLBACK, after which the error is rethrown to the caller. *)
Rollback(c) ==
    /\ pc[c] = "rollback"
    /\ EndTransaction(c)
    /\ Goto(c, "answered")
    /\ UNCHANGED <<rowVars, crashes, callVars>>

(* Everything after the commit is one synchronous turn. *)
MutantEvents(c) ==
    {"TripAssigned", "Completed"} \cup
    (IF decision[c].point = NoPoint THEN {} ELSE {"SuggestionAccepted"})
Events(c) ==
    {"TripAssigned", "Completed"} \cup
    (IF decision[c].point = NoPoint THEN {}
     ELSE {IF Choice(c) = "suggested" THEN "SuggestionAccepted" ELSE "SuggestionRejected"})

Emit(c) ==
    /\ pc[c] = "emit"
    /\ emitted' = [emitted EXCEPT ![c] = Events(c)]
    /\ Throw(c, "answered", "assigned")
    /\ UNCHANGED <<rowVars, lock, input, decision, staged, crashes>>

(* A query rejects, with no effect. *)
QueryFails(c) ==
    /\ \/ pc[c] \in {"read", "begin"} /\ Throw(c, "answered", "error")
       \/ /\ pc[c] \in {"lock", "insert", "update", "commit"}
          /\ Throw(c, "rollback", "error")
    /\ UNCHANGED <<rowVars, lock, input, decision, staged, emitted, crashes>>

(* The process dies.  PostgreSQL aborts the transactions of its closed     *)
(* connections; every caller sees its connection drop.                     *)
InFlight == {c \in Calls : pc[c] \notin {"idle", "answered"}}

Crash ==
    /\ crashes < MaxCrashes
    /\ InFlight # {}
    /\ crashes' = crashes + 1
    /\ pc' = [c \in Calls |-> IF c \in InFlight THEN "answered" ELSE pc[c]]
    /\ reply' = [c \in Calls |-> IF c \in InFlight THEN "error" ELSE reply[c]]
    /\ lock' = [r \in Requests |-> NoCall]
    /\ staged' = [c \in Calls |-> NoTrip]
    /\ UNCHANGED <<rowVars, input, decision, emitted>>

Step(c) ==
    \/ ReadDecision(c) \/ BeginTransaction(c) \/ LockDecision(c)
    \/ CreateMinimum(c) \/ UpdateDecision(c) \/ Commit(c) \/ Rollback(c)
    \/ Emit(c)

Next ==
    \/ \E r \in Requests, o \in Offers : SavePreliminary(r, o)
    \/ \E c \in Calls, i \in Inputs : Call(c, i)
    \/ \E c \in Calls : Step(c)
    \/ \E c \in Calls : CommitUnacknowledged(c) \/ QueryFails(c)
    \/ Crash

Spec == Init /\ [][Next]_vars

(* Every awaited query settles, and the runtime resumes the call. *)
Fairness == \A c \in Calls : WF_vars(Step(c))

FairSpec == Spec /\ Fairness

----------------------------------------------------------------------------
TypeOK ==
    /\ offer \in [Requests -> Offers \cup {NoOffer}]
    /\ tripId \in [Requests -> Calls \cup {NoCall}]
    /\ userChoice \in [Requests -> Choices \cup {"none"}]
    /\ trips \in [Calls -> Trips \cup {NoTrip}]
    /\ lock \in [Requests -> Calls \cup {NoCall}]
    /\ input \in [Calls -> Inputs \cup {NoInput}]
    /\ pc \in [Calls -> Stages]
    /\ decision \in [Calls -> Offers \cup {NoOffer}]
    /\ staged \in [Calls -> Trips \cup {NoTrip}]
    /\ reply \in [Calls -> Replies]
    /\ emitted \in [Calls -> SUBSET EventNames]
    /\ crashes \in Nat

(* Past the lock, a call is alone with its request until it commits.       *)
Exclusive(c) == pc[c] \in {"insert", "update", "commit"}

LockExcludes ==
    \A c, d \in Calls : Exclusive(c) /\ Exclusive(d) /\ c # d => Request(c) # Request(d)

(* No INSERT INTO trips can ever meet another trip of its request, stored  *)
(* or in another open transaction: the lock and the idempotency check make *)
(* a double confirmation a 409 and never a unique violation (a 500).       *)
HasTrip(c, r) == \/ trips[c] # NoTrip /\ trips[c].request = r
                 \/ staged[c] # NoTrip /\ staged[c].request = r

UniqueIndexNeverRejects ==
    \A r \in Requests, c, d \in Calls : HasTrip(c, r) /\ HasTrip(d, r) => c = d

(* The trip and the confirmation columns are one ACID write: a stored trip *)
(* is the one its decision row points at, was asked for by the row's own   *)
(* rider, and carries the row's vehicle and the point the rider chose.     *)
Confirms(t, r) ==
    /\ t.request = r
    /\ t.rider = offer[r].rider
    /\ t.vehicle = offer[r].vehicle
    /\ t.pickup = userChoice[r]
    /\ t.point = IF userChoice[r] = "suggested" THEN offer[r].point ELSE NoPoint
    /\ userChoice[r] = "suggested" => offer[r].point \in Points

TripMatchesDecision ==
    /\ \A c \in Calls : trips[c] # NoTrip =>
            /\ tripId[Request(c)] = c
            /\ trips[c].rider = input[c].rider
    /\ \A r \in Requests : tripId[r] # NoCall =>
            /\ offer[r] # NoOffer
            /\ trips[tripId[r]] # NoTrip
            /\ Confirms(trips[tripId[r]], r)
    /\ \A r \in Requests : tripId[r] = NoCall => userChoice[r] = "none"

(* Listeners hear of a trip only once it is stored, and hear the choice    *)
(* that was stored; a suggestion is reported as taken or as declined,      *)
(* never as both, and only if one was shown.                               *)
EventsFollowCommit ==
    \A c \in Calls : emitted[c] # {} =>
        /\ trips[c] # NoTrip
        /\ "TripAssigned" \in emitted[c]
        /\ "SuggestionAccepted" \in emitted[c] <=> trips[c].pickup = "suggested"
        /\ "SuggestionRejected" \in emitted[c] <=>
               trips[c].pickup = "original" /\ offer[Request(c)].point # NoPoint

(* A confirmation is never undone, replaced or changed by a later call, a  *)
(* retry, an error or a crash.                                             *)
KeepsConfirmations ==
    \A r \in Requests : tripId[r] # NoCall =>
        /\ tripId'[r] = tripId[r]
        /\ userChoice'[r] = userChoice[r]
        /\ trips'[tripId[r]] = trips[tripId[r]]

ConfirmationIsFinal == [][KeepsConfirmations]_vars

(* Every call is answered: nobody waits forever for the row lock or for a  *)
(* connection of the pool.                                                 *)
EveryCallAnswered == \A c \in Calls : pc[c] = "read" ~> pc[c] = "answered"

----------------------------------------------------------------------------
(* The promise made to callers: the commit is the atomic step at which a   *)
(* request is booked, and answers are given once they can no longer become *)
(* false.                                                                  *)
Refusals == {"notFound", "notAuthorized", "missingCoordinates"}

Told(c) == IF pc[c] # "answered" THEN "none"
           ELSE IF reply[c] \in Refusals THEN "refused" ELSE reply[c]

Booking == INSTANCE RideBooking WITH
    booked <- tripId,
    asked  <- [c \in Calls |-> Request(c)],
    told   <- [c \in Calls |-> Told(c)]

BookedOnce == Booking!Spec
=============================================================================
