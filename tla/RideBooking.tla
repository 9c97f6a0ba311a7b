---------------------------- MODULE RideBooking ----------------------------
(***************************************************************************)
(* What POST /rides/confirm promises its callers, with no database in      *)
(* sight: a request is booked by at most one call, in one atomic step, and *)
(* every answer a caller gets is true of the bookings made so far.         *)
(* ConfirmDispatch implements this specification.                          *)
(***************************************************************************)
CONSTANTS Calls,       \* calls of POST /rides/confirm
          Requests,    \* requestIds the calls may name
          NoCall,      \* "booked by nobody"
          NoRequest    \* "asked for nothing yet"

Answers == {"assigned", "alreadyConfirmed", "refused", "error"}

VARIABLES booked,      \* the call that booked a request, or NoCall
          asked,       \* the request a call names, or NoRequest
          told         \* the answer a call got, or "none"

bookingVars == <<booked, asked, told>>

Init ==
    /\ booked = [r \in Requests |-> NoCall]
    /\ asked  = [c \in Calls |-> NoRequest]
    /\ told   = [c \in Calls |-> "none"]

Pending(c) == asked[c] # NoRequest /\ told[c] = "none"

(* A client calls. *)
Ask(c, r) ==
    /\ asked[c] = NoRequest
    /\ asked' = [asked EXCEPT ![c] = r]
    /\ UNCHANGED <<booked, told>>

(* The call books the request it names: the linearization point. *)
Book(c) ==
    /\ Pending(c)
    /\ booked[asked[c]] = NoCall
    /\ booked' = [booked EXCEPT ![asked[c]] = c]
    /\ UNCHANGED <<asked, told>>

(* An answer is a claim about the bookings. *)
Truthful(c, answer) ==
    \/ answer = "assigned"         /\ booked[asked[c]] = c
    \/ answer = "alreadyConfirmed" /\ booked[asked[c]] \notin {NoCall, c}
    \/ answer = "refused"          /\ booked[asked[c]] # c
    \/ answer = "error"

Answer(c, answer) ==
    /\ Pending(c)
    /\ Truthful(c, answer)
    /\ told' = [told EXCEPT ![c] = answer]
    /\ UNCHANGED <<booked, asked>>

(* Several callers lose their connection at once: they know nothing. *)
LoseConnections(S) ==
    /\ \A c \in S : Pending(c)
    /\ told' = [c \in Calls |-> IF c \in S THEN "error" ELSE told[c]]
    /\ UNCHANGED <<booked, asked>>

Next ==
    \/ \E c \in Calls, r \in Requests : Ask(c, r)
    \/ \E c \in Calls : Book(c)
    \/ \E c \in Calls, answer \in Answers : Answer(c, answer)
    \/ \E S \in SUBSET Calls : LoseConnections(S)

Spec == Init /\ [][Next]_bookingVars
=============================================================================
