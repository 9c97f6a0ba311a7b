--------------------------- MODULE MCConfirmExpiry ---------------------------
(***************************************************************************)
(* ConfirmDispatch beside the clock of its clients.  POST /rides/request   *)
(* answers with ttlSeconds: 60; once they pass, the guide says, a confirm  *)
(* of that requestId is refused with a 404 or a 409.                       *)
(***************************************************************************)
EXTENDS ConfirmDispatch

VARIABLES expired,  \* requests whose ttlSeconds have passed
          late      \* calls made once their request had expired

Expire(r) ==
    /\ offer[r] # NoOffer
    /\ expired' = expired \cup {r}
    /\ UNCHANGED <<vars, late>>

InitExpiry == Init /\ expired = {} /\ late = {}

NextExpiry ==
    \/ \E r \in Requests : Expire(r)
    \/ /\ Next
       /\ late' = late \cup {c \in Calls : pc[c] = "idle" /\ pc'[c] # "idle"
                                              /\ input'[c].request \in expired}
       /\ UNCHANGED expired

SpecExpiry == InitExpiry /\ [][NextExpiry]_<<vars, expired, late>>

(* A call made after the offer expired creates no trip. *)
ExpiredIsRefused == \A c \in late : reply[c] # "assigned"
=============================================================================
