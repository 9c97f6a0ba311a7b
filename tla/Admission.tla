----------------------------- MODULE Admission ------------------------------
(***************************************************************************)
(* The guards a request meets before its handler, in the order Nest runs   *)
(* them: the global ConfigurableThrottlerGuard, then the controller's      *)
(* TestContextGuard and, on the routes of safe points, RbacGuard.  The     *)
(* throttler has two limits, `user` and `ip`, each with its own keys; the  *)
(* user key is read from req.user, which TestContextGuard sets.            *)
(*                                                                         *)
(* A call is one request of one route.  Time is kept as the set of calls   *)
(* made longer ago than the ttl of a minute; the service runs outside      *)
(* production, with TEST_CONTEXT_GUARD_ENABLED, the only setting in which  *)
(* a request passes.                                                       *)
(***************************************************************************)
EXTENDS Naturals, FiniteSets

CONSTANTS Calls, Riders, Addresses, NoRider,
          RequiredRoles,      \* @RequiredRoles of the route, {} for none
          UserLimit, IpLimit,
          ThrottlerDisabled   \* THROTTLER_DISABLED=1

Throttlers == {"user", "ip"}
Roles == {"rider", "supervisor", "administrador"}

(* What a call carries: the headers x-test-rider-id and x-test-rider-role, *)
(* and its address.                                                        *)
Headers == [rider : Riders \cup {NoRider}, role : Roles, ip : Addresses]

VARIABLES
    headers,  \* of each call
    stage,    \* the guard, or the handler, each call is at
    user,     \* req.user.id
    hits,     \* the storage's hits: throttler, key, call
    blocks,   \* the hits that went over a limit and block their key
    expired,  \* calls made more than the ttl ago
    status    \* the answer to each call

vars == <<headers, stage, user, hits, blocks, expired, status>>

Init ==
    /\ headers \in [Calls -> Headers]
    /\ stage = [c \in Calls |-> "arriving"]
    /\ user = [c \in Calls |-> NoRider]
    /\ hits = {} /\ blocks = {} /\ expired = {}
    /\ status = [c \in Calls |-> "none"]

----------------------------------------------------------------------------
Goto(c, next) == stage' = [stage EXCEPT ![c] = next]
Answer(c, code) == Goto(c, "answered") /\ status' = [status EXCEPT ![c] = code]

Arrive(c) ==
    /\ stage[c] = "arriving"
    /\ Goto(c, IF ThrottlerDisabled THEN "testContext" ELSE "user")
    /\ UNCHANGED <<headers, user, hits, blocks, expired, status>>

(* getTracker of each named throttler. *)
Tracker(t, c) == IF t = "user" /\ user[c] # NoRider THEN user[c] ELSE headers[c].ip

Limit(t) == IF t = "user" THEN UserLimit ELSE IpLimit

(* The storage, a library's: a hit counts for the ttl; one over the limit  *)
(* blocks the key for as long, and hits on a blocked key do not count.     *)
Live(set, t, key) == {h \in set : h.throttler = t /\ h.key = key /\ h.call \notin expired}
Blocked(t, key) == Live(blocks, t, key) # {}

(* ThrottlerGuard.handleRequest, for the user throttler and then for ip.   *)
HandleRequest(c, t, next) ==
    LET key == Tracker(t, c)
        hit == [throttler |-> t, key |-> key, call |-> c]
        over == Cardinality(Live(hits, t, key)) >= Limit(t)
    IN
    /\ stage[c] = t
    /\ \/ /\ Blocked(t, key)
          /\ Answer(c, "tooManyRequests")
          /\ UNCHANGED <<hits, blocks>>
       \/ /\ ~Blocked(t, key) /\ over
          /\ hits' = hits \cup {hit} /\ blocks' = blocks \cup {hit}
          /\ Answer(c, "tooManyRequests")
       \/ /\ ~Blocked(t, key) /\ ~over
          /\ hits' = hits \cup {hit}
          /\ Goto(c, next)
          /\ UNCHANGED <<blocks, status>>
    /\ UNCHANGED <<headers, user, expired>>

(* TestContextGuard: no rider id is a 403, any other names the user.       *)
TestContext(c) ==
    /\ stage[c] = "testContext"
    /\ \/ /\ headers[c].rider = NoRider
          /\ Answer(c, "forbidden")
          /\ UNCHANGED user
       \/ /\ headers[c].rider # NoRider
          /\ user' = [user EXCEPT ![c] = headers[c].rider]
          /\ Goto(c, "rbac")
          /\ UNCHANGED status
    /\ UNCHANGED <<headers, hits, blocks, expired>>

(* RbacGuard, then the handler. *)
Rbac(c) ==
    /\ stage[c] = "rbac"
    /\ Answer(c, IF RequiredRoles = {} \/ headers[c].role \in RequiredRoles
                 THEN "handled" ELSE "forbidden")
    /\ UNCHANGED <<headers, user, hits, blocks, expired>>

(* A minute has passed since a call. *)
Expire(c) ==
    /\ stage[c] = "answered"
    /\ expired' = expired \cup {c}
    /\ UNCHANGED <<headers, stage, user, hits, blocks, status>>

Next ==
    \E c \in Calls :
        \/ Arrive(c) \/ HandleRequest(c, "user", "ip")
        \/ HandleRequest(c, "ip", "testContext")
        \/ TestContext(c) \/ Rbac(c) \/ Expire(c)

Spec == Init /\ [][Next]_vars

----------------------------------------------------------------------------
(* "100 req/min per user, 1000 req/min per IP": a rider is turned away     *)
(* only for more calls than a user is allowed, or for more calls from the  *)
(* rider's address than an address is.                                     *)
Made == {c \in Calls : stage[c] # "arriving"}

OwnBudget ==
    \A c \in Calls : status[c] = "tooManyRequests" /\ headers[c].rider # NoRider =>
        \/ Cardinality({d \in Made : headers[d].rider = headers[c].rider}) > UserLimit
        \/ Cardinality({d \in Made : headers[d].ip = headers[c].ip}) > IpLimit
=============================================================================
