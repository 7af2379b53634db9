---------------------------- MODULE FloorServer ----------------------------
(***************************************************************************)
(* forge-bfcp/src/server.rs: the floor server of one conference and one    *)
(* floor.  Its owner, which decides about requests, is outside; it may     *)
(* decide anything at any time, about requests that are gone too.          *)
(*                                                                         *)
(* Messages that change nothing (Hello, queries, refusals) are left out,   *)
(* except FloorQuery, which subscribes its sender to the floor's status.   *)
(***************************************************************************)
EXTENDS Naturals

CONSTANTS Users,    \* the user ids the conference assigns
          MaxId     \* u16::MAX: request ids are 1 .. MaxId

ASSUME FloorAssumption == MaxId \in Nat \ {0}

VARIABLES
    users,            \* FloorServer.users
    subscribed,       \* those of them with User.subscribed
    requests,         \* FloorServer.requests: id -> user and status
    next_request_id,
    told              \* the granted requests each subscriber's last FloorStatus named

serverVars == <<users, subscribed, requests, next_request_id, told>>

Ids == 1 .. MaxId
Statuses == {"Pending", "Granted"}   \* of ongoing requests

ServerInit == /\ users = {} /\ subscribed = {}
              /\ requests = <<>> /\ next_request_id = 1
              /\ told = [u \in Users |-> {}]

Granted(rs) == {id \in DOMAIN rs : rs[id].status = "Granted"}
Ongoing(rs, u) == {id \in DOMAIN rs : rs[id].user = u}
Without(rs, ids) == [id \in DOMAIN rs \ ids |-> rs[id]]

(* Every subscriber is sent the floor's status as it is after the step. *)
floor_status_to_subscribers ==
    told' = [u \in Users |-> IF u \in subscribed' THEN Granted(requests') ELSE {}]

-----------------------------------------------------------------------------
(* A user admitted again is a new one to the server, though its request    *)
(* stays.                                                                  *)
add_user(u) ==
    /\ users' = users \union {u}
    /\ subscribed' = subscribed \ {u}
    /\ told' = [told EXCEPT ![u] = {}]
    /\ UNCHANGED <<requests, next_request_id>>

(* Mutant: only the request that holds the floor goes with its user. *)
remove_user_granted(u) ==
    /\ users' = users \ {u} /\ subscribed' = subscribed \ {u}
    /\ requests' = Without(requests, Ongoing(requests, u) \intersect Granted(requests))
    /\ floor_status_to_subscribers
    /\ UNCHANGED next_request_id

(* A user leaves, or says Goodbye. *)
remove_user(u) ==
    LET theirs == Ongoing(requests, u)
    IN  /\ users' = users \ {u} /\ subscribed' = subscribed \ {u}
        /\ requests' = Without(requests, theirs)
        /\ IF theirs \intersect Granted(requests) # {}
              THEN floor_status_to_subscribers
              ELSE told' = [told EXCEPT ![u] = {}]
        /\ UNCHANGED next_request_id

(* fresh_request_id: the next id round that no ongoing request has. *)
Ahead(id) == (id + MaxId - next_request_id) % MaxId
IsFresh(id) == /\ id \in Ids \ DOMAIN requests
               /\ \A j \in Ids \ DOMAIN requests : Ahead(id) <= Ahead(j)

Succ(id) == IF id = MaxId THEN 1 ELSE id + 1

Placed(u, id) ==
    /\ requests' = [i \in DOMAIN requests \union {id} |->
                       IF i = id THEN [user |-> u, status |-> "Pending"] ELSE requests[i]]
    /\ next_request_id' = Succ(id)
    /\ UNCHANGED <<users, subscribed, told>>

(* Mutant: a user may have several requests. *)
FloorRequest_many(u) == u \in users /\ \E id \in Ids : IsFresh(id) /\ Placed(u, id)

FloorRequest(u) ==
    /\ u \in users
    /\ Ongoing(requests, u) = {}
    /\ \E id \in Ids : IsFresh(id) /\ Placed(u, id)

(* Mutant: the subscribers are not told that the floor is free. *)
FloorRelease_quiet(u, id) ==
    /\ u \in users /\ id \in Ongoing(requests, u)
    /\ requests' = Without(requests, {id})
    /\ UNCHANGED <<users, subscribed, next_request_id, told>>

FloorRelease(u, id) ==
    /\ u \in users /\ id \in Ongoing(requests, u)
    /\ requests' = Without(requests, {id})
    /\ UNCHANGED <<users, subscribed, next_request_id>>
    /\ IF id \in Granted(requests) THEN floor_status_to_subscribers ELSE UNCHANGED told

(* A query with the floor subscribes and is answered with its status; one  *)
(* without unsubscribes.                                                   *)
FloorQuery(u) ==
    /\ u \in users
    /\ \/ /\ subscribed' = subscribed \union {u}
          /\ told' = [told EXCEPT ![u] = Granted(requests)]
       \/ subscribed' = subscribed \ {u} /\ told' = [told EXCEPT ![u] = {}]
    /\ UNCHANGED <<users, requests, next_request_id>>

(* grant, deny and revoke, of a request in whatever status. *)
decide(id, status) ==
    /\ id \in DOMAIN requests
    /\ requests' = IF status = "Granted" THEN [requests EXCEPT ![id].status = "Granted"]
                                         ELSE Without(requests, {id})
    /\ UNCHANGED <<users, subscribed, next_request_id>>
    /\ floor_status_to_subscribers

ServerNext ==
    \/ \E u \in Users : add_user(u) \/ remove_user(u) \/ FloorRequest(u) \/ FloorQuery(u)
    \/ \E u \in Users, id \in Ids : FloorRelease(u, id)
    \/ \E id \in Ids, status \in {"Granted", "Denied", "Revoked"} : decide(id, status)

ServerSpec == ServerInit /\ [][ServerNext]_serverVars

-----------------------------------------------------------------------------
(* Request ids stay within u16 and are never 0, and what subscribers are   *)
(* told names requests.                                                    *)
ServerTypeOK == /\ users \in SUBSET Users /\ subscribed \in SUBSET users
                /\ DOMAIN requests \in SUBSET Ids
                /\ \A id \in DOMAIN requests : /\ requests[id].user \in Users
                                               /\ requests[id].status \in Statuses
                /\ next_request_id \in Ids
                /\ told \in [Users -> SUBSET Ids]

(* "One ongoing request per user": through releases, decisions, departures *)
(* and re-admissions, so that a user cannot hold the floor twice.          *)
OneRequestPerUser ==
    \A i, j \in DOMAIN requests : requests[i].user = requests[j].user => i = j

(* A user who left leaves no request behind that the owner could grant:    *)
(* nobody outside the conference holds the floor.                          *)
RequestersKnown == \A id \in DOMAIN requests : requests[id].user \in users

(* What every subscriber was last told of who holds the floor is true:     *)
(* each path by which the holder changes tells them.                       *)
SubscribersInformed == \A u \in subscribed : told[u] = Granted(requests)
=============================================================================
