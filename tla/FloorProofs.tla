---------------------------- MODULE FloorProofs ----------------------------
(***************************************************************************)
(* Proofs about BFCP floor control.  FloorServer, for any users and any    *)
(* width of request ids: one request per user, none of a stranger, and     *)
(* subscribers that know who holds the floor.  FloorTransport, for any     *)
(* number of transactions, messages and retransmissions: a request is      *)
(* executed once, no message of the server is lost, and with an owner that *)
(* ticks promptly the peer implements OrderedDelivery.                     *)
(***************************************************************************)
EXTENDS FloorServer, FloorTransport, TLAPS

-----------------------------------------------------------------------------
(* FloorServer: the three properties are inductive together with the types. *)

IInv == ServerTypeOK /\ OneRequestPerUser /\ RequestersKnown /\ SubscribersInformed

(* Dropping requests keeps the rest as they are. *)
LEMMA WithoutFacts ==
  ASSUME NEW rs, NEW S
  PROVE  /\ DOMAIN Without(rs, S) = DOMAIN rs \ S
         /\ \A i \in DOMAIN rs \ S : Without(rs, S)[i] = rs[i]
  BY DEF Without

(* Subscribers who have just been sent the floor's status are informed. *)
LEMMA Told ==
  ASSUME floor_status_to_subscribers, subscribed' \subseteq Users
  PROVE  SubscribersInformed'
  BY DEF floor_status_to_subscribers, SubscribersInformed

LEMMA ToldType ==
  ASSUME floor_status_to_subscribers, DOMAIN requests' \subseteq Ids
  PROVE  told' \in [Users -> SUBSET Ids]
  BY DEF floor_status_to_subscribers, Granted

(* A request that goes without having been granted leaves the holder. *)
LEMMA SameGranted ==
  ASSUME NEW rs, NEW S, S \intersect Granted(rs) = {}
  PROVE  Granted(Without(rs, S)) = Granted(rs)
<1>1. /\ DOMAIN Without(rs, S) = DOMAIN rs \ S
      /\ \A i \in DOMAIN rs \ S : Without(rs, S)[i] = rs[i]
  BY WithoutFacts
<1> QED
  BY <1>1 DEF Granted

LEMMA AddUserKeeps == ASSUME IInv, NEW u \in Users, add_user(u) PROVE IInv'
  BY DEF IInv, add_user, ServerTypeOK, OneRequestPerUser, RequestersKnown,
         SubscribersInformed, Granted

LEMMA RemoveUserKeeps == ASSUME IInv, NEW u \in Users, remove_user(u) PROVE IInv'
<1> DEFINE theirs == Ongoing(requests, u)
<1>1. /\ users' = users \ {u} /\ subscribed' = subscribed \ {u}
      /\ requests' = Without(requests, theirs)
      /\ next_request_id' = next_request_id
  BY DEF remove_user
<1>2. /\ DOMAIN requests' = DOMAIN requests \ theirs
      /\ \A i \in DOMAIN requests' : requests'[i] = requests[i]
  <2>1. /\ DOMAIN Without(requests, theirs) = DOMAIN requests \ theirs
        /\ \A i \in DOMAIN requests \ theirs : Without(requests, theirs)[i] = requests[i]
    BY WithoutFacts
  <2> QED
    BY <1>1, <2>1
<1>3. \A i \in DOMAIN requests' : requests'[i].user \in users'
  BY <1>1, <1>2 DEF IInv, RequestersKnown, Ongoing
<1>4. told' \in [Users -> SUBSET Ids] /\ SubscribersInformed'
  <2>1. CASE theirs \intersect Granted(requests) # {}
    <3>1. floor_status_to_subscribers
      BY <2>1 DEF remove_user
    <3>2. DOMAIN requests' \subseteq Ids /\ subscribed' \subseteq Users
      BY <1>1, <1>2 DEF IInv, ServerTypeOK
    <3> QED
      BY <3>1, <3>2, Told, ToldType
  <2>2. CASE theirs \intersect Granted(requests) = {}
    <3>1. told' = [told EXCEPT ![u] = {}]
      BY <2>2 DEF remove_user
    <3>2. Granted(requests)' = Granted(requests)
      BY <2>2, <1>1, SameGranted
    <3> QED
      BY <3>1, <3>2, <1>1 DEF IInv, ServerTypeOK, SubscribersInformed
  <2> QED
    BY <2>1, <2>2
<1> QED
  BY <1>1, <1>2, <1>3, <1>4
     DEF IInv, ServerTypeOK, OneRequestPerUser, RequestersKnown

LEMMA FloorRequestKeeps == ASSUME IInv, NEW u \in Users, FloorRequest(u) PROVE IInv'
<1>1. PICK id \in Ids : IsFresh(id) /\ Placed(u, id)
  BY DEF FloorRequest
<1>2. u \in users /\ Ongoing(requests, u) = {} /\ id \notin DOMAIN requests
  BY <1>1 DEF FloorRequest, IsFresh
<1>3. /\ DOMAIN requests' = DOMAIN requests \union {id}
      /\ requests'[id] = [user |-> u, status |-> "Pending"]
      /\ \A i \in DOMAIN requests : requests'[i] = requests[i]
  BY <1>1, <1>2 DEF Placed
<1>4. /\ next_request_id' \in Ids
      /\ UNCHANGED <<users, subscribed, told>>
  BY <1>1, FloorAssumption DEF Placed, Succ, Ids
<1>5. Granted(requests)' = Granted(requests)
  BY <1>2, <1>3 DEF Granted
<1>6. OneRequestPerUser' /\ RequestersKnown'
  BY <1>2, <1>3, <1>4 DEF IInv, OneRequestPerUser, RequestersKnown, Ongoing
<1>7. ServerTypeOK'
  BY <1>3, <1>4 DEF IInv, ServerTypeOK, Statuses
<1> QED
  BY <1>4, <1>5, <1>6, <1>7 DEF IInv, SubscribersInformed

LEMMA FloorReleaseKeeps ==
  ASSUME IInv, NEW u \in Users, NEW id \in Ids, FloorRelease(u, id) PROVE IInv'
<1>1. /\ requests' = Without(requests, {id})
      /\ UNCHANGED <<users, subscribed, next_request_id>>
  BY DEF FloorRelease
<1>2. /\ DOMAIN requests' = DOMAIN requests \ {id}
      /\ \A i \in DOMAIN requests' : requests'[i] = requests[i]
  <2>1. /\ DOMAIN Without(requests, {id}) = DOMAIN requests \ {id}
        /\ \A i \in DOMAIN requests \ {id} : Without(requests, {id})[i] = requests[i]
    BY WithoutFacts
  <2> QED
    BY <1>1, <2>1
<1>3. told' \in [Users -> SUBSET Ids] /\ SubscribersInformed'
  <2>1. CASE id \in Granted(requests)
    <3>1. floor_status_to_subscribers
      BY <2>1 DEF FloorRelease
    <3>2. DOMAIN requests' \subseteq Ids /\ subscribed' \subseteq Users
      BY <1>1, <1>2 DEF IInv, ServerTypeOK
    <3> QED
      BY <3>1, <3>2, Told, ToldType
  <2>2. CASE id \notin Granted(requests)
    <3>1. told' = told
      BY <2>2 DEF FloorRelease
    <3>2. Granted(requests)' = Granted(requests)
      BY <2>2, <1>1, SameGranted
    <3> QED
      BY <3>1, <3>2, <1>1 DEF IInv, ServerTypeOK, SubscribersInformed
  <2> QED
    BY <2>1, <2>2
<1> QED
  BY <1>1, <1>2, <1>3 DEF IInv, ServerTypeOK, OneRequestPerUser, RequestersKnown

LEMMA FloorQueryKeeps == ASSUME IInv, NEW u \in Users, FloorQuery(u) PROVE IInv'
<1>1. u \in users /\ UNCHANGED <<users, requests, next_request_id>>
  BY DEF FloorQuery
<1>2. Granted(requests)' = Granted(requests) /\ Granted(requests) \subseteq Ids
  BY <1>1 DEF IInv, ServerTypeOK, Granted
<1>3. told' \in [Users -> SUBSET Ids] /\ subscribed' \subseteq users /\ SubscribersInformed'
  BY <1>1, <1>2 DEF FloorQuery, IInv, ServerTypeOK, SubscribersInformed
<1> QED
  BY <1>1, <1>3 DEF IInv, ServerTypeOK, OneRequestPerUser, RequestersKnown

LEMMA DecideKeeps ==
  ASSUME IInv, NEW id \in Ids, NEW status, decide(id, status) PROVE IInv'
<1>1. /\ id \in DOMAIN requests /\ floor_status_to_subscribers
      /\ UNCHANGED <<users, subscribed, next_request_id>>
  BY DEF decide
<1>2. /\ DOMAIN requests' \subseteq DOMAIN requests
      /\ \A i \in DOMAIN requests' : /\ requests'[i].user = requests[i].user
                                     /\ requests'[i].status \in Statuses
  <2>1. CASE status = "Granted"
    <3>1. requests' = [requests EXCEPT ![id].status = "Granted"]
      BY <2>1 DEF decide
    <3> QED
      BY <3>1, <1>1 DEF IInv, ServerTypeOK, Statuses
  <2>2. CASE status # "Granted"
    <3>1. requests' = Without(requests, {id})
      BY <2>2 DEF decide
    <3>2. /\ DOMAIN Without(requests, {id}) = DOMAIN requests \ {id}
          /\ \A i \in DOMAIN requests \ {id} : Without(requests, {id})[i] = requests[i]
      BY WithoutFacts
    <3> QED
      BY <3>1, <3>2 DEF IInv, ServerTypeOK
  <2> QED
    BY <2>1, <2>2
<1>3. DOMAIN requests' \subseteq Ids /\ subscribed' \subseteq Users
  BY <1>1, <1>2 DEF IInv, ServerTypeOK
<1>4. told' \in [Users -> SUBSET Ids] /\ SubscribersInformed'
  BY <1>1, <1>3, Told, ToldType
<1> QED
  BY <1>1, <1>2, <1>3, <1>4 DEF IInv, ServerTypeOK, OneRequestPerUser, RequestersKnown

(* IInv is an invariant: every message and every decision keeps it. *)
THEOREM Inductive == ServerSpec => []IInv
<1>1. ServerInit => IInv
  BY FloorAssumption DEF ServerInit, IInv, ServerTypeOK, OneRequestPerUser, RequestersKnown,
                         SubscribersInformed, Ids
<1>2. IInv /\ [ServerNext]_serverVars => IInv'
  <2> SUFFICES ASSUME IInv, [ServerNext]_serverVars PROVE IInv'
    OBVIOUS
  <2>1. CASE UNCHANGED serverVars
    BY <2>1 DEF serverVars, IInv, ServerTypeOK, OneRequestPerUser, RequestersKnown,
                SubscribersInformed, Granted
  <2>2. CASE ServerNext
    BY <2>2, AddUserKeeps, RemoveUserKeeps, FloorRequestKeeps, FloorReleaseKeeps,
       FloorQueryKeeps, DecideKeeps DEF ServerNext
  <2> QED
    BY <2>1, <2>2
<1> QED
  BY <1>1, <1>2, PTL DEF ServerSpec

(* A user never has two ongoing requests, so cannot hold the floor twice   *)
(* (FloorRequest's check in handle_message, against every other path).     *)
THEOREM OneRequestPerUserAlways == ServerSpec => []OneRequestPerUser
<1>1. IInv => OneRequestPerUser
  BY DEF IInv
<1> QED
  BY <1>1, Inductive, PTL

(* No request outlives its user's stay: remove_user and Goodbye leave      *)
(* nothing for the owner to grant.                                         *)
THEOREM RequestersKnownAlways == ServerSpec => []RequestersKnown
<1>1. IInv => RequestersKnown
  BY DEF IInv
<1> QED
  BY <1>1, Inductive, PTL

(* Every path by which the holder changes (decide, FloorRelease,           *)
(* remove_user) sends the subscribers the floor's status.                  *)
THEOREM SubscribersInformedAlways == ServerSpec => []SubscribersInformed
<1>1. IInv => SubscribersInformed
  BY DEF IInv
<1> QED
  BY <1>1, Inductive, PTL

-----------------------------------------------------------------------------
(* FloorTransport *)

Datagram == [kind : {"request", "response", "note", "ack"}, id : Nat]

TransportTypeOK ==
    /\ response \in Nat /\ outstanding \in Nat /\ retransmits \in Nat
    /\ queue \in Seq(Nat) /\ broken \in BOOLEAN /\ notes \in Nat
    /\ toServer \subseteq Datagram /\ toClient \subseteq Datagram
    /\ txn \in Nat /\ asking \in BOOLEAN /\ repeats \in Nat /\ heard \in Seq(Nat)
    /\ executed \in [1 .. MaxTxns -> Nat]

(* The datagrams as they are built. *)
LEMMA DatagramFacts ==
  ASSUME NEW n \in Nat
  PROVE  /\ Request(n) \in Datagram /\ Response(n) \in Datagram
         /\ Note(n) \in Datagram /\ Ack(n) \in Datagram
  BY DEF Datagram, Request, Response, Note, Ack

LEMMA TypeStep == ASSUME TransportTypeOK, [TransportNext]_transportVars PROVE TransportTypeOK'
<1> USE TransportAssumption DEF TransportTypeOK
<1>1. ASSUME NEW t \in 1 .. MaxTxns, Execute(t) PROVE TransportTypeOK'
  BY <1>1, DatagramFacts DEF Execute, clientVars
<1>2. ASSUME NEW t \in 1 .. MaxTxns, Replay(t) PROVE TransportTypeOK'
  BY <1>2, DatagramFacts DEF Replay, clientVars, peerVars
<1>3. ASSUME NEW n \in 1 .. MaxNotes, Acked(n) PROVE TransportTypeOK'
  BY <1>3 DEF Acked, clientVars
<1>4. ASSUME NEW n \in 1 .. MaxNotes, HearNote(n) PROVE TransportTypeOK'
  BY <1>4, DatagramFacts DEF HearNote, peerVars
<1>5. CASE Forget
  BY <1>5 DEF Forget, clientVars
<1>6. CASE Notify
  <2>1. queue' \in Seq(Nat)
    <3>1. Append(queue, notes + 1) \in Seq(Nat)
      OBVIOUS
    <3>2. queue' = queue \/ queue' = Append(queue, notes + 1)
      BY <1>6 DEF Notify
    <3> QED
      BY <3>1, <3>2
  <2>2. outstanding' \in Nat /\ retransmits' \in Nat /\ toClient' \subseteq Datagram
    BY <1>6, DatagramFacts DEF Notify, Start
  <2> QED
    BY <1>6, <2>1, <2>2 DEF Notify, clientVars
<1>7. CASE Tick
  <2>1. queue # <<>> => Head(queue) \in Nat /\ Tail(queue) \in Seq(Nat)
    OBVIOUS
  <2>2. CASE outstanding # 0 /\ Resend
    BY <1>7, <2>2, DatagramFacts DEF Tick, Resend, clientVars
  <2>3. CASE broken' = TRUE /\ outstanding' = 0 /\ queue' = <<>> /\ UNCHANGED <<retransmits, toClient>>
    <3>1. queue' \in Seq(Nat)
      BY <2>3
    <3> QED
      BY <1>7, <2>3, <3>1 DEF Tick, clientVars
  <2>4. CASE /\ queue # <<>> /\ Start(Head(queue)) /\ queue' = Tail(queue)
             /\ UNCHANGED broken
    BY <1>7, <2>1, <2>4, DatagramFacts DEF Tick, Start, clientVars
  <2> QED
    BY <1>7, <2>2, <2>3, <2>4 DEF Tick
<1>8. CASE Ask
  BY <1>8, DatagramFacts DEF Ask, peerVars
<1>9. CASE AskAgain
  BY <1>9, DatagramFacts DEF AskAgain, peerVars
<1>10. CASE Answered
  BY <1>10 DEF Answered, peerVars
<1>11. CASE Lose
  BY <1>11 DEF Lose, peerVars, clientVars
<1>12. CASE UNCHANGED transportVars
  BY <1>12 DEF transportVars, peerVars, clientVars
<1> QED
  BY <1>1, <1>2, <1>3, <1>4, <1>5, <1>6, <1>7, <1>8, <1>9, <1>10, <1>11, <1>12
     DEF TransportNext

(* Every variable keeps its type. *)
THEOREM TransportTypes == TransportSpec => []TransportTypeOK
<1>1. TransportInit => TransportTypeOK
  <2> SUFFICES ASSUME TransportInit PROVE TransportTypeOK
    OBVIOUS
  <2>1. executed \in [1 .. MaxTxns -> Nat]
    BY DEF TransportInit
  <2>2. queue \in Seq(Nat) /\ heard \in Seq(Nat)
    BY DEF TransportInit
  <2>3. toServer \subseteq Datagram /\ toClient \subseteq Datagram
    BY DEF TransportInit
  <2>4. broken \in BOOLEAN /\ asking \in BOOLEAN
    BY DEF TransportInit
  <2>5. /\ response \in Nat /\ outstanding \in Nat /\ retransmits \in Nat
        /\ notes \in Nat /\ txn \in Nat /\ repeats \in Nat
    BY DEF TransportInit
  <2> QED
    BY <2>1, <2>2, <2>3, <2>4, <2>5 DEF TransportTypeOK
<1> QED
  BY <1>1, TypeStep, PTL DEF TransportSpec

-----------------------------------------------------------------------------
(* A request is executed once *)

(* Only the client's newest request is under way (without late datagrams), *)
(* nothing of the future was executed, and once the newest one was, its    *)
(* response is cached until no copy can come.                              *)
ExecutionInv ==
    /\ \A t \in 1 .. MaxTxns : Request(t) \in toServer => t = txn
    /\ \A t \in 1 .. MaxTxns : t > txn => executed[t] = 0
    /\ txn \in 1 .. MaxTxns /\ executed[txn] > 0 =>
          response = txn \/ (~ asking /\ Request(txn) \notin toServer)
    /\ ExecutedOnce

LEMMA RequestInjective ==
  ASSUME NEW s, NEW t
  PROVE  Request(s) = Request(t) => s = t
  BY DEF Request

LEMMA RequestIsNoAck == ASSUME NEW s, NEW t PROVE Request(s) # Ack(t)
  BY DEF Request, Ack

LEMMA ExecutionStep ==
  ASSUME ~ LateDatagrams, TransportTypeOK, ExecutionInv, [TransportNext]_transportVars
  PROVE  ExecutionInv'
<1> USE TransportAssumption DEF TransportTypeOK, ExecutionInv, ExecutedOnce
<1>1. ASSUME NEW t \in 1 .. MaxTxns, Execute(t) PROVE ExecutionInv'
  BY <1>1 DEF Execute, clientVars
<1>2. ASSUME NEW t \in 1 .. MaxTxns, Replay(t) PROVE ExecutionInv'
  BY <1>2 DEF Replay, clientVars, peerVars
<1>3. ASSUME NEW n \in 1 .. MaxNotes, Acked(n) PROVE ExecutionInv'
  BY <1>3 DEF Acked, clientVars
<1>4. ASSUME NEW n \in 1 .. MaxNotes, HearNote(n) PROVE ExecutionInv'
  BY <1>4, RequestIsNoAck DEF HearNote, peerVars
<1>5. CASE Forget
  BY <1>5 DEF Forget, clientVars
<1>6. CASE Notify
  BY <1>6 DEF Notify, clientVars
<1>7. CASE Tick
  BY <1>7 DEF Tick, clientVars
<1>8. CASE Ask
  <2>1. \A t \in 1 .. MaxTxns : Request(t) \in toServer' => t = txn'
    BY <1>8, RequestInjective DEF Ask, Requests
  <2> QED
    BY <1>8, <2>1 DEF Ask, peerVars
<1>9. CASE AskAgain
  BY <1>9, RequestInjective DEF AskAgain, peerVars
<1>10. CASE Answered
  BY <1>10 DEF Answered, peerVars
<1>11. CASE Lose
  BY <1>11 DEF Lose, peerVars, clientVars
<1>12. CASE UNCHANGED transportVars
  BY <1>12 DEF transportVars, peerVars, clientVars
<1> QED
  BY <1>1, <1>2, <1>3, <1>4, <1>5, <1>6, <1>7, <1>8, <1>9, <1>10, <1>11, <1>12
     DEF TransportNext

(* The one cached response is enough: as long as no request arrives after  *)
(* its client went on, the floor server executes every request at most     *)
(* once, however often the datagrams are repeated, lost or reordered.      *)
THEOREM ExecutedAtMostOnce == ~ LateDatagrams /\ TransportSpec => []ExecutedOnce
<1> SUFFICES ASSUME ~ LateDatagrams PROVE TransportSpec => []ExecutedOnce
  OBVIOUS
<1>1. TransportInit => ExecutionInv
  BY TransportAssumption DEF TransportInit, ExecutionInv, ExecutedOnce
<1>2. TransportTypeOK /\ ExecutionInv /\ [TransportNext]_transportVars => ExecutionInv'
  BY ExecutionStep
<1>3. ExecutionInv => ExecutedOnce
  BY DEF ExecutionInv
<1> QED
  BY <1>1, <1>2, <1>3, TransportTypes, PTL DEF TransportSpec

-----------------------------------------------------------------------------
(* No message is lost *)

(* What is acknowledged was heard. *)
AcksHonest == \A n \in 1 .. MaxNotes : Ack(n) \in toServer => n \in ToSet(heard)

NotesInv == notes <= MaxNotes /\ AcksHonest /\ NoNoteLost

(* The members of a queue at whose ends something is added or taken. *)
LEMMA ToSetAppend ==
  ASSUME NEW q \in Seq(Nat), NEW n \in Nat
  PROVE  ToSet(Append(q, n)) = ToSet(q) \union {n}
<1>1. /\ Len(q) \in Nat
      /\ DOMAIN q = 1 .. Len(q) /\ DOMAIN Append(q, n) = 1 .. (Len(q) + 1)
  OBVIOUS
<1>2. \A i \in 1 .. Len(q) : Append(q, n)[i] = q[i]
  OBVIOUS
<1>3. Append(q, n)[Len(q) + 1] = n
  OBVIOUS
<1>4. ASSUME NEW x \in ToSet(Append(q, n)) PROVE x \in ToSet(q) \union {n}
  BY <1>1, <1>2, <1>3 DEF ToSet
<1>5. ASSUME NEW x \in ToSet(q) \union {n} PROVE x \in ToSet(Append(q, n))
  BY <1>1, <1>2, <1>3 DEF ToSet
<1> QED
  BY <1>4, <1>5

LEMMA ToSetTail ==
  ASSUME NEW q \in Seq(Nat), q # <<>>
  PROVE  ToSet(q) = ToSet(Tail(q)) \union {Head(q)}
<1>1. /\ Len(q) \in Nat /\ Len(q) > 0
      /\ DOMAIN q = 1 .. Len(q) /\ DOMAIN Tail(q) = 1 .. (Len(q) - 1)
  OBVIOUS
<1>2. Head(q) = q[1] /\ \A i \in 1 .. (Len(q) - 1) : Tail(q)[i] = q[i + 1]
  OBVIOUS
<1>3. ASSUME NEW x \in ToSet(q) PROVE x \in ToSet(Tail(q)) \union {Head(q)}
  <2>1. PICK i \in 1 .. Len(q) : x = q[i]
    BY <1>1 DEF ToSet
  <2>2. CASE i = 1
    BY <2>1, <2>2, <1>2
  <2>3. CASE i # 1
    <3>1. i - 1 \in 1 .. (Len(q) - 1) /\ Tail(q)[i - 1] = x
      BY <2>1, <2>3, <1>1, <1>2
    <3> QED
      BY <3>1, <1>1 DEF ToSet
  <2> QED
    BY <2>2, <2>3
<1>4. ASSUME NEW x \in ToSet(Tail(q)) \union {Head(q)} PROVE x \in ToSet(q)
  BY <1>1, <1>2 DEF ToSet
<1> QED
  BY <1>3, <1>4

LEMMA AckInjective ==
  ASSUME NEW s, NEW t
  PROVE  Ack(s) = Ack(t) => s = t
  BY DEF Ack

LEMMA NotesStep ==
  ASSUME TransportTypeOK, NotesInv, [TransportNext]_transportVars
  PROVE  NotesInv'
<1> USE TransportAssumption DEF TransportTypeOK, NotesInv, AcksHonest, NoNoteLost
<1>1. ASSUME NEW t \in 1 .. MaxTxns, Execute(t) \/ Replay(t) PROVE NotesInv'
  BY <1>1 DEF Execute, Replay, clientVars, peerVars
<1>2. ASSUME NEW n \in 1 .. MaxNotes, Acked(n) PROVE NotesInv'
  BY <1>2 DEF Acked, clientVars
<1>3. ASSUME NEW n \in 1 .. MaxNotes, HearNote(n) PROVE NotesInv'
  <2>1. ToSet(heard') = ToSet(heard) \union {n}
    BY <1>3, ToSetAppend DEF HearNote
  <2> QED
    BY <1>3, <2>1, AckInjective DEF HearNote, peerVars
<1>4. CASE Forget
  BY <1>4 DEF Forget, clientVars
<1>5. CASE Notify
  <2>1. CASE outstanding # 0
    <3>1. /\ notes' = notes + 1 /\ notes < MaxNotes /\ queue' = Append(queue, notes + 1)
          /\ UNCHANGED <<outstanding, broken, toServer, heard>>
      BY <1>5, <2>1 DEF Notify, clientVars
    <3>2. ToSet(queue') = ToSet(queue) \union {notes + 1}
      BY <3>1, ToSetAppend
    <3>3. ASSUME ~ broken', NEW n \in 1 .. notes'
          PROVE  n \in ToSet(heard') \union ToSet(queue') \union {outstanding'}
      <4>1. n \in 1 .. notes \/ n = notes + 1
        BY <3>1
      <4> QED
        BY <3>1, <3>2, <3>3, <4>1
    <3>4. AcksHonest'
      BY <3>1
    <3> QED
      BY <3>1, <3>3, <3>4
  <2>2. CASE outstanding = 0
    BY <1>5, <2>2 DEF Notify, Start, clientVars
  <2> QED
    BY <2>1, <2>2
<1>6. CASE Tick
  <2>1. CASE outstanding # 0
    BY <1>6, <2>1 DEF Tick, Resend, clientVars
  <2>2. CASE outstanding = 0
    <3>1. /\ queue # <<>> /\ outstanding' = Head(queue) /\ queue' = Tail(queue)
          /\ UNCHANGED <<broken, notes, toServer, heard>>
      BY <1>6, <2>2 DEF Tick, Start, clientVars
    <3>2. ToSet(queue) = ToSet(queue') \union {outstanding'}
      BY <3>1, ToSetTail
    <3> QED
      BY <2>2, <3>1, <3>2
  <2> QED
    BY <2>1, <2>2
<1>7. CASE Ask \/ AskAgain
  BY <1>7, RequestIsNoAck DEF Ask, AskAgain, peerVars
<1>8. CASE Answered \/ Lose
  BY <1>8 DEF Answered, Lose, peerVars, clientVars
<1>9. CASE UNCHANGED transportVars
  BY <1>9 DEF transportVars, peerVars, clientVars
<1> QED
  BY <1>1, <1>2, <1>3, <1>4, <1>5, <1>6, <1>7, <1>8, <1>9 DEF TransportNext

(* However the network treats the datagrams, and however late the owner    *)
(* ticks: until the connection is given up, every message the server       *)
(* started is heard, outstanding or queued.                                *)
THEOREM NoMessageLost == TransportSpec => []NoNoteLost
<1>1. TransportInit => NotesInv
  BY TransportAssumption DEF TransportInit, NotesInv, AcksHonest, NoNoteLost
<1>2. TransportTypeOK /\ NotesInv /\ [TransportNext]_transportVars => NotesInv'
  BY NotesStep
<1>3. NotesInv => NoNoteLost
  BY DEF NotesInv
<1> QED
  BY <1>1, <1>2, <1>3, TransportTypes, PTL DEF TransportSpec

-----------------------------------------------------------------------------
(* Ordered delivery *)

(* The client has heard the oldest messages, in order; a message under way *)
(* is one of those or the next; and while the connection stands, the queue *)
(* is what follows the outstanding message.                                *)
InOrder == \A i \in 1 .. Len(heard) : heard[i] = i

Sent(n) == /\ n \in 1 .. notes /\ n <= Len(heard) + 1
           /\ ~ broken => n <= notes - Len(queue)

UnderWay == /\ \A n \in Nat : Note(n) \in toClient => Sent(n)
            /\ \A n \in Nat : Ack(n) \in toServer => n <= Len(heard)

QueueFollows ==
    ~ broken =>
       /\ Len(queue) <= notes
       /\ \A i \in 1 .. Len(queue) : queue[i] = notes - Len(queue) + i
       /\ IF outstanding = 0 THEN Len(heard) = notes - Len(queue)
          ELSE /\ outstanding = notes - Len(queue)
               /\ Len(heard) \in {outstanding - 1, outstanding}

OrderInv == Len(heard) <= notes /\ notes <= MaxNotes /\ InOrder /\ UnderWay /\ QueueFollows

LEMMA NoteFacts ==
  ASSUME NEW s, NEW t
  PROVE  /\ Note(s) = Note(t) => s = t
         /\ Note(s) # Response(t)
  BY DEF Note, Response

(* A step that touches no message of the server keeps the order. *)
LEMMA OrderKept ==
  ASSUME OrderInv, UNCHANGED <<heard, notes, queue, outstanding, broken>>,
         \A n \in Nat : Note(n) \in toClient' => Note(n) \in toClient,
         \A n \in Nat : Ack(n) \in toServer' => Ack(n) \in toServer
  PROVE  OrderInv'
<1>1. InOrder' /\ QueueFollows' /\ Len(heard') <= notes' /\ notes' <= MaxNotes
  BY DEF OrderInv, InOrder, QueueFollows
<1>2. UnderWay'
  BY DEF OrderInv, UnderWay, Sent
<1> QED
  BY <1>1, <1>2 DEF OrderInv

(* Sending message n, the next one or the one heard last, is in order. *)
LEMMA UnderWayKept ==
  ASSUME TransportTypeOK, OrderInv, NEW n \in Nat, Sent(n)', ~ broken,
         notes' \in Nat, notes' >= notes, notes' - Len(queue') >= notes - Len(queue),
         Len(queue') \in Nat, UNCHANGED <<heard, toServer, broken>>,
         toClient' = toClient \union {Note(n)}
  PROVE  UnderWay'
<1>1. ASSUME NEW m \in Nat, Note(m) \in toClient' PROVE Sent(m)'
  <2>1. Note(m) \in toClient \/ m = n
    BY <1>1, NoteFacts
  <2>2. ASSUME Sent(m) PROVE Sent(m)'
    BY <2>2 DEF Sent, TransportTypeOK
  <2> QED
    BY <2>1, <2>2 DEF OrderInv, UnderWay
<1> QED
  BY <1>1 DEF OrderInv, UnderWay

LEMMA AckedOrder ==
  ASSUME TransportTypeOK, OrderInv, NEW n \in 1 .. MaxNotes, Acked(n)
  PROVE  OrderInv'
<1> USE TransportAssumption
<1>1. /\ ~ broken /\ outstanding = n /\ outstanding' = 0 /\ Ack(n) \in toServer
      /\ UNCHANGED <<queue, broken, notes, toServer, toClient, heard>>
  BY DEF Acked, clientVars
<1>2. n <= Len(heard) /\ n \in Nat /\ n # 0
  BY <1>1 DEF OrderInv, UnderWay
<1>3. n = notes - Len(queue) /\ Len(heard) \in {n - 1, n}
  BY <1>1, <1>2 DEF OrderInv, QueueFollows
<1>4. Len(heard) = notes - Len(queue)
  BY <1>2, <1>3
<1>5. QueueFollows'
  BY <1>1, <1>4 DEF OrderInv, QueueFollows
<1> QED
  BY <1>1, <1>5 DEF OrderInv, InOrder, UnderWay, Sent

LEMMA HearNoteOrder ==
  ASSUME TransportTypeOK, OrderInv, NEW n \in 1 .. MaxNotes, HearNote(n)
  PROVE  /\ OrderInv'
         /\ heard' = heard \/ (Len(heard') = Len(heard) + 1 /\ Len(heard) < notes)
<1> USE TransportAssumption
<1>1. /\ n \in Nat /\ n \in 1 .. notes /\ n <= Len(heard) + 1
      /\ Len(heard) \in Nat /\ DOMAIN heard = 1 .. Len(heard) /\ notes \in Nat
  BY DEF HearNote, OrderInv, UnderWay, Sent, TransportTypeOK
<1>2. /\ UNCHANGED <<queue, broken, notes, outstanding, toClient>>
      /\ toServer' = toServer \union {Ack(n)}
      /\ heard' = IF n \in ToSet(heard) THEN heard ELSE Append(heard, n)
  BY DEF HearNote, peerVars
<1>3. CASE n <= Len(heard)
  <2>1. n \in ToSet(heard)
    <3>1. heard[n] = n
      BY <1>1, <1>3 DEF OrderInv, InOrder
    <3> QED
      BY <1>1, <1>3, <3>1 DEF ToSet
  <2>2. heard' = heard
    BY <1>2, <2>1
  <2>3. \A m \in Nat : Ack(m) \in toServer' => m <= Len(heard')
    BY <1>2, <1>3, <2>2, AckInjective DEF OrderInv, UnderWay
  <2>4. UnderWay'
    BY <1>2, <2>2, <2>3 DEF OrderInv, UnderWay, Sent
  <2> QED
    BY <1>2, <2>2, <2>4 DEF OrderInv, InOrder, QueueFollows
<1>4. CASE n = Len(heard) + 1
  <2>1. n \notin ToSet(heard)
    BY <1>1, <1>4 DEF OrderInv, InOrder, ToSet
  <2>2. heard' = Append(heard, n)
    BY <1>2, <2>1
  <2>3. Len(heard') = n /\ \A i \in 1 .. Len(heard) : heard'[i] = heard[i]
    BY <2>2, <1>1, <1>4 DEF TransportTypeOK
  <2>4. heard'[n] = n
    BY <2>2, <1>1, <1>4 DEF TransportTypeOK
  <2>5. InOrder'
    <3>1. ASSUME NEW i \in 1 .. Len(heard') PROVE heard'[i] = i
      <4>1. i \in 1 .. Len(heard) \/ i = n
        BY <2>3, <1>1, <1>4
      <4> QED
        BY <4>1, <2>3, <2>4 DEF OrderInv, InOrder
    <3> QED
      BY <3>1 DEF InOrder
  <2>6. UnderWay'
    <3>1. \A m \in Nat : Note(m) \in toClient' => Sent(m)'
      BY <1>1, <1>2, <1>4, <2>3 DEF OrderInv, UnderWay, Sent
    <3>2. \A m \in Nat : Ack(m) \in toServer' => m <= Len(heard')
      BY <1>1, <1>2, <1>4, <2>3, AckInjective DEF OrderInv, UnderWay
    <3> QED
      BY <3>1, <3>2 DEF UnderWay
  <2>7. QueueFollows'
    <3>1. Len(queue) \in Nat /\ outstanding \in Nat
      BY DEF TransportTypeOK
    <3>2. ~ broken => n <= notes - Len(queue)
      BY <1>1 DEF HearNote, OrderInv, UnderWay, Sent
    <3>3. ~ broken => outstanding # 0 /\ outstanding = notes - Len(queue) /\ n = outstanding
      <4> SUFFICES ASSUME ~ broken
                   PROVE  outstanding # 0 /\ outstanding = notes - Len(queue) /\ n = outstanding
        OBVIOUS
      <4>1. n <= notes - Len(queue)
        BY <3>2
      <4>2. outstanding # 0
        <5>1. outstanding = 0 => Len(heard) = notes - Len(queue)
          BY DEF OrderInv, QueueFollows
        <5> QED
          BY <1>1, <1>4, <3>1, <4>1, <5>1
      <4>3. outstanding = notes - Len(queue) /\ (Len(heard) = outstanding - 1 \/ Len(heard) = outstanding)
        BY <4>2 DEF OrderInv, QueueFollows
      <4> QED
        BY <1>1, <1>4, <3>1, <4>1, <4>2, <4>3
    <3>4. ~ broken => /\ Len(queue) <= notes
                      /\ \A i \in 1 .. Len(queue) : queue[i] = notes - Len(queue) + i
      BY DEF OrderInv, QueueFollows
    <3> QED
      BY <1>2, <2>3, <3>1, <3>3, <3>4 DEF QueueFollows
  <2>8. Len(heard') = Len(heard) + 1 /\ Len(heard) < notes /\ Len(heard') <= notes'
    BY <1>1, <1>2, <1>4, <2>3
  <2>9. notes' <= MaxNotes
    BY <1>2 DEF OrderInv
  <2> QED
    BY <2>5, <2>6, <2>7, <2>8, <2>9 DEF OrderInv
<1> QED
  BY <1>1, <1>3, <1>4

LEMMA NotifyOrder ==
  ASSUME PromptTick, TransportTypeOK, OrderInv, Notify
  PROVE  OrderInv' /\ ~ broken /\ notes' = notes + 1 /\ UNCHANGED <<broken, heard>>
<1> USE TransportAssumption
<1>1. /\ ~ broken /\ notes < MaxNotes /\ notes' = notes + 1
      /\ UNCHANGED <<broken, heard, toServer>>
  BY DEF Notify, clientVars
<1>2. /\ notes \in Nat /\ outstanding \in Nat /\ queue \in Seq(Nat) /\ Len(queue) \in Nat
      /\ Len(heard) \in Nat /\ notes' \in Nat /\ MaxNotes \in Nat
  BY <1>1 DEF TransportTypeOK
<1>3. /\ Len(queue) <= notes
      /\ \A i \in 1 .. Len(queue) : queue[i] = notes - Len(queue) + i
      /\ outstanding = 0 => Len(heard) = notes - Len(queue)
      /\ outstanding # 0 => /\ outstanding = notes - Len(queue)
                            /\ Len(heard) \in {outstanding - 1, outstanding}
  BY <1>1 DEF OrderInv, QueueFollows
<1>4. notes' <= MaxNotes /\ Len(heard') <= notes' /\ InOrder'
  BY <1>1, <1>2 DEF OrderInv, InOrder
<1>5. CASE outstanding # 0
  <2>1. queue' = Append(queue, notes + 1) /\ UNCHANGED <<outstanding, toClient>>
    BY <1>5 DEF Notify
  <2>2. Len(queue') = Len(queue) + 1 /\ queue'[Len(queue) + 1] = notes + 1
    BY <2>1, <1>2
  <2>3. \A i \in 1 .. Len(queue) : queue'[i] = queue[i]
    BY <2>1, <1>2
  <2>4. ASSUME NEW i \in 1 .. Len(queue') PROVE queue'[i] = notes' - Len(queue') + i
    <3>1. notes' - Len(queue') = notes - Len(queue)
      BY <1>1, <1>2, <2>2
    <3>2. CASE i \in 1 .. Len(queue)
      BY <1>3, <2>3, <3>1, <3>2
    <3>3. CASE i = Len(queue) + 1
      BY <1>2, <2>2, <3>1, <3>3
    <3> QED
      BY <1>2, <2>2, <3>2, <3>3
  <2>5. outstanding' = notes' - Len(queue') /\ Len(heard') \in {outstanding' - 1, outstanding'}
    <3>1. notes' - Len(queue') = notes - Len(queue)
      BY <1>1, <1>2, <2>2
    <3> QED
      BY <1>1, <1>3, <1>5, <2>1, <3>1
  <2>6. QueueFollows'
    BY <1>1, <1>2, <1>3, <1>5, <2>1, <2>2, <2>4, <2>5 DEF QueueFollows
  <2>7. UnderWay'
    BY <1>1, <1>2, <2>1, <2>2 DEF OrderInv, UnderWay, Sent
  <2> QED
    BY <1>1, <1>4, <2>6, <2>7 DEF OrderInv
<1>6. CASE outstanding = 0
  <2>1. queue = <<>>
    BY <1>6 DEF Notify
  <2>2. /\ UNCHANGED queue /\ outstanding' = notes + 1
        /\ toClient' = toClient \union {Note(notes + 1)}
    BY <1>6 DEF Notify, Start
  <2>3. Len(queue) = 0 /\ Len(queue') = 0
    BY <2>1, <2>2
  <2>4. Len(heard) = notes
    BY <1>2, <1>3, <1>6, <2>3
  <2>5. QueueFollows'
    BY <1>1, <1>2, <2>2, <2>3, <2>4 DEF QueueFollows
  <2>6. PICK k \in Nat : k = notes + 1
    BY <1>2
  <2>7. Sent(k)'
    BY <1>1, <1>2, <2>3, <2>4, <2>6 DEF Sent
  <2>8. UnderWay'
    BY <1>1, <1>2, <2>2, <2>3, <2>6, <2>7, UnderWayKept
  <2> QED
    BY <1>1, <1>4, <2>5, <2>8 DEF OrderInv
<1> QED
  BY <1>5, <1>6

LEMMA TickOrder ==
  ASSUME TransportTypeOK, OrderInv, Tick
  PROVE  /\ OrderInv' /\ ~ broken /\ UNCHANGED <<notes, heard>>
         /\ broken' = broken \/ broken' = TRUE
<1> USE TransportAssumption
<1>1. ~ broken /\ UNCHANGED <<notes, heard, toServer>>
  BY DEF Tick, clientVars
<1>2. /\ notes \in Nat /\ outstanding \in Nat /\ queue \in Seq(Nat) /\ Len(queue) \in Nat
      /\ Len(heard) \in Nat /\ MaxNotes \in Nat
  BY DEF TransportTypeOK
<1>3. /\ Len(queue) <= notes
      /\ \A i \in 1 .. Len(queue) : queue[i] = notes - Len(queue) + i
      /\ outstanding = 0 => Len(heard) = notes - Len(queue)
      /\ outstanding # 0 => /\ outstanding = notes - Len(queue)
                            /\ Len(heard) \in {outstanding - 1, outstanding}
  BY <1>1 DEF OrderInv, QueueFollows
<1>4. notes' <= MaxNotes /\ Len(heard') <= notes' /\ InOrder'
  BY <1>1, <1>2 DEF OrderInv, InOrder
<1>5. CASE outstanding # 0 /\ Resend
  <2>1. UNCHANGED <<outstanding, queue, broken>> /\ toClient' = toClient \union {Note(outstanding)}
    BY <1>5 DEF Resend
  <2>2. PICK k \in Nat : k = outstanding
    BY <1>2
  <2>3. Sent(k)'
    BY <1>1, <1>2, <1>3, <1>5, <2>1, <2>2 DEF Sent
  <2>4. UnderWay'
    BY <1>1, <1>2, <2>1, <2>2, <2>3, UnderWayKept
  <2>5. QueueFollows'
    BY <1>1, <2>1 DEF OrderInv, QueueFollows
  <2> QED
    BY <1>1, <1>4, <2>1, <2>4, <2>5 DEF OrderInv
<1>6. CASE broken' = TRUE /\ UNCHANGED toClient
  <2>1. UnderWay' /\ QueueFollows'
    BY <1>1, <1>6 DEF OrderInv, UnderWay, Sent, QueueFollows
  <2> QED
    BY <1>1, <1>4, <1>6, <2>1 DEF OrderInv
<1>7. CASE /\ outstanding = 0 /\ queue # <<>>
           /\ Start(Head(queue)) /\ queue' = Tail(queue) /\ UNCHANGED broken
  <2>1. /\ Len(queue) > 0 /\ Len(queue') = Len(queue) - 1 /\ Head(queue) = queue[1]
        /\ \A i \in 1 .. Len(queue') : queue'[i] = queue[i + 1]
    BY <1>2, <1>7
  <2>2. Head(queue) = Len(heard) + 1 /\ Len(heard) = notes - Len(queue)
    BY <1>2, <1>3, <1>7, <2>1
  <2>3. outstanding' = Len(heard) + 1 /\ toClient' = toClient \union {Note(Len(heard) + 1)}
    BY <1>7, <2>2 DEF Start
  <2>4. ASSUME NEW i \in 1 .. Len(queue') PROVE queue'[i] = notes' - Len(queue') + i
    <3>1. i + 1 \in 1 .. Len(queue)
      BY <1>2, <2>1
    <3> QED
      BY <1>1, <1>2, <1>3, <2>1, <3>1
  <2>5. QueueFollows'
    <3>1. /\ outstanding' # 0 /\ outstanding' = notes' - Len(queue')
          /\ Len(heard') = outstanding' - 1 /\ Len(queue') <= notes'
      BY <1>1, <1>2, <1>3, <2>1, <2>2, <2>3
    <3> QED
      BY <2>4, <3>1 DEF QueueFollows
  <2>6. PICK k \in Nat : k = Len(heard) + 1
    BY <1>2
  <2>7. Sent(k)'
    BY <1>1, <1>2, <1>3, <1>7, <2>1, <2>2, <2>6 DEF Sent
  <2>8. UnderWay'
    BY <1>1, <1>2, <1>7, <2>1, <2>3, <2>6, <2>7, UnderWayKept
  <2> QED
    BY <1>1, <1>4, <1>7, <2>5, <2>8 DEF OrderInv
<1> QED
  BY <1>5, <1>6, <1>7 DEF Tick

(* What a step is, seen from OrderedDelivery. *)
LEMMA OrderStep ==
  ASSUME PromptTick, TransportTypeOK, OrderInv, [TransportNext]_transportVars
  PROVE  /\ OrderInv'
         /\ \/ UNCHANGED <<notes, broken, heard>>
            \/ ~ broken /\ notes' = notes + 1 /\ UNCHANGED <<broken, heard>>
            \/ ~ broken /\ broken' = TRUE /\ UNCHANGED <<notes, heard>>
            \/ /\ Len(heard') = Len(heard) + 1 /\ Len(heard) < notes
               /\ UNCHANGED <<notes, broken>>
<1>1. ASSUME NEW t \in 1 .. MaxTxns, Execute(t) \/ Replay(t)
      PROVE  OrderInv' /\ UNCHANGED <<notes, broken, heard>>
  <2>1. /\ UNCHANGED <<heard, notes, queue, outstanding, broken, toServer>>
        /\ toClient' = toClient \union {Response(t)}
    BY <1>1 DEF Execute, Replay, clientVars, peerVars
  <2> QED
    BY <2>1, NoteFacts, OrderKept
<1>2. ASSUME NEW n \in 1 .. MaxNotes, Acked(n)
      PROVE  OrderInv' /\ UNCHANGED <<notes, broken, heard>>
  BY <1>2, AckedOrder DEF Acked, clientVars
<1>3. ASSUME NEW n \in 1 .. MaxNotes, HearNote(n)
      PROVE  /\ OrderInv' /\ UNCHANGED <<notes, broken>>
             /\ heard' = heard \/ (Len(heard') = Len(heard) + 1 /\ Len(heard) < notes)
  BY <1>3, HearNoteOrder DEF HearNote, peerVars
<1>4. CASE Forget
  BY <1>4, OrderKept DEF Forget, clientVars
<1>5. CASE Notify
  BY <1>5, NotifyOrder
<1>6. CASE Tick
  BY <1>6, TickOrder
<1>7. CASE Ask \/ AskAgain
  <2>1. /\ UNCHANGED <<heard, notes, queue, outstanding, broken, toClient>>
        /\ \E t \in Nat : toServer' \subseteq toServer \union {Request(t)}
    BY <1>7, TransportAssumption DEF Ask, AskAgain, peerVars, TransportTypeOK
  <2> QED
    BY <2>1, RequestIsNoAck, OrderKept
<1>8. CASE Answered \/ Lose
  <2>1. /\ UNCHANGED <<heard, notes, queue, outstanding, broken>>
        /\ toClient' \subseteq toClient /\ toServer' \subseteq toServer
    BY <1>8 DEF Answered, Lose, peerVars, clientVars
  <2> QED
    BY <2>1, OrderKept
<1>9. CASE UNCHANGED transportVars
  BY <1>9, OrderKept DEF transportVars, peerVars, clientVars
<1> QED
  BY <1>1, <1>2, <1>3, <1>4, <1>5, <1>6, <1>7, <1>8, <1>9 DEF TransportNext

(* With an owner that ticks right after an acknowledgement, the peer       *)
(* implements OrderedDelivery over any network: what the client has heard  *)
(* is always the oldest messages, in order and without a gap or a repeat.  *)
THEOREM ImplementsOrderedDelivery == PromptTick /\ TransportSpec => ImplementsDelivery
<1> SUFFICES ASSUME PromptTick PROVE TransportSpec => Delivery!DeliverySpec
  BY DEF ImplementsDelivery
<1> DEFINE count == IF \A i \in 1 .. Len(heard) : heard[i] = i THEN Len(heard) ELSE MaxNotes + 1
<1>1. TransportInit => OrderInv /\ notes = 0 /\ count = 0 /\ broken = FALSE
  <2> SUFFICES ASSUME TransportInit
               PROVE  OrderInv /\ notes = 0 /\ count = 0 /\ broken = FALSE
    OBVIOUS
  <2>1. Len(heard) = 0 /\ Len(queue) = 0 /\ notes = 0 /\ outstanding = 0 /\ broken = FALSE
    BY DEF TransportInit
  <2>2. InOrder /\ count = 0
    BY <2>1 DEF InOrder
  <2>3. UnderWay
    BY DEF TransportInit, UnderWay
  <2>4. QueueFollows
    BY <2>1 DEF QueueFollows
  <2> QED
    BY <2>1, <2>2, <2>3, <2>4, TransportAssumption DEF OrderInv
<1>2. TransportTypeOK /\ OrderInv /\ [TransportNext]_transportVars => OrderInv'
  BY OrderStep
<1>3. TransportTypeOK /\ OrderInv /\ OrderInv' /\ [TransportNext]_transportVars
        => [Delivery!Give \/ Delivery!Hear \/ Delivery!Close]_<<notes, count, broken>>
  <2> SUFFICES ASSUME TransportTypeOK, OrderInv, OrderInv', [TransportNext]_transportVars
               PROVE  [Delivery!Give \/ Delivery!Hear \/ Delivery!Close]_<<notes, count, broken>>
    OBVIOUS
  <2>1. count = Len(heard) /\ count' = Len(heard')
    BY DEF OrderInv, InOrder
  <2>2. \/ UNCHANGED <<notes, broken, heard>>
        \/ ~ broken /\ notes' = notes + 1 /\ UNCHANGED <<broken, heard>>
        \/ ~ broken /\ broken' = TRUE /\ UNCHANGED <<notes, heard>>
        \/ /\ Len(heard') = Len(heard) + 1 /\ Len(heard) < notes
           /\ UNCHANGED <<notes, broken>>
    BY OrderStep
  <2> QED
    BY <2>1, <2>2 DEF Delivery!Give, Delivery!Hear, Delivery!Close
<1> QED
  BY <1>1, <1>2, <1>3, TransportTypes, PTL DEF TransportSpec, Delivery!DeliverySpec
=============================================================================
