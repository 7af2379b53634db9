--------------------------- MODULE FloorTransport ---------------------------
(***************************************************************************)
(* forge-bfcp/src/transport.rs: the UdpPeer that keeps one client's        *)
(* transactions over a network that loses, repeats and reorders datagrams. *)
(* The client is not part of the repository; it does what RFC 8855 asks    *)
(* and the tests script: one transaction at a time, repeated until it is   *)
(* answered, and an acknowledgement for every message the server starts.   *)
(*                                                                         *)
(* A datagram is its kind and its transaction id.  A direction of the      *)
(* network is a set of datagrams; receiving one leaves it there, so that   *)
(* it may come again.  Transaction ids do not wrap within a run.           *)
(***************************************************************************)
EXTENDS Naturals, Sequences, SequencesExt

CONSTANTS MaxTxns,         \* bound: the client's transactions
          MaxNotes,        \* bound: messages the floor server starts
          MaxRetransmits,  \* MAX_RETRANSMITS
          LateDatagrams,   \* may a request arrive after its client went on?
          PromptTick       \* does the owner call tick right after an acknowledgement?

ASSUME TransportAssumption == /\ MaxTxns \in Nat /\ MaxNotes \in Nat
                              /\ MaxRetransmits \in Nat
                              /\ LateDatagrams \in BOOLEAN /\ PromptTick \in BOOLEAN

VARIABLES
    response,     \* UdpPeer.response: the transaction answered last, 0 if forgotten
    outstanding,  \* UdpPeer.outstanding: a transaction, 0 if none
    retransmits,  \* its retransmissions
    queue,        \* UdpPeer.queue
    broken,       \* has tick reported the connection broken?
    notes,        \* messages the floor server has started
    toServer, toClient,
    txn,          \* the client's transaction
    asking,       \* is it unanswered?
    repeats,      \* how often the client has repeated it
    heard,        \* the server's messages the client has heard, in that order
    executed      \* how often each request was handed to the floor server

peerVars == <<response, outstanding, retransmits, queue, broken, notes>>
clientVars == <<txn, asking, repeats, heard>>
transportVars == <<peerVars, toServer, toClient, clientVars, executed>>

Request(t) == [kind |-> "request", id |-> t]
Response(t) == [kind |-> "response", id |-> t]
Note(n) == [kind |-> "note", id |-> n]
Ack(n) == [kind |-> "ack", id |-> n]

(* UdpPeer::new, and a client that has sent nothing. *)
TransportInit ==
    /\ response = 0 /\ outstanding = 0 /\ retransmits = 0 /\ queue = <<>>
    /\ broken = FALSE /\ notes = 0
    /\ toServer = {} /\ toClient = {}
    /\ txn = 0 /\ asking = FALSE /\ repeats = 0 /\ heard = <<>>
    /\ executed = [t \in 1 .. MaxTxns |-> 0]

-----------------------------------------------------------------------------
(* The server's side; its owner drops a peer that is broken. *)

(* Mutant: the reply is sent and not cached. *)
Execute_uncached(t) ==
    /\ ~ broken /\ Request(t) \in toServer /\ response # t
    /\ executed' = [executed EXCEPT ![t] = @ + 1]
    /\ toClient' = toClient \union {Response(t)}
    /\ UNCHANGED <<peerVars, toServer, clientVars>>

(* A request that is not the one answered last goes to the floor server,   *)
(* and its reply is cached in place of the other.                          *)
Execute(t) ==
    /\ ~ broken /\ Request(t) \in toServer /\ response # t
    /\ executed' = [executed EXCEPT ![t] = @ + 1]
    /\ response' = t
    /\ toClient' = toClient \union {Response(t)}
    /\ UNCHANGED <<outstanding, retransmits, queue, broken, notes, toServer, clientVars>>

Replay(t) ==
    /\ ~ broken /\ Request(t) \in toServer /\ response = t
    /\ toClient' = toClient \union {Response(t)}
    /\ UNCHANGED <<peerVars, toServer, clientVars, executed>>

(* T2 has passed.  It is longer than a client repeats a request and than   *)
(* a datagram is under way, so no copy of that request is left.            *)
Forget ==
    /\ ~ broken /\ response # 0 /\ Request(response) \notin toServer
    /\ ~ (asking /\ txn = response)
    /\ response' = 0
    /\ UNCHANGED <<outstanding, retransmits, queue, broken, notes,
                   toServer, toClient, clientVars, executed>>

(* Mutant: any acknowledgement closes what is outstanding. *)
Acked_any(n) ==
    /\ ~ broken /\ Ack(n) \in toServer /\ outstanding # 0
    /\ outstanding' = 0
    /\ UNCHANGED <<response, retransmits, queue, broken, notes,
                   toServer, toClient, clientVars, executed>>

(* An acknowledgement of anything else is stray and changes nothing. *)
Acked(n) ==
    /\ ~ broken /\ Ack(n) \in toServer /\ outstanding = n
    /\ outstanding' = 0
    /\ UNCHANGED <<response, retransmits, queue, broken, notes,
                   toServer, toClient, clientVars, executed>>

Start(n) == /\ outstanding' = n /\ retransmits' = 0
            /\ toClient' = toClient \union {Note(n)}

(* Mutant: a message is sent although another is outstanding. *)
Notify_at_once ==
    /\ ~ broken /\ notes < MaxNotes
    /\ notes' = notes + 1
    /\ Start(notes + 1)
    /\ UNCHANGED <<queue, response, broken, toServer, clientVars, executed>>

(* notify looks at what is outstanding and not at the queue. *)
Notify ==
    /\ ~ broken /\ notes < MaxNotes
    /\ PromptTick /\ outstanding = 0 => queue = <<>>
    /\ notes' = notes + 1
    /\ IF outstanding # 0
          THEN queue' = Append(queue, notes + 1) /\ UNCHANGED <<outstanding, retransmits, toClient>>
          ELSE Start(notes + 1) /\ UNCHANGED queue
    /\ UNCHANGED <<response, broken, toServer, clientVars, executed>>

Resend == /\ retransmits < MaxRetransmits
          /\ retransmits' = retransmits + 1
          /\ toClient' = toClient \union {Note(outstanding)}
          /\ UNCHANGED <<outstanding, queue, broken>>

(* Mutant: a message is repeated for ever. *)
Tick_untiring ==
    /\ ~ broken
    /\ \/ /\ outstanding # 0
          /\ toClient' = toClient \union {Note(outstanding)}
          /\ UNCHANGED <<outstanding, retransmits, queue, broken>>
       \/ /\ outstanding = 0 /\ queue # <<>>
          /\ Start(Head(queue)) /\ queue' = Tail(queue)
          /\ UNCHANGED broken
    /\ UNCHANGED <<response, notes, toServer, clientVars, executed>>

(* tick, when something is due: an outstanding message is repeated or      *)
(* given up on, otherwise the next one is sent.                            *)
Tick ==
    /\ ~ broken
    /\ \/ outstanding # 0 /\ Resend
       \/ /\ outstanding # 0 /\ retransmits >= MaxRetransmits
          /\ broken' = TRUE
          /\ outstanding' = 0 /\ queue' = <<>>
          /\ UNCHANGED <<retransmits, toClient>>
       \/ /\ outstanding = 0 /\ queue # <<>>
          /\ Start(Head(queue)) /\ queue' = Tail(queue)
          /\ UNCHANGED broken
    /\ UNCHANGED <<response, notes, toServer, clientVars, executed>>

-----------------------------------------------------------------------------
(* The client. *)

Requests == {Request(t) : t \in 1 .. MaxTxns}

Ask ==
    /\ ~ asking /\ txn < MaxTxns
    /\ txn' = txn + 1 /\ asking' = TRUE /\ repeats' = 0
    /\ toServer' = {Request(txn + 1)}
                   \union (IF LateDatagrams THEN toServer ELSE toServer \ Requests)
    /\ UNCHANGED <<peerVars, toClient, heard, executed>>

AskAgain ==
    /\ asking /\ repeats < MaxRetransmits
    /\ repeats' = repeats + 1
    /\ toServer' = toServer \union {Request(txn)}
    /\ UNCHANGED <<peerVars, toClient, txn, asking, heard, executed>>

Answered ==
    /\ asking /\ Response(txn) \in toClient
    /\ asking' = FALSE
    /\ UNCHANGED <<peerVars, toServer, toClient, txn, repeats, heard, executed>>

HearNote(n) ==
    /\ Note(n) \in toClient
    /\ heard' = IF n \in ToSet(heard) THEN heard ELSE Append(heard, n)
    /\ toServer' = toServer \union {Ack(n)}
    /\ UNCHANGED <<peerVars, toClient, txn, asking, repeats, executed>>

Lose == /\ \/ \E m \in toServer : toServer' = toServer \ {m} /\ UNCHANGED toClient
           \/ \E m \in toClient : toClient' = toClient \ {m} /\ UNCHANGED toServer
        /\ UNCHANGED <<peerVars, clientVars, executed>>

TransportNext ==
    \/ \E t \in 1 .. MaxTxns : Execute(t) \/ Replay(t)
    \/ \E n \in 1 .. MaxNotes : Acked(n) \/ HearNote(n)
    \/ Forget \/ Notify \/ Tick
    \/ Ask \/ AskAgain \/ Answered \/ Lose

(* The owner calls tick as long as it has the peer; nothing is assumed of  *)
(* the network or the client.                                              *)
TransportSpec == /\ TransportInit /\ [][TransportNext]_transportVars
                 /\ WF_transportVars(Tick)

-----------------------------------------------------------------------------
(* The response to a request "is cached and replayed when the request is   *)
(* retransmitted" (transport.rs): the floor server executes it once.       *)
(* Without late datagrams, that is: one cached response is not enough for  *)
(* a copy that arrives after the client's next request.                    *)
ExecutedOnce == \A t \in 1 .. MaxTxns : executed[t] <= 1

(* A message the server started is heard, or still in the peer's hands,    *)
(* unless the connection was given up: none is taken as acknowledged for   *)
(* another's acknowledgement.                                              *)
NoNoteLost ==
    broken \/ \A n \in 1 .. notes : n \in ToSet(heard) \union ToSet(queue) \union {outstanding}

(* "Messages waiting their turn" (UdpPeer::queued): the client hears the   *)
(* server's messages in the order they were handed over, though datagrams  *)
(* are reordered and repeated.                                             *)
HeardInOrder == \A i, j \in 1 .. Len(heard) : i < j => heard[i] < heard[j]

(* With an owner that ticks promptly there is no gap either: the peer      *)
(* implements the abstract channel.                                        *)
Delivery == INSTANCE OrderedDelivery WITH
                given <- notes, closed <- broken,
                heard <- IF \A i \in 1 .. Len(heard) : heard[i] = i THEN Len(heard)
                         ELSE MaxNotes + 1
ImplementsDelivery == Delivery!DeliverySpec

(* Whatever the network and the client do, every message handed over is    *)
(* heard in the end or the client is found to be gone: none waits for ever *)
(* behind another, and none is repeated for ever.                          *)
HeardOrBroken == \A n \in 1 .. MaxNotes : notes >= n ~> broken \/ n \in ToSet(heard)
=============================================================================
