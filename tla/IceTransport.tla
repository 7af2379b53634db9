---------------------------- MODULE IceTransport ----------------------------
(***************************************************************************)
(* Two WebRTC transports that look for a path to each other: connectivity  *)
(* checks, nomination of a pair, renomination from a relayed pair to a     *)
(* direct one, and the DTLS handshake that follows                         *)
(* (crates/forge-webrtc/src/transport.rs).  All local candidates share one *)
(* socket, so a pair is the path its remote candidate is reached by.       *)
(*                                                                         *)
(* The network forgets nothing: a datagram sent may arrive at any time,    *)
(* any number of times, or never.  A retransmission therefore adds nothing *)
(* to it, and running out of attempts or of time is a choice of tick.      *)
(***************************************************************************)
EXTENDS Naturals, FiniteSets

CONSTANTS Paths,        \* ways from one transport to the other
          Relays,       \* those through a TURN server
          Reflexive,    \* those through a NAT, found by STUN; the rest are host paths
          Trickled,     \* those whose candidates come after the description
          NoPath,
          Renomination, \* TransportConfig.renomination
          Times,        \* what time brings to a tick, of AllTimes
          MaxChecks,    \* bound: checks of the controlling side over one path
          MaxControlled \* bound: checks of the controlled side over one path

\* A tick that brings nothing, the end of the renomination window, the end of
\* the relay's wait, a keepalive that is due, the timeouts of ICE and of DTLS.
AllTimes == {"short", "window", "waited", "keepalive", "ice", "dtls"}

ASSUME IceAssumption == /\ Relays \subseteq Paths /\ Reflexive \subseteq Paths \ Relays
                        /\ NoPath \notin Paths /\ Trickled \subseteq Paths
                        /\ Times \subseteq AllTimes
                        /\ Renomination \in BOOLEAN /\ MaxChecks \in Nat /\ MaxControlled \in Nat

Agents == {"controlling", "controlled"}  \* the offerer, the answerer
PeerOf(a) == IF a = "controlling" THEN "controlled" ELSE "controlling"

Bound(a) == IF a = "controlling" THEN MaxChecks ELSE MaxControlled

VARIABLES ice,  \* each transport's Inner; out is what a handler has to send
          net   \* every datagram sent

iceVars == <<ice, net>>

Check(a, p, n, use) == [kind |-> "check", to |-> PeerOf(a), path |-> p, n |-> n, use |-> use]
Answer(a, p, n) == [kind |-> "answer", to |-> PeerOf(a), path |-> p, n |-> n, use |-> FALSE]
Flight(a, p, n) == [kind |-> "dtls", to |-> PeerOf(a), path |-> p, n |-> n, use |-> FALSE]

\* What a signalled candidate is, and the priorities of the types.
Signalled(p) == IF p \in Relays THEN "relay" ELSE IF p \in Reflexive THEN "srflx" ELSE "host"
Preference == [host |-> 4, prflx |-> 3, srflx |-> 2, relay |-> 1]

\* n counts the checks sent, tx_id is the one an answer is awaited to, or 0.
RemoteEntry(typ) == [typ |-> typ, priority |-> Preference[typ], state |-> "Waiting",
                     n |-> 0, tx_id |-> 0, triggered |-> FALSE,
                     nominating |-> FALSE, nominated |-> FALSE]
NoEntry == [RemoteEntry("host") EXCEPT !.state = "absent"]

NewTransport ==
    [remotes |-> [p \in Paths |-> NoEntry], selected |-> NoPath, recent |-> FALSE,
     creds |-> FALSE, state |-> "New", dtls |-> "none", srtp |-> FALSE, out |-> {}]

IceInit ==
    /\ ice = [a \in Agents |-> NewTransport]
    /\ net = {}

\* A handler's result becomes the transport's state once its datagrams are sent.
Becomes(a, s) ==
    /\ ice' = [ice EXCEPT ![a] = [s EXCEPT !.out = {}]]
    /\ net' = net \cup s.out

-----------------------------------------------------------------------------
(* Candidates *)

In(s, st) == {p \in Paths : s.remotes[p].state = st}
Known(s) == Paths \ In(s, "absent")
priority_of(s, p) == s.remotes[p].priority

\* A signalled candidate replaces a peer-reflexive placeholder, whose priority stays.
AddRemote(s, p, typ) ==
    IF p \notin Known(s) THEN [s EXCEPT !.remotes[p] = RemoteEntry(typ)]
    ELSE IF s.remotes[p].typ = "prflx" THEN [s EXCEPT !.remotes[p].typ = typ]
    ELSE s

add_remote_candidate(a, p) ==
    /\ ice[a].state # "Closed" /\ ice[PeerOf(a)].state # "New"
    /\ Becomes(a, AddRemote(ice[a], p, Signalled(p)))

\* The answer is made after the offer was applied.
set_remote(a) ==
    LET s == ice[a]
    IN /\ s.state # "Closed" /\ ~s.creds
       /\ a = "controlling" => ice["controlled"].creds
       /\ Becomes(a, [s EXCEPT
                        !.remotes = [p \in Paths |-> IF p \in Trickled THEN @[p]
                                                     ELSE AddRemote(s, p, Signalled(p)).remotes[p]],
                        !.creds = TRUE,
                        !.state = IF @ = "New" THEN "Checking" ELSE @])

-----------------------------------------------------------------------------
(* DTLS: the answerer is the client, which sends flights 1 and 3. *)

start_dtls(s, a, p) ==
    IF s.dtls # "none" THEN s
    ELSE [s EXCEPT !.dtls = "hello",
                   !.out = @ \cup (IF a = "controlled" THEN {Flight(a, p, 1)} ELSE {})]

\* Whatever the state was.
finish_dtls(s) == [s EXCEPT !.dtls = "done", !.srtp = TRUE, !.state = "Connected"]

\* OpenSSL's part: a flight that is not the next one changes nothing.
Handshake(s, a, p, flight) ==
    LET first == IF a = "controlled" THEN 2 ELSE 1
        reply == [s EXCEPT !.out = @ \cup {Flight(a, p, flight + 1)}]
    IN CASE s.dtls = "hello" /\ flight = first -> [reply EXCEPT !.dtls = "keys"]
         [] s.dtls = "keys" /\ flight = first + 2 ->
               finish_dtls(IF a = "controlling" THEN reply ELSE s)
         [] OTHER -> s

\* A server may hear its client before its own selection.
handle_dtls(a, m) ==
    LET s == ice[a]
    IN /\ s.dtls # "none" \/ (m.path \in Known(s) /\ s.creds /\ a = "controlling")
       /\ Becomes(a, Handshake(start_dtls(s, a, m.path), a, m.path, m.n))

fail(s) == IF s.state \in {"Failed", "Closed"} THEN s ELSE [s EXCEPT !.state = "Failed"]

-----------------------------------------------------------------------------
(* Checks, nomination and selection *)

Best(s, ps) == {p \in ps : \A q \in ps : priority_of(s, q) <= priority_of(s, p)}

send_check(s, a, p, nominate) ==
    LET n == s.remotes[p].n + 1
    IN [s EXCEPT !.remotes[p] = [@ EXCEPT !.n = n, !.tx_id = n, !.state = "InProgress",
                                          !.triggered = FALSE, !.nominating = nominate],
                 !.out = @ \cup {Check(a, p, n, nominate)}]

\* Every outcome of sending a check over one of ps; s itself if there is none.
SendOne(s, a, ps, nominate) ==
    LET able == {p \in ps : s.remotes[p].n < Bound(a)}
    IN IF able = {} THEN {s} ELSE {send_check(s, a, p, nominate) : p \in able}

MayNominate(s, a) == a = "controlling" /\ \A p \in Known(s) : ~s.remotes[p].nominating

\* nomination_choice; waited: a relay pair has been held long enough.
consider_nomination(s, a, waited) ==
    SendOne(s, a,
            {p \in Best(s, In(s, "Succeeded")) :
                /\ MayNominate(s, a) /\ s.selected = NoPath
                /\ s.remotes[p].typ = "relay" => Renomination \/ waited}, TRUE)

exploring(s) ==
    /\ s.selected # NoPath /\ Renomination /\ s.recent
    /\ s.remotes[s.selected].typ = "relay"

\* renomination_choice
consider_renomination(s, a) ==
    SendOne(s, a,
            IF MayNominate(s, a) /\ exploring(s) /\ s.srtp
            THEN Best(s, {p \in In(s, "Succeeded") :
                            /\ s.remotes[p].typ # "relay"
                            /\ priority_of(s, p) > priority_of(s, s.selected)})
            ELSE {}, TRUE)

select(s, a, p) ==
    start_dtls([s EXCEPT !.selected = p, !.recent = TRUE, !.remotes[p].nominated = TRUE], a, p)

switch_selected(s, p) == [s EXCEPT !.selected = p, !.remotes[p].nominated = TRUE]

\* Mutant: the newest nomination wins.
follow_renomination_always(s, p) == switch_selected(s, p)

follow_renomination(s, p) ==
    IF priority_of(s, p) > priority_of(s, s.selected) THEN switch_selected(s, p) ELSE s

Nominated(s, a, p) ==
    IF s.selected = NoPath THEN select(s, a, p) ELSE follow_renomination(s, p)

\* A Binding Request: answered, and then a nomination or a triggered check.
HandleRequest(a, m) ==
    LET p == m.path
        s == IF m.path \in Known(ice[a]) THEN ice[a] ELSE AddRemote(ice[a], p, "prflx")
        e == [s.remotes[p] EXCEPT !.nominated = @ \/ (m.use /\ a = "controlled")]
        t == [s EXCEPT !.remotes[p] = e, !.out = {Answer(a, p, m.n)}]
    IN /\ ice[a].creds
       /\ Becomes(a, CASE e.state = "Succeeded" -> IF e.nominated THEN Nominated(t, a, p) ELSE t
                       [] e.state = "InProgress" -> t
                       [] OTHER -> [t EXCEPT !.remotes[p].triggered = TRUE,
                                             !.remotes[p].state = "Waiting"])

\* Mutant: the controlled side takes the first pair that succeeds.
FollowAnswer_first(s, a, p) == Nominated(s, a, p)

\* The controlled side's check over p was answered: is it nominated by now?
FollowAnswer(s, a, p) == IF s.remotes[p].nominated THEN Nominated(s, a, p) ELSE s

\* A Binding Response, to the check last sent; one on the selected pair is consent.
\* No transport sends the Binding Error Response that handle_stun also takes.
HandleResponse(a, m) ==
    LET p == m.path
        s == ice[a]
        e == s.remotes[p]
        t == [s EXCEPT !.remotes[p] = [e EXCEPT !.state = "Succeeded", !.tx_id = 0,
                                                !.nominating = FALSE, !.triggered = FALSE]]
    IN /\ e.tx_id = m.n
       /\ \E r \in
             CASE s.selected = p -> {[s EXCEPT !.remotes[p].tx_id = 0]}
               [] s.selected # p /\ a = "controlled" ->
                     {FollowAnswer(t, a, p)}
               [] s.selected # p /\ a = "controlling" /\ e.nominating ->
                     {IF s.selected = NoPath THEN select(t, a, p) ELSE switch_selected(t, p)}
               [] OTHER -> IF s.selected = NoPath THEN consider_nomination(t, a, FALSE)
                                                  ELSE consider_renomination(t, a) :
             Becomes(a, r)

-----------------------------------------------------------------------------
(* The clock.  A tick may find checks that have run out of attempts (lost) *)
(* and one of Times.                                                       *)

GivenUp(s, ps) ==
    [s EXCEPT !.remotes = [p \in Paths |->
        IF p \in ps THEN [@[p] EXCEPT !.state = "Failed", !.tx_id = 0, !.nominating = FALSE]
        ELSE @[p]]]

\* A triggered check first, then one by priority; after a selection, only
\* over a direct pair that would beat a relayed one.
NextChecks(s) ==
    LET triggered == {p \in Known(s) \ In(s, "InProgress") : s.remotes[p].triggered}
    IN Best(s, IF triggered # {} THEN triggered
               ELSE {p \in In(s, "Waiting") :
                       s.selected = NoPath \/
                          /\ exploring(s) /\ s.remotes[p].typ # "relay"
                          /\ priority_of(s, p) > priority_of(s, s.selected)})

Checking(s) == \/ s.selected = NoPath \/ exploring(s)
               \/ \E p \in Known(s) : s.remotes[p].triggered

\* A keepalive takes the place of the check an answer is awaited to.
Keepalive(s, a, due) ==
    LET p == s.selected
        n == s.remotes[p].n + 1
    IN IF ~due \/ n > Bound(a) THEN s
       ELSE [s EXCEPT !.remotes[p].n = n, !.remotes[p].tx_id = n,
                      !.out = @ \cup {Check(a, p, n, FALSE)}]

IceTick(s, a, lost, time) ==
    LET checked == IF Checking(s) THEN SendOne(GivenUp(s, lost), a, NextChecks(GivenUp(s, lost)), FALSE)
                                  ELSE {s}
    IN IF ~s.creds \/ s.state = "Failed" THEN {s}
       ELSE IF s.selected = NoPath
            THEN {IF time = "ice" THEN fail(t) ELSE t :
                    t \in UNION {consider_nomination(c, a, time = "waited") : c \in checked}}
            ELSE {Keepalive(t, a, time = "keepalive") :
                    t \in UNION {consider_renomination(c, a) : c \in checked}}

DtlsTick(s, time) == IF s.dtls \in {"hello", "keys"} /\ time = "dtls" THEN fail(s) ELSE s

tick(a, lost, time) ==
    LET s == [ice[a] EXCEPT !.recent = @ /\ time # "window"]
    IN /\ s.state # "Closed"
       /\ \E t \in IceTick(s, a, lost, time) : Becomes(a, DtlsTick(t, time))

\* Nothing of a closed transport is looked at again.
close(a) ==
    /\ ice[a].state # "Closed"
    /\ Becomes(a, [NewTransport EXCEPT !.state = "Closed"])

handle_packet(m) ==
    /\ ice[m.to].state # "Closed"
    /\ CASE m.kind = "check" -> HandleRequest(m.to, m)
         [] m.kind = "answer" -> HandleResponse(m.to, m)
         [] m.kind = "dtls" -> handle_dtls(m.to, m)

IceNext ==
    \/ \E a \in Agents :
          \/ set_remote(a)
          \/ \E p \in Trickled : add_remote_candidate(a, p)
          \/ \E lost \in SUBSET In(ice[a], "InProgress"), time \in Times : tick(a, lost, time)
          \/ close(a)
    \/ \E m \in net : handle_packet(m)

\* The tick task runs until its transport is closed.
IceFairness == \A a \in Agents : WF_iceVars(tick(a, {}, "short"))

IceSpec == IceInit /\ [][IceNext]_iceVars /\ IceFairness

-----------------------------------------------------------------------------
(* Properties *)

\* "Follow it only to a higher-priority pair ..., so a late retransmission of
\* an older nomination never drags the session back" (follow_renomination):
\* nor does any other request, answer or tick, on either side.
NeverDraggedBack ==
    [][\A a \in Agents : ice[a].selected # NoPath /\ ice'[a].state # "Closed" =>
          \/ ice'[a].selected = ice[a].selected
          \/ priority_of(ice'[a], ice'[a].selected) > priority_of(ice[a], ice[a].selected)]_iceVars

\* Media goes only where it can go: the pair a transport sends on has carried
\* a check of its own and the answer, and the controlling side nominated it
\* (handle_stun, follow_renomination's "a pair it has itself verified").
SelectedVerified ==
    \A a \in Agents : LET p == ice[a].selected IN p # NoPath =>
        /\ \E n \in 1 .. Bound(a) : Answer(PeerOf(a), p, n) \in net
        /\ ice[a].remotes[p].state = "Succeeded"
        /\ \E n \in 1 .. MaxChecks : Check("controlling", p, n, TRUE) \in net

\* "The transport failed; no recovery is attempted" (TransportEvent::Failed).
FailedIsFinal ==
    [][\A a \in Agents : ice[a].state = "Failed" => ice'[a].state \in {"Failed", "Closed"}]_iceVars
=============================================================================
