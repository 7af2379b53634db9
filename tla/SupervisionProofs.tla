-------------------------- MODULE SupervisionProofs --------------------------
(***************************************************************************)
(* Proofs about the supervisor and the playbacks of a session              *)
(* (Supervision), for any number of requests, announcements and pairs: the *)
(* counter that holds back a leg's relay is at any time the number of      *)
(* those who hold it, and a supervisor's port always has someone who will  *)
(* give it back.  The requests on one session are taken one at a time      *)
(* (~Overlapping); when they are not, a removed supervisor's pair and      *)
(* relay can be lost, and no theorem is claimed.  And about what the       *)
(* engine plays into a leg (Playout): the queue is in the order it is due  *)
(* in, and audio goes forward in time.                                     *)
(***************************************************************************)
EXTENDS Supervision, Playout, FiniteSetTheorems, SequenceTheorems, WellFoundedInduction, TLAPS

Places == {"ready", "allocate", "install", "apply", "unsuppress", "relay", "free", "remove",
           "stopped"}
PartyIds == Parties \union {NoParty}

SupTypeOK ==
    /\ elsewhere \subseteq Pairs /\ taken \subseteq Pairs /\ free = Pairs \ taken
    /\ slot \in PartyIds
    /\ pair \in [Parties -> SUBSET Pairs]
    /\ suppressing \in [Parties -> SUBSET Legs] /\ mixMode \in [Parties -> SUBSET Legs]
    /\ relay_suppressed \in [Legs -> Nat] /\ live \in BOOLEAN
    /\ where \in [Actors -> Places]
    /\ on \in [Actors -> PartyIds] /\ want \in [Actors -> SUBSET Legs]
    /\ play \in [Announcements -> {"unused", "starting", "playing", "ended"}]
    /\ playLegs \in [Announcements -> SUBSET Legs]
    /\ audio \in [Announcements -> {"once", "looped", "loopedEmpty"}]
    /\ asked \in [Announcements -> BOOLEAN]
    /\ holds \in [Announcements -> BOOLEAN]

(* Under way: between its first check of the session and its last change. *)
Busy(r) == where[r] \notin {"ready", "stopped"}

(* At most one of the requests and the hangup is under way, and the last   *)
(* to be is the hangup.                                                    *)
Turns ==
    /\ \A q, r \in Actors : Busy(q) /\ Busy(r) => q = r
    /\ \A r \in ApiRequests : where[r] \notin {"remove", "stopped"}
    /\ where[Hangup] \notin {"allocate", "install", "apply"}
    /\ live <=> where[Hangup] = "ready"
    /\ ~live => \A r \in ApiRequests : where[r] = "ready"

(* The party an actor has in hand at each place of its way, and what it    *)
(* knows of it.  A party in the slot, once its mode is applied, suppresses *)
(* the legs its mode asks for.                                             *)
Hands ==
    /\ \A r \in Actors : on[r] = NoParty <=> where[r] \in {"ready", "allocate", "remove", "stopped"}
    /\ \A r \in Actors : slot # NoParty => where[r] \in {"ready", "apply", "remove"}
    /\ \A r \in Actors : where[r] = "install" => suppressing[on[r]] = {} /\ mixMode[on[r]] = want[r]
    /\ \A r \in Actors : where[r] = "apply" => on[r] = slot /\ mixMode[slot] = want[r]
    /\ \A r \in Actors : where[r] = "relay" => want[r] = suppressing[on[r]]
    /\ slot # NoParty /\ (\A r \in Actors : where[r] # "apply") => suppressing[slot] = mixMode[slot]

(* A pair taken for a party is in the slot or in somebody's hands.         *)
Ports ==
    /\ \A k \in Parties : pair[k] # {} => k = slot \/ \E r \in Actors : on[r] = k
    /\ \A k \in Parties : pair[k] \intersect elsewhere = {} /\ \A p, q \in pair[k] : p = q
    /\ \A p \in Pairs : p \in taken <=> p \in elsewhere \/ \E k \in Parties : p \in pair[k]

(* The party counts on leg l until remove_party has released its relay.    *)
PartyHolds(l) == \/ slot # NoParty /\ l \in suppressing[slot]
                 \/ \E r \in Actors : where[r] \in {"unsuppress", "relay"} /\ l \in suppressing[on[r]]
PartyCount(l) == IF PartyHolds(l) THEN 1 ELSE 0
(* The announcements that hold back the relay of leg l. *)
Holders(l) == {b \in Announcements : holds[b] /\ l \in playLegs[b]}

(* The relay counter of a leg is the number of those who hold it back. *)
Counts ==
    /\ \A b \in Announcements : holds[b] => play[b] = "playing"
    /\ \A l \in Legs : /\ IsFiniteSet(Holders(l))
                       /\ relay_suppressed[l] = PartyCount(l) + Cardinality(Holders(l))

(* The inductive invariant. *)
SupInv == SupTypeOK /\ Turns /\ Hands /\ Ports /\ Counts

LEMMA CountTypes ==
  ASSUME NEW c \in [Legs -> Nat], NEW ls
  PROVE  Suppressed(c, ls) \in [Legs -> Nat] /\ Released(c, ls) \in [Legs -> Nat]
BY DEF Suppressed, Released

(* The groups of the invariant, each kept by every action. *)
LEMMA TypesStep ==
  ASSUME SupTypeOK, Hands, SupervisionNext
  PROVE  SupTypeOK'
<1> USE SupervisionAssumption DEF SupTypeOK, Places, PartyIds, Actors, MayBegin, Goto, Done, TakeParty, partyVars, actorVars, playVars, TakeReserving, Take, Give
<1>0. UNCHANGED elsewhere
  BY DEF SupervisionNext
<1>1. ASSUME NEW r \in ApiRequests, NEW m \in SUBSET Legs, AddCheck(r, m) PROVE SupTypeOK'
  BY <1>0, <1>1 DEF AddCheck
<1>2. ASSUME NEW r \in ApiRequests, NEW m \in SUBSET Legs, SetMode(r, m) PROVE SupTypeOK'
  BY <1>0, <1>2 DEF SetMode
<1>3. ASSUME NEW r \in ApiRequests, RemoveParty(r) PROVE SupTypeOK'
  BY <1>0, <1>3 DEF RemoveParty
<1>4. ASSUME NEW r \in Actors, AddAllocate(r) PROVE SupTypeOK'
  BY <1>0, <1>4 DEF AddAllocate
<1>5. ASSUME NEW r \in Actors, AddRefused(r) PROVE SupTypeOK'
  BY <1>0, <1>5 DEF AddRefused
<1>6. ASSUME NEW r \in Actors, AddInstall(r) PROVE SupTypeOK'
  BY <1>0, <1>6 DEF AddInstall
<1>7. ASSUME NEW r \in Actors, Apply(r) PROVE SupTypeOK'
  <2>1. relay_suppressed' \in [Legs -> Nat]
    BY <1>7, CountTypes DEF Apply
  <2> QED
    BY <1>0, <1>7, <2>1 DEF Apply
<1>8. ASSUME NEW r \in Actors, RemoveCopy(r) PROVE SupTypeOK'
  BY <1>0, <1>8 DEF RemoveCopy, Hands
<1>9. ASSUME NEW r \in Actors, RemoveRelay(r) PROVE SupTypeOK'
  <2>1. relay_suppressed' \in [Legs -> Nat]
    BY <1>9, CountTypes DEF RemoveRelay
  <2> QED
    BY <1>0, <1>9, <2>1 DEF RemoveRelay
<1>10. ASSUME NEW r \in Actors, RemoveFree(r) PROVE SupTypeOK'
  <2>1. on[r] \in Parties
    BY <1>10 DEF RemoveFree, Hands
  <2>2. PICK p \in pair[on[r]] : Give(p)
    BY <1>10 DEF RemoveFree
  <2>3. p \in Pairs
    BY <2>1
  <2>4. suppressing' \in [Parties -> SUBSET Legs] /\ mixMode' \in [Parties -> SUBSET Legs]
    BY <1>10 DEF RemoveFree
  <2>5. taken' \subseteq Pairs /\ free' = Pairs \ taken'
    BY <2>2, <2>3
  <2>6. pair' \in [Parties -> SUBSET Pairs]
    BY <1>10, <2>1 DEF RemoveFree
  <2>7. where' \in [Actors -> Places] /\ on' \in [Actors -> PartyIds]
    BY <1>10 DEF RemoveFree
  <2> QED
    BY <1>0, <1>10, <2>4, <2>5, <2>6, <2>7 DEF RemoveFree
<1>11. ASSUME HangUp PROVE SupTypeOK'
  BY <1>0, <1>11 DEF HangUp
<1>12. ASSUME HangUpRemove PROVE SupTypeOK'
  BY <1>0, <1>12 DEF HangUpRemove
<1>13. ASSUME NEW b \in Announcements, NEW ls \in SUBSET Legs, StartPlayback(b, ls) PROVE SupTypeOK'
  BY <1>0, <1>13 DEF StartPlayback
<1>14. ASSUME NEW b \in Announcements, RunPlayback(b) PROVE SupTypeOK'
  <2>1. relay_suppressed' \in [Legs -> Nat]
    BY <1>14, CountTypes DEF RunPlayback
  <2> QED
    BY <1>0, <1>14, <2>1 DEF RunPlayback
<1>15. ASSUME NEW b \in Announcements, StopPlayback(b) PROVE SupTypeOK'
  BY <1>0, <1>15 DEF StopPlayback
<1>16. ASSUME NEW b \in Announcements, EndPlayback(b) \/ FailPlayback(b) PROVE SupTypeOK'
  <2>1. relay_suppressed' \in [Legs -> Nat]
    BY <1>16, CountTypes DEF EndPlayback, FailPlayback, Ended
  <2> QED
    BY <1>0, <1>16, <2>1 DEF EndPlayback, FailPlayback, Ended
<1> QED
  BY <1>1, <1>2, <1>3, <1>4, <1>5, <1>6, <1>7, <1>8, <1>9, <1>10, <1>11, <1>12, <1>13, <1>14, <1>15, <1>16 DEF SupervisionNext, Work

LEMMA TurnsStep ==
  ASSUME SupTypeOK, Turns, ~Overlapping, SupervisionNext
  PROVE  Turns'
<1> USE SupervisionAssumption DEF SupTypeOK, Turns, Busy, Actors, Places, MayBegin, Goto, Done, TakeParty, partyVars, actorVars, playVars
<1>1. ASSUME NEW r \in ApiRequests, NEW m \in SUBSET Legs, AddCheck(r, m) PROVE Turns'
  BY <1>1 DEF AddCheck
<1>2. ASSUME NEW r \in ApiRequests, NEW m \in SUBSET Legs, SetMode(r, m) PROVE Turns'
  BY <1>2 DEF SetMode
<1>3. ASSUME NEW r \in ApiRequests, RemoveParty(r) PROVE Turns'
  BY <1>3 DEF RemoveParty
<1>4. ASSUME NEW r \in Actors, AddAllocate(r) PROVE Turns'
  BY <1>4 DEF AddAllocate
<1>5. ASSUME NEW r \in Actors, AddRefused(r) PROVE Turns'
  BY <1>5 DEF AddRefused
<1>6. ASSUME NEW r \in Actors, AddInstall(r) PROVE Turns'
  BY <1>6 DEF AddInstall
<1>7. ASSUME NEW r \in Actors, Apply(r) PROVE Turns'
  BY <1>7 DEF Apply
<1>8. ASSUME NEW r \in Actors, RemoveCopy(r) PROVE Turns'
  BY <1>8 DEF RemoveCopy
<1>9. ASSUME NEW r \in Actors, RemoveRelay(r) PROVE Turns'
  BY <1>9 DEF RemoveRelay
<1>10. ASSUME NEW r \in Actors, RemoveFree(r) PROVE Turns'
  BY <1>10 DEF RemoveFree
<1>11. ASSUME HangUp PROVE Turns'
  BY <1>11 DEF HangUp
<1>12. ASSUME HangUpRemove PROVE Turns'
  BY <1>12 DEF HangUpRemove
<1>13. ASSUME NEW b \in Announcements, NEW ls \in SUBSET Legs, StartPlayback(b, ls) PROVE Turns'
  BY <1>13 DEF StartPlayback
<1>14. ASSUME NEW b \in Announcements, RunPlayback(b) PROVE Turns'
  BY <1>14 DEF RunPlayback
<1>15. ASSUME NEW b \in Announcements, StopPlayback(b) PROVE Turns'
  BY <1>15 DEF StopPlayback
<1>16. ASSUME NEW b \in Announcements, EndPlayback(b) \/ FailPlayback(b) PROVE Turns'
  BY <1>16 DEF EndPlayback, FailPlayback, Ended
<1> QED
  BY <1>1, <1>2, <1>3, <1>4, <1>5, <1>6, <1>7, <1>8, <1>9, <1>10, <1>11, <1>12, <1>13, <1>14, <1>15, <1>16 DEF SupervisionNext, Work

LEMMA HandsStep ==
  ASSUME SupTypeOK, Turns, Hands, ~Overlapping, SupervisionNext
  PROVE  Hands'
<1> USE SupervisionAssumption DEF SupTypeOK, Turns, Hands, Busy, Actors, Places, PartyIds, MayBegin, Goto, Done, TakeParty, partyVars, actorVars, playVars
<1>1. ASSUME NEW r \in ApiRequests, NEW m \in SUBSET Legs, AddCheck(r, m) PROVE Hands'
  BY <1>1 DEF AddCheck
<1>2. ASSUME NEW r \in ApiRequests, NEW m \in SUBSET Legs, SetMode(r, m) PROVE Hands'
  BY <1>2 DEF SetMode
<1>3. ASSUME NEW r \in ApiRequests, RemoveParty(r) PROVE Hands'
  BY <1>3 DEF RemoveParty
<1>4. ASSUME NEW r \in Actors, AddAllocate(r) PROVE Hands'
  BY <1>4 DEF AddAllocate
<1>5. ASSUME NEW r \in Actors, AddRefused(r) PROVE Hands'
  BY <1>5 DEF AddRefused
<1>6. ASSUME NEW r \in Actors, AddInstall(r) PROVE Hands'
  BY <1>6 DEF AddInstall
<1>7. ASSUME NEW r \in Actors, Apply(r) PROVE Hands'
  BY <1>7 DEF Apply
<1>8. ASSUME NEW r \in Actors, RemoveCopy(r) PROVE Hands'
  BY <1>8 DEF RemoveCopy
<1>9. ASSUME NEW r \in Actors, RemoveRelay(r) PROVE Hands'
  BY <1>9 DEF RemoveRelay
<1>10. ASSUME NEW r \in Actors, RemoveFree(r) PROVE Hands'
  BY <1>10 DEF RemoveFree
<1>11. ASSUME HangUp PROVE Hands'
  BY <1>11 DEF HangUp
<1>12. ASSUME HangUpRemove PROVE Hands'
  BY <1>12 DEF HangUpRemove
<1>13. ASSUME NEW b \in Announcements, NEW ls \in SUBSET Legs, StartPlayback(b, ls) PROVE Hands'
  BY <1>13 DEF StartPlayback
<1>14. ASSUME NEW b \in Announcements, RunPlayback(b) PROVE Hands'
  BY <1>14 DEF RunPlayback
<1>15. ASSUME NEW b \in Announcements, StopPlayback(b) PROVE Hands'
  BY <1>15 DEF StopPlayback
<1>16. ASSUME NEW b \in Announcements, EndPlayback(b) \/ FailPlayback(b) PROVE Hands'
  BY <1>16 DEF EndPlayback, FailPlayback, Ended
<1> QED
  BY <1>1, <1>2, <1>3, <1>4, <1>5, <1>6, <1>7, <1>8, <1>9, <1>10, <1>11, <1>12, <1>13, <1>14, <1>15, <1>16 DEF SupervisionNext, Work

LEMMA PortsStep ==
  ASSUME SupTypeOK, Turns, Hands, Ports, ~Overlapping, SupervisionNext
  PROVE  Ports'
<1> USE SupervisionAssumption DEF SupTypeOK, Turns, Hands, Ports, Busy, Actors, Places, PartyIds, TakeReserving, Take, Give, MayBegin, Goto, Done, TakeParty, partyVars, actorVars, playVars
<1>0. UNCHANGED elsewhere
  BY DEF SupervisionNext
<1>1. ASSUME NEW r \in ApiRequests, NEW m \in SUBSET Legs, AddCheck(r, m) PROVE Ports'
  BY <1>0, <1>1 DEF AddCheck
<1>2. ASSUME NEW r \in ApiRequests, NEW m \in SUBSET Legs, SetMode(r, m) PROVE Ports'
  BY <1>0, <1>2 DEF SetMode
<1>3. ASSUME NEW r \in ApiRequests, RemoveParty(r) PROVE Ports'
  BY <1>0, <1>3 DEF RemoveParty
<1>4. ASSUME NEW r \in Actors, AddAllocate(r) PROVE Ports'
  BY <1>0, <1>4 DEF AddAllocate
<1>5. ASSUME NEW r \in Actors, AddRefused(r) PROVE Ports'
  BY <1>0, <1>5 DEF AddRefused
<1>6. ASSUME NEW r \in Actors, AddInstall(r) PROVE Ports'
  BY <1>0, <1>6 DEF AddInstall
<1>7. ASSUME NEW r \in Actors, Apply(r) PROVE Ports'
  BY <1>0, <1>7 DEF Apply
<1>8. ASSUME NEW r \in Actors, RemoveCopy(r) PROVE Ports'
  BY <1>0, <1>8 DEF RemoveCopy
<1>9. ASSUME NEW r \in Actors, RemoveRelay(r) PROVE Ports'
  BY <1>0, <1>9 DEF RemoveRelay
<1>10. ASSUME NEW r \in Actors, RemoveFree(r) PROVE Ports'
  BY <1>0, <1>10 DEF RemoveFree
<1>11. ASSUME HangUp PROVE Ports'
  BY <1>0, <1>11 DEF HangUp
<1>12. ASSUME HangUpRemove PROVE Ports'
  BY <1>0, <1>12 DEF HangUpRemove
<1>13. ASSUME NEW b \in Announcements, NEW ls \in SUBSET Legs, StartPlayback(b, ls) PROVE Ports'
  BY <1>0, <1>13 DEF StartPlayback
<1>14. ASSUME NEW b \in Announcements, RunPlayback(b) PROVE Ports'
  BY <1>0, <1>14 DEF RunPlayback
<1>15. ASSUME NEW b \in Announcements, StopPlayback(b) PROVE Ports'
  BY <1>0, <1>15 DEF StopPlayback
<1>16. ASSUME NEW b \in Announcements, EndPlayback(b) \/ FailPlayback(b) PROVE Ports'
  BY <1>0, <1>16 DEF EndPlayback, FailPlayback, Ended
<1> QED
  BY <1>1, <1>2, <1>3, <1>4, <1>5, <1>6, <1>7, <1>8, <1>9, <1>10, <1>11, <1>12, <1>13, <1>14, <1>15, <1>16 DEF SupervisionNext, Work

(* A playback that holds its legs back is counted once on each of them. *)
LEMMA HolderComes ==
  ASSUME SupTypeOK, Counts, NEW b \in Announcements, NEW l \in Legs,
         play[b] = "starting", holds' = [holds EXCEPT ![b] = TRUE], UNCHANGED playLegs,
         l \in playLegs[b]
  PROVE  IsFiniteSet(Holders(l)') /\ Cardinality(Holders(l)') = Cardinality(Holders(l)) + 1
<1>1. b \notin Holders(l)
  BY DEF Holders, Counts
<1>2. Holders(l)' = Holders(l) \union {b}
  BY DEF Holders, SupTypeOK
<1> QED
  BY <1>1, <1>2, FS_AddElement DEF Counts

(* And one that ends has been counted. *)
LEMMA HolderGoes ==
  ASSUME SupTypeOK, Counts, NEW b \in Announcements, NEW l \in Legs,
         holds[b], holds' = [holds EXCEPT ![b] = FALSE], UNCHANGED playLegs,
         l \in playLegs[b]
  PROVE  /\ IsFiniteSet(Holders(l)') /\ Cardinality(Holders(l)') = Cardinality(Holders(l)) - 1
         /\ Cardinality(Holders(l)) > 0
<1>1. b \in Holders(l)
  BY DEF Holders, Counts
<1>2. Holders(l)' = Holders(l) \ {b}
  BY DEF Holders, SupTypeOK
<1>3. Cardinality(Holders(l)) \in Nat /\ Holders(l) # {}
  BY <1>1, FS_CardinalityType DEF Counts
<1>4. Cardinality(Holders(l)) # 0
  BY <1>3, FS_EmptySet DEF Counts
<1> QED
  BY <1>1, <1>2, <1>3, <1>4, FS_RemoveElement DEF Counts

(* A step of a request or the hangup: the counter follows the party. *)
LEMMA ActorCounts ==
  ASSUME SupTypeOK, Counts, UNCHANGED <<play, playLegs, holds>>,
         \A l \in Legs : relay_suppressed'[l] = relay_suppressed[l] - PartyCount(l) + PartyCount(l)'
  PROVE  Counts'
<1>1. \A l \in Legs : Holders(l)' = Holders(l)
  BY DEF Holders
<1>2. \A b \in Announcements : holds'[b] => play'[b] = "playing"
  BY DEF Counts
<1>3. ASSUME NEW l \in Legs
      PROVE  IsFiniteSet(Holders(l)') /\ relay_suppressed'[l] = PartyCount(l)' + Cardinality(Holders(l)')
  <2>1. Cardinality(Holders(l)) \in Nat /\ PartyCount(l) \in Nat /\ PartyCount(l)' \in Nat
    BY FS_CardinalityType DEF Counts, PartyCount
  <2> QED
    BY <1>1, <2>1 DEF Counts
<1> QED
  BY <1>2, <1>3 DEF Counts

(* A step of a playback leaves the party's part of the counter alone. *)
LEMMA PlaybackCounts ==
  ASSUME SupTypeOK, UNCHANGED <<partyVars, actorVars>>, NEW l \in Legs
  PROVE  PartyCount(l)' = PartyCount(l)
BY DEF PartyCount, PartyHolds, partyVars, actorVars

(* A leg that the supervisor suppresses has a count to give back. *)
LEMMA Counted ==
  ASSUME SupTypeOK, Counts, NEW l \in Legs
  PROVE  relay_suppressed[l] \in Nat /\ (PartyHolds(l) => relay_suppressed[l] > 0)
<1>1. Cardinality(Holders(l)) \in Nat
  BY FS_CardinalityType DEF Counts
<1> QED
  BY <1>1 DEF SupTypeOK, Counts, PartyCount

LEMMA CountsStep ==
  ASSUME SupTypeOK, Turns, Hands, Counts, SupervisionNext, ~Overlapping
  PROVE  Counts'
<1> DEFINE Moves(l) == relay_suppressed'[l] = relay_suppressed[l] - PartyCount(l) + PartyCount(l)'
<1> USE SupervisionAssumption DEF SupTypeOK, Turns, Hands, Busy, Actors, Places, PartyIds, MayBegin,
        Goto, Done, TakeParty, partyVars, playVars, PartyCount, PartyHolds
<1>1. ASSUME NEW r \in ApiRequests, NEW m \in SUBSET Legs, AddCheck(r, m) PROVE Counts'
  <2>1. ASSUME NEW l \in Legs PROVE Moves(l)
    BY <1>1 DEF AddCheck
  <2> QED
    BY <1>1, <2>1, ActorCounts DEF AddCheck
<1>2. ASSUME NEW r \in ApiRequests, NEW m \in SUBSET Legs, SetMode(r, m) PROVE Counts'
  <2>1. ASSUME NEW l \in Legs PROVE Moves(l)
    BY <1>2 DEF SetMode
  <2> QED
    BY <1>2, <2>1, ActorCounts DEF SetMode
<1>3. ASSUME NEW r \in ApiRequests, RemoveParty(r) PROVE Counts'
  <2>1. ASSUME NEW l \in Legs PROVE Moves(l)
    BY <1>3 DEF RemoveParty
  <2> QED
    BY <1>3, <2>1, ActorCounts DEF RemoveParty
<1>4. ASSUME NEW r \in Actors, AddAllocate(r) PROVE Counts'
  <2>1. ASSUME NEW l \in Legs PROVE Moves(l)
    BY <1>4 DEF AddAllocate
  <2> QED
    BY <1>4, <2>1, ActorCounts DEF AddAllocate
<1>5. ASSUME NEW r \in Actors, AddRefused(r) PROVE Counts'
  <2>1. ASSUME NEW l \in Legs PROVE Moves(l)
    BY <1>5 DEF AddRefused
  <2> QED
    BY <1>5, <2>1, ActorCounts DEF AddRefused
<1>6. ASSUME NEW r \in Actors, AddInstall(r) PROVE Counts'
  <2>1. ASSUME NEW l \in Legs PROVE Moves(l)
    BY <1>6 DEF AddInstall
  <2> QED
    BY <1>6, <2>1, ActorCounts DEF AddInstall
<1>7. ASSUME NEW r \in Actors, Apply(r) PROVE Counts'
  <2>1. ASSUME NEW l \in Legs PROVE Moves(l)
    <3>1. on[r] = slot /\ slot \in Parties /\ \A q \in Actors : where[q] \notin {"unsuppress", "relay"}
      BY <1>7 DEF Apply
    <3>2. PartyHolds(l) <=> l \in suppressing[slot]
      BY <3>1
    <3>3. slot' = slot /\ suppressing'[slot] = want[r]
          /\ \A q \in Actors : where'[q] \notin {"unsuppress", "relay"}
      BY <1>7, <3>1 DEF Apply
    <3>4. PartyHolds(l)' <=> l \in want[r]
      BY <3>1, <3>3
    <3>5. relay_suppressed[l] \in Nat /\ (l \in suppressing[slot] => relay_suppressed[l] > 0)
      BY <3>2, Counted
    <3>6. relay_suppressed'[l] = Released(Suppressed(relay_suppressed, want[r] \ suppressing[slot]),
                                          suppressing[slot] \ want[r])[l]
      BY <1>7, <3>1 DEF Apply
    <3>7. /\ l \in want[r] /\ l \notin suppressing[slot] => relay_suppressed'[l] = relay_suppressed[l] + 1
          /\ l \notin want[r] /\ l \in suppressing[slot] => relay_suppressed'[l] = relay_suppressed[l] - 1
          /\ (l \in want[r] <=> l \in suppressing[slot]) => relay_suppressed'[l] = relay_suppressed[l]
      BY <3>5, <3>6 DEF Released, Suppressed
    <3> QED
      BY <3>2, <3>4, <3>5, <3>7
  <2> QED
    BY <1>7, <2>1, ActorCounts DEF Apply
<1>8. ASSUME NEW r \in Actors, RemoveCopy(r) PROVE Counts'
  <2>1. ASSUME NEW l \in Legs PROVE Moves(l)
    BY <1>8 DEF RemoveCopy
  <2> QED
    BY <1>8, <2>1, ActorCounts DEF RemoveCopy
<1>9. ASSUME NEW r \in Actors, RemoveRelay(r) PROVE Counts'
  <2>1. ASSUME NEW l \in Legs PROVE Moves(l)
    <3>1. slot = NoParty /\ want[r] = suppressing[on[r]]
          /\ \A q \in Actors : where[q] \in {"unsuppress", "relay"} => q = r
      BY <1>9 DEF RemoveRelay
    <3>2. PartyHolds(l) <=> l \in want[r]
      BY <1>9, <3>1 DEF RemoveRelay
    <3>3. ~PartyHolds(l)'
      BY <1>9, <3>1 DEF RemoveRelay
    <3>4. relay_suppressed[l] \in Nat /\ (l \in want[r] => relay_suppressed[l] > 0)
      BY <3>2, Counted
    <3>5. relay_suppressed'[l] = IF l \in want[r] THEN relay_suppressed[l] - 1 ELSE relay_suppressed[l]
      BY <1>9, <3>4 DEF RemoveRelay, Released
    <3> QED
      BY <3>2, <3>3, <3>4, <3>5
  <2> QED
    BY <1>9, <2>1, ActorCounts DEF RemoveRelay
<1>10. ASSUME NEW r \in Actors, RemoveFree(r) PROVE Counts'
  <2>1. ASSUME NEW l \in Legs PROVE Moves(l)
    BY <1>10 DEF RemoveFree
  <2> QED
    BY <1>10, <2>1, ActorCounts DEF RemoveFree
<1>11. ASSUME HangUp PROVE Counts'
  <2>1. ASSUME NEW l \in Legs PROVE Moves(l)
    BY <1>11 DEF HangUp
  <2> QED
    BY <1>11, <2>1, ActorCounts DEF HangUp
<1>12. ASSUME HangUpRemove PROVE Counts'
  <2>1. ASSUME NEW l \in Legs PROVE Moves(l)
    BY <1>12 DEF HangUpRemove
  <2> QED
    BY <1>12, <2>1, ActorCounts DEF HangUpRemove
<1> HIDE DEF PartyCount, PartyHolds
<1>13. ASSUME NEW b \in Announcements, NEW ls \in SUBSET Legs, StartPlayback(b, ls) PROVE Counts'
  <2>1. ~holds[b] /\ holds' = holds
    BY <1>13 DEF StartPlayback, Counts
  <2>2. \A l \in Legs : Holders(l)' = Holders(l)
    BY <1>13, <2>1 DEF StartPlayback, Holders
  <2>3. \A l \in Legs : PartyCount(l)' = PartyCount(l)
    BY <1>13, PlaybackCounts DEF StartPlayback
  <2>4. \A c \in Announcements : holds'[c] => play'[c] = "playing"
    BY <1>13, <2>1 DEF StartPlayback, Counts
  <2> QED
    BY <1>13, <2>2, <2>3, <2>4 DEF StartPlayback, Counts
<1>14. ASSUME NEW b \in Announcements, RunPlayback(b) PROVE Counts'
  <2>1. \A l \in Legs : PartyCount(l)' = PartyCount(l)
    BY <1>14, PlaybackCounts DEF RunPlayback
  <2>2. \A c \in Announcements : holds'[c] => play'[c] = "playing"
    BY <1>14 DEF RunPlayback, Counts
  <2>3. ASSUME NEW l \in Legs
        PROVE  IsFiniteSet(Holders(l)') /\ relay_suppressed'[l] = PartyCount(l)' + Cardinality(Holders(l)')
    <3>1. CASE live /\ l \in playLegs[b]
      <4>1. relay_suppressed'[l] = relay_suppressed[l] + 1
        BY <1>14, <3>1 DEF RunPlayback, Suppressed
      <4>2. IsFiniteSet(Holders(l)') /\ Cardinality(Holders(l)') = Cardinality(Holders(l)) + 1
        BY <1>14, <3>1, HolderComes DEF RunPlayback
      <4>3. Cardinality(Holders(l)) \in Nat /\ PartyCount(l) \in Nat
        BY FS_CardinalityType DEF Counts, PartyCount
      <4> QED
        BY <2>1, <4>1, <4>2, <4>3 DEF Counts
    <3>2. CASE ~(live /\ l \in playLegs[b])
      <4>1. relay_suppressed'[l] = relay_suppressed[l]
        BY <1>14, <3>2 DEF RunPlayback, Suppressed
      <4>2. Holders(l)' = Holders(l)
        BY <1>14, <3>2 DEF RunPlayback, Holders, Counts
      <4> QED
        BY <2>1, <4>1, <4>2 DEF Counts
    <3> QED
      BY <3>1, <3>2
  <2> QED
    BY <2>2, <2>3 DEF Counts
<1>15. ASSUME NEW b \in Announcements, StopPlayback(b) PROVE Counts'
  <2>1. \A l \in Legs : Holders(l)' = Holders(l)
    BY <1>15 DEF StopPlayback, Holders
  <2>2. \A l \in Legs : PartyCount(l)' = PartyCount(l)
    BY <1>15, PlaybackCounts DEF StopPlayback
  <2> QED
    BY <1>15, <2>1, <2>2 DEF StopPlayback, Counts
<1>16. ASSUME NEW b \in Announcements, EndPlayback(b) \/ FailPlayback(b) PROVE Counts'
  <2>0. Ended(b)
    BY <1>16 DEF EndPlayback, FailPlayback
  <2>1. \A l \in Legs : PartyCount(l)' = PartyCount(l)
    BY <2>0, PlaybackCounts DEF Ended
  <2>2. \A c \in Announcements : holds'[c] => play'[c] = "playing"
    BY <2>0 DEF Ended, Counts
  <2>3. ASSUME NEW l \in Legs
        PROVE  IsFiniteSet(Holders(l)') /\ relay_suppressed'[l] = PartyCount(l)' + Cardinality(Holders(l)')
    <3>1. CASE holds[b] /\ l \in playLegs[b]
      <4>1. /\ IsFiniteSet(Holders(l)') /\ Cardinality(Holders(l)') = Cardinality(Holders(l)) - 1
            /\ Cardinality(Holders(l)) > 0
        BY <2>0, <3>1, HolderGoes DEF Ended
      <4>2. Cardinality(Holders(l)) \in Nat /\ PartyCount(l) \in Nat
        BY FS_CardinalityType DEF Counts, PartyCount
      <4>3. relay_suppressed[l] \in Nat /\ relay_suppressed[l] > 0
        BY <4>1, <4>2 DEF Counts
      <4>4. relay_suppressed'[l] = relay_suppressed[l] - 1
        BY <2>0, <3>1, <4>3 DEF Ended, Released
      <4> QED
        BY <2>1, <4>1, <4>2, <4>4 DEF Counts
    <3>2. CASE ~(holds[b] /\ l \in playLegs[b])
      <4>1. relay_suppressed'[l] = relay_suppressed[l]
        BY <2>0, <3>2 DEF Ended, Released
      <4>2. Holders(l)' = Holders(l)
        BY <2>0, <3>2 DEF Ended, Holders
      <4> QED
        BY <2>1, <4>1, <4>2 DEF Counts
    <3> QED
      BY <3>1, <3>2
  <2> QED
    BY <2>2, <2>3 DEF Counts
<1> QED
  BY <1>1, <1>2, <1>3, <1>4, <1>5, <1>6, <1>7, <1>8, <1>9, <1>10, <1>11, <1>12, <1>13, <1>14, <1>15,
     <1>16 DEF SupervisionNext, Work

LEMMA SupInit == SupervisionInit => SupInv
<1> SUFFICES ASSUME SupervisionInit PROVE SupInv
  OBVIOUS
<1> USE SupervisionAssumption DEF SupervisionInit, Actors, Legs, Places, PartyIds
<1>1. SupTypeOK
  BY DEF SupTypeOK
<1>2. Turns /\ Hands
  BY DEF Turns, Hands, Busy
<1>3. Ports
  BY DEF Ports
<1>4. ASSUME NEW l \in Legs PROVE ~PartyHolds(l) /\ Holders(l) = {}
  BY DEF PartyHolds, Holders
<1>5. ASSUME NEW l \in Legs
      PROVE  IsFiniteSet(Holders(l)) /\ PartyCount(l) = 0 /\ Cardinality(Holders(l)) = 0
  BY <1>4, FS_EmptySet DEF PartyCount
<1>6. Counts
  BY <1>5 DEF Counts
<1> QED
  BY <1>1, <1>2, <1>3, <1>6 DEF SupInv

LEMMA SupStutter == SupInv /\ UNCHANGED supervisionVars => SupInv'
<1> SUFFICES ASSUME SupInv, UNCHANGED supervisionVars PROVE SupInv'
  OBVIOUS
<1> USE DEF SupInv, supervisionVars, partyVars, actorVars, playVars
<1>1. SupTypeOK' /\ Turns' /\ Hands' /\ Ports'
  BY DEF SupTypeOK, Turns, Busy, Hands, Ports
<1>2. \A l \in Legs : Holders(l)' = Holders(l) /\ PartyCount(l)' = PartyCount(l)
  BY DEF Holders, PartyCount, PartyHolds
<1>3. Counts'
  BY <1>2 DEF Counts
<1> QED
  BY <1>1, <1>3

LEMMA SupInvariant == ~Overlapping /\ SupervisionSpec => []SupInv
<1> SUFFICES ASSUME ~Overlapping PROVE SupervisionSpec => []SupInv
  OBVIOUS
<1>1. SupInv /\ SupervisionNext => SupInv'
  BY TypesStep, TurnsStep, HandsStep, PortsStep, CountsStep DEF SupInv
<1>2. SupInv /\ [SupervisionNext]_supervisionVars => SupInv'
  BY <1>1, SupStutter
<1> QED
  BY <1>2, SupInit, PTL DEF SupervisionSpec

(* remove_party: "the legs are relayed as before".  Whenever no request is *)
(* under way and no announcement holds a leg, a leg's relay is held back   *)
(* once if the supervisor in the slot is mixed into it and not at all      *)
(* otherwise, whatever modes, removals, playbacks and hangup came before.  *)
THEOREM RelaySafety == ~Overlapping /\ SupervisionSpec => []RelayRestored
<1>1. SupInv => RelayRestored
  <2> SUFFICES ASSUME SupInv, Quiet, NEW l \in Legs
               PROVE  relay_suppressed[l] = IF slot # NoParty /\ l \in mixMode[slot] THEN 1 ELSE 0
    BY DEF RelayRestored
  <2>1. Holders(l) = {}
    BY DEF Quiet, Holders
  <2>2. relay_suppressed[l] = PartyCount(l)
    BY <2>1, FS_EmptySet DEF SupInv, Counts, PartyCount
  <2>3. PartyHolds(l) <=> slot # NoParty /\ l \in mixMode[slot]
    BY DEF Quiet, PartyHolds, SupInv, Hands
  <2> QED
    BY <2>2, <2>3 DEF PartyCount
<1> QED
  BY <1>1, SupInvariant, PTL

(* stop_forwarding: "A supervisor's port goes back with the session's".    *)
(* When the hangup is over, the pool is missing only what other sessions   *)
(* hold.                                                                   *)
THEOREM PortsReturned == ~Overlapping /\ SupervisionSpec => []PortGoesBack
<1>1. SupInv => PortGoesBack
  <2> SUFFICES ASSUME SupInv, where[Hangup] = "stopped", Quiet PROVE taken = elsewhere
    BY DEF PortGoesBack
  <2>1. slot = NoParty /\ \A r \in Actors : on[r] = NoParty
    BY DEF SupInv, Hands, Quiet, Actors
  <2>2. \A k \in Parties : pair[k] = {}
    BY <2>1, SupervisionAssumption DEF SupInv, Ports
  <2> QED
    BY <2>2 DEF SupInv, SupTypeOK, Ports
<1> QED
  BY <1>1, SupInvariant, PTL

(* add_party: "A session has one supervisor at a time".  At most one party *)
(* holds a pair, one being added or removed included.                      *)
THEOREM SupervisorAlone == ~Overlapping /\ SupervisionSpec => []OneSupervisor
<1>1. SupInv => OneSupervisor
  <2> SUFFICES ASSUME SupInv PROVE OneSupervisor
    OBVIOUS
  <2> DEFINE S == {k \in Parties : pair[k] # {}}
  <2>1. ASSUME NEW j \in S, NEW k \in S PROVE j = k
    BY SupervisionAssumption DEF SupInv, Ports, Hands, Turns, Busy, SupTypeOK, PartyIds
  <2>2. CASE S = {}
    BY <2>2, FS_EmptySet DEF OneSupervisor
  <2>3. CASE S # {}
    <3>1. PICK k \in S : S = {k}
      BY <2>1, <2>3
    <3> QED
      BY <3>1, FS_Singleton DEF OneSupervisor
  <2> QED
    BY <2>2, <2>3
<1> QED
  BY <1>1, SupInvariant, PTL

-----------------------------------------------------------------------------
(* The queue of scheduled playout (Playout). *)

(* A set of naturals has a least element, and one with 0 and every         *)
(* successor is all of them.                                               *)
LEMMA Least ==
  ASSUME NEW T \in SUBSET Nat, T # {}
  PROVE  \E x \in T : \A y \in T : x <= y
<1>1. PICK x \in T : \A y \in T : ~(<<y, x>> \in OpToRel(<, Nat))
  BY WFMin, NatLessThanWellFounded
<1>2. \A y \in T : ~(y < x)
  BY <1>1 DEF OpToRel
<1> QED
  BY <1>2

LEMMA NatInd ==
  ASSUME NEW S, 0 \in S, \A n \in Nat : n \in S => n + 1 \in S
  PROVE  Nat \subseteq S
<1> SUFFICES ASSUME NEW k \in Nat \ S PROVE FALSE
  OBVIOUS
<1>1. PICK x \in Nat \ S : \A y \in Nat \ S : x <= y
  BY Least
<1>2. x # 0 /\ x - 1 \in Nat /\ x - 1 \in S
  BY <1>1
<1> QED
  BY <1>1, <1>2

(* An item of the queue; an audio frame takes some time. *)
PlayItem == {x \in [kind : {"audio", "event"}, id : Playbacks \union {NoId}, due : Nat,
                    marker : BOOLEAN, ts : Nat, after : Nat] :
                x.ts <= x.after /\ (x.kind = "audio" => x.ts < x.after)}

(* retain walks the items front to back: what it has kept after n of them. *)
KeptStep(items, id, f, n) ==
    IF n = 0 THEN <<>>
    ELSE IF id # NoId /\ items[n].id # id THEN Append(f[n - 1], items[n])
    ELSE f[n - 1]

LEMMA KeptExists ==
  ASSUME NEW items \in Seq(PlayItem), NEW id
  PROVE  \E f : f = [n \in 0..Len(items) |-> KeptStep(items, id, f, n)]
<1> DEFINE S == {m \in Nat : \E f : f = [n \in 0..m |-> KeptStep(items, id, f, n)]}
<1>1. 0 \in S
  <2>1. PICK f : f = [n \in 0..0 |-> <<>>]
    OBVIOUS
  <2>2. f = [n \in 0..0 |-> KeptStep(items, id, f, n)]
    BY <2>1 DEF KeptStep
  <2> QED
    BY <2>2
<1>2. ASSUME NEW m \in Nat, m \in S PROVE m + 1 \in S
  <2>1. PICK f : f = [n \in 0..m |-> KeptStep(items, id, f, n)]
    BY <1>2
  <2>2. PICK g : g = [n \in 0..(m + 1) |-> IF n = m + 1 THEN KeptStep(items, id, f, m + 1) ELSE f[n]]
    OBVIOUS
  <2>3. \A n \in 0..m : g[n] = f[n]
    BY <2>2
  <2>4. \A n \in 0..(m + 1) : g[n] = KeptStep(items, id, g, n)
    <3> SUFFICES ASSUME NEW n \in 0..(m + 1) PROVE g[n] = KeptStep(items, id, g, n)
      OBVIOUS
    <3>1. g[n] = KeptStep(items, id, f, n)
      BY <2>1, <2>2
    <3>2. n # 0 => g[n - 1] = f[n - 1]
      BY <2>3
    <3> QED
      BY <3>1, <3>2 DEF KeptStep
  <2>5. g = [n \in 0..(m + 1) |-> KeptStep(items, id, g, n)]
    BY <2>2, <2>4
  <2> QED
    BY <2>5
<1> HIDE DEF S
<1>3. Nat \subseteq S
  BY <1>1, <1>2, NatInd
<1>4. Len(items) \in S
  BY <1>3
<1> QED
  BY <1>4 DEF S

(* Some of the first n items, in their order. *)
SomeOf(g, items, n) ==
    /\ g \in Seq(PlayItem)
    /\ \A i \in 1..Len(g) : \E a \in 1..n : g[i] = items[a]
    /\ \A i, j \in 1..Len(g) : i < j => \E a, b \in 1..n : a < b /\ g[i] = items[a] /\ g[j] = items[b]

LEMMA RetainedSome ==
  ASSUME NEW items \in Seq(PlayItem), NEW id
  PROVE  SomeOf(Retained(items, id), items, Len(items))
<1> DEFINE f == CHOOSE f : f = [n \in 0..Len(items) |-> KeptStep(items, id, f, n)]
<1>1. f = [n \in 0..Len(items) |-> KeptStep(items, id, f, n)]
  BY KeptExists
<1>2. Retained(items, id) = f[Len(items)]
  BY DEF Retained, KeptStep
<1> HIDE DEF f
<1> DEFINE S == {n \in Nat : n \in 0..Len(items) => SomeOf(f[n], items, n)}
<1>3. 0 \in S
  <2>1. f[0] = <<>>
    BY <1>1 DEF KeptStep
  <2>2. SomeOf(<<>>, items, 0)
    BY DEF SomeOf
  <2> QED
    BY <2>1, <2>2
<1>4. ASSUME NEW n \in Nat, n \in S PROVE n + 1 \in S
  <2> SUFFICES ASSUME n + 1 \in 0..Len(items) PROVE SomeOf(f[n + 1], items, n + 1)
    OBVIOUS
  <2>1. PICK g : g = f[n] /\ SomeOf(g, items, n)
    BY <1>4
  <2>2. PICK x \in PlayItem : x = items[n + 1]
    OBVIOUS
  <2>3. f[n + 1] \in {g, Append(g, x)}
    BY <1>1, <2>1, <2>2 DEF KeptStep
  <2>4. SomeOf(g, items, n + 1)
    BY <2>1 DEF SomeOf
  <2>5. SomeOf(Append(g, x), items, n + 1)
    <3>0. g \in Seq(PlayItem)
      BY <2>1 DEF SomeOf
    <3>1. PICK h \in Seq(PlayItem) : h = Append(g, x)
      BY <3>0, AppendProperties
    <3>2. Len(g) \in Nat /\ Len(h) = Len(g) + 1 /\ h[Len(g) + 1] = x /\ \A i \in 1..Len(g) : h[i] = g[i]
      BY <2>1, <3>1 DEF SomeOf
    <3>3. ASSUME NEW i \in 1..Len(h) PROVE \E a \in 1..(n + 1) : h[i] = items[a]
      <4>1. CASE i = Len(g) + 1
        <5>1. n + 1 \in 1..(n + 1) /\ h[i] = items[n + 1]
          BY <2>2, <3>2, <4>1
        <5> QED
          BY <5>1
      <4>2. CASE i # Len(g) + 1
        <5>1. i \in 1..Len(g)
          BY <3>2, <4>2
        <5>2. PICK a \in 1..n : g[i] = items[a]
          BY <2>1, <5>1 DEF SomeOf
        <5> QED
          BY <3>2, <5>1, <5>2
      <4> QED
        BY <4>1, <4>2
    <3>4. ASSUME NEW i \in 1..Len(h), NEW j \in 1..Len(h), i < j
          PROVE  \E a, b \in 1..(n + 1) : a < b /\ h[i] = items[a] /\ h[j] = items[b]
      <4>1. CASE j = Len(g) + 1
        <5>0. i \in 1..Len(g)
          BY <3>2, <3>4, <4>1
        <5>1. PICK a \in 1..n : h[i] = items[a]
          BY <2>1, <3>2, <5>0 DEF SomeOf
        <5>2. n + 1 \in 1..(n + 1) /\ a \in 1..(n + 1) /\ a < n + 1 /\ h[j] = items[n + 1]
          BY <2>2, <3>2, <4>1
        <5> QED
          BY <5>1, <5>2
      <4>2. CASE j # Len(g) + 1
        <5>1. i \in 1..Len(g) /\ j \in 1..Len(g)
          BY <3>2, <3>4, <4>2
        <5>2. PICK a \in 1..n, b \in 1..n : a < b /\ g[i] = items[a] /\ g[j] = items[b]
          BY <2>1, <3>4, <5>1 DEF SomeOf
        <5> QED
          BY <3>2, <5>1, <5>2
      <4> QED
        BY <4>1, <4>2
    <3>5. SomeOf(h, items, n + 1)
      BY <3>3, <3>4 DEF SomeOf
    <3> QED
      BY <3>1, <3>5
  <2> QED
    BY <2>3, <2>4, <2>5
<1> HIDE DEF S
<1>5. Len(items) \in S
  BY <1>3, <1>4, NatInd
<1> QED
  BY <1>2, <1>5 DEF S

Ascending(s) == \A i, j \in 1..Len(s) : i < j => s[i].after <= s[j].ts

(* A queue's cursor is where its last item ends. *)
QueueOK(q) ==
    /\ {"items", "next_due_at", "next_rtp_timestamp", "audio_stream_end"} \subseteq DOMAIN q
    /\ q.items \in Seq(PlayItem) /\ Ascending(q.items)
    /\ \A i, j \in 1..Len(q.items) : i < j => q.items[i].due < q.items[j].due
    /\ q.items = <<>> => q.next_due_at = None /\ q.next_rtp_timestamp = None
    /\ q.items # <<>> => /\ q.next_due_at = q.items[Len(q.items)].due + 1
                         /\ q.next_rtp_timestamp = q.items[Len(q.items)].after

LEMMA ItemFacts ==
  ASSUME NEW x \in PlayItem
  PROVE  /\ x.due \in Nat /\ x.ts \in Nat /\ x.after \in Nat /\ x.ts <= x.after
         /\ x.kind = "audio" => x.ts < x.after
         /\ x.kind \in {"audio", "event"} /\ x.marker \in BOOLEAN
BY DEF PlayItem

(* r is q with some of its items gone. *)
Thinned(q, r) ==
    QueueOK(r) /\ \A i \in 1..Len(r.items) : \E a \in 1..Len(q.items) : r.items[i] = q.items[a]

LEMMA ClearKeeps ==
  ASSUME NEW q, QueueOK(q), NEW id
  PROVE  Thinned(q, clear_scheduled_playout_for_leg(q, id))
<1> DEFINE r == clear_scheduled_playout_for_leg(q, id)
<1>1. PICK g : g = Retained(q.items, id) /\ SomeOf(g, q.items, Len(q.items))
  BY RetainedSome DEF QueueOK
<1>2. r.items = g /\ {"items", "next_due_at", "next_rtp_timestamp", "audio_stream_end"} \subseteq DOMAIN r
      /\ (g = <<>> => r.next_due_at = None /\ r.next_rtp_timestamp = None)
      /\ (g # <<>> => r.next_due_at = g[Len(g)].due + 1 /\ r.next_rtp_timestamp = g[Len(g)].after)
  BY <1>1 DEF clear_scheduled_playout_for_leg, recompute_playout_queue_state, Last, QueueOK
<1> HIDE DEF r
<1>3. ASSUME NEW i \in 1..Len(g), NEW j \in 1..Len(g), i < j
      PROVE  g[i].due < g[j].due /\ g[i].after <= g[j].ts
  <2>1. PICK a \in 1..Len(q.items), b \in 1..Len(q.items) : a < b /\ g[i] = q.items[a] /\ g[j] = q.items[b]
    BY <1>1, <1>3 DEF SomeOf
  <2> QED
    BY <2>1 DEF QueueOK, Ascending
<1>4. g \in Seq(PlayItem) /\ \A i \in 1..Len(g) : \E a \in 1..Len(q.items) : g[i] = q.items[a]
  BY <1>1 DEF SomeOf
<1>5. QueueOK(r)
  BY <1>2, <1>3, <1>4 DEF QueueOK, Ascending
<1> QED
  BY <1>2, <1>4, <1>5 DEF r, Thinned

(* r is q with more behind it, none of which is before the cursor. *)
Behind(q, r, cursor) ==
    /\ QueueOK(r)
    /\ \A i \in 1..Len(r.items) : \/ cursor <= r.items[i].ts
                                  \/ \E a \in 1..Len(q.items) : r.items[i] = q.items[a]

LEMMA FcnIsSeq ==
  ASSUME NEW n \in Nat, NEW S, NEW g \in [1..n -> S]
  PROVE  g \in Seq(S) /\ Len(g) = n
OBVIOUS

(* What is scheduled goes behind what is there. *)
LEMMA BehindKeeps ==
  ASSUME NEW q, QueueOK(q), NEW new \in Seq(PlayItem), new # <<>>, NEW due \in Nat, NEW cursor \in Nat,
         q.items # <<>> => due >= q.next_due_at /\ cursor = q.next_rtp_timestamp,
         \A i \in 1..Len(new) : new[i].due = due + i - 1 /\ cursor <= new[i].ts,
         Ascending(new),
         NEW r, {"items", "next_due_at", "next_rtp_timestamp", "audio_stream_end"} \subseteq DOMAIN r,
         r.items = q.items \o new, r.next_due_at = new[Len(new)].due + 1,
         r.next_rtp_timestamp = new[Len(new)].after
  PROVE  Behind(q, r, cursor)
<1>1. PICK s \in Seq(PlayItem) : s = q.items
  BY DEF QueueOK
<1>2. PICK t \in Seq(PlayItem) : t = s \o new
  BY ConcatProperties
<1>3. /\ Len(s) \in Nat /\ Len(new) \in Nat /\ Len(new) > 0 /\ Len(t) = Len(s) + Len(new)
      /\ \A i \in 1..Len(s) : t[i] = s[i]
      /\ \A i \in 1..Len(t) : i > Len(s) => t[i] = new[i - Len(s)] /\ i - Len(s) \in 1..Len(new)
  BY <1>2
<1>4. \A i \in 1..Len(s) : s[i] \in PlayItem /\ s[i].due < due /\ s[i].after <= cursor
  <2> SUFFICES ASSUME NEW i \in 1..Len(s) PROVE s[i] \in PlayItem /\ s[i].due < due /\ s[i].after <= cursor
    OBVIOUS
  <2>1. Len(s) \in 1..Len(s) /\ s[i] \in PlayItem /\ s[Len(s)] \in PlayItem /\ s # <<>>
    BY <1>3
  <2>2. due >= s[Len(s)].due + 1 /\ cursor = s[Len(s)].after
    BY <1>1, <2>1 DEF QueueOK
  <2>3. i = Len(s) \/ (s[i].due < s[Len(s)].due /\ s[i].after <= s[Len(s)].ts)
    <3>1. i # Len(s) => i < Len(s)
      BY <1>3
    <3> QED
      BY <1>1, <2>1, <3>1 DEF QueueOK, Ascending
  <2>4. /\ s[i].due \in Nat /\ s[Len(s)].due \in Nat /\ s[i].after \in Nat
        /\ s[Len(s)].ts \in Nat /\ s[Len(s)].after \in Nat
        /\ s[Len(s)].ts <= s[Len(s)].after
    BY <2>1, ItemFacts
  <2>5. PICK d1 \in Nat, d2 \in Nat, a1 \in Nat, t2 \in Nat, a2 \in Nat :
            /\ d1 = s[i].due /\ d2 = s[Len(s)].due /\ a1 = s[i].after /\ t2 = s[Len(s)].ts
            /\ a2 = s[Len(s)].after
    BY <2>4
  <2>6. (d1 = d2 /\ a1 = a2) \/ (d1 < d2 /\ a1 <= t2)
    BY <2>3, <2>5
  <2>7. due >= d2 + 1 /\ cursor = a2 /\ t2 <= a2
    BY <2>2, <2>4, <2>5
  <2>8. d1 < due /\ a1 <= cursor
    BY <2>6, <2>7
  <2> QED
    BY <2>1, <2>5, <2>8
<1>5. ASSUME NEW i \in 1..Len(t), NEW j \in 1..Len(t), i < j
      PROVE  t[i].due < t[j].due /\ t[i].after <= t[j].ts
  <2>1. CASE j <= Len(s)
    <3>1. i \in 1..Len(s) /\ j \in 1..Len(s)
      BY <1>3, <1>5, <2>1
    <3> QED
      BY <1>1, <1>3, <1>5, <3>1 DEF QueueOK, Ascending
  <2>2. CASE i > Len(s)
    <3>1. i - Len(s) \in 1..Len(new) /\ j - Len(s) \in 1..Len(new) /\ i - Len(s) < j - Len(s)
      BY <1>3, <1>5, <2>2
    <3>2. new[i - Len(s)].after <= new[j - Len(s)].ts
      BY <3>1 DEF Ascending
    <3>3. t[i] = new[i - Len(s)] /\ t[j] = new[j - Len(s)]
      BY <1>3, <1>5, <2>2
    <3>4. new[i - Len(s)].due = due + (i - Len(s)) - 1 /\ new[j - Len(s)].due = due + (j - Len(s)) - 1
      BY <3>1
    <3> QED
      BY <1>3, <1>5, <3>2, <3>3, <3>4
  <2>3. CASE i <= Len(s) /\ j > Len(s)
    <3>1. i \in 1..Len(s) /\ j - Len(s) \in 1..Len(new) /\ t[i] = s[i] /\ t[j] = new[j - Len(s)]
      BY <1>3, <2>3
    <3>2. t[j].due = due + (j - Len(s)) - 1 /\ cursor <= t[j].ts /\ t[j] \in PlayItem
      BY <3>1
    <3>3. /\ t[i].due \in Nat /\ t[i].after \in Nat /\ t[j].ts \in Nat
          /\ t[i].due < due /\ t[i].after <= cursor
      BY <1>4, <3>1, <3>2, ItemFacts
    <3>4. due + (j - Len(s)) - 1 >= due
      BY <1>3, <2>3
    <3>5. PICK d1 \in Nat, d2 \in Nat, a1 \in Nat, t2 \in Nat :
              d1 = t[i].due /\ d2 = t[j].due /\ a1 = t[i].after /\ t2 = t[j].ts
      BY <3>2, <3>3, ItemFacts
    <3>6. d1 < due /\ a1 <= cursor /\ d2 >= due /\ cursor <= t2
      BY <3>2, <3>3, <3>4, <3>5
    <3>7. d1 < d2 /\ a1 <= t2
      BY <3>6
    <3> QED
      BY <3>5, <3>7
  <2> QED
    BY <1>3, <1>5, <2>1, <2>2, <2>3
<1>6. t # <<>> /\ t[Len(t)] = new[Len(new)]
  <2>1. Len(t) \in 1..Len(t) /\ Len(t) > Len(s) /\ Len(t) - Len(s) = Len(new)
    BY <1>3
  <2> QED
    BY <1>3, <2>1
<1>7. r.items = t
  BY <1>1, <1>2
<1>8. QueueOK(r)
  BY <1>5, <1>6, <1>7 DEF QueueOK, Ascending
<1>9. ASSUME NEW i \in 1..Len(t) PROVE cursor <= t[i].ts \/ \E a \in 1..Len(s) : t[i] = s[a]
  <2>1. CASE i <= Len(s)
    BY <1>3, <2>1
  <2>2. CASE i > Len(s)
    BY <1>3, <2>2
  <2> QED
    BY <1>3, <2>1, <2>2
<1> QED
  BY <1>1, <1>7, <1>8, <1>9 DEF Behind

Cursor(q, fallback) == IF q.next_rtp_timestamp = None THEN fallback ELSE q.next_rtp_timestamp

ReqOK(r) ==
    /\ {"kind", "id", "mode", "frames"} \subseteq DOMAIN r
    /\ r.kind \in {"audio", "event"} /\ r.id \in Ids /\ r.frames \in Nat \ {0}

LEMMA CursorFacts ==
  ASSUME NEW q, QueueOK(q), NEW fallback \in Nat, now \in Nat
  PROVE  /\ Cursor(q, fallback) \in Nat /\ AtOrAfter(q.next_due_at, now) \in Nat
         /\ q.items # <<>> => /\ AtOrAfter(q.next_due_at, now) >= q.next_due_at
                              /\ Cursor(q, fallback) = q.next_rtp_timestamp
         /\ q.items = <<>> => Cursor(q, fallback) = fallback
<1>1. CASE q.items = <<>>
  BY <1>1 DEF QueueOK, Cursor, AtOrAfter, None
<1>2. CASE q.items # <<>>
  <2>1. PICK last \in PlayItem : last = q.items[Len(q.items)]
    BY <1>2 DEF QueueOK
  <2>2. q.next_due_at = last.due + 1 /\ q.next_rtp_timestamp = last.after /\ last.due \in Nat /\ last.after \in Nat
    BY <1>2, <2>1, ItemFacts DEF QueueOK
  <2> QED
    BY <1>2, <2>2 DEF Cursor, AtOrAfter, None
<1> QED
  BY <1>1, <1>2

LEMMA AudioKeeps ==
  ASSUME NEW q, QueueOK(q), NEW req, ReqOK(req), NEW fallback \in Nat, now \in Nat
  PROVE  Behind(q, WithAudio(q, req, fallback), Cursor(q, fallback))
<1>1. PICK due \in Nat, cursor \in Nat : due = AtOrAfter(q.next_due_at, now) /\ cursor = Cursor(q, fallback)
  BY CursorFacts
<1>2. PICK k \in Nat \ {0} : k = req.frames
  BY DEF ReqOK
<1> DEFINE frame(n) == [kind |-> "audio", id |-> req.id, due |-> due + n - 1,
                        marker |-> n = 1 /\ StartsTalkspurt(q, req.mode),
                        ts |-> cursor + n - 1, after |-> cursor + n]
<1>3. PICK new : new = [n \in 1..k |-> frame(n)]
  OBVIOUS
<1>4. ASSUME NEW n \in 1..k PROVE frame(n) \in PlayItem
  <2>1. due + n - 1 \in Nat /\ cursor + n - 1 \in Nat /\ cursor + n \in Nat /\ cursor + n - 1 < cursor + n
    OBVIOUS
  <2>2. (n = 1 /\ StartsTalkspurt(q, req.mode)) \in BOOLEAN /\ req.id \in Playbacks \union {NoId}
    BY DEF ReqOK, Ids
  <2> QED
    BY <2>1, <2>2 DEF PlayItem
<1>5. new \in Seq(PlayItem) /\ Len(new) = k
  <2> HIDE DEF frame
  <2>1. new \in [1..k -> PlayItem]
    BY <1>3, <1>4
  <2> QED
    BY <2>1, FcnIsSeq
<1>6. \A i \in 1..Len(new) : new[i].due = due + i - 1 /\ new[i].ts = cursor + i - 1 /\ new[i].after = cursor + i
  BY <1>3, <1>5
<1>7. Ascending(new) /\ new # <<>>
  BY <1>5, <1>6 DEF Ascending
<1>8. PICK r : r = WithAudio(q, req, fallback)
  OBVIOUS
<1>9. /\ r.items = q.items \o new /\ r.next_due_at = due + k /\ r.next_rtp_timestamp = cursor + k
      /\ {"items", "next_due_at", "next_rtp_timestamp", "audio_stream_end"} \subseteq DOMAIN r
  BY <1>1, <1>2, <1>3, <1>8 DEF WithAudio, Cursor, QueueOK
<1>10. r.next_due_at = new[Len(new)].due + 1 /\ r.next_rtp_timestamp = new[Len(new)].after
  BY <1>5, <1>6, <1>9
<1>11. \A i \in 1..Len(new) : new[i].due = due + i - 1 /\ cursor <= new[i].ts
  BY <1>5, <1>6
<1>12. q.items # <<>> => due >= q.next_due_at /\ cursor = q.next_rtp_timestamp
  BY <1>1, CursorFacts
<1> HIDE DEF frame
<1>13. Behind(q, r, cursor)
  BY <1>5, <1>7, <1>9, <1>10, <1>11, <1>12, BehindKeeps
<1> QED
  BY <1>1, <1>8, <1>13

LEMMA EventKeeps ==
  ASSUME NEW q, QueueOK(q), NEW req, ReqOK(req), NEW fallback \in Nat, now \in Nat
  PROVE  Behind(q, WithEvent(q, req, fallback), Cursor(q, fallback))
<1>1. PICK due \in Nat, cursor \in Nat : due = AtOrAfter(q.next_due_at, now) /\ cursor = Cursor(q, fallback)
  BY CursorFacts
<1>2. PICK k \in Nat \ {0} : k = req.frames
  BY DEF ReqOK
<1> DEFINE event(n) == [kind |-> "event", id |-> req.id, due |-> due + n - 1, marker |-> n = 1,
                        ts |-> cursor, after |-> IF n = k THEN cursor + n ELSE cursor]
<1>3. PICK new : new = [n \in 1..k |-> event(n)]
  OBVIOUS
<1>4. ASSUME NEW n \in 1..k PROVE event(n) \in PlayItem
  <2>1. due + n - 1 \in Nat /\ (IF n = k THEN cursor + n ELSE cursor) \in Nat
        /\ cursor <= (IF n = k THEN cursor + n ELSE cursor)
    OBVIOUS
  <2>2. req.id \in Playbacks \union {NoId}
    BY DEF ReqOK, Ids
  <2> QED
    BY <2>1, <2>2 DEF PlayItem
<1>5. new \in Seq(PlayItem) /\ Len(new) = k
  <2> HIDE DEF event
  <2>1. new \in [1..k -> PlayItem]
    BY <1>3, <1>4
  <2> QED
    BY <2>1, FcnIsSeq
<1>6. \A i \in 1..Len(new) : new[i].due = due + i - 1 /\ new[i].ts = cursor
                             /\ new[i].after = (IF i = k THEN cursor + i ELSE cursor)
  BY <1>3, <1>5
<1>7. Ascending(new) /\ new # <<>>
  BY <1>5, <1>6 DEF Ascending
<1>8. PICK r : r = WithEvent(q, req, fallback)
  OBVIOUS
<1>9. /\ r.items = q.items \o new /\ r.next_due_at = due + k /\ r.next_rtp_timestamp = cursor + k
      /\ {"items", "next_due_at", "next_rtp_timestamp", "audio_stream_end"} \subseteq DOMAIN r
  BY <1>1, <1>2, <1>3, <1>8 DEF WithEvent, Cursor, QueueOK
<1>10. r.next_due_at = new[Len(new)].due + 1 /\ r.next_rtp_timestamp = new[Len(new)].after
  BY <1>5, <1>6, <1>9
<1>11. \A i \in 1..Len(new) : new[i].due = due + i - 1 /\ cursor <= new[i].ts
  BY <1>5, <1>6
<1>12. q.items # <<>> => due >= q.next_due_at /\ cursor = q.next_rtp_timestamp
  BY <1>1, CursorFacts
<1> HIDE DEF event
<1>13. Behind(q, r, cursor)
  BY <1>5, <1>7, <1>9, <1>10, <1>11, <1>12, BehindKeeps
<1> QED
  BY <1>1, <1>8, <1>13

SentItem == [kind : {"audio", "event"}, ts : Nat, marker : BOOLEAN]

CallerOK(c) ==
    /\ {"at", "req", "fallback"} \subseteq DOMAIN caller[c]
    /\ caller[c].at \in {"idle", "snapshot", "insert"}
    /\ caller[c].at # "idle" => ReqOK(caller[c].req)
    /\ caller[c].at = "insert" => caller[c].fallback \in Nat

(* Where the two copies of the cursor stand, unless the pump ran between a *)
(* caller's two locks: nothing that is still to go out is before what went *)
(* out, what the pump holds is before what is queued, and a snapshot is    *)
(* that of the stream as it is.                                            *)
OnTime ==
    /\ \A i \in 1..Len(held), j \in 1..Len(queue.items) : held[i].after <= queue.items[j].ts
    /\ \A i \in 1..Len(held) : generated <= held[i].ts
    /\ \A i \in 1..Len(queue.items) : generated <= queue.items[i].ts
    /\ \A i \in 1..Len(sent) : sent[i].kind = "audio" => sent[i].ts < generated
    /\ \A i, j \in 1..Len(sent) :
          i < j /\ sent[i].kind = "audio" /\ sent[j].kind = "audio" => sent[i].ts < sent[j].ts
    /\ \A c \in {Loop, Task} : caller[c].at = "insert" => held = <<>> /\ caller[c].fallback = generated

PlayInv ==
    /\ now \in Nat /\ generated \in Nat /\ raced \in BOOLEAN
    /\ QueueOK(queue) /\ held \in Seq(PlayItem) /\ Ascending(held) /\ sent \in Seq(SentItem)
    /\ DOMAIN caller = {Loop, Task} /\ \A c \in {Loop, Task} : CallerOK(c)
    /\ raced \/ OnTime

(* The queue may lose items, or gain some behind the cursor. *)
LEMMA QueueStep ==
  ASSUME PlayInv, UNCHANGED <<now, generated, held, sent, raced>>,
         DOMAIN caller' = {Loop, Task},
         \A c \in {Loop, Task} : CallerOK(c)' /\ (caller'[c].at = "insert" => caller'[c] = caller[c]),
         NEW cursor \in Nat, Behind(queue, queue', cursor),
         OnTime => \/ queue'.items = <<>> \/ \A i \in 1..Len(queue'.items) :
                                               \E a \in 1..Len(queue.items) : queue'.items[i] = queue.items[a]
                   \/ /\ generated <= cursor
                      /\ \A i \in 1..Len(held) : held[i].after <= cursor
  PROVE  PlayInv'
<1>1. QueueOK(queue')
  BY DEF Behind
<1>2. ASSUME OnTime PROVE OnTime'
  <2>1. ASSUME NEW j \in 1..Len(queue'.items)
        PROVE  /\ generated <= queue'.items[j].ts
               /\ \A i \in 1..Len(held) : held[i].after <= queue'.items[j].ts
    <3>1. PICK x \in PlayItem : x = queue'.items[j]
      BY <1>1 DEF QueueOK
    <3>2. CASE \E a \in 1..Len(queue.items) : x = queue.items[a]
      BY <1>2, <3>1, <3>2 DEF OnTime
    <3>3. CASE ~\E a \in 1..Len(queue.items) : x = queue.items[a]
      <4>1. /\ cursor <= x.ts /\ generated <= cursor /\ x.ts \in Nat /\ queue'.items # <<>>
            /\ \A i \in 1..Len(held) : held[i].after <= cursor
        BY <1>2, <2>1, <3>1, <3>3, ItemFacts DEF Behind
      <4>2. generated <= x.ts
        BY <4>1 DEF PlayInv
      <4>3. ASSUME NEW i \in 1..Len(held) PROVE held[i].after <= x.ts
        <5>1. held[i] \in PlayItem
          BY DEF PlayInv
        <5>2. PICK h \in Nat : h = held[i].after
          BY <5>1, ItemFacts
        <5> QED
          BY <4>1, <5>2
      <4> QED
        BY <3>1, <4>2, <4>3
    <3> QED
      BY <3>2, <3>3
  <2> QED
    BY <1>2, <2>1 DEF OnTime
<1> QED
  BY <1>1, <1>2 DEF PlayInv

LEMMA LoseStep ==
  ASSUME PlayInv, UNCHANGED <<now, generated, held, sent, raced>>,
         DOMAIN caller' = {Loop, Task},
         \A c \in {Loop, Task} : CallerOK(c)' /\ (caller'[c].at = "insert" => caller'[c] = caller[c]),
         Thinned(queue, queue')
  PROVE  PlayInv'
<1>1. PICK cursor \in Nat : cursor = 0
  OBVIOUS
<1>2. Behind(queue, queue', cursor)
  BY DEF Behind, Thinned
<1> QED
  BY <1>2, QueueStep DEF Thinned

LEMMA SameCaller ==
  ASSUME caller' = caller, PlayInv
  PROVE  /\ DOMAIN caller' = {Loop, Task}
         /\ \A c \in {Loop, Task} : CallerOK(c)' /\ (caller'[c].at = "insert" => caller'[c] = caller[c])
BY DEF PlayInv, CallerOK

LEMMA ClearStep ==
  ASSUME PlayInv, NEW c, clear_scheduled_playout(c)
  PROVE  PlayInv'
<1>1. PICK id : queue' = clear_scheduled_playout_for_leg(queue, id)
  BY DEF clear_scheduled_playout
<1>2. Thinned(queue, queue')
  BY <1>1, ClearKeeps DEF PlayInv
<1>4. UNCHANGED <<now, generated, held, sent, raced, caller>>
  BY DEF clear_scheduled_playout
<1> QED
  BY <1>2, <1>4, SameCaller, LoseStep

LEMMA AskStep ==
  ASSUME PlayInv, NEW c \in {Loop, Task}, NEW kind \in {"audio", "event"}, NEW id \in Ids, NEW mode,
         NEW n \in Nat \ {0}, Ask(c, kind, id, mode, n)
  PROVE  PlayInv'
<1>1. queue' = queue \/ queue' = clear_scheduled_playout_for_leg(queue, id)
  BY DEF Ask
<1>2. Thinned(queue, queue')
  BY <1>1, ClearKeeps DEF PlayInv, Thinned
<1>4. UNCHANGED <<now, generated, held, sent, raced>>
  BY DEF Ask
<1>5. PICK r : r = [kind |-> kind, id |-> id, mode |-> mode, frames |-> n]
  OBVIOUS
<1>6. ReqOK(r)
  BY <1>5 DEF ReqOK
<1>7. caller' = [caller EXCEPT ![c].at = "snapshot", ![c].req = r]
  BY <1>5 DEF Ask
<1>8. /\ DOMAIN caller' = {Loop, Task}
      /\ \A d \in {Loop, Task} : CallerOK(d)' /\ (caller'[d].at = "insert" => caller'[d] = caller[d])
  <2>1. DOMAIN caller' = {Loop, Task}
    BY <1>7 DEF PlayInv
  <2>2. ASSUME NEW d \in {Loop, Task}, d # c PROVE caller'[d] = caller[d]
    BY <1>7, <2>2 DEF PlayInv
  <2>3. /\ {"at", "req", "fallback"} \subseteq DOMAIN caller'[c]
        /\ caller'[c].at = "snapshot" /\ caller'[c].req = r
    BY <1>7 DEF PlayInv, CallerOK
  <2>4. ASSUME NEW d \in {Loop, Task}
        PROVE CallerOK(d)' /\ (caller'[d].at = "insert" => caller'[d] = caller[d])
    <3>1. CASE d = c
      BY <1>6, <2>3, <3>1 DEF CallerOK
    <3>2. CASE d # c
      BY <2>2, <3>2 DEF CallerOK, PlayInv
    <3> QED
      BY <3>1, <3>2
  <2> QED
    BY <2>1, <2>4
<1> QED
  BY <1>2, <1>4, <1>8, LoseStep

LEMMA EnqueueStep ==
  ASSUME PlayInv, NEW c \in {Loop, Task}, Enqueue(c)
  PROVE  PlayInv'
<1>1. PICK f \in Nat, r \in {caller[c].req} : f = caller[c].fallback /\ ReqOK(r)
  BY DEF PlayInv, CallerOK, Enqueue
<1>2. PICK cursor \in Nat : cursor = Cursor(queue, f)
  BY <1>1, CursorFacts DEF PlayInv
<1>3. queue' = WithAudio(queue, r, f) \/ queue' = WithEvent(queue, r, f)
  BY <1>1 DEF Enqueue
<1>4. Behind(queue, queue', cursor)
  BY <1>1, <1>2, <1>3, AudioKeeps, EventKeeps DEF PlayInv
<1>5. UNCHANGED <<now, generated, held, sent, raced>>
  BY DEF Enqueue
<1>6. /\ DOMAIN caller' = {Loop, Task}
      /\ \A d \in {Loop, Task} : CallerOK(d)' /\ (caller'[d].at = "insert" => caller'[d] = caller[d])
  <2>1. caller' = [caller EXCEPT ![c] = [at |-> "idle", req |-> NoRequest, fallback |-> None]]
    BY DEF Enqueue
  <2>2. ASSUME NEW d \in {Loop, Task}
        PROVE CallerOK(d)' /\ (caller'[d].at = "insert" => caller'[d] = caller[d])
    <3>1. CASE d = c
      BY <2>1, <3>1 DEF CallerOK, PlayInv
    <3>2. CASE d # c
      BY <2>1, <3>2 DEF CallerOK, PlayInv
    <3> QED
      BY <3>1, <3>2
  <2> QED
    BY <2>1, <2>2 DEF PlayInv
<1>7. ASSUME OnTime PROVE generated <= cursor /\ \A i \in 1..Len(held) : held[i].after <= cursor
  <2>1. held = <<>> /\ f = generated
    BY <1>1, <1>7 DEF OnTime, Enqueue
  <2>2. CASE queue.items = <<>>
    <3>1. cursor = generated
      BY <1>2, <2>1, <2>2, CursorFacts DEF PlayInv
    <3>2. 1..Len(held) = {}
      BY <2>1
    <3> QED
      BY <3>1, <3>2 DEF PlayInv
  <2>3. CASE queue.items # <<>>
    <3>1. PICK last \in PlayItem : last = queue.items[Len(queue.items)] /\ Len(queue.items) \in 1..Len(queue.items)
      BY <2>3 DEF PlayInv, QueueOK
    <3>2. cursor = last.after /\ generated <= last.ts
      BY <1>1, <1>2, <1>7, <2>3, <3>1, CursorFacts DEF PlayInv, QueueOK, OnTime
    <3>3. last.ts \in Nat /\ last.ts <= last.after /\ last.after \in Nat
      BY ItemFacts
    <3> QED
      BY <2>1, <3>2, <3>3 DEF PlayInv
  <2> QED
    BY <2>2, <2>3
<1> QED
  BY <1>4, <1>5, <1>6, <1>7, QueueStep

LEMMA SnapshotStep ==
  ASSUME PlayInv, NEW c \in {Loop, Task}, Snapshot(c)
  PROVE  PlayInv'
<1>1. /\ UNCHANGED <<now, queue, generated, held, sent>> /\ raced' = (raced \/ held # <<>>)
      /\ caller' = [caller EXCEPT ![c].at = "insert", ![c].fallback = generated]
      /\ caller[c].at = "snapshot"
  BY DEF Snapshot
<1>2. /\ DOMAIN caller' = {Loop, Task} /\ {"at", "req", "fallback"} \subseteq DOMAIN caller'[c]
      /\ caller'[c].at = "insert" /\ caller'[c].fallback = generated /\ caller'[c].req = caller[c].req
      /\ \A d \in {Loop, Task} : d # c => caller'[d] = caller[d]
  BY <1>1 DEF PlayInv, CallerOK
<1>3. \A d \in {Loop, Task} : CallerOK(d)'
  <2>1. ASSUME NEW d \in {Loop, Task} PROVE CallerOK(d)'
    <3>1. CASE d = c
      BY <1>1, <1>2, <3>1 DEF PlayInv, CallerOK
    <3>2. CASE d # c
      BY <1>2, <3>2 DEF PlayInv, CallerOK
    <3> QED
      BY <3>1, <3>2
  <2> QED
    BY <2>1
<1>4. ASSUME OnTime, held = <<>> PROVE OnTime'
  BY <1>1, <1>2, <1>4 DEF OnTime
<1> QED
  BY <1>1, <1>2, <1>3, <1>4 DEF PlayInv

(* The pump takes what is due from the front of the queue. *)
LEMMA TakeStep ==
  ASSUME PlayInv, take_due_playout_items
  PROVE  PlayInv'
<1>1. PICK s \in Seq(PlayItem) : s = queue.items
  BY DEF PlayInv, QueueOK
<1>0. \A i, j \in 1..Len(s) : i < j => s[i].due < s[j].due /\ s[i].after <= s[j].ts
  BY <1>1 DEF PlayInv, QueueOK, Ascending
<1>2. Len(s) \in Nat /\ s # <<>> /\ s[1].due <= now
  BY <1>1 DEF take_due_playout_items
<1> DEFINE P(k) == /\ \A i \in 1..k : queue.items[i].due <= now
                   /\ k < Len(queue.items) => queue.items[k + 1].due > now
<1>3. \E k \in 1..Len(s) : P(k)
  <2> DEFINE T == {k \in 1..Len(s) : k < Len(s) => s[k + 1].due > now}
  <2>1. Len(s) \in T /\ T \subseteq Nat
    BY <1>2
  <2>2. PICK k \in T : \A m \in T : k <= m
    BY <2>1, Least
  <2>3. ASSUME NEW i \in 1..k PROVE s[i].due <= now
    <3>1. CASE i = 1
      BY <1>2, <3>1
    <3>2. CASE i # 1
      <4>0. k \in 1..Len(s) /\ ~(k <= i - 1)
        BY <1>2
      <4>1. i - 1 \in 1..Len(s) /\ i - 1 \notin T /\ (i - 1) + 1 = i /\ i \in 1..Len(s)
        <5>1. i - 1 \in 1..Len(s) /\ (i - 1) + 1 = i /\ i \in 1..Len(s) /\ i - 1 \in Nat
          BY <1>2, <3>2, <4>0
        <5> HIDE DEF T
        <5> QED
          BY <2>2, <4>0, <5>1
      <4>2. ~(s[i].due > now)
        BY <4>1
      <4>3. s[i].due \in Nat
        BY <4>1, ItemFacts
      <4> QED
        BY <4>2, <4>3 DEF PlayInv
    <3> QED
      BY <3>1, <3>2
  <2> QED
    BY <1>1, <2>2, <2>3
<1>4. PICK n \in 1..Len(s) : /\ held' = SubSeq(s, 1, n)
                             /\ queue' = IF SubSeq(s, n + 1, Len(s)) = <<>>
                                         THEN [queue EXCEPT !.items = SubSeq(s, n + 1, Len(s)),
                                                            !.next_due_at = None, !.next_rtp_timestamp = None]
                                         ELSE [queue EXCEPT !.items = SubSeq(s, n + 1, Len(s))]
  <2>1. DueItems \in 1..Len(s)
    BY <1>1, <1>3 DEF DueItems
  <2> QED
    BY <1>1, <2>1 DEF take_due_playout_items
<1> HIDE DEF P
<1>5. PICK h \in Seq(PlayItem), l \in Seq(PlayItem) :
          /\ h = SubSeq(s, 1, n) /\ l = SubSeq(s, n + 1, Len(s))
          /\ Len(h) = n /\ Len(l) = Len(s) - n
          /\ \A i \in 1..Len(h) : h[i] = s[i]
          /\ \A i \in 1..Len(l) : l[i] = s[n + i]
  <2>1. PICK h : h = SubSeq(s, 1, n)
    OBVIOUS
  <2>2. PICK l : l = SubSeq(s, n + 1, Len(s))
    OBVIOUS
  <2>3. (\A i \in 1..n : s[i] \in PlayItem) /\ (\A i \in (n + 1)..Len(s) : s[i] \in PlayItem)
    BY <1>2
  <2>4. h \in Seq(PlayItem) /\ Len(h) = n /\ \A i \in 1..n : h[i] = s[i]
    BY <2>1, <2>3, SubSeqProperties
  <2>5. /\ l \in Seq(PlayItem) /\ Len(l) = IF n + 1 <= Len(s) THEN Len(s) - (n + 1) + 1 ELSE 0
        /\ \A i \in 1..(Len(s) - (n + 1) + 1) : l[i] = s[(n + 1) + i - 1]
    BY <1>2, <2>2, <2>3, SubSeqProperties
  <2>6. Len(l) = Len(s) - n /\ Len(s) - (n + 1) + 1 = Len(s) - n
    BY <1>2, <2>5
  <2>7. ASSUME NEW i \in 1..Len(l) PROVE l[i] = s[n + i]
    <3>1. i \in 1..(Len(s) - (n + 1) + 1) /\ (n + 1) + i - 1 = n + i
      BY <1>2, <2>6
    <3> QED
      BY <2>5, <3>1
  <2> QED
    BY <2>1, <2>2, <2>4, <2>5, <2>6, <2>7
<1>5a. PICK p \in Nat : p = Len(s) /\ n \in 1..p /\ Len(h) = n /\ Len(l) = p - n
  BY <1>2, <1>5
<1>5b. /\ \A i \in 1..Len(h) : h[i] = s[i]
       /\ \A i \in 1..Len(l) : l[i] = s[n + i]
  BY <1>5
<1>6. ASSUME NEW i \in 1..Len(l), NEW j \in 1..Len(l), i < j
      PROVE  l[i].due < l[j].due /\ l[i].after <= l[j].ts
  <2>0. n + i \in 1..Len(s) /\ n + j \in 1..Len(s) /\ n + i < n + j
    BY <1>5a, <1>6
  <2>1. PICK a \in 1..Len(s), b \in 1..Len(s) : a = n + i /\ b = n + j /\ a < b
    BY <2>0
  <2>2. s[a].due < s[b].due /\ s[a].after <= s[b].ts
    BY <1>0, <2>1
  <2> QED
    BY <1>5b, <2>1, <2>2
<1>7. ASSUME NEW i \in 1..Len(h), NEW j \in 1..Len(h), i < j PROVE h[i].after <= h[j].ts
  <2>1. i \in 1..Len(s) /\ j \in 1..Len(s)
    BY <1>5a
  <2>2. s[i].after <= s[j].ts
    BY <1>0, <1>7, <2>1
  <2> QED
    BY <1>5b, <2>2
<1>8. ASSUME NEW i \in 1..Len(h), NEW j \in 1..Len(l) PROVE h[i].after <= l[j].ts
  <2>0. n + j \in 1..Len(s) /\ i \in 1..Len(s) /\ i < n + j
    BY <1>5a
  <2>1. PICK m \in 1..Len(s) : m = n + j
    BY <2>0
  <2>2. i \in 1..Len(s) /\ i < m
    BY <2>0, <2>1
  <2>3. s[i].after <= s[m].ts
    BY <1>0, <2>2
  <2> QED
    BY <1>5b, <2>1, <2>3
<1>9. queue'.items = l /\ held' = h
      /\ {"items", "next_due_at", "next_rtp_timestamp", "audio_stream_end"} \subseteq DOMAIN queue'
      /\ (l = <<>> => queue'.next_due_at = None /\ queue'.next_rtp_timestamp = None)
      /\ (l # <<>> => /\ queue'.next_due_at = queue.next_due_at
                      /\ queue'.next_rtp_timestamp = queue.next_rtp_timestamp)
  BY <1>4, <1>5 DEF PlayInv, QueueOK
<1>10. ASSUME l # <<>> PROVE l[Len(l)] = s[Len(s)]
  <2>1. Len(l) \in 1..Len(l) /\ n + Len(l) = Len(s)
    BY <1>2, <1>5, <1>10
  <2> QED
    BY <1>5, <2>1
<1>11. QueueOK(queue')
  BY <1>1, <1>2, <1>6, <1>9, <1>10 DEF PlayInv, QueueOK, Ascending
<1>12. /\ UNCHANGED <<now, generated, caller, sent>> /\ held = <<>> /\ caller[Loop].at = "idle"
       /\ raced' = (raced \/ caller[Task].at = "insert")
  BY DEF take_due_playout_items
<1>13. ASSUME OnTime, caller[Task].at # "insert" PROVE OnTime'
  <2>1. \A i \in 1..Len(h) : generated <= h[i].ts
    <3>1. \A i \in 1..Len(h) : i \in 1..Len(s)
      BY <1>2, <1>5
    <3> QED
      BY <1>1, <1>5, <1>13, <3>1 DEF OnTime
  <2>2. \A i \in 1..Len(l) : generated <= l[i].ts
    <3>1. \A i \in 1..Len(l) : n + i \in 1..Len(s)
      BY <1>2, <1>5
    <3> QED
      BY <1>1, <1>5, <1>13, <3>1 DEF OnTime
  <2> QED
    BY <1>8, <1>9, <1>12, <1>13, <2>1, <2>2 DEF OnTime
<1>14. Ascending(held')
  BY <1>7, <1>9 DEF Ascending
<1> QED
  BY <1>9, <1>11, <1>12, <1>13, <1>14 DEF PlayInv, CallerOK

(* The pump sends what it holds, from the front. *)
LEMMA SendStep ==
  ASSUME PlayInv, send_scheduled_playout_item
  PROVE  PlayInv'
<1>1. PICK s \in Seq(PlayItem), t \in Seq(PlayItem), x \in PlayItem :
          /\ s = held /\ t = Tail(s) /\ x = s[1] /\ s # <<>> /\ held' = t
  <2>1. held \in Seq(PlayItem) /\ held # <<>> /\ held' = Tail(held)
    BY DEF PlayInv, send_scheduled_playout_item
  <2>2. Tail(held) \in Seq(PlayItem) /\ held[1] \in PlayItem
    BY <2>1
  <2> QED
    BY <2>1, <2>2
<1>2. /\ Len(s) \in Nat \ {0} /\ Len(t) = Len(s) - 1
      /\ \A i \in 1..Len(t) : t[i] = s[i + 1] /\ i + 1 \in 1..Len(s)
  BY <1>1
<1>3. Ascending(t)
  <2>1. ASSUME NEW i \in 1..Len(t), NEW j \in 1..Len(t), i < j PROVE t[i].after <= t[j].ts
    <3>1. i + 1 \in 1..Len(s) /\ j + 1 \in 1..Len(s) /\ i + 1 < j + 1
      BY <1>2, <2>1
    <3> QED
      BY <1>1, <1>2, <3>1 DEF PlayInv, Ascending
  <2> QED
    BY <2>1 DEF Ascending
<1>4. x.ts \in Nat /\ x.after \in Nat /\ x.ts <= x.after /\ (x.kind = "audio" => x.ts < x.after)
      /\ x.kind \in {"audio", "event"} /\ x.marker \in BOOLEAN
  BY ItemFacts
<1>5. /\ UNCHANGED <<now, queue, caller, raced>>
      /\ \/ UNCHANGED <<generated, sent>>
         \/ /\ generated' = x.after
            /\ sent' = Append(sent, [kind |-> x.kind, ts |-> x.ts, marker |-> x.marker])
  BY <1>1 DEF send_scheduled_playout_item
<1>6. CASE UNCHANGED <<generated, sent>>
  <2>1. ASSUME OnTime PROVE OnTime'
    <3>1. \A i \in 1..Len(t) : generated <= t[i].ts
      BY <1>1, <1>2, <2>1 DEF OnTime
    <3>2. \A i \in 1..Len(t), j \in 1..Len(queue.items) : t[i].after <= queue.items[j].ts
      BY <1>1, <1>2, <2>1 DEF OnTime
    <3>3. \A c \in {Loop, Task} : caller[c].at # "insert"
      BY <1>1, <2>1 DEF OnTime
    <3> QED
      BY <1>1, <1>5, <1>6, <2>1, <3>1, <3>2, <3>3 DEF OnTime
  <2> QED
    BY <1>1, <1>3, <1>5, <1>6, <2>1 DEF PlayInv, CallerOK
<1>7. CASE generated' = x.after /\ sent' = Append(sent, [kind |-> x.kind, ts |-> x.ts, marker |-> x.marker])
  <2>1. PICK y \in SentItem : y = [kind |-> x.kind, ts |-> x.ts, marker |-> x.marker]
    BY <1>4 DEF SentItem
  <2>2. /\ sent' \in Seq(SentItem) /\ Len(sent) \in Nat /\ Len(sent') = Len(sent) + 1
        /\ sent'[Len(sent) + 1] = y /\ \A i \in 1..Len(sent) : sent'[i] = sent[i]
    BY <1>7, <2>1 DEF PlayInv
  <2>3. ASSUME OnTime PROVE OnTime'
    <3>1. generated <= x.ts
      BY <1>1, <1>2, <2>3 DEF OnTime
    <3>2. ASSUME NEW i \in 1..Len(t) PROVE generated' <= t[i].ts
      <4>1. 1 \in 1..Len(s) /\ i + 1 \in 1..Len(s) /\ 1 < i + 1 /\ t[i] = s[i + 1]
        BY <1>2
      <4> QED
        BY <1>1, <1>7, <4>1 DEF PlayInv, Ascending
    <3>3. \A i \in 1..Len(queue.items) : generated' <= queue.items[i].ts
      BY <1>1, <1>2, <1>7, <2>3 DEF OnTime
    <3>4. \A i \in 1..Len(t), j \in 1..Len(queue.items) : t[i].after <= queue.items[j].ts
      BY <1>1, <1>2, <2>3 DEF OnTime
    <3>5. \A c \in {Loop, Task} : caller[c].at # "insert"
      BY <1>1, <2>3 DEF OnTime
    <3>6. ASSUME NEW i \in 1..Len(sent), sent[i].kind = "audio" PROVE sent[i].ts < x.ts
      <4>1. sent[i] \in SentItem /\ sent[i].ts < generated
        BY <2>3, <3>6 DEF OnTime, PlayInv
      <4>2. PICK a \in Nat, b \in Nat, g \in Nat : a = sent[i].ts /\ b = x.ts /\ g = generated
        BY <1>4, <4>1 DEF SentItem, PlayInv
      <4> QED
        BY <3>1, <4>1, <4>2
    <3>7. ASSUME NEW i \in 1..Len(sent'), sent'[i].kind = "audio" PROVE sent'[i].ts < generated'
      <4>1. CASE i = Len(sent) + 1
        BY <1>4, <1>7, <2>1, <2>2, <3>7, <4>1
      <4>2. CASE i # Len(sent) + 1
        <5>1. i \in 1..Len(sent)
          BY <2>2, <4>2
        <5>2. sent[i] \in SentItem /\ sent[i].ts < x.ts /\ sent'[i] = sent[i]
          BY <2>2, <3>6, <3>7, <5>1 DEF PlayInv
        <5>3. PICK a \in Nat, b \in Nat, g \in Nat : a = sent[i].ts /\ b = x.ts /\ g = x.after
          BY <1>4, <5>2 DEF SentItem
        <5> QED
          BY <1>4, <1>7, <5>2, <5>3
      <4> QED
        BY <4>1, <4>2
    <3>8. ASSUME NEW i \in 1..Len(sent'), NEW j \in 1..Len(sent'), i < j,
                 sent'[i].kind = "audio", sent'[j].kind = "audio"
          PROVE  sent'[i].ts < sent'[j].ts
      <4>1. i \in 1..Len(sent) /\ sent'[i] = sent[i]
        BY <2>2, <3>8
      <4>2. CASE j = Len(sent) + 1
        BY <2>1, <2>2, <3>6, <3>8, <4>1, <4>2
      <4>3. CASE j # Len(sent) + 1
        <5>1. j \in 1..Len(sent) /\ sent'[j] = sent[j]
          BY <2>2, <4>3
        <5> QED
          BY <2>3, <3>8, <4>1, <5>1 DEF OnTime
      <4> QED
        BY <4>2, <4>3
    <3> QED
      BY <1>1, <1>5, <3>2, <3>3, <3>4, <3>5, <3>7, <3>8 DEF OnTime
  <2> QED
    BY <1>1, <1>3, <1>4, <1>5, <1>7, <2>2, <2>3 DEF PlayInv, CallerOK
<1> QED
  BY <1>5, <1>6, <1>7

LEMMA PlayStep ==
  ASSUME PlayInv, [PlayoutNext]_playoutVars
  PROVE  PlayInv'
<1>1. CASE UNCHANGED playoutVars
  BY <1>1 DEF playoutVars, PlayInv, CallerOK, OnTime
<1>2. ASSUME NEW c \in {Loop, Task}, schedule_audio_playout(c) \/ schedule_dtmf_playout(c) PROVE PlayInv'
  <2>1. PICK kind \in {"audio", "event"}, id \in Ids, mode \in {"Append", "Replace"}, n \in 1..2 :
            Ask(c, kind, id, mode, n)
    BY <1>2 DEF schedule_audio_playout, schedule_dtmf_playout
  <2> QED
    BY <2>1, AskStep
<1>3. ASSUME NEW c \in {Loop, Task}, Snapshot(c) \/ Enqueue(c) \/ clear_scheduled_playout(c) PROVE PlayInv'
  BY <1>3, SnapshotStep, EnqueueStep, ClearStep
<1>4. CASE take_due_playout_items \/ send_scheduled_playout_item
  BY <1>4, TakeStep, SendStep
<1>5. CASE Passes \/ Learn
  <2>1. UNCHANGED <<queue, generated, caller, held, sent, raced>> /\ now' \in Nat
    BY <1>5 DEF Passes, Learn, PlayInv
  <2> QED
    BY <2>1 DEF PlayInv, CallerOK, OnTime
<1> QED
  BY <1>1, <1>2, <1>3, <1>4, <1>5 DEF PlayoutNext

LEMMA PlayoutAlways == PlayoutSpec => []PlayInv
<1>1. ASSUME PlayoutInit PROVE PlayInv
  <2>1. QueueOK(queue) /\ Ascending(held) /\ OnTime
    BY <1>1 DEF PlayoutInit, QueueOK, OnTime, Ascending
  <2>2. DOMAIN caller = {Loop, Task} /\ \A c \in {Loop, Task} : CallerOK(c)
    BY <1>1 DEF PlayoutInit, CallerOK
  <2>3. held \in Seq(PlayItem) /\ sent \in Seq(SentItem)
    BY <1>1 DEF PlayoutInit
  <2> QED
    BY <1>1, <2>1, <2>2, <2>3 DEF PlayoutInit, PlayInv
<1>2. PlayInv /\ [PlayoutNext]_playoutVars => PlayInv'
  BY PlayStep
<1> QED
  BY <1>1, <1>2, PTL DEF PlayoutSpec

(* The queue of scheduled playout is in the order it is due in, so nothing *)
(* waits behind an item that is due later, however a replacement, a flush, *)
(* the pump and the callers' two locks fall together                       *)
(* (clear_scheduled_playout_for_leg, take_due_playout_items).              *)
THEOREM QueueAlwaysInOrder == PlayoutSpec => []DueInOrder
<1>1. PlayInv => DueInOrder
  BY DEF PlayInv, QueueOK, DueInOrder
<1> QED
  BY <1>1, PlayoutAlways, PTL

(* Audio does not go back in time, whatever was replaced, flushed or       *)
(* passed over, unless the pump ran between a caller's two locks: the      *)
(* queue's cursor and the stream's never fall behind what went out         *)
(* (schedule_audio_playout_for_leg, recompute_playout_queue_state).        *)
THEOREM AudioAlwaysAdvances == PlayoutSpec => []TimestampsAdvance
<1>1. PlayInv => TimestampsAdvance
  BY DEF PlayInv, OnTime, TimestampsAdvance
<1> QED
  BY <1>1, PlayoutAlways, PTL
=============================================================================
