------------------------------ MODULE LegProofs ------------------------------
(***************************************************************************)
(* Proofs about what passes between the engine and one leg, for every      *)
(* value of the constants: the digits it publishes (DtmfDigits), the       *)
(* recording server it forks the leg to (SiprecClient), and the path a     *)
(* WebRTC leg is reached by (IceTransport).                                *)
(***************************************************************************)
EXTENDS DtmfDigits, SiprecClient, IceTransport, TLAPS

-----------------------------------------------------------------------------
(* DtmfDigits *)

Methods == {"Rfc2833", "Inband", "none"}
Recent == [Kinds -> [method : Methods, age : 0 .. DedupWindow]]
PressRecords ==
    [leg : Legs \union {NoDigit}, digit : Digits \union {NoDigit}, how : {"event", "tone"},
     phase : {"no", "held", "released"}, ends : Nat, since : 0 .. DedupWindow, pubs : Nat]

(* The end of press e was published from its packets: until its copies can *)
(* come no more, the deduplicator remembers that end, found by the best    *)
(* method, and has done so for no longer than the copies have been coming. *)
Remembered(e) ==
    LET x == presses[e] IN
    x.since = DedupWindow \/ /\ recent[<<x.digit, "End">>].method = "Rfc2833"
                             /\ recent[<<x.digit, "End">>].age <= x.since

DigitInv ==
    /\ recent \in Recent
    /\ presses \in [Presses -> PressRecords]
    /\ \A e \in Presses :
          /\ presses[e].phase # "no" => presses[e].digit \in Digits
          /\ presses[e].pubs <= 1
          /\ presses[e].pubs = 1 => /\ presses[e].ends > 0 /\ presses[e].digit \in Digits
                                    /\ Remembered(e)

(* An event is published and remembered, or nothing changes; what is       *)
(* remembered from telephone-event packets stays.                          *)
LEMMA EmitsFacts ==
  ASSUME recent \in Recent, NEW k, NEW method \in {"Rfc2833", "Inband"}, NEW leg,
         Emits(k, method, leg)
  PROVE  /\ recent' \in Recent
         /\ \A j \in Kinds : recent[j].method = "Rfc2833" => recent'[j] = recent[j]
         /\ method = "Rfc2833" /\ k \in Kinds =>
               recent'[k].method = "Rfc2833" /\ (should_publish(k, method) => recent'[k].age = 0)
<1>0. DedupWindow \in Nat
  BY DtmfAssumption
<1>1. CASE should_publish(k, method)
  <2>1. recent' = [recent EXCEPT ![k] = [method |-> method, age |-> 0]]
    BY <1>1 DEF Emits, Tracked
  <2>2. [method |-> method, age |-> 0] \in [method : Methods, age : 0 .. DedupWindow]
    BY <1>0 DEF Methods
  <2>3. recent' \in Recent
    BY <2>1, <2>2 DEF Recent
  <2>4. ASSUME NEW j \in Kinds, recent[j].method = "Rfc2833" PROVE j # k
    BY <1>1, <2>4 DEF should_publish, priority
  <2> QED
    BY <2>1, <2>3, <2>4 DEF Recent
<1>2. CASE ~should_publish(k, method)
  <2>1. recent' = recent
    BY <1>2 DEF Emits
  <2>2. method = "Rfc2833" /\ k \in Kinds => recent[k].method = "Rfc2833"
    BY <1>2 DEF should_publish, priority, Recent, Methods
  <2> QED
    BY <1>2, <2>1, <2>2
<1> QED
  BY <1>1, <1>2

LEMMA DigitKept ==
  ASSUME DigitInv, recent' \in Recent, UNCHANGED presses,
         \A j \in Kinds : recent[j].method = "Rfc2833" => recent'[j] = recent[j]
  PROVE  DigitInv'
<1>1. \A e \in Presses : presses[e].digit \in Digits => <<presses[e].digit, "End">> \in Kinds
  BY DEF Kinds
<1> QED
  BY <1>1 DEF DigitInv, Remembered

(* The record of a press after an end of it, and when it begins. *)
WithEnd(x, m, n) == [x EXCEPT !.ends = m, !.pubs = n]
Begun(x, leg, d, how) == [x EXCEPT !.leg = leg, !.digit = d, !.how = how, !.phase = "held"]

LEMMA WithEndFacts ==
  ASSUME NEW x \in PressRecords, NEW m \in Nat, NEW n \in Nat
  PROVE  LET y == WithEnd(x, m, n)
         IN  /\ y \in PressRecords /\ y.ends = m /\ y.pubs = n
             /\ y.since = x.since /\ y.digit = x.digit /\ y.phase = x.phase
BY DEF PressRecords, WithEnd

LEMMA BegunFacts ==
  ASSUME NEW x \in PressRecords, x.pubs = 0,
         NEW leg \in Legs, NEW d \in Digits, NEW how \in {"event", "tone"}
  PROVE  LET y == Begun(x, leg, d, how)
         IN  y \in PressRecords /\ y.pubs = 0 /\ y.digit = d
BY DEF PressRecords, Begun

LEMMA NoPressType == NoPress \in PressRecords /\ NoPress.phase = "no" /\ NoPress.pubs = 0
BY DtmfAssumption DEF NoPress, PressRecords

LEMMA AudioKeeps ==
  ASSUME DigitInv, NEW leg \in Legs, audio_frame(leg)
  PROVE  DigitInv'
<1>1. UNCHANGED presses
  BY DEF audio_frame
<1>2. (\E k, l : Emits(k, "Inband", l)) \/ EmitsNothing
  BY DEF audio_frame, handle_no_detection, handle_detected_digit, SameTone, NewTone
<1>3. CASE EmitsNothing
  BY <1>1, <1>3, DigitKept DEF EmitsNothing, DigitInv
<1>4. ASSUME NEW k, NEW l, Emits(k, "Inband", l) PROVE DigitInv'
  BY <1>1, <1>4, EmitsFacts, DigitKept DEF DigitInv
<1> QED
  BY <1>2, <1>3, <1>4

LEMMA EventKeeps ==
  ASSUME DigitInv, NEW e \in Presses, NEW duration, event_packet(e, duration)
  PROVE  DigitInv'
<1>1. UNCHANGED presses
  BY DEF event_packet
<1>2. Emits(<<presses[e].digit, "Start">>, "Rfc2833", presses[e].leg) \/ EmitsNothing
  BY DEF event_packet
<1>3. CASE EmitsNothing
  BY <1>1, <1>3, DigitKept DEF EmitsNothing, DigitInv
<1>4. CASE Emits(<<presses[e].digit, "Start">>, "Rfc2833", presses[e].leg)
  BY <1>1, <1>4, EmitsFacts, DigitKept DEF DigitInv
<1> QED
  BY <1>2, <1>3, <1>4

(* A copy of an end publishes only if none before it did. *)
LEMMA EndKeeps ==
  ASSUME DigitInv, NEW e \in Presses, end_packet(e)
  PROVE  DigitInv'
<1> DEFINE k == <<presses[e].digit, "End">>
           pub == should_publish(k, "Rfc2833")
<1>1. presses[e].digit \in Digits /\ presses[e] \in PressRecords
  BY DEF DigitInv, end_packet, EndArrives, InProgress
<1>2. k \in Kinds
  BY <1>1 DEF Kinds
<1>3. /\ recent' \in Recent
      /\ \A j \in Kinds : recent[j].method = "Rfc2833" => recent'[j] = recent[j]
      /\ recent'[k].method = "Rfc2833" /\ (pub => recent'[k].age = 0)
  BY <1>2, EmitsFacts DEF DigitInv, end_packet
<1>4. presses' = [presses EXCEPT ![e] = [presses[e] EXCEPT
                     !.ends = @ + 1, !.pubs = IF pub THEN @ + 1 ELSE @]]
  BY DEF end_packet
<1>5. pub <=> recent[k].method # "Rfc2833"
  BY <1>2 DEF should_publish, priority, DigitInv, Recent, Methods
<1>6. presses[e].since < DedupWindow
  BY DEF end_packet, EndArrives
<1> HIDE DEF k, pub
<1>7. pub => presses[e].pubs = 0
  BY <1>1, <1>5, <1>6, DtmfAssumption DEF DigitInv, Remembered, PressRecords, k
<1>8. /\ presses'[e] \in PressRecords /\ presses'[e].ends > 0 /\ presses'[e].pubs <= 1
      /\ presses'[e].since = presses[e].since /\ presses'[e].digit = presses[e].digit
      /\ pub \/ presses'[e].pubs = presses[e].pubs
  <2>1. presses[e].pubs \in Nat /\ presses[e].pubs <= 1 /\ presses[e].ends \in Nat
    BY <1>1 DEF DigitInv, PressRecords
  <2> DEFINE n == IF pub THEN presses[e].pubs + 1 ELSE presses[e].pubs
  <2>2. n \in Nat /\ n <= 1 /\ (pub \/ n = presses[e].pubs)
    BY <1>7, <2>1
  <2> DEFINE y == WithEnd(presses[e], presses[e].ends + 1, n)
  <2>3. presses'[e] = y
    BY <1>4 DEF DigitInv, WithEnd
  <2>4. presses[e].ends + 1 \in Nat /\ presses[e].ends + 1 > 0
    BY <2>1
  <2> HIDE DEF n
  <2>5. /\ y \in PressRecords /\ y.ends = presses[e].ends + 1 /\ y.pubs = n
        /\ y.since = presses[e].since /\ y.digit = presses[e].digit
    BY <1>1, <2>2, <2>4, WithEndFacts
  <2> HIDE DEF y
  <2> QED
    BY <2>2, <2>3, <2>4, <2>5
<1>9. presses' \in [Presses -> PressRecords]
  BY <1>4, <1>8 DEF DigitInv
<1>10. ASSUME presses'[e].pubs = 1 PROVE Remembered(e)'
  <2>1. CASE pub
    <3>1. presses[e].since \in Nat
      BY <1>1, DtmfAssumption DEF PressRecords
    <3> QED
      BY <1>3, <1>8, <2>1, <3>1 DEF Remembered, k
  <2>2. CASE ~pub
    BY <1>2, <1>3, <1>5, <1>6, <1>8, <1>10, <2>2 DEF Remembered, k, DigitInv
  <2> QED
    BY <2>1, <2>2
<1>11. ASSUME NEW f \in Presses, f # e
       PROVE  presses'[f] = presses[f] /\ (presses[f].pubs = 1 => Remembered(f)')
  <2>1. presses'[f] = presses[f]
    BY <1>4, <1>11 DEF DigitInv
  <2>2. presses[f].digit \in Digits => <<presses[f].digit, "End">> \in Kinds
    BY DEF Kinds
  <2> QED
    BY <1>3, <2>1, <2>2 DEF DigitInv, Remembered
<1> QED
  BY <1>1, <1>3, <1>8, <1>9, <1>10, <1>11 DEF DigitInv

LEMMA StartKeeps ==
  ASSUME DigitInv, NEW e \in Presses, end_as_start(e)
  PROVE  DigitInv'
<1>1. /\ recent' \in Recent
      /\ \A j \in Kinds : recent[j].method = "Rfc2833" => recent'[j] = recent[j]
  BY EmitsFacts DEF DigitInv, end_as_start
<1> DEFINE y == WithEnd(presses[e], presses[e].ends + 1, presses[e].pubs)
<1>2. presses[e] \in PressRecords /\ presses[e].ends \in Nat /\ presses[e].pubs \in Nat
  BY DEF DigitInv, PressRecords
<1>3. /\ y \in PressRecords /\ y.ends = presses[e].ends + 1 /\ y.pubs = presses[e].pubs
      /\ y.since = presses[e].since /\ y.digit = presses[e].digit
      /\ y.phase = presses[e].phase
  <2> DEFINE x == presses[e]
             m == presses[e].ends + 1
             n == presses[e].pubs
  <2>1. x \in PressRecords /\ m \in Nat /\ n \in Nat
    BY <1>2
  <2> HIDE DEF x, m, n
  <2>2. LET z == WithEnd(x, m, n)
        IN  /\ z \in PressRecords /\ z.ends = m /\ z.pubs = n
            /\ z.since = x.since /\ z.digit = x.digit /\ z.phase = x.phase
    BY <2>1, WithEndFacts
  <2> QED
    BY <2>2 DEF x, m, n
<1>4. presses' = [presses EXCEPT ![e] = y]
  <2>1. presses' = [presses EXCEPT ![e] = [presses[e] EXCEPT !.ends = presses[e].ends + 1]]
    BY DEF end_as_start
  <2>2. [presses[e] EXCEPT !.ends = presses[e].ends + 1] = y
    BY <1>2 DEF WithEnd, PressRecords
  <2> QED
    BY <2>1, <2>2
<1> HIDE DEF y
<1>5. presses' \in [Presses -> PressRecords] /\ presses'[e] = y
      /\ \A f \in Presses \ {e} : presses'[f] = presses[f]
  BY <1>3, <1>4 DEF DigitInv
<1>6. ASSUME NEW f \in Presses
      PROVE  /\ presses'[f].phase # "no" => presses'[f].digit \in Digits
             /\ presses'[f].pubs <= 1
             /\ presses'[f].pubs = 1 => presses'[f].ends > 0 /\ presses'[f].digit \in Digits
  BY <1>2, <1>3, <1>5 DEF DigitInv
<1>7. ASSUME NEW f \in Presses, presses'[f].pubs = 1 PROVE Remembered(f)'
  <2>1. /\ presses'[f].since = presses[f].since /\ presses'[f].digit = presses[f].digit
        /\ presses[f].pubs = 1
    BY <1>3, <1>5, <1>7
  <2>2. Remembered(f) /\ <<presses[f].digit, "End">> \in Kinds
    BY <2>1 DEF DigitInv, Kinds
  <2> QED
    BY <1>1, <2>1, <2>2 DEF Remembered
<1> QED
  BY <1>1, <1>5, <1>6, <1>7 DEF DigitInv

LEMMA DtmfTickKeeps == DigitInv /\ DtmfTick => DigitInv'
<1> SUFFICES ASSUME DigitInv, DtmfTick PROVE DigitInv'
  OBVIOUS
<1>0. DedupWindow \in Nat /\ DedupWindow > 0
  BY DtmfAssumption
<1>1. ASSUME NEW j \in Kinds
      PROVE  /\ recent'[j] \in [method : Methods, age : 0 .. DedupWindow]
             /\ recent[j].age + 1 < DedupWindow =>
                   recent'[j].method = recent[j].method /\ recent'[j].age = recent[j].age + 1
  BY <1>0 DEF DigitInv, Recent, DtmfTick, Forgotten, Methods
<1>2. recent' \in Recent
  BY <1>1 DEF DtmfTick, Recent
<1>3. ASSUME NEW e \in Presses
      PROVE  /\ presses'[e] \in PressRecords
             /\ presses'[e].phase = presses[e].phase /\ presses'[e].digit = presses[e].digit
             /\ presses'[e].pubs = presses[e].pubs /\ presses'[e].ends = presses[e].ends
             /\ presses[e].ends > 0 /\ presses[e].since < DedupWindow =>
                   presses'[e].since = presses[e].since + 1
             /\ presses[e].since = DedupWindow => presses'[e].since = DedupWindow
  BY <1>0 DEF DigitInv, PressRecords, DtmfTick
<1>4. presses' \in [Presses -> PressRecords]
  BY <1>3 DEF DtmfTick
<1>5. ASSUME NEW e \in Presses, presses[e].pubs = 1 PROVE Remembered(e)'
  <2> DEFINE k == <<presses[e].digit, "End">>
  <2>1. presses[e].ends > 0 /\ k \in Kinds /\ Remembered(e)
    BY <1>5 DEF DigitInv, Kinds
  <2>2. presses[e].since \in 0 .. DedupWindow /\ recent[k].age \in 0 .. DedupWindow
    BY <2>1 DEF DigitInv, PressRecords, Recent
  <2> HIDE DEF k
  <2>3. CASE presses[e].since = DedupWindow
    BY <1>3, <2>3 DEF Remembered
  <2>4. CASE presses[e].since < DedupWindow
    <3>1. recent[k].method = "Rfc2833" /\ recent[k].age <= presses[e].since
      BY <1>0, <2>1, <2>4 DEF Remembered, k
    <3>2. presses'[e].since = presses[e].since + 1 /\ presses'[e].digit = presses[e].digit
      BY <1>3, <2>1, <2>4
    <3>3. CASE recent[k].age + 1 < DedupWindow
      BY <1>1, <2>1, <2>2, <3>1, <3>2, <3>3 DEF Remembered, k
    <3>4. CASE ~(recent[k].age + 1 < DedupWindow)
      BY <1>0, <2>2, <2>4, <3>1, <3>2, <3>4 DEF Remembered
    <3> QED
      BY <3>3, <3>4
  <2> QED
    BY <1>0, <2>2, <2>3, <2>4
<1> QED
  BY <1>2, <1>3, <1>4, <1>5 DEF DigitInv

(* The three copies of an event's end publish its digit at most once, for  *)
(* every window, number of copies, and order of presses, packets, tones    *)
(* and ticks (dedup.rs, should_publish).                                   *)
THEOREM DigitsOnce == DtmfSpec => []DigitOnce
<1>1. DtmfInit => DigitInv
  <2> SUFFICES ASSUME DtmfInit PROVE DigitInv
    OBVIOUS
  <2>0. DedupWindow \in Nat
    BY DtmfAssumption
  <2>1. Forgotten \in [method : Methods, age : 0 .. DedupWindow]
    BY <2>0 DEF Forgotten, Methods
  <2>2. NoPress \in PressRecords /\ NoPress.phase = "no" /\ NoPress.pubs = 0
    BY NoPressType
  <2>3. recent \in Recent /\ presses \in [Presses -> PressRecords]
    BY <2>1, <2>2 DEF DtmfInit, Recent
  <2> QED
    BY <2>2, <2>3 DEF DtmfInit, DigitInv
<1>2. DigitInv /\ [DtmfNext]_dtmfVars => DigitInv'
  <2> SUFFICES ASSUME DigitInv, [DtmfNext]_dtmfVars PROVE DigitInv'
    OBVIOUS
  <2>1. ASSUME NEW e \in Presses, NEW leg \in Legs, NEW d \in Digits, NEW how \in {"event", "tone"},
               Press(e, leg, d, how)
        PROVE  DigitInv'
    <3> DEFINE y == Begun(NoPress, leg, d, how)
    <3>0. y \in PressRecords /\ y.pubs = 0 /\ y.digit = d
      BY NoPressType, BegunFacts
    <3>1. presses' = [presses EXCEPT ![e] = y] /\ recent' = recent
      BY <2>1 DEF Press, Begun
    <3> HIDE DEF y
    <3>2. presses'[e] \in PressRecords /\ presses'[e].pubs = 0 /\ presses'[e].digit \in Digits
      BY <3>0, <3>1 DEF DigitInv
    <3>3. \A f \in Presses : f # e => presses'[f] = presses[f]
      BY <3>1 DEF DigitInv
    <3>4. presses' \in [Presses -> PressRecords]
      BY <3>1, <3>2 DEF DigitInv
    <3> QED
      BY <3>1, <3>2, <3>3, <3>4 DEF DigitInv, Remembered
  <2>2. ASSUME NEW e \in Presses, Release(e) PROVE DigitInv'
    <3>1. presses' = [presses EXCEPT ![e] = [presses[e] EXCEPT !.phase = "released"]]
          /\ recent' = recent /\ presses[e].phase = "held"
      BY <2>2 DEF Release
    <3>2. /\ presses'[e] \in PressRecords /\ presses'[e].pubs = presses[e].pubs
          /\ presses'[e].digit = presses[e].digit /\ presses'[e].ends = presses[e].ends
          /\ presses'[e].since = presses[e].since
      BY <3>1 DEF DigitInv, PressRecords
    <3>3. \A f \in Presses : f # e => presses'[f] = presses[f]
      BY <3>1 DEF DigitInv
    <3>4. presses' \in [Presses -> PressRecords]
      BY <3>1, <3>2 DEF DigitInv
    <3> QED
      BY <3>1, <3>2, <3>3, <3>4 DEF DigitInv, Remembered
  <2>3. CASE UNCHANGED dtmfVars
    BY <2>3, DigitKept DEF dtmfVars, DigitInv
  <2> QED
    BY <2>1, <2>2, <2>3, EndKeeps, StartKeeps, EventKeeps, AudioKeeps, DtmfTickKeeps DEF DtmfNext
<1>3. DigitInv => DigitOnce
  BY DEF DigitInv, DigitOnce
<1> QED
  BY <1>1, <1>2, <1>3, PTL DEF DtmfSpec

-----------------------------------------------------------------------------
(* SiprecClient *)

(* The fields that the handlers and the properties look at are there. *)
Shape ==
    /\ DOMAIN recs = Recordings /\ DOMAIN handlers = Handlers
    /\ \A r \in Recordings : {"state", "paused", "told"} \subseteq DOMAIN recs[r]
    /\ \A h \in Handlers : {"step", "rec", "party", "told", "left"} \subseteq DOMAIN handlers[h]

(* A handler is in a control call, about its rec. *)
Controls(h) == handlers[h].step \notin {"idle", "send"}

(* One control call about a recording at a time; of the streams it was     *)
(* started with, one that is being stopped has those left to remove, and   *)
(* one that has ended has none and is in nobody's hands.                   *)
ForkInv ==
    /\ \A g, h \in Handlers :
          Controls(g) /\ Controls(h) /\ handlers[g].rec = handlers[h].rec => g = h
    /\ \A h \in Handlers : handlers[h].step \in {"unfork", "remove"} =>
          \A p \in Parties \ Joiners :
             <<handlers[h].rec, p>> \in streams => p \in handlers[h].left
    /\ \A h \in Handlers : handlers[h].step = "remove" => handlers[h].left = {}
    /\ \A h \in Handlers : Controls(h) =>
          handlers[h].rec \in Recordings /\ recs[handlers[h].rec].state # "gone"
    /\ \A h \in Handlers : handlers[h].step \in {"bind", "enter"} => handlers[h].party \in Parties
    /\ \A f \in streams : f \in Forks /\ (f[2] \notin Joiners => recs[f[1]].state # "gone")

(* What the SRS has been told is so, or a re-INVITE that says what is so   *)
(* is under way.                                                           *)
ToldInv ==
    \A r \in Recordings :
       /\ recs[r].state = "new" => ~recs[r].paused
       /\ \A h \in Handlers : handlers[h].rec = r /\ handlers[h].step = "reinvite" =>
             (recs[r].paused <=> handlers[h].told = "Paused")
       /\ (recs[r].state = "active"
             /\ \A h \in Handlers : handlers[h].rec = r => handlers[h].step # "reinvite")
             => (recs[r].paused <=> recs[r].told = "Paused")

LEMMA ShapeStep ==
  ASSUME Shape, SiprecNext
  PROVE  Shape'
<1> USE SiprecAssumption DEF Shape, Idle
<1>1. ASSUME NEW r \in Recordings, start_recording(r) \/ start_fails(r) PROVE Shape'
  BY <1>1 DEF start_recording, start_fails
<1>2. ASSUME NEW r \in Recordings, confirm_session_dialog(r) \/ failover_to_backup(r) PROVE Shape'
  BY <1>2 DEF confirm_session_dialog, failover_to_backup
<1>3. ASSUME NEW r \in Recordings, NEW p \in Parties, mute_participant(r, p) \/ unmute_participant(r, p) PROVE Shape'
  BY <1>3 DEF mute_participant, unmute_participant
<1>4. ASSUME NEW h \in Handlers, NEW r \in Recordings, pause_recording(h, r) PROVE Shape'
  BY <1>4 DEF pause_recording, Announces, MayStart
<1>5. ASSUME NEW h \in Handlers, NEW r \in Recordings, resume_recording(h, r) PROVE Shape'
  BY <1>5 DEF resume_recording, Announces, MayStart
<1>6. ASSUME NEW h \in Handlers, NEW r \in Recordings, update_session_metadata(h, r) PROVE Shape'
  BY <1>6 DEF update_session_metadata, Announces, MayStart, Indicated
<1>7. ASSUME NEW h \in Handlers, NEW r \in Recordings, stop_recording(h, r) PROVE Shape'
  BY <1>7 DEF stop_recording, GoesOn, MayStart
<1>8. ASSUME NEW h \in Handlers, NEW r \in Recordings, NEW p \in Parties, add_forked_stream(h, r, p) PROVE Shape'
  BY <1>8 DEF add_forked_stream, MayStart
<1>9. ASSUME NEW h \in Handlers, NEW r \in Recordings, NEW p \in Parties, forward_rtp(h, r, p) PROVE Shape'
  BY <1>9 DEF forward_rtp
<1>10. ASSUME NEW h \in Handlers, build_metadata_reinvite(h) PROVE Shape'
  BY <1>10 DEF build_metadata_reinvite, Returns
<1>11. ASSUME NEW h \in Handlers, add_stream(h) PROVE Shape'
  BY <1>11 DEF add_stream, Returns
<1>12. ASSUME NEW h \in Handlers, enter_ssrc(h) PROVE Shape'
  BY <1>12 DEF enter_ssrc, Returns
<1>13. ASSUME NEW h \in Handlers, forward_by_ssrc(h) PROVE Shape'
  BY <1>13 DEF forward_by_ssrc, Returns
<1>14. ASSUME NEW h \in Handlers, create_bye(h) PROVE Shape'
  BY <1>14 DEF create_bye, Returns
<1>15. ASSUME NEW h \in Handlers, remove_stream(h) PROVE Shape'
  BY <1>15 DEF remove_stream
<1>16. ASSUME NEW h \in Handlers, terminate_dialog(h) PROVE Shape'
  BY <1>16 DEF terminate_dialog, Returns
<1>17. ASSUME NEW h \in Handlers, remove_session(h) PROVE Shape'
  BY <1>17 DEF remove_session, Returns
<1> QED
  BY <1>1, <1>2, <1>3, <1>4, <1>5, <1>6, <1>7, <1>8, <1>9, <1>10, <1>11, <1>12, <1>13, <1>14, <1>15, <1>16, <1>17 DEF SiprecNext

LEMMA ForksStep ==
  ASSUME Shape, ForkInv, Serialized, SiprecNext
  PROVE  ForkInv'
<1> USE SiprecAssumption DEF Shape, Idle, ForkInv, Controls, Forks
<1>1. ASSUME NEW r \in Recordings, start_recording(r) \/ start_fails(r) PROVE ForkInv'
  BY <1>1 DEF start_recording, start_fails
<1>2. ASSUME NEW r \in Recordings, confirm_session_dialog(r) \/ failover_to_backup(r) PROVE ForkInv'
  BY <1>2 DEF confirm_session_dialog, failover_to_backup
<1>3. ASSUME NEW r \in Recordings, NEW p \in Parties, mute_participant(r, p) \/ unmute_participant(r, p) PROVE ForkInv'
  BY <1>3 DEF mute_participant, unmute_participant
<1>4. ASSUME NEW h \in Handlers, NEW r \in Recordings, pause_recording(h, r) PROVE ForkInv'
  BY <1>4 DEF pause_recording, Announces, MayStart
<1>5. ASSUME NEW h \in Handlers, NEW r \in Recordings, resume_recording(h, r) PROVE ForkInv'
  BY <1>5 DEF resume_recording, Announces, MayStart
<1>6. ASSUME NEW h \in Handlers, NEW r \in Recordings, update_session_metadata(h, r) PROVE ForkInv'
  BY <1>6 DEF update_session_metadata, Announces, MayStart, Indicated
<1>7. ASSUME NEW h \in Handlers, NEW r \in Recordings, stop_recording(h, r) PROVE ForkInv'
  BY <1>7 DEF stop_recording, GoesOn, MayStart
<1>8. ASSUME NEW h \in Handlers, NEW r \in Recordings, NEW p \in Parties, add_forked_stream(h, r, p) PROVE ForkInv'
  BY <1>8 DEF add_forked_stream, MayStart
<1>9. ASSUME NEW h \in Handlers, NEW r \in Recordings, NEW p \in Parties, forward_rtp(h, r, p) PROVE ForkInv'
  BY <1>9 DEF forward_rtp
<1>10. ASSUME NEW h \in Handlers, build_metadata_reinvite(h) PROVE ForkInv'
  BY <1>10 DEF build_metadata_reinvite, Returns
<1>11. ASSUME NEW h \in Handlers, add_stream(h) PROVE ForkInv'
  BY <1>11 DEF add_stream, Returns
<1>12. ASSUME NEW h \in Handlers, enter_ssrc(h) PROVE ForkInv'
  BY <1>12 DEF enter_ssrc, Returns
<1>13. ASSUME NEW h \in Handlers, forward_by_ssrc(h) PROVE ForkInv'
  BY <1>13 DEF forward_by_ssrc, Returns
<1>14. ASSUME NEW h \in Handlers, create_bye(h) PROVE ForkInv'
  BY <1>14 DEF create_bye, Returns
<1>15. ASSUME NEW h \in Handlers, remove_stream(h) PROVE ForkInv'
  BY <1>15 DEF remove_stream
<1>16. ASSUME NEW h \in Handlers, terminate_dialog(h) PROVE ForkInv'
  BY <1>16 DEF terminate_dialog, Returns
<1>17. ASSUME NEW h \in Handlers, remove_session(h) PROVE ForkInv'
  BY <1>17 DEF remove_session, Returns
<1> QED
  BY <1>1, <1>2, <1>3, <1>4, <1>5, <1>6, <1>7, <1>8, <1>9, <1>10, <1>11, <1>12, <1>13, <1>14, <1>15, <1>16, <1>17 DEF SiprecNext

LEMMA ToldStep ==
  ASSUME Shape, ForkInv, ToldInv, Serialized, SiprecNext
  PROVE  ToldInv'
<1> USE SiprecAssumption DEF Shape, Idle, ForkInv, ToldInv, Controls
<1>1. ASSUME NEW r \in Recordings, start_recording(r) \/ start_fails(r) PROVE ToldInv'
  BY <1>1 DEF start_recording, start_fails
<1>2. ASSUME NEW r \in Recordings, confirm_session_dialog(r) \/ failover_to_backup(r) PROVE ToldInv'
  BY <1>2 DEF confirm_session_dialog, failover_to_backup
<1>3. ASSUME NEW r \in Recordings, NEW p \in Parties, mute_participant(r, p) \/ unmute_participant(r, p) PROVE ToldInv'
  BY <1>3 DEF mute_participant, unmute_participant
<1>4. ASSUME NEW h \in Handlers, NEW r \in Recordings, pause_recording(h, r) PROVE ToldInv'
  BY <1>4 DEF pause_recording, Announces, MayStart
<1>5. ASSUME NEW h \in Handlers, NEW r \in Recordings, resume_recording(h, r) PROVE ToldInv'
  BY <1>5 DEF resume_recording, Announces, MayStart
<1>6. ASSUME NEW h \in Handlers, NEW r \in Recordings, update_session_metadata(h, r) PROVE ToldInv'
  BY <1>6 DEF update_session_metadata, Announces, MayStart, Indicated
<1>7. ASSUME NEW h \in Handlers, NEW r \in Recordings, stop_recording(h, r) PROVE ToldInv'
  BY <1>7 DEF stop_recording, GoesOn, MayStart
<1>8. ASSUME NEW h \in Handlers, NEW r \in Recordings, NEW p \in Parties, add_forked_stream(h, r, p) PROVE ToldInv'
  BY <1>8 DEF add_forked_stream, MayStart
<1>9. ASSUME NEW h \in Handlers, NEW r \in Recordings, NEW p \in Parties, forward_rtp(h, r, p) PROVE ToldInv'
  BY <1>9 DEF forward_rtp
<1>10. ASSUME NEW h \in Handlers, build_metadata_reinvite(h) PROVE ToldInv'
  BY <1>10 DEF build_metadata_reinvite, Returns
<1>11. ASSUME NEW h \in Handlers, add_stream(h) PROVE ToldInv'
  BY <1>11 DEF add_stream, Returns
<1>12. ASSUME NEW h \in Handlers, enter_ssrc(h) PROVE ToldInv'
  BY <1>12 DEF enter_ssrc, Returns
<1>13. ASSUME NEW h \in Handlers, forward_by_ssrc(h) PROVE ToldInv'
  BY <1>13 DEF forward_by_ssrc, Returns
<1>14. ASSUME NEW h \in Handlers, create_bye(h) PROVE ToldInv'
  BY <1>14 DEF create_bye, Returns
<1>15. ASSUME NEW h \in Handlers, remove_stream(h) PROVE ToldInv'
  BY <1>15 DEF remove_stream
<1>16. ASSUME NEW h \in Handlers, terminate_dialog(h) PROVE ToldInv'
  BY <1>16 DEF terminate_dialog, Returns
<1>17. ASSUME NEW h \in Handlers, remove_session(h) PROVE ToldInv'
  BY <1>17 DEF remove_session, Returns
<1> QED
  BY <1>1, <1>2, <1>3, <1>4, <1>5, <1>6, <1>7, <1>8, <1>9, <1>10, <1>11, <1>12, <1>13, <1>14, <1>15, <1>16, <1>17 DEF SiprecNext

SiprecInv == Shape /\ ForkInv /\ ToldInv

LEMMA SiprecInvariant == Serialized /\ SiprecSpec => []SiprecInv
<1> SUFFICES ASSUME Serialized PROVE SiprecSpec => []SiprecInv
  OBVIOUS
<1>1. SiprecInit => SiprecInv
  BY DEF SiprecInit, NewRecording, Idle, SiprecInv, Shape, ForkInv, ToldInv, Controls
<1>2. SiprecInv /\ SiprecNext => SiprecInv'
  BY ShapeStep, ForksStep, ToldStep DEF SiprecInv
<1>3. SiprecInv /\ UNCHANGED siprecVars => SiprecInv'
  BY DEF siprecVars, SiprecInv, Shape, ForkInv, ToldInv, Controls
<1> QED
  BY <1>1, <1>2, <1>3, PTL DEF SiprecSpec

(* When the control calls about a recording come one after another, no     *)
(* packet reaches the streams that a recording was started with once       *)
(* stop_recording has ended it, however forward_rtp's check, the lookup by *)
(* SSRC and the stop's locks interleave (src.rs, forking.rs) and whatever  *)
(* streams of others are added and stay.                                   *)
THEOREM StoppedStaysSilent == Serialized /\ SiprecSpec => StopIsFinal
<1>1. ASSUME SiprecInv
      PROVE  \A h \in Handlers, f \in Forks :
                SendsTo(h, f) /\ f[2] \notin Joiners => recs[f[1]].state # "gone"
  <2> SUFFICES ASSUME NEW h \in Handlers, NEW f \in Forks, SendsTo(h, f), f[2] \notin Joiners
               PROVE  recs[f[1]].state # "gone"
    OBVIOUS
  <2>1. Reached(h) = f /\ f # NoFork
    BY SiprecAssumption DEF SendsTo, Forks
  <2>2. f \in streams
    BY <2>1 DEF Reached
  <2> QED
    BY <1>1, <2>2 DEF SiprecInv, ForkInv
<1> QED
  BY <1>1, SiprecInvariant, PTL DEF StopIsFinal

(* And when no re-INVITE is under way, what the SRS was told last is       *)
(* whether the recording is paused (pause_recording, resume_recording,     *)
(* update_session_metadata).                                               *)
THEOREM ServerKnowsPause == Serialized /\ SiprecSpec => []PauseTold
<1>1. SiprecInv => PauseTold
  BY DEF SiprecInv, ToldInv, PauseTold
<1> QED
  BY <1>1, SiprecInvariant, PTL

-----------------------------------------------------------------------------
(* IceTransport.  A handler is proved as a function from one transport to  *)
(* the next: what it makes of a good transport is good, and its selection  *)
(* has not gone back.  What it still has to send counts as sent.           *)

\* A check over p that nominates it, and an answer to a check of a's over p.
UseSent(p, N) == \E n \in 1 .. MaxChecks : Check("controlling", p, n, TRUE) \in N
Answered(a, p, N) == \E n \in 1 .. Bound(a) : Answer(PeerOf(a), p, n) \in N

\* One candidate pair of agent a: where its state comes from, and how it
\* stands to the selected pair.  A pair the controlling side has nominated
\* does not beat the one it uses; one it is about to nominate does.
EntryOK(s, a, p, N) ==
    LET e == s.remotes[p] IN
    /\ e.n \in Nat /\ e.priority \in Nat
    /\ e.state = "absent" => ~e.nominated
    /\ e.triggered => e.state = "Waiting"
    /\ e.state = "Succeeded" => Answered(a, p, N)
    /\ e.nominated => UseSent(p, N)
    /\ e.nominating => a = "controlling" /\ e.state = "InProgress" /\ UseSent(p, N)
    /\ a = "controlling" /\ e.nominated =>
          s.selected # NoPath /\ e.priority <= s.remotes[s.selected].priority
    /\ e.nominating /\ s.selected # NoPath => e.priority > s.remotes[s.selected].priority

\* At most one nomination is under way, and the selected pair has been
\* verified and nominated.
TransportOK(s, a, N) ==
    /\ \A p \in Paths : EntryOK(s, a, p, N)
    /\ \A p, q \in Paths : s.remotes[p].nominating /\ s.remotes[q].nominating => p = q
    /\ s.selected # NoPath => /\ s.selected \in Paths
                              /\ s.remotes[s.selected].state = "Succeeded"
                              /\ s.remotes[s.selected].nominated

\* Only the controlling side nominates, and every answer is to a check.
MessageOK(m) ==
    /\ m.to \in Agents /\ m.path \in Paths /\ m.kind \in {"check", "answer", "dtls"}
    /\ m.kind = "check" => /\ m.n \in 1 .. Bound(PeerOf(m.to))
                           /\ m.use => m = Check("controlling", m.path, m.n, TRUE)
    /\ m.kind = "answer" => m.n \in 1 .. Bound(m.to) /\ m = Answer(PeerOf(m.to), m.path, m.n)

(* The fields that the handlers look at are there. *)
EntryFields == {"typ", "priority", "state", "n", "tx_id", "triggered", "nominating", "nominated"}
TransportShape(s) ==
    /\ {"remotes", "selected", "recent", "creds", "state", "dtls", "srtp", "out"} \subseteq DOMAIN s
    /\ DOMAIN s.remotes = Paths
    /\ \A p \in Paths : EntryFields \subseteq DOMAIN s.remotes[p]

(* A transport whose messages to send are added to the network's, N. *)
Good(s, a, N) == /\ TransportShape(s)
                 /\ TransportOK(s, a, N \union s.out)
                 /\ \A m \in s.out : MessageOK(m)

(* From s to r no priority changes, and the selection does not go back. *)
Moves(s, r) ==
    /\ \A p \in Paths : s.remotes[p].state # "absent" =>
          r.remotes[p].state # "absent" /\ r.remotes[p].priority = s.remotes[p].priority
    /\ s.selected # NoPath => \/ r.selected = s.selected
                              \/ /\ r.selected \in Paths
                                 /\ r.remotes[r.selected].priority > s.remotes[s.selected].priority

LEMMA AgentFacts ==
  /\ \A a \in Agents : PeerOf(a) \in Agents /\ PeerOf(PeerOf(a)) = a /\ PeerOf(a) # a /\ Bound(a) \in Nat
  /\ Bound("controlling") = MaxChecks /\ PeerOf("controlled") = "controlling"
  /\ NoPath \notin Paths
BY IceAssumption DEF Agents, PeerOf, Bound

LEMMA MessageFacts ==
  ASSUME NEW a \in Agents, NEW p \in Paths
  PROVE  /\ \A n \in 1 .. Bound(a) :
              /\ MessageOK(Check(a, p, n, FALSE)) /\ MessageOK(Answer(PeerOf(a), p, n))
              /\ a = "controlling" => MessageOK(Check(a, p, n, TRUE))
         /\ \A n : MessageOK(Flight(a, p, n))
BY AgentFacts DEF MessageOK, Check, Answer, Flight

LEMMA MovesSelf == ASSUME NEW s PROVE Moves(s, s)
BY DEF Moves

LEMMA MovesOn ==
  ASSUME NEW s, NEW a, NEW N, Good(s, a, N), NEW t, NEW M, Good(t, a, M), NEW r, NEW L, Good(r, a, L),
         Moves(s, t), Moves(t, r)
  PROVE  Moves(s, r)
<1>1. \A p \in Paths : s.remotes[p].state # "absent" =>
          r.remotes[p].state # "absent" /\ r.remotes[p].priority = s.remotes[p].priority
  BY DEF Moves
<1>2. ASSUME s.selected # NoPath
      PROVE  \/ r.selected = s.selected
             \/ r.selected \in Paths /\ r.remotes[r.selected].priority > s.remotes[s.selected].priority
  <2>1. s.selected \in Paths /\ s.remotes[s.selected].state # "absent"
    BY <1>2 DEF Good, TransportOK
  <2>2. s.remotes[s.selected].priority \in Nat /\ \A p \in Paths : /\ t.remotes[p].priority \in Nat
                                                                  /\ r.remotes[p].priority \in Nat
    BY <2>1 DEF Good, TransportOK, EntryOK
  <2>3. t.remotes[s.selected].priority = s.remotes[s.selected].priority
    BY <2>1 DEF Moves
  <2>4. CASE t.selected = s.selected
    BY <1>2, <2>3, <2>4 DEF Moves
  <2>5. CASE t.selected # s.selected
    <3>1. t.selected \in Paths /\ t.remotes[t.selected].priority > s.remotes[s.selected].priority
      BY <1>2, <2>5 DEF Moves
    <3>2. t.selected # NoPath
      BY <3>1, AgentFacts
    <3>3. CASE r.selected = t.selected
      <4>1. t.remotes[t.selected].state # "absent"
        BY <3>2 DEF Good, TransportOK
      <4> QED
        BY <3>1, <3>3, <4>1 DEF Moves
    <3>4. CASE r.selected # t.selected
      BY <2>1, <2>2, <3>1, <3>2, <3>4 DEF Moves
    <3> QED
      BY <3>3, <3>4
  <2> QED
    BY <2>4, <2>5
<1> QED
  BY <1>1, <1>2 DEF Moves

LEMMA Wider ==
  ASSUME NEW s, NEW a, NEW N, NEW M, TransportOK(s, a, N), N \subseteq M
  PROVE  TransportOK(s, a, M)
<1>1. \A p \in Paths : (UseSent(p, N) => UseSent(p, M)) /\ (Answered(a, p, N) => Answered(a, p, M))
  BY DEF UseSent, Answered
<1>2. \A p \in Paths : EntryOK(s, a, p, N) => EntryOK(s, a, p, M)
  BY <1>1 DEF EntryOK
<1> QED
  BY <1>2 DEF TransportOK

(* A handler's step that leaves candidates and selection alone. *)
LEMMA Besides ==
  ASSUME NEW s, NEW a, NEW N, Good(s, a, N), NEW r, TransportShape(r),
         r.remotes = s.remotes, r.selected = s.selected, s.out \subseteq r.out,
         \A m \in r.out : MessageOK(m)
  PROVE  Good(r, a, N) /\ Moves(s, r)
<1>1. TransportOK(r, a, N \union s.out)
  BY DEF Good, TransportOK, EntryOK
<1>2. N \union s.out \subseteq N \union r.out
  OBVIOUS
<1>3. TransportOK(r, a, N \union r.out)
  BY <1>1, <1>2, Wider
<1> QED
  BY <1>3 DEF Good, Moves

(* A step at one candidate: what is to show of it. *)
LEMMA AtOne ==
  ASSUME NEW s, NEW a \in Agents, NEW N, Good(s, a, N), NEW p \in Paths, NEW r, TransportShape(r),
         \A q \in Paths \ {p} : r.remotes[q] = s.remotes[q],
         r.selected = s.selected, s.out \subseteq r.out, \A m \in r.out : MessageOK(m),
         EntryOK(r, a, p, N \union r.out),
         r.remotes[p].nominating => \A q \in Paths \ {p} : ~s.remotes[q].nominating,
         s.selected = p => /\ r.remotes[p].state = "Succeeded" /\ r.remotes[p].nominated,
         s.remotes[p].state # "absent" =>
             r.remotes[p].state # "absent" /\ r.remotes[p].priority = s.remotes[p].priority
  PROVE  Good(r, a, N) /\ Moves(s, r)
<1> DEFINE M == N \union r.out
<1>1. TransportOK(s, a, M)
  BY Wider DEF Good
<1> HIDE DEF M
<1>2. s.selected # NoPath =>
         s.selected \in Paths /\ r.remotes[s.selected].priority = s.remotes[s.selected].priority
  BY <1>1 DEF TransportOK
<1>3. ASSUME NEW q \in Paths \ {p} PROVE EntryOK(r, a, q, M)
  BY <1>1, <1>2 DEF TransportOK, EntryOK
<1>4. \A q \in Paths : EntryOK(r, a, q, M)
  BY <1>3 DEF M
<1>5. \A q, u \in Paths : r.remotes[q].nominating /\ r.remotes[u].nominating => q = u
  BY <1>1 DEF TransportOK
<1>6. r.selected # NoPath => /\ r.selected \in Paths /\ r.remotes[r.selected].state = "Succeeded"
                             /\ r.remotes[r.selected].nominated
  BY <1>1 DEF TransportOK
<1>7. TransportOK(r, a, M)
  BY <1>4, <1>5, <1>6 DEF TransportOK
<1> QED
  BY <1>7 DEF Good, Moves, M

LEMMA PreferenceType == \A typ \in {"host", "prflx", "srflx", "relay"} : Preference[typ] \in Nat
BY DEF Preference

LEMMA AddRemoteGood ==
  ASSUME NEW s, NEW a \in Agents, NEW N, Good(s, a, N), NEW p \in Paths,
         NEW typ \in {"host", "prflx", "srflx", "relay"}
  PROVE  /\ Good(AddRemote(s, p, typ), a, N) /\ Moves(s, AddRemote(s, p, typ))
         /\ p \in Known(AddRemote(s, p, typ))
         /\ AddRemote(s, p, typ).out = s.out /\ AddRemote(s, p, typ).selected = s.selected
         /\ \A q \in Paths \ {p} : AddRemote(s, p, typ).remotes[q] = s.remotes[q]
<1> DEFINE r == AddRemote(s, p, typ)
<1>0. TransportShape(s) /\ EntryOK(s, a, p, N \union s.out)
  BY DEF Good, TransportOK
<1>1. CASE p \notin Known(s)
  <2>1. r = [s EXCEPT !.remotes[p] = RemoteEntry(typ)] /\ s.remotes[p].state = "absent"
    BY <1>1 DEF AddRemote, Known, In
  <2>2. /\ TransportShape(r) /\ r.selected = s.selected /\ r.out = s.out
        /\ \A q \in Paths \ {p} : r.remotes[q] = s.remotes[q]
        /\ r.remotes[p] = RemoteEntry(typ)
    BY <1>0, <2>1 DEF TransportShape, RemoteEntry, EntryFields
  <2> HIDE DEF r
  <2>3. EntryOK(r, a, p, N \union r.out) /\ r.remotes[p].state = "Waiting" /\ ~r.remotes[p].nominating
    BY <2>2, PreferenceType DEF EntryOK, RemoteEntry
  <2>4. s.selected # p
    BY <2>1, AgentFacts DEF Good, TransportOK
  <2>5. Good(r, a, N) /\ Moves(s, r)
    BY <2>1, <2>2, <2>3, <2>4, AtOne DEF Good
  <2> QED
    BY <2>2, <2>3, <2>5 DEF r, Known, In
<1>2. CASE p \in Known(s) /\ s.remotes[p].typ = "prflx"
  <2>1. r = [s EXCEPT !.remotes[p].typ = typ] /\ s.remotes[p].state # "absent"
    BY <1>2 DEF AddRemote, Known, In
  <2>2. /\ TransportShape(r) /\ r.selected = s.selected /\ r.out = s.out
        /\ \A q \in Paths \ {p} : r.remotes[q] = s.remotes[q]
        /\ r.remotes[p] = [s.remotes[p] EXCEPT !.typ = typ]
    BY <1>0, <2>1 DEF TransportShape, EntryFields
  <2>3. /\ r.remotes[p].n = s.remotes[p].n /\ r.remotes[p].state = s.remotes[p].state
        /\ r.remotes[p].priority = s.remotes[p].priority
        /\ r.remotes[p].triggered = s.remotes[p].triggered
        /\ r.remotes[p].nominating = s.remotes[p].nominating
        /\ r.remotes[p].nominated = s.remotes[p].nominated
    BY <1>0, <2>2 DEF TransportShape, EntryFields
  <2> HIDE DEF r
  <2>4. r.selected # NoPath => r.remotes[r.selected].priority = s.remotes[s.selected].priority
    BY <2>2, <2>3 DEF Good, TransportOK
  <2>5. EntryOK(r, a, p, N \union r.out)
    BY <1>0, <2>2, <2>3, <2>4 DEF EntryOK
  <2>6. /\ r.remotes[p].nominating => \A q \in Paths \ {p} : ~s.remotes[q].nominating
        /\ s.selected = p => r.remotes[p].state = "Succeeded" /\ r.remotes[p].nominated
    BY <2>3, AgentFacts DEF Good, TransportOK
  <2>7. Good(r, a, N) /\ Moves(s, r)
    <3>1. s.out \subseteq r.out /\ \A m \in r.out : MessageOK(m)
      BY <2>2 DEF Good
    <3>2. s.remotes[p].state # "absent" =>
             r.remotes[p].state # "absent" /\ r.remotes[p].priority = s.remotes[p].priority
      BY <2>3
    <3> QED
      BY <2>2, <2>5, <2>6, <3>1, <3>2, AtOne
  <2> QED
    BY <2>1, <2>2, <2>3, <2>7 DEF r, Known, In
<1>3. CASE p \in Known(s) /\ s.remotes[p].typ # "prflx"
  BY <1>3, MovesSelf DEF AddRemote
<1> QED
  BY <1>1, <1>2, <1>3

LEMMA SendCheckGood ==
  ASSUME NEW s, NEW a \in Agents, NEW N, Good(s, a, N), NEW p \in Paths, NEW nominate \in BOOLEAN,
         s.remotes[p].n < Bound(a), s.remotes[p].state # "absent", s.selected # p,
         nominate => /\ a = "controlling" /\ \A q \in Paths : ~s.remotes[q].nominating
                     /\ s.selected # NoPath => s.remotes[p].priority > s.remotes[s.selected].priority
  PROVE  Good(send_check(s, a, p, nominate), a, N) /\ Moves(s, send_check(s, a, p, nominate))
         /\ send_check(s, a, p, nominate).selected = s.selected
<1> DEFINE r == send_check(s, a, p, nominate)
           n == s.remotes[p].n + 1
           c == Check(a, p, n, nominate)
<1>0. TransportShape(s) /\ EntryOK(s, a, p, N \union s.out) /\ \A m \in s.out : MessageOK(m)
  BY DEF Good, TransportOK
<1>1. n \in 1 .. Bound(a)
  BY <1>0, AgentFacts DEF EntryOK
<1>2. MessageOK(c)
  BY <1>1, MessageFacts
<1>3. /\ TransportShape(r) /\ r.selected = s.selected /\ r.out = s.out \union {c}
      /\ \A q \in Paths \ {p} : r.remotes[q] = s.remotes[q]
  BY <1>0 DEF send_check, TransportShape, EntryFields
<1>4. /\ r.remotes[p].n = n /\ r.remotes[p].state = "InProgress"
      /\ ~r.remotes[p].triggered /\ (r.remotes[p].nominating <=> nominate)
      /\ (r.remotes[p].nominated <=> s.remotes[p].nominated)
      /\ r.remotes[p].priority = s.remotes[p].priority
  BY <1>0 DEF send_check, TransportShape, EntryFields
<1> HIDE DEF r
<1>5. nominate => UseSent(p, N \union r.out)
  <2> SUFFICES ASSUME nominate PROVE UseSent(p, N \union r.out)
    OBVIOUS
  <2>1. Check("controlling", p, n, TRUE) \in N \union r.out
    BY <1>3
  <2> HIDE DEF n
  <2> QED
    BY <1>1, <2>1, AgentFacts DEF UseSent
<1>6. s.remotes[p].nominated => UseSent(p, N \union r.out)
  BY <1>0, <1>3 DEF EntryOK, UseSent
<1>7. s.selected # NoPath => r.remotes[s.selected].priority = s.remotes[s.selected].priority
  BY <1>3, <1>4 DEF Good, TransportOK
<1> HIDE DEF n, c
<1>8. EntryOK(r, a, p, N \union r.out)
  BY <1>0, <1>1, <1>3, <1>4, <1>5, <1>6, <1>7, AgentFacts DEF EntryOK
<1>9. Good(r, a, N) /\ Moves(s, r)
  BY <1>0, <1>2, <1>3, <1>4, <1>8, AtOne
<1> QED
  BY <1>3, <1>9 DEF r

(* Each of the outcomes of sending a check, or none, over one of ps. *)
LEMMA SendOneGood ==
  ASSUME NEW s, NEW a \in Agents, NEW N, Good(s, a, N), NEW ps \in SUBSET Paths, NEW nominate \in BOOLEAN,
         \A p \in ps : /\ s.remotes[p].state # "absent" /\ s.selected # p
                       /\ nominate => /\ a = "controlling" /\ \A q \in Paths : ~s.remotes[q].nominating
                                      /\ s.selected # NoPath =>
                                            s.remotes[p].priority > s.remotes[s.selected].priority,
         NEW r \in SendOne(s, a, ps, nominate)
  PROVE  Good(r, a, N) /\ Moves(s, r) /\ r.selected = s.selected
<1>1. CASE r = s
  BY <1>1, MovesSelf
<1>2. CASE \E p \in ps : s.remotes[p].n < Bound(a) /\ r = send_check(s, a, p, nominate)
  BY <1>2, SendCheckGood
<1> QED
  BY <1>1, <1>2 DEF SendOne

LEMMA SendNomination ==
  ASSUME NEW s, NEW a \in Agents, NEW N, Good(s, a, N), NEW ps \in SUBSET Paths,
         \A p \in ps : /\ s.remotes[p].state # "absent" /\ s.selected # p
                       /\ a = "controlling" /\ \A q \in Paths : ~s.remotes[q].nominating
                       /\ s.selected # NoPath => s.remotes[p].priority > s.remotes[s.selected].priority,
         NEW r \in SendOne(s, a, ps, TRUE)
  PROVE  Good(r, a, N) /\ Moves(s, r) /\ r.selected = s.selected
<1>1. PICK nominate \in BOOLEAN : nominate = TRUE
  OBVIOUS
<1>2. r \in SendOne(s, a, ps, nominate)
  BY <1>1
<1> QED
  BY <1>2, SendOneGood

LEMMA SendPlain ==
  ASSUME NEW s, NEW a \in Agents, NEW N, Good(s, a, N), NEW ps \in SUBSET Paths,
         \A p \in ps : s.remotes[p].state # "absent" /\ s.selected # p,
         NEW r \in SendOne(s, a, ps, FALSE)
  PROVE  Good(r, a, N) /\ Moves(s, r) /\ r.selected = s.selected
<1>1. PICK nominate \in BOOLEAN : nominate = FALSE
  OBVIOUS
<1>2. r \in SendOne(s, a, ps, nominate)
  BY <1>1
<1> QED
  BY <1>1, <1>2, SendOneGood

LEMMA NoneNominating ==
  ASSUME NEW s, NEW a, NEW N, Good(s, a, N), MayNominate(s, a)
  PROVE  a = "controlling" /\ \A q \in Paths : ~s.remotes[q].nominating
BY DEF MayNominate, Known, In, Good, TransportOK, EntryOK

LEMMA NominationGood ==
  ASSUME NEW s, NEW a \in Agents, NEW N, Good(s, a, N), NEW waited,
         NEW r \in consider_nomination(s, a, waited)
  PROVE  Good(r, a, N) /\ Moves(s, r) /\ r.selected = s.selected
<1> DEFINE ps == {p \in Best(s, In(s, "Succeeded")) :
                    /\ MayNominate(s, a) /\ s.selected = NoPath
                    /\ s.remotes[p].typ = "relay" => Renomination \/ waited}
<1>1. ps \in SUBSET Paths /\ \A p \in ps : s.remotes[p].state = "Succeeded"
  BY DEF Best, In
<1>2. \A p \in ps : MayNominate(s, a) /\ s.selected = NoPath
  OBVIOUS
<1>3. r \in SendOne(s, a, ps, TRUE)
  BY DEF consider_nomination
<1> HIDE DEF ps
<1>4. ASSUME NEW p \in ps
      PROVE  /\ s.remotes[p].state # "absent" /\ s.selected # p
             /\ a = "controlling" /\ \A q \in Paths : ~s.remotes[q].nominating
             /\ s.selected = NoPath
  BY <1>1, <1>2, NoneNominating, AgentFacts
<1> QED
  BY <1>1, <1>3, <1>4, SendNomination

LEMMA RenominationGood ==
  ASSUME NEW s, NEW a \in Agents, NEW N, Good(s, a, N), NEW r \in consider_renomination(s, a)
  PROVE  Good(r, a, N) /\ Moves(s, r) /\ r.selected = s.selected
<1> DEFINE better == {p \in In(s, "Succeeded") : /\ s.remotes[p].typ # "relay"
                                                /\ priority_of(s, p) > priority_of(s, s.selected)}
           able == MayNominate(s, a) /\ exploring(s) /\ s.srtp
           ps == IF able THEN Best(s, better) ELSE {}
<1>1. r \in SendOne(s, a, ps, TRUE)
  BY DEF consider_renomination
<1>2. ASSUME NEW p \in ps
      PROVE  /\ MayNominate(s, a) /\ p \in Paths /\ s.remotes[p].state = "Succeeded"
             /\ s.remotes[p].priority > s.remotes[s.selected].priority
  BY DEF Best, In, priority_of
<1> HIDE DEF ps
<1>3. ASSUME NEW p \in ps
      PROVE  /\ s.remotes[p].state # "absent" /\ s.selected # p
             /\ a = "controlling" /\ \A q \in Paths : ~s.remotes[q].nominating
             /\ s.remotes[p].priority > s.remotes[s.selected].priority
  <2>1. s.remotes[p].priority \in Nat
    BY <1>2 DEF Good, TransportOK, EntryOK
  <2> QED
    BY <1>2, <2>1, NoneNominating
<1>4. ps \in SUBSET Paths
  BY <1>2
<1> QED
  BY <1>1, <1>3, <1>4, SendNomination

-----------------------------------------------------------------------------
(* Selection *)

(* Making a pair that was verified and nominated the selected one. *)
LEMMA NewSelection ==
  ASSUME NEW s, NEW a \in Agents, NEW N, Good(s, a, N), NEW p \in Paths, NEW r, TransportShape(r),
         s.remotes[p].state = "Succeeded", UseSent(p, N \union s.out),
         \A q \in Paths : ~s.remotes[q].nominating,
         s.selected # NoPath => s.remotes[p].priority > s.remotes[s.selected].priority,
         r.selected = p, s.out \subseteq r.out, \A m \in r.out : MessageOK(m),
         r.remotes = [s.remotes EXCEPT ![p].nominated = TRUE]
  PROVE  Good(r, a, N) /\ Moves(s, r)
<1> DEFINE M == N \union r.out
<1>1. TransportOK(s, a, M) /\ TransportShape(s)
  BY Wider DEF Good
<1>2. UseSent(p, M)
  BY DEF UseSent
<1> HIDE DEF M
<1>3. \A q \in Paths \ {p} : r.remotes[q] = s.remotes[q]
  BY <1>1 DEF TransportShape
<1>4. r.remotes[p] = [s.remotes[p] EXCEPT !.nominated = TRUE]
  BY <1>1 DEF TransportShape
<1>5. /\ r.remotes[p].n = s.remotes[p].n /\ r.remotes[p].state = "Succeeded"
      /\ r.remotes[p].priority = s.remotes[p].priority
      /\ (r.remotes[p].triggered <=> s.remotes[p].triggered)
      /\ ~r.remotes[p].nominating /\ r.remotes[p].nominated
  BY <1>1, <1>4 DEF TransportShape, EntryFields
<1>6. \A q \in Paths : s.remotes[q].priority \in Nat
  BY <1>1 DEF TransportOK, EntryOK
<1>7. EntryOK(r, a, p, M)
  BY <1>1, <1>2, <1>5, <1>6, AgentFacts DEF EntryOK, TransportOK
<1>8. ASSUME NEW q \in Paths \ {p} PROVE EntryOK(r, a, q, M)
  <2>1. EntryOK(s, a, q, M) /\ ~s.remotes[q].nominating /\ r.remotes[q] = s.remotes[q]
    BY <1>1, <1>3 DEF TransportOK
  <2>2. a = "controlling" /\ s.remotes[q].nominated => s.remotes[q].priority <= s.remotes[p].priority
    <3>1. SUFFICES ASSUME a = "controlling", s.remotes[q].nominated
                   PROVE  s.remotes[q].priority <= s.remotes[p].priority
      OBVIOUS
    <3>2. s.selected # NoPath /\ s.selected \in Paths
          /\ s.remotes[q].priority <= s.remotes[s.selected].priority
      BY <1>1, <2>1, <3>1 DEF EntryOK, TransportOK
    <3> QED
      BY <1>6, <3>2
  <2> QED
    BY <1>5, <2>1, <2>2, AgentFacts DEF EntryOK
<1>9. \A q \in Paths : ~r.remotes[q].nominating
  BY <1>3, <1>5
<1>10. TransportOK(r, a, M)
  BY <1>5, <1>7, <1>8, <1>9 DEF TransportOK
<1>11. Moves(s, r)
  BY <1>3, <1>5 DEF Moves
<1> QED
  BY <1>10, <1>11 DEF Good, M

LEMMA StartDtlsGood ==
  ASSUME NEW s, NEW a \in Agents, NEW N, Good(s, a, N), NEW p \in Paths
  PROVE  Good(start_dtls(s, a, p), a, N) /\ Moves(s, start_dtls(s, a, p))
<1> DEFINE r == start_dtls(s, a, p)
<1>1. CASE s.dtls # "none"
  BY <1>1, MovesSelf DEF start_dtls
<1>2. CASE s.dtls = "none"
  <2>1. MessageOK(Flight(a, p, 1))
    BY MessageFacts
  <2>2. TransportShape(r) /\ r.remotes = s.remotes /\ r.selected = s.selected
    BY <1>2 DEF start_dtls, Good, TransportShape
  <2>3. s.out \subseteq r.out /\ r.out \subseteq s.out \union {Flight(a, p, 1)}
    BY <1>2 DEF start_dtls, Good, TransportShape
  <2>4. \A m \in r.out : MessageOK(m)
    BY <2>1, <2>3 DEF Good
  <2> QED
    BY <2>2, <2>3, <2>4, Besides
<1> QED
  BY <1>1, <1>2

LEMMA SelectGood ==
  ASSUME NEW s, NEW a \in Agents, NEW N, Good(s, a, N), NEW p \in Paths,
         s.remotes[p].state = "Succeeded", UseSent(p, N \union s.out),
         \A q \in Paths : ~s.remotes[q].nominating, s.selected = NoPath
  PROVE  Good(select(s, a, p), a, N) /\ Moves(s, select(s, a, p))
<1> DEFINE t == [s EXCEPT !.selected = p, !.recent = TRUE, !.remotes[p].nominated = TRUE]
<1>1. TransportShape(t) /\ t.selected = p /\ t.out = s.out
      /\ t.remotes = [s.remotes EXCEPT ![p].nominated = TRUE]
  BY DEF Good, TransportShape, EntryFields
<1>2. select(s, a, p) = start_dtls(t, a, p)
  BY DEF select
<1> HIDE DEF t
<1>3. \A m \in t.out : MessageOK(m)
  BY <1>1 DEF Good
<1>4. Good(t, a, N) /\ Moves(s, t)
  BY <1>1, <1>3, NewSelection
<1>5. Good(start_dtls(t, a, p), a, N) /\ Moves(t, start_dtls(t, a, p))
  BY <1>4, StartDtlsGood
<1> QED
  BY <1>2, <1>4, <1>5, MovesOn

LEMMA SwitchGood ==
  ASSUME NEW s, NEW a \in Agents, NEW N, Good(s, a, N), NEW p \in Paths,
         s.remotes[p].state = "Succeeded", UseSent(p, N \union s.out),
         \A q \in Paths : ~s.remotes[q].nominating,
         s.selected # NoPath => s.remotes[p].priority > s.remotes[s.selected].priority
  PROVE  Good(switch_selected(s, p), a, N) /\ Moves(s, switch_selected(s, p))
<1> DEFINE t == switch_selected(s, p)
<1>1. TransportShape(t) /\ t.selected = p /\ t.out = s.out
      /\ t.remotes = [s.remotes EXCEPT ![p].nominated = TRUE]
  BY DEF switch_selected, Good, TransportShape, EntryFields
<1> HIDE DEF t
<1>2. \A m \in t.out : MessageOK(m)
  BY <1>1 DEF Good
<1>3. Good(t, a, N) /\ Moves(s, t)
  BY <1>1, <1>2, NewSelection
<1> QED
  BY <1>3 DEF t

(* The controlled side takes a nominated pair; on the controlling side a   *)
(* nominated pair is, or was, the selected one, and nothing changes.       *)
LEMMA NominatedGood ==
  ASSUME NEW s, NEW a \in Agents, NEW N, Good(s, a, N), NEW p \in Paths,
         s.remotes[p].state = "Succeeded", s.remotes[p].nominated
  PROVE  Good(Nominated(s, a, p), a, N) /\ Moves(s, Nominated(s, a, p))
<1>1. UseSent(p, N \union s.out) /\ s.remotes[p].priority \in Nat
  BY DEF Good, TransportOK, EntryOK
<1>2. CASE a = "controlling"
  <2>1. s.selected # NoPath /\ s.remotes[p].priority <= s.remotes[s.selected].priority
    BY <1>2 DEF Good, TransportOK, EntryOK
  <2>2. s.remotes[s.selected].priority \in Nat
    BY <2>1 DEF Good, TransportOK, EntryOK
  <2>3. Nominated(s, a, p) = s
    BY <1>1, <2>1, <2>2 DEF Nominated, follow_renomination, priority_of
  <2> QED
    BY <2>3, MovesSelf
<1>3. CASE a = "controlled"
  <2>1. \A q \in Paths : ~s.remotes[q].nominating
    BY <1>3 DEF Good, TransportOK, EntryOK
  <2>2. CASE s.selected = NoPath
    BY <1>1, <2>1, <2>2, SelectGood DEF Nominated
  <2>3. CASE s.selected # NoPath /\ priority_of(s, p) > priority_of(s, s.selected)
    BY <1>1, <2>1, <2>3, SwitchGood DEF Nominated, follow_renomination, priority_of
  <2>4. CASE s.selected # NoPath /\ ~(priority_of(s, p) > priority_of(s, s.selected))
    BY <2>4, MovesSelf DEF Nominated, follow_renomination
  <2> QED
    BY <2>2, <2>3, <2>4
<1> QED
  BY <1>2, <1>3 DEF Agents

-----------------------------------------------------------------------------
(* The tick *)

LEMMA GivenUpGood ==
  ASSUME NEW s, NEW a \in Agents, NEW N, Good(s, a, N), NEW ps \in SUBSET In(s, "InProgress")
  PROVE  Good(GivenUp(s, ps), a, N) /\ Moves(s, GivenUp(s, ps)) /\ GivenUp(s, ps).selected = s.selected
<1> DEFINE r == GivenUp(s, ps)
           M == N \union s.out
<1>0. TransportShape(s) /\ TransportOK(s, a, M)
  BY DEF Good
<1>1. TransportShape(r) /\ r.selected = s.selected /\ r.out = s.out
  BY <1>0 DEF GivenUp, TransportShape, EntryFields
<1>2. ASSUME NEW p \in Paths \ ps PROVE r.remotes[p] = s.remotes[p]
  BY <1>0 DEF GivenUp, TransportShape
<1>3. ASSUME NEW p \in ps
      PROVE  /\ p \in Paths /\ s.remotes[p].state = "InProgress"
             /\ r.remotes[p].n = s.remotes[p].n /\ r.remotes[p].state = "Failed"
             /\ r.remotes[p].priority = s.remotes[p].priority
             /\ ~r.remotes[p].nominating
             /\ (r.remotes[p].nominated <=> s.remotes[p].nominated)
             /\ (r.remotes[p].triggered <=> s.remotes[p].triggered)
  BY <1>0 DEF GivenUp, TransportShape, EntryFields, In
<1> HIDE DEF r, M
<1>4. s.selected # NoPath => s.selected \in Paths \ ps
  BY <1>0, <1>3 DEF TransportOK
<1>5. ASSUME NEW p \in Paths PROVE EntryOK(r, a, p, M)
  <2>1. EntryOK(s, a, p, M)
    BY <1>0 DEF TransportOK
  <2>2. s.selected # NoPath => r.remotes[r.selected].priority = s.remotes[s.selected].priority
    BY <1>1, <1>2, <1>4
  <2>3. CASE p \in ps
    BY <1>1, <1>3, <2>1, <2>2, <2>3 DEF EntryOK
  <2>4. CASE p \notin ps
    BY <1>1, <1>2, <2>1, <2>2, <2>4 DEF EntryOK
  <2> QED
    BY <2>3, <2>4
<1>6. TransportOK(r, a, M)
  BY <1>0, <1>1, <1>2, <1>3, <1>4, <1>5 DEF TransportOK
<1>7. Moves(s, r)
  BY <1>1, <1>2, <1>3 DEF Moves
<1> QED
  BY <1>1, <1>6, <1>7 DEF Good, M, r

(* Only candidates that wait are checked. *)
LEMMA NextChecksWait ==
  ASSUME NEW s, NEW a, NEW N, Good(s, a, N), NEW p \in NextChecks(s)
  PROVE  p \in Paths /\ s.remotes[p].state = "Waiting" /\ s.selected # p
<1>1. p \in Paths /\ (s.remotes[p].triggered \/ s.remotes[p].state = "Waiting")
  BY DEF NextChecks, Best, Known, In
<1>2. s.remotes[p].state = "Waiting"
  BY <1>1 DEF Good, TransportOK, EntryOK
<1> QED
  BY <1>1, <1>2, AgentFacts DEF Good, TransportOK

LEMMA KeepaliveGood ==
  ASSUME NEW s, NEW a \in Agents, NEW N, Good(s, a, N), NEW p \in Paths, s.selected = p, NEW due
  PROVE  Good(Keepalive(s, a, due), a, N) /\ Moves(s, Keepalive(s, a, due))
<1> DEFINE r == Keepalive(s, a, due)
           n == s.remotes[p].n + 1
           c == Check(a, p, n, FALSE)
<1>0. /\ TransportShape(s) /\ EntryOK(s, a, p, N \union s.out)
      /\ s.remotes[p].state = "Succeeded" /\ s.remotes[p].nominated
      /\ \A m \in s.out : MessageOK(m)
  BY AgentFacts DEF Good, TransportOK
<1>1. CASE ~due \/ n > Bound(a)
  BY <1>1, MovesSelf DEF Keepalive
<1>2. CASE due /\ ~(n > Bound(a))
  <2>1. n \in 1 .. Bound(a)
    BY <1>0, <1>2, AgentFacts DEF EntryOK
  <2>2. MessageOK(c)
    BY <1>0, <2>1, MessageFacts
  <2>3. r = [s EXCEPT !.remotes[p].n = n, !.remotes[p].tx_id = n, !.out = @ \union {c}]
    BY <1>2 DEF Keepalive
  <2>4. /\ TransportShape(r) /\ r.selected = s.selected /\ r.out = s.out \union {c}
        /\ \A q \in Paths \ {p} : r.remotes[q] = s.remotes[q]
    BY <1>0, <2>3 DEF TransportShape, EntryFields
  <2>5. /\ r.remotes[p].n = n /\ r.remotes[p].state = "Succeeded" /\ r.remotes[p].nominated
        /\ (r.remotes[p].triggered <=> s.remotes[p].triggered)
        /\ (r.remotes[p].nominating <=> s.remotes[p].nominating)
        /\ r.remotes[p].priority = s.remotes[p].priority
    BY <1>0, <2>3 DEF TransportShape, EntryFields
  <2> HIDE DEF r, n, c
  <2>11. UseSent(p, N \union s.out) /\ Answered(a, p, N \union s.out)
    BY <1>0 DEF EntryOK
  <2>6. UseSent(p, N \union r.out) /\ Answered(a, p, N \union r.out)
    BY <2>4, <2>11 DEF UseSent, Answered
  <2>7. n \in Nat
    BY <2>1, AgentFacts
  <2>8. EntryOK(r, a, p, N \union r.out)
    BY <1>0, <2>4, <2>5, <2>6, <2>7, AgentFacts DEF EntryOK
  <2>9. ~s.remotes[p].nominating
    BY <1>0 DEF EntryOK
  <2>10. Good(r, a, N) /\ Moves(s, r)
    BY <1>0, <2>2, <2>4, <2>5, <2>8, <2>9, AtOne
  <2> QED
    BY <2>10 DEF r
<1> QED
  BY <1>1, <1>2

LEMMA FailGood ==
  ASSUME NEW s, NEW a \in Agents, NEW N, Good(s, a, N)
  PROVE  Good(fail(s), a, N) /\ Moves(s, fail(s))
<1>1. CASE fail(s) = s
  BY <1>1, MovesSelf
<1>2. CASE fail(s) = [s EXCEPT !.state = "Failed"]
  <2> DEFINE r == [s EXCEPT !.state = "Failed"]
  <2>1. TransportShape(r) /\ r.remotes = s.remotes /\ r.selected = s.selected /\ r.out = s.out
    BY DEF Good, TransportShape
  <2> HIDE DEF r
  <2> QED
    BY <1>2, <2>1, Besides DEF Good, r
<1> QED
  BY <1>1, <1>2 DEF fail

LEMMA DtlsTickGood ==
  ASSUME NEW s, NEW a \in Agents, NEW N, Good(s, a, N), NEW time
  PROVE  Good(DtlsTick(s, time), a, N) /\ Moves(s, DtlsTick(s, time))
BY FailGood, MovesSelf DEF DtlsTick

LEMMA IceTickGood ==
  ASSUME NEW s, NEW a \in Agents, NEW N, Good(s, a, N), NEW lost \in SUBSET In(s, "InProgress"), NEW time,
         NEW r \in IceTick(s, a, lost, time)
  PROVE  Good(r, a, N) /\ Moves(s, r)
<1> DEFINE g == GivenUp(s, lost)
           checked == IF Checking(s) THEN SendOne(g, a, NextChecks(g), FALSE) ELSE {s}
<1>1. ASSUME NEW c \in checked PROVE Good(c, a, N) /\ Moves(s, c) /\ c.selected = s.selected
  <2>1. CASE c = s
    BY <2>1, MovesSelf
  <2>2. CASE c \in SendOne(g, a, NextChecks(g), FALSE)
    <3>1. Good(g, a, N) /\ Moves(s, g) /\ g.selected = s.selected
      BY GivenUpGood
    <3> HIDE DEF g
    <3>2. NextChecks(g) \in SUBSET Paths
          /\ \A p \in NextChecks(g) : g.remotes[p].state # "absent" /\ g.selected # p
      BY <3>1, NextChecksWait
    <3>3. Good(c, a, N) /\ Moves(g, c) /\ c.selected = g.selected
      BY <2>2, <3>1, <3>2, SendPlain
    <3> QED
      BY <3>1, <3>3, MovesOn
  <2> QED
    BY <2>1, <2>2
<1>2. CASE ~s.creds \/ s.state = "Failed"
  BY <1>2, MovesSelf DEF IceTick
<1>3. CASE s.creds /\ s.state # "Failed" /\ s.selected = NoPath
  <2>1. PICK c \in checked : \E t \in consider_nomination(c, a, time = "waited") :
            r = IF time = "ice" THEN fail(t) ELSE t
    BY <1>3 DEF IceTick
  <2>0. PICK t \in consider_nomination(c, a, time = "waited") : r = IF time = "ice" THEN fail(t) ELSE t
    BY <2>1
  <2>2. Good(c, a, N) /\ Moves(s, c)
    BY <1>1, <2>1
  <2> HIDE DEF checked
  <2>3. Good(t, a, N) /\ Moves(c, t)
    BY <2>0, <2>2, NominationGood
  <2>4. Moves(s, t)
    BY <2>2, <2>3, MovesOn
  <2>5. Good(r, a, N) /\ Moves(t, r)
    BY <2>0, <2>3, FailGood, MovesSelf
  <2> QED
    BY <2>3, <2>4, <2>5, MovesOn
<1>4. CASE s.creds /\ s.state # "Failed" /\ s.selected # NoPath
  <2>1. PICK c \in checked : \E t \in consider_renomination(c, a) : r = Keepalive(t, a, time = "keepalive")
    BY <1>4 DEF IceTick
  <2>0. PICK t \in consider_renomination(c, a) : r = Keepalive(t, a, time = "keepalive")
    BY <2>1
  <2>2. Good(c, a, N) /\ Moves(s, c) /\ c.selected = s.selected
    BY <1>1, <2>1
  <2> HIDE DEF checked
  <2>3. Good(t, a, N) /\ Moves(c, t) /\ t.selected = c.selected
    BY <2>0, <2>2, RenominationGood
  <2>4. Moves(s, t)
    BY <2>2, <2>3, MovesOn
  <2>5. Good(r, a, N) /\ Moves(t, r)
    <3>1. t.selected \in Paths
      BY <1>4, <2>2, <2>3 DEF Good, TransportOK
    <3> QED
      BY <2>0, <2>3, <3>1, KeepaliveGood
  <2> QED
    BY <2>3, <2>4, <2>5, MovesOn
<1> QED
  BY <1>2, <1>3, <1>4

-----------------------------------------------------------------------------
(* The actions *)

(* No transport has messages left to send, each is as TransportOK has it,  *)
(* and the network holds only messages that were sent for a reason.        *)
IceInv ==
    /\ DOMAIN ice = Agents
    /\ \A m \in net : MessageOK(m)
    /\ \A a \in Agents : Good(ice[a], a, net) /\ ice[a].out = {}

(* The selected pair of an open transport stays, or a better one
   takes its place. *)
Forward == \A a \in Agents : ice[a].selected # NoPath /\ ice'[a].state # "Closed" =>
              \/ ice'[a].selected = ice[a].selected
              \/ priority_of(ice'[a], ice'[a].selected) > priority_of(ice[a], ice[a].selected)

LEMMA BecomesGood ==
  ASSUME IceInv, NEW a \in Agents, NEW r, Good(r, a, net), Becomes(a, r),
         Moves(ice[a], r) \/ r.state = "Closed"
  PROVE  IceInv' /\ Forward
<1> DEFINE x == [r EXCEPT !.out = {}]
<1>1. ice' = [ice EXCEPT ![a] = x] /\ net' = net \union r.out
  BY DEF Becomes
<1>2. TransportShape(x) /\ x.remotes = r.remotes /\ x.selected = r.selected /\ x.out = {}
      /\ x.state = r.state
  BY DEF Good, TransportShape
<1> HIDE DEF x
<1>3. TransportOK(x, a, net')
  BY <1>1, <1>2 DEF Good, TransportOK, EntryOK
<1>4. Good(x, a, net')
  <2>1. net' \union x.out = net'
    BY <1>2
  <2> QED
    BY <1>2, <1>3, <2>1 DEF Good
<1>5. DOMAIN ice' = Agents /\ ice'[a] = x /\ \A b \in Agents \ {a} : ice'[b] = ice[b]
  BY <1>1 DEF IceInv
<1>6. ASSUME NEW b \in Agents \ {a} PROVE Good(ice'[b], b, net') /\ ice'[b].out = {}
  <2>1. Good(ice[b], b, net) /\ ice[b].out = {} /\ ice'[b] = ice[b]
    BY <1>5 DEF IceInv
  <2>2. net \union ice[b].out \subseteq net' \union ice[b].out
    BY <1>1
  <2>3. TransportOK(ice[b], b, net' \union ice[b].out)
    BY <2>1, <2>2, Wider DEF Good
  <2> QED
    BY <2>1, <2>3 DEF Good
<1>7. \A m \in net' : MessageOK(m)
  BY <1>1 DEF IceInv, Good
<1>8. IceInv'
  BY <1>2, <1>4, <1>5, <1>6, <1>7 DEF IceInv
<1>9. Forward
  BY <1>2, <1>5 DEF Forward, Moves, priority_of
<1> QED
  BY <1>8, <1>9

LEMMA SignalledType == \A p : Signalled(p) \in {"host", "prflx", "srflx", "relay"}
BY DEF Signalled

LEMMA AddCandidateKeeps ==
  ASSUME IceInv, NEW a \in Agents, NEW p \in Paths, add_remote_candidate(a, p)
  PROVE  IceInv' /\ Forward
<1>1. Good(ice[a], a, net)
  BY DEF IceInv
<1>2. Good(AddRemote(ice[a], p, Signalled(p)), a, net) /\ Moves(ice[a], AddRemote(ice[a], p, Signalled(p)))
  BY <1>1, SignalledType, AddRemoteGood
<1> QED
  BY <1>2, BecomesGood DEF add_remote_candidate

(* What a signalled candidate does to its entry. *)
SameEntry(e, f) ==
    /\ e.n = f.n /\ e.state = f.state /\ e.priority = f.priority
    /\ (e.triggered <=> f.triggered) /\ (e.nominating <=> f.nominating)
    /\ (e.nominated <=> f.nominated)
FreshEntry(e) ==
    /\ e.n = 0 /\ e.state = "Waiting" /\ e.priority \in Nat
    /\ ~e.triggered /\ ~e.nominating /\ ~e.nominated

LEMMA AddRemoteEntry ==
  ASSUME NEW s, TransportShape(s), NEW p \in Paths, NEW typ \in {"host", "prflx", "srflx", "relay"}
  PROVE  /\ EntryFields \subseteq DOMAIN AddRemote(s, p, typ).remotes[p]
         /\ s.remotes[p].state # "absent" => SameEntry(AddRemote(s, p, typ).remotes[p], s.remotes[p])
         /\ s.remotes[p].state = "absent" => FreshEntry(AddRemote(s, p, typ).remotes[p])
<1>1. CASE s.remotes[p].state = "absent"
  <2>1. AddRemote(s, p, typ).remotes[p] = RemoteEntry(typ)
    BY <1>1 DEF AddRemote, Known, In, TransportShape
  <2> QED
    BY <1>1, <2>1, PreferenceType DEF RemoteEntry, FreshEntry, EntryFields
<1>2. CASE s.remotes[p].state # "absent" /\ s.remotes[p].typ = "prflx"
  <2>1. AddRemote(s, p, typ).remotes[p] = [s.remotes[p] EXCEPT !.typ = typ]
    BY <1>2 DEF AddRemote, Known, In, TransportShape
  <2> QED
    BY <1>2, <2>1 DEF TransportShape, SameEntry, EntryFields
<1>3. CASE s.remotes[p].state # "absent" /\ s.remotes[p].typ # "prflx"
  BY <1>3 DEF AddRemote, Known, In, TransportShape, SameEntry
<1> QED
  BY <1>1, <1>2, <1>3

LEMMA SetRemoteKeeps ==
  ASSUME IceInv, NEW a \in Agents, set_remote(a)
  PROVE  IceInv' /\ Forward
<1> DEFINE s == ice[a]
           added(p) == AddRemote(s, p, Signalled(p))
           r == [s EXCEPT !.remotes = [p \in Paths |-> IF p \in Trickled THEN @[p] ELSE added(p).remotes[p]],
                          !.creds = TRUE, !.state = IF @ = "New" THEN "Checking" ELSE @]
<1>0. Good(s, a, net) /\ s.out = {} /\ Becomes(a, r)
  BY DEF IceInv, set_remote
<1> HIDE DEF s
<1>1. \A p \in Paths : LET e == added(p).remotes[p] f == s.remotes[p]
                       IN /\ EntryFields \subseteq DOMAIN e
                          /\ f.state # "absent" => SameEntry(e, f)
                          /\ f.state = "absent" => FreshEntry(e)
  BY <1>0, SignalledType, AddRemoteEntry DEF Good
<1> HIDE DEF added
<1>2. DOMAIN r = DOMAIN s /\ r.selected = s.selected /\ r.out = s.out
      /\ r.remotes = [p \in Paths |-> IF p \in Trickled THEN s.remotes[p] ELSE added(p).remotes[p]]
  BY <1>0 DEF Good, TransportShape
<1> HIDE DEF r
<1>3. DOMAIN r.remotes = Paths
      /\ \A p \in Paths : r.remotes[p] = s.remotes[p] \/ r.remotes[p] = added(p).remotes[p]
  BY <1>2
<1>4. TransportShape(r)
  BY <1>0, <1>1, <1>2, <1>3 DEF Good, TransportShape
<1>5. ASSUME NEW p \in Paths
      PROVE  /\ s.remotes[p].state # "absent" => SameEntry(r.remotes[p], s.remotes[p])
             /\ s.remotes[p].state = "absent" => FreshEntry(r.remotes[p]) \/ r.remotes[p] = s.remotes[p]
  BY <1>1, <1>3 DEF SameEntry
<1>6. s.selected # NoPath => s.selected \in Paths /\ SameEntry(r.remotes[s.selected], s.remotes[s.selected])
  BY <1>0, <1>5 DEF Good, TransportOK
<1>7. ASSUME NEW p \in Paths PROVE EntryOK(r, a, p, net)
  <2>1. EntryOK(s, a, p, net)
    BY <1>0 DEF Good, TransportOK
  <2>2. CASE s.remotes[p].state # "absent"
    BY <1>2, <1>5, <1>6, <2>1, <2>2 DEF EntryOK, SameEntry
  <2>3. CASE FreshEntry(r.remotes[p])
    BY <2>3 DEF EntryOK, FreshEntry
  <2>4. CASE r.remotes[p] = s.remotes[p]
    BY <1>2, <1>6, <2>1, <2>4 DEF EntryOK, SameEntry
  <2> QED
    BY <1>5, <2>2, <2>3, <2>4
<1>8. ASSUME NEW p \in Paths, r.remotes[p].nominating PROVE s.remotes[p].nominating
  BY <1>5, <1>8 DEF SameEntry, FreshEntry
<1>9. TransportOK(r, a, net)
  BY <1>0, <1>2, <1>6, <1>7, <1>8 DEF Good, TransportOK, SameEntry
<1>10. Good(r, a, net)
  <2>1. net \union r.out = net
    BY <1>0, <1>2
  <2> QED
    BY <1>0, <1>2, <1>4, <1>9, <2>1 DEF Good
<1>11. Moves(s, r)
  BY <1>2, <1>5 DEF Moves, SameEntry
<1> QED
  BY <1>0, <1>10, <1>11, BecomesGood DEF s

(* A request that nominates came from the controlling side. *)
LEMMA RequestNominates ==
  ASSUME IceInv, NEW m \in net, m.kind = "check", m.use
  PROVE  m.to = "controlled" /\ UseSent(m.path, net)
<1>1. MessageOK(m)
  BY DEF IceInv
<1>2. m = Check("controlling", m.path, m.n, TRUE) /\ m.n \in 1 .. Bound(PeerOf(m.to))
  BY <1>1 DEF MessageOK
<1>3. m.to = "controlled"
  BY <1>2 DEF Check, PeerOf
<1>4. m.n \in 1 .. MaxChecks
  BY <1>2, <1>3, AgentFacts
<1>5. Check("controlling", m.path, m.n, TRUE) \in net
  BY <1>2
<1> QED
  BY <1>3, <1>4, <1>5 DEF UseSent

LEMMA RequestKeeps ==
  ASSUME IceInv, NEW m \in net, m.kind = "check", NEW a \in Agents, a = m.to, HandleRequest(a, m)
  PROVE  IceInv' /\ Forward
<1> DEFINE p == m.path
           answer == Answer(a, p, m.n)
           s == IF m.path \in Known(ice[a]) THEN ice[a] ELSE AddRemote(ice[a], p, "prflx")
           e == [s.remotes[p] EXCEPT !.nominated = @ \/ (m.use /\ a = "controlled")]
           t == [s EXCEPT !.remotes[p] = e, !.out = {answer}]
           again == [t EXCEPT !.remotes[p].triggered = TRUE, !.remotes[p].state = "Waiting"]
           r == CASE e.state = "Succeeded" -> IF e.nominated THEN Nominated(t, a, p) ELSE t
                  [] e.state = "InProgress" -> t
                  [] OTHER -> again
<1>1. Becomes(a, r)
  BY DEF HandleRequest
<1>2. MessageOK(m) /\ p \in Paths /\ m.n \in 1 .. Bound(PeerOf(a))
  BY DEF IceInv, MessageOK
<1>3. MessageOK(answer)
  BY <1>2, MessageFacts, AgentFacts
<1>4. Good(ice[a], a, net) /\ ice[a].out = {}
  BY DEF IceInv
<1>5. Good(s, a, net) /\ Moves(ice[a], s) /\ s.out = {} /\ s.remotes[p].state # "absent"
  <2>1. CASE p \in Known(ice[a])
    BY <1>4, <2>1, MovesSelf DEF Known, In
  <2>2. CASE p \notin Known(ice[a])
    BY <1>2, <1>4, <2>2, AddRemoteGood DEF Known, In
  <2> QED
    BY <2>1, <2>2
<1> HIDE DEF s
<1>6. m.use => m.to = "controlled" /\ UseSent(p, net)
  BY RequestNominates
<1> HIDE DEF answer
<1>7. TransportShape(s) /\ EntryOK(s, a, p, net)
  <2>1. net \union s.out = net
    BY <1>5
  <2> QED
    BY <1>2, <1>5, <2>1 DEF Good, TransportOK
<1>8. /\ TransportShape(t) /\ t.selected = s.selected /\ t.out = {answer}
      /\ \A q \in Paths \ {p} : t.remotes[q] = s.remotes[q]
      /\ t.remotes[p] = e
  BY <1>2, <1>7 DEF TransportShape, EntryFields
<1>9. /\ e.n = s.remotes[p].n /\ e.state = s.remotes[p].state
      /\ e.priority = s.remotes[p].priority
      /\ (e.triggered <=> s.remotes[p].triggered)
      /\ (e.nominating <=> s.remotes[p].nominating)
      /\ (e.nominated <=> s.remotes[p].nominated \/ (m.use /\ a = "controlled"))
  BY <1>2, <1>7 DEF TransportShape, EntryFields
<1> HIDE DEF e, t, p
<1>10. s.selected # NoPath => t.remotes[s.selected].priority = s.remotes[s.selected].priority
  BY <1>5, <1>8, <1>9 DEF Good, TransportOK
<1>11. \A M : net \subseteq M => (UseSent(p, net) => UseSent(p, M)) /\ (Answered(a, p, net) => Answered(a, p, M))
  BY DEF UseSent, Answered
<1>12. EntryOK(t, a, p, net \union t.out)
  BY <1>5, <1>6, <1>7, <1>8, <1>9, <1>10, <1>11 DEF EntryOK
<1>13. /\ e.nominating => \A q \in Paths \ {p} : ~s.remotes[q].nominating
       /\ s.selected = p => e.state = "Succeeded" /\ e.nominated
  BY <1>2, <1>5, <1>9, AgentFacts DEF Good, TransportOK
<1>14. Good(t, a, net) /\ Moves(s, t)
  BY <1>2, <1>3, <1>5, <1>8, <1>9, <1>12, <1>13, AtOne
<1>15. Moves(ice[a], t)
  BY <1>4, <1>5, <1>14, MovesOn
<1>16. Good(r, a, net) /\ Moves(t, r)
  <2>1. CASE e.state = "Succeeded" /\ e.nominated
    BY <1>2, <1>8, <1>14, <2>1, NominatedGood
  <2>2. CASE (e.state = "Succeeded" /\ ~e.nominated) \/ e.state = "InProgress"
    <3>1. r = t
      BY <2>2
    <3> QED
      BY <1>14, <3>1, MovesSelf
  <2>3. CASE e.state # "Succeeded" /\ e.state # "InProgress"
    <3>1. r = again
      BY <2>3
    <3>2. TransportShape(again) /\ again.selected = t.selected /\ again.out = t.out
          /\ \A q \in Paths \ {p} : again.remotes[q] = t.remotes[q]
      BY <1>2, <1>8 DEF TransportShape, EntryFields
    <3>3. /\ again.remotes[p].n = e.n /\ again.remotes[p].state = "Waiting"
          /\ again.remotes[p].priority = e.priority /\ (again.remotes[p].nominating <=> e.nominating)
          /\ (again.remotes[p].nominated <=> e.nominated)
      BY <1>2, <1>8 DEF TransportShape, EntryFields
    <3> HIDE DEF again, r
    <3>4. ~e.nominating /\ t.selected # p
      BY <1>8, <1>12, <1>13, <2>3 DEF EntryOK
    <3>5. t.selected # NoPath => t.selected \in Paths
                                 /\ again.remotes[t.selected].priority = t.remotes[t.selected].priority
      BY <1>14, <3>2, <3>4 DEF Good, TransportOK
    <3>6. EntryOK(again, a, p, net \union again.out)
      BY <1>8, <1>12, <3>2, <3>3, <3>4, <3>5 DEF EntryOK
    <3>7. \A x \in again.out : MessageOK(x)
      BY <1>14, <3>2 DEF Good
    <3>8. Good(again, a, net) /\ Moves(t, again)
      BY <1>2, <1>8, <1>14, <3>2, <3>3, <3>4, <3>6, <3>7, AtOne
    <3> QED
      BY <3>1, <3>8
  <2> QED
    BY <2>1, <2>2, <2>3
<1> HIDE DEF r
<1>17. Moves(ice[a], r)
  BY <1>4, <1>14, <1>15, <1>16, MovesOn
<1> QED
  BY <1>1, <1>16, <1>17, BecomesGood

LEMMA ResponseKeeps ==
  ASSUME IceInv, NEW m \in net, m.kind = "answer", NEW a \in Agents, a = m.to, HandleResponse(a, m)
  PROVE  IceInv' /\ Forward
<1> DEFINE p == m.path
           s == ice[a]
           e == s.remotes[p]
           f == [e EXCEPT !.state = "Succeeded", !.tx_id = 0, !.nominating = FALSE, !.triggered = FALSE]
           t == [s EXCEPT !.remotes[p] = f]
           u == [s EXCEPT !.remotes[p].tx_id = 0]
           outcomes == CASE s.selected = p -> {u}
                         [] s.selected # p /\ a = "controlled" -> {FollowAnswer(t, a, p)}
                         [] s.selected # p /\ a = "controlling" /\ e.nominating ->
                               {IF s.selected = NoPath THEN select(t, a, p) ELSE switch_selected(t, p)}
                         [] OTHER -> IF s.selected = NoPath THEN consider_nomination(t, a, FALSE)
                                                            ELSE consider_renomination(t, a)
<1>1. PICK r \in outcomes : Becomes(a, r)
  BY DEF HandleResponse
<1>2. p \in Paths /\ m.n \in 1 .. Bound(a) /\ m = Answer(PeerOf(a), p, m.n)
  BY DEF IceInv, MessageOK
<1>3. Answered(a, p, net)
  BY <1>2 DEF Answered
<1>4. Good(s, a, net) /\ s.out = {}
  BY DEF IceInv
<1>5. TransportShape(s) /\ TransportOK(s, a, net) /\ EntryOK(s, a, p, net)
  <2>1. net \union s.out = net
    BY <1>4
  <2> QED
    BY <1>2, <1>4, <2>1 DEF Good, TransportOK
<1> HIDE DEF s
<1>6. /\ TransportShape(t) /\ t.selected = s.selected /\ t.out = s.out
      /\ \A q \in Paths \ {p} : t.remotes[q] = s.remotes[q]
      /\ t.remotes[p] = f
  BY <1>2, <1>5 DEF TransportShape, EntryFields
<1>7. /\ f.n = e.n /\ f.state = "Succeeded" /\ f.priority = e.priority
      /\ ~f.triggered /\ ~f.nominating /\ (f.nominated <=> e.nominated)
  BY <1>2, <1>5 DEF TransportShape, EntryFields
<1>8. /\ TransportShape(u) /\ u.selected = s.selected /\ u.out = s.out
      /\ \A q \in Paths \ {p} : u.remotes[q] = s.remotes[q]
      /\ u.remotes[p].n = e.n /\ u.remotes[p].state = e.state /\ u.remotes[p].priority = e.priority
      /\ (u.remotes[p].triggered <=> e.triggered) /\ (u.remotes[p].nominating <=> e.nominating)
      /\ (u.remotes[p].nominated <=> e.nominated)
  BY <1>2, <1>5 DEF TransportShape, EntryFields
<1> HIDE DEF f, t, u, p
<1>9. \A x \in s.out : MessageOK(x)
  BY <1>4
<1>10. s.selected # NoPath => s.selected \in Paths
  BY <1>5 DEF TransportOK
<1>11. Good(t, a, net) /\ Moves(s, t)
  <2>1. s.selected # NoPath => t.remotes[t.selected].priority = s.remotes[s.selected].priority
    BY <1>6, <1>7, <1>10
  <2>2. EntryOK(t, a, p, net \union t.out)
    <3>1. net \union t.out = net
      BY <1>4, <1>6
    <3>2. EntryOK(t, a, p, net)
      BY <1>3, <1>5, <1>6, <1>7, <2>1 DEF EntryOK
    <3> QED
      BY <3>1, <3>2
  <2>3. s.selected = p => f.nominated
    BY <1>2, <1>5, <1>7, AgentFacts DEF TransportOK
  <2> QED
    BY <1>2, <1>4, <1>6, <1>7, <1>9, <2>2, <2>3, AtOne
<1>12. CASE s.selected = p
  <2>1. r = u
    BY <1>1, <1>12
  <2>2. e.state = "Succeeded" /\ e.nominated /\ ~e.nominating
    BY <1>2, <1>5, <1>12, AgentFacts DEF TransportOK, EntryOK
  <2>3. EntryOK(u, a, p, net \union u.out)
    <3>1. net \union u.out = net
      BY <1>4, <1>8
    <3>2. EntryOK(u, a, p, net)
      BY <1>5, <1>8, <1>12, <2>2 DEF EntryOK
    <3> QED
      BY <3>1, <3>2
  <2>4. Good(u, a, net) /\ Moves(s, u)
    BY <1>2, <1>4, <1>8, <1>9, <2>2, <2>3, AtOne
  <2> QED
    BY <1>1, <2>1, <2>4, BecomesGood DEF s
<1>13. CASE s.selected # p
  <2>1. Good(r, a, net) /\ Moves(t, r)
    <3>1. CASE a = "controlled"
      <4>1. r = FollowAnswer(t, a, p)
        BY <1>1, <1>13, <3>1
      <4> QED
        BY <1>2, <1>6, <1>7, <1>11, <4>1, NominatedGood, MovesSelf DEF FollowAnswer
    <3>2. CASE a = "controlling" /\ e.nominating
      <4>1. r = IF s.selected = NoPath THEN select(t, a, p) ELSE switch_selected(t, p)
        BY <1>1, <1>13, <3>2
      <4>2. UseSent(p, net \union t.out)
        BY <1>5, <3>2 DEF EntryOK, UseSent
      <4>3. \A q \in Paths : ~t.remotes[q].nominating
        BY <1>2, <1>5, <1>6, <1>7, <3>2 DEF TransportOK
      <4>4. s.selected # NoPath => t.remotes[p].priority > t.remotes[t.selected].priority
        BY <1>5, <1>6, <1>7, <1>10, <1>13, <3>2 DEF EntryOK
      <4>5. CASE s.selected = NoPath
        BY <1>2, <1>6, <1>7, <1>11, <4>1, <4>2, <4>3, <4>5, SelectGood
      <4>6. CASE s.selected # NoPath
        BY <1>2, <1>6, <1>7, <1>11, <4>1, <4>2, <4>3, <4>4, <4>6, SwitchGood
      <4> QED
        BY <4>5, <4>6
    <3>3. CASE a = "controlling" /\ ~e.nominating
      <4>1. r \in IF s.selected = NoPath THEN consider_nomination(t, a, FALSE)
                                         ELSE consider_renomination(t, a)
        BY <1>1, <1>13, <3>3
      <4> QED
        BY <1>11, <4>1, NominationGood, RenominationGood
    <3> QED
      BY <3>1, <3>2, <3>3 DEF Agents
  <2>2. Moves(s, r)
    BY <1>4, <1>11, <2>1, MovesOn
  <2> QED
    BY <1>1, <2>1, <2>2, BecomesGood DEF s
<1> QED
  BY <1>12, <1>13

LEMMA FlightKeeps ==
  ASSUME IceInv, NEW m \in net, NEW a \in Agents, a = m.to, handle_dtls(a, m)
  PROVE  IceInv' /\ Forward
<1> DEFINE p == m.path
           s == start_dtls(ice[a], a, p)
           reply == [s EXCEPT !.out = @ \cup {Flight(a, p, m.n + 1)}]
           r == Handshake(s, a, p, m.n)
<1>1. Becomes(a, r) /\ p \in Paths /\ MessageOK(Flight(a, p, m.n + 1))
  BY MessageFacts DEF handle_dtls, IceInv, MessageOK
<1>2. Good(s, a, net) /\ Moves(ice[a], s)
  BY <1>1, StartDtlsGood DEF IceInv
<1>3. Good(ice[a], a, net)
  BY DEF IceInv
<1> HIDE DEF s
<1>4. \/ r = s \/ r = finish_dtls(s) \/ r = finish_dtls(reply) \/ r = [reply EXCEPT !.dtls = "keys"]
  BY DEF Handshake
<1>5. /\ TransportShape(r) /\ r.remotes = s.remotes /\ r.selected = s.selected
      /\ r.out = s.out \/ r.out = s.out \union {Flight(a, p, m.n + 1)}
  BY <1>2, <1>4 DEF Good, TransportShape, finish_dtls
<1>6. Good(r, a, net) /\ Moves(s, r)
  <2> HIDE DEF r, p
  <2> QED
    BY <1>1, <1>2, <1>5, Besides DEF Good
<1> HIDE DEF r
<1>7. Moves(ice[a], r)
  BY <1>2, <1>3, <1>6, MovesOn
<1> QED
  BY <1>1, <1>6, <1>7, BecomesGood

LEMMA TickKeeps ==
  ASSUME IceInv, NEW a \in Agents, NEW lost \in SUBSET In(ice[a], "InProgress"), NEW time, tick(a, lost, time)
  PROVE  IceInv' /\ Forward
<1> DEFINE s == [ice[a] EXCEPT !.recent = @ /\ time # "window"]
<1>1. PICK t \in IceTick(s, a, lost, time) : Becomes(a, DtlsTick(t, time))
  BY DEF tick
<1>2. Good(ice[a], a, net)
  BY DEF IceInv
<1>3. TransportShape(s) /\ s.remotes = ice[a].remotes /\ s.selected = ice[a].selected /\ s.out = ice[a].out
  BY <1>2 DEF Good, TransportShape
<1> HIDE DEF s
<1>4. Good(s, a, net) /\ Moves(ice[a], s)
  BY <1>2, <1>3, Besides DEF Good
<1>5. lost \in SUBSET In(s, "InProgress")
  BY <1>3 DEF In
<1>6. Good(t, a, net) /\ Moves(s, t)
  BY <1>1, <1>4, <1>5, IceTickGood
<1>7. Good(DtlsTick(t, time), a, net) /\ Moves(t, DtlsTick(t, time))
  BY <1>6, DtlsTickGood
<1>8. Moves(s, DtlsTick(t, time))
  BY <1>4, <1>6, <1>7, MovesOn
<1>9. Moves(ice[a], DtlsTick(t, time))
  BY <1>2, <1>4, <1>7, <1>8, MovesOn
<1> QED
  BY <1>1, <1>7, <1>9, BecomesGood

LEMMA NewGood ==
  ASSUME NEW a \in Agents, NEW N
  PROVE  /\ Good(NewTransport, a, N) /\ NewTransport.out = {}
         /\ Good([NewTransport EXCEPT !.state = "Closed"], a, N)
<1>1. /\ NewTransport.remotes = [p \in Paths |-> NoEntry] /\ NewTransport.selected = NoPath
      /\ NewTransport.out = {} /\ TransportShape(NewTransport)
  BY DEF NewTransport, TransportShape, NoEntry, RemoteEntry, EntryFields
<1>2. /\ NoEntry.n = 0 /\ NoEntry.priority \in Nat /\ NoEntry.state = "absent"
      /\ ~NoEntry.triggered /\ ~NoEntry.nominating /\ ~NoEntry.nominated
  BY PreferenceType DEF NoEntry, RemoteEntry
<1>3. \A p \in Paths : EntryOK(NewTransport, a, p, N \union NewTransport.out)
  BY <1>1, <1>2 DEF EntryOK
<1>4. Good(NewTransport, a, N)
  BY <1>1, <1>2, <1>3 DEF Good, TransportOK
<1> DEFINE r == [NewTransport EXCEPT !.state = "Closed"]
<1>5. TransportShape(r) /\ r.remotes = NewTransport.remotes /\ r.selected = NewTransport.selected
      /\ r.out = NewTransport.out
  BY <1>1 DEF TransportShape
<1> HIDE DEF r
<1>6. Good(r, a, N)
  BY <1>4, <1>5, Besides DEF Good
<1> QED
  BY <1>1, <1>4, <1>6 DEF r

LEMMA IceStep ==
  ASSUME IceInv, [IceNext]_iceVars
  PROVE  IceInv' /\ (Forward \/ UNCHANGED iceVars)
<1>1. CASE UNCHANGED iceVars
  BY <1>1 DEF iceVars, IceInv
<1>2. ASSUME NEW a \in Agents, set_remote(a) PROVE IceInv' /\ Forward
  BY <1>2, SetRemoteKeeps
<1>3. ASSUME NEW a \in Agents, NEW p \in Trickled, add_remote_candidate(a, p) PROVE IceInv' /\ Forward
  BY <1>3, AddCandidateKeeps, IceAssumption
<1>4. ASSUME NEW a \in Agents, NEW lost \in SUBSET In(ice[a], "InProgress"), NEW time \in Times,
             tick(a, lost, time)
      PROVE  IceInv' /\ Forward
  BY <1>4, TickKeeps
<1>5. ASSUME NEW a \in Agents, close(a) PROVE IceInv' /\ Forward
  <2> DEFINE r == [NewTransport EXCEPT !.state = "Closed"]
  <2>1. Good(r, a, net) /\ Becomes(a, r)
    BY <1>5, NewGood DEF close
  <2>2. r.state = "Closed"
    BY DEF NewTransport
  <2> HIDE DEF r
  <2> QED
    BY <2>1, <2>2, BecomesGood
<1>6. ASSUME NEW m \in net, handle_packet(m) PROVE IceInv' /\ Forward
  <2>1. m.to \in Agents /\ m.kind \in {"check", "answer", "dtls"}
    BY DEF IceInv, MessageOK
  <2>2. PICK a \in Agents : a = m.to
    BY <2>1
  <2>3. CASE m.kind = "check"
    BY <1>6, <2>2, <2>3, RequestKeeps DEF handle_packet
  <2>4. CASE m.kind = "answer"
    BY <1>6, <2>2, <2>4, ResponseKeeps DEF handle_packet
  <2>5. CASE m.kind = "dtls"
    BY <1>6, <2>2, <2>5, FlightKeeps DEF handle_packet
  <2> QED
    BY <2>1, <2>3, <2>4, <2>5
<1> QED
  BY <1>1, <1>2, <1>3, <1>4, <1>5, <1>6 DEF IceNext

LEMMA IceStart == IceInit => IceInv
<1> SUFFICES ASSUME IceInit PROVE IceInv
  OBVIOUS
<1>1. \A a \in Agents : ice[a] = NewTransport
  BY DEF IceInit
<1> QED
  BY <1>1, NewGood DEF IceInit, IceInv

(* "a pair it has itself verified" (follow_renomination): a transport sends
   only over a pair that has carried a check of its own and the answer, and
   that the controlling side nominated. *)
THEOREM SelectedIsVerified == IceSpec => []SelectedVerified
<1>1. IceInv => SelectedVerified
  <2> SUFFICES ASSUME IceInv, NEW a \in Agents, ice[a].selected # NoPath
               PROVE  /\ Answered(a, ice[a].selected, net)
                      /\ ice[a].remotes[ice[a].selected].state = "Succeeded"
                      /\ UseSent(ice[a].selected, net)
    BY DEF SelectedVerified, Answered, UseSent
  <2>1. net \union ice[a].out = net
    BY DEF IceInv
  <2>2. TransportOK(ice[a], a, net)
    BY <2>1 DEF IceInv, Good
  <2> QED
    BY <2>2 DEF TransportOK, EntryOK
<1>2. IceInv /\ [IceNext]_iceVars => IceInv'
  BY IceStep
<1> QED
  BY <1>1, <1>2, IceStart, PTL DEF IceSpec

(* "a late retransmission of an older nomination never drags the session
   back" (follow_renomination): no request, answer or tick makes an open
   transport leave its pair but for one of a higher priority, whatever the
   network delays, repeats or loses. *)
THEOREM SelectionNeverBack == IceSpec => NeverDraggedBack
<1>1. IceInv /\ [IceNext]_iceVars => IceInv' /\ [Forward]_iceVars
  BY IceStep
<1> QED
  BY <1>1, IceStart, PTL DEF IceSpec, NeverDraggedBack, Forward
=============================================================================
