---------------------------- MODULE DtmfDigits ------------------------------
(***************************************************************************)
(* The digits the legs of a session send: telephone-event packets and      *)
(* tones in the audio, found by the session's two detectors, freed of      *)
(* duplicates and published (crates/forge-dtmf/src/rfc2833.rs, inband.rs,  *)
(* dedup.rs; crates/forge-engine/src/forwarding.rs).                       *)
(*                                                                         *)
(* Both legs' packets go through the same two detectors and the same       *)
(* deduplicator.  Continue events concern neither the subscribers of       *)
(* digits nor the other events, and are left out.  Of an audio frame the   *)
(* detector's filters report the digit whose tone it holds, or none.       *)
(***************************************************************************)
EXTENDS Naturals, FiniteSets

CONSTANTS Legs, Digits,
          Presses,    \* bound: the keys pressed, in any order
          NoDigit,
          MinFrames,  \* frames of a tone before it counts, 5 in the code
          DedupWindow \* 100 ms, in ticks

ASSUME DtmfAssumption == /\ NoDigit \notin Digits \cup Legs
                         /\ MinFrames \in Nat \ {0} /\ DedupWindow \in Nat \ {0}

Copies == 3   \* times a sender repeats the end of an event

VARIABLES presses,     \* per press: who pressed what, and what became of it
          last_event,  \* Rfc2833Detector.last_event, its digit
          tone,        \* the GoertzelDetector
          recent,      \* DtmfDeduplicator.recent_events that are in the window
          published    \* the LegDigits that subscribers got

dtmfVars == <<presses, last_event, tone, recent, published>>

\* ends: copies of the end that arrived; since: ticks since the first of them;
\* pubs: how often telephone-event packets had its end published.
NoPress == [leg |-> NoDigit, digit |-> NoDigit, how |-> "event", phase |-> "no",
            ends |-> 0, since |-> 0, pubs |-> 0]
NoTone == [digit |-> NoDigit, frames |-> 0, start_emitted |-> FALSE]
Forgotten == [method |-> "none", age |-> DedupWindow]

Kinds == Digits \X {"Start", "End"}

DtmfInit ==
    /\ presses = [e \in Presses |-> NoPress]
    /\ last_event = NoDigit
    /\ tone = NoTone
    /\ recent = [k \in Kinds |-> Forgotten]
    /\ published = {}

-----------------------------------------------------------------------------
(* Deduplication: an event, or none, of a detector.                        *)

priority == [Rfc2833 |-> 3, Inband |-> 2, none |-> 0]

\* Whether the event is new, or found by a better method than the one before.
should_publish(k, method) == priority[method] > priority[recent[k].method]

\* The better method takes the entry's time and leaves its method.
Tracked_as_before(k, method) ==
    [recent EXCEPT ![k] = [method |-> IF @.method = "none" THEN method ELSE @.method, age |-> 0]]

\* The entry that is added or replaced.
Tracked(k, method) == [recent EXCEPT ![k] = [method |-> method, age |-> 0]]

Emits(k, method, leg) ==
    IF should_publish(k, method)
      THEN /\ recent' = Tracked(k, method)
           /\ published' = IF k[2] = "End" THEN published \cup {<<leg, k[1], method>>} ELSE published
      ELSE UNCHANGED <<recent, published>>

EmitsNothing == UNCHANGED <<recent, published>>

-----------------------------------------------------------------------------
(* Telephone-event packets of press e: with duration 0, later ones, or the *)
(* end, as they come in.                                                   *)

InProgress(e) == presses[e].phase # "no" /\ presses[e].how = "event"

\* process_with_timestamp for a packet that does not end the event.
event_packet(e, duration) ==
    LET d == presses[e].digit
    IN  /\ InProgress(e)
        /\ IF last_event # d /\ duration = 0 THEN Emits(<<d, "Start">>, "Rfc2833", presses[e].leg)
                                             ELSE EmitsNothing
        /\ last_event' = d
        /\ UNCHANGED <<presses, tone>>

\* Whether one of the copies of the end may come, which is within the window.
EndArrives(e) == /\ InProgress(e) /\ presses[e].phase = "released"
                 /\ presses[e].ends < Copies /\ presses[e].since < DedupWindow

\* The end of a digit that is not the last one, with duration 0, is a start.
TakenForStart(e, duration) == last_event # presses[e].digit /\ duration = 0

end_packet(e) ==
    LET k == <<presses[e].digit, "End">>
    IN  /\ EndArrives(e)
        /\ Emits(k, "Rfc2833", presses[e].leg)
        /\ last_event' = NoDigit
        /\ presses' = [presses EXCEPT ![e].ends = @ + 1,
                                      ![e].pubs = IF should_publish(k, "Rfc2833") THEN @ + 1 ELSE @]
        /\ UNCHANGED tone

end_as_start(e) ==
    /\ EndArrives(e)
    /\ Emits(<<presses[e].digit, "Start">>, "Rfc2833", presses[e].leg)
    /\ presses' = [presses EXCEPT ![e].ends = @ + 1]
    /\ UNCHANGED <<last_event, tone>>

-----------------------------------------------------------------------------
(* An audio frame of a leg.                                                *)

\* The tone in the frame of a leg.
Heard(leg) ==
    LET es == {e \in Presses : presses[e].leg = leg /\ presses[e].phase = "held" /\ presses[e].how = "tone"}
    IN  IF es = {} THEN NoDigit ELSE presses[CHOOSE e \in es : TRUE].digit

\* A digit not heard in the frame before: what was heard ends, if it had
\* started, unless the new one starts at once.
NewTone(leg, d) ==
    /\ tone' = [digit |-> d, frames |-> 1, start_emitted |-> MinFrames <= 1]
    /\ IF MinFrames <= 1 THEN Emits(<<d, "Start">>, "Inband", leg)
       ELSE IF tone.start_emitted THEN Emits(<<tone.digit, "End">>, "Inband", leg)
       ELSE EmitsNothing

\* The same digit again; frames are counted up to the number that matters.
SameTone(leg, d) ==
    LET frames == IF tone.frames < MinFrames THEN tone.frames + 1 ELSE MinFrames
        starts == ~tone.start_emitted /\ frames >= MinFrames
    IN  /\ tone' = [tone EXCEPT !.frames = frames, !.start_emitted = @ \/ starts]
        /\ IF starts THEN Emits(<<d, "Start">>, "Inband", leg) ELSE EmitsNothing

handle_detected_digit(leg, d) == IF tone.digit = d THEN SameTone(leg, d) ELSE NewTone(leg, d)

handle_no_detection(leg) ==
    /\ tone' = NoTone
    /\ IF tone.digit # NoDigit /\ tone.start_emitted /\ tone.frames >= MinFrames
         THEN Emits(<<tone.digit, "End">>, "Inband", leg) ELSE EmitsNothing

audio_frame(leg) ==
    /\ IF Heard(leg) = NoDigit THEN handle_no_detection(leg) ELSE handle_detected_digit(leg, Heard(leg))
    /\ UNCHANGED <<presses, last_event>>

-----------------------------------------------------------------------------
(* The callers' keys, and time.                                            *)

Press(e, leg, d, how) ==
    /\ presses[e].phase = "no"
    /\ \A f \in Presses : presses[f].leg = leg => presses[f].phase # "held"
    /\ presses' = [presses EXCEPT ![e] = [NoPress EXCEPT !.leg = leg, !.digit = d, !.how = how,
                                                         !.phase = "held"]]
    /\ UNCHANGED <<last_event, tone, recent, published>>

Release(e) ==
    /\ presses[e].phase = "held"
    /\ presses' = [presses EXCEPT ![e].phase = "released"]
    /\ UNCHANGED <<last_event, tone, recent, published>>

DtmfTick ==
    /\ recent' = [k \in Kinds |-> IF recent[k].age + 1 >= DedupWindow THEN Forgotten
                                  ELSE [recent[k] EXCEPT !.age = @ + 1]]
    /\ presses' = [e \in Presses |-> IF presses[e].ends = 0 \/ presses[e].since = DedupWindow
                                       THEN presses[e] ELSE [presses[e] EXCEPT !.since = @ + 1]]
    /\ UNCHANGED <<last_event, tone, published>>

DtmfNext ==
    \/ \E e \in Presses : \/ \E leg \in Legs, d \in Digits, how \in {"event", "tone"} : Press(e, leg, d, how)
                          \/ Release(e)
                          \/ \E duration \in {0, 1} :
                                \/ event_packet(e, duration)
                                \/ TakenForStart(e, duration) /\ end_as_start(e)
                                \/ ~TakenForStart(e, duration) /\ end_packet(e)
    \/ \E leg \in Legs : audio_frame(leg)
    \/ DtmfTick

DtmfSpec == DtmfInit /\ [][DtmfNext]_dtmfVars

-----------------------------------------------------------------------------
\* The three copies of an event's end publish the digit once at most, also
\* when the same digit was found in the audio before or between them and when
\* other presses of it come close (dedup.rs:92, forwarding.rs:407).
DigitOnce == \A e \in Presses : presses[e].pubs <= 1

\* A digit is published as the digit of the leg that pressed it (the test at
\* forwarding.rs:2659: "A digit leg A sends is published once, as leg A's").
DigitOfItsLeg ==
    \A x \in published : \E e \in Presses : presses[e].leg = x[1] /\ presses[e].digit = x[2]
=============================================================================
