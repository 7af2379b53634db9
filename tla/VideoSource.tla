---------------------------- MODULE VideoSource ----------------------------
(***************************************************************************)
(* A participant's video on its way in: the frame assembler                *)
(* (crates/forge-rtp/src/video/assembler.rs), the source that decides      *)
(* which frames are decoded and when to ask for a keyframe                 *)
(* (crates/forge-conference/src/video/source.rs), and the codec pool's     *)
(* threads (video/pool.rs).                                                *)
(*                                                                         *)
(* A frame is PerFrame packets with one timestamp, its number.  A packet   *)
(* is its place in the stream, of which the assembler sees the sequence    *)
(* number.  The network loses, repeats and reorders; a NACK only makes a   *)
(* packet come again, so what nack_list remembers is left out, and so is   *)
(* needs_keyframe, which nothing reads.                                    *)
(***************************************************************************)
EXTENDS Integers, Sequences, FiniteSets, FiniteSetsExt

CONSTANTS PerFrame,
          StartsAt,     \* the packets of a frame that look like a frame's start
          FrameKinds,        \* of frames, see below
          MaxFrames,    \* bound: the frames of the stream
          SeqRange,     \* sequence numbers, 2^16 in the code
          FirstSeq,     \* of the stream's first packet
          MaxReorder,   \* max_reorder, 16 in the code
          MaxFps, MaxDecodeQueue, MaxDecoderErrors,
          Threads,      \* of the codec pool
          NoFrame

\* No packet is half the sequence numbers away from the next one expected.
ASSUME SourceAssumption ==
    /\ {PerFrame, MaxFrames, SeqRange, FirstSeq, MaxReorder} \subseteq Nat
    /\ {MaxFps, MaxDecodeQueue, MaxDecoderErrors} \subseteq Nat
    /\ MaxReorder > 0 /\ PerFrame > 0 /\ 1 \in StartsAt /\ StartsAt \subseteq 1 .. PerFrame
    /\ SeqRange > 2 * PerFrame * MaxFrames
    /\ FrameKinds \subseteq {"key", "delta", "unmarked", "bad", "huge"}

VARIABLES frames,    \* the kind of each frame of the stream
          asm,       \* FrameAssembler
          source,    \* VideoSource, with the frames of the push under way
          jobs,      \* the pool's queue: frames to decode
          hands,     \* the job each thread has taken
          decoder,   \* DecoderState, and shown, the frame decoded last
          keyDue     \* a keyframe was needed and no PLI has gone out since

sourceVars == <<frames, asm, source, jobs, hands, decoder, keyDue>>

NoSeqYet == -1
NoPackets == [e \in {} |-> 0]

SourceInit ==
    /\ frames \in [1 .. MaxFrames -> FrameKinds]
    /\ asm = [next |-> NoSeqYet, pending |-> NoPackets, current |-> <<>>, skipping |-> TRUE,
              events |-> <<>>]
    /\ source = [at |-> "idle", valid |-> FALSE, pli_pending |-> TRUE, gate |-> TRUE, accepted |-> 0,
                 failed |-> FALSE, to_decode |-> <<>>, want_keyframe |-> FALSE]
    /\ jobs = <<>>
    /\ hands = [t \in Threads |-> NoFrame]
    /\ decoder = [errors |-> 0, shown |-> 0]
    /\ keyDue = TRUE

-----------------------------------------------------------------------------
\* Packets.
FrameOf(n) == 1 + ((n - 1) \div PerFrame)
PlaceIn(n) == 1 + ((n - 1) % PerFrame)
PacketsOf(f) == [i \in 1 .. PerFrame |-> (f - 1) * PerFrame + i]

frame_start(n) == PlaceIn(n) \in StartsAt
keyframe(n) == frame_start(n) /\ frames[FrameOf(n)] = "key"
marker(n) == PlaceIn(n) = PerFrame /\ frames[FrameOf(n)] # "unmarked"

Event(kind, packets) ==
    [kind |-> kind, key |-> \E i \in DOMAIN packets : keyframe(packets[i]), packets |-> packets]

-----------------------------------------------------------------------------
\* The assembler.
extend(s, expected) ==
    LET delta == (s - expected) % SeqRange
    IN  Max({0, expected + IF 2 * delta < SeqRange THEN delta ELSE delta - SeqRange})

give_up(a) == [a EXCEPT !.current = <<>>, !.skipping = TRUE]

finish(a) ==
    IF a.current = <<>> THEN a
    ELSE [a EXCEPT !.current = <<>>,
                   !.events = Append(@, IF frames[FrameOf(a.current[1])] = "bad"
                                          THEN Event("invalid", <<>>)
                                          ELSE Event("frame", a.current))]

\* Mutant: a new timestamp does not end the frame in progress.
consume_by_marker(a, n) ==
    LET c == [a EXCEPT !.current = Append(@, n), !.skipping = FALSE]
    IN  IF (a.skipping \/ a.current = <<>>) /\ ~frame_start(n) THEN a
        ELSE IF marker(n) THEN finish(c) ELSE c

\* The next packet in order.
consume(a, n) ==
    LET b == IF a.current # <<>> /\ FrameOf(a.current[1]) # FrameOf(n) THEN finish(a) ELSE a
        c == [b EXCEPT !.current = Append(@, n), !.skipping = FALSE]
        headless == b.skipping \/ b.current = <<>>
    IN  IF headless /\ ~frame_start(n) THEN [b EXCEPT !.skipping = TRUE]
        ELSE IF frames[FrameOf(n)] = "huge" /\ PlaceIn(n) = PerFrame
          THEN [give_up(c) EXCEPT !.events = Append(@, Event("invalid", <<>>))]
        ELSE IF marker(n) THEN finish(c)
        ELSE c

\* The first number not held from the next one on.
FirstGap(a) ==
    Min({e \in a.next .. a.next + Cardinality(DOMAIN a.pending) : e \notin DOMAIN a.pending})

\* Consume what is contiguous.
drain(a) ==
    LET upto == FirstGap(a)
        taken == [a EXCEPT !.next = upto,
                           !.pending = [e \in DOMAIN a.pending \ (a.next .. upto) |-> a.pending[e]]]
        after[i \in 0 .. upto - a.next] ==
            IF i = 0 THEN taken ELSE consume(after[i - 1], a.pending[a.next + i - 1])
    IN  after[upto - a.next]

\* The assembler after packet n, with what came of it in events.
assembled(n) ==
    LET seq == (FirstSeq + n - 1) % SeqRange
        expected == IF asm.next = NoSeqYet THEN SeqRange + seq ELSE asm.next
        e == extend(seq, expected)
        added == [x \in DOMAIN asm.pending \cup {e} |-> IF x = e THEN n ELSE asm.pending[x]]
        a == [asm EXCEPT !.next = expected, !.pending = added]
        overdue == e - expected > MaxReorder \/ Cardinality(DOMAIN added) > MaxReorder
    IN  CASE e < expected -> [asm EXCEPT !.next = expected]
          [] e = expected -> drain(a)
          [] e > expected /\ ~overdue -> a
          [] OTHER -> drain([give_up(a) EXCEPT !.next = Min(DOMAIN added),
                                               !.events = <<Event("lost", <<>>)>>])

-----------------------------------------------------------------------------
\* The source.
heeded(s, ev) ==
    IF ev.kind = "frame"
      THEN LET valid == s.valid \/ ev.key
           IN  [s EXCEPT !.valid = valid,
                         !.to_decode = IF valid THEN Append(@, ev) ELSE @,
                         !.want_keyframe = @ \/ ~valid]
      ELSE [s EXCEPT !.valid = FALSE, !.want_keyframe = TRUE]

\* The source after the events, in their order.
Heeded(events) ==
    LET after[i \in 0 .. Len(events)] ==
            IF i = 0 THEN source ELSE heeded(after[i - 1], events[i])
    IN  after[Len(events)]

\* Packet n arrives.
push_packet(n) ==
    LET a == assembled(n)
        s == Heeded(a.events)
    IN  /\ source.at = "idle" /\ ~source.failed
        /\ asm' = [a EXCEPT !.events = <<>>]
        /\ source' = [source EXCEPT !.at = "pushing", !.valid = s.valid, !.to_decode = s.to_decode,
                                    !.want_keyframe = s.want_keyframe]
        /\ keyDue' = (keyDue \/ s.want_keyframe)
        /\ UNCHANGED <<frames, jobs, hands, decoder>>

Queued == Len(jobs) + Cardinality({t \in Threads : hands[t] # NoFrame})

\* The frame-rate limit, the queue's, and spawn_decode.
offer_frame ==
    LET admitted == source.accepted < MaxFps
        full == admitted /\ Queued >= MaxDecodeQueue
    IN  /\ source.at = "pushing" /\ source.to_decode # <<>>
        /\ source' = [source EXCEPT !.to_decode = Tail(@),
                                    !.accepted = IF admitted THEN @ + 1 ELSE @,
                                    !.valid = @ /\ ~full,
                                    !.want_keyframe = @ \/ full]
        /\ jobs' = IF admitted /\ ~full THEN Append(jobs, Head(source.to_decode)) ELSE jobs
        /\ keyDue' = (keyDue \/ full)
        /\ UNCHANGED <<frames, asm, hands, decoder>>

\* Mutant: a request the gate refuses is forgotten.
pending_forgotten(wants, flag, allowed) == wants /\ flag

\* What is left of the request: `want_keyframe || swap(false)` leaves the flag
\* alone when the push itself wants one, and a gated request is kept.
pending_after(wants, flag, allowed) == IF allowed THEN wants /\ flag ELSE wants \/ flag

\* The end of push: a PLI, if one is wanted and the gate lets it through.
send_feedback ==
    LET sends == (source.want_keyframe \/ source.pli_pending) /\ source.gate
    IN  /\ source.at = "pushing" /\ source.to_decode = <<>>
        /\ source' = [source EXCEPT !.at = "idle", !.want_keyframe = FALSE,
                        !.pli_pending = pending_after(source.want_keyframe, @, source.gate),
                        !.gate = @ /\ ~sends]
        /\ keyDue' = (keyDue /\ ~sends)
        /\ UNCHANGED <<frames, asm, jobs, hands, decoder>>

request_from_sender ==
    /\ ~source.pli_pending
    /\ source' = [source EXCEPT !.pli_pending = TRUE]
    /\ keyDue' = TRUE
    /\ UNCHANGED <<frames, asm, jobs, hands, decoder>>

-----------------------------------------------------------------------------
\* The pool's threads: recv under the queue's lock, then the job, which waits
\* for the decoder's lock.
take_job(t) ==
    /\ jobs # <<>> /\ hands[t] = NoFrame
    /\ hands' = [hands EXCEPT ![t] = Head(jobs)]
    /\ jobs' = Tail(jobs)
    /\ UNCHANGED <<frames, asm, source, decoder, keyDue>>

done(t) == hands' = [hands EXCEPT ![t] = NoFrame] /\ UNCHANGED <<frames, asm, jobs>>

\* A frame, nothing yet, or a frame over the resolution cap.
decode_ok(t) ==
    /\ hands[t] # NoFrame
    /\ \E counts \in BOOLEAN :
          decoder' = IF source.failed THEN decoder
                     ELSE [errors |-> IF counts THEN 0 ELSE decoder.errors,
                           shown |-> FrameOf(hands[t].packets[1])]
    /\ done(t) /\ UNCHANGED <<source, keyDue>>

decode_error(t) ==
    LET errors == decoder.errors + 1
    IN  /\ hands[t] # NoFrame /\ ~source.failed
        /\ decoder' = [errors |-> errors, shown |-> 0]
        /\ source' = [source EXCEPT !.pli_pending = TRUE, !.failed = errors >= MaxDecoderErrors]
        /\ keyDue' = TRUE
        /\ done(t)

-----------------------------------------------------------------------------
\* The network and time.
\* Any packet may arrive at any time, again and again, or never.
Arrive == \E n \in 1 .. PerFrame * MaxFrames : push_packet(n)

\* A second is over, or the least time between two PLIs.
TimePasses ==
    /\ source.at = "idle"
    /\ \/ source.accepted > 0 /\ source' = [source EXCEPT !.accepted = 0]
       \/ ~source.gate /\ source' = [source EXCEPT !.gate = TRUE]
    /\ UNCHANGED <<frames, asm, jobs, hands, decoder, keyDue>>

SourceNext ==
    \/ Arrive \/ offer_frame \/ send_feedback \/ request_from_sender \/ TimePasses
    \/ \E t \in Threads : take_job(t) \/ decode_ok(t) \/ decode_error(t)

SourceSpec == SourceInit /\ [][SourceNext]_sourceVars

-----------------------------------------------------------------------------
Handed == {jobs[i] : i \in DOMAIN jobs} \cup {hands[t] : t \in {u \in Threads : hands[u] # NoFrame}}

\* What reaches the decoder is a whole frame, never what a loss left of one or
\* two run together, whatever is lost, late, repeated or out of order and
\* wherever the sequence numbers wrap (assembler.rs:8 "the frame spanning it is
\* dropped, everything up to the next frame start is dropped with it").
FramesWhole == \A j \in Handed : j.packets = PacketsOf(FrameOf(j.packets[1]))

\* A loss, a bad frame, a full queue or a decoder's error that needs a keyframe
\* is followed by a PLI, or its request is still there for the next packet to
\* carry, however the threads and the gate fall in between (source.rs:370).
KeyframeAsked == source.at = "idle" /\ keyDue /\ ~source.failed => source.pli_pending

\* No frame is decoded against references that were not decoded before it
\* (source.rs:11 "Frames that reach us while the picture is invalid are dropped
\* rather than decoded against missing references").  Until a reset at least.
ReferencesDecoded ==
    [][decoder'.shown # decoder.shown /\ 0 \notin {decoder.shown, decoder'.shown} =>
         \/ frames[decoder'.shown] = "key"
         \/ decoder'.shown = decoder.shown + 1]_sourceVars
=============================================================================
