------------------------------ MODULE Playout ------------------------------
(***************************************************************************)
(* What the engine itself plays into one leg of a call: the leg's queue of *)
(* scheduled audio frames and telephone events                             *)
(* (crates/forge-engine/src/session.rs), and the forwarding loop's pump,   *)
(* which sends what is due (forwarding.rs).  Time is counted in frames of  *)
(* 20 ms and a timestamp in frames.  The loop schedules what the AI and    *)
(* the media bridge hand it; announcements and supervisors schedule from   *)
(* tasks of their own, and between two of a task's locks the loop may run. *)
(***************************************************************************)
EXTENDS Integers, Sequences, SequencesExt

CONSTANTS Playbacks,  \* playback ids
          NoId,       \* no playback id: on a clear, every playback
          Loop, Task, \* who schedules: the forwarding loop and another task
          Gap,        \* TALKSPURT_SILENCE_GAP, in frames
          MaxTime,    \* bound: the time
          MaxRequests \* bound: requests made

ASSUME PlayoutAssumption == /\ Loop # Task /\ NoId \notin Playbacks
                            /\ Gap \in Nat \ {0} /\ MaxTime \in Nat /\ MaxRequests \in Nat

Ids == Playbacks \union {NoId}

None == -1  \* Option::None, of a time or a timestamp
NoRequest == [kind |-> "none"]

VARIABLES now,
          queue,     \* ScheduledPlayoutQueue
          generated, \* the generated stream's next_timestamp
          caller,    \* each caller's place, request and snapshot
          held,      \* the items the pump took and has not sent
          remote,    \* is the leg's remote address known?
          sent,      \* what has gone out, in order
          requests,
          raced      \* did the pump and a caller's two locks overlap?

playoutVars == <<now, queue, generated, caller, held, remote, sent, requests, raced>>

PlayoutInit ==
    /\ now = 0 /\ generated = 0 /\ held = <<>> /\ sent = <<>>
    /\ queue = [items |-> <<>>, next_due_at |-> None, next_rtp_timestamp |-> None,
                audio_stream_end |-> None]
    /\ caller = [c \in {Loop, Task} |-> [at |-> "idle", req |-> NoRequest, fallback |-> None]]
    /\ remote \in BOOLEAN
    /\ requests = 0 /\ raced = FALSE

-----------------------------------------------------------------------------
(* The queue *)

\* Mutant: the cursor goes back to the last frame's own timestamp.
recompute_playout_queue_state_start(q) ==
    IF q.items = <<>>
    THEN [q EXCEPT !.next_due_at = None, !.next_rtp_timestamp = None, !.audio_stream_end = None]
    ELSE LET last == Last(q.items)
         IN [q EXCEPT !.next_due_at = last.due + 1, !.next_rtp_timestamp = last.ts,
                      !.audio_stream_end = last.due + 1]

recompute_playout_queue_state(q) ==
    IF q.items = <<>>
    THEN [q EXCEPT !.next_due_at = None, !.next_rtp_timestamp = None, !.audio_stream_end = None]
    ELSE LET last == Last(q.items)
         IN [q EXCEPT !.next_due_at = last.due + 1, !.next_rtp_timestamp = last.after,
                      !.audio_stream_end = last.due + 1]

\* retain: the items of the other playbacks; without an id, none.
Retained(items, id) ==
    LET kept[n \in 0..Len(items)] ==
            IF n = 0 THEN <<>>
            ELSE IF id # NoId /\ items[n].id # id THEN Append(kept[n - 1], items[n])
            ELSE kept[n - 1]
    IN kept[Len(items)]

clear_scheduled_playout_for_leg(q, id) ==
    recompute_playout_queue_state([q EXCEPT !.items = Retained(@, id)])

\* Mutant: what is scheduled is due at once.
AtOrAfter_now(t, u) == u

AtOrAfter(t, u) == IF t < u THEN u ELSE t

StartsTalkspurt(q, mode) ==
    mode = "Replace" \/ q.audio_stream_end = None \/ now >= q.audio_stream_end + Gap

\* One item a frame, a frame apart.
WithAudio(q, req, fallback) ==
    LET due == AtOrAfter(q.next_due_at, now)
        cursor == IF q.next_rtp_timestamp = None THEN fallback ELSE q.next_rtp_timestamp
        frame(n) == [kind |-> "audio", id |-> req.id, due |-> due + n - 1,
                     marker |-> n = 1 /\ StartsTalkspurt(q, req.mode),
                     ts |-> cursor + n - 1, after |-> cursor + n]
    IN [q EXCEPT !.items = @ \o [n \in 1..req.frames |-> frame(n)],
                 !.next_due_at = due + req.frames,
                 !.next_rtp_timestamp = cursor + req.frames,
                 !.audio_stream_end = due + req.frames]

\* Every packet of an event has its first timestamp; the last one moves the
\* cursor to its end (its retransmissions do so again, and are left out).
WithEvent(q, req, fallback) ==
    LET due == AtOrAfter(q.next_due_at, now)
        base == IF q.next_rtp_timestamp = None THEN fallback ELSE q.next_rtp_timestamp
        event(n) == [kind |-> "event", id |-> req.id, due |-> due + n - 1, marker |-> n = 1,
                     ts |-> base, after |-> IF n = req.frames THEN base + n ELSE base]
    IN [q EXCEPT !.items = @ \o [n \in 1..req.frames |-> event(n)],
                 !.next_due_at = due + req.frames,
                 !.next_rtp_timestamp = base + req.frames]

-----------------------------------------------------------------------------
(* Scheduling: schedule_audio_playout and schedule_dtmf_playout *)

\* The loop runs its callers and the pump in turn.
MayRun(c) == c = Loop => held = <<>>
Free(c) == caller[c].at = "idle" /\ requests < MaxRequests /\ MayRun(c)

\* A replacement first clears its playback, under a lock of its own.
Ask(c, kind, id, mode, frames) ==
    /\ Free(c)
    /\ queue' = IF mode = "Replace" THEN clear_scheduled_playout_for_leg(queue, id) ELSE queue
    /\ caller' = [caller EXCEPT ![c].at = "snapshot",
                      ![c].req = [kind |-> kind, id |-> id, mode |-> mode, frames |-> frames]]
    /\ requests' = requests + 1
    /\ UNCHANGED <<now, generated, held, remote, sent, raced>>

schedule_audio_playout(c) ==
    \E id \in Ids, mode \in {"Append", "Replace"}, n \in 1..2 : Ask(c, "audio", id, mode, n)

schedule_dtmf_playout(c) ==
    \E id \in Ids, mode \in {"Append", "Replace"} : Ask(c, "event", id, mode, 2)

\* "Snapshot the RTP cursor before taking the queue lock".
Snapshot(c) ==
    /\ caller[c].at = "snapshot"
    /\ caller' = [caller EXCEPT ![c].at = "insert", ![c].fallback = generated]
    /\ raced' = (raced \/ held # <<>>)
    /\ UNCHANGED <<now, queue, generated, held, remote, sent, requests>>

Enqueue(c) ==
    /\ caller[c].at = "insert"
    /\ LET r == caller[c].req
       IN queue' = IF r.kind = "audio" THEN WithAudio(queue, r, caller[c].fallback)
                                       ELSE WithEvent(queue, r, caller[c].fallback)
    /\ caller' = [caller EXCEPT ![c] = [at |-> "idle", req |-> NoRequest, fallback |-> None]]
    /\ UNCHANGED <<now, generated, held, remote, sent, requests, raced>>

\* A flush or stop of the media bridge, an announcement that is stopped, or a
\* change of the leg's codec.
clear_scheduled_playout(c) ==
    /\ Free(c)
    /\ \E id \in Ids : queue' = clear_scheduled_playout_for_leg(queue, id)
    /\ requests' = requests + 1
    /\ UNCHANGED <<now, generated, caller, held, remote, sent, raced>>

-----------------------------------------------------------------------------
(* The pump *)

\* How many items at the front are due.
DueItems ==
    CHOOSE k \in 1..Len(queue.items) :
        /\ \A i \in 1..k : queue.items[i].due <= now
        /\ k < Len(queue.items) => queue.items[k + 1].due > now

\* The pump takes them; an emptied queue forgets its cursor.
take_due_playout_items ==
    /\ held = <<>> /\ caller[Loop].at = "idle"
    /\ queue.items # <<>> /\ Head(queue.items).due <= now
    /\ LET left == SubSeq(queue.items, DueItems + 1, Len(queue.items))
       IN /\ held' = SubSeq(queue.items, 1, DueItems)
          /\ queue' = IF left = <<>> THEN [queue EXCEPT !.items = left, !.next_due_at = None,
                                                        !.next_rtp_timestamp = None]
                                     ELSE [queue EXCEPT !.items = left]
    /\ raced' = (raced \/ caller[Task].at = "insert")
    /\ UNCHANGED <<now, generated, caller, remote, sent, requests>>

\* An item is passed over while the leg's address is not known.
send_scheduled_playout_item ==
    /\ held # <<>>
    /\ held' = Tail(held)
    /\ IF remote
       THEN /\ generated' = Head(held).after
            /\ sent' = Append(sent, [kind |-> Head(held).kind, ts |-> Head(held).ts,
                                     marker |-> Head(held).marker])
       ELSE UNCHANGED <<generated, sent>>
    /\ UNCHANGED <<now, queue, caller, remote, requests, raced>>

\* A frame's time passes; the pump has sent what it took.
Passes == /\ now < MaxTime /\ held = <<>>
          /\ now' = now + 1
          /\ UNCHANGED <<queue, generated, caller, held, remote, sent, requests, raced>>

\* The leg's first packet tells its address.
Learn == /\ ~remote /\ remote' = TRUE
         /\ UNCHANGED <<now, queue, generated, caller, held, sent, requests, raced>>

PlayoutNext ==
    \/ \E c \in {Loop, Task} :
           \/ schedule_audio_playout(c) \/ schedule_dtmf_playout(c)
           \/ Snapshot(c) \/ Enqueue(c) \/ clear_scheduled_playout(c)
    \/ take_due_playout_items \/ send_scheduled_playout_item \/ Passes \/ Learn

PlayoutSpec == PlayoutInit /\ [][PlayoutNext]_playoutVars

-----------------------------------------------------------------------------
(* Properties *)

\* Audio never goes back in time: unless the pump ran between a task's two
\* locks, the frames that go out have growing timestamps, whatever was
\* replaced, flushed or passed over meanwhile (recompute_playout_queue_state
\* and the cursor that is kept in two places).
TimestampsAdvance ==
    raced \/ \A i, j \in DOMAIN sent :
        i < j /\ sent[i].kind = "audio" /\ sent[j].kind = "audio" => sent[i].ts < sent[j].ts

\* Nothing waits behind something that is due later, however tasks overlap:
\* the pump looks at the front of the queue only (take_due_playout_items).
DueInOrder ==
    \A i, j \in DOMAIN queue.items : i < j => queue.items[i].due < queue.items[j].due

\* Two digits are two events: they do not share a timestamp, by which a
\* receiver tells them apart.
DigitsDistinct ==
    \A i, j \in DOMAIN sent :
        i < j /\ sent[i].kind = "event" /\ sent[j].kind = "event" /\ sent[j].marker
            => sent[i].ts # sent[j].ts
=============================================================================
