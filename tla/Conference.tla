----------------------------- MODULE Conference -----------------------------
(***************************************************************************)
(* An audio conference room: who is mixed, who waits in the lobby for a    *)
(* moderator, who hosts, and which of them the room's video knows          *)
(* (crates/forge-conference/src/conference.rs).  The maps are locked one   *)
(* by one, never together, so two requests overlap between their checks    *)
(* and their effects; Overlap says whether they may.                       *)
(***************************************************************************)
EXTENDS Naturals, FiniteSets

CONSTANTS Callers,     \* participant ids of callers
          Moderators,  \* the callers who join with is_host
          Trunk,       \* a virtual participant
          Feedback,    \* AUDIO_FEEDBACK_PARTICIPANT_ID
          Capacities,  \* the values of max_channels, 0 for no limit
          Overlap      \* whether requests overlap

ASSUME ConferenceAssumption ==
    /\ Moderators \subseteq Callers /\ Feedback \notin Callers
    /\ Capacities \subseteq Nat
    /\ Overlap \in BOOLEAN

VARIABLES room,    \* mixer, waiting_participants, hosts, the video's members
                   \* (while videoOn), and letIn: the members of the mixer who
                   \* did not come in through the lobby's and capacity's rules
          conf,    \* room_config with its wait_for_moderator, is_locked
          videoOn, \* whether the room has a VideoRoom
          pending  \* requests between their check and their effect

roomVars == <<room, conf, videoOn, pending>>

Present == room.mixer \cup room.waiting

\* Nothing else runs between a check and its effect, unless requests overlap.
Alone == Overlap \/ pending = {}

RoomInit ==
    /\ room = [mixer |-> {}, waiting |-> {}, hosts |-> {}, video |-> {}, letIn |-> {}]
    /\ conf = [done |-> FALSE, wfm |-> FALSE, max |-> 0, locked |-> FALSE]
    /\ videoOn = FALSE
    /\ pending = {}

-----------------------------------------------------------------------------
(* Configuration and video *)

\* Who is in the room stays, whatever the new rules say.
configure(wfm, max, lock, sounds) ==
    /\ Alone
    /\ conf' = [done |-> TRUE, wfm |-> wfm, max |-> max,
                locked |-> IF conf.done THEN conf.locked ELSE lock]
    /\ room' = LET m == room.mixer \cup (IF sounds THEN {Feedback} ELSE {})
               IN [room EXCEPT !.mixer = m, !.letIn = m]
    /\ UNCHANGED <<videoOn, pending>>

\* Adopts the callers the mixer has.
enable_video ==
    /\ Alone /\ ~videoOn
    /\ videoOn' = TRUE
    /\ room' = [room EXCEPT !.video = room.mixer \cap Callers]
    /\ UNCHANGED <<conf, pending>>

disable_video ==
    /\ Alone /\ videoOn
    /\ videoOn' = FALSE
    /\ room' = [room EXCEPT !.video = {}]
    /\ UNCHANGED <<conf, pending>>

-----------------------------------------------------------------------------
(* Coming in *)

is_at_capacity_ofTheMixed == conf.max > 0 /\ Cardinality(room.mixer) >= conf.max

is_at_capacity ==
    conf.max > 0 /\ Cardinality(room.mixer) + Cardinality(room.waiting) >= conf.max

\* The lobby's check comes first, so a guest who waits takes no seat into account.
Admission(host) ==
    IF conf.locked THEN "refused"
    ELSE IF conf.wfm /\ ~host /\ room.hosts = {} THEN "lobby"
    ELSE IF is_at_capacity THEN "refused"
    ELSE "enter"

\* add_participant and add_participant_quiet: everything up to the first insert.
\* Nobody asks whether the id is in the room already.
add_participant(p) ==
    /\ Alone
    /\ LET host == p \in Moderators
           verdict == Admission(host)
       IN /\ verdict # "refused"
          /\ pending' = pending \cup {[who |-> p, host |-> host, does |-> verdict]}
    /\ UNCHANGED <<room, conf, videoOn>>

release_waiting_participants(r) ==
    [r EXCEPT !.mixer = @ \cup r.waiting, !.waiting = {}]

add_participant_inner(r, p) ==
    [r EXCEPT !.mixer = @ \cup {p}, !.video = IF videoOn THEN @ \cup {p} ELSE @]

Entered(p, host) ==
    add_participant_inner(
        IF host THEN release_waiting_participants([room EXCEPT !.hosts = @ \cup {p}])
                ELSE room, p)

Enter(q) ==
    /\ q \in pending /\ q.does \in {"enter", "lobby"}
    /\ room' = IF q.does = "lobby" THEN [room EXCEPT !.waiting = @ \cup {q.who}]
                                   ELSE Entered(q.who, q.host)
    /\ pending' = pending \ {q}
    /\ UNCHANGED <<conf, videoOn>>

\* One who moves here from a draining node.
add_participant_admitted(p, host) ==
    /\ Alone /\ ~is_at_capacity
    /\ room' = [Entered(p, host) EXCEPT !.letIn = @ \cup {p}]
    /\ UNCHANGED <<conf, videoOn, pending>>

add_virtual_participant ==
    /\ Alone
    /\ room' = [room EXCEPT !.mixer = @ \cup {Trunk}, !.letIn = @ \cup {Trunk}]
    /\ UNCHANGED <<conf, videoOn, pending>>

admit_waiting_participant(p) ==
    /\ Alone /\ p \in room.waiting
    /\ room' = [room EXCEPT !.mixer = @ \cup {p}, !.waiting = @ \ {p}, !.letIn = @ \cup {p}]
    /\ UNCHANGED <<conf, videoOn, pending>>

admit_all_waiting ==
    /\ Alone /\ room.waiting # {}
    /\ room' = [release_waiting_participants(room) EXCEPT !.letIn = @ \cup room.waiting]
    /\ UNCHANGED <<conf, videoOn, pending>>

\* The check for membership, then the insert.
promote_to_host(p) ==
    /\ Alone /\ p \in room.mixer
    /\ pending' = pending \cup {[who |-> p, host |-> TRUE, does |-> "promote"]}
    /\ UNCHANGED <<room, conf, videoOn>>

Promote(q) ==
    /\ q \in pending /\ q.does = "promote"
    /\ room' = [room EXCEPT !.hosts = @ \cup {q.who}]
    /\ pending' = pending \ {q}
    /\ UNCHANGED <<conf, videoOn>>

-----------------------------------------------------------------------------
(* Going out *)

move_participants_to_waiting_none(r) == r

\* The lobby is for everyone but the sounds; the video room is not told.
move_participants_to_waiting(r) ==
    [r EXCEPT !.mixer = @ \cap {Feedback}, !.letIn = @ \cap {Feedback},
              !.waiting = @ \cup (r.mixer \ {Feedback})]

\* What remove_participant leaves; ok is false when it ends in an error, which
\* is when the mixer does not know the id.
Removed(r, p) ==
    LET gone == [r EXCEPT !.hosts = @ \ {p}, !.waiting = @ \ {p}, !.letIn = @ \ {p}]
        out  == [gone EXCEPT !.mixer = @ \ {p}, !.video = @ \ {p}]
    IN IF p \notin r.mixer THEN [left |-> gone, ok |-> FALSE]
       ELSE [left |-> IF p \in r.hosts /\ gone.hosts = {} /\ conf.wfm
                      THEN move_participants_to_waiting(out) ELSE out,
             ok |-> TRUE]

remove_participant(p) ==
    /\ Alone /\ p \in Present
    /\ room' = Removed(room, p).left
    /\ UNCHANGED <<conf, videoOn, pending>>

-----------------------------------------------------------------------------
(* Commands dialled by a caller who gave the host PIN *)

lock ==
    /\ Alone /\ conf.done
    /\ conf' = [conf EXCEPT !.locked = TRUE]
    /\ UNCHANGED <<room, videoOn, pending>>

unlock ==
    /\ Alone /\ conf.done
    /\ conf' = [conf EXCEPT !.locked = FALSE]
    /\ UNCHANGED <<room, videoOn, pending>>

\* Notes whom the mixer has, in whatever order it has them.
EndConference ==
    /\ Alone /\ room.mixer \cap Callers # {}
    /\ pending' = pending \cup {[who |-> room.mixer, host |-> TRUE, does |-> "end"]}
    /\ UNCHANGED <<room, conf, videoOn>>

\* Removes the next of them; a removal that fails is the last.
EndNext(q, p) ==
    /\ room' = Removed(room, p).left
    /\ pending' = (pending \ {q}) \cup
                     (IF Removed(room, p).ok /\ q.who # {p} THEN {[q EXCEPT !.who = @ \ {p}]} ELSE {})
    /\ UNCHANGED <<conf, videoOn>>

-----------------------------------------------------------------------------
RoomNext ==
    \/ \E wfm, lck, sounds \in BOOLEAN, max \in Capacities : configure(wfm, max, lck, sounds)
    \/ enable_video \/ disable_video
    \/ \E p \in Callers : \/ add_participant(p)
                          \/ add_participant_admitted(p, p \in Moderators)
                          \/ promote_to_host(p)
    \/ \E q \in pending : Enter(q) \/ Promote(q)
    \/ \E q \in {r \in pending : r.does = "end"} : \E p \in q.who : EndNext(q, p)
    \/ add_virtual_participant
    \/ \E p \in Present : admit_waiting_participant(p) \/ remove_participant(p)
    \/ admit_all_waiting
    \/ lock \/ unlock \/ EndConference

RoomSpec == RoomInit /\ [][RoomNext]_roomVars

-----------------------------------------------------------------------------
(* Properties *)

\* While a room waits for its moderator, nobody hears the conference except
\* those an administrator, a migration or an earlier configuration let in: the
\* guests who came with the last host went back to the lobby with that host
\* (add_participant's lobby check, move_participants_to_waiting).
GuestsModerated ==
    conf.wfm /\ room.hosts = {} => room.mixer \subseteq room.letIn

\* Guests released from the lobby took their seats while they waited: a host's
\* arrival never takes the room past max_channels (add_participant's capacity
\* check counts the mixer and the lobby).
CapacityKept ==
    conf.max > 0 => Cardinality(room.mixer \ room.letIn) <= conf.max

\* "Participants already in the room are adopted; later joins and leaves follow
\* automatically" (the comment on enable_video): the video room has no member
\* who left the conference.
VideoFollows == room.video \subseteq Present

\* "Remove all participants" (the comment in EndConference): when it is over, no
\* caller is left, mixed or waiting.
EndEmptiesRoom ==
    [][\A q \in pending : q.does = "end" /\ (\A r \in pending' : r.does # "end") =>
          Present' \cap Callers = {}]_roomVars
=============================================================================
