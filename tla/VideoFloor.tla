----------------------------- MODULE VideoFloor -----------------------------
(***************************************************************************)
(* Who shares a screen in a video room: the content floor, the right to    *)
(* take it, and what a listener to the room's events believes              *)
(* (crates/forge-conference/src/video/room.rs).  Packets, signalling, the  *)
(* host's requests and the compose clock run on threads of their own and   *)
(* each lock is held for a statement: an operation is a list of steps, and *)
(* steps holds where each one that is under way goes on.                   *)
(***************************************************************************)
EXTENDS Naturals, FiniteSets

CONSTANTS Presenters,  \* participant ids
          NoPresenter,
          Racing       \* whether the steps of two operations interleave

ASSUME VideoFloorAssumption == NoPresenter \notin Presenters /\ Racing \in BOOLEAN

VARIABLES joined,   \* participants
          enabled,  \* those whose content_enabled is set
          screen,   \* the content sources: none, new (no packet yet), live, idle, failed
          floor,    \* the holder
          shown,    \* the presenter according to the last Started and Stopped
          steps     \* operations under way: [op, id]

floorVars == <<joined, enabled, screen, floor, shown, steps>>

Step(op, id) == [op |-> op, id |-> id]

Calm == Racing \/ steps = {}

FloorInit ==
    /\ joined = {}
    /\ enabled = {}
    /\ screen = [p \in Presenters |-> "none"]
    /\ floor = NoPresenter
    /\ shown = NoPresenter
    /\ steps = {}

-----------------------------------------------------------------------------
(* Participants and their content sources *)

participant_joined(p) ==
    /\ Calm /\ p \notin joined /\ Step("left", p) \notin steps
    /\ joined' = joined \cup {p}
    /\ enabled' = enabled \cup {p}
    /\ UNCHANGED <<screen, floor, shown, steps>>

\* The rest of the departure, LeftSource, comes after the floor.
participant_left(p) ==
    /\ Calm /\ p \in joined
    /\ joined' = joined \ {p}
    /\ enabled' = enabled \ {p}
    /\ steps' = steps \cup {Step("left", p)}
                      \cup (IF floor = p THEN {Step("release", p)} ELSE {})
    /\ UNCHANGED <<screen, floor, shown>>

\* remove_source_kind: a share ends with its source, and a host's stop with it.
SourceRemoved(p) ==
    /\ screen' = [screen EXCEPT ![p] = "none"]
    /\ enabled' = IF p \in joined THEN enabled \cup {p} ELSE enabled

LeftSource(p) ==
    /\ Step("left", p) \in steps /\ Step("release", p) \notin steps
    /\ screen' = [screen EXCEPT ![p] = "none"]
    /\ steps' = (steps \ {Step("left", p)})
                   \cup (IF floor = p /\ screen[p] # "none" THEN {Step("release", p)} ELSE {})
    /\ UNCHANGED <<joined, enabled, floor, shown>>

add_source_kind(p) ==
    /\ Calm /\ p \in joined /\ screen[p] = "none"
    /\ screen' = [screen EXCEPT ![p] = "new"]
    /\ UNCHANGED <<joined, enabled, floor, shown, steps>>

remove_source_kind(p) ==
    /\ Calm /\ screen[p] # "none" /\ Step("left", p) \notin steps
    /\ SourceRemoved(p)
    /\ steps' = steps \cup (IF floor = p THEN {Step("release", p)} ELSE {})
    /\ UNCHANGED <<joined, floor, shown>>

\* A sender that stops sending, and a decoder that gives up.
SourceFades(p) ==
    /\ screen[p] \in {"live", "idle"}
    /\ \E to \in {"idle", "failed"} : screen' = [screen EXCEPT ![p] = to]
    /\ UNCHANGED <<joined, enabled, floor, shown, steps>>

-----------------------------------------------------------------------------
(* Taking the floor *)

MayShare(p) == p \in joined /\ p \in enabled /\ screen[p] # "none"

\* A packet of a presenter, or of someone who finds the floor free.  What
\* take_floor checks before it locks the floor; a refusal changes nothing here.
content_admits(p) ==
    /\ Calm /\ \A s \in steps : s.id = p => s.op \notin {"take", "announce"}
    /\ IF floor = p
       THEN /\ screen[p] \in {"new", "idle"}
            /\ screen' = [screen EXCEPT ![p] = "live"]
            /\ steps' = steps
       ELSE /\ MayShare(p)
            /\ steps' = steps \cup {Step("take", p)}
            /\ screen' = screen
    /\ UNCHANGED <<joined, enabled, floor, shown>>

\* Under the floor's lock: it is free and the gate, which may say no, admits.
take_floor(p) ==
    /\ Step("take", p) \in steps
    /\ IF floor = NoPresenter
       THEN \/ /\ floor' = p
               /\ steps' = (steps \ {Step("take", p)}) \cup {Step("announce", p)}
            \/ floor' = floor /\ steps' = steps \ {Step("take", p)}
       ELSE floor' = floor /\ steps' = steps \ {Step("take", p)}
    /\ UNCHANGED <<joined, enabled, screen, shown>>

\* Started is sent when the lock is free again, and then the packet goes in.
Announce(p) ==
    /\ Step("announce", p) \in steps
    /\ shown' = p
    /\ screen' = [screen EXCEPT ![p] = IF @ \in {"new", "idle"} THEN "live" ELSE @]
    /\ steps' = steps \ {Step("announce", p)}
    /\ UNCHANGED <<joined, enabled, floor>>

-----------------------------------------------------------------------------
(* Giving it up *)

\* Whoever holds it; Stopped goes out under the lock.
release_floor(p) ==
    /\ Step("release", p) \in steps
    /\ floor' = NoPresenter
    /\ shown' = IF shown = floor THEN NoPresenter ELSE shown
    /\ steps' = steps \ {Step("release", p)}
    /\ UNCHANGED <<joined, enabled, screen>>

release_content_with(p) ==
    /\ Calm /\ floor = p
    /\ steps' = steps \cup {Step("release", p)}
    /\ UNCHANGED <<joined, enabled, screen, floor, shown>>

stop_content ==
    /\ Calm /\ floor # NoPresenter
    /\ enabled' = enabled \ {floor}
    /\ steps' = steps \cup {Step("release", floor)}
    /\ UNCHANGED <<joined, screen, floor, shown>>

set_participant_content_enabled(p, enable) ==
    /\ Calm /\ p \in joined
    /\ enabled' = IF enable THEN enabled \cup {p} ELSE enabled \ {p}
    /\ steps' = steps \cup (IF ~enable /\ floor = p THEN {Step("release", p)} ELSE {})
    /\ UNCHANGED <<joined, screen, floor, shown>>

expire_content_joined ==
    /\ Calm /\ floor \in joined /\ screen[floor] \in {"none", "failed", "idle"}
    /\ steps' = steps \cup {Step("release", floor)}
    /\ UNCHANGED <<joined, enabled, screen, floor, shown>>

\* Once a tick of the compose clock.
expire_content ==
    /\ Calm /\ floor # NoPresenter /\ screen[floor] \in {"none", "failed", "idle"}
    /\ steps' = steps \cup {Step("release", floor)}
    /\ UNCHANGED <<joined, enabled, screen, floor, shown>>

-----------------------------------------------------------------------------
FloorNext ==
    \/ \E p \in Presenters :
          \/ participant_joined(p) \/ participant_left(p) \/ LeftSource(p)
          \/ add_source_kind(p) \/ remove_source_kind(p) \/ SourceFades(p)
          \/ content_admits(p) \/ take_floor(p) \/ Announce(p)
          \/ release_floor(p) \/ release_content_with(p)
          \/ \E enable \in BOOLEAN : set_participant_content_enabled(p, enable)
    \/ stop_content \/ expire_content

\* The compose clock ticks and a thread that has begun an operation ends it.
FloorFairness ==
    /\ WF_floorVars(expire_content)
    /\ \A p \in Presenters : /\ WF_floorVars(release_floor(p)) /\ WF_floorVars(LeftSource(p))
                            /\ WF_floorVars(take_floor(p)) /\ WF_floorVars(Announce(p))

FloorSpec == FloorInit /\ [][FloorNext]_floorVars /\ FloorFairness

-----------------------------------------------------------------------------
(* Properties *)

\* A share does not outlive its presenter: whoever is granted the floor while
\* leaving, after participant_left looked at it, loses it to the compose clock
\* (take_floor, expire_content).
FloorComesFree ==
    \A p \in Presenters :
        (floor = p /\ p \notin joined) ~> (floor # p \/ p \in joined)

\* "`false` ends the participant's share if they hold the floor and keeps them
\* from taking it again" (the comment on set_participant_content_enabled).
DisabledNeverHolds ==
    \A p \in joined \ enabled : floor = p => Step("release", p) \in steps

\* What the room's events say agrees with the floor once every operation is
\* over (Started is sent after the lock, Stopped under it).
ListenersAgree == steps = {} => shown = floor
=============================================================================
