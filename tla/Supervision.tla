---------------------------- MODULE Supervision ----------------------------
(***************************************************************************)
(* A supervisor on a two-party session (forge-engine/src/party.rs) and     *)
(* audio played into it (injection.rs), which share the session's two      *)
(* relay-suppression counters (session.rs).  A leg whose counter is not    *)
(* zero does not hear the other leg, so a count that is not given back     *)
(* leaves a caller in silence for the rest of the call.                    *)
(*                                                                         *)
(* A mode is the set of legs that hear the supervisor: none (Monitor), one *)
(* (Whisper) or both (Barge).                                              *)
(***************************************************************************)
EXTENDS PortLedger

CONSTANTS ApiRequests,\* API requests on the session: add, set mode, remove
          Hangup,     \* the actor that runs stop_forwarding
          Parties,    \* supervisors' Party objects
          Announcements, \* PlaybackManager playbacks, each started at most once
          NoParty,
          MinFree,    \* min_free_port_pairs
          Overlapping \* may requests and the hangup run at the same time?

Legs == {"A", "B"}
Actors == ApiRequests \union {Hangup}

ASSUME SupervisionAssumption == /\ MinFree \in Nat /\ Overlapping \in BOOLEAN
                                /\ Hangup \notin ApiRequests
                                /\ NoParty \notin Parties \union Pairs

VARIABLES
    elsewhere,    \* pairs that other calls hold throughout
    slot,         \* MediaSession.party
    pair,         \* each Party's port pair, {} before it is built and when given back
    suppressing,  \* Party.suppressing: the legs it suppresses
    mixMode,      \* the mode of Party.mix
    relay_suppressed,  \* relay_suppressed_a and _b
    live,         \* is the session in the manager's map, not yet stopped?
    where, on, want,  \* each actor's place, its party, the legs it works with
    play,         \* each playback's place
    playLegs,     \* the legs a Replace playback is heard alone on, else {}
    audio,        \* each playback's source: played once, looped, or looped and without a frame
    asked,        \* has a stop been asked for?
    holds         \* did the playback find the session and suppress its legs?

partyVars == <<slot, pair, suppressing, mixMode>>
actorVars == <<where, on, want>>
playVars == <<play, playLegs, audio, asked, holds>>
supervisionVars ==
    <<elsewhere, free, taken, partyVars, relay_suppressed, live, actorVars, playVars>>

SupervisionInit ==
        /\ elsewhere \in SUBSET Pairs
        /\ free = Pairs \ elsewhere /\ taken = elsewhere
        /\ slot = NoParty
        /\ pair = [k \in Parties |-> {}]
        /\ suppressing = [k \in Parties |-> {}]
        /\ mixMode = [k \in Parties |-> {}]
        /\ relay_suppressed = [l \in Legs |-> 0]
        /\ live = TRUE
        /\ where = [r \in Actors |-> "ready"]
        /\ on = [r \in Actors |-> NoParty]
        /\ want = [r \in Actors |-> {}]
        /\ play = [b \in Announcements |-> "unused"]
        /\ playLegs = [b \in Announcements |-> {}]
        /\ audio \in [Announcements -> {"once", "looped", "loopedEmpty"}]
        /\ asked = [b \in Announcements |-> FALSE]
        /\ holds = [b \in Announcements |-> FALSE]

-----------------------------------------------------------------------------
(* suppress_relay_to adds one; release_relay_to takes one, saturating. *)
Suppressed(counts, ls) == [l \in Legs |-> IF l \in ls THEN counts[l] + 1 ELSE counts[l]]
Released(counts, ls) ==
    [l \in Legs |-> IF l \in ls /\ counts[l] > 0 THEN counts[l] - 1 ELSE counts[l]]

(* The next request may begin: it has looked the session up in the map. *)
MayBegin(r) == /\ where[r] = "ready" /\ live
               /\ Overlapping \/ \A q \in Actors : where[q] \in {"ready", "stopped"}

Goto(r, place) == where' = [where EXCEPT ![r] = place]
Done(r) == IF r = Hangup THEN "stopped" ELSE "ready"

(* add_party: refused while there is a supervisor. *)
AddCheck(r, m) ==
    /\ MayBegin(r) /\ slot = NoParty
    /\ want' = [want EXCEPT ![r] = m]
    /\ Goto(r, "allocate")
    /\ UNCHANGED <<free, taken, partyVars, relay_suppressed, live, on, playVars>>

AddAllocate(r) ==
    /\ where[r] = "allocate"
    /\ \E p \in Pairs, k \in Parties :
          /\ pair[k] = {} /\ slot # k /\ \A q \in Actors : on[q] # k
          /\ TakeReserving(p, MinFree)
          /\ pair' = [pair EXCEPT ![k] = {p}]
          /\ suppressing' = [suppressing EXCEPT ![k] = {}]
          /\ mixMode' = [mixMode EXCEPT ![k] = want[r]]
          /\ on' = [on EXCEPT ![r] = k]
    /\ Goto(r, "install")
    /\ UNCHANGED <<slot, relay_suppressed, live, want, playVars>>

(* No pair is to spare, or none of those tried could be bound; they are    *)
(* given back.                                                             *)
AddRefused(r) ==
    /\ where[r] = "allocate"
    /\ Goto(r, "ready")
    /\ want' = [want EXCEPT ![r] = {}]
    /\ UNCHANGED <<free, taken, partyVars, relay_suppressed, live, on, playVars>>

(* The slot is written, over whoever is in it by now. *)
AddInstall(r) ==
    /\ where[r] = "install"
    /\ slot' = on[r]
    /\ Goto(r, "apply")
    /\ UNCHANGED <<free, taken, pair, suppressing, mixMode, relay_suppressed, live, on, want,
                   playVars>>

(* Mutant: a leg that no longer hears the supervisor is not released. *)
Apply_no_release(r) ==
    /\ where[r] = "apply"
    /\ relay_suppressed' = Suppressed(relay_suppressed, want[r] \ suppressing[on[r]])
    /\ suppressing' = [suppressing EXCEPT ![on[r]] = want[r]]
    /\ on' = [on EXCEPT ![r] = NoParty]
    /\ Goto(r, "ready")
    /\ want' = [want EXCEPT ![r] = {}]
    /\ UNCHANGED <<free, taken, slot, pair, mixMode, live, playVars>>

(* apply_party_mode, under the party's suppressing lock. *)
Apply(r) ==
    /\ where[r] = "apply"
    /\ relay_suppressed' = Released(Suppressed(relay_suppressed, want[r] \ suppressing[on[r]]),
                                    suppressing[on[r]] \ want[r])
    /\ suppressing' = [suppressing EXCEPT ![on[r]] = want[r]]
    /\ on' = [on EXCEPT ![r] = NoParty]
    /\ Goto(r, "ready")
    /\ want' = [want EXCEPT ![r] = {}]
    /\ UNCHANGED <<free, taken, slot, pair, mixMode, live, playVars>>

(* set_party_mode: the mix's mode, then apply_party_mode. *)
SetMode(r, m) ==
    /\ MayBegin(r) /\ slot # NoParty
    /\ mixMode' = [mixMode EXCEPT ![slot] = m]
    /\ on' = [on EXCEPT ![r] = slot]
    /\ want' = [want EXCEPT ![r] = m]
    /\ Goto(r, "apply")
    /\ UNCHANGED <<free, taken, slot, pair, suppressing, relay_suppressed, live, playVars>>

-----------------------------------------------------------------------------
(* remove_party, by a request or by the hangup *)

TakeParty(r) ==
    /\ slot # NoParty
    /\ on' = [on EXCEPT ![r] = slot]
    /\ slot' = NoParty
    /\ Goto(r, "unsuppress")

RemoveParty(r) ==
    /\ MayBegin(r) /\ TakeParty(r)
    /\ UNCHANGED <<free, taken, pair, suppressing, mixMode, relay_suppressed, live, want, playVars>>

(* What the party suppresses is copied, then released. *)
RemoveCopy(r) ==
    /\ where[r] = "unsuppress"
    /\ want' = [want EXCEPT ![r] = suppressing[on[r]]]
    /\ Goto(r, "relay")
    /\ UNCHANGED <<free, taken, partyVars, relay_suppressed, live, on, playVars>>

RemoveRelay(r) ==
    /\ where[r] = "relay"
    /\ relay_suppressed' = Released(relay_suppressed, want[r])
    /\ Goto(r, "free")
    /\ want' = [want EXCEPT ![r] = {}]
    /\ UNCHANGED <<free, taken, partyVars, live, on, playVars>>

(* Mutant: the supervisor's pair is not given back. *)
RemoveFree_kept(r) ==
    /\ where[r] = "free"
    /\ on' = [on EXCEPT ![r] = NoParty]
    /\ Goto(r, Done(r))
    /\ UNCHANGED <<free, taken, partyVars, relay_suppressed, live, want, playVars>>

(* The Party is dropped with its last holder. *)
LastHolder(r) == \A q \in Actors \ {r} : on[q] # on[r]

RemoveFree(r) ==
    /\ where[r] = "free"
    /\ \E p \in pair[on[r]] : Give(p)
    /\ pair' = [pair EXCEPT ![on[r]] = {}]
    /\ suppressing' = IF LastHolder(r) THEN [suppressing EXCEPT ![on[r]] = {}] ELSE suppressing
    /\ mixMode' = IF LastHolder(r) THEN [mixMode EXCEPT ![on[r]] = {}] ELSE mixMode
    /\ on' = [on EXCEPT ![r] = NoParty]
    /\ Goto(r, Done(r))
    /\ UNCHANGED <<slot, relay_suppressed, live, want, playVars>>

(* stop_session takes the session out of the map; its stop_forwarding      *)
(* removes the supervisor once.                                            *)
HangUp ==
    /\ MayBegin(Hangup)
    /\ live' = FALSE
    /\ Goto(Hangup, "remove")
    /\ UNCHANGED <<free, taken, partyVars, relay_suppressed, on, want, playVars>>

HangUpRemove ==
    /\ where[Hangup] = "remove"
    /\ \/ TakeParty(Hangup)
       \/ /\ slot = NoParty
          /\ Goto(Hangup, "stopped")
          /\ UNCHANGED <<slot, on>>
    /\ UNCHANGED <<free, taken, pair, suppressing, mixMode, relay_suppressed, live, want, playVars>>

-----------------------------------------------------------------------------
(* PlaybackManager *)

StartPlayback(b, ls) ==
    /\ play[b] = "unused"
    /\ play' = [play EXCEPT ![b] = "starting"]
    /\ playLegs' = [playLegs EXCEPT ![b] = ls]
    /\ UNCHANGED <<free, taken, partyVars, relay_suppressed, live, actorVars, audio, asked, holds>>

(* run_playback: a Replace playback holds back its legs' relay. *)
RunPlayback(b) ==
    /\ play[b] = "starting"
    /\ play' = [play EXCEPT ![b] = "playing"]
    /\ holds' = [holds EXCEPT ![b] = live]
    /\ relay_suppressed' = IF live THEN Suppressed(relay_suppressed, playLegs[b])
                                      ELSE relay_suppressed
    /\ UNCHANGED <<free, taken, partyVars, live, actorVars, playLegs, audio, asked>>

StopPlayback(b) ==
    /\ play[b] \in {"starting", "playing"} /\ ~ asked[b]
    /\ asked' = [asked EXCEPT ![b] = TRUE]
    /\ UNCHANGED <<free, taken, partyVars, relay_suppressed, live, actorVars, play, playLegs,
                   audio, holds>>

(* The playback ends and gives back the suppression it took. *)
Ended(b) ==
    /\ play' = [play EXCEPT ![b] = "ended"]
    /\ relay_suppressed' = IF holds[b] THEN Released(relay_suppressed, playLegs[b])
                                          ELSE relay_suppressed
    /\ holds' = [holds EXCEPT ![b] = FALSE]
    /\ UNCHANGED <<free, taken, partyVars, live, actorVars, playLegs, audio, asked>>

(* Mutant: a looped playback ends only when asked to. *)
EndPlayback_deaf(b) ==
    /\ play[b] = "playing"
    /\ asked[b] \/ audio[b] = "once"
    /\ Ended(b)

(* A tick sees the stop, the session gone when there is a frame to play,   *)
(* or the end of a source that is not looped.                              *)
EndPlayback(b) ==
    /\ play[b] = "playing"
    /\ asked[b] \/ audio[b] = "once" \/ (~ live /\ audio[b] = "looped")
    /\ Ended(b)

(* A frame cannot be read, or a looped source cannot start again. *)
FailPlayback(b) == play[b] = "playing" /\ Ended(b)

-----------------------------------------------------------------------------
Work(r) == \/ AddAllocate(r) \/ AddRefused(r) \/ AddInstall(r) \/ Apply(r)
           \/ RemoveCopy(r) \/ RemoveRelay(r) \/ RemoveFree(r)

SupervisionNext ==
    /\ \/ \E r \in ApiRequests : \/ \E m \in SUBSET Legs : AddCheck(r, m) \/ SetMode(r, m)
                              \/ RemoveParty(r)
       \/ \E r \in Actors : Work(r)
       \/ HangUp \/ HangUpRemove
       \/ \E b \in Announcements : \/ \E ls \in SUBSET Legs : StartPlayback(b, ls)
                                   \/ RunPlayback(b) \/ StopPlayback(b)
                                   \/ EndPlayback(b) \/ FailPlayback(b)
    /\ UNCHANGED elsewhere

(* ApiRequests and playback tasks under way are polled to their end. *)
SupervisionFairness ==
    /\ \A r \in Actors : WF_supervisionVars(Work(r) /\ UNCHANGED elsewhere)
    /\ WF_supervisionVars(HangUpRemove /\ UNCHANGED elsewhere)
    /\ \A b \in Announcements :
           WF_supervisionVars((RunPlayback(b) \/ EndPlayback(b)) /\ UNCHANGED elsewhere)

SupervisionSpec == SupervisionInit /\ [][SupervisionNext]_supervisionVars /\ SupervisionFairness

-----------------------------------------------------------------------------
Quiet == /\ \A r \in Actors : where[r] \in {"ready", "stopped"}
         /\ \A b \in Announcements : ~ holds[b]

(* With no Replace playback and no request under way, the relay to a leg   *)
(* is held back once when the supervisor's mix is sent to that leg, and    *)
(* not at all otherwise: no leg hears both or neither, and without a       *)
(* supervisor, as the doc of remove_party has it, "the legs are relayed as *)
(* before".                                                                *)
RelayRestored ==
    Quiet => \A l \in Legs :
                relay_suppressed[l] = IF slot # NoParty /\ l \in mixMode[slot] THEN 1 ELSE 0

(* The doc of add_party: "A session has one supervisor at a time". *)
OneSupervisor == Cardinality({k \in Parties : pair[k] # {}}) <= 1

(* stop_forwarding: "A supervisor's port goes back with the session's". *)
PortGoesBack == where[Hangup] = "stopped" /\ Quiet => taken = elsewhere

(* Hold music stops with its call, if there is any: a looped source that   *)
(* gives frames comes to the place where the session is looked up          *)
(* (run_playback).                                                         *)
PlaybackEndsWithCall ==
    \A b \in Announcements :
        play[b] = "playing" /\ ~ live /\ audio[b] # "loopedEmpty" ~> play[b] = "ended"

(* run_playback logs "The session is gone; playback ends": so should a     *)
(* looped playback of a source without a frame.                            *)
EveryPlaybackEnds == \A b \in Announcements : play[b] = "playing" /\ ~ live ~> play[b] = "ended"
=============================================================================
