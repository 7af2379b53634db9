---------------------------- MODULE SiprecClient ----------------------------
(***************************************************************************)
(* The session recording client: recordings of a call whose RTP is forked  *)
(* to a recording server (SRS), paused, resumed and muted while API        *)
(* handlers and the media path call it at once                             *)
(* (crates/forge-siprec/src/src.rs, forking.rs, sip.rs).                   *)
(*                                                                         *)
(* A handler is one call in progress; each step of it is what it does      *)
(* under one lock.  A participant has one stream in a recording; the       *)
(* stream of one who joins after the start is not among the stream_ids of  *)
(* the recording, which start_recording fixes.  A lookup in the forker's   *)
(* SSRC map and the send that follows are one step: the map's entry stays  *)
(* locked until the packet is sent.                                        *)
(***************************************************************************)
EXTENDS FiniteSets, Naturals

CONSTANTS Recordings,  \* session ids, each used for one start_recording
          Parties,     \* participants of the recorded call
          Joiners,     \* those who join after the start: add_forked_stream takes any id
          Keyed,       \* those whose stream comes with an SRTP key
          Handlers,    \* calls that can be in progress at once
          NoFork,
          Indication,  \* SrcConfig.recording_indication
          Backup,      \* SrcConfig.backup_srs_uri is set
          SameCall,    \* all recordings are of one call and share its SSRCs
          Serialized   \* control calls about one recording come one after another

ASSUME SiprecAssumption ==
    /\ Joiners \subseteq Parties /\ Keyed \subseteq Parties \ Joiners /\ NoFork \notin Recordings \X Parties
    /\ Indication \in {"On", "NotSignalled"} /\ {Backup, SameCall, Serialized} \subseteq BOOLEAN

Forks == Recordings \X Parties
Ssrc(f) == IF SameCall THEN f[2] ELSE f
Ssrcs == {Ssrc(f) : f \in Forks}

VARIABLES recs,      \* per recording: its RecordingSessionState, dialog and keys
          streams,   \* MediaForker.streams
          ssrc_map,  \* MediaForker.ssrc_map
          handlers   \* per handler: the step its call is at

siprecVars == <<recs, streams, ssrc_map, handlers>>

\* listed: the DialogManager has the dialog.  told: the recording indication
\* of the INVITE with the highest CSeq.
NewRecording ==
    [state |-> "new", paused |-> FALSE, muted |-> {}, using_backup |-> FALSE, keys |-> {},
     dialog |-> "none", listed |-> FALSE, told |-> "nothing", stop_time |-> FALSE]

\* told: what a re-INVITE is going to say; silenced: the participant was muted
\* when the packet came; left: streams that stop_recording has still to remove.
Idle == [step |-> "idle", rec |-> NoFork, party |-> NoFork, told |-> "nothing",
         silenced |-> FALSE, left |-> {}]

SiprecInit ==
    /\ recs = [r \in Recordings |-> NewRecording]
    /\ streams = {}
    /\ ssrc_map = [s \in Ssrcs |-> NoFork]
    /\ handlers = [h \in Handlers |-> Idle]

\* Whether a control call about r may start.
MayStart(h, r) ==
    /\ handlers[h].step = "idle"
    /\ Serialized => \A g \in Handlers : handlers[g].rec = r => handlers[g].step = "send"

GoesOn(h, step, r) == handlers' = [handlers EXCEPT ![h] = [Idle EXCEPT !.step = step, !.rec = r]]
Returns(h) == handlers' = [handlers EXCEPT ![h] = Idle]

-----------------------------------------------------------------------------
\* A dialog and the keys are made, the INVITE built and the session stored.
start_recording(r) ==
    /\ recs[r].state = "new"
    /\ recs' = [recs EXCEPT ![r].state = "active", ![r].dialog = "Initial", ![r].listed = TRUE,
                            ![r].keys = Keyed, ![r].told = Indication]
    /\ UNCHANGED <<streams, ssrc_map, handlers>>

\* A key that does not parse, or SDES without TLS: the dialog and the keys of
\* the streams before it stay.
start_fails(r) ==
    /\ recs[r].state = "new"
    /\ \E ks \in SUBSET Keyed :
          recs' = [recs EXCEPT ![r].state = "failed", ![r].dialog = "Initial",
                               ![r].listed = TRUE, ![r].keys = ks]
    /\ UNCHANGED <<streams, ssrc_map, handlers>>

\* The SRS answers 200 OK.
confirm_session_dialog(r) ==
    /\ recs[r].state = "active"
    /\ recs' = [recs EXCEPT ![r].dialog = "Confirmed"]
    /\ UNCHANGED <<streams, ssrc_map, handlers>>

failover_to_backup(r) ==
    /\ Backup /\ recs[r].state = "active" /\ ~recs[r].using_backup
    /\ recs' = [recs EXCEPT ![r].using_backup = TRUE]
    /\ UNCHANGED <<streams, ssrc_map, handlers>>

mute_participant(r, p) ==
    /\ recs[r].state = "active"
    /\ recs' = [recs EXCEPT ![r].muted = @ \cup {p}]
    /\ UNCHANGED <<streams, ssrc_map, handlers>>

unmute_participant(r, p) ==
    /\ recs[r].state = "active"
    /\ recs' = [recs EXCEPT ![r].muted = @ \ {p}]
    /\ UNCHANGED <<streams, ssrc_map, handlers>>

-----------------------------------------------------------------------------
(* Pause, resume and metadata updates: the flag under the map's lock, then *)
(* the re-INVITE under the dialog's.                                       *)

Announces(h, r, told) ==
    handlers' = [handlers EXCEPT ![h] = [Idle EXCEPT !.step = "reinvite", !.rec = r, !.told = told]]

pause_recording(h, r) ==
    /\ MayStart(h, r) /\ recs[r].state = "active" /\ ~recs[r].paused
    /\ recs' = [recs EXCEPT ![r].paused = TRUE]
    /\ Announces(h, r, "Paused")
    /\ UNCHANGED <<streams, ssrc_map>>

resume_recording(h, r) ==
    /\ MayStart(h, r) /\ recs[r].state = "active" /\ recs[r].paused
    /\ recs' = [recs EXCEPT ![r].paused = FALSE]
    /\ Announces(h, r, "On")
    /\ UNCHANGED <<streams, ssrc_map>>

\* What an update says of the recording.
Indicated(r) == IF recs[r].paused THEN "Paused" ELSE Indication

update_session_metadata(h, r) ==
    /\ MayStart(h, r) /\ recs[r].state = "active"
    /\ Announces(h, r, Indicated(r))
    /\ UNCHANGED <<recs, streams, ssrc_map>>

\* The CSeq is drawn and the request built; the dialog may have ended meanwhile.
\* The error of the metadata's serializer is left out: no value of its fields
\* (strings, times, numbers) makes it fail.
build_metadata_reinvite(h) ==
    /\ handlers[h].step = "reinvite"
    /\ recs' = [recs EXCEPT ![handlers[h].rec].told = handlers[h].told]
    /\ Returns(h)
    /\ UNCHANGED <<streams, ssrc_map>>

-----------------------------------------------------------------------------
(* Forking.                                                                *)

add_forked_stream(h, r, p) ==
    /\ MayStart(h, r) /\ recs[r].state = "active"
    /\ handlers' = [handlers EXCEPT ![h] = [Idle EXCEPT !.step = "bind", !.rec = r, !.party = p]]
    /\ UNCHANGED <<recs, streams, ssrc_map>>

\* Its socket binds or does not; a fork of that name is replaced.
add_stream(h) ==
    /\ handlers[h].step = "bind"
    /\ \/ /\ streams' = streams \cup {<<handlers[h].rec, handlers[h].party>>}
          /\ handlers' = [handlers EXCEPT ![h].step = "enter"]
       \/ Returns(h) /\ UNCHANGED streams
    /\ UNCHANGED <<recs, ssrc_map>>

enter_ssrc(h) ==
    LET f == <<handlers[h].rec, handlers[h].party>>
    IN  /\ handlers[h].step = "enter"
        /\ ssrc_map' = [ssrc_map EXCEPT ![Ssrc(f)] = f]
        /\ Returns(h)
        /\ UNCHANGED <<recs, streams>>

\* A packet of p for recording r; dropped at once when r is paused.
forward_rtp(h, r, p) ==
    /\ handlers[h].step = "idle" /\ recs[r].state = "active" /\ ~recs[r].paused
    /\ handlers' = [handlers EXCEPT ![h] =
          [Idle EXCEPT !.step = "send", !.rec = r, !.party = p, !.silenced = p \in recs[r].muted]]
    /\ UNCHANGED <<recs, streams, ssrc_map>>

\* The fork a packet that is being forwarded reaches.
Reached(h) == LET f == ssrc_map[Ssrc(<<handlers[h].rec, handlers[h].party>>)]
              IN  IF f \in streams THEN f ELSE NoFork

forward_by_ssrc(h) ==
    /\ handlers[h].step = "send"
    /\ Returns(h)
    /\ UNCHANGED <<recs, streams, ssrc_map>>

-----------------------------------------------------------------------------
(* stop_recording, lock by lock.                                           *)

stop_recording(h, r) ==
    /\ MayStart(h, r) /\ recs[r].state = "active"
    /\ recs' = [recs EXCEPT ![r].stop_time = TRUE]
    /\ GoesOn(h, "bye", r)
    /\ UNCHANGED <<streams, ssrc_map>>

\* No BYE for a dialog that is not confirmed: the call fails here.  Of the
\* streams only those in stream_ids are going to be removed.
create_bye(h) ==
    /\ handlers[h].step = "bye"
    /\ IF recs[handlers[h].rec].dialog = "Confirmed"
         THEN handlers' = [handlers EXCEPT ![h].step = "unfork", ![h].left = Parties \ Joiners]
         ELSE Returns(h)
    /\ UNCHANGED <<recs, streams, ssrc_map>>

\* The streams are named by the call id and stay in the forker.
remove_stream_misnamed(h) ==
    \E p \in handlers[h].left :
       /\ handlers[h].step = "unfork"
       /\ recs' = [recs EXCEPT ![handlers[h].rec].keys = @ \ {p}]
       /\ handlers' = [handlers EXCEPT ![h].left = @ \ {p}]
       /\ UNCHANGED <<streams, ssrc_map>>

\* One stream is taken out with its SSRC, whoever the SSRC now leads to, and its key.
remove_stream(h) ==
    \E p \in handlers[h].left :
       LET f == <<handlers[h].rec, p>>
       IN  /\ handlers[h].step = "unfork"
           /\ streams' = streams \ {f}
           /\ ssrc_map' = IF f \in streams THEN [ssrc_map EXCEPT ![Ssrc(f)] = NoFork] ELSE ssrc_map
           /\ recs' = [recs EXCEPT ![f[1]].keys = @ \ {p}]
           /\ handlers' = [handlers EXCEPT ![h].left = @ \ {p}]

\* A dialog that another stop has taken out makes this one fail.
terminate_dialog(h) ==
    LET r == handlers[h].rec
    IN  /\ handlers[h].step = "unfork" /\ handlers[h].left = {}
        /\ IF recs[r].listed
             THEN /\ recs' = [recs EXCEPT ![r].listed = FALSE, ![r].dialog = "Terminated"]
                  /\ handlers' = [handlers EXCEPT ![h].step = "remove"]
             ELSE Returns(h) /\ UNCHANGED recs
        /\ UNCHANGED <<streams, ssrc_map>>

remove_session(h) ==
    /\ handlers[h].step = "remove"
    /\ recs' = [recs EXCEPT ![handlers[h].rec].state = "gone"]
    /\ Returns(h)
    /\ UNCHANGED <<streams, ssrc_map>>

SiprecNext ==
    \/ \E r \in Recordings : \/ start_recording(r) \/ start_fails(r)
                             \/ confirm_session_dialog(r) \/ failover_to_backup(r)
    \/ \E r \in Recordings, p \in Parties : mute_participant(r, p) \/ unmute_participant(r, p)
    \/ \E h \in Handlers, r \in Recordings :
          \/ pause_recording(h, r) \/ resume_recording(h, r)
          \/ update_session_metadata(h, r) \/ stop_recording(h, r)
          \/ \E p \in Parties : add_forked_stream(h, r, p) \/ forward_rtp(h, r, p)
    \/ \E h \in Handlers :
          \/ build_metadata_reinvite(h) \/ add_stream(h) \/ enter_ssrc(h) \/ forward_by_ssrc(h)
          \/ create_bye(h) \/ remove_stream(h) \/ terminate_dialog(h) \/ remove_session(h)

SiprecSpec == SiprecInit /\ [][SiprecNext]_siprecVars

-----------------------------------------------------------------------------
\* The packet h is forwarding is sent to fork f in this step.
SendsTo(h, f) == handlers[h].step = "send" /\ handlers'[h].step = "idle" /\ Reached(h) = f

\* Once stop_recording has ended a recording no packet reaches the streams it
\* was started with any more, not even one whose forward_rtp had passed the
\* check of the session before the stop began (src.rs:729, forking.rs:148).
StopIsFinal ==
    [][\A h \in Handlers, f \in Forks :
          SendsTo(h, f) /\ f[2] \notin Joiners => recs[f[1]].state # "gone"]_siprecVars

\* src.rs:728 "Stop RTP forking for all streams": the stream of a participant
\* who joined later as well.
AllForkingStops ==
    [][\A h \in Handlers, f \in Forks : SendsTo(h, f) => recs[f[1]].state # "gone"]_siprecVars

\* When no re-INVITE is under way, the one with the highest CSeq has told the
\* recording server whether the recording is paused: pauses, resumptions and
\* updates never leave it with the other answer (src.rs:512, 568, 662).
PauseTold ==
    \A r \in Recordings :
       (recs[r].state = "active" /\ \A h \in Handlers : handlers[h].rec = r => handlers[h].step # "reinvite")
          => (recs[r].paused <=> recs[r].told = "Paused")

\* A participant muted before a packet of theirs came in is not recorded
\* (src.rs:598: "Their audio stops being forwarded to the SRS").
ConsentKept ==
    [][\A h \in Handlers : ~(handlers[h].silenced /\ SendsTo(h, <<handlers[h].rec, handlers[h].party>>))]_siprecVars

\* While a recording is paused no packet goes to its streams (src.rs:479:
\* "dropping here ensures no audio hits the recording file while paused").
SilentWhilePaused ==
    [][\A h \in Handlers, f \in Forks : SendsTo(h, f) => ~recs[f[1]].paused]_siprecVars

=============================================================================
