----------------------------- MODULE AISessions -----------------------------
(***************************************************************************)
(* The AI session of one call (crates/forge-engine/src/ai_integration.rs): *)
(* attaching and detaching it, its record in the persistence backend, and  *)
(* the tasks that connect it again after the connection drops or the       *)
(* server restarts.  An operation is a task that stops at every await;     *)
(* between two stops another may run.                                      *)
(***************************************************************************)
EXTENDS Naturals, FiniteSets

CONSTANTS Tasks,        \* operations under way at the same time
          MaxAttempts,  \* max_reconnect_attempts
          MaxDrops,     \* bound: connections the service drops
          MaxCrashes,   \* bound: crashes of the server
          MaxFaults,    \* bound: calls of the persistence backend that fail
          Unreachable,  \* may a connection attempt fail?
          KeyMayMiss,   \* may the API key be missing from a configuration and the environment?
          Overlap       \* may attach and detach run beside other operations?

ASSUME AIAssumption == /\ MaxAttempts \in Nat \ {0} /\ MaxDrops \in Nat /\ MaxCrashes \in Nat
                       /\ MaxFaults \in Nat
                       /\ {Unreachable, KeyMayMiss, Overlap} \subseteq BOOLEAN

NoRecord == [state |-> "none", attempts |-> 0]

VARIABLES session,  \* the entry in sessions: none, connected or dropped
          config,   \* is there an entry in configs?
          record,   \* what the backend has stored
          task,     \* each task's place, operation and copy of the record
          restored, \* has restore_sessions been called since the start?
          faulty,   \* has the backend failed since the server started?
          drops, crashes, faults

faultVars == <<faulty, faults>>
aiVars == <<session, config, record, task, restored, drops, crashes, faultVars>>

Idle == [at |-> "idle", op |-> "none", copy |-> NoRecord]

AIInit == /\ session = "none" /\ config = FALSE /\ record = NoRecord
          /\ task = [t \in Tasks |-> Idle]
          /\ restored = TRUE /\ drops = 0 /\ crashes = 0
          /\ faulty = FALSE /\ faults = 0

Busy == {t \in Tasks : task[t].at # "idle"}
Goes(t, at) == task' = [task EXCEPT ![t].at = at]
Ends(t) == task' = [task EXCEPT ![t] = Idle]
Starts(t, op, at, copy) ==
    /\ task[t].at = "idle"
    /\ task' = [task EXCEPT ![t] = [at |-> at, op |-> op, copy |-> copy]]

\* A call of the persistence backend that fails, and one that works.
Fault == faults < MaxFaults /\ faults' = faults + 1 /\ faulty' = TRUE
Works == UNCHANGED faultVars

\* A write of the record; one that fails may have been done.
Saved(r) == Works /\ record' = r
Unsaved(r) == Fault /\ record' \in {record, r}
Saves(r) == Saved(r) \/ Unsaved(r)

\* A request of the call's owner.
MayAsk == restored /\ (Overlap \/ Busy = {})

-----------------------------------------------------------------------------
(* attach_ai, by itself or as the last part of a reconnection *)

attach_ai(t) ==
    /\ MayAsk /\ Starts(t, "attach", "check", NoRecord)
    /\ UNCHANGED <<session, config, record, restored, drops, crashes, faultVars>>

\* Refused if there is an entry in the map, whatever became of its connection.
AttachCheck(t) ==
    /\ task[t].at = "check"
    /\ IF session # "none" THEN Goes(t, "refused") /\ UNCHANGED config
                           ELSE Goes(t, "connect") /\ config' = TRUE
    /\ UNCHANGED <<session, record, restored, drops, crashes, faultVars>>

\* The entry is replaced if another task made one meanwhile.
AttachConnect(t) ==
    /\ task[t].at = "connect"
    /\ \/ session' = "connected" /\ Goes(t, "save")
       \/ Unreachable /\ Goes(t, "refused") /\ UNCHANGED session
    /\ UNCHANGED <<config, record, restored, drops, crashes, faultVars>>

Connected == [state |-> "Connected", attempts |-> 0]

\* An error is logged and the call is attached all the same.
AttachSave(t) ==
    /\ task[t].at = "save"
    /\ Saves(Connected)
    /\ IF task[t].op = "attach" THEN Ends(t) ELSE Goes(t, "saveConnected")
    /\ UNCHANGED <<session, config, restored, drops, crashes>>

AttachRefused(t) ==
    /\ task[t].at = "refused"
    /\ IF task[t].op = "attach" THEN Ends(t) ELSE Goes(t, "saveDisconnected")
    /\ UNCHANGED <<session, config, record, restored, drops, crashes, faultVars>>

-----------------------------------------------------------------------------
(* detach_ai *)

detach_ai(t) ==
    /\ MayAsk /\ session # "none"
    /\ Starts(t, "detach", "disconnect", NoRecord)
    /\ session' = "none" /\ config' = FALSE
    /\ UNCHANGED <<record, restored, drops, crashes, faultVars>>

\* An error ends the operation here, and the record stays.
DetachDisconnect(t) ==
    /\ task[t].at = "disconnect"
    /\ Goes(t, "delete") \/ (Unreachable /\ Ends(t))
    /\ UNCHANGED <<session, config, record, restored, drops, crashes, faultVars>>

DetachDelete(t) ==
    /\ task[t].at = "delete"
    /\ Saves(NoRecord) /\ Ends(t)
    /\ UNCHANGED <<session, config, restored, drops, crashes>>

-----------------------------------------------------------------------------
(* try_reconnect and restore_sessions.  A reconnection returns the error   *)
(* of a save and leaves it at that; a restore ignores it.                  *)

\* The last await before the record is written; configs is looked up after it.
ReconnectLoad(t) ==
    /\ task[t].at = "load"
    /\ \/ /\ Works
          /\ IF record = NoRecord \/ (record.attempts < MaxAttempts /\ ~config)
             THEN Ends(t)
             ELSE task' = [task EXCEPT ![t].at = "mark", ![t].copy = record]
       \/ Fault /\ Ends(t)
    /\ UNCHANGED <<session, config, record, restored, drops, crashes>>

\* No attempt is left, or the API key is missing.
ReconnectRefused(t) ==
    /\ task[t].at = "mark"
    /\ IF task[t].copy.attempts >= MaxAttempts
       THEN Saves([task[t].copy EXCEPT !.state = "Failed"])
       ELSE KeyMayMiss /\ Saves([task[t].copy EXCEPT !.state = "Disconnected"])
    /\ Ends(t)
    /\ UNCHANGED <<session, config, restored, drops, crashes>>

ReconnectMark(t) ==
    /\ task[t].at = "mark" /\ task[t].copy.attempts < MaxAttempts
    /\ LET d == [state |-> "Reconnecting", attempts |-> task[t].copy.attempts + 1]
       IN  \/ /\ Saved(d) \/ (task[t].op = "restore" /\ Unsaved(d))
              /\ task' = [task EXCEPT ![t].at = "check", ![t].copy = d]
           \/ task[t].op = "reconnect" /\ Unsaved(d) /\ Ends(t)
    /\ UNCHANGED <<session, config, restored, drops, crashes>>

\* attach_ai has returned: the copy is saved, over what is stored by now.
ReconnectSave(t) ==
    /\ task[t].at \in {"saveConnected", "saveDisconnected"}
    /\ Saves(IF task[t].at = "saveConnected" THEN Connected
             ELSE [task[t].copy EXCEPT !.state = "Disconnected"])
    /\ Ends(t)
    /\ UNCHANGED <<session, config, restored, drops, crashes>>

try_reconnect(t) == Starts(t, "reconnect", "load", NoRecord)

\* Mutant: a session whose reconnection the restart interrupted is left alone.
restore_sessions_disconnected(t) ==
    /\ ~restored /\ restored' = TRUE
    /\ IF record.state \in {"Connected", "Disconnected"}
       THEN Starts(t, "restore", "mark", record) ELSE UNCHANGED task
    /\ UNCHANGED <<session, config, record, drops, crashes, faultVars>>

\* The copy is the one list_all returned, which may fail or miss the record.
restore_sessions(t) ==
    /\ ~restored /\ restored' = TRUE
    /\ \/ /\ Works
          /\ IF record # NoRecord THEN Starts(t, "restore", "mark", record) ELSE UNCHANGED task
       \/ Fault /\ UNCHANGED task
    /\ UNCHANGED <<session, config, record, drops, crashes>>

\* A round of the health check that finds the session disconnected.
HealthCheck(t) ==
    /\ restored /\ record.state = "Disconnected" /\ record.attempts < MaxAttempts
    /\ try_reconnect(t)
    /\ UNCHANGED <<session, config, record, restored, drops, crashes, faultVars>>

-----------------------------------------------------------------------------
(* handle_disconnection; the entry in the map stays. *)

handle_disconnection(t, auto_reconnect) ==
    /\ session = "dropped"
    /\ Starts(t, IF auto_reconnect THEN "handleAuto" ELSE "handle", "lookup", NoRecord)
    /\ UNCHANGED <<session, config, record, restored, drops, crashes, faultVars>>

Handled(t) == IF task[t].op = "handleAuto"
              THEN task' = [task EXCEPT ![t] = [at |-> "load", op |-> "reconnect", copy |-> NoRecord]]
              ELSE Ends(t)

HandleLoad(t) ==
    /\ task[t].at = "lookup"
    /\ \/ /\ Works /\ record # NoRecord
          /\ task' = [task EXCEPT ![t].at = "disconnected", ![t].copy = record]
       \/ Works /\ record = NoRecord /\ Handled(t)
       \/ Fault /\ Handled(t)
    /\ UNCHANGED <<session, config, record, restored, drops, crashes>>

HandleSave(t) ==
    /\ task[t].at = "disconnected"
    /\ Saves([task[t].copy EXCEPT !.state = "Disconnected"])
    /\ Handled(t)
    /\ UNCHANGED <<session, config, restored, drops, crashes>>

-----------------------------------------------------------------------------
(* The service and the server *)

Dropped ==
    /\ session = "connected" /\ drops < MaxDrops
    /\ session' = "dropped" /\ drops' = drops + 1
    /\ UNCHANGED <<config, record, task, restored, crashes, faultVars>>

Crash ==
    /\ crashes < MaxCrashes
    /\ session' = "none" /\ config' = FALSE
    /\ task' = [t \in Tasks |-> Idle]
    /\ restored' = FALSE
    /\ crashes' = crashes + 1
    /\ faulty' = FALSE
    /\ UNCHANGED <<record, drops, faults>>

TaskStep(t) == \/ AttachCheck(t) \/ AttachConnect(t) \/ AttachSave(t) \/ AttachRefused(t)
               \/ DetachDisconnect(t) \/ DetachDelete(t)
               \/ ReconnectLoad(t) \/ ReconnectRefused(t) \/ ReconnectMark(t)
               \/ ReconnectSave(t) \/ HandleLoad(t) \/ HandleSave(t)

Recovery(t) == \/ restore_sessions(t) \/ HealthCheck(t)
               \/ \E auto \in BOOLEAN : handle_disconnection(t, auto)

AINext == \/ \E t \in Tasks : attach_ai(t) \/ detach_ai(t) \/ TaskStep(t) \/ Recovery(t)
          \/ Dropped \/ Crash

\* Tasks are polled; the owner restores at the start, handles a drop it hears
\* of, and runs the health check.
AIFairness == /\ \A t \in Tasks : WF_aiVars(TaskStep(t))
              /\ WF_aiVars(\E t \in Tasks : restore_sessions(t))
              /\ WF_aiVars(\E t \in Tasks : HealthCheck(t))

AISpec == AIInit /\ [][AINext]_aiVars /\ AIFairness

-----------------------------------------------------------------------------
(* Properties *)

\* No record says for ever that a reconnection is under way, wherever in it
\* the connection fails or the server crashes, unless the backend has failed
\* since the server started: the attempt ends, or the restart takes it up
\* (restore_sessions, try_reconnect).  A failure of the backend is made good by
\* the next restart, not before: the health check looks for Disconnected only.
ReconnectionEnds == record.state = "Reconnecting" ~> record.state # "Reconnecting" \/ faulty

\* And at no time, as long as the backend works, does one say so with nobody at
\* it: a task is, or the server has just started and will restore it.
ReconnectionAttended ==
    record.state = "Reconnecting" /\ ~faulty =>
        ~restored \/ \E t \in Tasks : task[t].op \in {"reconnect", "restore"}

\* docs/AI_SESSION_PERSISTENCE.md: "Continue operating even if persistence
\* fails".
FaultsPass == record.state = "Reconnecting" ~> record.state # "Reconnecting"

\* "AI Session Persistence & Recovery enables AI-powered calls to survive
\* connection drops" (docs/AI_SESSION_PERSISTENCE.md): with a service that can
\* be reached, a session whose drop was handled is connected again.
SurvivesDrops ==
    (session = "dropped" /\ record.state = "Disconnected") ~>
        (session # "dropped" \/ crashes > 0)
=============================================================================
