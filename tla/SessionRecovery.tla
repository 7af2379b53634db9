-------------------------- MODULE SessionRecovery --------------------------
(***************************************************************************)
(* What a failover carries over: the primary stores a record of each call  *)
(* in Redis (forge-engine/src/manager.rs and session.rs, forge-ha/src/     *)
(* state_sync.rs), and the standby that takes over makes sessions of the   *)
(* records (forge-ha/src/failover.rs), while it already takes calls of its *)
(* own.  A session's two pairs of ports stand as one.                      *)
(***************************************************************************)
EXTENDS Naturals, FiniteSets

CONSTANTS Calls,
          PortPairs,   \* the ports calls are on, on either instance
          StandbyRange,\* those of them in the standby's own pool
          NoPair,
          MaxNewCalls  \* bound: calls the standby sets up itself

ASSUME RecoveryAssumption == /\ StandbyRange \subseteq PortPairs /\ NoPair \notin PortPairs
                             /\ MaxNewCalls \in Nat

VARIABLES primary,   \* the primary's sessions: each call's pair
          started,   \* those of them that are past Initializing
          unsynced,  \* calls inserted there and not yet stored, with their pairs
          crashed,
          stored,    \* the records: each call's pair
          unstartable, \* records of sessions that were past Initializing
          standby,   \* the standby's sessions
          marked,    \* pairs its pool has as allocated
          phase,     \* of its failover
          brokenOff, \* has an error ended it before the first record was recovered?
          keys,      \* keys of the scan, not read yet
          loaded,    \* records read, not recovered yet: calls and pairs
          newCalls,
          hungUp,    \* calls that were stopped, on either instance
          owed,      \* calls of the primary that had a record when it crashed
          excused    \* those of them that something stood in the way of

takeoverVars == <<primary, started, unsynced, crashed, stored, unstartable, standby, marked,
                  phase, brokenOff, keys, loaded, newCalls, hungUp, owed, excused>>

failoverVars == <<phase, brokenOff, keys, loaded>>
standbyVars == <<standby, marked, failoverVars>>
primaryVars == <<primary, started, unsynced, crashed>>

NoCalls == [c \in Calls |-> NoPair]
In(sessions) == {c \in Calls : sessions[c] # NoPair}
Used(sessions) == {sessions[c] : c \in In(sessions)}

TakeoverInit ==
    /\ primary = NoCalls /\ started = {} /\ unsynced = {} /\ crashed = FALSE
    /\ stored = NoCalls /\ unstartable = {}
    /\ standby = NoCalls /\ marked = {}
    /\ phase = "Normal" /\ brokenOff = FALSE /\ keys = {} /\ loaded = {}
    /\ newCalls = 0 /\ hungUp = {} /\ owed = {} /\ excused = {}

-----------------------------------------------------------------------------
(* The primary *)

create_session(c, p) ==
    /\ ~crashed /\ c \notin In(primary) \union hungUp /\ p \notin Used(primary)
    /\ primary' = [primary EXCEPT ![c] = p]
    /\ unsynced' = unsynced \union {<<c, p>>}
    /\ UNCHANGED <<started, crashed, stored, unstartable, newCalls, hungUp, owed, excused>>
    /\ UNCHANGED standbyVars

\* The last part of create_session, with the session's state by then; a
\* session may have been started or stopped.  An error is logged, and the call
\* goes on.
sync_to_redis(r) ==
    /\ ~crashed /\ r \in unsynced
    /\ unsynced' = unsynced \ {r}
    /\ \/ /\ stored' = [stored EXCEPT ![r[1]] = r[2]]
          /\ unstartable' = IF r[1] \in started \union hungUp THEN unstartable \union {r[1]}
                                                            ELSE unstartable \ {r[1]}
       \/ UNCHANGED <<stored, unstartable>>
    /\ UNCHANGED <<primary, started, crashed, newCalls, hungUp, owed, excused>>
    /\ UNCHANGED standbyVars

\* The record is not written again.
start_session(c) ==
    /\ ~crashed /\ c \in In(primary) \ started
    /\ started' = started \union {c}
    /\ UNCHANGED <<primary, unsynced, crashed, stored, unstartable, newCalls, hungUp, owed,
                   excused>>
    /\ UNCHANGED standbyVars

\* Nothing deletes the record.
stop_session(c) ==
    /\ ~crashed /\ c \in In(primary)
    /\ primary' = [primary EXCEPT ![c] = NoPair]
    /\ started' = started \ {c}
    /\ hungUp' = hungUp \union {c}
    /\ UNCHANGED <<unsynced, crashed, stored, unstartable, newCalls, owed, excused>>
    /\ UNCHANGED standbyVars

PrimaryCrash ==
    /\ ~crashed /\ crashed' = TRUE
    /\ primary' = NoCalls /\ started' = {} /\ unsynced' = {}
    /\ owed' = In(primary) \intersect In(stored)
    /\ UNCHANGED <<stored, unstartable, newCalls, hungUp, excused>>
    /\ UNCHANGED standbyVars

\* The record's time to live ends; nothing refreshes it.
Expire(c) ==
    /\ c \in In(stored)
    /\ stored' = [stored EXCEPT ![c] = NoPair]
    /\ excused' = IF \E r \in loaded : r[1] = c THEN excused ELSE excused \union {c}
    /\ UNCHANGED <<primary, started, unsynced, crashed, unstartable, newCalls, hungUp, owed>>
    /\ UNCHANGED standbyVars

-----------------------------------------------------------------------------
(* The failover of the standby, once it has won the election:              *)
(* promote_to_primary and recover_state                                    *)

PhaseGoes(from, to) == phase = from /\ phase' = to

Recovers == UNCHANGED <<primaryVars, stored, unstartable, marked, newCalls, hungUp, owed>>

\* An error ends the failover, and its state stays Promoting.
promote_to_primary ==
    /\ crashed
    /\ \/ PhaseGoes("Normal", "Promoted") /\ UNCHANGED brokenOff
       \/ PhaseGoes("Normal", "Promoting") /\ brokenOff' = TRUE
    /\ UNCHANGED <<keys, loaded, standby, excused>> /\ Recovers

\* An error ends the recovery, no record being known, and the failover is
\* complete.
scan_match ==
    /\ \/ /\ PhaseGoes("Promoted", "Loading")
          /\ keys' = In(stored) /\ UNCHANGED <<brokenOff, excused>>
       \/ /\ PhaseGoes("Promoted", "Complete")
          /\ brokenOff' = TRUE /\ excused' = excused \union In(stored) /\ UNCHANGED keys
    /\ UNCHANGED <<loaded, standby>> /\ Recovers

\* A key whose value is gone is passed over; a record that cannot be read ends
\* the recovery, and those that were read are dropped.
load_all(c) ==
    /\ c \in keys
    /\ \/ /\ phase = "Loading"
          /\ keys' = keys \ {c}
          /\ loaded' = IF c \in In(stored) THEN loaded \union {<<c, stored[c]>>} ELSE loaded
          /\ UNCHANGED <<phase, brokenOff, excused>>
       \/ /\ PhaseGoes("Loading", "Complete") /\ brokenOff' = TRUE
          /\ keys' = {} /\ loaded' = {}
          /\ excused' = excused \union {c}
    /\ UNCHANGED standby /\ Recovers

Loaded ==
    /\ PhaseGoes("Loading", "Recovering") /\ keys = {}
    /\ UNCHANGED <<brokenOff, keys, loaded, standby, excused>> /\ Recovers

\* Its pair can be bound, and start_forwarding takes the session, which must be
\* Initializing.
Recoverable(r) == r[2] \notin Used(standby) /\ r[1] \notin unstartable

Recovered(r) == /\ Recoverable(r) /\ r[1] \notin In(standby)
                /\ standby' = [standby EXCEPT ![r[1]] = r[2]]
                /\ UNCHANGED excused

\* Another program may have its ports, and a detector or a codec may fail to be
\* built, of any session.
NotRecovered(r) == /\ r[1] \notin In(standby)
                   /\ excused' = excused \union {r[1]}
                   /\ UNCHANGED standby

\* Mutant: a session that cannot be made ends the recovery.
recover_session_or_stop(r) ==
    /\ phase = "Recovering"
    /\ \/ Recovered(r) /\ loaded' = loaded \ {r}
       \/ NotRecovered(r) /\ loaded' = {}
    /\ UNCHANGED <<phase, brokenOff, keys>> /\ Recovers

\* recover_session_from_state and from_state.  A call that is there already is
\* skipped.  The pair is bound as it is stored, and not marked in the pool; an
\* error fails this session and no other.
recover_session(r) ==
    /\ phase = "Recovering"
    /\ loaded' = loaded \ {r}
    /\ \/ r[1] \in In(standby) /\ UNCHANGED <<standby, excused>>
       \/ Recovered(r)
       \/ NotRecovered(r)
    /\ UNCHANGED <<phase, brokenOff, keys>> /\ Recovers

Complete ==
    /\ PhaseGoes("Recovering", "Complete") /\ loaded = {}
    /\ UNCHANGED <<brokenOff, keys, loaded, standby, excused>> /\ Recovers

-----------------------------------------------------------------------------
(* Calls of the standby's own *)

CreateHere(c, p) ==
    /\ phase # "Normal" /\ newCalls < MaxNewCalls
    /\ c \notin In(standby) \union hungUp
    /\ p \in StandbyRange \ marked /\ p \notin Used(standby)
    /\ standby' = [standby EXCEPT ![c] = p]
    /\ marked' = marked \union {p}
    /\ stored' = [stored EXCEPT ![c] = p]
    /\ newCalls' = newCalls + 1
    /\ UNCHANGED <<primaryVars, unstartable, failoverVars, hungUp, owed, excused>>

\* Of pairs that are not marked, giving back does nothing.
StopHere(c) ==
    /\ c \in In(standby)
    /\ standby' = [standby EXCEPT ![c] = NoPair]
    /\ marked' = marked \ {standby[c]}
    /\ hungUp' = hungUp \union {c}
    /\ excused' = excused \union {c}
    /\ UNCHANGED <<primaryVars, stored, unstartable, failoverVars, newCalls, owed>>

Failover == \/ promote_to_primary \/ scan_match \/ Loaded \/ Complete
            \/ \E c \in Calls : load_all(c)
            \/ \E r \in loaded : recover_session(r)

TakeoverNext ==
    \/ \E c \in Calls : \/ \E p \in PortPairs : create_session(c, p) \/ CreateHere(c, p)
                        \/ start_session(c) \/ stop_session(c) \/ Expire(c) \/ StopHere(c)
    \/ \E r \in unsynced : sync_to_redis(r)
    \/ PrimaryCrash \/ Failover

\* The orchestrator's task is polled to its end.
TakeoverFairness == WF_takeoverVars(Failover)

TakeoverSpec == TakeoverInit /\ [][TakeoverNext]_takeoverVars /\ TakeoverFairness

-----------------------------------------------------------------------------
(* Properties *)

\* Every call whose record outlives the primary goes on at the standby, unless
\* its record expires, its ports are in use there, it was started before its
\* record was written, its session cannot be built, or it is stopped: one
\* session that cannot be recovered costs no other one (recover_state).  But an
\* error in the promotion, in the scan or in the reading of any record ends the
\* failover before the first session is recovered, and costs every call
\* (execute_failover, load_all).
CallsCarriedOver == \A c \in Calls : c \in owed ~> c \in In(standby) \union excused \/ brokenOff

\* When the failover calls itself complete and was not broken off, no such call
\* has been passed over: each has its session, or something stood in the way of
\* its own (FailoverOrchestrator::recover_state).
NoneForgotten ==
    phase = "Complete" /\ ~brokenOff => owed \subseteq In(standby) \union excused

\* "Continue anyway - some state is better than no state" (execute_failover): a
\* record that cannot be read costs its own call.
SomeStateIsBetter ==
    phase = "Complete" => owed \subseteq In(standby) \union excused

\* "Session termination -> Immediate (delete after 60s)"
\* (docs/HA_IMPLEMENTATION_PLAN.md): a call that was stopped does not come back.
EndedStaysEnded == In(standby) \intersect hungUp = {}

\* "Reconstruct port pool from allocated ports" (docs/HA_IMPLEMENTATION_PLAN.md):
\* what a session is bound to is not free in the pool.
BoundIsMarked == Used(standby) \intersect StandbyRange \subseteq marked
=============================================================================
