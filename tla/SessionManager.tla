--------------------------- MODULE SessionManager ---------------------------
(***************************************************************************)
(* The life of two-party sessions: forge-engine's SessionManager           *)
(* (manager.rs), MediaSession's state machine, port release and Drop       *)
(* (session.rs) and the part of ForwardingEngine's loop that ends it       *)
(* (forwarding.rs).                                                        *)
(*                                                                         *)
(* Three kinds of actor run the code and interleave at its awaits: API     *)
(* handlers, the timeout monitor, and one forwarding loop per session,     *)
(* named by its session.  stop_forwarding is run by any of them.  A        *)
(* session object lives while the map, an actor or its loop holds an Arc   *)
(* to it.  Both legs' pairs are drawn in one step here: PortAllocation has *)
(* the draws and binds one by one.  No session here has a supervisor.      *)
(***************************************************************************)
EXTENDS PortLedger

CONSTANTS CallIds,
          Sess,         \* session objects, each born at most once
          Handlers,     \* API handlers running at the same time
          Monitor,      \* the timeout monitoring task
          None,
          MinFree       \* MediaSessionConfig.min_free_port_pairs

Callers == Handlers \union {Monitor}
Actors == Callers \union Sess

ASSUME ManagerAssumption == /\ MinFree \in Nat
                            /\ Monitor \notin Handlers
                            /\ Callers \intersect Sess = {}
                            /\ None \notin Callers \union Sess \union CallIds

VARIABLES
    sessions,   \* the DashMap: call id -> session
    state,      \* MediaSession.state; "unborn" before construction
    call,       \* MediaSession.call_id
    legs,       \* the pairs of MediaSession.legs
    released,   \* MediaSession.ports_deallocated
    giving,     \* pairs the winner of the compare_exchange has yet to give
    handle,     \* is the loop's JoinHandle in forwarding_tasks?
    aborted,    \* has the loop's JoinHandle been aborted?
    idle,       \* is last_activity older than session_timeout?
    at, on,     \* each actor's place in the code, and the session it holds
                \* an Arc to, or the call id it is creating
    due,        \* the ids cleanup_timedout_sessions has collected
    lostBuilding, lostCancelled
                \* pairs nobody will give back, for the properties only: a
                \* constructor failed, or the task giving them was dropped

sessionVars == <<state, call, legs, released, giving, handle, aborted, idle>>
lost == <<lostBuilding, lostCancelled>>
vars == <<free, taken, sessions, sessionVars, at, on, due, lost>>

Init == /\ free = Pairs /\ taken = {}
        /\ sessions = [c \in CallIds |-> None]
        /\ state = [s \in Sess |-> "unborn"]
        /\ call = [s \in Sess |-> None]
        /\ legs = [s \in Sess |-> {}]
        /\ released = [s \in Sess |-> FALSE]
        /\ giving = [s \in Sess |-> {}]
        /\ handle = [s \in Sess |-> FALSE]
        /\ aborted = [s \in Sess |-> FALSE]
        /\ idle = [s \in Sess |-> FALSE]
        /\ at = [x \in Actors |-> IF x \in Callers THEN "ready" ELSE "none"]
        /\ on = [x \in Actors |-> IF x \in Callers THEN None ELSE x]
        /\ due = {}
        /\ lostBuilding = {} /\ lostCancelled = {}

(* Where an actor is inside stop_forwarding. *)
StopPlaces == {"stop", "drain", "terminate", "release", "give"}

Running(s) == at[s] \notin {"none", "ended"}

(* An Arc to the session exists; without one it is dropped. *)
Referenced(s) == \/ \E c \in CallIds : sessions[c] = s
                 \/ \E x \in Callers : on[x] = s
                 \/ Running(s)

(* stop_forwarding keeps forwarding_tasks locked from the drain to its end. *)
TasksUnlocked(s) ==
    \A x \in Actors : on[x] = s => at[x] \notin {"terminate", "release", "give"}

Goto(x, place) == at' = [at EXCEPT ![x] = place]

(* The actor's call returns, its Arc going with it. *)
Return(x) ==
    /\ Goto(x, CASE x = Monitor -> "cleanup"
                 [] x \in Handlers -> "ready"
                 [] x \in Sess -> "ended")
    /\ on' = IF x \in Callers THEN [on EXCEPT ![x] = None] ELSE on

-----------------------------------------------------------------------------
(* create_session_with_config, create_session_with_codecs *)

CheckNew(h, c) ==
    /\ at[h] = "ready"
    /\ sessions[c] = None
    /\ Goto(h, "create")
    /\ on' = [on EXCEPT ![h] = c]
    /\ UNCHANGED <<free, taken, sessions, sessionVars, due, lost>>

(* allocate_leg_sockets: both pairs or neither. *)
TakeBoth(ps) == /\ ps \in SUBSET free /\ Cardinality(ps) = 2
                /\ Cardinality(free) > MinFree + 1
                /\ free' = free \ ps
                /\ taken' = taken \union ps

(* The session is built and inserted, over whatever the map now has. *)
Create(h) ==
    /\ at[h] = "create"
    /\ \E s \in Sess, ps \in SUBSET free :
          /\ state[s] = "unborn"
          /\ TakeBoth(ps)
          /\ state' = [state EXCEPT ![s] = "Initializing"]
          /\ call' = [call EXCEPT ![s] = on[h]]
          /\ legs' = [legs EXCEPT ![s] = ps]
          /\ sessions' = [sessions EXCEPT ![on[h]] = s]
          /\ on' = [on EXCEPT ![h] = s]
    /\ Goto(h, "return")
    /\ UNCHANGED <<released, giving, handle, aborted, idle, due, lost>>

CreateRefused(h) ==
    /\ at[h] = "create"
    /\ Cardinality(free) <= MinFree + 1
    /\ Return(h)
    /\ UNCHANGED <<free, taken, sessions, sessionVars, due, lost>>

(* The detector or a codec runtime does not build: `?' returns with the    *)
(* guards already disarmed and no MediaSession to drop.                    *)
CreateFails(h) ==
    /\ at[h] = "create"
    /\ \E ps \in SUBSET free : /\ TakeBoth(ps)
                               /\ lostBuilding' = lostBuilding \union ps
    /\ Return(h)
    /\ UNCHANGED <<sessions, sessionVars, due, lostCancelled>>

(* The handler answers and drops its Arc. *)
CreateReturns(h) ==
    /\ at[h] = "return"
    /\ Return(h)
    /\ UNCHANGED <<free, taken, sessions, sessionVars, due, lost>>

-----------------------------------------------------------------------------
(* start_session *)

GetSession(h, c) ==
    /\ at[h] = "ready"
    /\ sessions[c] # None
    /\ on' = [on EXCEPT ![h] = sessions[c]]
    /\ Goto(h, "start")
    /\ UNCHANGED <<free, taken, sessions, sessionVars, due, lost>>

(* MediaSession::start_forwarding: Initializing becomes Active under the   *)
(* write lock, which is then dropped.                                      *)
Activate(h) ==
    /\ at[h] = "start"
    /\ IF state[on[h]] = "Initializing"
          THEN /\ state' = [state EXCEPT ![on[h]] = "Active"]
               /\ Goto(h, "spawn")
               /\ UNCHANGED on
          ELSE /\ Return(h)
               /\ UNCHANGED state
    /\ UNCHANGED <<free, taken, sessions, call, legs, released, giving, handle,
                   aborted, idle, due, lost>>

(* ForwardingEngine::start_forwarding reads the state again. *)
Spawn(h) ==
    /\ at[h] = "spawn"
    /\ IF state[on[h]] = "Active"
          THEN /\ at' = [at EXCEPT ![h] = "push", ![on[h]] = "run"]
               /\ UNCHANGED on
          ELSE Return(h)
    /\ UNCHANGED <<free, taken, sessions, sessionVars, due, lost>>

Push(h) ==
    /\ at[h] = "push" /\ TasksUnlocked(on[h])
    /\ handle' = [handle EXCEPT ![on[h]] = TRUE]
    /\ Return(h)
    /\ UNCHANGED <<free, taken, sessions, state, call, legs, released, giving,
                   aborted, idle, due, lost>>

-----------------------------------------------------------------------------
(* stop_session and stop_forwarding *)

RemoveAndStop(x, c) ==
    /\ sessions[c] # None
    /\ sessions' = [sessions EXCEPT ![c] = None]
    /\ on' = [on EXCEPT ![x] = sessions[c]]
    /\ Goto(x, "stop")

StopSession(h, c) ==
    /\ at[h] = "ready"
    /\ RemoveAndStop(h, c)
    /\ UNCHANGED <<free, taken, sessionVars, due, lost>>

(* Mutant: the test for Terminated is dropped. *)
StopCheck_always(x) ==
    /\ at[x] = "stop"
    /\ state' = [state EXCEPT ![on[x]] = "Terminating"]
    /\ Goto(x, "drain")
    /\ UNCHANGED <<free, taken, sessions, call, legs, released, giving, handle,
                   aborted, idle, on, due, lost>>

StopCheck(x) ==
    /\ at[x] = "stop"
    /\ IF state[on[x]] = "Terminated"
          THEN Return(x) /\ UNCHANGED state
          ELSE /\ state' = [state EXCEPT ![on[x]] = "Terminating"]
               /\ Goto(x, "drain")
               /\ UNCHANGED on
    /\ UNCHANGED <<free, taken, sessions, call, legs, released, giving, handle,
                   aborted, idle, due, lost>>

(* The loop's handle is aborted, by the loop itself if it is the actor. *)
StopDrain(x) ==
    /\ at[x] = "drain" /\ TasksUnlocked(on[x])
    /\ aborted' = [aborted EXCEPT ![on[x]] = @ \/ handle[on[x]]]
    /\ handle' = [handle EXCEPT ![on[x]] = FALSE]
    /\ Goto(x, "terminate")
    /\ UNCHANGED <<free, taken, sessions, state, call, legs, released, giving,
                   idle, on, due, lost>>

StopTerminate(x) ==
    /\ at[x] = "terminate"
    /\ state' = [state EXCEPT ![on[x]] = "Terminated"]
    /\ Goto(x, "release")
    /\ UNCHANGED <<free, taken, sessions, call, legs, released, giving, handle,
                   aborted, idle, on, due, lost>>

(* Mutant: deallocate_ports without the compare_exchange. *)
StopRelease_always(x) ==
    /\ at[x] = "release"
    /\ released' = [released EXCEPT ![on[x]] = TRUE]
    /\ giving' = [giving EXCEPT ![on[x]] = legs[on[x]]]
    /\ Goto(x, "give")
    /\ UNCHANGED <<free, taken, sessions, state, call, legs, handle, aborted,
                   idle, on, due, lost>>

(* Mutant: deallocate_ports gives back leg A's pair only. *)
StopRelease_one_leg(x) ==
    /\ at[x] = "release"
    /\ \E p \in legs[on[x]] : giving' = [giving EXCEPT ![on[x]] = {p}]
    /\ released' = [released EXCEPT ![on[x]] = TRUE]
    /\ Goto(x, "give")
    /\ UNCHANGED <<free, taken, sessions, state, call, legs, handle, aborted,
                   idle, on, due, lost>>

(* deallocate_ports: the compare_exchange on ports_deallocated. *)
StopRelease(x) ==
    /\ at[x] = "release"
    /\ IF released[on[x]]
          THEN Return(x) /\ UNCHANGED <<released, giving>>
          ELSE /\ released' = [released EXCEPT ![on[x]] = TRUE]
               /\ giving' = [giving EXCEPT ![on[x]] = legs[on[x]]]
               /\ Goto(x, "give")
               /\ UNCHANGED on
    /\ UNCHANGED <<free, taken, sessions, state, call, legs, handle, aborted,
                   idle, due, lost>>

(* One pair goes back; each is an await on the pool's Mutex. *)
GivePair(s, p) == /\ p \in giving[s]
                  /\ Give(p)
                  /\ giving' = [giving EXCEPT ![s] = @ \ {p}]

StopGive(x) ==
    /\ at[x] = "give"
    /\ \/ \E p \in Pairs : GivePair(on[x], p) /\ UNCHANGED <<at, on>>
       \/ /\ giving[on[x]] = {} /\ Return(x)
          /\ UNCHANGED <<free, taken, giving>>
    /\ UNCHANGED <<sessions, state, call, legs, released, handle, aborted, idle,
                   due, lost>>

Stop(x) == StopCheck(x) \/ StopDrain(x) \/ StopTerminate(x) \/ StopRelease(x) \/ StopGive(x)

-----------------------------------------------------------------------------
(* The monitor: cleanup_timedout_sessions *)

Collect ==
    /\ at[Monitor] = "ready"
    /\ due' = {c \in CallIds : sessions[c] # None /\ idle[sessions[c]]}
    /\ due' # {}
    /\ Goto(Monitor, "cleanup")
    /\ UNCHANGED <<free, taken, sessions, sessionVars, on, lost>>

(* An id that is gone by now is logged and skipped. *)
CleanupNext ==
    /\ at[Monitor] = "cleanup"
    /\ \E c \in due :
          /\ due' = due \ {c}
          /\ \/ RemoveAndStop(Monitor, c)
             \/ sessions[c] = None /\ UNCHANGED <<sessions, at, on>>
    /\ UNCHANGED <<free, taken, sessionVars, lost>>

CleanupDone ==
    /\ at[Monitor] = "cleanup" /\ due = {}
    /\ Goto(Monitor, "ready")
    /\ UNCHANGED <<free, taken, sessions, sessionVars, on, due, lost>>

-----------------------------------------------------------------------------
(* forwarding_loop, as far as it ends *)

(* Mutant: the loop reads the state once, before it starts. *)
LoopSeesState_never(s) ==
    /\ FALSE
    /\ Goto(s, "ended")
    /\ UNCHANGED <<free, taken, sessions, sessionVars, on, due, lost>>

LoopSeesState(s) ==
    /\ at[s] = "run" /\ state[s] # "Active"
    /\ Goto(s, "ended")
    /\ UNCHANGED <<free, taken, sessions, sessionVars, on, due, lost>>

(* The 20 ms tick finds the session timed out; the state was read before   *)
(* the select and may have changed since.                                  *)
LoopTimesOut(s) ==
    /\ at[s] = "run" /\ idle[s]
    /\ Goto(s, "stop")
    /\ UNCHANGED <<free, taken, sessions, sessionVars, on, due, lost>>

LoopReceives(s) ==
    /\ at[s] = "run" /\ idle[s]
    /\ idle' = [idle EXCEPT ![s] = FALSE]
    /\ UNCHANGED <<free, taken, sessions, state, call, legs, released, giving,
                   handle, aborted, at, on, due, lost>>

(* An aborted task ends at the next await that suspends: in the select,    *)
(* waiting for forwarding_tasks, or in its own stop_forwarding when another *)
(* lock it awaits is contended.  What it had yet to give back is forgotten. *)
LoopCancelled(s) ==
    /\ aborted[s] /\ at[s] \in StopPlaces \union {"run"}
    /\ IF at[s] = "give"
          THEN /\ giving' = [giving EXCEPT ![s] = {}]
               /\ lostCancelled' = lostCancelled \union giving[s]
          ELSE UNCHANGED <<giving, lostCancelled>>
    /\ Goto(s, "ended")
    /\ UNCHANGED <<free, taken, sessions, state, call, legs, released, handle,
                   aborted, idle, on, due, lostBuilding>>

-----------------------------------------------------------------------------
(* Mutant: a dropped session releases nothing of its own. *)
DropTask_finishes_only(s) ==
    /\ state[s] # "unborn" /\ ~ Referenced(s)
    /\ \E p \in Pairs : GivePair(s, p)
    /\ UNCHANGED <<sessions, state, call, legs, released, handle, aborted, idle,
                   at, on, due, lost>>

(* Drop for MediaSession: the spawned task wins the same compare_exchange. *)
DropTask(s) ==
    /\ state[s] # "unborn" /\ ~ Referenced(s)
    /\ \/ /\ ~ released[s]
          /\ released' = [released EXCEPT ![s] = TRUE]
          /\ giving' = [giving EXCEPT ![s] = legs[s]]
          /\ UNCHANGED <<free, taken>>
       \/ \E p \in Pairs : GivePair(s, p) /\ UNCHANGED released
    /\ UNCHANGED <<sessions, state, call, legs, handle, aborted, idle, at, on, due, lost>>

(* session_timeout passes without a packet. *)
GoIdle(s) ==
    /\ state[s] # "unborn" /\ ~ idle[s]
    /\ idle' = [idle EXCEPT ![s] = TRUE]
    /\ UNCHANGED <<free, taken, sessions, state, call, legs, released, giving,
                   handle, aborted, at, on, due, lost>>

-----------------------------------------------------------------------------
Handle(h) == \/ Create(h) \/ CreateRefused(h) \/ CreateFails(h) \/ CreateReturns(h)
             \/ Activate(h) \/ Spawn(h) \/ Push(h) \/ Stop(h)
Clean == Collect \/ CleanupNext \/ CleanupDone \/ Stop(Monitor)
Loop(s) == LoopSeesState(s) \/ LoopTimesOut(s) \/ LoopCancelled(s) \/ Stop(s)

Next == \/ \E h \in Handlers, c \in CallIds :
              CheckNew(h, c) \/ GetSession(h, c) \/ StopSession(h, c)
        \/ \E h \in Handlers : Handle(h)
        \/ Clean
        \/ \E s \in Sess : Loop(s) \/ LoopReceives(s) \/ DropTask(s) \/ GoIdle(s)

(* The runtime polls every task that can proceed; which requests and       *)
(* packets come is the environment's.                                      *)
Fairness == /\ \A h \in Handlers : WF_vars(Handle(h))
            /\ WF_vars(Clean)
            /\ \A s \in Sess : WF_vars(Loop(s)) /\ WF_vars(DropTask(s))

Spec == Init /\ [][Next]_vars /\ Fairness

-----------------------------------------------------------------------------
TypeOK ==
    /\ taken \in SUBSET Pairs /\ free = Pairs \ taken
    /\ sessions \in [CallIds -> Sess \union {None}]
    /\ state \in [Sess -> {"unborn", "Initializing", "Active", "Terminating", "Terminated"}]
    /\ call \in [Sess -> CallIds \union {None}]
    /\ legs \in [Sess -> SUBSET Pairs]
    /\ giving \in [Sess -> SUBSET Pairs]
    /\ released \in [Sess -> BOOLEAN] /\ handle \in [Sess -> BOOLEAN]
    /\ aborted \in [Sess -> BOOLEAN] /\ idle \in [Sess -> BOOLEAN]
    /\ at \in [Actors -> StopPlaces \union {"ready", "create", "return", "start", "spawn",
                                            "push", "cleanup", "none", "run", "ended"}]
    /\ on \in [Actors -> Sess \union CallIds \union {None}]
    /\ due \in SUBSET CallIds
    /\ lostBuilding \in SUBSET taken /\ lostCancelled \in SUBSET taken

(* Until a session's pairs are given back they are its own: the pool has   *)
(* them taken and no other session has them.  Violated if any stop path    *)
(* gives a pair back twice.                                                *)
Mine(s) == IF released[s] THEN giving[s] ELSE legs[s]
PairsAreExclusive ==
    /\ \A s \in Sess : Mine(s) \subseteq taken
    /\ \A s, r \in Sess : s # r => Mine(s) \intersect Mine(r) = {}

(* Every pair out of the pool belongs to a session that will give it back, *)
(* or was lost in one of the two ways below.                               *)
NoPairLeaked ==
    \A p \in taken : \/ \E s \in Sess : p \in Mine(s)
                    \/ p \in lostBuilding \union lostCancelled

(* The comment on PortAllocationGuard: it "returns allocated ports if      *)
(* construction fails before the session owns them".                       *)
ConstructionKeepsPairs == lostBuilding = {}

(* stop_forwarding: "Deallocate ports - guaranteed cleanup". *)
CleanupIsGuaranteed == lostCancelled = {}

(* Two live socket pairs are never bound to one port: SO_REUSEADDR would   *)
(* let both binds succeed (the comment on SessionManager::port_pool).      *)
OneSocketPerPort ==
    \A s, r \in Sess : s # r /\ Referenced(s) /\ Referenced(r) => legs[s] \intersect legs[r] = {}

(* MediaSession::call_id is the "Unique session/call ID": create_session    *)
(* refuses an id that exists.  So a call has one session that runs, other  *)
(* than those a stop has taken out of the map and has yet to change.       *)
Stopping(s) == \E x \in Actors : on[x] = s /\ at[x] = "stop"
OneSessionPerCall ==
    \A s, r \in Sess :
       /\ s # r /\ {state[s], state[r]} \subseteq {"Initializing", "Active"}
       /\ ~ Stopping(s) /\ ~ Stopping(r)
       => call[s] # call[r]

(* Terminated is final, and a session is activated at most once. *)
StatesAdvance ==
    [][\A s \in Sess : /\ state[s] = "Terminated" => state'[s] = "Terminated"
                       /\ state[s] = "Terminating" => state'[s] # "Active"]_state

(* cleanup_timedout_sessions stops the sessions that have timed out. *)
CleanupStopsTimedOut ==
    [][\A c \in CallIds : CleanupNext /\ sessions[c] # None /\ sessions'[c] = None
                          => idle[sessions[c]]]_vars

(* A terminated session's pairs all come back, whoever stopped it: a stop  *)
(* that is cancelled before the compare_exchange leaves the release to     *)
(* Drop, and one cancelled after it leaves nothing to anybody.             *)
TerminatedReleases ==
    \A s \in Sess : state[s] = "Terminated" ~> released[s] /\ giving[s] = {}

(* A stopped session's forwarding loop ends, even one whose handle was     *)
(* pushed after the stop drained them.                                     *)
TerminatedLoopEnds == \A s \in Sess : state[s] = "Terminated" ~> ~ Running(s)
=============================================================================
