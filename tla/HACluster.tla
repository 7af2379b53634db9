----------------------------- MODULE HACluster -----------------------------
(***************************************************************************)
(* forge-ha: instances that elect a primary through a Redis lock           *)
(* (election.rs), publish heartbeats and watch the primary's               *)
(* (heartbeat.rs), and take over when it fails (failover.rs,               *)
(* vip_manager.rs).                                                        *)
(*                                                                         *)
(* Time passes in units of LOCK_RENEWAL_INTERVAL_SECS.  A step that is due *)
(* is taken before time passes, so an instance is never slower than its    *)
(* timers; what may go wrong is a Redis command (MaxErrors times) and an   *)
(* instance (MaxCrashes times).  An instance that restarts keeps its       *)
(* configured instance_id.  The binary does not start these services yet,  *)
(* so the wiring of Start is the one their doc comments describe.          *)
(***************************************************************************)
EXTENDS Naturals, FiniteSets

CONSTANTS Instances, None,
          LockTTL,      \* PRIMARY_LOCK_TTL_SECS, in renewal intervals
          HbEvery,      \* heartbeat_interval_secs, in renewal intervals
          MaxErrors,    \* bound: failed Redis commands
          MaxCrashes,   \* bound: crashes
          MaxRequests,  \* bound: step_down and manual_failover requests
          Serialized    \* does an instance's owner ask it to step down once at a time?

HbTTL == 2 * HbEvery
Off == HbEvery + 1      \* a renewal task that is not running

ASSUME ClusterAssumption == /\ LockTTL \in Nat /\ LockTTL > 1
                            /\ HbEvery \in Nat /\ HbEvery > 0
                            /\ MaxErrors \in Nat /\ MaxCrashes \in Nat /\ MaxRequests \in Nat
                            /\ None \notin Instances /\ Serialized \in BOOLEAN

VARIABLES
    lock,       \* the value of election:primary, None if it has expired
    lockLeft,   \* what is left of its TTL
    beat,       \* what is left of each instance:<id> key's TTL, 0 if expired
    beatRole,   \* does that key say the instance is primary?
    up,         \* is the process running?
    primary,    \* PrimaryElection.is_primary, and the role with it
    renewIn,    \* when the renewal task runs next, Off if there is none
    deleting,   \* calls of step_down that have the DEL before them
    clearing,   \* and those that have it behind them and the flag still to clear
    beatIn,     \* when the heartbeat task runs next
    mon,        \* the place in FailoverOrchestrator::start
    knows,      \* HeartbeatMonitor.primary_instance
    misses,     \* consecutive_failures
    checkIn,    \* when the monitor checks next
    vip,        \* is the virtual IP active on the instance?
    stuck,      \* did a failed promotion leave FailoverState::Promoting behind?
    errors, crashes, requests,
    waited      \* how long an instance has been bereft, for FailoverIsPrompt only

redisVars == <<lock, lockLeft, beat, beatRole>>
monVars == <<mon, knows, misses, checkIn, stuck>>
downVars == <<deleting, clearing>>
budgets == <<errors, crashes, requests>>
vars == <<redisVars, up, primary, renewIn, downVars, beatIn, monVars, vip, budgets, waited>>

Init == /\ lock = None /\ lockLeft = 0
        /\ beat = [i \in Instances |-> 0]
        /\ beatRole = [i \in Instances |-> FALSE]
        /\ up = [i \in Instances |-> FALSE]
        /\ primary = [i \in Instances |-> FALSE]
        /\ renewIn = [i \in Instances |-> Off]
        /\ deleting = [i \in Instances |-> 0]
        /\ clearing = [i \in Instances |-> 0]
        /\ beatIn = [i \in Instances |-> 0]
        /\ mon = [i \in Instances |-> "off"]
        /\ knows = [i \in Instances |-> None]
        /\ misses = [i \in Instances |-> 0]
        /\ checkIn = [i \in Instances |-> 0]
        /\ vip = [i \in Instances |-> FALSE]
        /\ stuck = [i \in Instances |-> FALSE]
        /\ errors = 0 /\ crashes = 0 /\ requests = 0
        /\ waited = [i \in Instances |-> 0]

(* A Redis command fails: the server may have run it or not.  Ordinary      *)
(* steps use none of the budgets; a request uses its own.                   *)
Errs == errors < MaxErrors /\ errors' = errors + 1 /\ UNCHANGED crashes
Fails == Errs /\ UNCHANGED requests
Works == UNCHANGED budgets
Asked == requests < MaxRequests /\ requests' = requests + 1

-----------------------------------------------------------------------------
(* election.rs *)

(* SET election:primary <id> NX EX; losing makes the instance a standby    *)
(* even when the lock is its own.  The caller starts the renewal.          *)
ElectWins(i) == /\ lock = None
                /\ lock' = i /\ lockLeft' = LockTTL
                /\ primary' = [primary EXCEPT ![i] = TRUE]
                /\ renewIn' = [renewIn EXCEPT ![i] = IF @ = Off THEN 0 ELSE @]

ElectLoses(i) == /\ lock # None
                 /\ primary' = [primary EXCEPT ![i] = FALSE]
                 /\ UNCHANGED <<lock, lockLeft, renewIn>>

(* ElectionCoordinator::initialize in a process that starts: primary again *)
(* if the lock is still its own, elected if there is none.  A standby      *)
(* starts the orchestrator.                                                *)
Start(i) ==
    /\ ~ up[i]
    /\ up' = [up EXCEPT ![i] = TRUE]
    /\ \/ ElectWins(i)
       \/ /\ lock = i
          /\ primary' = [primary EXCEPT ![i] = TRUE]
          /\ renewIn' = [renewIn EXCEPT ![i] = 0]
          /\ UNCHANGED <<lock, lockLeft>>
       \/ lock # i /\ ElectLoses(i)
    /\ mon' = [mon EXCEPT ![i] = IF primary'[i] THEN "off" ELSE "detect"]
    /\ beatIn' = [beatIn EXCEPT ![i] = 0]
    /\ UNCHANGED <<beat, beatRole, knows, misses, checkIn, stuck, vip, budgets, downVars>>

RenewDue(i) == up[i] /\ renewIn[i] = 0

(* renew_primary_lock: compare-and-expire; a mismatch steps down. *)
Renew(i) ==
    /\ RenewDue(i) /\ Works
    /\ IF primary[i] /\ lock = i
          THEN /\ lockLeft' = LockTTL
               /\ renewIn' = [renewIn EXCEPT ![i] = 1]
               /\ UNCHANGED primary
          ELSE /\ renewIn' = [renewIn EXCEPT ![i] = Off]
               /\ primary' = [primary EXCEPT ![i] = FALSE]
               /\ UNCHANGED lockLeft
    /\ UNCHANGED <<lock, beat, beatRole, up, beatIn, monVars, vip, downVars>>


(* A failed command ends the renewal task; the role stays. *)
RenewErrs(i) ==
    /\ RenewDue(i) /\ primary[i] /\ Fails
    /\ renewIn' = [renewIn EXCEPT ![i] = Off]
    /\ lockLeft' \in {lockLeft, IF lock = i THEN LockTTL ELSE lockLeft}
    /\ UNCHANGED <<lock, beat, beatRole, up, primary, beatIn, monVars, vip, downVars>>

Deleted == lock' = None /\ lockLeft' = 0

(* step_down of an instance that reads it is primary: the renewal task is   *)
(* aborted, and the rest is awaited, so that others act in between.         *)
StepDown(i) ==
    /\ Asked /\ up[i] /\ primary[i]
    /\ Serialized => deleting[i] = 0 /\ clearing[i] = 0
    /\ renewIn' = [renewIn EXCEPT ![i] = Off]
    /\ deleting' = [deleting EXCEPT ![i] = @ + 1]
    /\ UNCHANGED <<redisVars, up, primary, clearing, beatIn, monVars, vip, errors, crashes>>

(* The lock is deleted, whoever has it; if that fails the role stays.      *)
DeleteLock(i) ==
    /\ up[i] /\ deleting[i] > 0
    /\ deleting' = [deleting EXCEPT ![i] = @ - 1]
    /\ \/ /\ Works /\ Deleted
          /\ clearing' = [clearing EXCEPT ![i] = @ + 1]
       \/ /\ Fails
          /\ Deleted \/ UNCHANGED <<lock, lockLeft>>
          /\ UNCHANGED clearing
    /\ UNCHANGED <<beat, beatRole, up, primary, renewIn, beatIn, monVars, vip>>

(* Only then does the instance stop being primary. *)
ClearPrimary(i) ==
    /\ up[i] /\ clearing[i] > 0 /\ Works
    /\ clearing' = [clearing EXCEPT ![i] = @ - 1]
    /\ primary' = [primary EXCEPT ![i] = FALSE]
    /\ UNCHANGED <<redisVars, up, renewIn, deleting, beatIn, monVars, vip>>

-----------------------------------------------------------------------------
(* heartbeat.rs *)

Published(i) == /\ beat' = [beat EXCEPT ![i] = HbTTL]
                /\ beatRole' = [beatRole EXCEPT ![i] = primary[i]]

Beat(i) ==
    /\ up[i] /\ beatIn[i] = 0
    /\ \/ Works /\ Published(i)
       \/ Fails /\ (Published(i) \/ UNCHANGED <<beat, beatRole>>)
    /\ beatIn' = [beatIn EXCEPT ![i] = HbEvery]
    /\ UNCHANGED <<lock, lockLeft, up, primary, renewIn, monVars, vip, downVars>>

(* detect_primary: the first key that says primary; finding none leaves    *)
(* what was known.                                                         *)
Detected(i) ==
    LET seen == {j \in Instances : beat[j] > 0 /\ beatRole[j]}
    IN  knows' = [knows EXCEPT ![i] = IF seen = {} THEN @ ELSE CHOOSE j \in seen : TRUE]

Detect(i) ==
    /\ up[i] /\ mon[i] = "detect"
    /\ \/ /\ Works /\ Detected(i)
          /\ mon' = [mon EXCEPT ![i] = "watch"]
       \/ Fails /\ UNCHANGED <<knows, mon>>
    /\ misses' = [misses EXCEPT ![i] = 0]
    /\ checkIn' = [checkIn EXCEPT ![i] = 0]
    /\ UNCHANGED <<redisVars, up, primary, renewIn, beatIn, stuck, vip, downVars>>

(* The key's role is not looked at. *)
IsPrimaryAlive(j) == beat[j] > 0

(* wait_for_primary_failure: two checks in a row that find no heartbeat of *)
(* the known primary.                                                      *)
CheckDue(i) == up[i] /\ mon[i] = "watch" /\ checkIn[i] = 0

Checked(i, required) ==
    /\ CheckDue(i) /\ Works
    /\ checkIn' = [checkIn EXCEPT ![i] = HbEvery]
    /\ IF knows[i] = None THEN Detected(i) ELSE UNCHANGED knows
    /\ IF knows'[i] = None
          THEN UNCHANGED <<misses, mon>>
          ELSE IF IsPrimaryAlive(knows'[i])
             THEN misses' = [misses EXCEPT ![i] = 0] /\ UNCHANGED mon
             ELSE /\ misses' = [misses EXCEPT ![i] = @ + 1]
                  /\ mon' = [mon EXCEPT ![i] = IF misses'[i] = required THEN "elect" ELSE @]
    /\ UNCHANGED <<redisVars, up, primary, renewIn, beatIn, stuck, vip, downVars>>

(* Mutant: three missed heartbeats are required. *)
Check_thrice(i) == Checked(i, 3)

(* Mutant: a missed heartbeat is not counted. *)
Check_forgets(i) ==
    /\ CheckDue(i) /\ Works
    /\ checkIn' = [checkIn EXCEPT ![i] = HbEvery]
    /\ UNCHANGED <<knows, misses, mon, stuck, redisVars, up, primary, renewIn, beatIn, vip, downVars>>

Check(i) == Checked(i, 2)

CheckErrs(i) ==
    /\ CheckDue(i) /\ Fails
    /\ checkIn' = [checkIn EXCEPT ![i] = HbEvery]
    /\ UNCHANGED <<redisVars, up, primary, renewIn, beatIn, mon, knows, misses, stuck, vip, downVars>>

-----------------------------------------------------------------------------
(* failover.rs *)

(* Mutant: a lost election is taken for a won one. *)
Elect_ignores_result(i) ==
    /\ up[i] /\ mon[i] = "elect" /\ Works
    /\ primary' = [primary EXCEPT ![i] = TRUE]
    /\ renewIn' = [renewIn EXCEPT ![i] = 0]
    /\ mon' = [mon EXCEPT ![i] = "promote"]
    /\ UNCHANGED <<redisVars, up, beatIn, knows, misses, checkIn, stuck, vip, downVars>>

(* execute_failover up to the end of the election; a lost or failed one    *)
(* goes back to watching.                                                  *)
Elect(i) ==
    /\ up[i] /\ mon[i] = "elect"
    /\ \/ /\ Works /\ ElectWins(i)
          /\ mon' = [mon EXCEPT ![i] = "promote"]
       \/ /\ Works /\ ElectLoses(i)
          /\ mon' = [mon EXCEPT ![i] = "detect"]
       \/ /\ Fails
          /\ \/ lock = None /\ lock' = i /\ lockLeft' = LockTTL
             \/ UNCHANGED <<lock, lockLeft>>
          /\ mon' = [mon EXCEPT ![i] = "detect"]
          /\ UNCHANGED <<primary, renewIn>>
    /\ stuck' = [stuck EXCEPT ![i] = FALSE]
    /\ UNCHANGED <<beat, beatRole, up, beatIn, knows, misses, checkIn, vip, downVars>>

(* promote_to_primary and the recovery, after which the orchestrator stops *)
(* for good.  A virtual IP that cannot be activated or a heartbeat that    *)
(* cannot be published sends it back to watching, as primary.              *)
Promote(i) ==
    /\ up[i] /\ mon[i] = "promote"
    /\ \/ /\ Works /\ Published(i)
          /\ vip' = [vip EXCEPT ![i] = TRUE]
          /\ mon' = [mon EXCEPT ![i] = "off"]
          /\ UNCHANGED stuck
       \/ /\ Fails
          /\ \/ UNCHANGED <<beat, beatRole, vip>>
             \/ /\ vip' = [vip EXCEPT ![i] = TRUE]
                /\ Published(i) \/ UNCHANGED <<beat, beatRole>>
          /\ mon' = [mon EXCEPT ![i] = "detect"]
          /\ stuck' = [stuck EXCEPT ![i] = TRUE]
    /\ UNCHANGED <<lock, lockLeft, up, primary, renewIn, beatIn, knows, misses, checkIn, downVars>>

(* manual_failover: execute_failover outside the orchestrator, refused     *)
(* while FailoverState is not Normal.  Its commands succeed here.          *)
ManualFailover(i) ==
    /\ Asked /\ up[i] /\ mon[i] \in {"off", "detect", "watch"} /\ ~ stuck[i]
    /\ \/ /\ ElectWins(i)
          /\ vip' = [vip EXCEPT ![i] = TRUE]
          /\ beat' = [beat EXCEPT ![i] = HbTTL]
          /\ beatRole' = [beatRole EXCEPT ![i] = TRUE]
       \/ ElectLoses(i) /\ UNCHANGED <<vip, beat, beatRole>>
    /\ UNCHANGED <<up, beatIn, monVars, errors, crashes, downVars>>

-----------------------------------------------------------------------------
Crash(i) ==
    /\ up[i] /\ crashes < MaxCrashes
    /\ crashes' = crashes + 1
    /\ up' = [up EXCEPT ![i] = FALSE]
    /\ primary' = [primary EXCEPT ![i] = FALSE]
    /\ renewIn' = [renewIn EXCEPT ![i] = Off]
    /\ deleting' = [deleting EXCEPT ![i] = 0]
    /\ clearing' = [clearing EXCEPT ![i] = 0]
    /\ mon' = [mon EXCEPT ![i] = "off"]
    /\ knows' = [knows EXCEPT ![i] = None]
    /\ misses' = [misses EXCEPT ![i] = 0]
    /\ checkIn' = [checkIn EXCEPT ![i] = 0]
    /\ beatIn' = [beatIn EXCEPT ![i] = 0]
    /\ vip' = [vip EXCEPT ![i] = FALSE]
    /\ stuck' = [stuck EXCEPT ![i] = FALSE]
    /\ UNCHANGED <<redisVars, errors, requests>>

Due(i) == up[i] /\ \/ renewIn[i] = 0 \/ beatIn[i] = 0
                   \/ deleting[i] > 0 \/ clearing[i] > 0
                   \/ mon[i] \in {"detect", "elect", "promote"}
                   \/ mon[i] = "watch" /\ checkIn[i] = 0

(* A standby watches over a primary that is down, and no other has taken    *)
(* its place.                                                               *)
Bereft(i) == /\ up[i] /\ mon[i] # "off" /\ knows[i] # None
             /\ ~ up[knows[i]]
             /\ \A k \in Instances : ~ (up[k] /\ primary[k])

(* test_failover_timing: 40 s, the heartbeat's TTL and two checks. *)
WaitBound == HbTTL + 2 * HbEvery

Down(n) == IF n > 0 THEN n - 1 ELSE 0

Tick ==
    /\ \A i \in Instances : ~ Due(i)
    /\ lockLeft' = Down(lockLeft)
    /\ lock' = IF lockLeft > 1 THEN lock ELSE None
    /\ beat' = [i \in Instances |-> Down(beat[i])]
    /\ renewIn' = [i \in Instances |-> IF renewIn[i] = Off THEN Off ELSE Down(renewIn[i])]
    /\ beatIn' = [i \in Instances |-> IF up[i] THEN Down(beatIn[i]) ELSE 0]
    /\ checkIn' = [i \in Instances |-> IF mon[i] = "watch" THEN Down(checkIn[i]) ELSE 0]
    /\ waited' = [i \in Instances |-> IF Bereft(i) /\ waited[i] <= WaitBound THEN waited[i] + 1 ELSE 0]
    /\ UNCHANGED <<beatRole, up, primary, mon, knows, misses, stuck, vip, errors, crashes, requests, downVars>>

(* The wait begins anew when a step relieves the instance. *)
Waits == waited' = [i \in Instances |-> IF Bereft(i)' THEN waited[i] ELSE 0]

Run(i) == /\ \/ Renew(i) \/ RenewErrs(i) \/ Beat(i) \/ Detect(i) \/ Check(i) \/ CheckErrs(i)
             \/ Elect(i) \/ Promote(i) \/ DeleteLock(i) \/ ClearPrimary(i)
          /\ Waits

Happens(i) == (Start(i) \/ Crash(i) \/ StepDown(i) \/ ManualFailover(i)) /\ Waits

Next == Tick \/ \E i \in Instances : Run(i) \/ Happens(i)

(* Every task of a running instance is polled, and time passes. *)
Fairness == WF_vars(Tick) /\ \A i \in Instances : WF_vars(Run(i))

Spec == Init /\ [][Next]_vars /\ Fairness

-----------------------------------------------------------------------------
TypeOK == /\ lock \in Instances \cup {None} /\ lockLeft \in 0 .. LockTTL
          /\ beat \in [Instances -> 0 .. HbTTL] /\ beatRole \in [Instances -> BOOLEAN]
          /\ up \in [Instances -> BOOLEAN] /\ primary \in [Instances -> BOOLEAN]
          /\ renewIn \in [Instances -> {0, 1, Off}] /\ beatIn \in [Instances -> 0 .. HbEvery]
          /\ deleting \in [Instances -> Nat] /\ clearing \in [Instances -> Nat]
          /\ mon \in [Instances -> {"off", "detect", "watch", "elect", "promote"}]
          /\ knows \in [Instances -> Instances \cup {None}]
          /\ misses \in [Instances -> Nat] /\ checkIn \in [Instances -> 0 .. HbEvery]
          /\ stuck \in [Instances -> BOOLEAN] /\ vip \in [Instances -> BOOLEAN]
          /\ errors \in 0 .. MaxErrors /\ crashes \in 0 .. MaxCrashes
          /\ requests \in 0 .. MaxRequests
          /\ waited \in [Instances -> 0 .. WaitBound + 1]

(* Without Redis errors every primary owns the lock, through crashes,      *)
(* restarts and manual failovers, unless it has deleted the lock to step   *)
(* down and has yet to clear its flag (election.rs:140-143): in between    *)
(* another may be elected.  Two calls of step_down that overlap would let  *)
(* the second delete the lock of the one elected after the first.          *)
PrimaryOwnsLock ==
    errors = 0 /\ Serialized =>
      \A i \in Instances : up[i] /\ primary[i] /\ clearing[i] = 0 => lock = i

(* test_split_brain_prevention: "Exactly one should win (split brain       *)
(* prevented)".                                                            *)
OnePrimary == \A i, j \in Instances : up[i] /\ up[j] /\ primary[i] /\ primary[j] => i = j

(* Without Redis errors and operator requests a primary that is gone is    *)
(* replaced within the 40 s that test_failover_timing expects, each time   *)
(* one goes.  (After a manual failover the orchestrator, still watching    *)
(* the old primary, runs an election that loses to the instance's own lock *)
(* and makes it a standby again.)                                          *)
FailoverIsPrompt ==
    errors = 0 /\ requests = 0 => \A i \in Instances : waited[i] <= WaitBound

(* A standby that knows a primary that is gone takes over, or another      *)
(* instance does: elections lost to a lock that lingers are tried again.   *)
FailoverHappens ==
    \A i, j \in Instances :
       up[i] /\ mon[i] \in {"detect", "watch", "elect"} /\ knows[i] = j /\ ~ up[j]
         ~> \/ \E k \in Instances : up[k] /\ primary[k]
            \/ ~ up[i] \/ up[j] \/ knows[i] # j

(* docs/ha-setup.md: "Standby instance detects primary failure and takes   *)
(* over".  Here: as long as instances run, there is a primary again.       *)
PrimaryReturns ==
    (\A i \in Instances : up[i]) ~> \/ \E i \in Instances : up[i] /\ primary[i]
                                    \/ \E i \in Instances : ~ up[i]

(* VIPManager::deactivate: "called when stepping down from primary". *)
VipFollowsPrimary == \A i \in Instances : vip[i] => primary[i]
=============================================================================
