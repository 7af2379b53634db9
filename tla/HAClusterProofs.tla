-------------------------- MODULE HAClusterProofs --------------------------
(***************************************************************************)
(* Without Redis errors a primary owns the lock, unless it has deleted it  *)
(* to step down and has yet to clear its flag, for any set of instances,   *)
(* any lock TTL longer than one renewal interval, and any number of        *)
(* crashes, restarts, step-downs and manual failovers, as long as no       *)
(* instance is asked to step down while it is at it.                       *)
(*                                                                         *)
(* That every primary owns the lock is not inductive: the passing of time  *)
(* may expire the lock.  What keeps it is that a primary's renewal task is *)
(* running and is due before the lock is, and that a step-down, which      *)
(* stops the task, deletes the lock before time passes; it deletes its     *)
(* own, because it began as the owner.                                     *)
(*                                                                         *)
(* Without Redis errors and requests a failover takes 40 s at most, for    *)
(* any intervals in which the lock is short enough.                        *)
(***************************************************************************)
EXTENDS HACluster, TLAPS

USE DEF downVars

(* The lock outlives the next renewal of whoever is primary, and only a    *)
(* running instance is primary.                                            *)
Renewing(i) == /\ primary[i] => up[i]
               /\ primary[i] /\ clearing[i] = 0 =>
                    /\ lock = i
                    /\ deleting[i] = 0 => renewIn[i] \in {0, 1} /\ lockLeft > renewIn[i]

(* A running instance that was asked to deletes its own lock, then clears  *)
(* its flag.                                                               *)
SteppingDown(i) == /\ deleting[i] # 0 => deleting[i] = 1 /\ clearing[i] = 0 /\ up[i] /\ lock = i
                   /\ clearing[i] # 0 => clearing[i] = 1 /\ up[i]
                   /\ requests = 0 => deleting[i] = 0 /\ clearing[i] = 0

Orderly == errors = 0 /\ (Serialized \/ requests = 0)

IInv == /\ lock \in Instances \cup {None} /\ lockLeft \in Nat
        /\ up \in [Instances -> BOOLEAN] /\ primary \in [Instances -> BOOLEAN]
        /\ renewIn \in [Instances -> {0, 1, Off}]
        /\ deleting \in [Instances -> Nat] /\ clearing \in [Instances -> Nat]
        /\ errors \in Nat /\ requests \in Nat
        /\ lock # None => lockLeft > 0
        /\ Orderly => \A i \in Instances : Renewing(i) /\ SteppingDown(i)

LEMMA Constants == /\ LockTTL \in Nat /\ LockTTL > 1 /\ None \notin Instances
                   /\ Off \in Nat /\ Off > 1
  BY ClusterAssumption DEF ClusterAssumption, Off

(* What the passing of a unit of time leaves. *)
LEMMA TickKeeps == IInv /\ Tick => IInv'
<1> SUFFICES ASSUME IInv, Tick PROVE IInv'
  OBVIOUS
<1> USE Constants
<1>1. \A n \in Nat : Down(n) \in Nat /\ (n > 0 => Down(n) = n - 1) /\ (n = 0 => Down(n) = 0)
  BY DEF Down
<1>2. lockLeft' \in Nat /\ lock' \in Instances \cup {None}
  BY <1>1 DEF IInv, Tick
<1>6. lock' # None => lockLeft' > 0
  BY <1>1 DEF IInv, Tick
<1>3. renewIn' \in [Instances -> {0, 1, Off}]
  <2>1. \A i \in Instances : renewIn[i] = 0 \/ renewIn[i] = 1 \/ renewIn[i] = Off
    BY DEF IInv
  <2>2. \A i \in Instances :
           (IF renewIn[i] = Off THEN Off ELSE Down(renewIn[i])) \in {0, 1, Off}
    BY <2>1, <1>1
  <2>3. renewIn' = [i \in Instances |-> IF renewIn[i] = Off THEN Off ELSE Down(renewIn[i])]
    BY DEF Tick
  <2> QED
    BY <2>2, <2>3
<1>4. errors' = errors /\ requests' = requests /\ up' = up /\ primary' = primary /\ UNCHANGED downVars
  BY DEF Tick
<1>7. ASSUME Orderly, NEW i \in Instances PROVE deleting[i] = 0 /\ clearing[i] = 0
  BY <1>7 DEF IInv, SteppingDown, Tick, Due
<1>5. ASSUME Orderly, NEW i \in Instances, primary[i] PROVE Renewing(i)'
  <2>1. up[i] /\ lock = i /\ renewIn[i] \in {0, 1} /\ lockLeft > renewIn[i]
    BY <1>5, <1>7 DEF IInv, Renewing
  <2>2. renewIn[i] = 1
    BY <2>1 DEF Tick, Due
  <2>3. renewIn'[i] = 0
    BY <2>2, <1>1 DEF Tick
  <2>4. lockLeft > 1 /\ lock' = i /\ lockLeft' > 0
    BY <2>1, <2>2, <1>1 DEF Tick, IInv
  <2> QED
    BY <2>1, <2>3, <2>4, <1>4 DEF Renewing
<1> QED
  BY <1>2, <1>3, <1>4, <1>5, <1>6, <1>7 DEF IInv, Renewing, SteppingDown, Orderly

(* Winning an election: the lock was free, so there was no primary but     *)
(* those that have yet to clear their flag.                                *)
LEMMA WinKeeps ==
  ASSUME IInv, NEW i \in Instances, ElectWins(i), up' = [up EXCEPT ![i] = TRUE],
         errors' = errors, requests' \in {requests, requests + 1}, UNCHANGED downVars
  PROVE  IInv'
<1> USE Constants
<1>1. /\ lock' = i /\ lockLeft' = LockTTL /\ lock = None
      /\ primary' = [primary EXCEPT ![i] = TRUE]
      /\ renewIn' = [renewIn EXCEPT ![i] = IF renewIn[i] = Off THEN 0 ELSE renewIn[i]]
  BY DEF ElectWins
<1>2. renewIn' \in [Instances -> {0, 1, Off}] /\ renewIn'[i] \in {0, 1}
  BY <1>1 DEF IInv
<1>3. Orderly => \A j \in Instances \ {i} : ~ (primary'[j] /\ clearing'[j] = 0)
  BY <1>1 DEF IInv, Renewing
<1>4. Renewing(i)'
  BY <1>1, <1>2 DEF IInv, Renewing
<1>5. Orderly => \A j \in Instances : SteppingDown(j)'
  BY <1>1 DEF IInv, SteppingDown
<1> QED
  BY <1>1, <1>2, <1>3, <1>4, <1>5 DEF IInv, Renewing, Orderly

(* Losing one makes the instance a standby, which asks nothing of it. *)
LEMMA LoseKeeps ==
  ASSUME IInv, NEW i \in Instances, ElectLoses(i), up' = [up EXCEPT ![i] = TRUE],
         errors' = errors, requests' \in {requests, requests + 1}, UNCHANGED downVars
  PROVE  IInv'
<1>1. /\ primary' = [primary EXCEPT ![i] = FALSE]
      /\ lock' = lock /\ lockLeft' = lockLeft /\ renewIn' = renewIn
  BY DEF ElectLoses
<1> QED
  BY <1>1 DEF IInv, Renewing, SteppingDown, Orderly

(* A process that starts was not primary. *)
LEMMA StartKeeps == ASSUME IInv, NEW i \in Instances, Start(i) PROVE IInv'
<1> USE Constants
<1>1. up' = [up EXCEPT ![i] = TRUE] /\ errors' = errors
      /\ requests' = requests /\ UNCHANGED downVars
  BY DEF Start, budgets
<1>2. CASE ElectWins(i)
  BY <1>1, <1>2, WinKeeps
<1>3. CASE lock # i /\ ElectLoses(i)
  BY <1>1, <1>3, LoseKeeps
<1>4. CASE /\ lock = i
           /\ primary' = [primary EXCEPT ![i] = TRUE]
           /\ renewIn' = [renewIn EXCEPT ![i] = 0]
           /\ UNCHANGED <<lock, lockLeft>>
  <2>1. Orderly => \A j \in Instances \ {i} : ~ (primary'[j] /\ clearing'[j] = 0)
    BY <1>1, <1>4 DEF IInv, Renewing
  <2>2. Renewing(i)'
    BY <1>1, <1>4 DEF IInv, Renewing
  <2>3. Orderly => \A j \in Instances : SteppingDown(j)'
    BY <1>1, <1>4 DEF IInv, SteppingDown
  <2> QED
    BY <1>1, <1>4, <2>1, <2>2, <2>3 DEF IInv, Renewing, Orderly
<1> QED
  BY <1>2, <1>3, <1>4 DEF Start

LEMMA RenewKeeps == ASSUME IInv, NEW i \in Instances, Renew(i) PROVE IInv'
<1> USE Constants
<1>1. lock' = lock /\ up' = up /\ errors' = errors
      /\ requests' = requests /\ UNCHANGED downVars
  BY DEF Renew, Works, budgets
<1>2. CASE primary[i] /\ lock = i
  <2>1. /\ lockLeft' = LockTTL /\ renewIn' = [renewIn EXCEPT ![i] = 1]
        /\ primary' = primary
    BY <1>2 DEF Renew
  <2> QED
    BY <1>1, <1>2, <2>1 DEF IInv, Renewing, SteppingDown, Orderly
<1>3. CASE ~ (primary[i] /\ lock = i)
  <2>1. /\ lockLeft' = lockLeft /\ renewIn' = [renewIn EXCEPT ![i] = Off]
        /\ primary' = [primary EXCEPT ![i] = FALSE]
    BY <1>3 DEF Renew
  <2> QED
    BY <1>1, <1>3, <2>1 DEF IInv, Renewing, SteppingDown, Orderly
<1> QED
  BY <1>2, <1>3

(* The owner that begins to step down is at it for the first time. *)
LEMMA StepDownKeeps == ASSUME IInv, NEW i \in Instances, StepDown(i) PROVE IInv'
<1> USE Constants
<1>1. /\ up[i] /\ primary[i] /\ renewIn' = [renewIn EXCEPT ![i] = Off]
      /\ deleting' = [deleting EXCEPT ![i] = deleting[i] + 1]
      /\ Serialized => deleting[i] = 0 /\ clearing[i] = 0
      /\ UNCHANGED <<lock, lockLeft, up, primary, clearing, errors>>
      /\ requests' = requests + 1
  BY DEF StepDown, redisVars, Asked
<1>5. Orderly' => Orderly /\ Serialized /\ requests' # 0
  BY <1>1 DEF IInv, Orderly
<1>2. Orderly' => SteppingDown(i)' /\ Renewing(i)'
  BY <1>1, <1>5 DEF IInv, Renewing, SteppingDown
<1>3. Orderly' => \A j \in Instances \ {i} : SteppingDown(j)' /\ Renewing(j)'
  BY <1>1, <1>5 DEF IInv, Renewing, SteppingDown
<1>4. /\ renewIn' \in [Instances -> {0, 1, Off}] /\ deleting' \in [Instances -> Nat]
      /\ requests' \in Nat
  BY <1>1 DEF IInv
<1> QED
  BY <1>1, <1>2, <1>3, <1>4 DEF IInv

(* Deleting the lock is harmless because the one who deletes it owns it. *)
LEMMA DeleteKeeps == ASSUME IInv, NEW i \in Instances, DeleteLock(i) PROVE IInv'
<1> USE Constants
<1>1. /\ up[i] /\ deleting[i] > 0 /\ deleting' = [deleting EXCEPT ![i] = deleting[i] - 1]
      /\ UNCHANGED <<up, primary, renewIn>>
  BY DEF DeleteLock
<1>2. CASE Works /\ Deleted /\ clearing' = [clearing EXCEPT ![i] = clearing[i] + 1]
  <2>1. errors' = errors /\ requests' = requests /\ lock' = None
    BY <1>2 DEF Works, Deleted, budgets
  <2>2. Orderly => lock = i /\ deleting[i] = 1 /\ clearing[i] = 0
    BY <1>1 DEF IInv, SteppingDown
  <2>3. Orderly => SteppingDown(i)' /\ Renewing(i)'
    BY <1>1, <1>2, <2>1, <2>2 DEF IInv, SteppingDown, Renewing
  <2>4. Orderly => \A j \in Instances \ {i} : SteppingDown(j)' /\ Renewing(j)'
    BY <1>1, <1>2, <2>1, <2>2 DEF IInv, SteppingDown, Renewing
  <2>5. deleting' \in [Instances -> Nat] /\ clearing' \in [Instances -> Nat]
    BY <1>1, <1>2 DEF IInv
  <2> QED
    BY <1>1, <1>2, <2>1, <2>3, <2>4, <2>5 DEF IInv, Orderly, Deleted
<1>3. CASE Fails /\ (Deleted \/ UNCHANGED <<lock, lockLeft>>) /\ UNCHANGED clearing
  <2>1. errors' \in Nat /\ requests' = requests /\ ~ Orderly'
    BY <1>3 DEF IInv, Fails, Errs, Orderly
  <2>2. deleting' \in [Instances -> Nat] /\ clearing' \in [Instances -> Nat]
    BY <1>1, <1>3 DEF IInv
  <2> QED
    BY <1>1, <1>3, <2>1, <2>2 DEF IInv, Deleted
<1> QED
  BY <1>2, <1>3 DEF DeleteLock

LEMMA ClearKeeps == ASSUME IInv, NEW i \in Instances, ClearPrimary(i) PROVE IInv'
<1>1. /\ clearing[i] > 0 /\ clearing' = [clearing EXCEPT ![i] = clearing[i] - 1]
      /\ primary' = [primary EXCEPT ![i] = FALSE]
      /\ UNCHANGED <<lock, lockLeft, up, renewIn, deleting, errors, requests>>
  BY DEF ClearPrimary, Works, budgets, redisVars
<1>2. primary' \in [Instances -> BOOLEAN] /\ clearing' \in [Instances -> Nat]
  BY <1>1 DEF IInv
<1>3. Orderly => \A j \in Instances : SteppingDown(j)' /\ Renewing(j)'
  BY <1>1 DEF IInv, SteppingDown, Renewing
<1> QED
  BY <1>1, <1>2, <1>3 DEF IInv, Orderly

LEMMA ElectKeeps == ASSUME IInv, NEW i \in Instances, Elect(i) PROVE IInv'
<1> USE Constants
<1>1. up' = up /\ up' = [up EXCEPT ![i] = TRUE] /\ UNCHANGED downVars
  BY DEF Elect, IInv
<1>2. CASE Works /\ ElectWins(i)
  BY <1>1, <1>2, WinKeeps DEF Works, budgets
<1>3. CASE Works /\ ElectLoses(i)
  BY <1>1, <1>3, LoseKeeps DEF Works, budgets
<1>4. CASE /\ Fails
           /\ \/ lock = None /\ lock' = i /\ lockLeft' = LockTTL
              \/ UNCHANGED <<lock, lockLeft>>
           /\ UNCHANGED <<primary, renewIn>>
  BY <1>1, <1>4 DEF IInv, Fails, Errs, Orderly
<1> QED
  BY <1>2, <1>3, <1>4 DEF Elect

LEMMA ManualKeeps == ASSUME IInv, NEW i \in Instances, ManualFailover(i) PROVE IInv'
<1>1. up' = up /\ up' = [up EXCEPT ![i] = TRUE] /\ errors' = errors
      /\ requests' = requests + 1 /\ UNCHANGED downVars
  BY DEF Asked, ManualFailover, IInv
<1> QED
  BY <1>1, WinKeeps, LoseKeeps DEF ManualFailover

LEMMA CrashKeeps == ASSUME IInv, NEW i \in Instances, Crash(i) PROVE IInv'
  BY Constants DEF IInv, Renewing, SteppingDown, Orderly, Crash, redisVars

(* Steps that touch neither the election nor, but for an error that is     *)
(* counted, the lock.                                                      *)
LEMMA OthersKeep ==
  ASSUME IInv, NEW i \in Instances,
         RenewErrs(i) \/ Beat(i) \/ Detect(i) \/ Check(i) \/ CheckErrs(i) \/ Promote(i)
  PROVE  IInv'
<1> USE Constants
<1>1. CASE RenewErrs(i)
  BY <1>1 DEF RenewErrs, IInv, Fails, Errs, Orderly
<1>2. ASSUME /\ UNCHANGED <<lock, lockLeft, up, primary, renewIn, downVars>>
             /\ errors' \in {errors, errors + 1} /\ requests' = requests
      PROVE  IInv'
  BY <1>2 DEF IInv, Renewing, SteppingDown, Orderly
<1>3. CASE Beat(i)
  BY <1>2, <1>3 DEF Beat, Works, Fails, Errs, budgets, monVars
<1>4. CASE Detect(i)
  BY <1>2, <1>4 DEF Detect, Works, Fails, Errs, budgets, redisVars
<1>5. CASE Check(i)
  BY <1>2, <1>5 DEF Check, Checked, Works, budgets, redisVars
<1>6. CASE CheckErrs(i)
  BY <1>2, <1>6 DEF CheckErrs, Fails, Errs, redisVars
<1>7. CASE Promote(i)
  BY <1>2, <1>7 DEF Promote, Works, Fails, Errs, budgets
<1> QED
  BY <1>1, <1>3, <1>4, <1>5, <1>6, <1>7

(* IInv is an invariant: every action of the cluster keeps it. *)
THEOREM Inductive == Spec => []IInv
<1>1. Init => IInv
  BY Constants DEF Init, IInv, Renewing, SteppingDown
<1>2. IInv /\ [Next]_vars => IInv'
  <2> SUFFICES ASSUME IInv, [Next]_vars PROVE IInv'
    OBVIOUS
  <2>1. CASE UNCHANGED vars
    BY <2>1 DEF vars, redisVars, budgets, IInv, Renewing, SteppingDown, Orderly
  <2>2. CASE Next
    BY <2>2, TickKeeps, StartKeeps, RenewKeeps, StepDownKeeps, DeleteKeeps, ClearKeeps,
       ElectKeeps, ManualKeeps, CrashKeeps, OthersKeep DEF Next, Run, Happens
  <2> QED
    BY <2>1, <2>2
<1> QED
  BY <1>1, <1>2, PTL DEF Spec

(* As long as no Redis command fails and step-downs of an instance do not  *)
(* overlap, every running primary owns the lock (PrimaryElection's         *)
(* is_primary against the key election:primary) until it deletes it.       *)
THEOREM PrimaryOwnsLockAlways == Spec => []PrimaryOwnsLock
<1>1. IInv => PrimaryOwnsLock
  BY DEF IInv, Renewing, PrimaryOwnsLock, Orderly
<1> QED
  BY <1>1, Inductive, PTL

(* So two running instances are primary at once only while one of them is  *)
(* stepping down and has lost the lock by its own DEL: without Redis       *)
(* errors there is no other split brain (test_split_brain_prevention).     *)
THEOREM NoSplitBrainWithoutErrors ==
  Spec => [](errors = 0 /\ Serialized =>
               \A i, j \in Instances :
                  up[i] /\ up[j] /\ primary[i] /\ primary[j] /\ i # j
                    => clearing[i] # 0 \/ clearing[j] # 0)
<1>1. IInv => (errors = 0 /\ Serialized =>
                 \A i, j \in Instances :
                    up[i] /\ up[j] /\ primary[i] /\ primary[j] /\ i # j
                      => clearing[i] # 0 \/ clearing[j] # 0)
  BY DEF IInv, Renewing, Orderly
<1> QED
  BY <1>1, Inductive, PTL
-----------------------------------------------------------------------------
(* Types.  The TTLs and timers stay within their intervals, which the       *)
(* argument about the time a failover takes rests on.                       *)

LEMMA Intervals == /\ HbEvery \in Nat /\ HbEvery > 0 /\ HbTTL \in Nat /\ HbTTL = HbEvery + HbEvery
                   /\ Off = HbEvery + 1 /\ WaitBound \in Nat
                   /\ WaitBound = HbTTL + HbEvery + HbEvery
  BY ClusterAssumption DEF ClusterAssumption, HbTTL, Off, WaitBound

LEMMA DownIn == ASSUME NEW m \in Nat, NEW n \in 0 .. m
                PROVE  /\ Down(n) \in 0 .. m
                       /\ n > 0 => Down(n) = n - 1
                       /\ n = 0 => Down(n) = 0
  BY DEF Down

(* What the bookkeeping of the wait leaves: another's wait begins anew or   *)
(* goes on.                                                                *)
LEMMA WaitsShape ==
  ASSUME TypeOK, Waits
  PROVE  /\ waited' \in [Instances -> 0 .. WaitBound + 1]
         /\ \A i \in Instances : waited'[i] = 0 \/ (waited'[i] = waited[i] /\ Bereft(i)')
<1>1. waited' = [i \in Instances |-> IF Bereft(i)' THEN waited[i] ELSE 0]
  BY DEF Waits
<1>2. waited \in [Instances -> 0 .. WaitBound + 1] /\ 0 \in 0 .. WaitBound + 1
  BY Intervals DEF TypeOK
<1> QED
  BY <1>1, <1>2

LEMMA BudgetsTyped ==
  ASSUME TypeOK
  PROVE  /\ Works => errors' \in 0 .. MaxErrors /\ crashes' \in 0 .. MaxCrashes
                     /\ requests' \in 0 .. MaxRequests
         /\ Errs => errors' \in 0 .. MaxErrors /\ crashes' \in 0 .. MaxCrashes
         /\ Asked => requests' \in 0 .. MaxRequests
<1>1. /\ MaxErrors \in Nat /\ MaxCrashes \in Nat /\ MaxRequests \in Nat
      /\ errors \in 0 .. MaxErrors /\ crashes \in 0 .. MaxCrashes /\ requests \in 0 .. MaxRequests
  BY ClusterAssumption DEF ClusterAssumption, TypeOK
<1>2. Works => /\ errors' \in 0 .. MaxErrors /\ crashes' \in 0 .. MaxCrashes
               /\ requests' \in 0 .. MaxRequests
  BY <1>1 DEF Works, budgets
<1>3. Errs => errors' \in 0 .. MaxErrors /\ crashes' \in 0 .. MaxCrashes
  BY <1>1 DEF Errs
<1>4. Asked => requests' \in 0 .. MaxRequests
  BY <1>1 DEF Asked
<1> QED
  BY <1>2, <1>3, <1>4

LEMMA DetectedTyped ==
  ASSUME TypeOK, NEW i \in Instances, Detected(i)
  PROVE  /\ knows' \in [Instances -> Instances \cup {None}]
         /\ \A j \in Instances \ {i} : knows'[j] = knows[j]
         /\ \/ knows'[i] = knows[i]
            \/ knows'[i] \in Instances /\ beat[knows'[i]] > 0 /\ beatRole[knows'[i]]
<1> DEFINE seen == {j \in Instances : beat[j] > 0 /\ beatRole[j]}
<1>1. knows \in [Instances -> Instances \cup {None}]
  BY DEF TypeOK
<1>2. knows' = [knows EXCEPT ![i] = IF seen = {} THEN knows[i] ELSE CHOOSE j \in seen : TRUE]
  BY DEF Detected
<1>3. CASE seen = {}
  <2>1. knows' = [knows EXCEPT ![i] = knows[i]]
    BY <1>2, <1>3
  <2> QED
    BY <1>1, <2>1
<1>4. CASE seen # {}
  <2>1. (CHOOSE j \in seen : TRUE) \in seen
    BY <1>4
  <2>2. PICK k \in Instances : /\ beat[k] > 0 /\ beatRole[k]
                               /\ knows' = [knows EXCEPT ![i] = k]
    BY <1>2, <1>4, <2>1
  <2> QED
    BY <1>1, <2>2
<1> QED
  BY <1>3, <1>4

LEMMA ElectWinsTyped ==
  ASSUME TypeOK, NEW i \in Instances, ElectWins(i) \/ ElectLoses(i)
  PROVE  /\ lock' \in Instances \cup {None} /\ lockLeft' \in 0 .. LockTTL
         /\ primary' \in [Instances -> BOOLEAN] /\ renewIn' \in [Instances -> {0, 1, Off}]
<1> USE Constants DEF TypeOK
<1>1. CASE ElectWins(i)
  BY <1>1 DEF ElectWins
<1>2. CASE ElectLoses(i)
  BY <1>2 DEF ElectLoses
<1> QED
  BY <1>1, <1>2

LEMMA PublishedTyped ==
  ASSUME TypeOK, NEW i \in Instances, Published(i) \/ UNCHANGED <<beat, beatRole>>
  PROVE  beat' \in [Instances -> 0 .. HbTTL] /\ beatRole' \in [Instances -> BOOLEAN]
  BY Intervals DEF TypeOK, Published

LEMMA StartTyped == ASSUME TypeOK, NEW i \in Instances, Start(i), Waits PROVE TypeOK'
<1> USE Constants, Intervals
<1>1. waited' \in [Instances -> 0 .. WaitBound + 1]
  BY WaitsShape
<1>2. /\ lock' \in Instances \cup {None} /\ lockLeft' \in 0 .. LockTTL
      /\ primary' \in [Instances -> BOOLEAN] /\ renewIn' \in [Instances -> {0, 1, Off}]
  <2>1. CASE ElectWins(i) \/ ElectLoses(i)
    BY <2>1, ElectWinsTyped
  <2>2. CASE /\ lock = i
             /\ primary' = [primary EXCEPT ![i] = TRUE]
             /\ renewIn' = [renewIn EXCEPT ![i] = 0]
             /\ UNCHANGED <<lock, lockLeft>>
    BY <2>2 DEF TypeOK
  <2> QED
    BY <2>1, <2>2 DEF Start
<1>3. /\ up' = [up EXCEPT ![i] = TRUE] /\ beatIn' = [beatIn EXCEPT ![i] = 0]
      /\ mon' = [mon EXCEPT ![i] = IF primary'[i] THEN "off" ELSE "detect"]
      /\ UNCHANGED <<beat, beatRole, knows, misses, checkIn, stuck, vip, budgets, downVars>>
  BY DEF Start
<1>4. /\ up' \in [Instances -> BOOLEAN] /\ beatIn' \in [Instances -> 0 .. HbEvery]
      /\ mon' \in [Instances -> {"off", "detect", "watch", "elect", "promote"}]
  BY <1>3 DEF TypeOK
<1> QED
  BY <1>1, <1>2, <1>3, <1>4 DEF TypeOK, budgets

LEMMA RenewTyped == ASSUME TypeOK, NEW i \in Instances, Renew(i) \/ RenewErrs(i), Waits PROVE TypeOK'
<1> USE Constants, Intervals
<1>1. waited' \in [Instances -> 0 .. WaitBound + 1]
  BY WaitsShape
<1>2. CASE Renew(i)
  <2>1. /\ renewIn' \in [Instances -> {0, 1, Off}] /\ primary' \in [Instances -> BOOLEAN]
        /\ lockLeft' \in 0 .. LockTTL
    <3>1. CASE primary[i] /\ lock = i
      BY <1>2, <3>1 DEF TypeOK, Renew
    <3>2. CASE ~ (primary[i] /\ lock = i)
      BY <1>2, <3>2 DEF TypeOK, Renew
    <3> QED
      BY <3>1, <3>2
  <2> QED
    BY <1>1, <1>2, <2>1 DEF TypeOK, Renew, Works, budgets, monVars
<1>3. CASE RenewErrs(i)
  <2>1. /\ renewIn' \in [Instances -> {0, 1, Off}] /\ lockLeft' \in 0 .. LockTTL
    BY <1>3 DEF TypeOK, RenewErrs
  <2>2. errors' \in 0 .. MaxErrors /\ crashes' \in 0 .. MaxCrashes /\ requests' = requests
    BY <1>3, BudgetsTyped DEF RenewErrs, Fails
  <2> QED
    BY <1>1, <1>3, <2>1, <2>2 DEF TypeOK, RenewErrs, monVars
<1> QED
  BY <1>2, <1>3

LEMMA BeatTyped == ASSUME TypeOK, NEW i \in Instances, Beat(i), Waits PROVE TypeOK'
<1> USE Intervals
<1>1. waited' \in [Instances -> 0 .. WaitBound + 1]
  BY WaitsShape
<1>2. beat' \in [Instances -> 0 .. HbTTL] /\ beatRole' \in [Instances -> BOOLEAN]
  BY PublishedTyped DEF Beat
<1>3. errors' \in 0 .. MaxErrors /\ crashes' \in 0 .. MaxCrashes /\ requests' \in 0 .. MaxRequests
  BY BudgetsTyped DEF Beat, Fails, TypeOK
<1>4. beatIn' \in [Instances -> 0 .. HbEvery]
  BY DEF TypeOK, Beat
<1> QED
  BY <1>1, <1>2, <1>3, <1>4 DEF TypeOK, Beat, monVars

LEMMA DetectTyped == ASSUME TypeOK, NEW i \in Instances, Detect(i), Waits PROVE TypeOK'
<1> USE Intervals
<1>1. waited' \in [Instances -> 0 .. WaitBound + 1]
  BY WaitsShape
<1>2. /\ knows' \in [Instances -> Instances \cup {None}]
      /\ mon' \in [Instances -> {"off", "detect", "watch", "elect", "promote"}]
  BY DetectedTyped DEF Detect, TypeOK
<1>3. errors' \in 0 .. MaxErrors /\ crashes' \in 0 .. MaxCrashes /\ requests' \in 0 .. MaxRequests
  BY BudgetsTyped DEF Detect, Fails, TypeOK
<1>4. misses' \in [Instances -> Nat] /\ checkIn' \in [Instances -> 0 .. HbEvery]
  BY DEF TypeOK, Detect
<1> QED
  BY <1>1, <1>2, <1>3, <1>4 DEF TypeOK, Detect, redisVars

LEMMA CheckTyped == ASSUME TypeOK, NEW i \in Instances, Check(i) \/ CheckErrs(i), Waits PROVE TypeOK'
<1> USE Intervals
<1>1. waited' \in [Instances -> 0 .. WaitBound + 1]
  BY WaitsShape
<1>2. checkIn' \in [Instances -> 0 .. HbEvery]
  BY DEF TypeOK, Check, Checked, CheckErrs
<1>3. CASE Check(i)
  <2>1. knows' \in [Instances -> Instances \cup {None}]
    BY <1>3, DetectedTyped DEF Check, Checked, TypeOK
  <2>2. /\ misses' \in [Instances -> Nat]
        /\ mon' \in [Instances -> {"off", "detect", "watch", "elect", "promote"}]
    BY <1>3 DEF Check, Checked, TypeOK
  <2>3. UNCHANGED <<redisVars, up, primary, renewIn, beatIn, stuck, vip, downVars>>
    BY <1>3 DEF Check, Checked
  <2>4. errors' \in 0 .. MaxErrors /\ crashes' \in 0 .. MaxCrashes /\ requests' \in 0 .. MaxRequests
    BY <1>3, BudgetsTyped DEF Check, Checked
  <2> QED
    BY <1>1, <1>2, <2>1, <2>2, <2>3, <2>4 DEF TypeOK, redisVars
<1>4. CASE CheckErrs(i)
  <2>1. errors' \in 0 .. MaxErrors /\ crashes' \in 0 .. MaxCrashes /\ requests' \in 0 .. MaxRequests
    BY <1>4, BudgetsTyped DEF CheckErrs, Fails, TypeOK
  <2> QED
    BY <1>1, <1>2, <1>4, <2>1 DEF TypeOK, CheckErrs, redisVars
<1> QED
  BY <1>3, <1>4

LEMMA ElectTyped == ASSUME TypeOK, NEW i \in Instances, Elect(i), Waits PROVE TypeOK'
<1> USE Constants, Intervals
<1>1. waited' \in [Instances -> 0 .. WaitBound + 1]
  BY WaitsShape
<1>2. /\ mon' \in [Instances -> {"off", "detect", "watch", "elect", "promote"}]
      /\ stuck' \in [Instances -> BOOLEAN]
  BY DEF TypeOK, Elect
<1>3. /\ lock' \in Instances \cup {None} /\ lockLeft' \in 0 .. LockTTL
      /\ primary' \in [Instances -> BOOLEAN] /\ renewIn' \in [Instances -> {0, 1, Off}]
  BY ElectWinsTyped DEF Elect, TypeOK
<1>4. errors' \in 0 .. MaxErrors /\ crashes' \in 0 .. MaxCrashes /\ requests' \in 0 .. MaxRequests
  BY BudgetsTyped DEF Elect, Fails, TypeOK
<1> QED
  BY <1>1, <1>2, <1>3, <1>4 DEF TypeOK, Elect

LEMMA PromoteTyped == ASSUME TypeOK, NEW i \in Instances, Promote(i), Waits PROVE TypeOK'
<1> USE Constants, Intervals
<1>1. waited' \in [Instances -> 0 .. WaitBound + 1]
  BY WaitsShape
<1>2. /\ mon' \in [Instances -> {"off", "detect", "watch", "elect", "promote"}]
      /\ stuck' \in [Instances -> BOOLEAN] /\ vip' \in [Instances -> BOOLEAN]
  BY DEF TypeOK, Promote
<1>3. beat' \in [Instances -> 0 .. HbTTL] /\ beatRole' \in [Instances -> BOOLEAN]
  BY PublishedTyped DEF Promote
<1>4. errors' \in 0 .. MaxErrors /\ crashes' \in 0 .. MaxCrashes /\ requests' \in 0 .. MaxRequests
  BY BudgetsTyped DEF Promote, Fails, TypeOK
<1> QED
  BY <1>1, <1>2, <1>3, <1>4 DEF TypeOK, Promote

LEMMA StepDownTyped == ASSUME TypeOK, NEW i \in Instances, StepDown(i), Waits PROVE TypeOK'
<1> USE Constants, Intervals
<1>1. waited' \in [Instances -> 0 .. WaitBound + 1]
  BY WaitsShape
<1>2. renewIn' \in [Instances -> {0, 1, Off}] /\ deleting' \in [Instances -> Nat]
  BY DEF TypeOK, StepDown
<1>3. requests' \in 0 .. MaxRequests
  BY BudgetsTyped DEF StepDown
<1> QED
  BY <1>1, <1>2, <1>3 DEF TypeOK, StepDown, redisVars, monVars

LEMMA DeleteTyped == ASSUME TypeOK, NEW i \in Instances, DeleteLock(i), Waits PROVE TypeOK'
<1> USE Constants, Intervals
<1>1. waited' \in [Instances -> 0 .. WaitBound + 1]
  BY WaitsShape
<1>2. lock' \in Instances \cup {None} /\ lockLeft' \in 0 .. LockTTL
  BY DEF TypeOK, Deleted, DeleteLock
<1>3. deleting' \in [Instances -> Nat] /\ clearing' \in [Instances -> Nat]
  BY DEF TypeOK, DeleteLock
<1>4. errors' \in 0 .. MaxErrors /\ crashes' \in 0 .. MaxCrashes /\ requests' \in 0 .. MaxRequests
  BY BudgetsTyped DEF DeleteLock, Fails, TypeOK
<1> QED
  BY <1>1, <1>2, <1>3, <1>4 DEF TypeOK, DeleteLock, monVars

LEMMA ClearTyped == ASSUME TypeOK, NEW i \in Instances, ClearPrimary(i), Waits PROVE TypeOK'
<1> USE Constants, Intervals
<1>1. waited' \in [Instances -> 0 .. WaitBound + 1]
  BY WaitsShape
<1>2. clearing' \in [Instances -> Nat] /\ primary' \in [Instances -> BOOLEAN]
  BY DEF TypeOK, ClearPrimary
<1> QED
  BY <1>1, <1>2 DEF TypeOK, ClearPrimary, Works, budgets, redisVars, monVars

LEMMA ManualTyped == ASSUME TypeOK, NEW i \in Instances, ManualFailover(i), Waits PROVE TypeOK'
<1> USE Constants, Intervals
<1>1. waited' \in [Instances -> 0 .. WaitBound + 1]
  BY WaitsShape
<1>2. /\ lock' \in Instances \cup {None} /\ lockLeft' \in 0 .. LockTTL
      /\ primary' \in [Instances -> BOOLEAN] /\ renewIn' \in [Instances -> {0, 1, Off}]
  BY ElectWinsTyped DEF ManualFailover
<1>3. /\ vip' \in [Instances -> BOOLEAN] /\ beat' \in [Instances -> 0 .. HbTTL]
      /\ beatRole' \in [Instances -> BOOLEAN]
  <2>1. CASE /\ vip' = [vip EXCEPT ![i] = TRUE]
             /\ beat' = [beat EXCEPT ![i] = HbTTL]
             /\ beatRole' = [beatRole EXCEPT ![i] = TRUE]
    BY <2>1 DEF TypeOK
  <2>2. CASE UNCHANGED <<vip, beat, beatRole>>
    BY <2>2 DEF TypeOK
  <2> QED
    BY <2>1, <2>2 DEF ManualFailover
<1>4. requests' \in 0 .. MaxRequests
  BY BudgetsTyped DEF ManualFailover
<1> QED
  BY <1>1, <1>2, <1>3, <1>4 DEF TypeOK, ManualFailover, monVars

LEMMA CrashTyped == ASSUME TypeOK, NEW i \in Instances, Crash(i), Waits PROVE TypeOK'
<1> USE Constants, Intervals
<1>1. waited' \in [Instances -> 0 .. WaitBound + 1]
  BY WaitsShape
<1>2. crashes' \in 0 .. MaxCrashes
  BY ClusterAssumption DEF ClusterAssumption, TypeOK, Crash
<1>3. /\ up' \in [Instances -> BOOLEAN] /\ primary' \in [Instances -> BOOLEAN]
      /\ renewIn' \in [Instances -> {0, 1, Off}] /\ vip' \in [Instances -> BOOLEAN]
      /\ stuck' \in [Instances -> BOOLEAN]
  BY DEF TypeOK, Crash
<1>4. /\ mon' \in [Instances -> {"off", "detect", "watch", "elect", "promote"}]
      /\ knows' \in [Instances -> Instances \cup {None}]
  BY DEF TypeOK, Crash
<1>5. /\ misses' \in [Instances -> Nat] /\ checkIn' \in [Instances -> 0 .. HbEvery]
      /\ deleting' \in [Instances -> Nat] /\ clearing' \in [Instances -> Nat]
      /\ beatIn' \in [Instances -> 0 .. HbEvery]
  BY DEF TypeOK, Crash
<1> QED
  BY <1>1, <1>2, <1>3, <1>4, <1>5 DEF TypeOK, Crash, redisVars

LEMMA TickTyped == ASSUME TypeOK, Tick PROVE TypeOK'
<1> USE Constants, Intervals
<1>1. lock' \in Instances \cup {None} /\ lockLeft' \in 0 .. LockTTL
  BY DownIn DEF TypeOK, Tick
<1>2. beat' \in [Instances -> 0 .. HbTTL]
  <2>1. \A i \in Instances : Down(beat[i]) \in 0 .. HbTTL
    BY DownIn DEF TypeOK
  <2> QED
    BY <2>1 DEF Tick
<1>3. renewIn' \in [Instances -> {0, 1, Off}]
  <2>1. \A i \in Instances :
           (IF renewIn[i] = Off THEN Off ELSE Down(renewIn[i])) \in {0, 1, Off}
    BY DEF TypeOK, Down
  <2> QED
    BY <2>1 DEF Tick
<1>4. beatIn' \in [Instances -> 0 .. HbEvery] /\ checkIn' \in [Instances -> 0 .. HbEvery]
  <2>1. \A i \in Instances : Down(beatIn[i]) \in 0 .. HbEvery /\ Down(checkIn[i]) \in 0 .. HbEvery
    BY DownIn DEF TypeOK
  <2> QED
    BY <2>1 DEF Tick
<1>5. waited' \in [Instances -> 0 .. WaitBound + 1]
  <2>1. \A i \in Instances :
           (IF Bereft(i) /\ waited[i] <= WaitBound THEN waited[i] + 1 ELSE 0) \in 0 .. WaitBound + 1
    <3> TAKE i \in Instances
    <3>1. waited[i] \in 0 .. WaitBound + 1
      BY DEF TypeOK
    <3> QED
      BY <3>1
  <2> QED
    BY <2>1 DEF Tick
<1> QED
  BY <1>1, <1>2, <1>3, <1>4, <1>5 DEF TypeOK, Tick

(* Every variable keeps its type (the Redis keys, the timers of            *)
(* PrimaryElection and HeartbeatMonitor, the orchestrator's place).        *)
THEOREM TypeAlways == Spec => []TypeOK
<1>1. Init => TypeOK
  BY Constants, Intervals, ClusterAssumption DEF ClusterAssumption, Init, TypeOK
<1>2. TypeOK /\ [Next]_vars => TypeOK'
  <2> SUFFICES ASSUME TypeOK, [Next]_vars PROVE TypeOK'
    OBVIOUS
  <2>1. CASE UNCHANGED vars
    BY <2>1 DEF vars, redisVars, monVars, budgets, TypeOK
  <2>2. CASE Tick
    BY <2>2, TickTyped
  <2>3. ASSUME NEW i \in Instances, Run(i) PROVE TypeOK'
    BY <2>3, RenewTyped, BeatTyped, DetectTyped, CheckTyped, ElectTyped, PromoteTyped,
       DeleteTyped, ClearTyped DEF Run
  <2>4. ASSUME NEW i \in Instances, Happens(i) PROVE TypeOK'
    BY <2>4, StartTyped, CrashTyped, StepDownTyped, ManualTyped DEF Happens
  <2> QED
    BY <2>1, <2>2, <2>3, <2>4 DEF Next
<1> QED
  BY <1>1, <1>2, PTL DEF Spec

-----------------------------------------------------------------------------
(* How long a failover takes.  While an instance waits, no instance is      *)
(* primary, so neither the lock nor a key that says primary is written:    *)
(* what is left of their TTLs and the time waited add up to a TTL at most. *)
(* The two checks that find no heartbeat follow, an interval apart; an     *)
(* election is lost to a lock that lingers, and then soon enough to start  *)
(* over within the bound.                                                  *)

Quiet == errors = 0 /\ requests = 0

(* The lock of a primary that is gone expires before the second check that *)
(* finds its heartbeat gone at the latest.                                 *)
LockIsShort == LockTTL <= HbTTL + HbEvery + 1

(* The place of the orchestrator agrees with the role. *)
Placed(i) == /\ primary[i] => mon[i] \in {"off", "promote"}
             /\ mon[i] = "promote" => primary[i]
             /\ mon[i] = "watch" => misses[i] \in {0, 1}

(* No key that may keep the instance waiting outlives its TTL. *)
KeysRunOut(i) ==
    /\ lockLeft = 0 \/ lockLeft + waited[i] <= LockTTL
    /\ \A j \in Instances : beatRole[j] \/ j = knows[i] =>
                               beat[j] = 0 \/ beat[j] + waited[i] <= HbTTL

(* The checks still to come fit in what is left of the bound. *)
ChecksInTime(i) ==
    /\ mon[i] = "detect" => waited[i] <= HbTTL + HbEvery
    /\ mon[i] = "watch" /\ misses[i] = 0 => waited[i] + checkIn[i] <= HbTTL + HbEvery
    /\ mon[i] = "watch" /\ misses[i] = 1 => waited[i] + checkIn[i] <= WaitBound
    /\ mon[i] = "elect" => waited[i] <= WaitBound

Timed(i) == waited[i] > 0 => Bereft(i) /\ KeysRunOut(i) /\ ChecksInTime(i)

PInv == Quiet => \A i \in Instances : Placed(i) /\ Timed(i)

(* Whoever waits knows of no primary at all. *)
LEMMA NoPrimary ==
  ASSUME IInv, Quiet, NEW j \in Instances, Bereft(j)
  PROVE  \A k \in Instances : ~ primary[k]
  BY DEF IInv, Orderly, Renewing, Quiet, Bereft

(* A step of an instance leaves the wait of another alone.  *)
LEMMA OthersTimed ==
  ASSUME NEW j \in Instances, Timed(j), Bereft(j)',
         waited'[j] = waited[j],
         UNCHANGED <<lockLeft, beat, beatRole>>,
         mon'[j] = mon[j], knows'[j] = knows[j], misses'[j] = misses[j], checkIn'[j] = checkIn[j]
  PROVE  Timed(j)'
  BY DEF Timed, KeysRunOut, ChecksInTime

(* So only an instance that goes on waiting is to be looked at. *)
LEMMA StillWaiting ==
  ASSUME TypeOK, Waits, NEW j \in Instances, Timed(j),
         waited[j] > 0 /\ Bereft(j) /\ waited'[j] = waited[j] /\ Bereft(j)' => Timed(j)'
  PROVE  Timed(j)'
<1>1. waited[j] \in Nat /\ (waited'[j] = 0 \/ (waited'[j] = waited[j] /\ Bereft(j)'))
  BY WaitsShape, Intervals DEF TypeOK
<1>2. CASE waited'[j] = 0
  BY <1>2 DEF Timed
<1>3. CASE waited'[j] = waited[j] /\ waited[j] > 0
  BY <1>1, <1>3 DEF Timed
<1> QED
  BY <1>1, <1>2, <1>3

LEMMA RenewTimed ==
  ASSUME TypeOK, IInv, PInv, Quiet, NEW i \in Instances, Renew(i), Waits
  PROVE  \A j \in Instances : Placed(j)' /\ Timed(j)'
<1> TAKE j \in Instances
<1>1. Placed(j) /\ Timed(j) /\ Placed(i)
  BY DEF PInv
<1>2. UNCHANGED <<lock, beat, beatRole, up, beatIn, monVars, vip>>
  BY DEF Renew
<1>3. CASE primary[i] /\ lock = i
  <2>1. UNCHANGED primary
    BY <1>3 DEF Renew
  <2>2. Placed(j)'
    BY <1>1, <1>2, <2>1 DEF Placed, monVars
  <2>3. ~ Bereft(j)
    BY <1>3, NoPrimary
  <2> QED
    BY <1>1, <2>2, <2>3, StillWaiting
<1>4. CASE ~ (primary[i] /\ lock = i)
  <2>1. ~ primary[i]
    BY <1>4 DEF IInv, Orderly, Renewing, SteppingDown, Quiet
  <2>2. UNCHANGED lockLeft /\ primary' = [primary EXCEPT ![i] = FALSE]
    BY <1>4 DEF Renew
  <2>3. primary' = primary
    BY <2>1, <2>2 DEF IInv
  <2>4. Placed(j)'
    BY <1>1, <1>2, <2>3 DEF Placed, monVars
  <2>5. Bereft(j)' /\ waited'[j] = waited[j] => Timed(j)'
    BY <1>1, <1>2, <2>2, OthersTimed DEF monVars
  <2> QED
    BY <1>1, <2>4, <2>5, StillWaiting
<1> QED
  BY <1>3, <1>4

(* A running instance that is not primary says so, and is none that a      *)
(* bereft instance watches.                                                *)
LEMMA BeatTimed ==
  ASSUME TypeOK, IInv, PInv, Quiet, NEW i \in Instances, Beat(i), Works, Waits
  PROVE  \A j \in Instances : Placed(j)' /\ Timed(j)'
<1> TAKE j \in Instances
<1>1. Placed(j) /\ Timed(j)
  BY DEF PInv
<1>2. UNCHANGED <<lockLeft, up, primary, monVars>> /\ up[i]
  BY DEF Beat
<1>3. Placed(j)'
  BY <1>1, <1>2 DEF Placed, monVars
<1>4. ASSUME waited[j] > 0, Bereft(j), waited'[j] = waited[j], Bereft(j)' PROVE Timed(j)'
  <2>1. ~ primary[i] /\ knows[j] # i
    BY <1>2, <1>4, NoPrimary DEF Bereft
  <2>2. \A k \in Instances : beatRole'[k] \/ k = knows[j] => /\ beatRole[k] \/ k = knows[j]
                                                            /\ beat'[k] = beat[k]
    BY <2>1 DEF Beat, Published, TypeOK
  <2>3. KeysRunOut(j)'
    BY <1>1, <1>2, <1>4, <2>2 DEF Timed, KeysRunOut, monVars
  <2>4. ChecksInTime(j)'
    BY <1>1, <1>2, <1>4 DEF Timed, ChecksInTime, monVars
  <2> QED
    BY <1>4, <2>3, <2>4 DEF Timed
<1> QED
  BY <1>1, <1>3, <1>4, StillWaiting

(* Looking for the primary may find the key of another that is gone.       *)
LEMMA DetectTimed ==
  ASSUME TypeOK, IInv, PInv, Quiet, NEW i \in Instances, Detect(i), Works, Waits
  PROVE  \A j \in Instances : Placed(j)' /\ Timed(j)'
<1> TAKE j \in Instances
<1>1. Placed(j) /\ Timed(j)
  BY DEF PInv
<1>2. /\ mon[i] = "detect" /\ UNCHANGED <<redisVars, up, primary>>
      /\ misses' = [misses EXCEPT ![i] = 0] /\ checkIn' = [checkIn EXCEPT ![i] = 0]
      /\ mon' = [mon EXCEPT ![i] = "watch"] /\ Detected(i)
  <2>1. errors' = errors
    BY DEF Works, budgets
  <2>2. ~ Fails
    BY <2>1 DEF Fails, Errs, IInv
  <2> QED
    BY <2>2 DEF Detect
<1>3. CASE j # i
  <2>1. /\ mon'[j] = mon[j] /\ misses'[j] = misses[j] /\ checkIn'[j] = checkIn[j]
        /\ knows'[j] = knows[j] /\ primary'[j] = primary[j]
    BY <1>2, <1>3, DetectedTyped DEF TypeOK
  <2>2. Placed(j)'
    BY <1>1, <2>1 DEF Placed
  <2>3. Bereft(j)' /\ waited'[j] = waited[j] => Timed(j)'
    BY <1>1, <1>2, <2>1, OthersTimed DEF redisVars
  <2> QED
    BY <1>1, <2>2, <2>3, StillWaiting
<1>4. CASE j = i
  <2>1. mon'[j] = "watch" /\ misses'[j] = 0 /\ checkIn'[j] = 0 /\ primary'[j] = primary[j]
    BY <1>2, <1>4 DEF TypeOK
  <2>2. Placed(j)'
    BY <1>1, <1>2, <1>4, <2>1 DEF Placed
  <2>3. ASSUME waited[j] > 0, Bereft(j), waited'[j] = waited[j], Bereft(j)' PROVE Timed(j)'
    <3>1. \/ knows'[j] = knows[j]
          \/ knows'[j] \in Instances /\ beatRole[knows'[j]]
      BY <1>2, <1>4, DetectedTyped
    <3>2. KeysRunOut(j)'
      BY <1>1, <1>2, <2>3, <3>1 DEF Timed, KeysRunOut, redisVars
    <3>3. waited[j] + 0 <= HbTTL + HbEvery
      BY <1>1, <1>2, <1>4, <2>3, Intervals DEF Timed, ChecksInTime, TypeOK
    <3>4. ChecksInTime(j)'
      BY <2>1, <2>3, <3>3 DEF ChecksInTime
    <3> QED
      BY <2>3, <3>2, <3>4 DEF Timed
  <2> QED
    BY <1>1, <2>2, <2>3, StillWaiting
<1> QED
  BY <1>3, <1>4

(* A check that finds a heartbeat finds it young, one that finds none      *)
(* leaves time for the next.                                               *)
LEMMA CheckTimed ==
  ASSUME TypeOK, IInv, PInv, Quiet, NEW i \in Instances, Check(i), Waits
  PROVE  \A j \in Instances : Placed(j)' /\ Timed(j)'
<1> TAKE j \in Instances
<1>1. Placed(j) /\ Timed(j)
  BY DEF PInv
<1>2. /\ up[i] /\ mon[i] = "watch" /\ checkIn[i] = 0
      /\ checkIn' = [checkIn EXCEPT ![i] = HbEvery]
      /\ UNCHANGED <<redisVars, up, primary>>
  BY DEF Check, Checked, CheckDue
<1>3. CASE j # i
  <2>1. knows'[j] = knows[j]
    BY <1>3, DetectedTyped DEF Check, Checked
  <2>2. /\ mon'[j] = mon[j] /\ misses'[j] = misses[j] /\ checkIn'[j] = checkIn[j]
        /\ primary'[j] = primary[j]
    BY <1>2, <1>3 DEF Check, Checked, TypeOK
  <2>3. Placed(j)'
    BY <1>1, <2>2 DEF Placed
  <2>4. Bereft(j)' /\ waited'[j] = waited[j] => Timed(j)'
    BY <1>1, <1>2, <2>1, <2>2, OthersTimed DEF redisVars
  <2> QED
    BY <1>1, <2>3, <2>4, StillWaiting
<1>4. CASE j = i
  <2>1. misses[j] \in {0, 1} /\ ~ primary[j]
    BY <1>1, <1>2, <1>4 DEF Placed
  <2>2. \/ mon'[j] = mon[j] /\ misses'[j] \in {misses[j], 0}
        \/ misses[j] = 0 /\ misses'[j] = 1 /\ mon'[j] = mon[j]
        \/ misses[j] = 1 /\ mon'[j] = "elect"
    BY <1>4, <2>1 DEF Check, Checked, TypeOK
  <2>3. Placed(j)'
    BY <1>2, <1>4, <2>1, <2>2 DEF Placed
  <2>4. ASSUME waited[j] > 0, Bereft(j), waited'[j] = waited[j], Bereft(j)' PROVE Timed(j)'
    <3>1. knows[j] \in Instances /\ knows' = knows /\ knows[j] # None
      BY <1>2, <1>4, <2>4 DEF Check, Checked, Bereft, TypeOK
    <3>2. KeysRunOut(j)'
      BY <1>1, <1>2, <2>4, <3>1 DEF Timed, KeysRunOut, redisVars
    <3>3. PICK w \in Nat : w = waited[j]
      BY DEF TypeOK
    <3>4. checkIn'[j] = HbEvery /\ checkIn[j] = 0 /\ mon[j] = "watch"
      BY <1>2, <1>4 DEF TypeOK
    <3>5. CASE IsPrimaryAlive(knows[j])
      <4>1. mon'[j] = "watch" /\ misses'[j] = 0
        BY <1>4, <3>1, <3>4, <3>5 DEF Check, Checked, TypeOK
      <4>2. beat[knows[j]] > 0 /\ beat[knows[j]] \in Nat
        BY <3>1, <3>5 DEF IsPrimaryAlive, TypeOK
      <4>3. beat[knows[j]] + waited[j] <= HbTTL
        BY <1>1, <2>4, <3>1, <4>2 DEF Timed, KeysRunOut
      <4>4. waited[j] + HbEvery <= HbTTL + HbEvery
        BY <3>3, <4>2, <4>3, Intervals
      <4> QED
        BY <2>4, <3>2, <3>4, <4>1, <4>4 DEF Timed, ChecksInTime
    <3>6. CASE ~ IsPrimaryAlive(knows[j]) /\ misses[j] = 0
      <4>1. mon'[j] = "watch" /\ misses'[j] = 1
        BY <1>4, <3>1, <3>4, <3>6 DEF Check, Checked, TypeOK
      <4>2. waited[j] + 0 <= HbTTL + HbEvery
        BY <1>1, <2>4, <3>4, <3>6 DEF Timed, ChecksInTime
      <4>3. waited[j] + HbEvery <= WaitBound
        BY <3>3, <4>2, Intervals
      <4> QED
        BY <2>4, <3>2, <3>4, <4>1, <4>3 DEF Timed, ChecksInTime
    <3>7. CASE ~ IsPrimaryAlive(knows[j]) /\ misses[j] = 1
      <4>1. mon'[j] = "elect"
        BY <1>4, <3>1, <3>4, <3>7 DEF Check, Checked, TypeOK
      <4>2. waited[j] + 0 <= WaitBound
        BY <1>1, <2>4, <3>4, <3>7 DEF Timed, ChecksInTime
      <4>3. waited[j] <= WaitBound
        BY <3>3, <4>2, Intervals
      <4> QED
        BY <2>4, <3>2, <4>1, <4>3 DEF Timed, ChecksInTime
    <3> QED
      BY <2>1, <3>5, <3>6, <3>7
  <2> QED
    BY <1>1, <2>3, <2>4, StillWaiting
<1> QED
  BY <1>3, <1>4

(* An election that is won relieves everyone; one that is lost leaves the   *)
(* time to start over, because the lock it is lost to is about to expire.  *)
LEMMA ElectTimed ==
  ASSUME LockIsShort, TypeOK, IInv, PInv, Quiet, NEW i \in Instances, Elect(i), Works, Waits
  PROVE  \A j \in Instances : Placed(j)' /\ Timed(j)'
<1> TAKE j \in Instances
<1>1. Placed(j) /\ Timed(j)
  BY DEF PInv
<1>2. up[i] /\ mon[i] = "elect" /\ UNCHANGED <<beat, beatRole, up, knows, misses, checkIn>>
  BY DEF Elect
<1>3. \/ ElectWins(i) /\ mon' = [mon EXCEPT ![i] = "promote"]
      \/ ElectLoses(i) /\ mon' = [mon EXCEPT ![i] = "detect"]
  <2>1. errors' = errors
    BY DEF Works, budgets
  <2>2. ~ Fails
    BY <2>1 DEF Fails, Errs, IInv
  <2> QED
    BY <2>2 DEF Elect
<1>4. CASE ElectWins(i) /\ mon' = [mon EXCEPT ![i] = "promote"]
  <2>1. primary'[i] /\ up'[i]
    BY <1>2, <1>4 DEF ElectWins, TypeOK
  <2>2. Placed(j)'
    BY <1>1, <1>2, <1>4 DEF Placed, ElectWins, TypeOK
  <2>3. ~ Bereft(j)'
    BY <2>1 DEF Bereft
  <2> QED
    BY <1>1, <2>2, <2>3, StillWaiting
<1>5. CASE ElectLoses(i) /\ mon' = [mon EXCEPT ![i] = "detect"]
  <2>1. lock # None /\ UNCHANGED <<lock, lockLeft>> /\ primary' = [primary EXCEPT ![i] = FALSE]
    BY <1>5 DEF ElectLoses
  <2>2. Placed(j)'
    BY <1>1, <1>2, <1>5, <2>1 DEF Placed, TypeOK
  <2>3. CASE j # i
    <3>1. mon'[j] = mon[j]
      BY <1>5, <2>3 DEF TypeOK
    <3>2. Bereft(j)' /\ waited'[j] = waited[j] => Timed(j)'
      BY <1>1, <1>2, <2>1, <3>1, OthersTimed
    <3> QED
      BY <1>1, <2>2, <3>2, StillWaiting
  <2>4. CASE j = i
    <3>1. ASSUME waited[j] > 0, Bereft(j), waited'[j] = waited[j], Bereft(j)' PROVE Timed(j)'
      <4>1. mon'[j] = "detect"
        BY <1>5, <2>4 DEF TypeOK
      <4>2. KeysRunOut(j)'
        BY <1>1, <1>2, <2>1, <3>1 DEF Timed, KeysRunOut
      <4>3. lockLeft > 0 /\ lockLeft \in Nat
        BY <2>1 DEF IInv
      <4>4. lockLeft + waited[j] <= LockTTL
        BY <1>1, <3>1, <4>3 DEF Timed, KeysRunOut
      <4>5. waited[j] \in Nat
        BY DEF TypeOK
      <4>6. waited[j] <= HbTTL + HbEvery
        BY <4>3, <4>4, <4>5, Constants, Intervals DEF LockIsShort
      <4> QED
        BY <3>1, <4>1, <4>2, <4>6 DEF Timed, ChecksInTime
    <3> QED
      BY <1>1, <2>2, <3>1, StillWaiting
  <2> QED
    BY <2>3, <2>4
<1> QED
  BY <1>3, <1>4, <1>5

(* Only a primary promotes itself, and then nobody waits. *)
LEMMA PromoteTimed ==
  ASSUME TypeOK, IInv, PInv, Quiet, NEW i \in Instances, Promote(i), Works, Waits
  PROVE  \A j \in Instances : Placed(j)' /\ Timed(j)'
<1> TAKE j \in Instances
<1>1. Placed(j) /\ Timed(j) /\ Placed(i)
  BY DEF PInv
<1>2. mon[i] = "promote" /\ UNCHANGED <<primary, misses>> /\ mon' = [mon EXCEPT ![i] = "off"]
  <2>1. errors' = errors
    BY DEF Works, budgets
  <2>2. ~ Fails
    BY <2>1 DEF Fails, Errs, IInv
  <2> QED
    BY <2>2 DEF Promote
<1>3. Placed(j)'
  BY <1>1, <1>2 DEF Placed, TypeOK
<1>4. ~ Bereft(j)
  BY <1>1, <1>2, NoPrimary DEF Placed
<1> QED
  BY <1>1, <1>3, <1>4, StillWaiting

(* A process that starts was not waiting; as a primary it relieves all.    *)
LEMMA StartTimed ==
  ASSUME TypeOK, IInv, PInv, Quiet, NEW i \in Instances, Start(i), Waits
  PROVE  \A j \in Instances : Placed(j)' /\ Timed(j)'
<1> TAKE j \in Instances
<1>1. Placed(j) /\ Timed(j)
  BY DEF PInv
<1>2. /\ ~ up[i] /\ up' = [up EXCEPT ![i] = TRUE]
      /\ mon' = [mon EXCEPT ![i] = IF primary'[i] THEN "off" ELSE "detect"]
      /\ UNCHANGED <<beat, beatRole, knows, misses, checkIn>>
  BY DEF Start
<1>3. \/ primary'[i] = TRUE /\ \A k \in Instances \ {i} : primary'[k] = primary[k]
      \/ primary'[i] = FALSE /\ lockLeft' = lockLeft
            /\ \A k \in Instances \ {i} : primary'[k] = primary[k]
  BY DEF Start, ElectWins, ElectLoses, TypeOK
<1>4. Placed(j)'
  BY <1>1, <1>2, <1>3 DEF Placed, TypeOK
<1>5. CASE primary'[i] = TRUE
  <2>1. up'[i]
    BY <1>2 DEF TypeOK
  <2>2. ~ Bereft(j)'
    BY <1>5, <2>1 DEF Bereft
  <2> QED
    BY <1>1, <1>4, <2>2, StillWaiting
<1>6. CASE primary'[i] = FALSE /\ lockLeft' = lockLeft
  <2>1. Bereft(j) => j # i
    BY <1>2 DEF Bereft
  <2>2. j # i => mon'[j] = mon[j]
    BY <1>2 DEF TypeOK
  <2>3. j # i /\ Bereft(j)' /\ waited'[j] = waited[j] => Timed(j)'
    BY <1>1, <1>2, <1>6, <2>2, OthersTimed
  <2> QED
    BY <1>1, <1>4, <2>1, <2>3, StillWaiting
<1> QED
  BY <1>3, <1>5, <1>6

(* A crash writes no key, and who crashes no longer waits. *)
LEMMA CrashTimed ==
  ASSUME TypeOK, IInv, PInv, Quiet, NEW i \in Instances, Crash(i), Waits
  PROVE  \A j \in Instances : Placed(j)' /\ Timed(j)'
<1> TAKE j \in Instances
<1>1. Placed(j) /\ Timed(j)
  BY DEF PInv
<1>2. Placed(j)'
  BY <1>1 DEF Placed, Crash, TypeOK
<1>3. Bereft(j)' => j # i
  BY DEF Bereft, Crash, TypeOK
<1>4. j # i => /\ mon'[j] = mon[j] /\ knows'[j] = knows[j]
               /\ misses'[j] = misses[j] /\ checkIn'[j] = checkIn[j]
  BY DEF Crash, TypeOK
<1>5. UNCHANGED <<lockLeft, beat, beatRole>>
  BY DEF Crash, redisVars
<1>6. j # i /\ Bereft(j)' /\ waited'[j] = waited[j] => Timed(j)'
  BY <1>1, <1>4, <1>5, OthersTimed
<1> QED
  BY <1>1, <1>2, <1>3, <1>6, StillWaiting

(* Time passes for the waits and for the TTLs alike, and never past a      *)
(* check that is due.                                                      *)
LEMMA TickTimed ==
  ASSUME TypeOK, IInv, PInv, Quiet, Tick
  PROVE  \A j \in Instances : Placed(j)' /\ Timed(j)'
<1> TAKE j \in Instances
<1>1. Placed(j) /\ Timed(j)
  BY DEF PInv
<1>2. /\ UNCHANGED <<beatRole, up, primary, mon, knows, misses>> /\ ~ Due(j)
      /\ waited' = [i \in Instances |->
                      IF Bereft(i) /\ waited[i] <= WaitBound THEN waited[i] + 1 ELSE 0]
  BY DEF Tick
<1>3. Placed(j)'
  BY <1>1, <1>2 DEF Placed
<1>4. Bereft(j)' = Bereft(j)
  BY <1>2 DEF Bereft
<1>5. CASE ~ (Bereft(j) /\ waited[j] <= WaitBound)
  <2>1. waited'[j] = 0
    BY <1>2, <1>5
  <2> QED
    BY <1>3, <2>1 DEF Timed
<1>6. CASE Bereft(j) /\ waited[j] <= WaitBound
  <2>1. PICK w \in Nat : waited[j] = w
    BY DEF TypeOK
  <2>2. waited'[j] = w + 1
    BY <1>2, <1>6, <2>1
  <2>3. lockLeft' = 0 \/ lockLeft' + waited'[j] <= LockTTL
    <3>1. PICK n \in 0 .. LockTTL : lockLeft = n
      BY DEF TypeOK
    <3>2. n = 0 \/ n + w <= LockTTL
      BY <1>1, <2>1, <3>1, Constants DEF Timed, KeysRunOut
    <3>3. lockLeft' = Down(n)
      BY <3>1 DEF Tick
    <3> QED
      BY <2>2, <3>1, <3>2, <3>3, DownIn, Constants
  <2>4. ASSUME NEW k \in Instances, beatRole'[k] \/ k = knows'[j]
        PROVE  beat'[k] = 0 \/ beat'[k] + waited'[j] <= HbTTL
    <3>1. PICK n \in 0 .. HbTTL : beat[k] = n
      BY DEF TypeOK
    <3>2. n = 0 \/ n + w <= HbTTL
      <4>1. CASE w = 0
        BY <3>1, <4>1, Intervals
      <4>2. CASE w > 0
        BY <1>1, <1>2, <2>1, <2>4, <3>1, <4>2 DEF Timed, KeysRunOut
      <4> QED
        BY <4>1, <4>2
    <3>3. beat'[k] = Down(n)
      BY <3>1 DEF Tick
    <3> QED
      BY <2>2, <3>1, <3>2, <3>3, DownIn, Intervals
  <2>5. mon[j] = "watch"
    <3>1. up[j] /\ mon[j] # "off" /\ ~ primary[j]
      BY <1>6, NoPrimary DEF Bereft
    <3>2. mon[j] \notin {"detect", "elect", "promote"}
      BY <1>2, <3>1 DEF Due
    <3> QED
      BY <3>1, <3>2 DEF TypeOK
  <2>6. PICK c \in 0 .. HbEvery : checkIn[j] = c
    BY DEF TypeOK
  <2>7. c > 0
    BY <1>2, <1>6, <2>5, <2>6, Intervals DEF Due, Bereft
  <2>8. checkIn'[j] = c - 1
    <3>1. checkIn'[j] = Down(c)
      BY <2>5, <2>6 DEF Tick
    <3> QED
      BY <2>7, <3>1, DownIn, Intervals
  <2>9. /\ misses[j] = 0 => w + c <= HbTTL + HbEvery
        /\ misses[j] = 1 => w + c <= WaitBound
    <3>1. CASE w = 0
      BY <2>6, <3>1, Intervals
    <3>2. CASE w > 0
      BY <1>1, <2>1, <2>5, <2>6, <3>2 DEF Timed, ChecksInTime
    <3> QED
      BY <3>1, <3>2
  <2>10. (w + 1) + (c - 1) = w + c
    BY <2>6, Intervals
  <2>11. ChecksInTime(j)'
    BY <1>2, <2>2, <2>5, <2>8, <2>9, <2>10 DEF ChecksInTime
  <2> QED
    BY <1>3, <1>4, <1>6, <2>3, <2>4, <2>11 DEF Timed, KeysRunOut
<1> QED
  BY <1>5, <1>6

(* The budgets never grow back: a quiet run was quiet all along. *)
LEMMA QuietBefore ==
  ASSUME TypeOK, IInv, [Next]_vars, Quiet'
  PROVE  /\ Quiet
         /\ \A i \in Instances : /\ Run(i) => ~ RenewErrs(i) /\ ~ CheckErrs(i)
                                 /\ ~ DeleteLock(i) /\ ~ ClearPrimary(i)
                                 /\ Beat(i) \/ Detect(i) \/ Elect(i) \/ Promote(i) => Works
                                 /\ ~ StepDown(i) /\ ~ ManualFailover(i)
<1>1. errors \in Nat /\ requests \in Nat
  BY ClusterAssumption DEF ClusterAssumption, TypeOK
<1>2. ~ Errs /\ ~ Fails /\ ~ Asked
  BY <1>1 DEF Errs, Fails, Asked, Quiet
<1>3. \A i \in Instances : /\ ~ RenewErrs(i) /\ ~ CheckErrs(i)
                           /\ ~ StepDown(i) /\ ~ ManualFailover(i)
  BY <1>2 DEF RenewErrs, CheckErrs, StepDown, ManualFailover
<1>4. \A i \in Instances : Beat(i) \/ Detect(i) \/ Elect(i) \/ Promote(i) => Works
  BY <1>2 DEF Beat, Detect, Elect, Promote
<1>5. UNCHANGED <<errors, requests>>
  <2>1. CASE UNCHANGED vars
    BY <2>1 DEF vars, budgets
  <2>2. CASE Tick
    BY <2>2 DEF Tick
  <2>3. ASSUME NEW i \in Instances, Run(i) PROVE UNCHANGED <<errors, requests>>
    BY <1>2, <1>3, <1>4, <2>3 DEF Run, Renew, Check, Checked, DeleteLock, ClearPrimary, Works, budgets
  <2>4. ASSUME NEW i \in Instances, Happens(i) PROVE UNCHANGED <<errors, requests>>
    BY <1>3, <2>4 DEF Happens, Start, Crash, budgets
  <2> QED
    BY <2>1, <2>2, <2>3, <2>4 DEF Next
<1>6. \A i \in Instances : ~ DeleteLock(i) /\ ~ ClearPrimary(i)
  <2>1. \A i \in Instances : deleting[i] = 0 /\ clearing[i] = 0
    BY <1>5 DEF IInv, Orderly, SteppingDown, Quiet
  <2> QED
    BY <2>1 DEF DeleteLock, ClearPrimary
<1> QED
  BY <1>3, <1>4, <1>5, <1>6 DEF Quiet

LEMMA TimedInductive ==
  ASSUME LockIsShort, TypeOK, IInv, PInv, [Next]_vars PROVE PInv'
<1> SUFFICES ASSUME Quiet' PROVE \A j \in Instances : Placed(j)' /\ Timed(j)'
  BY DEF PInv
<1>1. Quiet
  BY QuietBefore
<1>2. CASE UNCHANGED vars
  <2> TAKE j \in Instances
  <2>1. Placed(j) /\ Timed(j)
    BY <1>1 DEF PInv
  <2> QED
    BY <1>2, <2>1 DEF vars, redisVars, monVars, Placed, Timed, Bereft, KeysRunOut, ChecksInTime
<1>3. CASE Tick
  BY <1>1, <1>3, TickTimed
<1>4. ASSUME NEW i \in Instances, Run(i)
      PROVE  \A j \in Instances : Placed(j)' /\ Timed(j)'
  <2>1. Waits /\ (Renew(i) \/ Beat(i) \/ Detect(i) \/ Check(i) \/ Elect(i) \/ Promote(i))
    BY <1>4, QuietBefore DEF Run
  <2>2. Beat(i) \/ Detect(i) \/ Elect(i) \/ Promote(i) => Works
    BY QuietBefore
  <2> QED
    BY <1>1, <2>1, <2>2, RenewTimed, BeatTimed, DetectTimed, CheckTimed, ElectTimed, PromoteTimed
<1>5. ASSUME NEW i \in Instances, Happens(i)
      PROVE  \A j \in Instances : Placed(j)' /\ Timed(j)'
  <2>1. Waits /\ (Start(i) \/ Crash(i))
    BY <1>5, QuietBefore DEF Happens
  <2> QED
    BY <1>1, <2>1, StartTimed, CrashTimed
<1> QED
  BY <1>2, <1>3, <1>4, <1>5 DEF Next

(* However many instances there are and however often they crash and       *)
(* restart, a primary that is gone is replaced within the 40 s of          *)
(* test_failover_timing, as long as Redis answers, no operator intervenes  *)
(* and the lock expires soon enough.  FailoverOrchestrator's two checks,   *)
(* the elections it loses and the stale keys it finds are in that time.    *)
THEOREM FailoverAlwaysPrompt ==
  ASSUME LockIsShort PROVE Spec => []FailoverIsPrompt
<1>1. Init => PInv
  BY DEF Init, PInv, Placed, Timed
<1>2. TypeOK /\ IInv /\ PInv /\ [Next]_vars => PInv'
  BY TimedInductive
<1>3. TypeOK /\ IInv /\ PInv => FailoverIsPrompt
  <2> SUFFICES ASSUME TypeOK, IInv, PInv, Quiet, NEW i \in Instances
               PROVE  waited[i] <= WaitBound
    BY DEF FailoverIsPrompt, Quiet
  <2>1. PICK w \in Nat : waited[i] = w
    BY DEF TypeOK
  <2>2. Placed(i) /\ Timed(i)
    BY DEF PInv
  <2>3. CASE w = 0
    BY <2>1, <2>3, Intervals
  <2>4. CASE w > 0
    <3>1. Bereft(i) /\ ChecksInTime(i)
      BY <2>1, <2>2, <2>4 DEF Timed
    <3>2. mon[i] \in {"detect", "watch", "elect"}
      BY <2>2, <3>1, NoPrimary DEF Bereft, Placed, TypeOK
    <3>3. PICK c \in Nat : checkIn[i] = c
      BY DEF TypeOK
    <3>4. mon[i] = "watch" => misses[i] \in {0, 1}
      BY <2>2 DEF Placed
    <3>5. w <= HbTTL + HbEvery \/ w + c <= HbTTL + HbEvery \/ w + c <= WaitBound \/ w <= WaitBound
      BY <2>1, <3>1, <3>2, <3>3, <3>4 DEF ChecksInTime
    <3> QED
      BY <2>1, <3>3, <3>5, Intervals
  <2> QED
    BY <2>3, <2>4, <2>1
<1> QED
  BY <1>1, <1>2, <1>3, TypeAlways, Inductive, PTL DEF Spec

=============================================================================
