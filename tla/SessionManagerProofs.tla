------------------------ MODULE SessionManagerProofs ------------------------
(***************************************************************************)
(* Proofs about SessionManager: for any number of calls, sessions,         *)
(* handlers and pairs, every stop path of a session gives its pairs back   *)
(* at most once, no pair is forgotten other than in the two ways named,    *)
(* and a terminated session stays terminated.  About the AI session of a   *)
(* call (AISessions): a reconnection its record speaks of is under way.    *)
(* And about what a standby takes over (SessionRecovery): no stored call   *)
(* is passed over.                                                         *)
(***************************************************************************)
EXTENDS SessionManager, AISessions, SessionRecovery, TLAPS

(* Who owns which pair.  Beyond the two properties it says that a pair is  *)
(* only ever being given back by a session that has set ports_deallocated, *)
(* that a session not yet built has none, and that lost pairs have no      *)
(* owner: without these GivePair could free a pair another session holds.  *)
Ownership ==
    /\ PairsAreExclusive /\ NoPairLeaked
    /\ \A s \in Sess : giving[s] # {} => released[s]
    /\ \A s \in Sess : state[s] = "unborn"
                       => legs[s] = {} /\ ~ released[s] /\ giving[s] = {}
    /\ \A s \in Sess : Mine(s) \intersect (lostBuilding \union lostCancelled) = {}

(* What an actor works on: the sessions in the map and those an actor or a *)
(* loop holds have been built, which StopRelease relies on.                *)
Holding == {"return", "start", "spawn", "push"} \union StopPlaces

Control ==
    /\ \A c \in CallIds : sessions[c] \in Sess => state[sessions[c]] # "unborn"
    /\ \A x \in Callers : at[x] \in Holding => on[x] \in Sess /\ state[on[x]] # "unborn"
    /\ \A x \in Callers : at[x] = "create" => on[x] \in CallIds
    /\ \A s \in Sess : on[s] = s /\ (at[s] # "none" => state[s] # "unborn")

IInv == TypeOK /\ Ownership /\ Control

portVars == <<free, taken, legs, released, giving, lost>>

LEMMA InitIInv == Init => IInv
<1> SUFFICES ASSUME Init PROVE IInv
  OBVIOUS
<1>1. TypeOK
  BY ManagerAssumption DEF Init, TypeOK, Actors, StopPlaces
<1>2. Ownership
  BY DEF Init, Ownership, PairsAreExclusive, NoPairLeaked, Mine
<1>3. Control
  BY ManagerAssumption DEF Init, Control, Holding, StopPlaces, Actors, Callers
<1> QED
  BY <1>1, <1>2, <1>3 DEF IInv

(* A step that touches no pair keeps the ownership. *)
LEMMA PortsIdle ==
    ASSUME Ownership, UNCHANGED portVars,
           \A s \in Sess : state'[s] = "unborn" => state[s] = "unborn"
    PROVE  Ownership'
<1>1. \A s \in Sess : Mine(s)' = Mine(s)
  BY DEF portVars, Mine
<1> QED
  BY <1>1 DEF Ownership, PairsAreExclusive, NoPairLeaked, portVars, lost

(* A session with pairs to give back gives one. *)
LEMMA GivePairStep ==
    ASSUME TypeOK, Ownership, NEW s \in Sess, NEW p \in Pairs, GivePair(s, p),
           UNCHANGED <<legs, released, state, lost>>
    PROVE  /\ Ownership'
           /\ taken' \in SUBSET Pairs /\ free' = Pairs \ taken'
           /\ giving' \in [Sess -> SUBSET Pairs]
           /\ lostBuilding' \in SUBSET taken' /\ lostCancelled' \in SUBSET taken'
<1>1. released[s] /\ p \in Mine(s) /\ p \in taken
  BY DEF GivePair, Ownership, PairsAreExclusive, Mine
<1>2. taken' = taken \ {p} /\ free' = free \union {p}
  BY <1>1 DEF GivePair, Give
<1>3. giving' \in [Sess -> SUBSET Pairs]
  BY DEF GivePair, TypeOK
<1>4. /\ Mine(s)' = Mine(s) \ {p}
      /\ \A r \in Sess : r # s => Mine(r)' = Mine(r)
  BY <1>1 DEF GivePair, TypeOK, Mine
<1>5. p \notin lostBuilding \union lostCancelled
  BY <1>1 DEF Ownership
<1>6. \A r \in Sess : r # s => p \notin Mine(r)
  BY <1>1 DEF Ownership, PairsAreExclusive
<1>7. PairsAreExclusive'
  BY <1>2, <1>4, <1>6 DEF Ownership, PairsAreExclusive
<1>8. NoPairLeaked'
  BY <1>2, <1>4 DEF Ownership, NoPairLeaked, lost
<1>9. Ownership'
  BY <1>1, <1>4, <1>7, <1>8 DEF Ownership, GivePair, TypeOK, lost
<1> QED
  BY <1>1, <1>2, <1>3, <1>5, <1>9 DEF TypeOK, lost

(* A creation passes the check for the call id. *)
LEMMA CheckNewStep == ASSUME IInv, NEW h \in Handlers, NEW c \in CallIds, CheckNew(h, c) PROVE IInv'
<1>1. TypeOK'
  BY ManagerAssumption DEF IInv, TypeOK, Control, Holding, StopPlaces, Actors, Callers, sessionVars, lost, CheckNew, Goto
<1>2. Ownership'
  <2>1. UNCHANGED portVars /\ \A r \in Sess : state'[r] = "unborn" => state[r] = "unborn"
    BY DEF IInv, TypeOK, portVars, sessionVars, lost, CheckNew, Goto
  <2> QED
    BY <2>1, PortsIdle DEF IInv
<1>3. Control'
  BY ManagerAssumption DEF IInv, TypeOK, Control, Holding, StopPlaces, Actors, Callers, sessionVars, CheckNew, Goto
<1> QED
  BY <1>1, <1>2, <1>3 DEF IInv

(* A creation finds too few pairs. *)
LEMMA CreateRefusedStep == ASSUME IInv, NEW h \in Handlers, CreateRefused(h) PROVE IInv'
<1>1. TypeOK'
  BY ManagerAssumption DEF IInv, TypeOK, Control, Holding, StopPlaces, Actors, Callers, sessionVars, lost, CreateRefused, Return, Goto
<1>2. Ownership'
  <2>1. UNCHANGED portVars /\ \A r \in Sess : state'[r] = "unborn" => state[r] = "unborn"
    BY DEF IInv, TypeOK, portVars, sessionVars, lost, CreateRefused, Return, Goto
  <2> QED
    BY <2>1, PortsIdle DEF IInv
<1>3. Control'
  BY ManagerAssumption DEF IInv, TypeOK, Control, Holding, StopPlaces, Actors, Callers, sessionVars, CreateRefused, Return, Goto
<1> QED
  BY <1>1, <1>2, <1>3 DEF IInv

(* A creation answers. *)
LEMMA CreateReturnsStep == ASSUME IInv, NEW h \in Handlers, CreateReturns(h) PROVE IInv'
<1>1. TypeOK'
  BY ManagerAssumption DEF IInv, TypeOK, Control, Holding, StopPlaces, Actors, Callers, sessionVars, lost, CreateReturns, Return, Goto
<1>2. Ownership'
  <2>1. UNCHANGED portVars /\ \A r \in Sess : state'[r] = "unborn" => state[r] = "unborn"
    BY DEF IInv, TypeOK, portVars, sessionVars, lost, CreateReturns, Return, Goto
  <2> QED
    BY <2>1, PortsIdle DEF IInv
<1>3. Control'
  BY ManagerAssumption DEF IInv, TypeOK, Control, Holding, StopPlaces, Actors, Callers, sessionVars, CreateReturns, Return, Goto
<1> QED
  BY <1>1, <1>2, <1>3 DEF IInv

(* start_session finds its session. *)
LEMMA GetSessionStep == ASSUME IInv, NEW h \in Handlers, NEW c \in CallIds, GetSession(h, c) PROVE IInv'
<1>1. TypeOK'
  BY ManagerAssumption DEF IInv, TypeOK, Control, Holding, StopPlaces, Actors, Callers, sessionVars, lost, GetSession, Goto
<1>2. Ownership'
  <2>1. UNCHANGED portVars /\ \A r \in Sess : state'[r] = "unborn" => state[r] = "unborn"
    BY DEF IInv, TypeOK, portVars, sessionVars, lost, GetSession, Goto
  <2> QED
    BY <2>1, PortsIdle DEF IInv
<1>3. Control'
  BY ManagerAssumption DEF IInv, TypeOK, Control, Holding, StopPlaces, Actors, Callers, sessionVars, GetSession, Goto
<1> QED
  BY <1>1, <1>2, <1>3 DEF IInv

(* Initializing becomes Active. *)
LEMMA ActivateStep == ASSUME IInv, NEW h \in Handlers, Activate(h) PROVE IInv'
<1>1. TypeOK'
  BY ManagerAssumption DEF IInv, TypeOK, Control, Holding, StopPlaces, Actors, Callers, sessionVars, lost, Activate, Return, Goto
<1>2. Ownership'
  <2>1. UNCHANGED portVars /\ \A r \in Sess : state'[r] = "unborn" => state[r] = "unborn"
    BY DEF IInv, TypeOK, portVars, sessionVars, lost, Activate, Return, Goto
  <2> QED
    BY <2>1, PortsIdle DEF IInv
<1>3. Control'
  BY ManagerAssumption DEF IInv, TypeOK, Control, Holding, StopPlaces, Actors, Callers, sessionVars, Activate, Return, Goto
<1> QED
  BY <1>1, <1>2, <1>3 DEF IInv

(* The loop is spawned. *)
LEMMA SpawnStep == ASSUME IInv, NEW h \in Handlers, Spawn(h) PROVE IInv'
<1>1. TypeOK'
  BY ManagerAssumption DEF IInv, TypeOK, Control, Holding, StopPlaces, Actors, Callers, sessionVars, lost, Spawn, Return, Goto
<1>2. Ownership'
  <2>1. UNCHANGED portVars /\ \A r \in Sess : state'[r] = "unborn" => state[r] = "unborn"
    BY DEF IInv, TypeOK, portVars, sessionVars, lost, Spawn, Return, Goto
  <2> QED
    BY <2>1, PortsIdle DEF IInv
<1>3. Control'
  BY ManagerAssumption DEF IInv, TypeOK, Control, Holding, StopPlaces, Actors, Callers, sessionVars, Spawn, Return, Goto
<1> QED
  BY <1>1, <1>2, <1>3 DEF IInv

(* The loop's handle is kept. *)
LEMMA PushStep == ASSUME IInv, NEW h \in Handlers, Push(h) PROVE IInv'
<1>1. TypeOK'
  BY ManagerAssumption DEF IInv, TypeOK, Control, Holding, StopPlaces, Actors, Callers, sessionVars, lost, Push, Return, Goto
<1>2. Ownership'
  <2>1. UNCHANGED portVars /\ \A r \in Sess : state'[r] = "unborn" => state[r] = "unborn"
    BY DEF IInv, TypeOK, portVars, sessionVars, lost, Push, Return, Goto
  <2> QED
    BY <2>1, PortsIdle DEF IInv
<1>3. Control'
  BY ManagerAssumption DEF IInv, TypeOK, Control, Holding, StopPlaces, Actors, Callers, sessionVars, Push, Return, Goto
<1> QED
  BY <1>1, <1>2, <1>3 DEF IInv

(* stop_session takes the session out of the map. *)
LEMMA StopSessionStep == ASSUME IInv, NEW h \in Handlers, NEW c \in CallIds, StopSession(h, c) PROVE IInv'
<1>1. TypeOK'
  BY ManagerAssumption DEF IInv, TypeOK, Control, Holding, StopPlaces, Actors, Callers, sessionVars, lost, StopSession, RemoveAndStop, Goto
<1>2. Ownership'
  <2>1. UNCHANGED portVars /\ \A r \in Sess : state'[r] = "unborn" => state[r] = "unborn"
    BY DEF IInv, TypeOK, portVars, sessionVars, lost, StopSession, RemoveAndStop, Goto
  <2> QED
    BY <2>1, PortsIdle DEF IInv
<1>3. Control'
  BY ManagerAssumption DEF IInv, TypeOK, Control, Holding, StopPlaces, Actors, Callers, sessionVars, StopSession, RemoveAndStop, Goto
<1> QED
  BY <1>1, <1>2, <1>3 DEF IInv

(* stop_forwarding tests for Terminated. *)
LEMMA StopCheckStep == ASSUME IInv, NEW x \in Actors, StopCheck(x) PROVE IInv'
<1>1. TypeOK'
  BY ManagerAssumption DEF IInv, TypeOK, Control, Holding, StopPlaces, Actors, Callers, sessionVars, lost, StopCheck, Return, Goto
<1>2. Ownership'
  <2>1. UNCHANGED portVars /\ \A r \in Sess : state'[r] = "unborn" => state[r] = "unborn"
    BY DEF IInv, TypeOK, portVars, sessionVars, lost, StopCheck, Return, Goto
  <2> QED
    BY <2>1, PortsIdle DEF IInv
<1>3. Control'
  BY ManagerAssumption DEF IInv, TypeOK, Control, Holding, StopPlaces, Actors, Callers, sessionVars, StopCheck, Return, Goto
<1> QED
  BY <1>1, <1>2, <1>3 DEF IInv

(* The loop is aborted. *)
LEMMA StopDrainStep == ASSUME IInv, NEW x \in Actors, StopDrain(x) PROVE IInv'
<1>1. TypeOK'
  BY ManagerAssumption DEF IInv, TypeOK, Control, Holding, StopPlaces, Actors, Callers, sessionVars, lost, StopDrain, Goto
<1>2. Ownership'
  <2>1. UNCHANGED portVars /\ \A r \in Sess : state'[r] = "unborn" => state[r] = "unborn"
    BY DEF IInv, TypeOK, portVars, sessionVars, lost, StopDrain, Goto
  <2> QED
    BY <2>1, PortsIdle DEF IInv
<1>3. Control'
  BY ManagerAssumption DEF IInv, TypeOK, Control, Holding, StopPlaces, Actors, Callers, sessionVars, StopDrain, Goto
<1> QED
  BY <1>1, <1>2, <1>3 DEF IInv

(* The state becomes Terminated. *)
LEMMA StopTerminateStep == ASSUME IInv, NEW x \in Actors, StopTerminate(x) PROVE IInv'
<1>1. TypeOK'
  BY ManagerAssumption DEF IInv, TypeOK, Control, Holding, StopPlaces, Actors, Callers, sessionVars, lost, StopTerminate, Goto
<1>2. Ownership'
  <2>1. UNCHANGED portVars /\ \A r \in Sess : state'[r] = "unborn" => state[r] = "unborn"
    BY DEF IInv, TypeOK, portVars, sessionVars, lost, StopTerminate, Goto
  <2> QED
    BY <2>1, PortsIdle DEF IInv
<1>3. Control'
  BY ManagerAssumption DEF IInv, TypeOK, Control, Holding, StopPlaces, Actors, Callers, sessionVars, StopTerminate, Goto
<1> QED
  BY <1>1, <1>2, <1>3 DEF IInv

(* The monitor collects timed-out ids. *)
LEMMA CollectStep == ASSUME IInv, Collect PROVE IInv'
<1>1. TypeOK'
  BY ManagerAssumption DEF IInv, TypeOK, Control, Holding, StopPlaces, Actors, Callers, sessionVars, lost, Collect, Goto
<1>2. Ownership'
  <2>1. UNCHANGED portVars /\ \A r \in Sess : state'[r] = "unborn" => state[r] = "unborn"
    BY DEF IInv, TypeOK, portVars, sessionVars, lost, Collect, Goto
  <2> QED
    BY <2>1, PortsIdle DEF IInv
<1>3. Control'
  BY ManagerAssumption DEF IInv, TypeOK, Control, Holding, StopPlaces, Actors, Callers, sessionVars, Collect, Goto
<1> QED
  BY <1>1, <1>2, <1>3 DEF IInv

(* The monitor stops one of them, or finds it gone. *)
LEMMA CleanupNextStep == ASSUME IInv, CleanupNext PROVE IInv'
<1>1. TypeOK'
  BY ManagerAssumption DEF IInv, TypeOK, Control, Holding, StopPlaces, Actors, Callers, sessionVars, lost, CleanupNext, RemoveAndStop, Goto
<1>2. Ownership'
  <2>1. UNCHANGED portVars /\ \A r \in Sess : state'[r] = "unborn" => state[r] = "unborn"
    BY DEF IInv, TypeOK, portVars, sessionVars, lost, CleanupNext, RemoveAndStop, Goto
  <2> QED
    BY <2>1, PortsIdle DEF IInv
<1>3. Control'
  BY ManagerAssumption DEF IInv, TypeOK, Control, Holding, StopPlaces, Actors, Callers, sessionVars, CleanupNext, RemoveAndStop, Goto
<1> QED
  BY <1>1, <1>2, <1>3 DEF IInv

(* The monitor is done. *)
LEMMA CleanupDoneStep == ASSUME IInv, CleanupDone PROVE IInv'
<1>1. TypeOK'
  BY ManagerAssumption DEF IInv, TypeOK, Control, Holding, StopPlaces, Actors, Callers, sessionVars, lost, CleanupDone, Goto
<1>2. Ownership'
  <2>1. UNCHANGED portVars /\ \A r \in Sess : state'[r] = "unborn" => state[r] = "unborn"
    BY DEF IInv, TypeOK, portVars, sessionVars, lost, CleanupDone, Goto
  <2> QED
    BY <2>1, PortsIdle DEF IInv
<1>3. Control'
  BY ManagerAssumption DEF IInv, TypeOK, Control, Holding, StopPlaces, Actors, Callers, sessionVars, CleanupDone, Goto
<1> QED
  BY <1>1, <1>2, <1>3 DEF IInv

(* The loop sees that it is over. *)
LEMMA LoopSeesStateStep == ASSUME IInv, NEW s \in Sess, LoopSeesState(s) PROVE IInv'
<1>1. TypeOK'
  BY ManagerAssumption DEF IInv, TypeOK, Control, Holding, StopPlaces, Actors, Callers, sessionVars, lost, LoopSeesState, Goto
<1>2. Ownership'
  <2>1. UNCHANGED portVars /\ \A r \in Sess : state'[r] = "unborn" => state[r] = "unborn"
    BY DEF IInv, TypeOK, portVars, sessionVars, lost, LoopSeesState, Goto
  <2> QED
    BY <2>1, PortsIdle DEF IInv
<1>3. Control'
  BY ManagerAssumption DEF IInv, TypeOK, Control, Holding, StopPlaces, Actors, Callers, sessionVars, LoopSeesState, Goto
<1> QED
  BY <1>1, <1>2, <1>3 DEF IInv

(* The loop times out. *)
LEMMA LoopTimesOutStep == ASSUME IInv, NEW s \in Sess, LoopTimesOut(s) PROVE IInv'
<1>1. TypeOK'
  BY ManagerAssumption DEF IInv, TypeOK, Control, Holding, StopPlaces, Actors, Callers, sessionVars, lost, LoopTimesOut, Goto
<1>2. Ownership'
  <2>1. UNCHANGED portVars /\ \A r \in Sess : state'[r] = "unborn" => state[r] = "unborn"
    BY DEF IInv, TypeOK, portVars, sessionVars, lost, LoopTimesOut, Goto
  <2> QED
    BY <2>1, PortsIdle DEF IInv
<1>3. Control'
  BY ManagerAssumption DEF IInv, TypeOK, Control, Holding, StopPlaces, Actors, Callers, sessionVars, LoopTimesOut, Goto
<1> QED
  BY <1>1, <1>2, <1>3 DEF IInv

(* The loop receives a packet. *)
LEMMA LoopReceivesStep == ASSUME IInv, NEW s \in Sess, LoopReceives(s) PROVE IInv'
<1>1. TypeOK'
  BY ManagerAssumption DEF IInv, TypeOK, Control, Holding, StopPlaces, Actors, Callers, sessionVars, lost, LoopReceives
<1>2. Ownership'
  <2>1. UNCHANGED portVars /\ \A r \in Sess : state'[r] = "unborn" => state[r] = "unborn"
    BY DEF IInv, TypeOK, portVars, sessionVars, lost, LoopReceives
  <2> QED
    BY <2>1, PortsIdle DEF IInv
<1>3. Control'
  BY ManagerAssumption DEF IInv, TypeOK, Control, Holding, StopPlaces, Actors, Callers, sessionVars, LoopReceives
<1> QED
  BY <1>1, <1>2, <1>3 DEF IInv

(* A session goes idle. *)
LEMMA GoIdleStep == ASSUME IInv, NEW s \in Sess, GoIdle(s) PROVE IInv'
<1>1. TypeOK'
  BY ManagerAssumption DEF IInv, TypeOK, Control, Holding, StopPlaces, Actors, Callers, sessionVars, lost, GoIdle
<1>2. Ownership'
  <2>1. UNCHANGED portVars /\ \A r \in Sess : state'[r] = "unborn" => state[r] = "unborn"
    BY DEF IInv, TypeOK, portVars, sessionVars, lost, GoIdle
  <2> QED
    BY <2>1, PortsIdle DEF IInv
<1>3. Control'
  BY ManagerAssumption DEF IInv, TypeOK, Control, Holding, StopPlaces, Actors, Callers, sessionVars, GoIdle
<1> QED
  BY <1>1, <1>2, <1>3 DEF IInv

(* The construction of a session: its pairs come from the pool.  A session *)
(* that was never built had none, so only the new one changes hands.       *)
LEMMA CreateStep == ASSUME IInv, NEW h \in Handlers, Create(h) PROVE IInv'
<1>1. PICK s \in Sess, ps \in SUBSET free :
         /\ state[s] = "unborn" /\ TakeBoth(ps)
         /\ state' = [state EXCEPT ![s] = "Initializing"]
         /\ call' = [call EXCEPT ![s] = on[h]]
         /\ legs' = [legs EXCEPT ![s] = ps]
         /\ sessions' = [sessions EXCEPT ![on[h]] = s]
         /\ on' = [on EXCEPT ![h] = s]
  BY DEF Create
<1>2. /\ ps \in SUBSET Pairs /\ ps \intersect taken = {}
      /\ taken' = taken \union ps /\ free' = Pairs \ taken'
  BY <1>1 DEF IInv, TypeOK, TakeBoth
<1>3. on[h] \in CallIds /\ h \in Callers /\ h \notin Sess
  BY ManagerAssumption DEF IInv, Control, Create, Callers
<1>4. TypeOK'
  BY <1>1, <1>2, <1>3, ManagerAssumption
     DEF IInv, TypeOK, Create, Goto, Actors, Callers, StopPlaces, lost
<1>5. /\ Mine(s) = {} /\ Mine(s)' = ps
      /\ \A r \in Sess : r # s => Mine(r)' = Mine(r)
  BY <1>1 DEF IInv, TypeOK, Ownership, Create, Mine
<1>6. Ownership'
  <2>1. PairsAreExclusive'
    BY <1>2, <1>5 DEF IInv, Ownership, PairsAreExclusive
  <2>2. NoPairLeaked'
    BY <1>2, <1>5 DEF IInv, Ownership, NoPairLeaked, Create, lost
  <2>3. \A r \in Sess : giving'[r] # {} => released'[r]
    BY DEF IInv, Ownership, Create
  <2>4. \A r \in Sess : state'[r] = "unborn"
                         => legs'[r] = {} /\ ~ released'[r] /\ giving'[r] = {}
    BY <1>1 DEF IInv, TypeOK, Ownership, Create
  <2>5. \A r \in Sess : Mine(r)' \intersect (lostBuilding' \union lostCancelled') = {}
    BY <1>2, <1>5 DEF IInv, TypeOK, Ownership, Create, lost
  <2> QED
    BY <2>1, <2>2, <2>3, <2>4, <2>5 DEF Ownership
<1>7. Control'
  BY <1>1, <1>3, ManagerAssumption
     DEF IInv, TypeOK, Control, Holding, StopPlaces, Create, Goto, Actors, Callers
<1> QED
  BY <1>4, <1>6, <1>7 DEF IInv

(* The pairs of a session that fails to build are owned by nobody. *)
LEMMA CreateFailsStep == ASSUME IInv, NEW h \in Handlers, CreateFails(h) PROVE IInv'
<1>1. PICK ps \in SUBSET free : TakeBoth(ps) /\ lostBuilding' = lostBuilding \union ps
  BY DEF CreateFails
<1>2. /\ ps \in SUBSET Pairs /\ ps \intersect taken = {}
      /\ taken' = taken \union ps /\ free' = Pairs \ taken'
  BY <1>1 DEF IInv, TypeOK, TakeBoth
<1>3. \A r \in Sess : Mine(r)' = Mine(r)
  BY DEF CreateFails, sessionVars, Mine
<1>4. TypeOK'
  BY <1>1, <1>2, ManagerAssumption
     DEF IInv, TypeOK, CreateFails, Return, Goto, Actors, Callers, sessionVars, StopPlaces
<1>5. Ownership'
  BY <1>1, <1>2, <1>3
     DEF IInv, Ownership, PairsAreExclusive, NoPairLeaked, CreateFails, sessionVars
<1>6. Control'
  BY ManagerAssumption
     DEF IInv, TypeOK, Control, Holding, StopPlaces, CreateFails, Return, Goto, Actors,
         Callers, sessionVars
<1> QED
  BY <1>4, <1>5, <1>6 DEF IInv

(* The winner of the compare_exchange takes on the session's pairs: they   *)
(* were the session's before and still are.                                *)
LEMMA WinnerStep ==
    ASSUME TypeOK, Ownership, NEW s \in Sess, state[s] # "unborn", ~ released[s],
           released' = [released EXCEPT ![s] = TRUE],
           giving' = [giving EXCEPT ![s] = legs[s]],
           UNCHANGED <<free, taken, legs, state, lost>>
    PROVE  Ownership'
<1>1. \A r \in Sess : Mine(r)' = Mine(r)
  BY DEF TypeOK, Mine
<1> QED
  BY <1>1 DEF Ownership, TypeOK, PairsAreExclusive, NoPairLeaked, lost

(* Every actor inside stop_forwarding holds a session that has been built. *)
LEMMA StopperHolds ==
    ASSUME IInv, NEW x \in Actors, at[x] \in StopPlaces
    PROVE  on[x] \in Sess /\ state[on[x]] # "unborn"
BY DEF IInv, Control, Holding, StopPlaces, Actors

LEMMA StopReleaseStep == ASSUME IInv, NEW x \in Actors, StopRelease(x) PROVE IInv'
<1>1. on[x] \in Sess /\ state[on[x]] # "unborn"
  BY StopperHolds DEF StopRelease, StopPlaces
<1>2. TypeOK'
  <2>1. at' \in [Actors -> StopPlaces \union {"ready", "create", "return", "start", "spawn",
                                              "push", "cleanup", "none", "run", "ended"}]
    BY DEF IInv, TypeOK, StopRelease, Return, Goto, Actors, Callers, StopPlaces
  <2>2. on' \in [Actors -> Sess \union CallIds \union {None}]
    BY DEF IInv, TypeOK, StopRelease, Return
  <2>3. released' \in [Sess -> BOOLEAN] /\ giving' \in [Sess -> SUBSET Pairs]
    <3>1. legs[on[x]] \in SUBSET Pairs
      BY <1>1 DEF IInv, TypeOK
    <3>2. CASE released[on[x]]
      BY <3>2 DEF IInv, TypeOK, StopRelease
    <3>3. CASE ~ released[on[x]]
      BY <3>1, <3>3 DEF IInv, TypeOK, StopRelease
    <3> QED
      BY <3>2, <3>3
  <2> QED
    BY <2>1, <2>2, <2>3 DEF IInv, TypeOK, StopRelease, lost
<1>3. Control'
  BY <1>1, ManagerAssumption
     DEF IInv, TypeOK, Control, Holding, StopPlaces, StopRelease, Return, Goto, Actors, Callers
<1>4. CASE released[on[x]]
  <2>1. UNCHANGED portVars /\ UNCHANGED state
    BY <1>4 DEF StopRelease, portVars
  <2> QED
    BY <1>2, <1>3, <2>1, PortsIdle DEF IInv
<1>5. CASE ~ released[on[x]]
  BY <1>1, <1>2, <1>3, <1>5, WinnerStep DEF IInv, StopRelease
<1> QED
  BY <1>4, <1>5

LEMMA StopGiveStep == ASSUME IInv, NEW x \in Actors, StopGive(x) PROVE IInv'
<1>1. on[x] \in Sess /\ state[on[x]] # "unborn"
  BY StopperHolds DEF StopGive, StopPlaces
<1>2. CASE \E p \in Pairs : GivePair(on[x], p) /\ UNCHANGED <<at, on>>
  <2>1. PICK p \in Pairs : GivePair(on[x], p) /\ UNCHANGED <<at, on>>
    BY <1>2
  <2>2. UNCHANGED <<legs, released, state, lost>>
    BY DEF StopGive
  <2>3. Ownership' /\ TypeOK'
    BY <1>1, <2>1, <2>2, GivePairStep DEF IInv, TypeOK, StopGive, lost
  <2>4. Control'
    BY <2>1 DEF IInv, Control, StopGive
  <2> QED
    BY <2>3, <2>4 DEF IInv
<1>3. CASE giving[on[x]] = {} /\ Return(x) /\ UNCHANGED <<free, taken, giving>>
  <2>1. UNCHANGED portVars /\ UNCHANGED state
    BY <1>3 DEF StopGive, portVars
  <2>2. TypeOK'
    BY <1>3, <2>1, ManagerAssumption
       DEF IInv, TypeOK, StopGive, Return, Goto, Actors, Callers, StopPlaces, portVars, lost
  <2>3. Control'
    BY <1>3, ManagerAssumption
       DEF IInv, TypeOK, Control, Holding, StopPlaces, StopGive, Return, Goto, Actors, Callers
  <2> QED
    BY <2>1, <2>2, <2>3, PortsIdle DEF IInv
<1> QED
  BY <1>2, <1>3 DEF StopGive

(* A cancelled loop: what it had yet to give back is lost, nothing else. *)
LEMMA LoopCancelledStep == ASSUME IInv, NEW s \in Sess, LoopCancelled(s) PROVE IInv'
<1>1. TypeOK'
  BY DEF IInv, TypeOK, Ownership, PairsAreExclusive, Mine, LoopCancelled, Goto, Actors,
         StopPlaces
<1>2. Control'
  BY ManagerAssumption
     DEF IInv, TypeOK, Control, Holding, StopPlaces, LoopCancelled, Goto, Actors, Callers
<1>3. CASE at[s] = "give" /\ giving[s] # {}
  <2>1. released[s]
    BY <1>3 DEF IInv, Ownership
  <2>2. /\ Mine(s) = giving[s] /\ Mine(s)' = {}
        /\ lostCancelled' = lostCancelled \union Mine(s)
        /\ \A r \in Sess : r # s => Mine(r)' = Mine(r)
    BY <1>3, <2>1 DEF IInv, TypeOK, LoopCancelled, Mine
  <2>3. Ownership'
    BY <2>1, <2>2, <1>3
       DEF IInv, TypeOK, Ownership, PairsAreExclusive, NoPairLeaked, LoopCancelled
  <2> QED
    BY <1>1, <1>2, <2>3 DEF IInv
<1>4. CASE ~ (at[s] = "give" /\ giving[s] # {})
  <2>1. UNCHANGED portVars /\ UNCHANGED state
    <3>1. at[s] = "give" => giving[s] = {} /\ giving' = giving
      <4> SUFFICES ASSUME at[s] = "give" PROVE giving[s] = {} /\ giving' = giving
        OBVIOUS
      <4>1. giving[s] = {} /\ giving' = [giving EXCEPT ![s] = {}]
        BY <1>4 DEF LoopCancelled
      <4>2. giving \in [Sess -> SUBSET Pairs]
        BY DEF IInv, TypeOK
      <4> QED
        BY <4>1, <4>2
    <3>2. giving' = giving /\ lostCancelled' = lostCancelled
      BY <3>1 DEF LoopCancelled
    <3> QED
      BY <3>2 DEF LoopCancelled, portVars, lost
  <2> QED
    BY <1>1, <1>2, <2>1, PortsIdle DEF IInv
<1> QED
  BY <1>3, <1>4

(* The task a dropped session spawns. *)
LEMMA DropTaskStep == ASSUME IInv, NEW s \in Sess, DropTask(s) PROVE IInv'
<1>1. Control'
  BY DEF IInv, Control, DropTask
<1>2. CASE /\ ~ released[s]
           /\ released' = [released EXCEPT ![s] = TRUE]
           /\ giving' = [giving EXCEPT ![s] = legs[s]]
           /\ UNCHANGED <<free, taken>>
  <2>1. TypeOK'
    BY <1>2 DEF IInv, TypeOK, DropTask, lost
  <2>2. Ownership'
    BY <1>2, WinnerStep DEF IInv, DropTask
  <2> QED
    BY <1>1, <2>1, <2>2 DEF IInv
<1>3. CASE \E p \in Pairs : GivePair(s, p) /\ UNCHANGED released
  <2>1. PICK p \in Pairs : GivePair(s, p) /\ UNCHANGED released
    BY <1>3
  <2>2. UNCHANGED <<legs, released, state, lost>>
    BY <2>1 DEF DropTask
  <2>3. Ownership' /\ TypeOK'
    BY <2>1, <2>2, GivePairStep DEF IInv, TypeOK, DropTask, lost
  <2> QED
    BY <1>1, <2>3 DEF IInv
<1> QED
  BY <1>2, <1>3 DEF DropTask

(* Every step of the specification. *)
LEMMA NextIInv == IInv /\ [Next]_vars => IInv'
<1> SUFFICES ASSUME IInv, [Next]_vars PROVE IInv'
  OBVIOUS
<1>1. ASSUME NEW h \in Handlers, NEW c \in CallIds,
             CheckNew(h, c) \/ GetSession(h, c) \/ StopSession(h, c)
      PROVE  IInv'
  BY <1>1, CheckNewStep, GetSessionStep, StopSessionStep
<1>2. ASSUME NEW x \in Actors, Stop(x) PROVE IInv'
  BY <1>2, StopCheckStep, StopDrainStep, StopTerminateStep, StopReleaseStep, StopGiveStep
     DEF Stop
<1>3. ASSUME NEW h \in Handlers, Handle(h) PROVE IInv'
  BY <1>2, <1>3, CreateStep, CreateRefusedStep, CreateFailsStep, CreateReturnsStep,
     ActivateStep, SpawnStep, PushStep DEF Handle, Actors, Callers
<1>4. ASSUME Clean PROVE IInv'
  BY <1>2, <1>4, CollectStep, CleanupNextStep, CleanupDoneStep DEF Clean, Actors, Callers
<1>5. ASSUME NEW s \in Sess, Loop(s) \/ LoopReceives(s) \/ DropTask(s) \/ GoIdle(s)
      PROVE  IInv'
  BY <1>2, <1>5, LoopSeesStateStep, LoopTimesOutStep, LoopCancelledStep, LoopReceivesStep,
     DropTaskStep, GoIdleStep DEF Loop, Actors
<1>6. CASE UNCHANGED vars
  <2>1. TypeOK' /\ Control'
    BY <1>6 DEF IInv, TypeOK, Control, vars, sessionVars, lost
  <2>2. UNCHANGED portVars /\ UNCHANGED state
    BY <1>6 DEF vars, sessionVars, portVars
  <2> QED
    BY <2>1, <2>2, PortsIdle DEF IInv
<1> QED
  BY <1>1, <1>3, <1>4, <1>5, <1>6 DEF Next

THEOREM Inductive == Spec => []IInv
BY InitIInv, NextIInv, PTL DEF Spec

(* The state of the manager and of its sessions stays well formed, and     *)
(* the pool's two halves stay complementary.                               *)
THEOREM TypeCorrect == Spec => []TypeOK
<1>1. IInv => TypeOK
  BY DEF IInv
<1> QED
  BY <1>1, Inductive, PTL

(* API, monitor, loop and Drop together give a session's pairs back at     *)
(* most once: until then no other session has them (deallocate_ports).     *)
THEOREM PairsAreExclusiveAlways == Spec => []PairsAreExclusive
<1>1. IInv => PairsAreExclusive
  BY DEF IInv, Ownership
<1> QED
  BY <1>1, Inductive, PTL

(* The failed construction and the cancelled stop are the only two ways a  *)
(* pair leaves the pool for good.                                          *)
THEOREM NoPairLeakedAlways == Spec => []NoPairLeaked
<1>1. IInv => NoPairLeaked
  BY DEF IInv, Ownership
<1> QED
  BY <1>1, Inductive, PTL

(* What StatesAdvance asks of one step. *)
Advances == \A s \in Sess : /\ state[s] = "Terminated" => state'[s] = "Terminated"
                            /\ state[s] = "Terminating" => state'[s] # "Active"

LEMMA StepAdvances == IInv /\ [Next]_vars => Advances
<1> SUFFICES ASSUME IInv, [Next]_vars PROVE Advances
  OBVIOUS
<1>1. ASSUME UNCHANGED state PROVE Advances
  BY <1>1 DEF Advances
<1>2. ASSUME NEW x \in Actors, Stop(x) PROVE Advances
  <2>1. on[x] \in Sess \/ UNCHANGED state
    BY <1>2, StopperHolds
       DEF Stop, StopCheck, StopDrain, StopTerminate, StopRelease, StopGive, StopPlaces
  <2>2. CASE StopCheck(x)
    BY <2>1, <2>2 DEF StopCheck, Advances, IInv, TypeOK
  <2>3. CASE StopTerminate(x)
    BY <2>1, <2>3 DEF StopTerminate, Advances, IInv, TypeOK
  <2>4. CASE StopDrain(x) \/ StopRelease(x) \/ StopGive(x)
    BY <1>1, <2>4 DEF StopDrain, StopRelease, StopGive
  <2> QED
    BY <1>2, <2>2, <2>3, <2>4 DEF Stop
<1>3. ASSUME NEW h \in Handlers, Create(h) PROVE Advances
  BY <1>3 DEF Create, Advances, IInv, TypeOK
<1>4. ASSUME NEW h \in Handlers, Activate(h) PROVE Advances
  BY <1>4 DEF Activate, Advances, IInv, TypeOK
<1>5. ASSUME NEW h \in Handlers, Handle(h) PROVE Advances
  BY <1>1, <1>2, <1>3, <1>4, <1>5
     DEF Handle, CreateRefused, CreateFails, CreateReturns, Spawn, Push, sessionVars, Actors,
         Callers
<1>6. ASSUME NEW h \in Handlers, NEW c \in CallIds,
             CheckNew(h, c) \/ GetSession(h, c) \/ StopSession(h, c)
      PROVE  Advances
  BY <1>1, <1>6 DEF CheckNew, GetSession, StopSession, sessionVars
<1>7. ASSUME Clean PROVE Advances
  BY <1>1, <1>2, <1>7
     DEF Clean, Collect, CleanupNext, CleanupDone, sessionVars, Actors, Callers
<1>8. ASSUME NEW s \in Sess, Loop(s) \/ LoopReceives(s) \/ DropTask(s) \/ GoIdle(s)
      PROVE  Advances
  BY <1>1, <1>2, <1>8
     DEF Loop, LoopSeesState, LoopTimesOut, LoopCancelled, LoopReceives, DropTask, GoIdle,
         sessionVars, Actors
<1>9. CASE UNCHANGED vars
  BY <1>1, <1>9 DEF vars, sessionVars
<1> QED
  BY <1>5, <1>6, <1>7, <1>8, <1>9 DEF Next

(* A stopped session is never active again, however the stop paths and a   *)
(* late start_session interleave (the state lock of MediaSession).         *)
THEOREM StatesAdvanceAlways == Spec => StatesAdvance
<1>1. IInv /\ [Next]_vars => [Advances]_state
  BY StepAdvances
<1> QED
  BY <1>1, Inductive, PTL DEF Spec, StatesAdvance, Advances
-----------------------------------------------------------------------------
(* One session per call.  create_session checks the id, waits for sockets   *)
(* and inserts: two creations that overlap may both pass the check.  When  *)
(* they come one after another, the id is still free at the insertion, and *)
(* a session that has not been told to stop stays where stop_session finds *)
(* it.                                                                     *)

OneCreation == \A g, h \in Handlers : at[g] = "create" /\ at[h] = "create" => g = h

Live(s) == state[s] \in {"Initializing", "Active"}
Over(s) == state[s] \in {"Terminating", "Terminated"}

(* Where stop_forwarding has changed the state. *)
Late == {"drain", "terminate", "release", "give"}

Found == \A s \in Sess : Live(s) => call[s] \in CallIds /\ (sessions[call[s]] = s \/ Stopping(s))

Fresh == \A h \in Handlers : at[h] = "create" => sessions[on[h]] = None

(* A loop is only aborted once its session is over, so it does not take a   *)
(* stop with it that has yet to change the state.                          *)
Settled == /\ \A x \in Actors : at[x] \in Late => Over(on[x])
           /\ \A s \in Sess : aborted[s] => Over(s)

(* Nor does spawning a loop: it is spawned once, by whoever activated the   *)
(* session.                                                                *)
SpawnedOnce ==
    /\ \A s \in Sess : state[s] = "Initializing" => at[s] = "none"
    /\ \A h \in Handlers : at[h] = "spawn" => at[on[h]] = "none" /\ state[on[h]] # "Initializing"
    /\ \A g, h \in Handlers : at[g] = "spawn" /\ at[h] = "spawn" /\ on[g] = on[h] => g = h

FoundInv == Found /\ Fresh /\ Settled /\ SpawnedOnce

LEMMA Kinds == /\ Handlers \subseteq Callers /\ Monitor \in Callers /\ Callers \subseteq Actors
               /\ Sess \subseteq Actors /\ Monitor \notin Handlers /\ Callers \intersect Sess = {}
               /\ None \notin Sess /\ None \notin CallIds /\ None \notin Callers
  BY ManagerAssumption DEF ManagerAssumption, Callers, Actors

(* A caller moves between places that matter to none of it, and lets go of  *)
(* its session or takes one up.                                            *)
Passing == {"ready", "return", "start", "push", "cleanup"}

LEMMA CallerMoves ==
  ASSUME IInv, FoundInv, UNCHANGED <<sessions, state, call, aborted>>,
         NEW x \in Callers, at[x] # "stop", at'[x] \in Passing,
         at' = [at EXCEPT ![x] = at'[x]], \A y \in Actors \ {x} : on'[y] = on[y]
  PROVE  FoundInv'
<1> USE Kinds
<1>1. \A y \in Actors \ {x} : at'[y] = at[y] /\ on'[y] = on[y]
  BY DEF IInv, TypeOK
<1>2. \A s \in Sess : Live(s)' = Live(s) /\ Over(s)' = Over(s) /\ (Stopping(s) => Stopping(s)')
  BY <1>1 DEF Live, Over, Stopping
<1>3. Found'
  BY <1>2 DEF FoundInv, Found
<1>4. Fresh'
  BY <1>1 DEF FoundInv, Fresh, Passing
<1>5. Settled'
  BY <1>1 DEF FoundInv, Settled, Over, Passing, Late
<1>6. SpawnedOnce'
  <2>1. \A h \in Handlers : at'[h] = "spawn" => h # x /\ at[h] = "spawn" /\ on'[h] = on[h]
    BY <1>1 DEF Passing
  <2>2. \A s \in Sess : at'[s] = at[s]
    BY <1>1
  <2>3. \A h \in Handlers : at[h] = "spawn" => on[h] \in Sess
    BY DEF IInv, Control, Holding
  <2> QED
    BY <2>1, <2>2, <2>3 DEF FoundInv, SpawnedOnce
<1> QED
  BY <1>3, <1>4, <1>5, <1>6 DEF FoundInv

LEMMA ReturnMoves ==
  ASSUME IInv, NEW x \in Callers, Return(x)
  PROVE  /\ at'[x] \in {"ready", "cleanup"} /\ at' = [at EXCEPT ![x] = at'[x]]
         /\ \A y \in Actors \ {x} : on'[y] = on[y]
<1> USE Kinds
<1>1. PICK q \in {"ready", "cleanup"} : at' = [at EXCEPT ![x] = q]
  BY DEF Return, Goto, Callers
<1>2. at'[x] = q
  BY <1>1 DEF IInv, TypeOK
<1>3. on' = [on EXCEPT ![x] = None]
  BY DEF Return
<1> QED
  BY <1>1, <1>2, <1>3 DEF IInv, TypeOK

(* Answers, refusals and the steps that look a session up. *)
LEMMA HandlerFinds ==
  ASSUME IInv, FoundInv, NEW h \in Handlers,
         \/ CreateRefused(h) \/ CreateFails(h) \/ CreateReturns(h) \/ Push(h)
         \/ \E c \in CallIds : GetSession(h, c)
  PROVE  FoundInv'
<1> USE Kinds
<1>1. CASE CreateRefused(h) \/ CreateFails(h) \/ CreateReturns(h) \/ Push(h)
  <2>1. UNCHANGED <<sessions, state, call, aborted>> /\ at[h] # "stop" /\ Return(h)
    BY <1>1 DEF CreateRefused, CreateFails, CreateReturns, Push, sessionVars
  <2> QED
    BY <2>1, ReturnMoves, CallerMoves DEF Passing
<1>2. CASE \E c \in CallIds : GetSession(h, c)
  <2>1. PICK c \in CallIds : GetSession(h, c)
    BY <1>2
  <2>2. at' = [at EXCEPT ![h] = "start"] /\ at'[h] = "start" /\ at[h] = "ready"
    BY <2>1 DEF GetSession, Goto, IInv, TypeOK
  <2>3. UNCHANGED <<sessions, state, call, aborted>> /\ \A y \in Actors \ {h} : on'[y] = on[y]
    BY <2>1 DEF GetSession, sessionVars, IInv, TypeOK
  <2> QED
    BY <2>2, <2>3, CallerMoves DEF Passing
<1> QED
  BY <1>1, <1>2

LEMMA CheckNewFinds ==
  ASSUME IInv, FoundInv, NEW h \in Handlers, NEW c \in CallIds, CheckNew(h, c)
  PROVE  FoundInv'
<1> USE Kinds
<1>1. /\ at[h] = "ready" /\ sessions[c] = None
      /\ at' = [at EXCEPT ![h] = "create"] /\ on' = [on EXCEPT ![h] = c]
      /\ UNCHANGED <<sessions, state, call, aborted>>
  BY DEF CheckNew, Goto, sessionVars
<1>2. /\ at'[h] = "create" /\ on'[h] = c
      /\ \A y \in Actors \ {h} : at'[y] = at[y] /\ on'[y] = on[y]
  BY <1>1 DEF IInv, TypeOK
<1>3. \A s \in Sess : Live(s)' = Live(s) /\ Over(s)' = Over(s) /\ (Stopping(s) => Stopping(s)')
  BY <1>1, <1>2 DEF Live, Over, Stopping
<1>4. Found'
  BY <1>1, <1>3 DEF FoundInv, Found
<1>5. Fresh'
  BY <1>1, <1>2 DEF FoundInv, Fresh
<1>6. Settled'
  BY <1>1, <1>2 DEF FoundInv, Settled, Over, Late
<1>7. SpawnedOnce'
  <2>1. \A g \in Handlers : at'[g] = "spawn" => g # h /\ at[g] = "spawn" /\ on'[g] = on[g]
    BY <1>2
  <2>2. \A g \in Handlers : at[g] = "spawn" => on[g] \in Sess
    BY DEF IInv, Control, Holding
  <2> QED
    BY <1>1, <1>2, <2>1, <2>2 DEF FoundInv, SpawnedOnce
<1> QED
  BY <1>4, <1>5, <1>6, <1>7 DEF FoundInv

(* The insertion replaces nothing, because the id is still free. *)
LEMMA CreateFinds ==
  ASSUME IInv, FoundInv, OneCreation, NEW h \in Handlers, Create(h)
  PROVE  FoundInv'
<1> USE Kinds
<1>1. PICK s \in Sess : /\ state[s] = "unborn"
                        /\ state' = [state EXCEPT ![s] = "Initializing"]
                        /\ call' = [call EXCEPT ![s] = on[h]]
                        /\ sessions' = [sessions EXCEPT ![on[h]] = s]
                        /\ on' = [on EXCEPT ![h] = s]
  BY DEF Create
<1>2. /\ at[h] = "create" /\ at' = [at EXCEPT ![h] = "return"] /\ aborted' = aborted
      /\ on[h] \in CallIds /\ sessions[on[h]] = None
  BY DEF Create, Goto, IInv, Control, FoundInv, Fresh
<1>3. /\ at'[h] = "return" /\ \A y \in Actors \ {h} : at'[y] = at[y] /\ on'[y] = on[y]
      /\ state'[s] = "Initializing" /\ call'[s] = on[h] /\ sessions'[on[h]] = s
      /\ \A r \in Sess \ {s} : state'[r] = state[r] /\ call'[r] = call[r]
      /\ \A c \in CallIds \ {on[h]} : sessions'[c] = sessions[c]
  BY <1>1, <1>2 DEF IInv, TypeOK
<1>4. Found'
  <2>1. \A r \in Sess : Stopping(r) => Stopping(r)'
    BY <1>2, <1>3 DEF Stopping
  <2>2. ASSUME NEW r \in Sess, r # s, Live(r)'
        PROVE  call'[r] \in CallIds /\ (sessions'[call'[r]] = r \/ Stopping(r)')
    <3>1. Live(r)
      BY <1>3, <2>2 DEF Live
    <3>2. call[r] \in CallIds /\ (sessions[call[r]] = r \/ Stopping(r))
      BY <3>1 DEF FoundInv, Found
    <3>3. sessions[call[r]] = r => call[r] # on[h]
      BY <1>2
    <3> QED
      BY <1>3, <2>1, <2>2, <3>2, <3>3
  <2> QED
    BY <1>2, <1>3, <2>2 DEF Found
<1>5. Fresh'
  <2>1. \A g \in Handlers : at'[g] # "create"
    BY <1>2, <1>3 DEF OneCreation
  <2> QED
    BY <2>1 DEF Fresh
<1>6. Settled'
  <2>1. \A x \in Actors : at[x] \in Late => on[x] # s
    BY <1>1 DEF FoundInv, Settled, Over
  <2>2. ~ aborted[s]
    BY <1>1 DEF FoundInv, Settled, Over
  <2>3. \A x \in Actors : at'[x] \in Late => at[x] \in Late /\ on'[x] = on[x]
    BY <1>3 DEF Late
  <2>4. \A x \in Actors : at[x] \in Late => on[x] \in Sess
    BY DEF IInv, Control, Holding, StopPlaces, Late, Actors
  <2> QED
    BY <1>2, <1>3, <2>1, <2>2, <2>3, <2>4 DEF FoundInv, Settled, Over
<1>7. SpawnedOnce'
  <2>1. \A g \in Handlers : at'[g] = "spawn" => g # h /\ at[g] = "spawn" /\ on'[g] = on[g]
    BY <1>3
  <2>2. \A g \in Handlers : at[g] = "spawn" => on[g] \in Sess /\ on[g] # s
    BY <1>1 DEF IInv, Control, Holding
  <2>3. at[s] = "none" /\ at'[s] = at[s]
    BY <1>1, <1>3 DEF IInv, Control
  <2> QED
    BY <1>3, <2>1, <2>2, <2>3 DEF FoundInv, SpawnedOnce
<1> QED
  BY <1>4, <1>5, <1>6, <1>7 DEF FoundInv

(* Activation keeps the session alive, and only one handler activates it.  *)
LEMMA ActivateFinds ==
  ASSUME IInv, FoundInv, NEW h \in Handlers, Activate(h)
  PROVE  FoundInv'
<1> USE Kinds
<1>1. at[h] = "start" /\ on[h] \in Sess /\ UNCHANGED <<sessions, call, aborted>>
  BY DEF Activate, IInv, Control, Holding
<1>2. CASE state[on[h]] # "Initializing"
  <2>1. Return(h) /\ UNCHANGED state
    BY <1>2 DEF Activate
  <2> QED
    BY <1>1, <2>1, ReturnMoves, CallerMoves DEF Passing
<1>3. CASE state[on[h]] = "Initializing"
  <2> DEFINE s == on[h]
  <2>1. /\ state' = [state EXCEPT ![s] = "Active"] /\ at' = [at EXCEPT ![h] = "spawn"]
        /\ on' = on
    BY <1>3 DEF Activate, Goto
  <2>2. /\ at'[h] = "spawn" /\ \A y \in Actors \ {h} : at'[y] = at[y]
        /\ state'[s] = "Active" /\ \A r \in Sess \ {s} : state'[r] = state[r]
    BY <1>1, <2>1 DEF IInv, TypeOK
  <2>3. \A r \in Sess : /\ Live(r)' => Live(r)
                        /\ Over(r) => Over(r)' /\ r # s
                        /\ Stopping(r) => Stopping(r)'
    BY <1>1, <1>3, <2>1, <2>2 DEF Live, Over, Stopping
  <2>4. Found'
    BY <1>1, <2>3 DEF FoundInv, Found
  <2>5. Fresh'
    BY <1>1, <2>1, <2>2 DEF FoundInv, Fresh
  <2>6. Settled'
    <3>1. \A x \in Actors : at[x] \in Late => on[x] \in Sess
      BY DEF IInv, Control, Holding, StopPlaces, Late, Actors
    <3>2. \A x \in Actors : at'[x] \in Late => at[x] \in Late /\ on'[x] = on[x]
      BY <2>1, <2>2 DEF Late
    <3> QED
      BY <1>1, <2>3, <3>1, <3>2 DEF FoundInv, Settled
  <2>7. SpawnedOnce'
    <3>1. \A g \in Handlers \ {h} : at'[g] = "spawn" => at[g] = "spawn" /\ on[g] # s
      BY <1>3, <2>2 DEF FoundInv, SpawnedOnce
    <3>2. at'[s] = "none"
      BY <1>1, <1>3, <2>2 DEF FoundInv, SpawnedOnce
    <3>3. \A g \in Handlers : at[g] = "spawn" => on[g] \in Sess
      BY DEF IInv, Control, Holding
    <3>4. \A r \in Sess : at'[r] = at[r]
      BY <2>2
    <3> QED
      BY <1>1, <2>1, <2>2, <3>1, <3>2, <3>3, <3>4 DEF FoundInv, SpawnedOnce
  <2> QED
    BY <2>4, <2>5, <2>6, <2>7 DEF FoundInv
<1> QED
  BY <1>2, <1>3

LEMMA SpawnFinds ==
  ASSUME IInv, FoundInv, NEW h \in Handlers, Spawn(h)
  PROVE  FoundInv'
<1> USE Kinds
<1>1. at[h] = "spawn" /\ on[h] \in Sess /\ UNCHANGED <<sessions, state, call, aborted>>
  BY DEF Spawn, sessionVars, IInv, Control, Holding
<1>2. CASE state[on[h]] # "Active"
  <2>1. Return(h)
    BY <1>2 DEF Spawn
  <2> QED
    BY <1>1, <2>1, ReturnMoves, CallerMoves DEF Passing
<1>3. CASE state[on[h]] = "Active"
  <2> DEFINE s == on[h]
  <2>1. on' = on /\ at' = [at EXCEPT ![h] = "push", ![s] = "run"]
    BY <1>3 DEF Spawn
  <2>2. /\ at'[h] = "push" /\ at'[s] = "run" /\ at[s] = "none" /\ s # h
        /\ \A y \in Actors \ {h, s} : at'[y] = at[y]
    BY <1>1, <2>1 DEF IInv, TypeOK, FoundInv, SpawnedOnce
  <2>3. \A r \in Sess : Live(r)' = Live(r) /\ Over(r)' = Over(r) /\ (Stopping(r) => Stopping(r)')
    BY <1>1, <2>1, <2>2 DEF Live, Over, Stopping
  <2>4. Found'
    BY <1>1, <2>3 DEF FoundInv, Found
  <2>5. Fresh'
    BY <1>1, <2>1, <2>2 DEF FoundInv, Fresh
  <2>6. Settled'
    BY <1>1, <2>1, <2>2 DEF FoundInv, Settled, Over, Late
  <2>7. SpawnedOnce'
    <3>1. \A g \in Handlers : at'[g] = "spawn" => g # h /\ at[g] = "spawn" /\ on[g] # s
      BY <1>1, <2>2 DEF FoundInv, SpawnedOnce
    <3>2. \A g \in Handlers : at[g] = "spawn" => on[g] \in Sess
      BY DEF IInv, Control, Holding
    <3>3. \A r \in Sess \ {s} : at'[r] = at[r]
      BY <2>2
    <3> QED
      BY <1>1, <1>3, <2>1, <3>1, <3>2, <3>3 DEF FoundInv, SpawnedOnce
  <2> QED
    BY <2>4, <2>5, <2>6, <2>7 DEF FoundInv
<1> QED
  BY <1>2, <1>3

(* Who is taken out of the map is being stopped. *)
LEMMA RemoveFinds ==
  ASSUME IInv, FoundInv, NEW x \in Callers, NEW c \in CallIds, RemoveAndStop(x, c),
         at[x] \in {"ready", "cleanup"}, UNCHANGED <<state, call, aborted>>
  PROVE  FoundInv'
<1> USE Kinds
<1>1. /\ sessions[c] \in Sess /\ sessions' = [sessions EXCEPT ![c] = None]
      /\ on' = [on EXCEPT ![x] = sessions[c]] /\ at' = [at EXCEPT ![x] = "stop"]
  BY DEF RemoveAndStop, Goto, IInv, TypeOK
<1>2. /\ at'[x] = "stop" /\ on'[x] = sessions[c]
      /\ \A y \in Actors \ {x} : at'[y] = at[y] /\ on'[y] = on[y]
      /\ sessions'[c] = None /\ \A d \in CallIds \ {c} : sessions'[d] = sessions[d]
  BY <1>1 DEF IInv, TypeOK
<1>3. \A s \in Sess : /\ Live(s)' = Live(s) /\ Over(s)' = Over(s)
                      /\ Stopping(s) => Stopping(s)'
  BY <1>2 DEF Live, Over, Stopping
<1>4. \A s \in Sess : sessions[c] = s => Stopping(s)'
  BY <1>2 DEF Stopping
<1>5. Found'
  BY <1>2, <1>3, <1>4 DEF FoundInv, Found
<1>6. Fresh'
  <2>1. \A h \in Handlers : at[h] = "create" => on[h] \in CallIds
    BY DEF IInv, Control
  <2> QED
    BY <1>2, <2>1 DEF FoundInv, Fresh
<1>7. Settled'
  BY <1>2 DEF FoundInv, Settled, Over, Late
<1>8. SpawnedOnce'
  <2>1. \A g \in Handlers : at'[g] = "spawn" => g # x /\ at[g] = "spawn" /\ on'[g] = on[g]
    BY <1>2
  <2>2. \A g \in Handlers : at[g] = "spawn" => on[g] \in Sess
    BY DEF IInv, Control, Holding
  <2>3. \A s \in Sess : at'[s] = at[s]
    BY <1>2
  <2> QED
    BY <2>1, <2>2, <2>3 DEF FoundInv, SpawnedOnce
<1> QED
  BY <1>5, <1>6, <1>7, <1>8 DEF FoundInv

LEMMA CleanFinds ==
  ASSUME IInv, FoundInv, Collect \/ CleanupNext \/ CleanupDone
  PROVE  FoundInv'
<1> USE Kinds
<1>1. CASE Collect \/ CleanupDone
  <2>1. PICK q \in {"ready", "cleanup"} : at' = [at EXCEPT ![Monitor] = q]
    BY <1>1 DEF Collect, CleanupDone, Goto
  <2>2. at'[Monitor] = q /\ at[Monitor] \in {"ready", "cleanup"}
    BY <1>1, <2>1 DEF Collect, CleanupDone, IInv, TypeOK
  <2>3. UNCHANGED <<sessions, state, call, aborted, on>>
    BY <1>1 DEF Collect, CleanupDone, sessionVars
  <2> QED
    BY <2>1, <2>2, <2>3, CallerMoves DEF Passing
<1>2. CASE CleanupNext
  <2>1. at[Monitor] = "cleanup" /\ UNCHANGED <<state, call, aborted>>
    BY <1>2 DEF CleanupNext, sessionVars
  <2>2. PICK c \in CallIds : RemoveAndStop(Monitor, c) \/ UNCHANGED <<sessions, at, on>>
    BY <1>2 DEF CleanupNext, IInv, TypeOK
  <2>3. CASE RemoveAndStop(Monitor, c)
    BY <2>1, <2>3, RemoveFinds
  <2>4. CASE UNCHANGED <<sessions, at, on>>
    BY <2>1, <2>4
       DEF FoundInv, Found, Fresh, Settled, SpawnedOnce, Live, Over, Stopping
  <2> QED
    BY <2>2, <2>3, <2>4
<1> QED
  BY <1>1, <1>2

(* The steps of stop_forwarding: the first ends what Stopping excuses by    *)
(* ending the session, the others come after it.                           *)
LEMMA StopFinds ==
  ASSUME IInv, FoundInv, NEW x \in Actors, Stop(x)
  PROVE  FoundInv'
<1> USE Kinds
<1>1. at[x] \in StopPlaces /\ on[x] \in Sess /\ state[on[x]] # "unborn"
  BY StopperHolds DEF Stop, StopCheck, StopDrain, StopTerminate, StopRelease, StopGive, StopPlaces
<1> DEFINE s == on[x]
<1>2. sessions' = sessions /\ call' = call
  BY DEF Stop, StopCheck, StopDrain, StopTerminate, StopRelease, StopGive
<1>3. PICK q \in Late \cup {"ready", "cleanup", "ended"} : at' = [at EXCEPT ![x] = q]
  <2>1. Return(x) => at' = [at EXCEPT ![x] = "cleanup"] \/ at' = [at EXCEPT ![x] = "ready"]
                     \/ at' = [at EXCEPT ![x] = "ended"]
    BY DEF Return, Goto, Callers, Actors
  <2>2. at' = at => at' = [at EXCEPT ![x] = at[x]]
    BY DEF IInv, TypeOK
  <2>3. CASE StopCheck(x)
    BY <2>1, <2>3 DEF StopCheck, Goto, Late
  <2>4. CASE StopDrain(x) \/ StopTerminate(x)
    BY <2>4 DEF StopDrain, StopTerminate, Goto, Late
  <2>5. CASE StopRelease(x)
    BY <2>1, <2>5 DEF StopRelease, Goto, Late
  <2>6. CASE StopGive(x)
    BY <2>1, <2>2, <2>6 DEF StopGive, Late
  <2> QED
    BY <2>3, <2>4, <2>5, <2>6 DEF Stop
<1>4. /\ at'[x] = q /\ \A y \in Actors \ {x} : at'[y] = at[y] /\ on'[y] = on[y]
      /\ q \in Late => on'[x] = s
  <2>1. \A y \in Actors \ {x} : on'[y] = on[y]
    BY DEF Stop, StopCheck, StopDrain, StopTerminate, StopRelease, StopGive, Return, IInv, TypeOK
  <2>2. at'[x] = q /\ \A y \in Actors \ {x} : at'[y] = at[y]
    BY <1>3 DEF IInv, TypeOK
  <2>3. on' = on \/ Return(x)
    BY DEF Stop, StopCheck, StopDrain, StopTerminate, StopRelease, StopGive
  <2>4. Return(x) => at'[x] \notin Late
    <3>1. Return(x) => at' = [at EXCEPT ![x] = IF x = Monitor THEN "cleanup"
                                               ELSE IF x \in Handlers THEN "ready" ELSE "ended"]
      BY DEF Return, Goto, Callers, Actors
    <3> QED
      BY <3>1 DEF IInv, TypeOK, Late
  <2> QED
    BY <2>1, <2>2, <2>3, <2>4
<1>5. /\ state'[s] \in {"Terminating", "Terminated"}
      /\ \A r \in Sess \ {s} : state'[r] = state[r]
  <2>1. CASE StopCheck(x)
    BY <1>1, <2>1 DEF StopCheck, IInv, TypeOK
  <2>2. CASE StopTerminate(x)
    BY <1>1, <2>2 DEF StopTerminate, IInv, TypeOK
  <2>3. CASE StopDrain(x) \/ StopRelease(x) \/ StopGive(x)
    <3>1. UNCHANGED state /\ at[x] \in Late
      BY <2>3 DEF StopDrain, StopRelease, StopGive, Late
    <3> QED
      BY <3>1 DEF FoundInv, Settled, Over
  <2> QED
    BY <2>1, <2>2, <2>3 DEF Stop
<1>6. \A r \in Sess \ {s} : aborted'[r] = aborted[r]
  BY <1>1 DEF Stop, StopCheck, StopDrain, StopTerminate, StopRelease, StopGive, IInv, TypeOK
<1>7. Found'
  <2>1. \A r \in Sess \ {s} : /\ Live(r)' = Live(r)
                              /\ Stopping(r) => Stopping(r)'
    BY <1>4, <1>5 DEF Live, Stopping
  <2> QED
    BY <1>2, <1>5, <2>1 DEF FoundInv, Found, Live
<1>8. Fresh'
  BY <1>2, <1>4 DEF FoundInv, Fresh, Late
<1>9. Settled'
  <2>1. \A y \in Actors : at[y] \in Late => on[y] \in Sess
    BY DEF IInv, Control, Holding, StopPlaces, Late, Actors
  <2>2. \A r \in Sess : Over(r) => Over(r)'
    BY <1>5 DEF Over
  <2> QED
    BY <1>1, <1>4, <1>5, <1>6, <2>1, <2>2 DEF FoundInv, Settled, Over
<1>10. SpawnedOnce'
  <2>1. \A g \in Handlers : at'[g] = "spawn" => g # x /\ at[g] = "spawn" /\ on'[g] = on[g]
    BY <1>4 DEF Late
  <2>2. \A g \in Handlers : at[g] = "spawn" => on[g] \in Sess
    BY DEF IInv, Control, Holding
  <2>3. x \in Sess => at[x] # "none"
    BY <1>1 DEF StopPlaces
  <2>4. \A r \in Sess : at[r] = "none" => at'[r] = "none"
    BY <1>4, <2>3
  <2> QED
    BY <1>1, <1>5, <2>1, <2>2, <2>4 DEF FoundInv, SpawnedOnce
<1> QED
  BY <1>7, <1>8, <1>9, <1>10 DEF FoundInv

(* A loop that is cancelled in its own stop has its session over already. *)
LEMMA LoopFinds ==
  ASSUME IInv, FoundInv, NEW s \in Sess, LoopSeesState(s) \/ LoopTimesOut(s) \/ LoopCancelled(s)
  PROVE  FoundInv'
<1> USE Kinds
<1>1. UNCHANGED <<sessions, state, call, aborted, on>>
  BY DEF LoopSeesState, LoopTimesOut, LoopCancelled, sessionVars
<1>2. PICK q \in {"stop", "ended"} : at' = [at EXCEPT ![s] = q]
  BY DEF LoopSeesState, LoopTimesOut, LoopCancelled, Goto
<1>3. at'[s] = q /\ \A y \in Actors \ {s} : at'[y] = at[y]
  BY <1>2 DEF IInv, TypeOK
<1>4. at[s] = "run" \/ Over(s)
  BY DEF LoopSeesState, LoopTimesOut, LoopCancelled, FoundInv, Settled
<1>5. at[s] # "none"
  BY DEF LoopSeesState, LoopTimesOut, LoopCancelled, StopPlaces
<1>6. \A r \in Sess : /\ Live(r)' = Live(r) /\ Over(r)' = Over(r)
                      /\ Live(r) /\ Stopping(r) => Stopping(r)'
  <2> TAKE r \in Sess
  <2>1. ASSUME Live(r), NEW y \in Actors, on[y] = r, at[y] = "stop" PROVE y # s
    <3>1. on[s] = s
      BY DEF IInv, Control
    <3>2. ~ Over(r)
      BY <2>1 DEF Live, Over
    <3> QED
      BY <1>4, <2>1, <3>1, <3>2
  <2> QED
    BY <1>1, <1>3, <2>1 DEF Live, Over, Stopping
<1>7. Found'
  BY <1>1, <1>6 DEF FoundInv, Found
<1>8. Fresh'
  BY <1>1, <1>3 DEF FoundInv, Fresh
<1>9. Settled'
  BY <1>1, <1>3 DEF FoundInv, Settled, Over, Late
<1>10. SpawnedOnce'
  <2>1. \A g \in Handlers : at[g] = "spawn" => on[g] \in Sess
    BY DEF IInv, Control, Holding
  <2>2. \A g \in Handlers : at'[g] = at[g]
    BY <1>3
  <2>3. \A r \in Sess : at[r] = "none" => at'[r] = "none"
    BY <1>3, <1>5
  <2> QED
    BY <1>1, <2>1, <2>2, <2>3 DEF FoundInv, SpawnedOnce
<1> QED
  BY <1>7, <1>8, <1>9, <1>10 DEF FoundInv

LEMMA FoundInductive ==
  ASSUME IInv, FoundInv, OneCreation, [Next]_vars PROVE FoundInv'
<1>1. ASSUME UNCHANGED <<sessions, state, call, aborted, at, on>> PROVE FoundInv'
  BY <1>1 DEF FoundInv, Found, Fresh, Settled, SpawnedOnce, Live, Over, Stopping
<1>2. ASSUME NEW h \in Handlers, NEW c \in CallIds,
             CheckNew(h, c) \/ GetSession(h, c) \/ StopSession(h, c)
      PROVE  FoundInv'
  <2>1. CASE StopSession(h, c)
    BY <2>1, RemoveFinds, Kinds DEF StopSession, sessionVars
  <2> QED
    BY <1>2, <2>1, CheckNewFinds, HandlerFinds
<1>3. ASSUME NEW h \in Handlers, Handle(h) PROVE FoundInv'
  BY <1>3, CreateFinds, HandlerFinds, ActivateFinds, SpawnFinds, StopFinds, Kinds DEF Handle
<1>4. ASSUME Clean PROVE FoundInv'
  BY <1>4, CleanFinds, StopFinds, Kinds DEF Clean
<1>5. ASSUME NEW s \in Sess, Loop(s) \/ LoopReceives(s) \/ DropTask(s) \/ GoIdle(s)
      PROVE  FoundInv'
  BY <1>1, <1>5, LoopFinds, StopFinds, Kinds DEF Loop, LoopReceives, DropTask, GoIdle
<1>6. CASE UNCHANGED vars
  BY <1>1, <1>6 DEF vars, sessionVars
<1> QED
  BY <1>2, <1>3, <1>4, <1>5, <1>6 DEF Next

(* FoundInv is an invariant of the runs in which creations do not overlap.  *)
THEOREM FoundAlways == Spec /\ []OneCreation => []FoundInv
<1>1. Init => FoundInv
  <2> SUFFICES ASSUME Init PROVE FoundInv
    OBVIOUS
  <2>1. Found
    BY DEF Init, Found, Live
  <2>2. Fresh /\ Settled /\ SpawnedOnce
    BY Kinds DEF Init, Fresh, Settled, SpawnedOnce, Late
  <2> QED
    BY <2>1, <2>2 DEF FoundInv
<1>2. IInv /\ FoundInv /\ OneCreation /\ [Next]_vars => FoundInv'
  BY FoundInductive
<1> QED
  BY <1>1, <1>2, Inductive, PTL DEF Spec

(* If no two creations overlap, a call has one session that runs, whatever  *)
(* the stops, the monitor and the loops do meanwhile (the check and the    *)
(* insertion in create_session).  Without that, two of one id succeed.     *)
THEOREM OneSessionAlways == Spec /\ []OneCreation => []OneSessionPerCall
<1>1. FoundInv => OneSessionPerCall
  BY DEF FoundInv, Found, Live, OneSessionPerCall
<1> QED
  BY <1>1, FoundAlways, PTL

(* And stop_session finds it under its call id, unless it is being stopped. *)
THEOREM LiveAlwaysFound == Spec /\ []OneCreation => []Found
<1>1. FoundInv => Found
  BY DEF FoundInv
<1> QED
  BY <1>1, FoundAlways, PTL


-----------------------------------------------------------------------------
(* AISessions: while the backend works, a record says Reconnecting only as *)
(* long as somebody attempts it.                                           *)

Records == [state : {"none", "Connected", "Disconnected", "Reconnecting", "Failed"},
            attempts : Nat]
Attaching == {"check", "connect", "save", "refused"}
Saving == {"saveConnected", "saveDisconnected"}
Handling == {"lookup", "disconnected"}

AITypeOK ==
    /\ task \in [Tasks -> [at : {"idle", "load", "mark", "disconnect", "delete"}
                                   \union Attaching \union Saving \union Handling,
                           op : {"none", "attach", "detach", "reconnect", "restore",
                                 "handle", "handleAuto"},
                           copy : Records]]
    /\ record \in Records
    /\ faulty \in BOOLEAN

(* What a task does at a place. *)
Doing(t) == /\ task[t].at \in Attaching => task[t].op \in {"attach", "reconnect", "restore"}
            /\ task[t].at \in Saving \union {"mark"} => task[t].op \in {"reconnect", "restore"}
            /\ task[t].at = "load" => task[t].op = "reconnect"
            /\ task[t].at \in Handling => task[t].op \in {"handle", "handleAuto"}

(* A task that does not end before it has written the record: past mark it *)
(* saves what became of its attempt.                                       *)
Attempting(t) == /\ task[t].op \in {"reconnect", "restore"}
                 /\ \/ task[t].at \in Attaching \union Saving
                    \/ task[t].op = "restore" /\ task[t].at = "mark"

Attended == record.state = "Reconnecting" /\ ~faulty =>
                ~restored \/ \E t \in Tasks : Attempting(t)

AttemptInv == AITypeOK /\ (\A t \in Tasks : Doing(t)) /\ Attended

(* Every step but one task's leaves who attempts, and that task attempts   *)
(* still, or leaves another state in the record, or the backend failed.    *)
LEMMA AttemptsGoOn ==
  ASSUME AttemptInv, NEW t \in Tasks, \A u \in Tasks \ {t} : task'[u] = task[u],
         restored' = restored, faulty' \in BOOLEAN,
         \/ faulty'
         \/ /\ faulty' = faulty
            /\ \/ record'.state # "Reconnecting"
               \/ Attempting(t)'
               \/ record' = record /\ ~Attempting(t)
  PROVE  Attended'
<1> SUFFICES ASSUME record'.state = "Reconnecting", ~faulty', restored'
             PROVE  \E u \in Tasks : Attempting(u)'
  BY DEF Attended
<1>1. CASE Attempting(t)'
  BY <1>1
<1>2. CASE record' = record /\ ~Attempting(t) /\ faulty' = faulty
  <2>1. PICK u \in Tasks : Attempting(u)
    BY <1>2 DEF AttemptInv, Attended
  <2>2. u # t
    BY <1>2, <2>1
  <2> QED
    BY <2>1, <2>2 DEF Attempting
<1> QED
  BY <1>1, <1>2

(* What a write of a record leaves. *)
LEMMA WhatSavesLeave ==
  ASSUME NEW r \in Records, Saves(r), AITypeOK
  PROVE  /\ record' \in Records /\ faulty' \in BOOLEAN
         /\ \/ faulty'
            \/ faulty' = faulty /\ record' = r
  BY DEF Saves, Saved, Unsaved, Works, Fault, faultVars, AITypeOK

LEMMA TaskKeepsAttempt ==
  ASSUME AttemptInv, NEW t \in Tasks, TaskStep(t)
  PROVE  AttemptInv'
<1> DEFINE Here == AITypeOK' /\ Doing(t)'
<1>1. restored' = restored /\ \A u \in Tasks \ {t} : task'[u] = task[u]
  <2> USE DEF AttemptInv, AITypeOK, Goes, Ends
  <2>1. CASE \/ AttachCheck(t) \/ AttachConnect(t) \/ AttachSave(t) \/ AttachRefused(t)
             \/ DetachDisconnect(t) \/ DetachDelete(t)
    BY <2>1 DEF AttachCheck, AttachConnect, AttachSave, AttachRefused, DetachDisconnect,
                DetachDelete
  <2>2. CASE \/ ReconnectLoad(t) \/ ReconnectRefused(t) \/ ReconnectMark(t)
             \/ ReconnectSave(t)
    BY <2>2 DEF ReconnectLoad, ReconnectRefused, ReconnectMark, ReconnectSave
  <2>3. CASE HandleLoad(t) \/ HandleSave(t)
    BY <2>3 DEF HandleLoad, HandleSave, Handled
  <2> QED
    BY <2>1, <2>2, <2>3 DEF TaskStep
<1>2. ASSUME Here, \/ faulty'
                   \/ /\ faulty' = faulty
                      /\ \/ record'.state # "Reconnecting"
                         \/ Attempting(t)'
                         \/ record' = record /\ ~Attempting(t)
      PROVE  AttemptInv'
  <2>1. Attended'
    BY <1>1, <1>2, AttemptsGoOn DEF AITypeOK
  <2>2. \A u \in Tasks : Doing(u)'
    BY <1>1, <1>2 DEF AttemptInv, Doing
  <2> QED
    BY <1>2, <2>1, <2>2 DEF AttemptInv
<1>3. AITypeOK /\ Doing(t) /\ task[t].copy \in Records
  BY DEF AttemptInv, AITypeOK
<1>4. Idle.copy \in Records /\ NoRecord \in Records /\ Connected \in Records
  BY DEF Idle, NoRecord, Connected, Records
<1> DEFINE Marked(s) == [task[t].copy EXCEPT !.state = s]
<1>5. /\ Marked("Disconnected") \in Records /\ Marked("Disconnected").state = "Disconnected"
      /\ Marked("Failed") \in Records /\ Marked("Failed").state = "Failed"
  BY <1>3 DEF Records
<1>6. CASE AttachCheck(t) \/ AttachConnect(t) \/ AttachRefused(t) \/ DetachDisconnect(t)
  <2>1. Here
    BY <1>3, <1>6 DEF AttachCheck, AttachConnect, AttachRefused, DetachDisconnect, Goes, Ends,
         Idle, NoRecord, AITypeOK, Doing, Attaching, Saving, Handling, Records, faultVars
  <2>2. record' = record /\ faulty' = faulty /\ (Attempting(t) => Attempting(t)')
    BY <1>3, <1>6 DEF AttachCheck, AttachConnect, AttachRefused, DetachDisconnect, Goes, Ends,
         Attempting, AITypeOK, Attaching, Saving, faultVars
  <2> QED
    BY <1>2, <2>1, <2>2
<1>7. CASE AttachSave(t) \/ DetachDelete(t)
  <2> DEFINE r == IF task[t].at = "save" THEN Connected ELSE NoRecord
  <2>1. Saves(r) /\ r \in Records /\ r.state # "Reconnecting"
    BY <1>4, <1>7 DEF AttachSave, DetachDelete, Connected, NoRecord
  <2>2. /\ record' \in Records /\ faulty' \in BOOLEAN
        /\ faulty' \/ (faulty' = faulty /\ record' = r)
    BY <1>3, <2>1, WhatSavesLeave
  <2>3. Here
    BY <1>3, <1>7, <2>2 DEF AttachSave, DetachDelete, Goes, Ends,
         Idle, NoRecord, AITypeOK, Doing, Attaching, Saving, Handling, Records
  <2> QED
    BY <1>2, <2>1, <2>2, <2>3
<1>8. CASE ReconnectLoad(t)
  <2>1. record' = record /\ faulty' \in BOOLEAN /\ (faulty' \/ faulty' = faulty)
    BY <1>3, <1>8 DEF ReconnectLoad, Works, Fault, faultVars, AITypeOK
  <2>2. Here
    BY <1>3, <1>8, <2>1 DEF ReconnectLoad, Ends,
         Idle, NoRecord, AITypeOK, Doing, Attaching, Saving, Handling, Records
  <2>3. ~Attempting(t)
    BY <1>8 DEF ReconnectLoad, Attempting, Attaching, Saving
  <2> QED
    BY <1>2, <2>1, <2>2, <2>3
<1>9. CASE ReconnectRefused(t)
  <2>1. PICK r \in {Marked("Failed"), Marked("Disconnected")} : Saves(r)
    BY <1>9 DEF ReconnectRefused
  <2>2. /\ record' \in Records /\ faulty' \in BOOLEAN
        /\ faulty' \/ (faulty' = faulty /\ record' = r)
    BY <1>3, <1>5, <2>1, WhatSavesLeave
  <2>3. Here
    BY <1>3, <1>9, <2>2 DEF ReconnectRefused, Ends,
         Idle, NoRecord, AITypeOK, Doing, Attaching, Saving, Handling, Records
  <2> QED
    BY <1>2, <1>5, <2>2, <2>3
<1>10. CASE ReconnectMark(t)
  <2> DEFINE d == [state |-> "Reconnecting", attempts |-> task[t].copy.attempts + 1]
  <2>1. d \in Records /\ task[t].op \in {"reconnect", "restore"}
    BY <1>3, <1>10 DEF ReconnectMark, Doing, Records
  <2>2. /\ record' \in Records /\ faulty' \in BOOLEAN
        /\ faulty' \/ (faulty' = faulty /\ record' = d)
    BY <1>3, <1>10, <2>1, WhatSavesLeave DEF ReconnectMark, Saves
  <2>3. CASE Saved(d) /\ task' = [task EXCEPT ![t].at = "check", ![t].copy = d]
    <3>1. Here
      BY <1>3, <2>1, <2>2, <2>3 DEF AITypeOK, Doing, Attaching, Saving, Handling
    <3>2. Attempting(t)'
      BY <1>3, <2>1, <2>3 DEF AITypeOK, Attempting, Attaching
    <3>3. faulty' = faulty
      BY <2>3 DEF Saved, Works, faultVars
    <3> QED
      BY <1>2, <3>1, <3>2, <3>3
  <2>4. CASE Unsaved(d) /\ task' = [task EXCEPT ![t].at = "check", ![t].copy = d]
    <3>1. Here
      BY <1>3, <2>1, <2>2, <2>4 DEF AITypeOK, Doing, Attaching, Saving, Handling
    <3> QED
      BY <1>2, <2>4, <3>1 DEF Unsaved, Fault
  <2>5. CASE Unsaved(d) /\ Ends(t)
    <3>1. Here
      BY <1>3, <2>2, <2>5 DEF Ends, Idle, NoRecord, AITypeOK, Doing, Attaching, Saving,
           Handling, Records
    <3> QED
      BY <1>2, <2>5, <3>1 DEF Unsaved, Fault
  <2> QED
    BY <1>10, <2>3, <2>4, <2>5 DEF ReconnectMark
<1>11. CASE ReconnectSave(t) \/ HandleSave(t)
  <2>1. PICK r \in {Connected, Marked("Disconnected")} : Saves(r)
    BY <1>11 DEF ReconnectSave, HandleSave
  <2>2. /\ record' \in Records /\ faulty' \in BOOLEAN
        /\ faulty' \/ (faulty' = faulty /\ record' = r)
    BY <1>3, <1>4, <1>5, <2>1, WhatSavesLeave
  <2>3. Here
    BY <1>3, <1>11, <2>2 DEF ReconnectSave, HandleSave, Handled, Ends,
         Idle, NoRecord, AITypeOK, Doing, Attaching, Saving, Handling, Records
  <2>4. r.state # "Reconnecting"
    <3> HIDE DEF Marked
    <3>1. Connected.state # "Reconnecting"
      BY DEF Connected
    <3> QED
      BY <1>5, <2>1, <3>1
  <2> QED
    BY <1>2, <2>2, <2>3, <2>4
<1>12. CASE HandleLoad(t)
  <2>1. record' = record /\ faulty' \in BOOLEAN /\ (faulty' \/ faulty' = faulty)
    BY <1>3, <1>12 DEF HandleLoad, Works, Fault, faultVars, AITypeOK
  <2>2. Here
    BY <1>3, <1>12, <2>1 DEF HandleLoad, Handled, Ends,
         Idle, NoRecord, AITypeOK, Doing, Attaching, Saving, Handling, Records
  <2>3. ~Attempting(t)
    BY <1>12 DEF HandleLoad, Attempting, Attaching, Saving
  <2> QED
    BY <1>2, <2>1, <2>2, <2>3
<1> QED
  BY <1>6, <1>7, <1>8, <1>9, <1>10, <1>11, <1>12 DEF TaskStep

(* An operation begins with a task that was idle. *)
LEMMA BeginKeepsAttempt ==
  ASSUME AttemptInv, NEW t \in Tasks,
         \/ attach_ai(t) \/ detach_ai(t) \/ restore_sessions(t) \/ HealthCheck(t)
         \/ \E auto \in BOOLEAN : handle_disconnection(t, auto)
  PROVE  AttemptInv'
<1>1. AITypeOK /\ \A u \in Tasks : Doing(u)
  BY DEF AttemptInv
<1>2. CASE \/ attach_ai(t) \/ detach_ai(t) \/ HealthCheck(t)
           \/ \E auto \in BOOLEAN : handle_disconnection(t, auto)
  <2>1. /\ restored' = restored /\ record' = record /\ faulty' = faulty
        /\ \A u \in Tasks \ {t} : task'[u] = task[u]
        /\ task[t].at = "idle"
    BY <1>1, <1>2 DEF attach_ai, detach_ai, HealthCheck, handle_disconnection, try_reconnect,
         Starts, AITypeOK, faultVars
  <2>2. AITypeOK' /\ Doing(t)'
    BY <1>1, <1>2 DEF attach_ai, detach_ai, HealthCheck, handle_disconnection, try_reconnect,
         Starts, AITypeOK, Doing, NoRecord, Attaching, Saving, Handling, Records, faultVars
  <2>3. \A u \in Tasks : Doing(u)'
    BY <1>1, <2>1, <2>2 DEF Doing
  <2>4. Attended'
    BY <1>1, <2>1, AttemptsGoOn DEF Attempting, Attaching, Saving, AITypeOK
  <2> QED
    BY <2>2, <2>3, <2>4 DEF AttemptInv
<1>3. CASE restore_sessions(t)
  <2>1. CASE Works /\ record # NoRecord /\ Starts(t, "restore", "mark", record)
    <3>1. /\ task' = [task EXCEPT ![t] = [at |-> "mark", op |-> "restore", copy |-> record]]
          /\ record' = record /\ faulty' = faulty
      BY <1>3, <2>1 DEF restore_sessions, Starts, Works, faultVars
    <3>2. AITypeOK' /\ \A u \in Tasks : Doing(u)'
      BY <1>1, <3>1 DEF AITypeOK, Doing, NoRecord, Attaching, Saving, Handling, Records
    <3>3. Attempting(t)'
      BY <1>1, <3>1 DEF AITypeOK, Attempting
    <3> QED
      BY <3>2, <3>3 DEF AttemptInv, Attended
  <2>2. CASE Works /\ record = NoRecord /\ UNCHANGED task
    <3>1. record' = record /\ faulty' = faulty
      BY <1>3, <2>2 DEF restore_sessions, Works, faultVars
    <3> QED
      BY <1>1, <2>2, <3>1 DEF NoRecord, AttemptInv, AITypeOK, Doing, Attended
  <2>3. CASE Fault /\ UNCHANGED task
    <3>1. record' = record /\ faulty' = TRUE
      BY <1>3, <2>3 DEF restore_sessions, Fault
    <3> QED
      BY <1>1, <2>3, <3>1 DEF AttemptInv, AITypeOK, Doing, Attended
  <2> QED
    BY <1>3, <2>1, <2>2, <2>3 DEF restore_sessions
<1> QED
  BY <1>2, <1>3

LEMMA AttemptAlways == AISpec => []AttemptInv
<1>1. AIInit => AttemptInv
  <2> SUFFICES ASSUME AIInit PROVE AttemptInv
    OBVIOUS
  <2>1. NoRecord \in Records /\ record \in Records /\ record.state = "none"
    BY DEF AIInit, NoRecord, Records
  <2>2. AITypeOK
    BY <2>1 DEF AIInit, AITypeOK, Idle, Attaching, Saving, Handling
  <2>3. \A t \in Tasks : Doing(t)
    BY DEF AIInit, Doing, Idle, Attaching, Saving, Handling
  <2> QED
    BY <2>1, <2>2, <2>3 DEF AttemptInv, Attended
<1>2. AttemptInv /\ [AINext]_aiVars => AttemptInv'
  <2> SUFFICES ASSUME AttemptInv, [AINext]_aiVars PROVE AttemptInv'
    OBVIOUS
  <2>1. CASE UNCHANGED aiVars \/ Dropped
    BY <2>1 DEF aiVars, faultVars, Dropped, AttemptInv, AITypeOK, Doing, Attended, Attempting
  <2>2. CASE Crash
    BY <2>2 DEF Crash, AttemptInv, AITypeOK, Doing, Attended, Idle, NoRecord, Attaching,
                Saving, Handling, Records
  <2> QED
    BY <2>1, <2>2, TaskKeepsAttempt, BeginKeepsAttempt DEF AINext, Recovery
<1> QED
  BY <1>1, <1>2, PTL DEF AISpec

(* A record that says a reconnection is under way is being worked on, or   *)
(* the server has just started and will restore it (restore_sessions),     *)
(* or the persistence backend has failed since the server started: for any *)
(* number of tasks, crashes, drops and failures, whatever overlaps.        *)
THEOREM AlwaysAttended == AISpec => []ReconnectionAttended
<1>1. AttemptInv => ReconnectionAttended
  BY DEF AttemptInv, Attended, Attempting, ReconnectionAttended
<1> QED
  BY <1>1, AttemptAlways, PTL

-----------------------------------------------------------------------------
(* SessionRecovery: where the records of the primary's calls are while the *)
(* standby takes over.                                                     *)

Places == [Calls -> PortPairs \union {NoPair}]

RecoveryTypeOK ==
    /\ stored \in Places /\ standby \in Places
    /\ unsynced \subseteq Calls \X PortPairs /\ loaded \subseteq Calls \X PortPairs
    /\ owed \subseteq Calls /\ excused \subseteq Calls /\ hungUp \subseteq Calls
    /\ phase \in {"Normal", "Promoting", "Promoted", "Loading", "Recovering", "Complete"}
    /\ brokenOff \in BOOLEAN

LoadedCalls == {r[1] : r \in loaded}

(* Where an owed call that nothing stands in the way of is, as the failover *)
(* goes on: first it has a record, then a key to be read or a record that   *)
(* was, and in the end a session.                                          *)
Whereabouts ==
    /\ phase \in {"Normal", "Promoted"} =>
           loaded = {} /\ owed \subseteq In(stored) \union excused
    /\ phase = "Loading" =>
           owed \subseteq (keys \intersect In(stored)) \union LoadedCalls \union excused
    /\ phase = "Recovering" => owed \subseteq LoadedCalls \union In(standby) \union excused
    /\ phase = "Promoting" => loaded = {}
    /\ phase = "Complete" => loaded = {} /\ (brokenOff \/ owed \subseteq In(standby) \union excused)

RecoveryInv ==
    /\ RecoveryTypeOK
    /\ ~crashed => phase = "Normal" /\ owed = {}
    /\ Whereabouts

LEMMA PrimaryKeeps ==
  ASSUME RecoveryInv,
         \/ \E c \in Calls : \/ \E p \in PortPairs : create_session(c, p)
                             \/ start_session(c) \/ stop_session(c)
         \/ \E r \in unsynced : sync_to_redis(r)
         \/ PrimaryCrash
  PROVE  RecoveryInv'
<1>1. ~crashed /\ phase = "Normal" /\ owed = {} /\ RecoveryTypeOK
  BY DEF RecoveryInv, create_session, start_session, stop_session, sync_to_redis, PrimaryCrash
<1>2. CASE \E c \in Calls : \/ \E p \in PortPairs : create_session(c, p)
                            \/ start_session(c) \/ stop_session(c)
  <2>1. /\ UNCHANGED <<stored, standby, loaded, owed, excused, phase, brokenOff, crashed>>
        /\ unsynced' \subseteq Calls \X PortPairs /\ hungUp' \subseteq Calls
    BY <1>1, <1>2 DEF create_session, start_session, stop_session, standbyVars, failoverVars,
           RecoveryTypeOK
  <2> QED
    BY <1>1, <2>1 DEF RecoveryInv, RecoveryTypeOK, Whereabouts
<1>3. CASE \E r \in unsynced : sync_to_redis(r)
  <2>1. PICK r \in unsynced : sync_to_redis(r)
    BY <1>3
  <2>2. r[1] \in Calls /\ r[2] \in PortPairs
    BY <1>1 DEF RecoveryTypeOK
  <2>3. /\ UNCHANGED <<standby, loaded, owed, excused, hungUp, phase, brokenOff, crashed>>
        /\ unsynced' \subseteq unsynced /\ stored' \in Places
    BY <1>1, <2>1, <2>2 DEF sync_to_redis, standbyVars, failoverVars, RecoveryTypeOK, Places
  <2> QED
    BY <1>1, <2>3 DEF RecoveryInv, RecoveryTypeOK, Whereabouts
<1>4. CASE PrimaryCrash
  <2>1. /\ UNCHANGED <<stored, standby, loaded, excused, hungUp, phase, brokenOff>>
        /\ owed' \subseteq In(stored) /\ unsynced' = {} /\ crashed'
    BY <1>4 DEF PrimaryCrash, standbyVars, failoverVars
  <2>2. owed' \subseteq Calls /\ In(stored)' = In(stored)
    BY <2>1 DEF In
  <2> QED
    BY <1>1, <2>1, <2>2 DEF RecoveryInv, RecoveryTypeOK, Whereabouts
<1> QED
  BY <1>2, <1>3, <1>4

LEMMA RecordsKeep ==
  ASSUME RecoveryInv, NEW c \in Calls,
         Expire(c) \/ StopHere(c) \/ \E p \in PortPairs : CreateHere(c, p)
  PROVE  RecoveryInv'
<1>1. RecoveryTypeOK /\ Whereabouts
  BY DEF RecoveryInv
<1>2. CASE Expire(c)
  <2>1. /\ UNCHANGED <<standby, loaded, owed, hungUp, phase, brokenOff, crashed, unsynced, keys>>
        /\ stored' = [stored EXCEPT ![c] = NoPair]
        /\ excused' = IF c \in LoadedCalls THEN excused ELSE excused \union {c}
    BY <1>2 DEF Expire, standbyVars, failoverVars, LoadedCalls
  <2>2. /\ In(stored)' = In(stored) \ {c} /\ In(standby)' = In(standby)
        /\ LoadedCalls' = LoadedCalls /\ RecoveryTypeOK'
    BY <1>1, <2>1 DEF In, LoadedCalls, RecoveryTypeOK, Places
  <2>3. LoadedCalls = {} \/ phase \notin {"Normal", "Promoted", "Promoting", "Complete"}
    BY <1>1 DEF Whereabouts, LoadedCalls
  <2> QED
    BY <1>1, <2>1, <2>2, <2>3 DEF RecoveryInv, Whereabouts
<1>3. CASE StopHere(c)
  <2>1. /\ UNCHANGED <<stored, loaded, owed, phase, brokenOff, crashed, unsynced, keys>>
        /\ standby' = [standby EXCEPT ![c] = NoPair]
        /\ excused' = excused \union {c} /\ hungUp' = hungUp \union {c}
    BY <1>3 DEF StopHere, primaryVars, failoverVars
  <2>2. /\ In(standby)' = In(standby) \ {c} /\ In(stored)' = In(stored)
        /\ LoadedCalls' = LoadedCalls /\ RecoveryTypeOK'
    BY <1>1, <2>1 DEF In, LoadedCalls, RecoveryTypeOK, Places
  <2> QED
    BY <1>1, <2>1, <2>2 DEF RecoveryInv, Whereabouts
<1>4. ASSUME NEW p \in PortPairs, CreateHere(c, p) PROVE RecoveryInv'
  <2>1. /\ UNCHANGED <<loaded, owed, excused, hungUp, phase, brokenOff, crashed, unsynced, keys>>
        /\ standby' = [standby EXCEPT ![c] = p] /\ stored' = [stored EXCEPT ![c] = p]
    BY <1>4 DEF CreateHere, primaryVars, failoverVars
  <2>2. /\ In(standby)' = In(standby) \union {c} /\ In(stored)' = In(stored) \union {c}
        /\ LoadedCalls' = LoadedCalls /\ RecoveryTypeOK'
    BY <1>1, <2>1, RecoveryAssumption DEF In, LoadedCalls, RecoveryTypeOK, Places
  <2> QED
    BY <1>1, <2>1, <2>2 DEF RecoveryInv, Whereabouts
<1> QED
  BY <1>2, <1>3, <1>4

LEMMA FailoverKeeps ==
  ASSUME RecoveryInv, Failover
  PROVE  RecoveryInv'
<1> USE DEF PhaseGoes, Recovers, primaryVars
<1>1. RecoveryTypeOK /\ Whereabouts /\ (~crashed => phase = "Normal" /\ owed = {})
  BY DEF RecoveryInv
<1>2. CASE promote_to_primary
  <2>1. /\ UNCHANGED <<stored, standby, loaded, owed, excused, hungUp, unsynced, crashed>>
        /\ crashed /\ phase = "Normal" /\ brokenOff' \in BOOLEAN
        /\ phase' \in {"Promoted", "Promoting"}
    BY <1>1, <1>2 DEF promote_to_primary, RecoveryTypeOK
  <2>2. In(stored)' = In(stored)
    BY <2>1 DEF In
  <2> QED
    BY <1>1, <2>1, <2>2 DEF RecoveryInv, RecoveryTypeOK, Whereabouts
<1>3. CASE scan_match
  <2>1. /\ UNCHANGED <<stored, standby, loaded, owed, hungUp, unsynced, crashed>>
        /\ crashed /\ phase = "Promoted"
        /\ \/ /\ phase' = "Loading" /\ keys' = In(stored)
              /\ UNCHANGED <<brokenOff, excused>>
           \/ /\ phase' = "Complete" /\ brokenOff' = TRUE
              /\ excused' = excused \union In(stored)
    BY <1>1, <1>3 DEF scan_match
  <2>2. In(stored)' = In(stored) /\ In(stored) \subseteq Calls
    BY <2>1 DEF In
  <2> QED
    BY <1>1, <2>1, <2>2 DEF RecoveryInv, RecoveryTypeOK, Whereabouts
<1>4. ASSUME NEW c \in Calls, load_all(c) PROVE RecoveryInv'
  <2>1. /\ UNCHANGED <<stored, standby, owed, hungUp, unsynced, crashed>>
        /\ phase = "Loading" /\ c \in keys /\ crashed
    BY <1>1, <1>4 DEF load_all
  <2>2. In(stored)' = In(stored)
    BY <2>1 DEF In
  <2>3. CASE phase' = "Complete"
    <3>1. excused' = excused \union {c} /\ loaded' = {} /\ brokenOff' = TRUE
      BY <1>4, <2>1, <2>3 DEF load_all
    <3> QED
      BY <1>1, <2>1, <2>3, <3>1 DEF RecoveryInv, RecoveryTypeOK, Whereabouts
  <2>4. CASE phase' # "Complete"
    <3>1. /\ UNCHANGED <<phase, brokenOff, excused>> /\ keys' = keys \ {c}
          /\ loaded' = IF c \in In(stored) THEN loaded \union {<<c, stored[c]>>} ELSE loaded
      BY <1>4, <2>4 DEF load_all
    <3>2. loaded' \subseteq Calls \X PortPairs
      <4>1. CASE c \in In(stored)
        <5>1. stored[c] \in PortPairs
          BY <1>1, <4>1 DEF In, RecoveryTypeOK, Places
        <5> QED
          BY <1>1, <3>1, <5>1 DEF RecoveryTypeOK
      <4> QED
        BY <1>1, <3>1, <4>1 DEF RecoveryTypeOK
    <3>3. LoadedCalls \union ({c} \intersect In(stored)) \subseteq LoadedCalls'
      <4>1. LoadedCalls \subseteq LoadedCalls'
        BY <3>1 DEF LoadedCalls
      <4>2. c \in In(stored) => c \in LoadedCalls'
        <5> SUFFICES ASSUME c \in In(stored) PROVE \E r \in loaded' : r[1] = c
          BY DEF LoadedCalls
        <5>1. <<c, stored[c]>> \in loaded' /\ <<c, stored[c]>>[1] = c
          BY <3>1
        <5> QED
          BY <5>1
      <4> QED
        BY <4>1, <4>2
    <3> QED
      BY <1>1, <2>1, <2>2, <3>1, <3>2, <3>3 DEF RecoveryInv, RecoveryTypeOK, Whereabouts
  <2> QED
    BY <2>3, <2>4
<1>5. CASE Loaded
  <2>1. /\ UNCHANGED <<stored, standby, loaded, owed, excused, hungUp, unsynced, crashed>>
        /\ phase = "Loading" /\ keys = {} /\ phase' = "Recovering" /\ crashed
        /\ brokenOff' = brokenOff
    BY <1>1, <1>5 DEF Loaded
  <2>2. LoadedCalls' = LoadedCalls
    BY <2>1 DEF LoadedCalls
  <2> QED
    BY <1>1, <2>1, <2>2 DEF RecoveryInv, RecoveryTypeOK, Whereabouts
<1>6. ASSUME NEW r \in loaded, recover_session(r) PROVE RecoveryInv'
  <2>1. /\ UNCHANGED <<stored, owed, hungUp, unsynced, phase, brokenOff, crashed>>
        /\ phase = "Recovering" /\ loaded' = loaded \ {r} /\ crashed
    BY <1>1, <1>6 DEF recover_session
  <2>2. r[1] \in Calls /\ r[2] \in PortPairs
    BY <1>1 DEF RecoveryTypeOK
  <2>3. LoadedCalls \subseteq LoadedCalls' \union {r[1]}
    BY <2>1 DEF LoadedCalls
  <2>4. CASE r[1] \in In(standby) /\ UNCHANGED <<standby, excused>>
    <3>1. In(standby)' = In(standby)
      BY <2>4 DEF In
    <3> QED
      BY <1>1, <2>1, <2>3, <2>4, <3>1 DEF RecoveryInv, RecoveryTypeOK, Whereabouts
  <2>5. CASE Recovered(r)
    <3>1. standby' = [standby EXCEPT ![r[1]] = r[2]] /\ excused' = excused
      BY <2>5 DEF Recovered
    <3>2. In(standby)' = In(standby) \union {r[1]} /\ standby' \in Places
      BY <1>1, <2>2, <3>1, RecoveryAssumption DEF In, RecoveryTypeOK, Places
    <3> QED
      BY <1>1, <2>1, <2>3, <3>1, <3>2 DEF RecoveryInv, RecoveryTypeOK, Whereabouts
  <2>6. CASE NotRecovered(r)
    <3>1. excused' = excused \union {r[1]} /\ standby' = standby
      BY <2>6 DEF NotRecovered
    <3>2. In(standby)' = In(standby)
      BY <3>1 DEF In
    <3> QED
      BY <1>1, <2>1, <2>2, <2>3, <3>1, <3>2 DEF RecoveryInv, RecoveryTypeOK, Whereabouts
  <2> QED
    BY <1>6, <2>4, <2>5, <2>6 DEF recover_session
<1>7. CASE Complete
  <2>1. /\ UNCHANGED <<stored, standby, loaded, owed, excused, hungUp, unsynced, crashed>>
        /\ phase = "Recovering" /\ loaded = {} /\ phase' = "Complete" /\ crashed
        /\ brokenOff' = brokenOff
    BY <1>1, <1>7 DEF Complete
  <2>2. LoadedCalls = {} /\ In(standby)' = In(standby)
    BY <2>1 DEF LoadedCalls, In
  <2> QED
    BY <1>1, <2>1, <2>2 DEF RecoveryInv, RecoveryTypeOK, Whereabouts
<1> QED
  BY <1>2, <1>3, <1>4, <1>5, <1>6, <1>7 DEF Failover

(* A failover that is complete and was not broken off by an error in its   *)
(* promotion, the scan or the reading of a record has given a session to   *)
(* every call with a record that nothing of its own stood in the way of    *)
(* (recover_state), for any calls and ports.                               *)
THEOREM NoneForgottenAlways == TakeoverSpec => []NoneForgotten
<1>1. TakeoverInit => RecoveryInv
  BY DEF TakeoverInit, RecoveryInv, RecoveryTypeOK, Whereabouts, Places, NoCalls
<1>2. RecoveryInv /\ [TakeoverNext]_takeoverVars => RecoveryInv'
  <2> SUFFICES ASSUME RecoveryInv, [TakeoverNext]_takeoverVars PROVE RecoveryInv'
    OBVIOUS
  <2>1. CASE UNCHANGED takeoverVars
    BY <2>1 DEF takeoverVars, RecoveryInv, RecoveryTypeOK, Whereabouts, LoadedCalls, In
  <2> QED
    BY <2>1, PrimaryKeeps, RecordsKeep, FailoverKeeps DEF TakeoverNext
<1>3. RecoveryInv => NoneForgotten
  BY DEF RecoveryInv, Whereabouts, NoneForgotten
<1> QED
  BY <1>1, <1>2, <1>3, PTL DEF TakeoverSpec
=============================================================================
