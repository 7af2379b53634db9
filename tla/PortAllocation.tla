--------------------------- MODULE PortAllocation ---------------------------
(***************************************************************************)
(* How forge-engine draws RTP port pairs from the pool and binds them      *)
(* (session.rs: allocate_and_bind, allocate_leg_sockets, release_all,      *)
(* PortAllocationGuard; party.rs: add_party's draw; manager.rs:            *)
(* reserve_port_pair and release_port_pair).                               *)
(*                                                                         *)
(* A pair the pool has free may be bound by a socket outside the process,  *)
(* so a draw is followed by a bind that may fail, and a pair that failed   *)
(* with AddrInUse is held until the call returns.  Every access to the     *)
(* pool is an await on its Mutex: callers interleave between any two.      *)
(***************************************************************************)
EXTENDS PortLedger, Integers

CONSTANTS Sessions,     \* callers of allocate_leg_sockets: a pair for each leg
          Supervisors,  \* callers of add_party: one pair
          MinFree,      \* MediaSessionConfig.min_free_port_pairs
          Attempts      \* PORT_BIND_ATTEMPTS

Callers == Sessions \union Supervisors

ASSUME AllocationAssumption == /\ MinFree \in 0 .. Cardinality(Pairs)
                               /\ Attempts \in Nat \ {0}
                               /\ Sessions \intersect Supervisors = {}

VARIABLES
    pc,         \* where each caller is
    leg,        \* the leg it is drawing for; a supervisor draws as leg B does
    rejected,   \* pairs that failed with AddrInUse, held until the return
    drawn,      \* the pair under an armed guard: drawn, not yet bound
    bound,      \* pairs bound and kept
    outcome,    \* what the current allocate_and_bind will return
    guards,     \* pairs whose dropped guard has spawned a release task
    reserved    \* pairs reserve_port_pair(0) handed to originating callers

callerVars == <<pc, leg, rejected, drawn, bound, outcome>>
vars == <<free, taken, callerVars, guards, reserved>>

Init == /\ free = Pairs /\ taken = {}
        /\ pc = [c \in Callers |-> "idle"]
        /\ leg = [c \in Callers |-> "A"]
        /\ rejected = [c \in Callers |-> {}]
        /\ drawn = [c \in Callers |-> {}]
        /\ bound = [c \in Callers |-> {}]
        /\ outcome = [c \in Callers |-> "none"]
        /\ guards = {}
        /\ reserved = {}

-----------------------------------------------------------------------------
(* Leg A leaves one pair more, for leg B.  The pairs about to be given     *)
(* back are discounted: usize::saturating_sub.                             *)
Floor(c) == LET min_free == IF leg[c] = "A" THEN MinFree + 1 ELSE MinFree
                held == Cardinality(rejected[c])
            IN  IF min_free > held THEN min_free - held ELSE 0

Begin(c) ==
    /\ pc[c] = "idle"
    /\ pc' = [pc EXCEPT ![c] = "draw"]
    /\ leg' = [leg EXCEPT ![c] = IF c \in Sessions THEN "A" ELSE "B"]
    /\ outcome' = [outcome EXCEPT ![c] = "none"]
    /\ UNCHANGED <<free, taken, rejected, drawn, bound, guards, reserved>>

(* Mutant: the floor test lets the last reserved pair go. *)
Draw_at_floor(c) ==
    /\ pc[c] = "draw"
    /\ \E p \in Pairs : /\ Cardinality(free) >= Floor(c)
                        /\ Take(p)
                        /\ drawn' = [drawn EXCEPT ![c] = {p}]
    /\ pc' = [pc EXCEPT ![c] = "bind"]
    /\ UNCHANGED <<leg, rejected, bound, outcome, guards, reserved>>

Draw(c) ==
    /\ pc[c] = "draw"
    /\ \E p \in Pairs : /\ TakeReserving(p, Floor(c))
                        /\ drawn' = [drawn EXCEPT ![c] = {p}]
    /\ pc' = [pc EXCEPT ![c] = "bind"]
    /\ UNCHANGED <<leg, rejected, bound, outcome, guards, reserved>>

DrawRefused(c) ==
    /\ pc[c] = "draw"
    /\ Cardinality(free) <= Floor(c)
    /\ outcome' = [outcome EXCEPT ![c] = "refused"]
    /\ pc' = [pc EXCEPT ![c] = "release"]
    /\ UNCHANGED <<free, taken, leg, rejected, drawn, bound, guards, reserved>>

BindOk(c) ==
    /\ pc[c] = "bind"
    /\ bound' = [bound EXCEPT ![c] = @ \union drawn[c]]
    /\ drawn' = [drawn EXCEPT ![c] = {}]
    /\ outcome' = [outcome EXCEPT ![c] = "bound"]
    /\ pc' = [pc EXCEPT ![c] = "release"]
    /\ UNCHANGED <<free, taken, leg, rejected, guards, reserved>>

(* Mutant: the rejected pair is released at once and the loop is not       *)
(* bounded, so the caller may draw the squatted pair forever.              *)
BindInUse_unbounded(c) ==
    /\ pc[c] = "bind"
    /\ \E p \in drawn[c] : Give(p)
    /\ drawn' = [drawn EXCEPT ![c] = {}]
    /\ pc' = [pc EXCEPT ![c] = "draw"]
    /\ UNCHANGED <<leg, rejected, bound, outcome, guards, reserved>>

(* AddrInUse: the guard is disarmed and the pair held.  Each attempt but   *)
(* the successful one adds a pair, so the pairs held count the attempts.   *)
BindInUse(c) ==
    /\ pc[c] = "bind"
    /\ rejected' = [rejected EXCEPT ![c] = @ \union drawn[c]]
    /\ drawn' = [drawn EXCEPT ![c] = {}]
    /\ IF Cardinality(rejected[c]) + 1 >= Attempts
          THEN /\ outcome' = [outcome EXCEPT ![c] = "in_use"]
               /\ pc' = [pc EXCEPT ![c] = "release"]
          ELSE /\ pc' = [pc EXCEPT ![c] = "draw"]
               /\ UNCHANGED outcome
    /\ UNCHANGED <<free, taken, leg, bound, guards, reserved>>

(* Any other bind error: the guard stays armed over the drawn pair. *)
BindFault(c) ==
    /\ pc[c] = "bind"
    /\ outcome' = [outcome EXCEPT ![c] = "fault"]
    /\ pc' = [pc EXCEPT ![c] = "release"]
    /\ UNCHANGED <<free, taken, leg, rejected, drawn, bound, guards, reserved>>

release_all(c) ==
    /\ pc[c] = "release"
    /\ \E p \in rejected[c] :
          /\ Give(p)
          /\ rejected' = [rejected EXCEPT ![c] = @ \ {p}]
    /\ UNCHANGED <<pc, leg, drawn, bound, outcome, guards, reserved>>

(* allocate_and_bind returns its pair: leg B is next, or the caller owns   *)
(* what it asked for.                                                      *)
ReturnBound(c) ==
    /\ pc[c] = "release" /\ rejected[c] = {} /\ outcome[c] = "bound"
    /\ IF leg[c] = "A"
          THEN /\ leg' = [leg EXCEPT ![c] = "B"]
               /\ pc' = [pc EXCEPT ![c] = "draw"]
          ELSE /\ pc' = [pc EXCEPT ![c] = "owned"]
               /\ UNCHANGED leg
    /\ outcome' = [outcome EXCEPT ![c] = "none"]
    /\ UNCHANGED <<free, taken, rejected, drawn, bound, guards, reserved>>

(* It returns an error: a guard still armed is dropped, which spawns the   *)
(* release, and a bound leg A is given back next.                          *)
ReturnError(c) ==
    /\ pc[c] = "release" /\ rejected[c] = {}
    /\ outcome[c] \in {"refused", "in_use", "fault"}
    /\ guards' = guards \union drawn[c]
    /\ drawn' = [drawn EXCEPT ![c] = {}]
    /\ pc' = [pc EXCEPT ![c] = IF bound[c] = {} THEN "idle" ELSE "undo"]
    /\ UNCHANGED <<free, taken, leg, rejected, bound, outcome, reserved>>

(* Mutant: leg A's guard is disarmed and its pair is not given back. *)
UndoLegA_forgotten(c) ==
    /\ pc[c] = "undo"
    /\ bound' = [bound EXCEPT ![c] = {}]
    /\ pc' = [pc EXCEPT ![c] = "idle"]
    /\ UNCHANGED <<free, taken, leg, rejected, drawn, outcome, guards, reserved>>

UndoLegA(c) ==
    /\ pc[c] = "undo"
    /\ \E p \in bound[c] : /\ Give(p)
                           /\ bound' = [bound EXCEPT ![c] = {}]
    /\ pc' = [pc EXCEPT ![c] = "idle"]
    /\ UNCHANGED <<leg, rejected, drawn, outcome, guards, reserved>>

(* The session or the supervisor ends: deallocate_ports, remove_party. *)
Close(c) ==
    /\ pc[c] = "owned"
    /\ \E p \in bound[c] :
          /\ Give(p)
          /\ bound' = [bound EXCEPT ![c] = @ \ {p}]
          /\ pc' = [pc EXCEPT ![c] = IF bound[c] = {p} THEN "idle" ELSE "owned"]
    /\ UNCHANGED <<leg, rejected, drawn, outcome, guards, reserved>>

-----------------------------------------------------------------------------
(* The task that PortAllocationGuard's Drop spawned. *)
GuardTask == \E p \in guards : /\ Give(p)
                               /\ guards' = guards \ {p}
                               /\ UNCHANGED <<callerVars, reserved>>

reserve_port_pair == \E p \in Pairs : /\ TakeReserving(p, 0)
                                      /\ reserved' = reserved \union {p}
                                      /\ UNCHANGED <<callerVars, guards>>

release_port_pair == \E p \in reserved : /\ Give(p)
                                         /\ reserved' = reserved \ {p}
                                         /\ UNCHANGED <<callerVars, guards>>

(* One poll of the caller's future; the bind's outcome is the host's. *)
Step(c) == \/ Draw(c) \/ DrawRefused(c)
           \/ BindOk(c) \/ BindInUse(c) \/ BindFault(c)
           \/ release_all(c) \/ ReturnBound(c) \/ ReturnError(c) \/ UndoLegA(c)

Next == \/ \E c \in Callers : Begin(c) \/ Step(c) \/ Close(c)
        \/ GuardTask \/ reserve_port_pair \/ release_port_pair

(* A future that is being awaited is polled until it completes, and a      *)
(* spawned task runs; when a call begins or ends is up to its callers.     *)
Fairness == /\ \A c \in Callers : WF_vars(Step(c))
            /\ WF_vars(GuardTask)

Spec == Init /\ [][Next]_vars /\ Fairness

-----------------------------------------------------------------------------
Held(c) == rejected[c] \union drawn[c] \union bound[c]

(* A call never holds more rejected pairs than it has attempts. *)
TypeOK == /\ free \in SUBSET Pairs /\ taken \in SUBSET Pairs
          /\ pc \in [Callers -> {"idle", "draw", "bind", "release", "undo", "owned"}]
          /\ leg \in [Callers -> {"A", "B"}]
          /\ rejected \in [Callers -> SUBSET Pairs]
          /\ \A c \in Callers : Cardinality(rejected[c]) <= Attempts
          /\ drawn \in [Callers -> SUBSET Pairs]
          /\ bound \in [Callers -> SUBSET Pairs]
          /\ outcome \in [Callers -> {"none", "bound", "refused", "in_use", "fault"}]
          /\ guards \in SUBSET Pairs
          /\ reserved \in SUBSET Pairs

(* Every pair out of the pool has exactly one owner: a caller, a spawned   *)
(* release or a reservation.  No pair is leaked on any error path of       *)
(* allocate_and_bind and allocate_leg_sockets, and no pair has two owners. *)
OneOwner ==
    /\ free \intersect taken = {}
    /\ taken = reserved \union guards \union UNION {Held(c) : c \in Callers}
    /\ reserved \intersect guards = {}
    /\ \A c \in Callers :
          /\ Held(c) \intersect (reserved \union guards) = {}
          /\ rejected[c] \intersect drawn[c] = {}
          /\ bound[c] \intersect (rejected[c] \union drawn[c]) = {}
          /\ \A d \in Callers \ {c} : Held(c) \intersect Held(d) = {}

(* The reserved band: whatever inbound calls do, retries included, the     *)
(* pairs that are free, about to be free or with originating callers never *)
(* number fewer than min_free_port_pairs.                                  *)
InRetry == UNION {rejected[c] : c \in Callers}
BandKept == Cardinality(free \union InRetry \union reserved) >= MinFree

(* The comment on allocate_leg_sockets: leg A keeps one pair more free,    *)
(* "so the second is not the one refused".                                 *)
SecondLegNotRefused ==
    \A c \in Sessions : leg[c] = "B" => outcome[c] # "refused"

(* A call for ports returns, whatever the host does with the binds. *)
AllocationReturns ==
    \A c \in Callers : pc[c] = "draw" ~> pc[c] \in {"owned", "idle"}
=============================================================================
