------------------------ MODULE PortAllocationProofs ------------------------
(***************************************************************************)
(* Proofs about PortAllocation: for any number of pairs, callers and       *)
(* attempts, no pair is leaked or shared and the reserved band is kept.    *)
(***************************************************************************)
EXTENDS PortAllocation, FiniteSetTheorems, TLAPS

(* What a caller holds at each stage of its call.  Needed because Draw     *)
(* overwrites drawn, and UndoLegA gives back one pair and forgets the      *)
(* rest: both are right only because of how many pairs there are then.     *)
Failing == {"refused", "in_use", "fault"}

StageOf(c) ==
    /\ pc[c] = "bind" => \E p \in Pairs : drawn[c] = {p}
    /\ pc[c] = "release" => drawn[c] = {} \/ outcome[c] = "fault"
    /\ pc[c] \in {"idle", "draw", "undo", "owned"} => drawn[c] = {}
    /\ pc[c] \in {"idle", "undo", "owned"} => rejected[c] = {}
    /\ pc[c] = "idle" => bound[c] = {}
    /\ pc[c] = "undo" => \E p \in Pairs : bound[c] = {p}
    /\ \/ pc[c] \in {"draw", "bind"}
       \/ pc[c] = "release" /\ outcome[c] \in Failing
       => \/ bound[c] = {}
          \/ leg[c] = "B" /\ \E p \in Pairs : bound[c] = {p}
    /\ pc[c] = "release" /\ outcome[c] = "bound" /\ leg[c] = "A"
       => \E p \in Pairs : bound[c] = {p}
    /\ pc[c] \in {"draw", "bind"} => Cardinality(rejected[c]) < Attempts

Stages == \A c \in Callers : StageOf(c)

IInv == TypeOK /\ OneOwner /\ BandKept /\ Stages

(* Sets of pairs are finite. *)
LEMMA PairsFinite ==
    ASSUME NEW S \in SUBSET Pairs
    PROVE  IsFiniteSet(S) /\ Cardinality(S) \in Nat
BY PairsAssumption, FS_Subset, FS_CardinalityType

(* Disjoint sets of pairs: their sizes add up. *)
LEMMA DisjointUnion ==
    ASSUME NEW S \in SUBSET Pairs, NEW T \in SUBSET Pairs, S \intersect T = {}
    PROVE  Cardinality(S \union T) = Cardinality(S) + Cardinality(T)
<1>1. IsFiniteSet(S) /\ IsFiniteSet(T)
  BY PairsFinite
<1>2. Cardinality(S) \in Nat /\ Cardinality(T) \in Nat
  BY PairsFinite
<1>3. Cardinality(S \union T)
        = Cardinality(S) + Cardinality(T) - Cardinality(S \intersect T)
  BY <1>1, FS_Union
<1>4. Cardinality(S \intersect T) = 0
  BY FS_EmptySet
<1> QED
  BY <1>2, <1>3, <1>4

(* One pair more is at most one more. *)
LEMMA OneMore ==
    ASSUME NEW S \in SUBSET Pairs, NEW p \in Pairs
    PROVE  Cardinality(S \union {p}) <= Cardinality(S) + 1
<1>1. IsFiniteSet(S) /\ Cardinality(S) \in Nat
  BY PairsFinite
<1>2. Cardinality(S \union {p}) = IF p \in S THEN Cardinality(S) ELSE Cardinality(S) + 1
  BY <1>1, FS_AddElement
<1> QED
  BY <1>1, <1>2

(* A step that takes nothing out of the band keeps it. *)
LEMMA BandMonotone ==
    ASSUME TypeOK, TypeOK', BandKept,
           free \union InRetry \union reserved
              \subseteq (free \union InRetry \union reserved)'
    PROVE  BandKept'
<1> DEFINE B == free \union InRetry \union reserved
<1>1. B \in SUBSET Pairs /\ B' \in SUBSET Pairs
  BY DEF TypeOK, InRetry
<1>2. Cardinality(B) <= Cardinality(B')
  BY <1>1, PairsFinite, FS_Subset
<1>3. Cardinality(B) \in Nat /\ Cardinality(B') \in Nat /\ MinFree \in Nat
  BY <1>1, PairsFinite, AllocationAssumption
<1> QED
  BY <1>2, <1>3 DEF BandKept

LEMMA InitIInv == Init => IInv
<1> SUFFICES ASSUME Init PROVE IInv
  OBVIOUS
<1>1. TypeOK
  BY FS_EmptySet, AllocationAssumption DEF Init, TypeOK
<1>2. OneOwner
  BY DEF Init, OneOwner, Held
<1>3. BandKept
  <2>1. free \union InRetry \union reserved = Pairs
    BY DEF Init, InRetry
  <2> QED
    BY <2>1, AllocationAssumption, PairsFinite DEF BandKept
<1>4. Stages
  BY DEF Init, Stages, StageOf
<1> QED
  BY <1>1, <1>2, <1>3, <1>4 DEF IInv

(* Starting a call. *)
LEMMA BeginStep == ASSUME IInv, NEW c \in Callers, Begin(c) PROVE IInv'
<1>1. TypeOK'
  BY DEF IInv, TypeOK, Begin
<1>2. OneOwner'
  BY DEF IInv, OneOwner, Held, Begin
<1>3. BandKept'
  BY DEF IInv, BandKept, InRetry, Begin
<1>4. Stages'
  BY FS_EmptySet, AllocationAssumption
     DEF IInv, Stages, StageOf, Failing, TypeOK, Begin
<1> QED
  BY <1>1, <1>2, <1>3, <1>4 DEF IInv

(* A draw removes one pair from the band; the floor test, which discounts  *)
(* the pairs this caller is about to give back, leaves the rest.           *)
LEMMA DrawStep == ASSUME IInv, NEW c \in Callers, Draw(c) PROVE IInv'
<1> USE DEF IInv
<1> PICK p \in Pairs : /\ TakeReserving(p, Floor(c))
                       /\ drawn' = [drawn EXCEPT ![c] = {p}]
  BY DEF Draw
<1>a. /\ pc[c] = "draw" /\ drawn[c] = {}
      /\ pc' = [pc EXCEPT ![c] = "bind"]
      /\ p \in free /\ Cardinality(free) > Floor(c)
      /\ free' = free \ {p} /\ taken' = taken \union {p}
      /\ UNCHANGED <<leg, rejected, bound, outcome, guards, reserved>>
  BY DEF Draw, TakeReserving, Take, Stages, StageOf
<1>1. TypeOK'
  BY <1>a DEF TypeOK
<1>2. OneOwner'
  <2>1. p \notin taken
    BY <1>a DEF OneOwner
  <2>2. \A d \in Callers : Held(d)' = IF d = c THEN Held(c) \union {p} ELSE Held(d)
    BY <1>a DEF Held, TypeOK
  <2>3. \A d \in Callers : p \notin Held(d)
    BY <2>1 DEF OneOwner
  <2>4. taken' = (reserved \union guards \union UNION {Held(d) : d \in Callers})'
    BY <1>a, <2>2 DEF OneOwner
  <2>5. p \notin reserved /\ p \notin guards
    BY <2>1 DEF OneOwner
  <2>6. (free \intersect taken = {})' /\ (reserved \intersect guards = {})'
    BY <1>a DEF OneOwner
  <2>7. \A d \in Callers :
          (/\ Held(d) \intersect (reserved \union guards) = {}
           /\ rejected[d] \intersect drawn[d] = {}
           /\ bound[d] \intersect (rejected[d] \union drawn[d]) = {})'
    BY <1>a, <2>2, <2>3, <2>5 DEF OneOwner, Held, TypeOK
  <2>8. \A d, e \in Callers : d # e => (Held(d) \intersect Held(e) = {})'
    BY <1>a, <2>2, <2>3 DEF OneOwner
  <2> QED
    BY <2>4, <2>6, <2>7, <2>8 DEF OneOwner
<1>3. BandKept'
  <2> DEFINE kept == free' \union rejected[c]
             band == free' \union InRetry \union reserved
  <2>1. kept \in SUBSET band /\ band \in SUBSET Pairs
    BY <1>a DEF InRetry, TypeOK
  <2>2. free \in SUBSET Pairs /\ rejected[c] \in SUBSET Pairs /\ free' \in SUBSET Pairs
    BY <1>a DEF TypeOK
  <2>3. free' \intersect rejected[c] = {}
    BY <1>a DEF OneOwner, Held
  <2>4. Cardinality(kept) = Cardinality(free') + Cardinality(rejected[c])
    BY <2>2, <2>3, DisjointUnion
  <2>5. Cardinality(free') = Cardinality(free) - 1
    BY <1>a, <2>2, PairsFinite, FS_RemoveElement
  <2>6. Cardinality(kept) >= MinFree
    <3> DEFINE f == Cardinality(free)
               h == Cardinality(rejected[c])
    <3>1. f \in Nat /\ h \in Nat /\ MinFree \in Nat /\ Cardinality(free') = f - 1
      BY <2>2, <2>5, PairsFinite, AllocationAssumption
    <3>2. Floor(c) \in Nat /\ Floor(c) >= MinFree - h
      BY <3>1 DEF Floor
    <3> QED
      BY <1>a, <2>4, <3>1, <3>2
  <2>7. Cardinality(band) >= Cardinality(kept)
    BY <2>1, PairsFinite, FS_Subset
  <2>8. band = (free \union InRetry \union reserved)'
    BY <1>a DEF InRetry
  <2>9. Cardinality(band) \in Nat /\ Cardinality(kept) \in Nat /\ MinFree \in Nat
    BY <2>1, PairsFinite, AllocationAssumption
  <2> QED
    BY <2>6, <2>7, <2>8, <2>9 DEF BandKept
<1>4. Stages'
  BY <1>a DEF Stages, StageOf, Failing, TypeOK
<1> QED
  BY <1>1, <1>2, <1>3, <1>4

(* Steps that move a pair within one caller, or none at all. *)
LEMMA PrivateStep ==
    ASSUME IInv, NEW c \in Callers,
           DrawRefused(c) \/ BindOk(c) \/ BindInUse(c) \/ BindFault(c) \/ ReturnBound(c)
    PROVE  IInv'
<1> USE DEF IInv
<1>a. UNCHANGED <<free, taken, guards, reserved>>
  BY DEF DrawRefused, BindOk, BindInUse, BindFault, ReturnBound
<1>b. \A d \in Callers : /\ Held(d)' = Held(d)
                         /\ rejected[d] \subseteq rejected'[d]
  BY DEF TypeOK, Held, DrawRefused, BindOk, BindInUse, BindFault, ReturnBound
<1>1. TypeOK'
  <2>1. CASE BindInUse(c)
    <3>1. PICK p \in Pairs : drawn[c] = {p}
      BY <2>1 DEF BindInUse, Stages, StageOf
    <3>2. /\ Cardinality(rejected[c]) < Attempts
          /\ rejected' = [rejected EXCEPT ![c] = rejected[c] \union {p}]
          /\ rejected[c] \in SUBSET Pairs
      BY <2>1, <3>1 DEF BindInUse, Stages, StageOf, TypeOK
    <3>3. Cardinality(rejected[c] \union {p}) <= Cardinality(rejected[c]) + 1
      BY <3>2, OneMore
    <3>4. Cardinality(rejected[c] \union {p}) <= Attempts
      <4>1. rejected[c] \union {p} \in SUBSET Pairs
        BY <3>2
      <4>2. Cardinality(rejected[c] \union {p}) \in Nat /\ Cardinality(rejected[c]) \in Nat
        BY <3>2, <4>1, PairsFinite
      <4> QED
        BY <3>2, <3>3, <4>2, AllocationAssumption
    <3>5. \A d \in Callers : Cardinality(rejected'[d]) <= Attempts
      BY <3>2, <3>4 DEF TypeOK
    <3> QED
      BY <2>1, <3>5 DEF BindInUse, TypeOK
  <2>2. CASE ~ BindInUse(c)
    BY <2>2 DEF TypeOK, DrawRefused, BindOk, BindFault, ReturnBound
  <2> QED
    BY <2>1, <2>2
<1>2. OneOwner'
  <2>1. \A d \in Callers : (/\ rejected[d] \intersect drawn[d] = {}
                            /\ bound[d] \intersect (rejected[d] \union drawn[d]) = {})'
    BY DEF OneOwner, TypeOK, DrawRefused, BindOk, BindInUse, BindFault, ReturnBound
  <2> QED
    BY <1>a, <1>b, <2>1 DEF OneOwner
<1>3. BandKept'
  <2>1. (free \union InRetry \union reserved)
           \subseteq (free \union InRetry \union reserved)'
    BY <1>a, <1>b DEF InRetry
  <2> QED
    BY <1>1, <2>1, BandMonotone
<1>4. Stages'
  <2>1. ASSUME NEW d \in Callers, d # c PROVE StageOf(d)'
    BY <2>1 DEF Stages, StageOf, Failing, TypeOK,
                DrawRefused, BindOk, BindInUse, BindFault, ReturnBound
  <2>2. StageOf(c)'
    <3>1. CASE DrawRefused(c)
      BY <3>1 DEF Stages, StageOf, Failing, TypeOK, DrawRefused
    <3>2. CASE BindOk(c)
      BY <3>2 DEF Stages, StageOf, Failing, TypeOK, BindOk
    <3>3. CASE BindInUse(c)
      <4>1. PICK p \in Pairs : drawn[c] = {p}
        BY <3>3 DEF BindInUse, Stages, StageOf
      <4>2. rejected'[c] = rejected[c] \union {p} /\ rejected[c] \in SUBSET Pairs
        BY <3>3, <4>1 DEF BindInUse, TypeOK
      <4>3. Cardinality(rejected'[c]) <= Cardinality(rejected[c]) + 1
        BY <4>2, OneMore
      <4>4. Cardinality(rejected'[c]) \in Nat /\ Cardinality(rejected[c]) \in Nat
        BY <4>2, PairsFinite
      <4>5. pc'[c] = "draw" => Cardinality(rejected'[c]) < Attempts
        BY <3>3, <4>3, <4>4, AllocationAssumption DEF BindInUse, TypeOK
      <4> QED
        BY <3>3, <4>5 DEF Stages, StageOf, Failing, TypeOK, BindInUse
    <3>4. CASE BindFault(c)
      BY <3>4 DEF Stages, StageOf, Failing, TypeOK, BindFault
    <3>5. CASE ReturnBound(c)
      <4>1. Cardinality(rejected'[c]) < Attempts
        BY <3>5, FS_EmptySet, AllocationAssumption DEF ReturnBound
      <4> QED
        BY <3>5, <4>1 DEF Stages, StageOf, Failing, TypeOK, ReturnBound
    <3> QED
      BY <3>1, <3>2, <3>3, <3>4, <3>5
  <2> QED
    BY <2>1, <2>2 DEF Stages
<1> QED
  BY <1>1, <1>2, <1>3, <1>4

(* Steps that give one of a caller's pairs back to the pool. *)
LEMMA GiveBackStep ==
    ASSUME IInv, NEW c \in Callers, release_all(c) \/ UndoLegA(c) \/ Close(c)
    PROVE  IInv'
<1> USE DEF IInv
<1>a. PICK p \in rejected[c] \union bound[c] :
         /\ Give(p)
         /\ \A d \in Callers :
               /\ rejected'[d] = IF d = c THEN rejected[c] \ {p} ELSE rejected[d]
               /\ bound'[d] = IF d = c THEN bound[c] \ {p} ELSE bound[d]
         /\ UNCHANGED drawn
  <2>1. CASE release_all(c)
    <3>1. PICK q \in rejected[c] : /\ Give(q)
                                   /\ rejected' = [rejected EXCEPT ![c] = @ \ {q}]
      BY <2>1 DEF release_all
    <3>2. q \notin bound[c]
      BY <3>1 DEF OneOwner
    <3>3. UNCHANGED <<drawn, bound>>
      BY <2>1 DEF release_all
    <3> QED
      BY <3>1, <3>2, <3>3 DEF TypeOK
  <2>2. CASE UndoLegA(c)
    <3>1. PICK q \in bound[c] : Give(q) /\ bound' = [bound EXCEPT ![c] = {}]
      BY <2>2 DEF UndoLegA
    <3>2. bound[c] = {q}
      BY <2>2, <3>1 DEF UndoLegA, Stages, StageOf
    <3>3. q \notin rejected[c]
      BY <3>2 DEF OneOwner
    <3>4. UNCHANGED <<drawn, rejected>>
      BY <2>2 DEF UndoLegA
    <3> QED
      BY <3>1, <3>2, <3>3, <3>4 DEF TypeOK
  <2>3. CASE Close(c)
    <3>1. PICK q \in bound[c] : Give(q) /\ bound' = [bound EXCEPT ![c] = @ \ {q}]
      BY <2>3 DEF Close
    <3>2. q \notin rejected[c]
      BY <3>1 DEF OneOwner
    <3>3. UNCHANGED <<drawn, rejected>>
      BY <2>3 DEF Close
    <3> QED
      BY <3>1, <3>2, <3>3 DEF TypeOK
  <2> QED
    BY <2>1, <2>2, <2>3
<1>b. UNCHANGED <<guards, reserved, leg, outcome>>
  BY DEF release_all, UndoLegA, Close
<1>c. p \in Pairs /\ p \in taken /\ p \in Held(c) /\ p \notin drawn[c]
  BY <1>a DEF TypeOK, OneOwner, Held
<1>d. free' = free \union {p} /\ taken' = taken \ {p}
  BY <1>a, <1>c DEF Give
<1>e. \A d \in Callers : Held(d)' = IF d = c THEN Held(c) \ {p} ELSE Held(d)
  BY <1>a, <1>c DEF Held, TypeOK
<1>1. TypeOK'
  <2>1. \A d \in Callers : Cardinality(rejected'[d]) <= Attempts
    <3>1. rejected[c] \in SUBSET Pairs /\ rejected[c] \ {p} \in SUBSET rejected[c]
      BY DEF TypeOK
    <3>2. Cardinality(rejected[c] \ {p}) <= Cardinality(rejected[c])
      BY <3>1, PairsFinite, FS_Subset
    <3>3. Cardinality(rejected[c]) \in Nat /\ Cardinality(rejected[c] \ {p}) \in Nat
      BY <3>1, PairsFinite
    <3> QED
      BY <1>a, <3>2, <3>3, AllocationAssumption DEF TypeOK
  <2> QED
    BY <1>b, <1>c, <1>d, <2>1 DEF TypeOK, release_all, UndoLegA, Close
<1>2. OneOwner'
  <2>1. \A d \in Callers \ {c} : p \notin Held(d)
    BY <1>c DEF OneOwner
  <2>2. p \notin reserved /\ p \notin guards
    BY <1>c DEF OneOwner
  <2>3. taken' = (reserved \union guards \union UNION {Held(d) : d \in Callers})'
    BY <1>b, <1>d, <1>e, <2>1, <2>2 DEF OneOwner
  <2>4. \A d \in Callers :
          (/\ Held(d) \intersect (reserved \union guards) = {}
           /\ rejected[d] \intersect drawn[d] = {}
           /\ bound[d] \intersect (rejected[d] \union drawn[d]) = {})'
    BY <1>a, <1>b, <1>e DEF OneOwner, TypeOK
  <2>5. \A d, e \in Callers : d # e => (Held(d) \intersect Held(e) = {})'
    BY <1>e DEF OneOwner
  <2>6. (free \intersect taken = {})' /\ (reserved \intersect guards = {})'
    BY <1>b, <1>d DEF OneOwner
  <2> QED
    BY <2>3, <2>4, <2>5, <2>6 DEF OneOwner
<1>3. BandKept'
  <2>1. \A d \in Callers : rejected[d] \subseteq rejected'[d] \union {p}
    BY <1>a DEF TypeOK
  <2>2. (free \union InRetry \union reserved)
           \subseteq (free \union InRetry \union reserved)'
    BY <1>b, <1>d, <2>1 DEF InRetry
  <2> QED
    BY <1>1, <2>2, BandMonotone
<1>4. Stages'
  <2>1. ASSUME NEW d \in Callers, d # c PROVE StageOf(d)'
    BY <1>a, <1>b, <2>1 DEF Stages, StageOf, Failing, TypeOK, release_all, UndoLegA, Close
  <2>2. StageOf(c)'
    <3>1. CASE release_all(c)
      BY <3>1 DEF Stages, StageOf, Failing, TypeOK, release_all
    <3>2. CASE UndoLegA(c)
      BY <1>b, <3>2 DEF Stages, StageOf, Failing, TypeOK, UndoLegA
    <3>3. CASE Close(c)
      BY <1>b, <3>3 DEF Stages, StageOf, Failing, TypeOK, Close
    <3> QED
      BY <3>1, <3>2, <3>3
  <2> QED
    BY <2>1, <2>2 DEF Stages
<1> QED
  BY <1>1, <1>2, <1>3, <1>4

(* A failed call hands the pair under its guard to the spawned release. *)
LEMMA ReturnErrorStep == ASSUME IInv, NEW c \in Callers, ReturnError(c) PROVE IInv'
<1> USE DEF IInv
<1>a. /\ pc[c] = "release" /\ rejected[c] = {} /\ outcome[c] \in Failing
      /\ guards' = guards \union drawn[c]
      /\ drawn' = [drawn EXCEPT ![c] = {}]
      /\ pc' = [pc EXCEPT ![c] = IF bound[c] = {} THEN "idle" ELSE "undo"]
      /\ UNCHANGED <<free, taken, leg, rejected, bound, outcome, reserved>>
  BY DEF ReturnError, Failing
<1>b. \A d \in Callers : Held(d)' = IF d = c THEN bound[c] ELSE Held(d)
  BY <1>a DEF Held, TypeOK
<1>1. TypeOK'
  BY <1>a DEF TypeOK
<1>2. OneOwner'
  <2>1. Held(c) = bound[c] \union drawn[c] /\ bound[c] \intersect drawn[c] = {}
    BY <1>a DEF Held, OneOwner
  <2>2. taken' = (reserved \union guards \union UNION {Held(d) : d \in Callers})'
    BY <1>a, <1>b, <2>1 DEF OneOwner
  <2>3. \A d \in Callers : Held(d)' \intersect drawn[c] = {}
    BY <1>b, <2>1 DEF OneOwner
  <2>4. \A d \in Callers :
          (/\ Held(d) \intersect (reserved \union guards) = {}
           /\ rejected[d] \intersect drawn[d] = {}
           /\ bound[d] \intersect (rejected[d] \union drawn[d]) = {})'
    BY <1>a, <1>b, <2>1, <2>3 DEF OneOwner, TypeOK
  <2>5. \A d, e \in Callers : d # e => (Held(d) \intersect Held(e) = {})'
    BY <1>b, <2>1 DEF OneOwner
  <2>6. (free \intersect taken = {})' /\ (reserved \intersect guards = {})'
    BY <1>a, <2>1 DEF OneOwner
  <2> QED
    BY <2>2, <2>4, <2>5, <2>6 DEF OneOwner
<1>3. BandKept'
  BY <1>a DEF BandKept, InRetry
<1>4. Stages'
  <2>1. ASSUME NEW d \in Callers, d # c PROVE StageOf(d)'
    BY <1>a, <2>1 DEF Stages, StageOf, Failing, TypeOK
  <2>2. StageOf(c)'
    BY <1>a DEF Stages, StageOf, Failing, TypeOK
  <2> QED
    BY <2>1, <2>2 DEF Stages
<1> QED
  BY <1>1, <1>2, <1>3, <1>4

(* Steps of spawned releases and of originating callers. *)
LEMMA OtherStep ==
    ASSUME IInv, GuardTask \/ reserve_port_pair \/ release_port_pair
    PROVE  IInv'
<1> USE DEF IInv
<1>a. UNCHANGED callerVars
  BY DEF GuardTask, reserve_port_pair, release_port_pair
<1>b. \A d \in Callers : Held(d)' = Held(d)
  BY <1>a DEF Held, callerVars
<1>c. InRetry' = InRetry /\ Stages'
  BY <1>a DEF InRetry, Stages, StageOf, callerVars
<1>d. OneOwner' <=> (/\ free \intersect taken = {}
                     /\ taken = reserved \union guards \union UNION {Held(d) : d \in Callers}
                     /\ reserved \intersect guards = {}
                     /\ \A d \in Callers : Held(d) \intersect (reserved \union guards) = {})'
  BY <1>a, <1>b DEF OneOwner, callerVars
<1>1. CASE GuardTask
  <2>1. PICK p \in guards : Give(p) /\ guards' = guards \ {p} /\ UNCHANGED reserved
    BY <1>1 DEF GuardTask
  <2>2. p \in taken /\ p \in Pairs /\ p \notin reserved /\ \A d \in Callers : p \notin Held(d)
    BY <2>1 DEF OneOwner, TypeOK
  <2>3. free' = free \union {p} /\ taken' = taken \ {p}
    BY <2>1, <2>2 DEF Give
  <2>4. TypeOK'
    BY <1>a, <2>1, <2>2, <2>3 DEF TypeOK, callerVars
  <2>5. OneOwner'
    BY <1>b, <1>d, <2>1, <2>2, <2>3 DEF OneOwner
  <2>6. BandKept'
    BY <1>c, <2>1, <2>3, <2>4, BandMonotone
  <2> QED
    BY <1>c, <2>4, <2>5, <2>6
<1>2. CASE reserve_port_pair
  <2>1. PICK p \in Pairs : /\ TakeReserving(p, 0)
                           /\ reserved' = reserved \union {p} /\ UNCHANGED guards
    BY <1>2 DEF reserve_port_pair
  <2>2. p \in free /\ free' = free \ {p} /\ taken' = taken \union {p}
    BY <2>1 DEF TakeReserving, Take
  <2>3. p \notin reserved /\ p \notin guards /\ \A d \in Callers : p \notin Held(d)
    BY <2>2 DEF OneOwner
  <2>4. TypeOK'
    BY <1>a, <2>1, <2>2 DEF TypeOK, callerVars
  <2>5. OneOwner'
    BY <1>b, <1>d, <2>1, <2>2, <2>3 DEF OneOwner
  <2>6. BandKept'
    BY <1>c, <2>1, <2>2, <2>4, BandMonotone
  <2> QED
    BY <1>c, <2>4, <2>5, <2>6
<1>3. CASE release_port_pair
  <2>1. PICK p \in reserved : Give(p) /\ reserved' = reserved \ {p} /\ UNCHANGED guards
    BY <1>3 DEF release_port_pair
  <2>2. p \in taken /\ p \in Pairs /\ p \notin guards /\ \A d \in Callers : p \notin Held(d)
    BY <2>1 DEF OneOwner, TypeOK
  <2>3. free' = free \union {p} /\ taken' = taken \ {p}
    BY <2>1, <2>2 DEF Give
  <2>4. TypeOK'
    BY <1>a, <2>1, <2>2, <2>3 DEF TypeOK, callerVars
  <2>5. OneOwner'
    BY <1>b, <1>d, <2>1, <2>2, <2>3 DEF OneOwner
  <2>6. BandKept'
    BY <1>c, <2>1, <2>3, <2>4, BandMonotone
  <2> QED
    BY <1>c, <2>4, <2>5, <2>6
<1> QED
  BY <1>1, <1>2, <1>3

(* The inductive invariant holds of every reachable state. *)
THEOREM Inductive == Spec => []IInv
<1>1. IInv /\ [Next]_vars => IInv'
  <2> SUFFICES ASSUME IInv, [Next]_vars PROVE IInv'
    OBVIOUS
  <2>1. CASE UNCHANGED vars
    BY <2>1 DEF vars, callerVars, IInv, TypeOK, OneOwner, Held, BandKept, InRetry,
                Stages, StageOf
  <2>2. CASE Next
    BY <2>2, BeginStep, DrawStep, PrivateStep, GiveBackStep, ReturnErrorStep, OtherStep
       DEF Next, Step
  <2> QED
    BY <2>1, <2>2
<1> QED
  BY <1>1, InitIInv, PTL DEF Spec

(* The state stays well formed, and no call of allocate_and_bind holds     *)
(* more rejected pairs than PORT_BIND_ATTEMPTS.                            *)
THEOREM TypeCorrect == Spec => []TypeOK
BY Inductive, PTL DEF IInv

(* No error path of allocate_and_bind or allocate_leg_sockets leaks a pair *)
(* or gives one pair two owners, for any number of concurrent callers.     *)
THEOREM OneOwnerAlways == Spec => []OneOwner
BY Inductive, PTL DEF IInv

(* The floor that allocate_and_bind asks allocate_reserving for, with the  *)
(* pairs held for retry discounted, keeps min_free_port_pairs out of reach *)
(* of inbound calls, for any number of concurrent callers.                 *)
THEOREM BandKeptAlways == Spec => []BandKept
BY Inductive, PTL DEF IInv
=============================================================================
