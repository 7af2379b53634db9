----------------------------- MODULE MediaProofs -----------------------------
(***************************************************************************)
(* Proofs about the parts of the media plane: the port pool, the SRTP      *)
(* stream and the shared video encoders, each for every value of its       *)
(* constants.                                                              *)
(***************************************************************************)
EXTENDS PortPool, SrtpStream, VideoEncoders, FiniteSetTheorems, TLAPS

-----------------------------------------------------------------------------
(* PortPool *)

PoolTypeOK == allocated \subseteq RtpPorts /\ available \in Seq(RtpPorts)

(* Every pair of the range is in the Vec or handed out, and in one place. *)
PoolInv == PoolTypeOK /\ NoPortTwice /\ RtpPorts \subseteq ToSet(available) \union allocated

LEMMA PortsFinite == IsFiniteSet(RtpPorts)
<1>1. MinPort \in Int /\ MaxPort - 1 \in Int
  BY PoolAssumption
<1>2. IsFiniteSet(MinPort .. (MaxPort - 1))
  BY <1>1, FS_Interval
<1> QED
  BY <1>2, FS_Subset DEF RtpPorts

(* A shuffle of a finite set holds each of its members, once. *)
LEMMA ShuffleFacts ==
  ASSUME NEW S, IsFiniteSet(S), NEW s \in SetToSeqs(S)
  PROVE  /\ s \in Seq(S) /\ Len(s) \in Nat /\ DOMAIN s = 1 .. Len(s)
         /\ \A i, j \in 1 .. Len(s) : s[i] = s[j] => i = j
         /\ ToSet(s) = S
<1> DEFINE n == Cardinality(S)
<1>1. n \in Nat
  BY FS_CardinalityType
<1>2. s \in [1 .. n -> S] /\ \A i, j \in 1 .. n : i # j => s[i] # s[j]
  BY DEF SetToSeqs
<1> HIDE DEF n
<1>3. s \in Seq(S) /\ Len(s) = n /\ DOMAIN s = 1 .. n
  BY <1>1, <1>2
<1>4. s \in Injection(1 .. n, S)
  BY <1>2 DEF Injection, IsInjective
<1>5. Cardinality(1 .. n) = n
  BY <1>1, FS_Interval
<1>6. s \in Surjection(1 .. n, S)
  BY <1>4, <1>5, FS_Injection DEF n
<1>7. ToSet(s) = S
  BY <1>2, <1>3, <1>6 DEF Surjection, ToSet
<1> QED
  BY <1>1, <1>2, <1>3, <1>7

(* SwapRemove takes the element at one place away and keeps all others. *)
LEMMA SwapRemoveFacts ==
  ASSUME NEW S, NEW s \in Seq(S), NEW k \in 1 .. Len(s),
         \A i, j \in 1 .. Len(s) : s[i] = s[j] => i = j
  PROVE  LET t == SwapRemove(s, k)
         IN  /\ t \in Seq(S)
             /\ \A i, j \in 1 .. Len(t) : t[i] = t[j] => i = j
             /\ ToSet(t) = ToSet(s) \ {s[k]}
<1> DEFINE n == Len(s)
           u == [s EXCEPT ![k] = s[n]]
           t == SubSeq(u, 1, n - 1)
<1>1. n \in Nat /\ n >= 1 /\ DOMAIN s = 1 .. n /\ k \in 1 .. n
  OBVIOUS
<1>2. u \in Seq(S) /\ Len(u) = n /\ \A i \in 1 .. n : u[i] = IF i = k THEN s[n] ELSE s[i]
  BY <1>1
<1> HIDE DEF u
<1>3. /\ t \in Seq(S) /\ Len(t) = n - 1 /\ DOMAIN t = 1 .. (n - 1)
      /\ \A i \in 1 .. (n - 1) : t[i] = u[i]
  BY <1>1, <1>2
<1> HIDE DEF t
<1>4. \A i \in 1 .. (n - 1) : t[i] = IF i = k THEN s[n] ELSE s[i]
  BY <1>1, <1>2, <1>3
<1> HIDE DEF n
<1>5. ASSUME NEW i \in 1 .. (n - 1), NEW j \in 1 .. (n - 1), t[i] = t[j] PROVE i = j
  BY <1>1, <1>4, <1>5 DEF n
<1>6. ASSUME NEW x \in ToSet(t) PROVE x \in ToSet(s) \ {s[k]}
  <2>1. PICK i \in 1 .. (n - 1) : x = t[i]
    BY <1>3 DEF ToSet
  <2> QED
    BY <1>1, <1>4, <2>1 DEF ToSet, n
<1>7. ASSUME NEW x \in ToSet(s) \ {s[k]} PROVE x \in ToSet(t)
  <2>1. PICK i \in 1 .. n : x = s[i] /\ i # k
    BY <1>1 DEF ToSet
  <2>2. CASE i = n
    <3>1. k \in 1 .. (n - 1)
      BY <1>1, <2>1, <2>2
    <3>2. t[k] = x
      BY <1>4, <2>1, <2>2, <3>1
    <3> QED
      BY <1>3, <3>1, <3>2 DEF ToSet
  <2>3. CASE i # n
    <3>1. i \in 1 .. (n - 1) /\ t[i] = x
      BY <1>1, <1>4, <2>1, <2>3
    <3> QED
      BY <1>3, <3>1 DEF ToSet
  <2> QED
    BY <2>2, <2>3
<1>8. ToSet(t) = ToSet(s) \ {s[k]}
  BY <1>6, <1>7
<1>9. SwapRemove(s, k) = t
  BY DEF SwapRemove, t, u, n
<1> QED
  BY <1>3, <1>5, <1>8, <1>9

LEMMA AppendFacts ==
  ASSUME NEW S, NEW s \in Seq(S), NEW x \in S, x \notin ToSet(s),
         \A i, j \in 1 .. Len(s) : s[i] = s[j] => i = j
  PROVE  /\ Append(s, x) \in Seq(S)
         /\ \A i, j \in 1 .. Len(Append(s, x)) : Append(s, x)[i] = Append(s, x)[j] => i = j
         /\ ToSet(Append(s, x)) = ToSet(s) \union {x}
<1> DEFINE t == Append(s, x)
           n == Len(s)
<1>1. n \in Nat /\ DOMAIN s = 1 .. n
  OBVIOUS
<1>2. t \in Seq(S) /\ Len(t) = n + 1 /\ DOMAIN t = 1 .. (n + 1)
  OBVIOUS
<1>3. \A i \in 1 .. n : t[i] = s[i]
  OBVIOUS
<1>4. t[n + 1] = x
  OBVIOUS
<1>5. \A i \in 1 .. n : s[i] # x /\ \A j \in 1 .. n : s[i] = s[j] => i = j
  BY <1>1 DEF ToSet
<1> HIDE DEF t, n
<1>6. ASSUME NEW i \in 1 .. (n + 1), NEW j \in 1 .. (n + 1), t[i] = t[j] PROVE i = j
  <2>1. (i \in 1 .. n \/ i = n + 1) /\ (j \in 1 .. n \/ j = n + 1)
    BY <1>1
  <2> QED
    BY <1>3, <1>4, <1>5, <1>6, <2>1
<1>7. ASSUME NEW y \in ToSet(t) PROVE y \in ToSet(s) \union {x}
  BY <1>1, <1>2, <1>3, <1>4 DEF ToSet
<1>8. ASSUME NEW y \in ToSet(s) \union {x} PROVE y \in ToSet(t)
  BY <1>1, <1>2, <1>3, <1>4 DEF ToSet
<1>9. ToSet(t) = ToSet(s) \union {x}
  BY <1>7, <1>8
<1> QED
  BY <1>2, <1>6, <1>9 DEF t

(* Taking the pair at place k out of the Vec is the ledger's Take. *)
LEMMA PoolTakes ==
  ASSUME PoolInv, NEW k \in 1 .. Len(available),
         allocated' = allocated \union {available[k]},
         available' = SwapRemove(available, k)
  PROVE  PoolInv' /\ available[k] \in RtpPorts /\ Ledger!Take(available[k])
<1>1. /\ available \in Seq(RtpPorts) /\ allocated \subseteq RtpPorts
      /\ \A i, j \in 1 .. Len(available) : available[i] = available[j] => i = j
      /\ \A i \in 1 .. Len(available) : available[i] \notin allocated
      /\ RtpPorts \subseteq ToSet(available) \union allocated
  BY DEF PoolInv, PoolTypeOK, NoPortTwice
<1>2. /\ available' \in Seq(RtpPorts)
      /\ \A i, j \in 1 .. Len(available') : available'[i] = available'[j] => i = j
      /\ ToSet(available') = ToSet(available) \ {available[k]}
  BY <1>1, SwapRemoveFacts
<1>3. available[k] \in RtpPorts /\ available[k] \in ToSet(available)
  BY <1>1 DEF ToSet
<1>4. \A i \in 1 .. Len(available') : available'[i] \notin allocated'
  <2>1. ASSUME NEW i \in 1 .. Len(available') PROVE available'[i] \notin allocated'
    <3>1. available'[i] \in ToSet(available')
      BY <1>2 DEF ToSet
    <3>2. available'[i] \in ToSet(available) /\ available'[i] # available[k]
      BY <1>2, <3>1
    <3>3. \A x \in ToSet(available) : x \notin allocated
      BY <1>1 DEF ToSet
    <3> QED
      BY <3>2, <3>3
  <2> QED
    BY <2>1
<1>5. PoolInv'
  BY <1>1, <1>2, <1>3, <1>4 DEF PoolInv, PoolTypeOK, NoPortTwice
<1> QED
  BY <1>2, <1>3, <1>5 DEF Ledger!Take

LEMMA PoolGives ==
  ASSUME PoolInv, NEW p, deallocate(p)
  PROVE  PoolInv' /\ p \in RtpPorts /\ Ledger!Give(p)
<1>1. /\ available \in Seq(RtpPorts) /\ allocated \subseteq RtpPorts
      /\ \A i, j \in 1 .. Len(available) : available[i] = available[j] => i = j
      /\ \A i \in 1 .. Len(available) : available[i] \notin allocated
      /\ RtpPorts \subseteq ToSet(available) \union allocated
  BY DEF PoolInv, PoolTypeOK, NoPortTwice
<1>2. \A x \in ToSet(available) : x \notin allocated
  BY <1>1 DEF ToSet
<1>3. p \in allocated /\ p \in RtpPorts /\ p \notin ToSet(available)
  BY <1>1, <1>2 DEF deallocate
<1>4. available' = Append(available, p) /\ allocated' = allocated \ {p}
  BY DEF deallocate
<1>5. /\ available' \in Seq(RtpPorts)
      /\ \A i, j \in 1 .. Len(available') : available'[i] = available'[j] => i = j
      /\ ToSet(available') = ToSet(available) \union {p}
  BY <1>1, <1>3, <1>4, AppendFacts
<1>6. \A i \in 1 .. Len(available') : available'[i] \notin allocated'
  <2>1. ASSUME NEW i \in 1 .. Len(available') PROVE available'[i] \notin allocated'
    <3>1. available'[i] \in ToSet(available')
      BY <1>5 DEF ToSet
    <3> QED
      BY <1>2, <1>4, <1>5, <3>1
  <2> QED
    BY <2>1
<1>7. PoolInv'
  BY <1>1, <1>4, <1>5, <1>6 DEF PoolInv, PoolTypeOK, NoPortTwice
<1> QED
  BY <1>3, <1>4, <1>5, <1>7 DEF Ledger!Give

LEMMA PoolStep ==
  ASSUME PoolInv, [PoolNext]_poolVars
  PROVE  PoolInv' /\ [Ledger!LedgerNext]_<<ToSet(available), allocated>>
<1>1. ASSUME NEW f \in Floors, allocate_reserving(f)
      PROVE  PoolInv' /\ Ledger!LedgerNext
  <2>1. PICK k \in 1 .. Len(available) :
           /\ allocated' = allocated \union {available[k]}
           /\ available' = SwapRemove(available, k)
    BY <1>1 DEF allocate_reserving
  <2> QED
    BY <2>1, PoolTakes DEF Ledger!LedgerNext
<1>2. ASSUME NEW p \in CallerPorts, allocate_specific(p)
      PROVE  PoolInv' /\ Ledger!LedgerNext
  <2>1. PICK k \in 1 .. Len(available) :
           available[k] = p /\ available' = SwapRemove(available, k)
    BY <1>2 DEF allocate_specific
  <2>2. allocated' = allocated \union {available[k]}
    BY <1>2, <2>1 DEF allocate_specific
  <2> QED
    BY <2>1, <2>2, PoolTakes DEF Ledger!LedgerNext
<1>3. ASSUME NEW p \in CallerPorts, deallocate(p)
      PROVE  PoolInv' /\ Ledger!LedgerNext
  BY <1>3, PoolGives DEF Ledger!LedgerNext
<1>4. CASE UNCHANGED poolVars
  BY <1>4 DEF poolVars, PoolInv, PoolTypeOK, NoPortTwice
<1> QED
  BY <1>1, <1>2, <1>3, <1>4 DEF PoolNext

LEMMA PoolStart == PoolInit => PoolInv /\ Ledger!LedgerInit
<1> SUFFICES ASSUME PoolInit PROVE PoolInv /\ Ledger!LedgerInit
  OBVIOUS
<1> DEFINE S == RtpPorts \ allocated
<1>1. allocated \subseteq RtpPorts /\ available \in SetToSeqs(S)
  BY DEF PoolInit
<1>2. IsFiniteSet(S)
  BY PortsFinite, FS_Subset
<1> HIDE DEF S
<1>3. /\ available \in Seq(S) /\ Len(available) \in Nat /\ DOMAIN available = 1 .. Len(available)
      /\ \A i, j \in 1 .. Len(available) : available[i] = available[j] => i = j
      /\ ToSet(available) = S
  BY <1>1, <1>2, ShuffleFacts
<1>4. available \in Seq(RtpPorts)
  BY <1>3 DEF S
<1>5. \A i \in 1 .. Len(available) : available[i] \notin allocated
  BY <1>3 DEF S
<1> QED
  BY <1>1, <1>3, <1>4, <1>5 DEF PoolInv, PoolTypeOK, NoPortTwice, S, Ledger!LedgerInit

(* Whatever ranges are configured and whatever pairs callers name or give  *)
(* back twice: no port is in the Vec twice or both free and handed out.    *)
THEOREM PoolNeverDoubles == PoolSpec => []NoPortTwice
<1>1. PoolInv => NoPortTwice
  BY DEF PoolInv
<1> QED
  BY <1>1, PoolStart, PoolStep, PTL DEF PoolSpec

(* The Vec and the HashSet together are the ledger: every operation is one *)
(* take, one give or nothing, and no pair is ever lost.                    *)
THEOREM PoolIsLedger == PoolSpec => ImplementsLedger
<1>1. PoolSpec => []PoolInv
  BY PoolStart, PoolStep, PTL DEF PoolSpec
<1> QED
  BY <1>1, PoolStart, PoolStep, PTL
     DEF PoolSpec, ImplementsLedger, Ledger!LedgerSpec

-----------------------------------------------------------------------------
(* SrtpStream *)

Trackers == [roc : 0 .. RocSpace - 1, hi : 0 .. SeqSpace - 1, sl : 0 .. SeqSpace - 1]

Windows == [seen : BOOLEAN, hi : Nat, bits : SUBSET (0 .. WindowSize - 1)]

SrtpTypeOK ==
    /\ tx \in Trackers /\ rx \in Trackers
    /\ window \in Windows
    /\ next \in Nat /\ owed \subseteq Nat /\ accepted \subseteq Nat
    /\ \A p \in wire : /\ p.seq \in 0 .. SeqSpace - 1
                       /\ \E k \in 0 .. RocSpace - 1 : p.index = Index(k, p.seq)

(* The bitmap is exactly what was accepted and is not too old for it. *)
Covers(w, acc) ==
    /\ \A i \in acc : i <= w.hi /\ (w.hi - i < WindowSize => w.hi - i \in w.bits)
    /\ \A d \in w.bits : w.hi - d \in acc

(* The receiver's rollover counter and its window stand at one packet, the *)
(* newest one accepted.                                                    *)
SrtpInv ==
    /\ SrtpTypeOK
    /\ Covers(window, accepted)
    /\ IF window.seen THEN window.hi = Index(rx.roc, rx.hi) /\ rx.sl = rx.hi
       ELSE rx = Tracker /\ window.hi = 0 /\ accepted = {}

(* Arithmetic of rollovers. *)
LEMMA Product == ASSUME NEW a \in Nat, NEW b \in Nat PROVE a * b \in Nat
  OBVIOUS

LEMMA IndexType ==
  ASSUME NEW k \in 0 .. RocSpace - 1, NEW seq \in 0 .. SeqSpace - 1
  PROVE  Index(k, seq) \in Nat
<1>1. k * SeqSpace \in Nat
  BY Product, SrtpAssumption
<1> QED
  BY <1>1, SrtpAssumption DEF Index

LEMMA HalfFacts == Half \in Nat /\ 2 * Half <= SeqSpace /\ SeqSpace <= 2 * Half + 1
  BY SrtpAssumption DEF Half

LEMMA RocType ==
  ASSUME NEW t \in Trackers, NEW seq \in 0 .. SeqSpace - 1
  PROVE  get_roc(t, seq) \in 0 .. RocSpace - 1
<1>1. t.roc \in 0 .. RocSpace - 1 /\ RocSpace \in Nat /\ RocSpace > 1
  BY SrtpAssumption DEF Trackers
<1>2. (t.roc - 1) % RocSpace \in 0 .. RocSpace - 1
  BY <1>1
<1>3. (t.roc + 1) % RocSpace \in 0 .. RocSpace - 1
  BY <1>1
<1> QED
  BY <1>1, <1>2, <1>3 DEF get_roc

LEMMA UpdateType ==
  ASSUME NEW t \in Trackers, NEW seq \in 0 .. SeqSpace - 1
  PROVE  update(t, seq) \in Trackers
<1>1. get_roc(t, seq) \in 0 .. RocSpace - 1
  BY RocType
<1> QED
  BY <1>1 DEF update, Trackers

(* Two rollovers apart is more than half a cycle apart. *)
LEMMA FarApart ==
  ASSUME NEW j \in Nat, NEW k \in Nat, j >= k + 2,
         NEW s \in 0 .. SeqSpace - 1, NEW r \in 0 .. SeqSpace - 1
  PROVE  Index(j, s) - Index(k, r) >= Half
<1>1. SeqSpace \in Nat /\ j - k - 2 \in Nat
  BY SrtpAssumption
<1>2. (j - k - 2) * SeqSpace \in Nat
  BY <1>1, Product
<1>3. j * SeqSpace \in Nat /\ k * SeqSpace \in Nat
  BY <1>1, Product
<1>4. j * SeqSpace - k * SeqSpace - 2 * SeqSpace = (j - k - 2) * SeqSpace
  BY <1>1
<1>5. j * SeqSpace >= k * SeqSpace + 2 * SeqSpace
  BY <1>1, <1>2, <1>3, <1>4
<1> QED
  BY <1>1, <1>3, <1>5, HalfFacts DEF Index

LEMMA NextRoc == ASSUME NEW k \in Nat PROVE (k + 1) * SeqSpace = k * SeqSpace + SeqSpace
  BY SrtpAssumption

(* The estimate finds the rollover counter a packet was protected with,    *)
(* when that packet is less than half a cycle away.                        *)
LEMMA EstimateFinds ==
  ASSUME NEW t \in Trackers, t.sl = t.hi,
         NEW k \in 0 .. RocSpace - 1, NEW seq \in 0 .. SeqSpace - 1,
         Index(k, seq) - Index(t.roc, t.hi) < Half, Index(t.roc, t.hi) - Index(k, seq) < Half
  PROVE  get_roc(t, seq) = k
<1> DEFINE r == t.roc
           h == t.hi
<1>1. /\ r \in Nat /\ r < RocSpace /\ h \in 0 .. SeqSpace - 1 /\ k \in Nat /\ k < RocSpace
      /\ SeqSpace \in Nat /\ SeqSpace > 1 /\ RocSpace \in Nat /\ RocSpace > 1
  BY SrtpAssumption DEF Trackers
<1>2. r * SeqSpace \in Nat /\ k * SeqSpace \in Nat
  BY <1>1, Product
<1>3. /\ k * SeqSpace + seq - (r * SeqSpace + h) < Half
      /\ r * SeqSpace + h - (k * SeqSpace + seq) < Half
  BY <1>1, <1>2 DEF Index
<1>4. ~ (k >= r + 2) /\ ~ (r >= k + 2)
  <2>1. Index(k, seq) \in Nat /\ Index(r, h) \in Nat
    BY <1>1, <1>2 DEF Index
  <2> QED
    BY <1>1, <2>1, FarApart, HalfFacts
<1>5. k = r \/ k = r + 1 \/ r = k + 1
  BY <1>1, <1>4
<1>6. get_roc(t, seq) = IF h = 0 /\ r = 0 THEN 0
                        ELSE IF seq - h > Half THEN (r - 1) % RocSpace
                        ELSE IF seq - h < -Half THEN (r + 1) % RocSpace
                        ELSE r
  BY DEF get_roc, Fresh
<1> HIDE DEF r, h
<1>7. CASE k = r
  <2>1. seq - h < Half /\ h - seq < Half
    BY <1>1, <1>2, <1>3, <1>7, HalfFacts
  <2> QED
    BY <1>1, <1>6, <1>7, <2>1, HalfFacts
<1>8. CASE k = r + 1
  <2>1. k * SeqSpace = r * SeqSpace + SeqSpace
    BY <1>1, <1>8, NextRoc
  <2>2. seq - h < -Half
    BY <1>1, <1>2, <1>3, <2>1, HalfFacts
  <2>3. h # 0 /\ ~ (seq - h > Half)
    BY <1>1, <2>2, HalfFacts
  <2>4. (r + 1) % RocSpace = r + 1
    BY <1>1, <1>8
  <2> QED
    BY <1>6, <1>8, <2>2, <2>3, <2>4
<1>9. CASE r = k + 1
  <2>1. r * SeqSpace = k * SeqSpace + SeqSpace
    BY <1>1, <1>9, NextRoc
  <2>2. seq - h > Half
    BY <1>1, <1>2, <1>3, <2>1, HalfFacts
  <2>3. r # 0 /\ (r - 1) % RocSpace = r - 1 /\ r - 1 = k
    BY <1>1, <1>9
  <2> QED
    BY <1>6, <2>2, <2>3
<1> QED
  BY <1>5, <1>7, <1>8, <1>9

(* Marking an index in the window is accepting it. *)
LEMMA MarkCovers ==
  ASSUME NEW w \in Windows,
         NEW acc \in SUBSET Nat, NEW i \in Nat, Covers(w, acc)
  PROVE  LET m == [mark(w, i) EXCEPT !.seen = TRUE]
         IN  /\ m \in Windows
             /\ m.seen /\ m.hi = (IF i > w.hi THEN i ELSE w.hi)
             /\ Covers(m, acc \union {i})
<1> DEFINE m == [mark(w, i) EXCEPT !.seen = TRUE]
           up == IF i - w.hi < WindowSize THEN Shifted(w.bits, i - w.hi) \union {0} ELSE {0}
           set == IF w.hi - i < WindowSize THEN w.bits \union {w.hi - i} ELSE w.bits
<1> USE SrtpAssumption
<1>0. /\ w.hi \in Nat /\ w.bits \subseteq 0 .. WindowSize - 1
      /\ \A j \in acc : j <= w.hi /\ (w.hi - j < WindowSize => w.hi - j \in w.bits)
      /\ \A d \in w.bits : w.hi - d \in acc
  BY DEF Windows, Covers
<1>1. CASE i > w.hi
  <2>1. up \subseteq 0 .. WindowSize - 1
    BY <1>0, <1>1 DEF Shifted
  <2>2. ASSUME NEW j \in acc \union {i}
        PROVE  j <= i /\ (i - j < WindowSize => i - j \in up)
    <3>1. CASE j = i
      BY <3>1
    <3>2. CASE j \in acc
      <4>1. j \in Nat /\ j <= w.hi /\ (w.hi - j < WindowSize => w.hi - j \in w.bits)
        BY <1>0, <3>2
      <4>2. ASSUME i - j < WindowSize PROVE i - j \in Shifted(w.bits, i - w.hi)
        <5>1. w.hi - j \in w.bits /\ (w.hi - j) + (i - w.hi) = i - j
          BY <1>0, <1>1, <4>1, <4>2
        <5> QED
          BY <4>2, <5>1 DEF Shifted
      <4>3. i - j < WindowSize => i - w.hi < WindowSize
        BY <1>0, <1>1, <4>1
      <4> QED
        BY <1>0, <1>1, <4>1, <4>2, <4>3
    <3> QED
      BY <3>1, <3>2
  <2>3. ASSUME NEW d \in up PROVE i - d \in acc \union {i}
    <3>1. CASE d = 0
      BY <3>1
    <3>2. CASE d \in Shifted(w.bits, i - w.hi)
      <4>1. PICK b \in w.bits : d = b + (i - w.hi)
        BY <3>2 DEF Shifted
      <4>2. i - d = w.hi - b
        BY <1>0, <4>1
      <4> QED
        BY <1>0, <4>1, <4>2
    <3> QED
      BY <3>1, <3>2
  <2> HIDE DEF up
  <2>4. mark(w, i) = [w EXCEPT !.hi = i, !.bits = up]
    BY <1>1 DEF mark, up
  <2>5. m \in Windows /\ m.seen /\ m.hi = i /\ m.bits = up
    BY <2>1, <2>4 DEF Windows
  <2> HIDE DEF m
  <2>6. Covers(m, acc \union {i})
    BY <2>2, <2>3, <2>5 DEF Covers
  <2> QED
    BY <1>1, <2>5, <2>6 DEF m
<1>2. CASE ~ (i > w.hi)
  <2>1. set \subseteq 0 .. WindowSize - 1 /\ w.bits \subseteq set
    BY <1>0, <1>2
  <2>2. ASSUME NEW j \in acc \union {i}
        PROVE  j <= w.hi /\ (w.hi - j < WindowSize => w.hi - j \in set)
    BY <1>0, <1>2, <2>1
  <2>3. ASSUME NEW d \in set PROVE w.hi - d \in acc \union {i}
    BY <1>0, <1>2
  <2> HIDE DEF set
  <2>4. mark(w, i) = [w EXCEPT !.bits = set]
    BY <1>2 DEF mark, set
  <2>5. m \in Windows /\ m.seen /\ m.hi = w.hi /\ m.bits = set
    BY <2>1, <2>4 DEF Windows
  <2> HIDE DEF m
  <2>6. Covers(m, acc \union {i})
    BY <2>2, <2>3, <2>5 DEF Covers
  <2> QED
    BY <1>2, <2>5, <2>6 DEF m
<1> QED
  BY <1>1, <1>2

(* The tracker follows the newest packet accepted, as the window does. *)
LEMMA UpdateFollows ==
  ASSUME NEW t \in Trackers, t.sl = t.hi, NEW seq \in 0 .. SeqSpace - 1
  PROVE  LET i == Index(get_roc(t, seq), seq)
             h == Index(t.roc, t.hi)
             u == update(t, seq)
         IN  u.sl = u.hi /\ Index(u.roc, u.hi) = (IF i > h THEN i ELSE h)
<1>1. CASE Fresh(t)
  <2>1. /\ t.roc = 0 /\ t.hi = 0 /\ get_roc(t, seq) = 0
        /\ update(t, seq) = [t EXCEPT !.hi = seq, !.sl = seq]
    BY <1>1 DEF Fresh, get_roc, update
  <2>2. update(t, seq).roc = 0 /\ update(t, seq).hi = seq /\ update(t, seq).sl = seq
    BY <2>1 DEF Trackers
  <2>3. Index(0, seq) = seq /\ Index(0, 0) = 0
    BY SrtpAssumption DEF Index
  <2> QED
    BY <2>1, <2>2, <2>3
<1>2. CASE ~ Fresh(t)
  BY <1>2 DEF update
<1> QED
  BY <1>1, <1>2

LEMMA SrtpStart == SrtpInit => SrtpInv
<1> SUFFICES ASSUME SrtpInit PROVE SrtpInv
  OBVIOUS
<1> USE SrtpAssumption
<1>1. tx = Tracker /\ rx = Tracker /\ Tracker \in Trackers
  BY DEF SrtpInit, Tracker, Trackers
<1>2. window \in Windows
  BY DEF SrtpInit, Windows
<1>3. next \in Nat /\ owed = {} /\ wire = {} /\ accepted = {}
  BY DEF SrtpInit
<1>4. Covers(window, accepted)
  BY <1>3 DEF SrtpInit, Covers
<1>5. ~ window.seen /\ window.hi = 0
  BY DEF SrtpInit
<1> QED
  BY <1>1, <1>2, <1>3, <1>4, <1>5 DEF SrtpInv, SrtpTypeOK

LEMMA ProtectKeeps == ASSUME SrtpInv, NEW n \in owed, protect_rtp(n) PROVE SrtpInv'
<1> DEFINE seq == n % SeqSpace
           q == [seq |-> seq, index |-> Index(tx'.roc, seq)]
<1>1. n \in Nat /\ seq \in 0 .. SeqSpace - 1
  BY SrtpAssumption DEF SrtpInv, SrtpTypeOK
<1> HIDE DEF seq
<1>2. /\ tx' = update(tx, seq) /\ wire' = wire \union {q} /\ owed' = owed \ {n}
      /\ UNCHANGED <<rx, window, next, accepted>>
  BY DEF protect_rtp, seq
<1>3. tx' \in Trackers
  BY <1>1, <1>2, UpdateType DEF SrtpInv, SrtpTypeOK
<1>4. \A p \in wire' : /\ p.seq \in 0 .. SeqSpace - 1
                       /\ \E k \in 0 .. RocSpace - 1 : p.index = Index(k, p.seq)
  <2>1. q.seq = seq /\ q.index = Index(tx'.roc, q.seq) /\ tx'.roc \in 0 .. RocSpace - 1
    BY <1>3 DEF Trackers
  <2> HIDE DEF q
  <2> QED
    BY <1>1, <1>2, <2>1 DEF SrtpInv, SrtpTypeOK
<1>5. SrtpTypeOK'
  BY <1>2, <1>3, <1>4 DEF SrtpInv, SrtpTypeOK
<1> QED
  BY <1>2, <1>5 DEF SrtpInv, Covers

LEMMA UnprotectKeeps == ASSUME SrtpInv, NEW p \in wire, unprotect_rtp(p) PROVE SrtpInv'
<1>1. /\ window' = [mark(window, p.index) EXCEPT !.seen = TRUE]
      /\ rx' = update(rx, p.seq) /\ accepted' = accepted \union {p.index}
      /\ UNCHANGED <<tx, next, owed, wire>>
      /\ p.index = RxIndex(p)
  BY DEF unprotect_rtp, Accepts
<1>2. p.seq \in 0 .. SeqSpace - 1 /\ p.index \in Nat /\ rx \in Trackers
  BY IndexType DEF SrtpInv, SrtpTypeOK
<1>3. /\ window' \in Windows
      /\ window'.seen /\ window'.hi = (IF p.index > window.hi THEN p.index ELSE window.hi)
      /\ Covers(window', accepted')
  BY <1>1, <1>2, MarkCovers DEF SrtpInv, SrtpTypeOK
<1>4. rx' \in Trackers
  BY <1>1, <1>2, UpdateType
<1>5. rx.sl = rx.hi /\ window.hi = Index(rx.roc, rx.hi) /\ p.index = Index(get_roc(rx, p.seq), p.seq)
  <2>1. CASE window.seen
    BY <1>1, <2>1 DEF SrtpInv, RxIndex
  <2>2. CASE ~ window.seen
    <3>1. rx = Tracker /\ window.hi = 0
      BY <2>2 DEF SrtpInv
    <3>2. rx.roc = 0 /\ rx.hi = 0 /\ rx.sl = 0
      BY <3>1 DEF Tracker
    <3>3. Index(0, 0) = 0 /\ get_roc(rx, p.seq) = 0
      BY <3>2, SrtpAssumption DEF Index, get_roc, Fresh
    <3> QED
      BY <1>1, <2>2, <3>1, <3>2, <3>3 DEF RxIndex
  <2> QED
    BY <2>1, <2>2
<1>6. rx'.sl = rx'.hi /\ Index(rx'.roc, rx'.hi) = (IF p.index > window.hi THEN p.index ELSE window.hi)
  BY <1>1, <1>2, <1>5, UpdateFollows
<1>7. SrtpTypeOK'
  BY <1>1, <1>2, <1>3, <1>4 DEF SrtpInv, SrtpTypeOK
<1> QED
  BY <1>3, <1>6, <1>7 DEF SrtpInv

LEMMA SrtpStep == ASSUME SrtpInv, [SrtpNext]_srtpVars PROVE SrtpInv'
<1>1. CASE Source
  BY <1>1 DEF Source, SrtpInv, SrtpTypeOK, Covers
<1>2. ASSUME NEW n \in owed, protect_rtp(n) PROVE SrtpInv'
  BY <1>2, ProtectKeeps
<1>3. ASSUME NEW p \in wire, unprotect_rtp(p) PROVE SrtpInv'
  BY <1>3, UnprotectKeeps
<1>4. ASSUME NEW p \in wire, Lose(p) PROVE SrtpInv'
  BY <1>4 DEF Lose, SrtpInv, SrtpTypeOK, Covers
<1>5. CASE UNCHANGED srtpVars
  BY <1>5 DEF srtpVars, SrtpInv, SrtpTypeOK, Covers
<1> QED
  BY <1>1, <1>2, <1>3, <1>4, <1>5 DEF SrtpNext, Refuse

(* What was accepted is refused: the bitmap still has it or it is too old. *)
LEMMA AcceptedRefused == SrtpInv => NeverTwice
<1> SUFFICES ASSUME SrtpInv, NEW p \in wire, p.index \in accepted PROVE ~ Accepts(p)
  BY DEF NeverTwice
<1>1. p.index \in Nat /\ window.hi \in Nat
  BY IndexType DEF SrtpInv, SrtpTypeOK, Windows
<1>2. check(window, p.index)
  BY <1>1, SrtpAssumption DEF SrtpInv, Covers, check
<1>3. window.seen
  BY DEF SrtpInv
<1> QED
  BY <1>2, <1>3 DEF Accepts

(* What is near the newest packet and was not accepted is accepted: the    *)
(* estimate finds its index and the bitmap does not have it.               *)
LEMMA NearAccepted == SrtpInv => ArrivalsAccepted
<1> SUFFICES ASSUME SrtpInv, NEW p \in wire, Close(p) PROVE Accepts(p)
  BY DEF ArrivalsAccepted
<1>1. window.seen /\ rx.sl = rx.hi /\ window.hi = Index(rx.roc, rx.hi) /\ rx \in Trackers
  BY DEF Close, SrtpInv, SrtpTypeOK
<1>2. PICK k \in 0 .. RocSpace - 1 : p.index = Index(k, p.seq)
  BY DEF SrtpInv, SrtpTypeOK
<1>3. p.seq \in 0 .. SeqSpace - 1 /\ p.index \in Nat /\ window.hi \in Nat
  BY IndexType DEF SrtpInv, SrtpTypeOK, Windows
<1>4. get_roc(rx, p.seq) = k
  BY <1>1, <1>2, <1>3, EstimateFinds DEF Close
<1>5. RxIndex(p) = p.index
  BY <1>1, <1>2, <1>4 DEF RxIndex
<1>6. ASSUME check(window, p.index) PROVE FALSE
  <2>1. p.index <= window.hi /\ window.hi - p.index \in window.bits
    BY <1>3, <1>6, SrtpAssumption DEF check, Close
  <2>2. window.hi - (window.hi - p.index) \in accepted
    BY <2>1 DEF SrtpInv, Covers
  <2>3. window.hi - (window.hi - p.index) = p.index
    BY <1>3
  <2> QED
    BY <2>2, <2>3 DEF Close
<1> QED
  BY <1>5, <1>6 DEF Accepts

(* For any sequence number space, counter width and window size, and over  *)
(* any network: a packet is not accepted twice, however late its copy.     *)
THEOREM NoReplay == SrtpSpec => []NeverTwice
<1>1. SrtpSpec => []SrtpInv
  BY SrtpStart, SrtpStep, PTL DEF SrtpSpec
<1> QED
  BY <1>1, AcceptedRefused, PTL

(* And a packet that arrives within the window and within half a cycle of  *)
(* the newest one is accepted, in whatever order, across a rollover too.   *)
THEOREM NoArrivalRefused == SrtpSpec => []ArrivalsAccepted
<1>1. SrtpSpec => []SrtpInv
  BY SrtpStart, SrtpStep, PTL DEF SrtpSpec
<1> QED
  BY <1>1, NearAccepted, PTL

-----------------------------------------------------------------------------
(* VideoEncoders *)

EncodersTypeOK ==
    /\ watching \in [Watchers -> Flavors \union {Nothing}]
    /\ job \in [Watchers -> Jobs \union {Nothing}]
    /\ encoders \subseteq Flavors

(* What an operation under way will still see to: the encoder it opened,   *)
(* until its watcher is there, and the one it left, until it was looked at *)
(* whether anyone else watches it.                                         *)
SeesTo(w, f) ==
    /\ job[w] # Nothing
    /\ \/ job[w].at \in {"insert", "move"} /\ job[w].new = f
       \/ job[w].at \in {"check", "drop"} /\ job[w].old = f

(* A watcher is inserted only where none of its own is left, and moved     *)
(* from the flavor it remembers.                                           *)
JobsFit == \A w \in Watchers : job[w] # Nothing =>
    /\ job[w].at \in {"ensure", "ensureMove", "insert", "move"} => job[w].new # Nothing
    /\ job[w].at \in {"ensure", "insert"} => watching[w] = Nothing
    /\ job[w].at \in {"check", "drop"} /\ job[w].new # Nothing => watching[w] = Nothing
    /\ job[w].at \in {"ensureMove", "move"} => watching[w] = job[w].old

WatchedInv ==
    /\ EncodersTypeOK /\ JobsFit
    /\ \A f \in encoders : \E w \in Watchers : watching[w] = f \/ SeesTo(w, f)

LEMMA GoesType ==
  ASSUME NEW at \in {"ensure", "ensureMove", "insert", "move", "check", "drop"},
         NEW old \in Flavors \union {Nothing}, NEW new \in Flavors \union {Nothing}
  PROVE  /\ Goes(at, old, new) \in Jobs /\ Goes(at, old, new) # Nothing
         /\ Goes(at, old, new).at = at /\ Goes(at, old, new).old = old
         /\ Goes(at, old, new).new = new
  BY VideoEncodersAssumption DEF Goes, Jobs

(* A step of one watcher's operation that takes nothing from the others:   *)
(* it is enough to look at the encoders that watcher had to do with.       *)
LEMMA OneWatcherMoves ==
  ASSUME WatchedInv, NEW w \in Watchers,
         EncodersTypeOK', JobsFit',
         \A x \in Watchers \ {w} : watching'[x] = watching[x] /\ job'[x] = job[x],
         \A f \in encoders' : f \in encoders \/ watching'[w] = f \/ SeesTo(w, f)',
         \A f \in encoders' : watching[w] = f \/ SeesTo(w, f) =>
            \E x \in Watchers : watching'[x] = f \/ SeesTo(x, f)'
  PROVE  WatchedInv'
<1>1. ASSUME NEW f \in encoders' PROVE \E x \in Watchers : watching'[x] = f \/ SeesTo(x, f)'
  <2>1. CASE f \notin encoders
    BY <2>1
  <2>2. CASE f \in encoders
    <3>1. PICK x \in Watchers : watching[x] = f \/ SeesTo(x, f)
      BY <2>2 DEF WatchedInv
    <3>2. CASE x = w
      BY <3>1, <3>2
    <3>3. CASE x # w
      BY <3>1, <3>3 DEF SeesTo
    <3> QED
      BY <3>2, <3>3
  <2> QED
    BY <2>1, <2>2
<1> QED
  BY <1>1 DEF WatchedInv

LEMMA WatchedStep == ASSUME WatchedInv, [EncodersNext]_encoderVars PROVE WatchedInv'
<1> USE VideoEncodersAssumption
<1>0. EncodersTypeOK /\ JobsFit
  BY DEF WatchedInv
<1>1. ASSUME NEW w \in Watchers, NEW f \in Flavors, subscribe_kind(w, f) PROVE WatchedInv'
  <2> DEFINE at == IF watching[w] = Nothing THEN "ensure" ELSE "check"
  <2>1. /\ watching' = [watching EXCEPT ![w] = Nothing]
        /\ job' = [job EXCEPT ![w] = Goes(at, watching[w], f)]
        /\ encoders' = encoders /\ job[w] = Nothing
    BY <1>1 DEF subscribe_kind, Turn
  <2>2. watching[w] \in Flavors \union {Nothing}
    BY <1>0 DEF EncodersTypeOK
  <2>3. /\ Goes(at, watching[w], f) \in Jobs /\ Goes(at, watching[w], f) # Nothing
        /\ Goes(at, watching[w], f).at = at /\ Goes(at, watching[w], f).old = watching[w]
        /\ Goes(at, watching[w], f).new = f
    BY <2>2, GoesType
  <2>4. EncodersTypeOK'
    BY <1>0, <2>1, <2>3 DEF EncodersTypeOK
  <2>5. JobsFit'
    BY <1>0, <2>1, <2>3 DEF EncodersTypeOK, JobsFit
  <2>6. ASSUME NEW g \in encoders, watching[w] = g PROVE g = Nothing \/ SeesTo(w, g)'
    BY <1>0, <2>1, <2>3, <2>6 DEF EncodersTypeOK, SeesTo
  <2>7. watching'[w] = Nothing
    BY <1>0, <2>1 DEF EncodersTypeOK
  <2>8. \A x \in Watchers \ {w} : watching'[x] = watching[x] /\ job'[x] = job[x]
    BY <1>0, <2>1 DEF EncodersTypeOK
  <2> QED
    BY <2>1, <2>4, <2>5, <2>6, <2>7, <2>8, OneWatcherMoves DEF SeesTo
<1>2. ASSUME NEW w \in Watchers, unsubscribe_kind(w) PROVE WatchedInv'
  <2>1. /\ watching' = [watching EXCEPT ![w] = Nothing]
        /\ job' = [job EXCEPT ![w] = Goes("check", watching[w], Nothing)]
        /\ encoders' = encoders /\ job[w] = Nothing
    BY <1>2 DEF unsubscribe_kind, Turn
  <2>2. watching[w] \in Flavors \union {Nothing}
    BY <1>0 DEF EncodersTypeOK
  <2>3. LET j == Goes("check", watching[w], Nothing)
        IN  j \in Jobs /\ j # Nothing /\ j.at = "check" /\ j.old = watching[w] /\ j.new = Nothing
    BY <2>2, GoesType
  <2>4. EncodersTypeOK'
    BY <1>0, <2>1, <2>3 DEF EncodersTypeOK
  <2>5. JobsFit'
    BY <1>0, <2>1, <2>3 DEF EncodersTypeOK, JobsFit
  <2>6. ASSUME NEW g \in encoders, watching[w] = g PROVE SeesTo(w, g)'
    BY <1>0, <2>1, <2>3, <2>6 DEF EncodersTypeOK, SeesTo
  <2>7. \A x \in Watchers \ {w} : watching'[x] = watching[x] /\ job'[x] = job[x]
    BY <1>0, <2>1 DEF EncodersTypeOK
  <2> QED
    BY <2>1, <2>4, <2>5, <2>6, <2>7, OneWatcherMoves DEF SeesTo
<1>3. ASSUME NEW w \in Watchers, NEW f \in Flavors, move_to_flavor(w, f) PROVE WatchedInv'
  <2>1. /\ job' = [job EXCEPT ![w] = Goes("ensureMove", watching[w], f)]
        /\ encoders' = encoders /\ watching' = watching /\ job[w] = Nothing
    BY <1>3 DEF move_to_flavor, Turn
  <2>2. watching[w] \in Flavors \union {Nothing}
    BY <1>0 DEF EncodersTypeOK
  <2>3. LET j == Goes("ensureMove", watching[w], f)
        IN  j \in Jobs /\ j # Nothing /\ j.at = "ensureMove" /\ j.old = watching[w] /\ j.new = f
    BY <2>2, GoesType
  <2>4. EncodersTypeOK'
    BY <1>0, <2>1, <2>3 DEF EncodersTypeOK
  <2>5. JobsFit'
    BY <1>0, <2>1, <2>3 DEF EncodersTypeOK, JobsFit
  <2>6. \A x \in Watchers \ {w} : watching'[x] = watching[x] /\ job'[x] = job[x]
    BY <1>0, <2>1 DEF EncodersTypeOK
  <2> QED
    BY <2>1, <2>4, <2>5, <2>6, OneWatcherMoves DEF SeesTo
<1>4. ASSUME NEW w \in Watchers, ensure_encoder(w) PROVE WatchedInv'
  <2> DEFINE j == [job[w] EXCEPT !.at = IF @ = "ensure" THEN "insert" ELSE "move"]
  <2>1. /\ job[w] \in Jobs /\ job[w] # Nothing /\ job[w].at \in {"ensure", "ensureMove"}
        /\ watching' = watching
    BY <1>0, <1>4 DEF ensure_encoder, EncodersTypeOK
  <2>0. job[w].new \in Flavors
    BY <1>0, <2>1 DEF JobsFit, Jobs
  <2>2. CASE encoders' = encoders \union {job[w].new} /\ job' = [job EXCEPT ![w] = j]
    <3>1. /\ j \in Jobs /\ j # Nothing /\ j.new = job[w].new /\ j.old = job[w].old
          /\ j.at \in {"insert", "move"}
          /\ j.at = "insert" <=> job[w].at = "ensure"
      BY <2>1 DEF Jobs
    <3> HIDE DEF j
    <3>2. EncodersTypeOK'
      BY <1>0, <2>1, <2>0, <2>2, <3>1 DEF EncodersTypeOK
    <3>3. JobsFit'
      BY <1>0, <2>1, <2>2, <3>1 DEF EncodersTypeOK, JobsFit
    <3>4. SeesTo(w, job[w].new)'
      <4>1. job'[w] = j
        BY <1>0, <2>2 DEF EncodersTypeOK
      <4> QED
        BY <3>1, <4>1 DEF SeesTo
    <3>5. \A f : ~ SeesTo(w, f)
      BY <2>1 DEF SeesTo
    <3>6. \A x \in Watchers \ {w} : watching'[x] = watching[x] /\ job'[x] = job[x]
      BY <1>0, <2>1, <2>2 DEF EncodersTypeOK
    <3>7. \A f \in encoders' : f \in encoders \/ SeesTo(w, f)'
      <4>1. job'[w].new = job[w].new
        BY <1>0, <2>2, <3>1 DEF EncodersTypeOK
      <4> QED
        BY <2>2, <3>4, <4>1
    <3> QED
      BY <2>1, <3>2, <3>3, <3>5, <3>6, <3>7, OneWatcherMoves
  <2>3. CASE encoders' = encoders /\ job' = [job EXCEPT ![w] = Nothing]
    <3>1. EncodersTypeOK' /\ JobsFit'
      BY <1>0, <2>1, <2>3 DEF EncodersTypeOK, JobsFit
    <3> QED
      BY <1>0, <2>1, <2>3, <3>1, OneWatcherMoves DEF EncodersTypeOK, SeesTo
  <2> QED
    BY <1>4, <2>2, <2>3 DEF ensure_encoder
<1>5. ASSUME NEW w \in Watchers, Insert(w) PROVE WatchedInv'
  <2>1. /\ job[w] \in Jobs /\ job[w] # Nothing /\ job[w].at = "insert" /\ watching[w] = Nothing
        /\ watching' = [watching EXCEPT ![w] = job[w].new]
        /\ job' = [job EXCEPT ![w] = Nothing] /\ encoders' = encoders
    BY <1>0, <1>5 DEF Insert, EncodersTypeOK, JobsFit
  <2>2. job[w].new \in Flavors \union {Nothing}
    BY <2>1 DEF Jobs
  <2>3. EncodersTypeOK' /\ JobsFit'
    BY <1>0, <2>1, <2>2 DEF EncodersTypeOK, JobsFit
  <2>4. watching'[w] = job[w].new /\ \A f : SeesTo(w, f) => f = job[w].new
    BY <1>0, <2>1 DEF EncodersTypeOK, SeesTo
  <2>5. \A f \in encoders' : watching[w] # f
    BY <1>0, <2>1 DEF EncodersTypeOK
  <2> QED
    BY <1>0, <2>1, <2>3, <2>4, <2>5, OneWatcherMoves DEF EncodersTypeOK
<1>6. ASSUME NEW w \in Watchers, move_to(w) PROVE WatchedInv'
  <2>1. /\ job[w] \in Jobs /\ job[w] # Nothing /\ job[w].at = "move" /\ watching[w] = job[w].old
        /\ watching' = [watching EXCEPT ![w] = job[w].new]
        /\ job' = [job EXCEPT ![w] = Goes("check", job[w].old, Nothing)] /\ encoders' = encoders
    BY <1>0, <1>6 DEF move_to, EncodersTypeOK, JobsFit
  <2>2. job[w].new \in Flavors \union {Nothing} /\ job[w].old \in Flavors \union {Nothing}
    BY <2>1 DEF Jobs
  <2>3. LET j == Goes("check", job[w].old, Nothing)
        IN  j \in Jobs /\ j # Nothing /\ j.at = "check" /\ j.old = job[w].old /\ j.new = Nothing
    BY <2>2, GoesType
  <2>4. EncodersTypeOK' /\ JobsFit'
    BY <1>0, <2>1, <2>2, <2>3 DEF EncodersTypeOK, JobsFit
  <2>5. watching'[w] = job[w].new /\ \A f : SeesTo(w, f) => f = job[w].new
    BY <1>0, <2>1 DEF EncodersTypeOK, SeesTo
  <2>6. ASSUME NEW f \in encoders, watching[w] = f PROVE SeesTo(w, f)'
    BY <1>0, <2>1, <2>3, <2>6 DEF EncodersTypeOK, SeesTo
  <2>7. \A x \in Watchers \ {w} : watching'[x] = watching[x] /\ job'[x] = job[x]
    BY <1>0, <2>1 DEF EncodersTypeOK
  <2> QED
    BY <2>1, <2>4, <2>5, <2>6, <2>7, OneWatcherMoves
<1>7. ASSUME NEW w \in Watchers, release_flavor(w) PROVE WatchedInv'
  <2> DEFINE old == job[w].old
             j == IF still_used(old) THEN Next_of(job[w]) ELSE [job[w] EXCEPT !.at = "drop"]
  <2>1. /\ job[w] \in Jobs /\ job[w] # Nothing /\ job[w].at = "check"
        /\ job' = [job EXCEPT ![w] = j] /\ UNCHANGED <<watching, encoders>>
        /\ job[w].new # Nothing => watching[w] = Nothing
    BY <1>0, <1>7 DEF release_flavor, EncodersTypeOK, JobsFit
  <2>2. /\ j \in Jobs \union {Nothing}
        /\ j # Nothing => /\ j.at \in {"ensure", "drop"} /\ j.old = old /\ j.new = job[w].new
                          /\ j.at = "ensure" => j.new # Nothing
        /\ ~ still_used(old) => j # Nothing /\ j.at = "drop"
    BY <2>1 DEF Next_of, Jobs
  <2> HIDE DEF j
  <2>3. job'[w] = j
    BY <1>0, <2>1 DEF EncodersTypeOK
  <2>4. EncodersTypeOK' /\ JobsFit'
    BY <1>0, <2>1, <2>2, <2>3 DEF EncodersTypeOK, JobsFit
  <2>5. ASSUME NEW f, SeesTo(w, f) PROVE \E x \in Watchers : watching'[x] = f \/ SeesTo(x, f)'
    <3>1. f = old
      BY <2>1, <2>5 DEF SeesTo
    <3>2. CASE still_used(old)
      BY <2>1, <3>1, <3>2 DEF still_used
    <3>3. CASE ~ still_used(old)
      BY <2>2, <2>3, <3>1, <3>3 DEF SeesTo
    <3> QED
      BY <3>2, <3>3
  <2> QED
    BY <1>0, <2>1, <2>4, <2>5, OneWatcherMoves DEF EncodersTypeOK
<1>8. ASSUME NEW w \in Watchers, Drop(w) PROVE WatchedInv'
  <2>1. /\ job[w] \in Jobs /\ job[w] # Nothing /\ job[w].at = "drop"
        /\ job' = [job EXCEPT ![w] = Next_of(job[w])] /\ UNCHANGED watching
        /\ encoders' = encoders \ {job[w].old}
        /\ job[w].new # Nothing => watching[w] = Nothing
    BY <1>0, <1>8 DEF Drop, EncodersTypeOK, JobsFit
  <2> DEFINE j == Next_of(job[w])
  <2>2. /\ j \in Jobs \union {Nothing}
        /\ j # Nothing => j.at = "ensure" /\ job[w].new # Nothing /\ j.new = job[w].new
    BY <2>1 DEF Next_of, Jobs
  <2> HIDE DEF j
  <2>3. job'[w] = j
    BY <1>0, <2>1 DEF EncodersTypeOK, j
  <2>4. EncodersTypeOK' /\ JobsFit'
    BY <1>0, <2>1, <2>2, <2>3 DEF EncodersTypeOK, JobsFit, j
  <2>5. \A f : SeesTo(w, f) => f = job[w].old
    BY <2>1 DEF SeesTo
  <2> QED
    BY <1>0, <2>1, <2>4, <2>5, OneWatcherMoves DEF EncodersTypeOK
<1>9. CASE UNCHANGED <<watching, job, encoders>>
  BY <1>9 DEF WatchedInv, EncodersTypeOK, JobsFit, SeesTo
<1> QED
  BY <1>1, <1>2, <1>3, <1>4, <1>5, <1>6, <1>7, <1>8, <1>9
     DEF EncodersNext, request_keyframe, Keyframe, encoderVars

(* Whoever subscribes, leaves and is moved at once, step by step: with no  *)
(* operation under way there is no encoder that nobody watches.            *)
THEOREM NoEncoderLeft == EncodersSpec => []EncodersWatched
<1>1. EncodersInit => WatchedInv
  BY DEF EncodersInit, WatchedInv, EncodersTypeOK, JobsFit
<1>2. WatchedInv => EncodersWatched
  BY DEF WatchedInv, EncodersWatched, SeesTo
<1> QED
  BY <1>1, <1>2, WatchedStep, PTL DEF EncodersSpec

(* One operation at a time: the encoder it opened is there until its       *)
(* watcher is, and what it found unwatched stays so until it is dropped.   *)
ServedInv ==
    /\ \A w, x \in Watchers : job[w] # Nothing /\ job[x] # Nothing => w = x
    /\ \A w \in Watchers : job[w] # Nothing =>
          /\ job[w].at \in {"insert", "move"} => job[w].new \in encoders
          /\ job[w].at = "drop" => ~ still_used(job[w].old)
    /\ WatchersServed

LEMMA ServedStep ==
  ASSUME ~ AtOnce, WatchedInv, ServedInv, [EncodersNext]_encoderVars
  PROVE  ServedInv'
<1> USE VideoEncodersAssumption DEF ServedInv, WatchersServed
<1>0. EncodersTypeOK /\ JobsFit
  BY DEF WatchedInv
<1>1. ASSUME NEW w \in Watchers, NEW f \in Flavors, subscribe_kind(w, f) PROVE ServedInv'
  <2> DEFINE at == IF watching[w] = Nothing THEN "ensure" ELSE "check"
  <2>1. /\ watching' = [watching EXCEPT ![w] = Nothing]
        /\ job' = [job EXCEPT ![w] = Goes(at, watching[w], f)]
        /\ encoders' = encoders /\ \A x \in Watchers : job[x] = Nothing
    BY <1>1 DEF subscribe_kind, Turn
  <2>2. Goes(at, watching[w], f).at = at
    BY DEF Goes
  <2> QED
    BY <1>0, <2>1, <2>2 DEF EncodersTypeOK
<1>2. ASSUME NEW w \in Watchers, unsubscribe_kind(w) PROVE ServedInv'
  BY <1>0, <1>2 DEF unsubscribe_kind, Turn, Goes, EncodersTypeOK
<1>3. ASSUME NEW w \in Watchers, NEW f \in Flavors, move_to_flavor(w, f) PROVE ServedInv'
  BY <1>0, <1>3 DEF move_to_flavor, Turn, Goes, EncodersTypeOK
<1>4. ASSUME NEW w \in Watchers, ensure_encoder(w) PROVE ServedInv'
  <2>1. /\ job[w] \in Jobs /\ job[w] # Nothing /\ watching' = watching
        /\ \A x \in Watchers : x # w => job[x] = Nothing
        /\ encoders \subseteq encoders'
    BY <1>0, <1>4 DEF ensure_encoder, EncodersTypeOK
  <2>2. \A x \in Watchers : x # w => job'[x] = Nothing
    BY <1>0, <1>4, <2>1 DEF ensure_encoder, EncodersTypeOK
  <2>3. job'[w] # Nothing => job'[w].new \in encoders' /\ job'[w].at \in {"insert", "move"}
    BY <1>0, <1>4, <2>1 DEF ensure_encoder, EncodersTypeOK, Jobs
  <2> QED
    BY <2>1, <2>2, <2>3
<1>5. ASSUME NEW w \in Watchers, Insert(w) PROVE ServedInv'
  BY <1>0, <1>5 DEF Insert, EncodersTypeOK
<1>6. ASSUME NEW w \in Watchers, move_to(w) PROVE ServedInv'
  BY <1>0, <1>6 DEF move_to, EncodersTypeOK, Goes
<1>7. ASSUME NEW w \in Watchers, release_flavor(w) PROVE ServedInv'
  <2>1. /\ job[w] \in Jobs /\ job[w] # Nothing /\ UNCHANGED <<watching, encoders>>
        /\ \A x \in Watchers : x # w => job'[x] = Nothing
    BY <1>0, <1>7 DEF release_flavor, EncodersTypeOK
  <2>2. job'[w] # Nothing => /\ job'[w].at \in {"ensure", "drop"}
                             /\ job'[w].at = "drop" => ~ still_used(job'[w].old)
    BY <1>0, <1>7, <2>1 DEF release_flavor, EncodersTypeOK, Next_of, Jobs
  <2> QED
    BY <2>1, <2>2 DEF still_used
<1>8. ASSUME NEW w \in Watchers, Drop(w) PROVE ServedInv'
  <2>1. /\ job[w] \in Jobs /\ job[w] # Nothing /\ UNCHANGED watching
        /\ \A x \in Watchers : x # w => job'[x] = Nothing
        /\ encoders' = encoders \ {job[w].old} /\ ~ still_used(job[w].old)
    BY <1>0, <1>8 DEF Drop, EncodersTypeOK
  <2>2. job'[w] # Nothing => job'[w].at = "ensure"
    BY <1>0, <1>8, <2>1 DEF Drop, EncodersTypeOK, Next_of, Jobs
  <2> QED
    BY <2>1, <2>2 DEF still_used
<1>9. CASE UNCHANGED <<watching, job, encoders>>
  BY <1>9 DEF still_used
<1> QED
  BY <1>1, <1>2, <1>3, <1>4, <1>5, <1>6, <1>7, <1>8, <1>9
     DEF EncodersNext, request_keyframe, Keyframe, encoderVars

(* Operations that do not overlap leave every watcher with its encoder:    *)
(* the overlap of two is the only way a tick finds one with nothing to     *)
(* send.                                                                   *)
THEOREM WatchersHaveEncoders == ~ AtOnce /\ EncodersSpec => []WatchersServed
<1> SUFFICES ASSUME ~ AtOnce PROVE EncodersSpec => []WatchersServed
  OBVIOUS
<1>1. EncodersInit => WatchedInv /\ ServedInv
  BY DEF EncodersInit, WatchedInv, EncodersTypeOK, JobsFit, ServedInv, WatchersServed
<1>2. WatchedInv /\ ServedInv /\ [EncodersNext]_encoderVars => WatchedInv' /\ ServedInv'
  BY WatchedStep, ServedStep
<1>3. ServedInv => WatchersServed
  BY DEF ServedInv
<1> QED
  BY <1>1, <1>2, <1>3, PTL DEF EncodersSpec
=============================================================================
