----------------------------- MODULE PortLedger -----------------------------
(***************************************************************************)
(* What forge-rtp's PortPool promises its callers, as a ledger: every      *)
(* RTP/RTCP pair of the configured range is either free or taken, never    *)
(* both and never lost.  The pool's Vec and HashSet are one abstraction    *)
(* level down, in PortPool, which implements this module.                  *)
(***************************************************************************)
EXTENDS Naturals, FiniteSets

CONSTANT Pairs          \* the even RTP ports of the range, one per pair

VARIABLES free, taken

ASSUME PairsAssumption == IsFiniteSet(Pairs)

LedgerInit == /\ taken \in SUBSET Pairs
              /\ free = Pairs \ taken

Take(p) == /\ p \in free
           /\ free' = free \ {p}
           /\ taken' = taken \union {p}

(* A caller that has to leave a band of `floor' pairs behind.  The test is *)
(* on the free count under the same lock that takes the pair.              *)
TakeReserving(p, floor) == /\ Cardinality(free) > floor
                           /\ Take(p)

(* Giving back a pair that is not taken changes nothing. *)
Give(p) == /\ free' = IF p \in taken THEN free \union {p} ELSE free
           /\ taken' = taken \ {p}

LedgerNext == \E p \in Pairs : Take(p) \/ Give(p)

LedgerSpec == LedgerInit /\ [][LedgerNext]_<<free, taken>>
=============================================================================
