------------------------------ MODULE PortPool ------------------------------
(***************************************************************************)
(* forge-rtp/src/port_pool.rs.  The pool is a Vec of available RTP ports   *)
(* and a HashSet of allocated ones, behind one Mutex, so every operation   *)
(* is one step.  A Vec can hold a port twice and a HashSet cannot: that    *)
(* the Vec never does, whatever pairs callers give back, is what the       *)
(* module is about.                                                        *)
(***************************************************************************)
EXTENDS Integers, Sequences, SequencesExt, FiniteSets, FiniteSetsExt

CONSTANTS MinPort,      \* PortPoolConfig.min_port
          MaxPort,      \* PortPoolConfig.max_port
          Floors,       \* the min_free arguments callers use
          CallerPorts   \* the RTP ports callers name, of the range or not

VARIABLES available, allocated

poolVars == <<available, allocated>>

(* PortPoolConfig::new also refuses a range of fewer than 100 ports, which *)
(* no step depends on.                                                     *)
ASSUME PoolAssumption == /\ MinPort \in Nat /\ MaxPort \in Nat
                         /\ MinPort % 2 = 0
                         /\ MinPort < MaxPort
                         /\ Floors \subseteq Nat
                         /\ CallerPorts \subseteq Nat

RtpPorts == {p \in MinPort .. (MaxPort - 1) : p % 2 = 0}

-----------------------------------------------------------------------------
(* The element at idx is replaced by the last one, and the Vec shortened.  *)
SwapRemove(s, idx) == SubSeq([s EXCEPT ![idx] = s[Len(s)]], 1, Len(s) - 1)

(* PortPool::new_with_allocated; PortPool::new is the case of no port      *)
(* allocated.  The shuffle is the choice of an order.                      *)
PoolInit == /\ allocated \in SUBSET (CallerPorts \intersect RtpPorts)
            /\ available \in SetToSeqs(RtpPorts \ allocated)

allocate_reserving(min_free) ==
    /\ available # <<>>
    /\ Len(available) > min_free
    /\ \E idx \in 1 .. Len(available) :
          /\ allocated' = allocated \union {available[idx]}
          /\ available' = SwapRemove(available, idx)

allocate_specific(rtp_port) ==
    /\ rtp_port >= MinPort /\ rtp_port < MaxPort - 1
    /\ rtp_port % 2 = 0
    /\ rtp_port \notin allocated
    /\ \E pos \in 1 .. Len(available) :
          /\ available[pos] = rtp_port
          /\ \A before \in 1 .. (pos - 1) : available[before] # rtp_port
          /\ available' = SwapRemove(available, pos)
    /\ allocated' = allocated \union {rtp_port}

(* Mutant: the pair goes back without the test that it was allocated, so a *)
(* second release puts its port in the Vec twice.                          *)
deallocate_unchecked(rtp_port) ==
    /\ rtp_port \in RtpPorts
    /\ available' = Append(available, rtp_port)
    /\ allocated' = allocated \ {rtp_port}

(* The caller's pair goes back only if the pool had handed it out. *)
deallocate(rtp_port) ==
    /\ rtp_port \in allocated
    /\ available' = Append(available, rtp_port)
    /\ allocated' = allocated \ {rtp_port}

PoolNext == \/ \E min_free \in Floors : allocate_reserving(min_free)
            \/ \E p \in CallerPorts : allocate_specific(p)
            \/ \E p \in CallerPorts : deallocate(p)

PoolSpec == PoolInit /\ [][PoolNext]_poolVars

-----------------------------------------------------------------------------
(* No port is twice in the Vec, and none is both available and allocated:  *)
(* the pool never hands one pair to two callers.                           *)
NoPortTwice == /\ \A i, j \in 1 .. Len(available) :
                     available[i] = available[j] => i = j
               /\ \A i \in 1 .. Len(available) : available[i] \notin allocated

(* The pool implements the ledger: one take or one give per operation. *)
Ledger == INSTANCE PortLedger WITH Pairs <- RtpPorts,
                                   free <- ToSet(available), taken <- allocated
ImplementsLedger == Ledger!LedgerSpec
=============================================================================
