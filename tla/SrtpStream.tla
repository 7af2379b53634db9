----------------------------- MODULE SrtpStream -----------------------------
(***************************************************************************)
(* One SSRC of an SRTP stream: the sender's and the receiver's rollover    *)
(* counters and the receiver's replay window                               *)
(* (crates/forge-rtp/src/srtp.rs).  A packet carries its sequence number,  *)
(* modulo SeqSpace; it authenticates only under the packet index, rollover   *)
(* counter and sequence number, it was protected with.  Between the two is *)
(* a network that loses, repeats and reorders.                             *)
(***************************************************************************)
EXTENDS Integers, FiniteSets

CONSTANTS SeqSpace,  \* 2^16 in the code
          RocSpace,  \* 2^32 in the code
          WindowSize,\* 64 in the code: the bits of the bitmap
          Sent,      \* how far past the first rollover the source goes
          InFlight,  \* how many packets the network holds
          Late       \* how far behind its neighbours a relayed packet may be
                     \* when it is protected; 0: in sequence

ASSUME SrtpAssumption ==
    /\ SeqSpace \in Nat /\ RocSpace \in Nat /\ WindowSize \in Nat
    /\ SeqSpace > 1 /\ RocSpace > 1 /\ WindowSize > 0
    /\ Sent \in Nat /\ Late \in Nat /\ InFlight \in Nat

Half == SeqSpace \div 2

VARIABLES tx,        \* local_roc: roc, hi (highest_seq), sl
          rx,        \* remote_roc, created by the first packet accepted
          window,    \* ReplayWindow: hi, bits (the deltas marked); seen says it exists
          next,      \* the source's next packet, counted without rollover
          owed,      \* packets of the source the relay has not protected yet
          wire,      \* protected packets: seq, index
          accepted   \* the indices of the packets accepted

srtpVars == <<tx, rx, window, next, owed, wire, accepted>>

Tracker == [roc |-> 0, hi |-> 0, sl |-> 0]

SrtpInit ==
    /\ tx = Tracker
    /\ rx = Tracker
    /\ window = [seen |-> FALSE, hi |-> 0, bits |-> {}]
    /\ next \in 0 .. SeqSpace - 1
    /\ owed = {}
    /\ wire = {}
    /\ accepted = {}

-----------------------------------------------------------------------------
(* RocTracker *)

Fresh(t) == t.hi = 0 /\ t.roc = 0

get_roc(t, seq) ==
    IF Fresh(t) THEN 0
    ELSE IF seq - t.sl > Half THEN (t.roc - 1) % RocSpace
    ELSE IF seq - t.sl < -Half THEN (t.roc + 1) % RocSpace
    ELSE t.roc

Index(roc, seq) == roc * SeqSpace + seq

update(t, seq) ==
    LET v == get_roc(t, seq)
    IN IF Fresh(t) THEN [t EXCEPT !.hi = seq, !.sl = seq]
       ELSE IF Index(v, seq) > Index(t.roc, t.hi) THEN [roc |-> v, hi |-> seq, sl |-> seq]
       ELSE t

-----------------------------------------------------------------------------
(* ReplayWindow: bit d of the bitmap stands for the index hi - d *)

check(w, i) ==
    /\ i <= w.hi
    /\ w.hi - i >= WindowSize \/ w.hi - i \in w.bits

\* Mutant: the bits stay where they are when the window moves.
Shifted_kept(bits, by) == bits

Shifted(bits, by) == {d + by : d \in {b \in bits : b + by < WindowSize}}

mark(w, i) ==
    IF i > w.hi
    THEN [w EXCEPT !.hi = i,
                   !.bits = IF i - w.hi < WindowSize THEN Shifted(w.bits, i - w.hi) \cup {0}
                            ELSE {0}]
    ELSE [w EXCEPT !.bits = IF w.hi - i < WindowSize THEN @ \cup {w.hi - i} ELSE @]

-----------------------------------------------------------------------------
(* The source, the sender, the network and the receiver *)

\* A relayed packet reaches protect_rtp, in sequence or up to Late behind.
Source ==
    /\ next < SeqSpace + Sent
    /\ Cardinality(owed) <= Late
    /\ owed' = owed \cup {next}
    /\ next' = next + 1
    /\ UNCHANGED <<tx, rx, window, wire, accepted>>

\* The index is made with the tracker's counter after its update.
protect_rtp(n) ==
    /\ n \in owed /\ Cardinality(wire) < InFlight
    /\ tx' = update(tx, n % SeqSpace)
    /\ wire' = wire \cup {[seq |-> n % SeqSpace, index |-> Index(tx'.roc, n % SeqSpace)]}
    /\ owed' = owed \ {n}
    /\ UNCHANGED <<rx, window, next, accepted>>

\* Mutant: the newest packet's counter is taken for every packet.
RxIndex_roc(p) == Index(rx.roc, p.seq)

RxIndex(p) == Index(IF window.seen THEN get_roc(rx, p.seq) ELSE 0, p.seq)

Accepts(p) ==
    /\ ~(window.seen /\ check(window, RxIndex(p)))
    /\ RxIndex(p) = p.index

\* A copy stays in the network: it may come again.
unprotect_rtp(p) ==
    /\ p \in wire /\ Accepts(p)
    /\ window' = [mark(window, p.index) EXCEPT !.seen = TRUE]
    /\ rx' = update(rx, p.seq)
    /\ accepted' = accepted \cup {p.index}
    /\ UNCHANGED <<tx, next, owed, wire>>

Refuse(p) ==
    /\ p \in wire /\ ~Accepts(p)
    /\ UNCHANGED srtpVars

Lose(p) ==
    /\ p \in wire
    /\ wire' = wire \ {p}
    /\ UNCHANGED <<tx, rx, window, next, owed, accepted>>

SrtpNext ==
    \/ Source
    \/ \E n \in owed : protect_rtp(n)
    \/ \E p \in wire : unprotect_rtp(p) \/ Refuse(p) \/ Lose(p)

SrtpSpec == SrtpInit /\ [][SrtpNext]_srtpVars

-----------------------------------------------------------------------------
(* Properties *)

\* No packet is taken twice, however and whenever its copies arrive: what the
\* window has forgotten is too old for it (ReplayWindow, the updates of
\* unprotect_rtp).
NeverTwice == \A p \in wire : p.index \in accepted => ~Accepts(p)

\* A packet that is not older than the window and not half a cycle away from
\* the newest one accepted is not mistaken for another: what was lost or came
\* out of order, across the rollover too, does not cost the packets that arrive
\* (get_roc, update, check).
Close(p) ==
    /\ window.seen /\ p.index \notin accepted
    /\ p.index - window.hi < Half /\ window.hi - p.index < Half
    /\ window.hi - p.index < WindowSize

ArrivalsAccepted == \A p \in wire : Close(p) => Accepts(p)

\* "Implements RFC 3711 Section 3.3.1 index determination" (update): the index
\* a packet is protected with is its place in the stream, so the receiver's
\* estimate can find it.
IndexIsPlace == \A p \in wire : p.index \in {n \in 0 .. next : n % SeqSpace = p.seq}
=============================================================================
