---------------------------- MODULE JitterBuffer ----------------------------
(***************************************************************************)
(* The jitter buffer of an RTP stream (crates/forge-rtp/src/jitter.rs):    *)
(* packets that are lost, late, repeated or out of order, kept in a map    *)
(* ordered by the 16-bit sequence number and played in turn.               *)
(*                                                                         *)
(* A packet's place is its number in the sender's stream, of which the     *)
(* buffer sees the sequence number only; places serve the properties.      *)
(* Ages are counted in ticks and stop growing where no comparison tells    *)
(* them apart.                                                             *)
(***************************************************************************)
EXTENDS Integers, FiniteSets, FiniteSetsExt

CONSTANTS SeqCount,      \* sequence numbers, 2^16 in the code
          MaxBuffer,     \* MAX_BUFFER_SIZE
          GapLimit,      \* the gap given up at once, 10 in the code
          TargetDelay,
          Ahead, Behind, \* how far from its turn a packet may arrive
          LastPlace      \* bound: the stream's last packet

\* No packet is half the sequence numbers early or late.
ASSUME JitterAssumption ==
    /\ {SeqCount, MaxBuffer, GapLimit, TargetDelay, Ahead, Behind, LastPlace} \subseteq Nat
    /\ SeqCount > 1 /\ Ahead < (SeqCount - 1) \div 2 /\ Behind <= SeqCount \div 2

Seqs == 0 .. SeqCount - 1
NoSeq == -1
MaxDelay == 3 * TargetDelay

VARIABLES packets,   \* JitterBuffer.packets: held sequence number -> packet
          next_seq,  \* and base_time, which is set and cleared with it
          turn,      \* the place next_seq stands for
          played       \* the place played last, or NoSeq

jitterVars == <<packets, next_seq, turn, played>>

JitterInit == packets = [s \in {} |-> 0] /\ next_seq = NoSeq /\ turn = Behind /\ played = NoSeq

wrapping_sub(a, b) == (a - b) % SeqCount

is_sequence_newer(a, b) == wrapping_sub(a, b) < (SeqCount - 1) \div 2

sequence_distance(from, to) == wrapping_sub(to, from)

\* BTreeMap::pop_first and iter().next(): the numerically least key.
First(kept) == Min(DOMAIN kept)

Without(kept, s) == [t \in DOMAIN kept \ {s} |-> kept[t]]

\* The packet at place n arrives.
push(n) ==
    LET s == n % SeqCount
        expected == IF next_seq = NoSeq THEN n ELSE turn
        added == [t \in DOMAIN packets \cup {s} |->
                     IF t = s THEN [place |-> n, age |-> 0, timely |-> n >= expected] ELSE packets[t]]
    IN  /\ n \in turn - Behind .. turn + Ahead /\ n <= LastPlace
        /\ s \notin DOMAIN packets
        /\ turn' = expected
        /\ next_seq' = expected % SeqCount
        /\ packets' = IF Cardinality(DOMAIN added) > MaxBuffer
                        THEN Without(added, First(added)) ELSE added
        /\ UNCHANGED played

\* What is left of the packets once the late ones are dropped.
drop_stale(kept) ==
    [s \in {t \in DOMAIN kept : t = next_seq \/ is_sequence_newer(t, next_seq)} |-> kept[s]]

\* The loop jumps to the first packet it holds.
Skipped_to_first(kept) ==
    IF DOMAIN kept # {} /\ next_seq \notin DOMAIN kept
         /\ (sequence_distance(next_seq, First(kept)) > GapLimit \/ kept[First(kept)].age > MaxDelay)
      THEN sequence_distance(next_seq, First(kept)) ELSE 0

\* How many missing packets the loop gives up: up to a held one, or until what
\* is held is neither far enough ahead nor old enough.
Skipped(kept) ==
    Min({k \in 0 .. SeqCount - 1 :
            LET s == (next_seq + k) % SeqCount
            IN  \/ s \in DOMAIN kept
                \/ DOMAIN kept = {}
                \/ /\ sequence_distance(s, First(kept)) <= GapLimit
                   /\ kept[First(kept)].age <= MaxDelay})

pop ==
    LET kept == drop_stale(packets)
        k == Skipped(kept)
        s == (next_seq + k) % SeqCount
        plays == s \in DOMAIN kept /\ kept[s].age >= TargetDelay
        passed == IF plays THEN k + 1 ELSE k
    IN  /\ next_seq # NoSeq
        /\ packets' = IF plays THEN Without(kept, s) ELSE kept
        /\ next_seq' = (next_seq + passed) % SeqCount
        /\ turn' = turn + passed
        /\ played' = IF plays THEN kept[s].place ELSE played

clear ==
    /\ next_seq # NoSeq
    /\ packets' = [s \in {} |-> 0] /\ next_seq' = NoSeq /\ played' = NoSeq
    /\ UNCHANGED turn

Wait ==
    /\ \E s \in DOMAIN packets : packets[s].age <= MaxDelay
    /\ packets' = [s \in DOMAIN packets |->
                      [packets[s] EXCEPT !.age = IF @ > MaxDelay THEN @ ELSE @ + 1]]
    /\ UNCHANGED <<next_seq, turn, played>>

JitterNext == (\E n \in 0 .. LastPlace : push(n)) \/ pop \/ clear \/ Wait

JitterSpec == JitterInit /\ [][JitterNext]_jitterVars

-----------------------------------------------------------------------------
\* Packets are played in the order they were sent, whatever arrives late,
\* twice or out of order and wherever the sequence numbers wrap, and none is
\* played while an earlier one that came in time is held: the loop that gives
\* up missing packets never passes it (jitter.rs:114, :132, :169).
PlayedInTurn ==
    [][played' \notin {played, NoSeq} =>
         /\ played' > played
         /\ \A s \in DOMAIN packets : packets[s].timely => packets[s].place >= played']_jitterVars

\* When the buffer overflows it is the oldest packet that is dropped
\* (jitter.rs:101 "Drop oldest packet").
OldestDropped ==
    [][next_seq' = next_seq /\ next_seq # NoSeq /\ (DOMAIN packets' \ DOMAIN packets # {}) =>
         \A s \in DOMAIN packets \ DOMAIN packets', t \in DOMAIN packets' :
            packets[s].place < packets'[t].place]_jitterVars
=============================================================================
