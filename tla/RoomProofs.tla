----------------------------- MODULE RoomProofs -----------------------------
(***************************************************************************)
(* Proofs about the audio conference (Conference), for any callers,        *)
(* moderators and capacities, when its requests come one after another     *)
(* (~Overlap), and about what its participants send on its way in: their   *)
(* video (VideoSource), for any frames, network and limits, and the jitter *)
(* buffer (JitterBuffer), for any delays, limits and sequence numbers; and *)
(* about who shares a screen (VideoFloor), for any presenters, when its    *)
(* operations come one after another (~Racing).                            *)
(***************************************************************************)
EXTENDS Conference, VideoFloor, VideoSource, JitterBuffer, FiniteSetTheorems, SequenceTheorems, WellFoundedInduction, TLAPS

(* A room by itself.  Its hosts are mixed, and so the last of them to go   *)
(* is seen going; the sounds are always let in.                            *)
RoomOK(r) ==
    /\ {"mixer", "waiting", "hosts", "video", "letIn"} \subseteq DOMAIN r
    /\ IsFiniteSet(r.mixer) /\ IsFiniteSet(r.waiting)
    /\ r.hosts \subseteq r.mixer
    /\ Feedback \notin r.waiting /\ (Feedback \in r.mixer => Feedback \in r.letIn)
    /\ conf.wfm /\ r.hosts = {} => r.mixer \subseteq r.letIn

Seats(r) == Cardinality(r.mixer) + Cardinality(r.waiting)

(* What the check of a request that is under way has found still holds. *)
StillTrue(q) ==
    /\ {"who", "host", "does"} \subseteq DOMAIN q
    /\ q.does = "enter" => /\ q.who \in Callers
                           /\ q.host \/ ~(conf.wfm /\ room.hosts = {})
                           /\ conf.max > 0 => Seats(room) < conf.max
    /\ q.does = "lobby" => q.who \in Callers
    /\ q.does = "promote" => q.who \in room.mixer

RoomInv ==
    /\ {"done", "wfm", "max", "locked"} \subseteq DOMAIN conf /\ conf.max \in Nat
    /\ RoomOK(room)
    /\ \A q, r \in pending : q = r
    /\ \A q \in pending : StillTrue(q)
    /\ CapacityKept

(* Everyone who was mixed, everyone who waited and one more have seats. *)
LEMMA SeatsSuffice ==
  ASSUME NEW A, NEW B, NEW p, NEW n \in Nat, IsFiniteSet(A), IsFiniteSet(B),
         Cardinality(A) + Cardinality(B) < n, NEW C, C \subseteq A \union B \union {p}
  PROVE  IsFiniteSet(C) /\ Cardinality(C) <= n
<1>1. IsFiniteSet(A \union B) /\ Cardinality(A \union B) <= Cardinality(A) + Cardinality(B)
  <2>1. /\ IsFiniteSet(A \union B) /\ IsFiniteSet(A \intersect B)
        /\ Cardinality(A \union B) = Cardinality(A) + Cardinality(B) - Cardinality(A \intersect B)
    BY FS_Union, FS_Intersection
  <2>2. Cardinality(A \intersect B) \in Nat /\ Cardinality(A) \in Nat /\ Cardinality(B) \in Nat
    BY <2>1, FS_CardinalityType
  <2> QED
    BY <2>1, <2>2
<1>2. PICK U : U = A \union B
  OBVIOUS
<1>3. /\ IsFiniteSet(U \union {p})
      /\ Cardinality(U \union {p}) = IF p \in U THEN Cardinality(U) ELSE Cardinality(U) + 1
  BY <1>1, <1>2, FS_AddElement
<1>4. IsFiniteSet(C) /\ Cardinality(C) <= Cardinality(U \union {p})
  BY <1>2, <1>3, FS_Subset
<1>5. {Cardinality(A), Cardinality(B), Cardinality(U), Cardinality(C)} \subseteq Nat
  BY <1>1, <1>2, <1>4, FS_CardinalityType
<1> QED
  BY <1>1, <1>2, <1>3, <1>4, <1>5

(* A room in which nobody was added beside the lobby's and capacity's rules. *)
LEMMA NoMoreSeats ==
  ASSUME NEW A, IsFiniteSet(A), NEW B, B \subseteq A
  PROVE  IsFiniteSet(B) /\ Cardinality(B) <= Cardinality(A)
BY FS_Subset

LEMMA EnteredGood ==
  ASSUME RoomInv, NEW p \in Callers, NEW host \in BOOLEAN, conf.max > 0 => Seats(room) < conf.max,
         NEW letIn, letIn = room.letIn \/ letIn = room.letIn \union {p},
         host \/ ~(conf.wfm /\ room.hosts = {}) \/ p \in letIn
  PROVE  LET r == [Entered(p, host) EXCEPT !.letIn = letIn]
         IN  RoomOK(r) /\ r.letIn = letIn /\ (conf.max > 0 => Cardinality(r.mixer) <= conf.max)
<1> DEFINE r == [Entered(p, host) EXCEPT !.letIn = letIn]
           more == IF host THEN room.waiting ELSE {}
<1>1. /\ {"mixer", "waiting", "hosts", "video", "letIn"} \subseteq DOMAIN r
      /\ r.mixer = room.mixer \union more \union {p}
      /\ r.waiting = (IF host THEN {} ELSE room.waiting)
      /\ r.hosts = room.hosts \union (IF host THEN {p} ELSE {})
      /\ r.letIn = letIn
  BY DEF Entered, add_participant_inner, release_waiting_participants, RoomInv, RoomOK
<1> HIDE DEF r
<1>2. p # Feedback
  BY ConferenceAssumption
<1>3. IsFiniteSet(r.mixer) /\ IsFiniteSet(r.waiting)
  <2>1. IsFiniteSet(room.mixer) /\ IsFiniteSet(room.waiting) /\ IsFiniteSet({})
    BY FS_EmptySet DEF RoomInv, RoomOK
  <2>2. IsFiniteSet(more)
    BY <2>1
  <2>3. PICK U : U = room.mixer \union more
    OBVIOUS
  <2>4. IsFiniteSet(U)
    BY <2>1, <2>2, <2>3, FS_Union
  <2>5. IsFiniteSet(U \union {p})
    BY <2>4, FS_AddElement
  <2> QED
    BY <1>1, <2>1, <2>3, <2>5
<1>4. conf.max > 0 => Cardinality(r.mixer) <= conf.max
  BY <1>1, SeatsSuffice DEF RoomInv, RoomOK, Seats
<1>5. r.hosts \subseteq r.mixer /\ (r.hosts = {} => room.hosts = {} /\ ~host)
  BY <1>1 DEF RoomInv, RoomOK
<1>6. Feedback \notin r.waiting /\ (Feedback \in r.mixer => Feedback \in r.letIn)
  BY <1>1, <1>2 DEF RoomInv, RoomOK
<1>7. conf.wfm /\ r.hosts = {} => r.mixer \subseteq letIn
  BY <1>1, <1>5 DEF RoomInv, RoomOK
<1> QED
  BY <1>1, <1>3, <1>4, <1>5, <1>6, <1>7 DEF r, RoomOK

(* One who leaves: nobody else is let in, and with the last host go all    *)
(* guests.                                                                 *)
LEMMA RemovedGood ==
  ASSUME RoomInv, NEW p
  PROVE  LET l == Removed(room, p).left
         IN  RoomOK(l) /\ l.mixer \ l.letIn \subseteq room.mixer \ room.letIn
<1> DEFINE l == Removed(room, p).left
           gone == [room EXCEPT !.hosts = @ \ {p}, !.waiting = @ \ {p}, !.letIn = @ \ {p}]
           out == [gone EXCEPT !.mixer = @ \ {p}, !.video = @ \ {p}]
<1>0. RoomOK(room)
  BY DEF RoomInv
<1>1. /\ {"mixer", "waiting", "hosts", "video", "letIn"} \subseteq DOMAIN gone
      /\ gone.mixer = room.mixer /\ gone.waiting = room.waiting \ {p}
      /\ gone.hosts = room.hosts \ {p} /\ gone.letIn = room.letIn \ {p}
  BY <1>0 DEF RoomOK
<1>2. /\ {"mixer", "waiting", "hosts", "video", "letIn"} \subseteq DOMAIN out
      /\ out.mixer = room.mixer \ {p} /\ out.waiting = room.waiting \ {p}
      /\ out.hosts = room.hosts \ {p} /\ out.letIn = room.letIn \ {p}
  BY <1>0 DEF RoomOK
<1>3. IsFiniteSet(room.mixer \ {p}) /\ IsFiniteSet(room.waiting \ {p})
  BY <1>0, FS_Subset DEF RoomOK
<1>4. CASE p \notin room.mixer
  <2>1. l = gone
    BY <1>4 DEF Removed
  <2> HIDE DEF l, gone
  <2> QED
    BY <1>0, <1>1, <1>3, <1>4, <2>1 DEF RoomOK, l
<1>5. CASE p \in room.mixer /\ p \in room.hosts /\ gone.hosts = {} /\ conf.wfm
  <2>1. l = move_participants_to_waiting(out)
    BY <1>5 DEF Removed
  <2> HIDE DEF l, gone, out
  <2>2. /\ {"mixer", "waiting", "hosts", "video", "letIn"} \subseteq DOMAIN l
        /\ l.mixer = out.mixer \intersect {Feedback} /\ l.letIn = out.letIn \intersect {Feedback}
        /\ l.waiting = out.waiting \union (out.mixer \ {Feedback}) /\ l.hosts = out.hosts
    BY <1>2, <2>1 DEF move_participants_to_waiting
  <2>3. IsFiniteSet(l.mixer) /\ IsFiniteSet(l.waiting)
    <3>1. IsFiniteSet(out.mixer \ {Feedback}) /\ IsFiniteSet(out.mixer \intersect {Feedback})
      BY <1>2, <1>3, FS_Subset
    <3>2. PICK B : B = out.mixer \ {Feedback}
      OBVIOUS
    <3>3. IsFiniteSet(out.waiting \union B)
      BY <1>2, <1>3, <3>1, <3>2, FS_Union
    <3> QED
      BY <2>2, <3>1, <3>2, <3>3
  <2>4. l.hosts = {} /\ l.mixer \subseteq l.letIn
    BY <1>0, <1>1, <1>2, <1>5, <2>2 DEF RoomOK
  <2> QED
    BY <1>0, <1>1, <1>2, <2>2, <2>3, <2>4 DEF RoomOK, l
<1>6. CASE p \in room.mixer /\ ~(p \in room.hosts /\ gone.hosts = {} /\ conf.wfm)
  <2>1. l = out
    BY <1>6 DEF Removed
  <2> HIDE DEF l, gone, out
  <2>2. conf.wfm /\ out.hosts = {} => room.hosts = {}
    BY <1>1, <1>2, <1>6
  <2> QED
    BY <1>0, <1>1, <1>2, <1>3, <2>1, <2>2 DEF RoomOK, l
<1> QED
  BY <1>4, <1>5, <1>6

(* The seats of a room that some left, or were let in past the rules. *)
LEMMA CapacityStays ==
  ASSUME RoomInv, room'.mixer \ room'.letIn \subseteq room.mixer \ room.letIn, conf'.max = conf.max
  PROVE  CapacityKept'
<1>1. IsFiniteSet(room.mixer \ room.letIn)
  BY FS_Subset DEF RoomInv, RoomOK
<1>2. PICK A : A = room.mixer \ room.letIn
  OBVIOUS
<1>3. PICK B : B = room'.mixer \ room'.letIn
  OBVIOUS
<1>4. Cardinality(B) <= Cardinality(A) /\ Cardinality(A) \in Nat /\ Cardinality(B) \in Nat
  BY <1>1, <1>2, <1>3, FS_Subset, FS_CardinalityType
<1> QED
  BY <1>2, <1>3, <1>4 DEF RoomInv, CapacityKept

(* A step while nothing else is under way, or the last of what is. *)
LEMMA QuietStep ==
  ASSUME RoomInv, pending' = {}, RoomOK(room)', CapacityKept',
         {"done", "wfm", "max", "locked"} \subseteq DOMAIN conf', conf'.max \in Nat
  PROVE  RoomInv'
BY DEF RoomInv

(* A step that makes or keeps one request under way. *)
LEMMA OneUnderWay ==
  ASSUME RoomInv, NEW q, pending' = {q}, StillTrue(q)', RoomOK(room)', CapacityKept', UNCHANGED conf
  PROVE  RoomInv'
BY DEF RoomInv

LEMMA SameRoom ==
  ASSUME RoomInv, UNCHANGED <<room, conf>>
  PROVE  RoomOK(room)' /\ CapacityKept'
BY DEF RoomInv, RoomOK, CapacityKept

LEMMA ConfigureKeeps ==
  ASSUME ~Overlap, RoomInv, NEW wfm, NEW max \in Capacities, NEW lck, NEW sounds \in BOOLEAN,
         configure(wfm, max, lck, sounds)
  PROVE  RoomInv'
<1> DEFINE m == room.mixer \union (IF sounds THEN {Feedback} ELSE {})
<1>1. /\ room'.mixer = m /\ room'.letIn = m /\ room'.waiting = room.waiting
      /\ room'.hosts = room.hosts /\ {"mixer", "waiting", "hosts", "video", "letIn"} \subseteq DOMAIN room'
      /\ pending' = {}
  BY DEF configure, Alone, RoomInv, RoomOK
<1>2. conf'.max \in Nat /\ {"done", "wfm", "max", "locked"} \subseteq DOMAIN conf'
  BY ConferenceAssumption DEF configure
<1>3. IsFiniteSet(m)
  <2>1. IsFiniteSet(room.mixer)
    BY DEF RoomInv, RoomOK
  <2>2. IsFiniteSet(room.mixer \union {Feedback})
    BY <2>1, FS_AddElement
  <2> QED
    BY <2>1, <2>2
<1>4. room'.mixer \ room'.letIn = {}
  BY <1>1
<1>5. CapacityKept'
  BY <1>2, <1>4, FS_EmptySet DEF CapacityKept
<1>6. RoomOK(room)'
  <2> HIDE DEF m
  <2>1. room.hosts \subseteq m
    BY DEF m, RoomInv, RoomOK
  <2> QED
    BY <1>1, <1>3, <2>1 DEF RoomInv, RoomOK
<1> QED
  BY <1>1, <1>2, <1>5, <1>6, QuietStep

LEMMA VideoKeeps ==
  ASSUME ~Overlap, RoomInv, enable_video \/ disable_video
  PROVE  RoomInv'
<1>1. /\ room'.mixer = room.mixer /\ room'.letIn = room.letIn /\ room'.waiting = room.waiting
      /\ room'.hosts = room.hosts /\ {"mixer", "waiting", "hosts", "video", "letIn"} \subseteq DOMAIN room'
      /\ pending' = {} /\ conf' = conf
  BY DEF enable_video, disable_video, Alone, RoomInv, RoomOK
<1>2. RoomOK(room)' /\ CapacityKept'
  BY <1>1 DEF RoomInv, RoomOK, CapacityKept
<1> QED
  BY <1>1, <1>2, QuietStep DEF RoomInv

LEMMA AddKeeps ==
  ASSUME ~Overlap, RoomInv, NEW p \in Callers, add_participant(p)
  PROVE  RoomInv'
<1> DEFINE host == p \in Moderators
<1>0. PICK q : q = [who |-> p, host |-> host, does |-> Admission(host)]
  OBVIOUS
<1>1. pending' = {q} /\ UNCHANGED <<room, conf>> /\ Admission(host) # "refused"
  BY <1>0 DEF add_participant, Alone
<1>2. {Cardinality(room.mixer), Cardinality(room.waiting)} \subseteq Nat /\ conf.max \in Nat
  BY FS_CardinalityType DEF RoomInv, RoomOK
<1>3. Admission(host) = "enter" => /\ host \/ ~(conf.wfm /\ room.hosts = {})
                                   /\ conf.max > 0 => Seats(room) < conf.max
  BY <1>2 DEF Admission, is_at_capacity, Seats
<1>4. Admission(host) \in {"refused", "lobby", "enter"}
  BY DEF Admission
<1>5. StillTrue(q)
  BY <1>0, <1>1, <1>3, <1>4 DEF StillTrue
<1>6. StillTrue(q)'
  BY <1>1, <1>5 DEF StillTrue, Seats
<1> QED
  BY <1>1, <1>6, SameRoom, OneUnderWay

(* Who has come in has a seat. *)
LEMMA Seated ==
  ASSUME RoomInv, pending' = {}, UNCHANGED conf, RoomOK(room'),
         conf.max > 0 => Cardinality(room'.mixer) <= conf.max
  PROVE  RoomInv'
<1>1. RoomOK(room)'
  BY DEF RoomOK
<1>2. CapacityKept'
  <2> SUFFICES ASSUME conf.max > 0 PROVE Cardinality(room'.mixer \ room'.letIn) <= conf.max
    BY DEF CapacityKept
  <2>1. Cardinality(room'.mixer \ room'.letIn) <= Cardinality(room'.mixer)
        /\ IsFiniteSet(room'.mixer \ room'.letIn) /\ IsFiniteSet(room'.mixer)
    BY FS_Subset DEF RoomOK
  <2>2. {Cardinality(room'.mixer \ room'.letIn), Cardinality(room'.mixer), conf.max} \subseteq Nat
    BY <2>1, FS_CardinalityType DEF RoomInv
  <2> QED
    BY <2>1, <2>2
<1> QED
  BY <1>1, <1>2, QuietStep DEF RoomInv

LEMMA EnterKeeps ==
  ASSUME ~Overlap, RoomInv, NEW q \in pending, Enter(q)
  PROVE  RoomInv'
<1>1. pending' = {} /\ UNCHANGED conf /\ StillTrue(q) /\ RoomOK(room)
  BY DEF Enter, RoomInv
<1>2. CASE q.does = "lobby"
  <2>1. /\ room'.mixer = room.mixer /\ room'.letIn = room.letIn
        /\ room'.waiting = room.waiting \union {q.who}
        /\ room'.hosts = room.hosts /\ {"mixer", "waiting", "hosts", "video", "letIn"} \subseteq DOMAIN room'
    BY <1>1, <1>2 DEF Enter, RoomOK
  <2>2. IsFiniteSet(room.waiting \union {q.who}) /\ q.who # Feedback
    BY <1>1, <1>2, FS_AddElement, ConferenceAssumption DEF RoomOK, StillTrue
  <2>3. RoomOK(room)' /\ CapacityKept'
    BY <1>1, <2>1, <2>2 DEF RoomInv, RoomOK, CapacityKept
  <2> QED
    BY <1>1, <2>3, QuietStep DEF RoomInv
<1>3. CASE q.does = "enter"
  <2>1. PICK host \in BOOLEAN : host <=> q.host
    OBVIOUS
  <2>2. room' = Entered(q.who, q.host)
    BY <1>3 DEF Enter
  <2>3. Entered(q.who, q.host) = Entered(q.who, host)
    BY <2>1 DEF Entered
  <2>4. PICK letIn : letIn = room.letIn
    OBVIOUS
  <2>5. room' = [Entered(q.who, host) EXCEPT !.letIn = letIn]
    BY <1>1, <2>2, <2>3, <2>4 DEF Entered, add_participant_inner, release_waiting_participants, RoomOK
  <2>6. RoomOK(room') /\ (conf.max > 0 => Cardinality(room'.mixer) <= conf.max)
    BY <1>1, <1>3, <2>1, <2>4, <2>5, EnteredGood DEF StillTrue
  <2> QED
    BY <1>1, <2>6, Seated
<1> QED
  BY <1>2, <1>3 DEF Enter

LEMMA AdmittedKeeps ==
  ASSUME ~Overlap, RoomInv, NEW p \in Callers, NEW host \in BOOLEAN, add_participant_admitted(p, host)
  PROVE  RoomInv'
<1>1. /\ ~is_at_capacity /\ pending' = {} /\ UNCHANGED conf
      /\ room' = [Entered(p, host) EXCEPT !.letIn = @ \union {p}]
  BY DEF add_participant_admitted, Alone
<1>2. PICK letIn : letIn = room.letIn \union {p}
  OBVIOUS
<1>3. room' = [Entered(p, host) EXCEPT !.letIn = letIn]
  BY <1>1, <1>2 DEF Entered, add_participant_inner, release_waiting_participants, RoomInv, RoomOK
<1>4. {Cardinality(room.mixer), Cardinality(room.waiting)} \subseteq Nat /\ conf.max \in Nat
  BY FS_CardinalityType DEF RoomInv, RoomOK
<1>5. conf.max > 0 => Seats(room) < conf.max
  BY <1>1, <1>4 DEF is_at_capacity, Seats
<1>6. RoomOK(room') /\ (conf.max > 0 => Cardinality(room'.mixer) <= conf.max)
  BY <1>2, <1>3, <1>5, EnteredGood
<1> QED
  BY <1>1, <1>6, Seated

(* Those let in past the rules: a trunk, and who waited for an             *)
(* administrator.                                                          *)
LEMMA LetInKeeps ==
  ASSUME ~Overlap, RoomInv,
         add_virtual_participant \/ admit_all_waiting \/ \E p : admit_waiting_participant(p)
  PROVE  RoomInv'
<1>1. PICK S : /\ IsFiniteSet(S) /\ S \subseteq room.waiting \union {Trunk}
               /\ room'.mixer = room.mixer \union S /\ room'.letIn = room.letIn \union S
               /\ room'.waiting \subseteq room.waiting /\ room'.hosts = room.hosts
               /\ {"mixer", "waiting", "hosts", "video", "letIn"} \subseteq DOMAIN room'
  <2>0. RoomOK(room) /\ IsFiniteSet(room.waiting) /\ IsFiniteSet({Trunk})
        /\ \A p : IsFiniteSet({p})
    BY FS_Singleton DEF RoomInv, RoomOK
  <2>1. CASE add_virtual_participant
    BY <2>0, <2>1 DEF add_virtual_participant, RoomOK
  <2>2. CASE admit_all_waiting
    BY <2>0, <2>2 DEF admit_all_waiting, release_waiting_participants, RoomOK
  <2>3. CASE \E p : admit_waiting_participant(p)
    <3>1. PICK p : admit_waiting_participant(p)
      BY <2>3
    <3>2. PICK S : S = {p}
      OBVIOUS
    <3>3. /\ p \in room.waiting
          /\ room' = [room EXCEPT !.waiting = @ \ {p}, !.mixer = @ \union {p}, !.letIn = @ \union {p}]
      BY <3>1 DEF admit_waiting_participant
    <3>4. /\ IsFiniteSet(S) /\ S \subseteq room.waiting \union {Trunk}
          /\ room'.mixer = room.mixer \union S /\ room'.letIn = room.letIn \union S
          /\ room'.waiting \subseteq room.waiting /\ room'.hosts = room.hosts
          /\ {"mixer", "waiting", "hosts", "video", "letIn"} \subseteq DOMAIN room'
      BY <2>0, <3>2, <3>3 DEF RoomOK
    <3> QED
      BY <3>4
  <2> QED
    BY <2>1, <2>2, <2>3
<1>2. pending' = {} /\ UNCHANGED conf
  BY DEF add_virtual_participant, admit_all_waiting, admit_waiting_participant, Alone
<1>3. CapacityKept'
  BY <1>1, <1>2, CapacityStays
<1>4. IsFiniteSet(room'.mixer) /\ IsFiniteSet(room'.waiting)
  BY <1>1, FS_Union, FS_Subset DEF RoomInv, RoomOK
<1>5. RoomOK(room)'
  BY <1>1, <1>2, <1>4 DEF RoomInv, RoomOK
<1> QED
  BY <1>2, <1>3, <1>5, QuietStep DEF RoomInv

LEMMA HostKeeps ==
  ASSUME ~Overlap, RoomInv
  PROVE  /\ \A p \in Callers : promote_to_host(p) => RoomInv'
         /\ \A q \in pending : Promote(q) => RoomInv'
<1>1. ASSUME NEW p \in Callers, promote_to_host(p) PROVE RoomInv'
  <2>1. PICK q : q = [who |-> p, host |-> TRUE, does |-> "promote"]
    OBVIOUS
  <2>2. pending' = {q} /\ UNCHANGED <<room, conf>> /\ p \in room.mixer
    BY <1>1, <2>1 DEF promote_to_host, Alone
  <2>3. StillTrue(q)'
    BY <2>1, <2>2 DEF StillTrue
  <2> QED
    BY <2>2, <2>3, SameRoom, OneUnderWay
<1>2. ASSUME NEW q \in pending, Promote(q) PROVE RoomInv'
  <2>1. /\ room'.mixer = room.mixer /\ room'.letIn = room.letIn /\ room'.waiting = room.waiting
        /\ room'.hosts = room.hosts \union {q.who} /\ pending' = {} /\ conf' = conf
        /\ {"mixer", "waiting", "hosts", "video", "letIn"} \subseteq DOMAIN room'
    BY <1>2 DEF Promote, RoomInv, RoomOK
  <2>2. q.who \in room.mixer
    BY <1>2 DEF Promote, RoomInv, StillTrue
  <2>3. RoomOK(room)' /\ CapacityKept'
    BY <2>1, <2>2 DEF RoomInv, RoomOK, CapacityKept
  <2> QED
    BY <2>1, <2>3, QuietStep DEF RoomInv
<1> QED
  BY <1>1, <1>2

(* Whoever is removed, by a request of its own or by the end of the        *)
(* conference.                                                             *)
LEMMA RemoveKeeps ==
  ASSUME RoomInv, NEW p, room' = Removed(room, p).left, UNCHANGED conf
  PROVE  RoomOK(room)' /\ CapacityKept'
<1>1. RoomOK(room') /\ room'.mixer \ room'.letIn \subseteq room.mixer \ room.letIn
  BY RemovedGood
<1> QED
  BY <1>1, CapacityStays DEF RoomOK

LEMMA EndKeeps ==
  ASSUME ~Overlap, RoomInv
  PROVE  /\ EndConference => RoomInv'
         /\ \A q \in pending : \A p : q.does = "end" /\ EndNext(q, p) => RoomInv'
<1>1. ASSUME EndConference PROVE RoomInv'
  <2>1. PICK q : q = [who |-> room.mixer, host |-> TRUE, does |-> "end"]
    OBVIOUS
  <2>2. pending' = {q} /\ UNCHANGED <<room, conf>>
    BY <1>1, <2>1 DEF EndConference, Alone
  <2>3. StillTrue(q)'
    BY <2>1 DEF StillTrue
  <2> QED
    BY <2>2, <2>3, SameRoom, OneUnderWay
<1>2. ASSUME NEW q \in pending, NEW p, q.does = "end", EndNext(q, p) PROVE RoomInv'
  <2>1. PICK r : r = [q EXCEPT !.who = @ \ {p}]
    OBVIOUS
  <2>2. pending' = {} \/ pending' = {r}
    BY <1>2, <2>1 DEF EndNext, RoomInv
  <2>3. {"who", "host", "does"} \subseteq DOMAIN q
    BY DEF RoomInv, StillTrue
  <2>4. StillTrue(r)'
    BY <1>2, <2>1, <2>3 DEF StillTrue
  <2>5. RoomOK(room)' /\ CapacityKept' /\ UNCHANGED conf
    BY <1>2, RemoveKeeps DEF EndNext
  <2> QED
    BY <2>2, <2>4, <2>5, QuietStep, OneUnderWay DEF RoomInv
<1> QED
  BY <1>1, <1>2

LEMMA RoomStep ==
  ASSUME ~Overlap, RoomInv, [RoomNext]_roomVars
  PROVE  RoomInv'
<1>1. CASE UNCHANGED roomVars
  BY <1>1 DEF roomVars, RoomInv, RoomOK, StillTrue, Seats, CapacityKept
<1>2. ASSUME NEW wfm \in BOOLEAN, NEW lck \in BOOLEAN, NEW sounds \in BOOLEAN, NEW max \in Capacities,
             configure(wfm, max, lck, sounds)
      PROVE  RoomInv'
  BY <1>2, ConfigureKeeps
<1>3. ASSUME NEW p \in Callers, add_participant_admitted(p, p \in Moderators) PROVE RoomInv'
  <2>1. PICK host \in BOOLEAN : host <=> p \in Moderators
    OBVIOUS
  <2>2. Entered(p, p \in Moderators) = Entered(p, host)
    BY <2>1 DEF Entered
  <2>3. add_participant_admitted(p, host)
    BY <1>3, <2>2 DEF add_participant_admitted
  <2> QED
    BY <2>3, AdmittedKeeps
<1>4. ASSUME NEW p \in Present, remove_participant(p) PROVE RoomInv'
  <2>1. pending' = {} /\ UNCHANGED conf /\ room' = Removed(room, p).left
    BY <1>4 DEF remove_participant, Alone
  <2> QED
    BY <2>1, RemoveKeeps, QuietStep DEF RoomInv
<1>5. ASSUME lock \/ unlock PROVE RoomInv'
  <2>1. /\ pending' = {} /\ room' = room /\ conf'.max = conf.max /\ conf'.wfm = conf.wfm
        /\ {"done", "wfm", "max", "locked"} \subseteq DOMAIN conf'
    BY <1>5 DEF lock, unlock, Alone, RoomInv
  <2>2. RoomOK(room)' /\ CapacityKept'
    BY <2>1 DEF RoomInv, RoomOK, CapacityKept
  <2> QED
    BY <2>1, <2>2, QuietStep DEF RoomInv
<1> QED
  BY <1>1, <1>2, <1>3, <1>4, <1>5, VideoKeeps, AddKeeps, EnterKeeps, LetInKeeps, HostKeeps, EndKeeps
     DEF RoomNext

LEMMA RoomStart == RoomInit => RoomInv
<1> SUFFICES ASSUME RoomInit PROVE RoomInv
  OBVIOUS
<1>1. RoomOK(room)
  BY FS_EmptySet DEF RoomInit, RoomOK
<1>2. CapacityKept
  BY DEF RoomInit, CapacityKept
<1> QED
  BY <1>1, <1>2 DEF RoomInit, RoomInv

LEMMA RoomAlways == ~Overlap /\ RoomSpec => []RoomInv
<1> SUFFICES ASSUME ~Overlap PROVE RoomSpec => []RoomInv
  OBVIOUS
<1>1. RoomInv /\ [RoomNext]_roomVars => RoomInv'
  BY RoomStep
<1> QED
  BY <1>1, RoomStart, PTL DEF RoomSpec

(* While a room waits for its moderator, nobody is mixed whom neither an   *)
(* administrator, a migration nor an earlier configuration let in, however *)
(* hosts come, are promoted, leave and are removed (add_participant's      *)
(* lobby check and move_participants_to_waiting).                          *)
THEOREM GuestsAlwaysModerated == ~Overlap /\ RoomSpec => []GuestsModerated
<1>1. RoomInv => GuestsModerated
  BY DEF RoomInv, RoomOK, GuestsModerated
<1> QED
  BY <1>1, RoomAlways, PTL

(* A host's arrival, which releases the whole lobby, never takes the room  *)
(* past max_channels: the capacity check has counted those who wait        *)
(* (is_at_capacity, release_waiting_participants).                         *)
THEOREM CapacityAlwaysKept == ~Overlap /\ RoomSpec => []CapacityKept
<1>1. RoomInv => CapacityKept
  BY DEF RoomInv
<1> QED
  BY <1>1, RoomAlways, PTL

-----------------------------------------------------------------------------
(* A participant's video on its way in. *)

(* Whoever still waits for a PLI finds its request in one of the two       *)
(* places send_feedback looks at; between two pushes only pli_pending is   *)
(* left of them.                                                           *)
KeyInv ==
    /\ {"at", "pli_pending", "gate", "failed", "want_keyframe", "valid", "accepted", "to_decode"}
           \subseteq DOMAIN source
    /\ keyDue /\ ~source.failed => source.pli_pending \/ source.want_keyframe
    /\ source.at = "idle" => ~source.want_keyframe

LEMMA KeyStep ==
  ASSUME KeyInv, [SourceNext]_sourceVars
  PROVE  KeyInv'
<1>1. CASE UNCHANGED sourceVars
  BY <1>1 DEF sourceVars, KeyInv
<1>2. ASSUME NEW n, push_packet(n) PROVE KeyInv'
  <2>1. PICK s : /\ source' = [source EXCEPT !.at = "pushing", !.valid = s.valid,
                                             !.to_decode = s.to_decode, !.want_keyframe = s.want_keyframe]
                 /\ source.at = "idle" /\ keyDue' = (keyDue \/ s.want_keyframe)
    BY <1>2 DEF push_packet
  <2> QED
    BY <2>1 DEF KeyInv
<1>3. CASE offer_frame
  <2>1. PICK full \in BOOLEAN :
            /\ source.at = "pushing" /\ keyDue' = (keyDue \/ full)
            /\ source'.want_keyframe = (source.want_keyframe \/ full)
            /\ source'.at = source.at /\ source'.pli_pending = source.pli_pending
            /\ source'.failed = source.failed /\ DOMAIN source' = DOMAIN source
    BY <1>3 DEF offer_frame, KeyInv
  <2> QED
    BY <2>1 DEF KeyInv
<1>4. CASE send_feedback
  <2>1. /\ source'.at = "idle" /\ source'.want_keyframe = FALSE
        /\ source'.pli_pending = pending_after(source.want_keyframe, source.pli_pending, source.gate)
        /\ source'.failed = source.failed /\ DOMAIN source' = DOMAIN source
        /\ keyDue' = (keyDue /\ ~((source.want_keyframe \/ source.pli_pending) /\ source.gate))
    BY <1>4 DEF send_feedback, KeyInv
  <2> QED
    BY <2>1 DEF KeyInv, pending_after
<1>5. CASE request_from_sender
  BY <1>5 DEF request_from_sender, KeyInv
<1>6. CASE TimePasses
  BY <1>6 DEF TimePasses, KeyInv
<1>7. ASSUME NEW t \in Threads, take_job(t) \/ decode_ok(t) PROVE KeyInv'
  BY <1>7 DEF take_job, decode_ok, KeyInv
<1>8. ASSUME NEW t \in Threads, decode_error(t) PROVE KeyInv'
  BY <1>8 DEF decode_error, KeyInv
<1> QED
  BY <1>1, <1>2, <1>3, <1>4, <1>5, <1>6, <1>7, <1>8 DEF SourceNext, Arrive

(* A request for a keyframe never gets lost between the decoder's threads, *)
(* the push under way and the gate that holds PLIs apart: whatever asked   *)
(* for one has had its PLI, or the flag is still up (source.rs push,       *)
(* request_from_sender and the decode jobs).                               *)
THEOREM KeyframeAlwaysAsked == SourceSpec => []KeyframeAsked
<1>1. SourceInit => KeyInv
  BY DEF SourceInit, KeyInv
<1>2. KeyInv /\ [SourceNext]_sourceVars => KeyInv'
  BY KeyStep
<1>3. KeyInv => KeyframeAsked
  BY DEF KeyInv, KeyframeAsked
<1> QED
  BY <1>1, <1>2, <1>3, PTL DEF SourceSpec

-----------------------------------------------------------------------------
(* The frames of a participant's video, from the packets that arrive to    *)
(* the pool's threads.                                                     *)

(* A set of naturals has a least element, and one with 0 and every         *)
(* successor is all of them.                                               *)
LEMMA Least ==
  ASSUME NEW T \in SUBSET Nat, T # {}
  PROVE  \E x \in T : \A y \in T : x <= y
<1>1. PICK x \in T : \A y \in T : ~(<<y, x>> \in OpToRel(<, Nat))
  BY WFMin, NatLessThanWellFounded
<1>2. \A y \in T : ~(y < x)
  BY <1>1 DEF OpToRel
<1> QED
  BY <1>2

LEMMA NatInd ==
  ASSUME NEW S, 0 \in S, \A n \in Nat : n \in S => n + 1 \in S
  PROVE  Nat \subseteq S
<1> SUFFICES ASSUME NEW k \in Nat \ S PROVE FALSE
  OBVIOUS
<1>1. PICK x \in Nat \ S : \A y \in Nat \ S : x <= y
  BY Least
<1>2. x # 0 /\ x - 1 \in Nat /\ x - 1 \in S
  BY <1>1
<1> QED
  BY <1>1, <1>2

(* Two numbers with one remainder: the same sequence number. *)
SameMod(d, x, y) == \E k \in Int : x = y + d * k

LEMMA Divided ==
  ASSUME NEW d \in Nat \ {0}, NEW q \in Int, NEW r \in 0..(d - 1)
  PROVE  (d * q + r) \div d = q /\ (d * q + r) % d = r
<1>1. PICK x \in Int : x = d * q + r
  OBVIOUS
<1>2. PICK p \in Int, s \in 0..(d - 1) : p = x \div d /\ s = x % d /\ x = d * p + s
  OBVIOUS
<1>3. PICK a \in Int : a = p - q
  OBVIOUS
<1>4. d * a = r - s
  BY <1>1, <1>2, <1>3
<1>5. ~(a >= 1)
  <2> SUFFICES ASSUME a >= 1 PROVE FALSE
    OBVIOUS
  <2>1. d * a >= d
    OBVIOUS
  <2> QED
    BY <1>4, <2>1
<1>6. ~(a <= -1)
  <2> SUFFICES ASSUME a <= -1 PROVE FALSE
    OBVIOUS
  <2>1. d * a <= -d
    OBVIOUS
  <2> QED
    BY <1>4, <2>1
<1>7. a = 0
  BY <1>5, <1>6
<1> QED
  BY <1>1, <1>2, <1>3, <1>4, <1>7

LEMMA Divides ==
  ASSUME NEW d \in Nat \ {0}, NEW x \in Int
  PROVE  x \div d \in Int /\ x % d \in 0..(d - 1) /\ x = d * (x \div d) + (x % d)
<1>1. PICK p \in Int, s \in 0..(d - 1) : p = x \div d /\ s = x % d /\ x = d * p + s
  OBVIOUS
<1> QED
  BY <1>1

LEMMA ModSame ==
  ASSUME NEW d \in Nat \ {0}, NEW x \in Int
  PROVE  x % d \in 0..(d - 1) /\ SameMod(d, x, x % d)
<1>1. PICK k \in Int, y \in 0..(d - 1) : y = x % d /\ x = d * k + y
  BY Divides
<1>2. x = y + d * k
  BY <1>1
<1> QED
  BY <1>1, <1>2 DEF SameMod

LEMMA ModIs ==
  ASSUME NEW d \in Nat \ {0}, NEW x \in Int, NEW y \in 0..(d - 1), SameMod(d, x, y)
  PROVE  x % d = y
<1>1. PICK k \in Int : x = d * k + y
  BY DEF SameMod
<1> QED
  BY <1>1, Divided

LEMMA Apart ==
  ASSUME NEW d \in Nat \ {0}, NEW x \in Int, NEW y \in Int, NEW z \in Int, SameMod(d, x, y)
  PROVE  SameMod(d, x + z, y + z) /\ SameMod(d, x - z, y - z)
<1>1. PICK k \in Int : x = y + d * k
  BY DEF SameMod
<1>2. PICK l \in Int : l = d * k
  OBVIOUS
<1>3. x + z = (y + z) + d * k /\ x - z = (y - z) + d * k
  BY <1>1, <1>2
<1> QED
  BY <1>3 DEF SameMod

LEMMA Mutual ==
  ASSUME NEW d \in Nat \ {0}, NEW x \in Int, NEW y \in Int, SameMod(d, x, y)
  PROVE  SameMod(d, y, x)
<1>1. PICK k \in Int : x = y + d * k
  BY DEF SameMod
<1>2. -k \in Int /\ d * (-k) = -(d * k) /\ d * k \in Int
  OBVIOUS
<1>3. y = x + d * (-k)
  BY <1>1, <1>2
<1> QED
  BY <1>2, <1>3 DEF SameMod

LEMMA Through ==
  ASSUME NEW d \in Nat \ {0}, NEW x \in Int, NEW y \in Int, NEW z \in Int, SameMod(d, x, y), SameMod(d, y, z)
  PROVE  SameMod(d, x, z)
<1>1. PICK k \in Int, l \in Int : x = y + d * k /\ y = z + d * l
  BY DEF SameMod
<1>2. k + l \in Int /\ d * (k + l) = d * k + d * l
  OBVIOUS
<1>3. d * k \in Int /\ d * l \in Int
  OBVIOUS
<1>4. x = z + d * (k + l)
  BY <1>1, <1>2, <1>3
<1> QED
  BY <1>2, <1>4 DEF SameMod

(* A remainder may be taken before or after. *)
LEMMA ModFirst ==
  ASSUME NEW d \in Nat \ {0}, NEW x \in Int, NEW y \in Int
  PROVE  ((x % d) + y) % d = (x + y) % d /\ ((x % d) - (y % d)) % d = (x - y) % d
<1>1. PICK a \in 0..(d - 1), b \in 0..(d - 1) : a = x % d /\ b = y % d
  BY Divides
<1>2. SameMod(d, a, x) /\ SameMod(d, b, y)
  <2>1. SameMod(d, x, a) /\ SameMod(d, y, b)
    BY <1>1, ModSame
  <2> QED
    BY <2>1, Mutual
<1>3. PICK u \in Int, v \in Int, w \in Int, z \in Int : u = a + y /\ v = x + y /\ w = a - b /\ z = x - y
  OBVIOUS
<1>4. SameMod(d, u, v)
  <2>0. PICK k \in Int : a = x + d * k
    BY <1>2 DEF SameMod
  <2>1. PICK l \in Int : l = d * k
    OBVIOUS
  <2>2. u = v + d * k
    BY <1>3, <2>0, <2>1
  <2> QED
    BY <2>2 DEF SameMod
<1>5. SameMod(d, w, z)
  <2>1. PICK k \in Int, l \in Int : a = x + d * k /\ b = y + d * l
    BY <1>2 DEF SameMod
  <2>2. k - l \in Int /\ d * (k - l) = d * k - d * l /\ d * k \in Int /\ d * l \in Int
    OBVIOUS
  <2>3. w = z + d * (k - l)
    BY <1>3, <2>1, <2>2
  <2> QED
    BY <2>2, <2>3 DEF SameMod
<1>6. ASSUME NEW p \in Int, NEW q \in Int, SameMod(d, p, q) PROVE p % d = q % d
  <2>1. q % d \in 0..(d - 1) /\ SameMod(d, q, q % d)
    BY ModSame
  <2>2. SameMod(d, p, q % d)
    BY <1>6, <2>1, Through
  <2> QED
    BY <2>1, <2>2, ModIs
<1> QED
  BY <1>1, <1>3, <1>4, <1>5, <1>6

LEMMA Biggest ==
  ASSUME NEW x \in Nat
  PROVE  Max({0, x}) = x
<1>1. x \in {0, x} /\ \A y \in {0, x} : y <= x
  OBVIOUS
<1>2. \A z \in {0, x} : (\A y \in {0, x} : y <= z) => z = x
  OBVIOUS
<1> QED
  BY <1>1, <1>2 DEF Max

LEMMA Bounds == /\ PerFrame \in Nat \ {0} /\ MaxFrames \in Nat /\ FirstSeq \in Nat
                /\ PerFrame * MaxFrames \in Nat
                /\ SeqRange \in Nat \ {0} /\ SeqRange > 2 * (PerFrame * MaxFrames)
BY SourceAssumption

(* The place extend gives a packet, when the stream's packets stand at     *)
(* base + 1, base + 2, ...                                                 *)
LEMMA Extended ==
  ASSUME NEW base \in Nat, SameMod(SeqRange, base + 1, FirstSeq),
         NEW m \in 1..(PerFrame * MaxFrames + 1), NEW n \in 1..(PerFrame * MaxFrames)
  PROVE  extend((FirstSeq + n - 1) % SeqRange, base + m) = base + n
<1> DEFINE s == (FirstSeq + n - 1) % SeqRange
           delta == (s - (base + m)) % SeqRange
<1>1. s \in 0..(SeqRange - 1) /\ SameMod(SeqRange, FirstSeq + n - 1, s)
  <2>1. SeqRange \in Nat \ {0} /\ FirstSeq + n - 1 \in Int
    BY Bounds
  <2> QED
    BY <2>1, ModSame
<1>2. PICK N \in Nat : N = PerFrame * MaxFrames
  BY Bounds
<1>3. n \in Int /\ m \in Int /\ base \in Int /\ FirstSeq \in Int /\ SeqRange \in Nat /\ SeqRange > 2 * N
      /\ n \in 1..N /\ m \in 1..(N + 1)
  BY Bounds, <1>2
<1>4. SameMod(SeqRange, base + n, s)
  <2>1. SameMod(SeqRange, base + 1 + (n - 1), FirstSeq + (n - 1))
    <3>1. base + 1 \in Int /\ n - 1 \in Int /\ FirstSeq \in Int
      BY <1>3
    <3> QED
      BY <3>1, Apart, Bounds
  <2>2. base + 1 + (n - 1) = base + n /\ FirstSeq + (n - 1) = FirstSeq + n - 1
    BY <1>3
  <2>3. SameMod(SeqRange, base + n, FirstSeq + n - 1) /\ base + n \in Int /\ FirstSeq + n - 1 \in Int /\ s \in Int
    BY <1>1, <1>3, <2>1, <2>2
  <2> QED
    BY <1>1, <2>3, Through, Bounds
<1>5. SameMod(SeqRange, n - m, s - (base + m))
  <2>1. SameMod(SeqRange, base + n - (base + m), s - (base + m))
    <3>1. PICK x \in Int, y \in Int, z \in Int : x = base + n /\ y = s /\ z = base + m
      BY <1>1, <1>3
    <3>2. SameMod(SeqRange, x - z, y - z)
      BY <1>4, <3>1, Apart, Bounds
    <3> QED
      BY <3>1, <3>2
  <2>2. base + n - (base + m) = n - m
    BY <1>3
  <2> QED
    BY <2>1, <2>2
<1>6. SameMod(SeqRange, s - (base + m), n - m) /\ s - (base + m) \in Int /\ n - m \in Int
  <2>1. s - (base + m) \in Int /\ n - m \in Int
    BY <1>1, <1>3
  <2> QED
    BY <1>5, <2>1, Mutual, Bounds
<1>7. delta = IF n >= m THEN n - m ELSE n - m + SeqRange
  <2>1. CASE n >= m
    <3>1. n - m \in 0..(SeqRange - 1)
      BY <1>3, <2>1
    <3> QED
      BY <1>6, <2>1, <3>1, ModIs, Bounds
  <2>2. CASE ~(n >= m)
    <3>1. n - m + SeqRange \in 0..(SeqRange - 1)
      BY <1>3, <2>2
    <3>2. SameMod(SeqRange, n - m, n - m + SeqRange)
      <4>1. -1 \in Int /\ n - m = (n - m + SeqRange) + SeqRange * (-1)
        BY <1>3
      <4> QED
        BY <4>1 DEF SameMod
    <3>3. SameMod(SeqRange, s - (base + m), n - m + SeqRange)
      BY <1>3, <1>6, <3>2, Through, Bounds
    <3> QED
      BY <1>6, <2>2, <3>1, <3>3, ModIs, Bounds
  <2> QED
    BY <2>1, <2>2
<1> HIDE DEF delta
<1>8. (base + m) + (IF 2 * delta < SeqRange THEN delta ELSE delta - SeqRange) = base + n
  BY <1>3, <1>7
<1>9. base + n \in Nat
  BY <1>3
<1> QED
  BY <1>8, <1>9, Biggest DEF extend, delta

(* Packet i of frame f. *)
At(f, i) == PerFrame * (f - 1) + i

LEMMA AtType ==
  ASSUME NEW f \in Nat \ {0}, NEW i \in Nat
  PROVE  At(f, i) \in Nat /\ At(f, i + 1) = At(f, i) + 1
<1>1. PICK g \in Nat : g = f - 1
  OBVIOUS
<1>2. PerFrame * g \in Nat
  BY Bounds
<1>4. PICK h \in Nat : h = PerFrame * g
  BY <1>2
<1>5. At(f, i) = h + i /\ At(f, i + 1) = h + (i + 1)
  BY <1>1, <1>4 DEF At
<1> QED
  BY <1>4, <1>5

LEMMA PlaceAt ==
  ASSUME NEW f \in Nat \ {0}, NEW i \in 1..PerFrame
  PROVE  FrameOf(At(f, i)) = f /\ PlaceIn(At(f, i)) = i
<1>1. PICK g \in Nat, r \in 0..(PerFrame - 1) : g = f - 1 /\ r = i - 1
  BY Bounds
<1>2. (PerFrame * g + r) \div PerFrame = g /\ (PerFrame * g + r) % PerFrame = r
  BY Bounds, Divided
<1>3. At(f, i) - 1 = PerFrame * g + r
  <2>1. PerFrame * g \in Nat
    BY Bounds
  <2> QED
    BY <1>1, <2>1 DEF At
<1>4. FrameOf(At(f, i)) = 1 + g
  BY <1>2, <1>3 DEF FrameOf
<1>5. PlaceIn(At(f, i)) = 1 + r
  BY <1>2, <1>3 DEF PlaceIn
<1> QED
  BY <1>1, <1>4, <1>5

(* Every packet is in its place of a frame. *)
LEMMA PlaceOf ==
  ASSUME NEW n \in Nat \ {0}
  PROVE  FrameOf(n) \in Nat \ {0} /\ PlaceIn(n) \in 1..PerFrame /\ n = At(FrameOf(n), PlaceIn(n))
<1>1. PICK x \in Nat : x = n - 1
  OBVIOUS
<1>2. x \div PerFrame \in Int /\ x % PerFrame \in 0..(PerFrame - 1)
      /\ x = PerFrame * (x \div PerFrame) + (x % PerFrame)
  BY Bounds, Divides
<1>3. PICK q \in Int, r \in 0..(PerFrame - 1) : q = x \div PerFrame /\ r = x % PerFrame
  BY <1>2
<1>4. q >= 0
  <2> SUFFICES ASSUME q <= -1 PROVE FALSE
    BY <1>3
  <2>1. PerFrame * q <= -PerFrame
    BY Bounds
  <2>2. PerFrame * q \in Int /\ x = PerFrame * q + r
    BY Bounds, <1>2, <1>3
  <2> QED
    BY <2>1, <2>2, Bounds
<1>5. FrameOf(n) = 1 + q /\ PlaceIn(n) = 1 + r
  BY <1>1, <1>3 DEF FrameOf, PlaceIn
<1>6. n = PerFrame * q + (1 + r)
  BY Bounds, <1>1, <1>2, <1>3
<1>7. (1 + q) - 1 = q
  OBVIOUS
<1> QED
  BY <1>3, <1>4, <1>5, <1>6, <1>7, Bounds DEF At

(* What comes of the assembler: frames, all of them whole, and losses. *)
WholeFrame == [kind : {"frame"}, key : BOOLEAN, packets : {PacketsOf(f) : f \in Nat \ {0}}]
Loss == [kind : {"invalid", "lost"}, key : BOOLEAN, packets : {<<>>}]
Outcome == WholeFrame \cup Loss

LEMMA WholePackets ==
  ASSUME NEW f \in Nat \ {0}
  PROVE  /\ PacketsOf(f) = [i \in 1..PerFrame |-> At(f, i)]
         /\ PacketsOf(f)[1] = At(f, 1)
         /\ PacketsOf(FrameOf(PacketsOf(f)[1])) = PacketsOf(f)
<1>1. PacketsOf(f) = [i \in 1..PerFrame |-> At(f, i)]
  <2>1. (f - 1) * PerFrame = PerFrame * (f - 1)
    BY Bounds
  <2> QED
    BY <2>1 DEF PacketsOf, At
<1>2. 1 \in 1..PerFrame
  BY Bounds
<1>3. PacketsOf(f)[1] = At(f, 1)
  BY <1>1, <1>2
<1> QED
  BY <1>1, <1>2, <1>3, PlaceAt

LEMMA WholeOK ==
  ASSUME NEW j \in WholeFrame
  PROVE  j.packets = PacketsOf(FrameOf(j.packets[1]))
<1>1. PICK f \in Nat \ {0} : j.packets = PacketsOf(f)
  BY DEF WholeFrame
<1> QED
  BY <1>1, WholePackets

LEMMA EventKinds ==
  ASSUME NEW f \in Nat \ {0}
  PROVE  /\ Event("frame", PacketsOf(f)) \in Outcome
         /\ \A k \in {"invalid", "lost"} : Event(k, <<>>) \in Outcome
<1>1. ASSUME NEW k, NEW p PROVE Event(k, p) \in [kind : {k}, key : BOOLEAN, packets : {p}]
  <2>1. (\E i \in DOMAIN p : keyframe(p[i])) \in BOOLEAN
    OBVIOUS
  <2>2. PICK key \in BOOLEAN : Event(k, p) = [kind |-> k, key |-> key, packets |-> p]
    BY <2>1 DEF Event
  <2> QED
    BY <2>2
<1>2. Event("frame", PacketsOf(f)) \in WholeFrame
  BY <1>1 DEF WholeFrame
<1>3. \A k \in {"invalid", "lost"} : Event(k, <<>>) \in Loss
  BY <1>1 DEF Loss
<1> QED
  BY <1>2, <1>3 DEF Outcome

(* The packets kept of the frame in progress, when packet n was the last   *)
(* in its turn: all of the frame up to n.                                  *)
UpTo(c, n) ==
    /\ c \in Seq(Nat)
    /\ c # <<>> => /\ Len(c) <= PerFrame
                   /\ \E f \in Nat \ {0} : /\ n = At(f, Len(c))
                                           /\ \A i \in 1..Len(c) : c[i] = At(f, i)

InOrder(a, n) ==
    /\ {"next", "pending", "current", "skipping", "events"} \subseteq DOMAIN a
    /\ UpTo(a.current, n)
    /\ a.skipping => a.current = <<>>
    /\ a.events \in Seq(Outcome)

SameHeld(a, b) == b.next = a.next /\ b.pending = a.pending

(* A frame all of whose packets are there is handed on; a part of one is   *)
(* not there to be handed on when finish is called.                        *)
LEMMA FullFrame ==
  ASSUME NEW c, NEW f \in Nat \ {0}, c \in Seq(Nat), Len(c) = PerFrame,
         \A i \in 1..Len(c) : c[i] = At(f, i)
  PROVE  c = PacketsOf(f)
<1>1. PacketsOf(f) = [i \in 1..PerFrame |-> At(f, i)]
  BY WholePackets
<1>2. DOMAIN c = 1..PerFrame
  BY LenProperties
<1>3. c = [i \in DOMAIN c |-> c[i]]
  OBVIOUS
<1> QED
  BY <1>1, <1>2, <1>3

LEMMA FinishKeeps ==
  ASSUME NEW a, NEW n, NEW m, InOrder(a, n), a.current = <<>> \/ Len(a.current) = PerFrame
  PROVE  InOrder(finish(a), m) /\ finish(a).current = <<>> /\ SameHeld(a, finish(a))
         /\ finish(a).skipping = a.skipping
<1>1. CASE a.current = <<>>
  BY <1>1 DEF finish, InOrder, UpTo, SameHeld
<1>2. CASE a.current # <<>>
  <2>1. PICK f \in Nat \ {0} : a.current = PacketsOf(f)
    BY <1>2, FullFrame DEF InOrder, UpTo
  <2>2. PICK e \in Outcome : finish(a) = [a EXCEPT !.current = <<>>, !.events = Append(@, e)]
    <3>1. PICK e : /\ e \in {Event("invalid", <<>>), Event("frame", a.current)}
                   /\ finish(a) = [a EXCEPT !.current = <<>>, !.events = Append(@, e)]
      BY <1>2 DEF finish
    <3> QED
      BY <2>1, <3>1, EventKinds
  <2>3. Append(a.events, e) \in Seq(Outcome)
    BY AppendProperties DEF InOrder
  <2> QED
    BY <2>2, <2>3 DEF InOrder, UpTo, SameHeld
<1> QED
  BY <1>1, <1>2

(* A packet whose turn it is ends the frame before it, if that one is      *)
(* still in progress, and continues or starts its own.                     *)
Ongoing(b, f, p) ==
    b.current # <<>> => Len(b.current) = p - 1 /\ \A i \in 1..(p - 1) : b.current[i] = At(f, i)

LEMMA TurnOf ==
  ASSUME NEW a, NEW f \in Nat \ {0}, NEW p \in 1..PerFrame, NEW n \in Nat \ {0}, n = At(f, p),
         InOrder(a, n - 1), NEW b,
         b = IF a.current # <<>> /\ FrameOf(a.current[1]) # FrameOf(n) THEN finish(a) ELSE a
  PROVE  /\ InOrder(b, n - 1) /\ SameHeld(a, b)
         /\ Ongoing(b, f, p)
<1>1. CASE a.current = <<>>
  BY <1>1 DEF SameHeld, Ongoing
<1>2. CASE a.current # <<>>
  <2>1. PICK g \in Nat \ {0} : n - 1 = At(g, Len(a.current)) /\ \A i \in 1..Len(a.current) : a.current[i] = At(g, i)
    BY <1>2 DEF InOrder, UpTo
  <2>2. PICK l \in 1..PerFrame : l = Len(a.current)
    BY <1>2 DEF InOrder, UpTo
  <2>3. 1 \in 1..PerFrame /\ a.current[1] = At(g, 1)
    BY <2>1, <2>2, Bounds
  <2>4. FrameOf(a.current[1]) = g /\ FrameOf(n) = f
    BY <2>3, PlaceAt
  <2>5. CASE g = f
    <3>1. b = a
      BY <2>4, <2>5
    <3>2. PICK h \in Int : \A i \in Nat : At(f, i) = h + i
      <4>1. PerFrame * (f - 1) \in Int
        BY Bounds
      <4> QED
        BY <4>1 DEF At
    <3>3. l = p - 1
      <4>1. At(f, l) = h + l /\ At(f, p) = h + p
        BY <3>2, Bounds
      <4>2. n - 1 = At(f, l) /\ n = At(f, p)
        BY <2>1, <2>2, <2>5
      <4> QED
        BY <4>1, <4>2, Bounds
    <3> QED
      BY <2>1, <2>2, <2>5, <3>1, <3>3 DEF SameHeld, Ongoing
  <2>6. CASE g # f
    <3>1. b = finish(a)
      BY <1>2, <2>4, <2>6
    <3>2. l = PerFrame
      <4> SUFFICES ASSUME l # PerFrame PROVE FALSE
        OBVIOUS
      <4>1. l + 1 \in 1..PerFrame /\ n = At(g, l + 1)
        <5>1. At(g, l) \in Nat /\ At(g, l + 1) = At(g, l) + 1 /\ n - 1 = At(g, l)
          <6>1. n - 1 = At(g, l)
            BY <2>1, <2>2
          <6>2. l \in Nat
            BY Bounds
          <6>3. At(g, l) \in Nat /\ At(g, l + 1) = At(g, l) + 1
            BY <6>2, AtType
          <6> QED
            BY <6>1, <6>3
        <5>2. l + 1 \in 1..PerFrame
          BY Bounds
        <5>3. PICK y \in Nat : y = At(g, l)
          BY <5>1
        <5>4. At(g, l + 1) = y + 1 /\ n - 1 = y
          BY <5>1, <5>3
        <5>5. y + 1 = n
          BY <5>4
        <5> QED
          BY <5>2, <5>4, <5>5
      <4>2. FrameOf(n) = g
        BY <4>1, PlaceAt
      <4> QED
        BY <2>4, <2>6, <4>2
    <3> QED
      BY <2>2, <3>1, <3>2, FinishKeeps DEF Ongoing
  <2> QED
    BY <2>5, <2>6
<1> QED
  BY <1>1, <1>2

LEMMA Longer ==
  ASSUME NEW c \in Seq(Nat), NEW f \in Nat \ {0}, NEW p \in 1..PerFrame, Len(c) = p - 1,
         \A i \in 1..(p - 1) : c[i] = At(f, i)
  PROVE  Append(c, At(f, p)) \in Seq(Nat) /\ Append(c, At(f, p)) # <<>>
         /\ Len(Append(c, At(f, p))) = p /\ UpTo(Append(c, At(f, p)), At(f, p))
<1>1. PICK x \in Nat : x = At(f, p)
  BY AtType
<1>2. PICK d : d = Append(c, x)
  OBVIOUS
<1>3. /\ d \in Seq(Nat) /\ Len(d) = p /\ d # <<>> /\ d[p] = x
      /\ \A i \in 1..(p - 1) : d[i] = c[i]
  BY <1>2
<1>4. \A i \in 1..p : d[i] = At(f, i)
  BY <1>1, <1>3
<1>5. UpTo(d, x)
  BY <1>1, <1>3, <1>4 DEF UpTo
<1> QED
  BY <1>1, <1>2, <1>3, <1>5

LEMMA ConsumeKeeps ==
  ASSUME StartsAt = {1}, NEW a, NEW n \in Nat \ {0}, InOrder(a, n - 1)
  PROVE  InOrder(consume(a, n), n) /\ SameHeld(a, consume(a, n))
<1>b. PICK b : b = IF a.current # <<>> /\ FrameOf(a.current[1]) # FrameOf(n) THEN finish(a) ELSE a
  OBVIOUS
<1>1. PICK f \in Nat \ {0}, p \in 1..PerFrame : n = At(f, p) /\ FrameOf(n) = f /\ PlaceIn(n) = p
  BY PlaceOf
<1>2. /\ InOrder(b, n - 1) /\ SameHeld(a, b)
      /\ Ongoing(b, f, p)
  <2>1. n = At(f, p) /\ InOrder(a, n - 1)
    BY <1>1
  <2> QED
    BY <2>1, <1>b, TurnOf
<1>3. CASE (b.skipping \/ b.current = <<>>) /\ ~frame_start(n)
  <2>1. consume(a, n) = [b EXCEPT !.skipping = TRUE]
    BY <1>3, <1>b DEF consume
  <2> QED
    BY <1>2, <1>3, <2>1 DEF InOrder, UpTo, SameHeld
<1>4. CASE ~((b.skipping \/ b.current = <<>>) /\ ~frame_start(n))
  <2>c. PICK c : c = [b EXCEPT !.current = Append(@, n), !.skipping = FALSE]
    OBVIOUS
  <2>1. Len(b.current) = p - 1 /\ \A i \in 1..(p - 1) : b.current[i] = At(f, i)
    <3>1. CASE b.current = <<>>
      <4>1. p = 1
        BY <1>1, <1>4, <3>1 DEF frame_start
      <4> QED
        BY <3>1, <4>1
    <3> QED
      BY <1>2, <3>1 DEF Ongoing
  <2>2. /\ c.current \in Seq(Nat) /\ c.current # <<>> /\ Len(c.current) = p /\ UpTo(c.current, n)
        /\ c.skipping = FALSE /\ c.events = b.events /\ SameHeld(a, c) /\ DOMAIN c = DOMAIN b
    <3>1. b.current \in Seq(Nat)
      BY <1>2 DEF InOrder, UpTo
    <3>2. c.current = Append(b.current, n) /\ c.skipping = FALSE /\ c.events = b.events
          /\ SameHeld(a, c) /\ DOMAIN c = DOMAIN b
      BY <1>2, <2>c DEF InOrder, SameHeld
    <3> QED
      BY <1>1, <2>1, <3>1, <3>2, Longer
  <2>3. InOrder(c, n)
    BY <1>2, <2>2 DEF InOrder
  <2>4. \/ consume(a, n) = c
        \/ consume(a, n) = finish(c) /\ p = PerFrame
        \/ consume(a, n) = [give_up(c) EXCEPT !.events = Append(@, Event("invalid", <<>>))]
    BY <1>1, <1>4, <1>b, <2>c DEF consume, marker
  <2>5. CASE consume(a, n) = c
    BY <2>2, <2>3, <2>5
  <2>6. CASE consume(a, n) = finish(c) /\ p = PerFrame
    <3>1. InOrder(finish(c), n) /\ SameHeld(c, finish(c))
      BY <2>2, <2>3, <2>6, FinishKeeps
    <3> QED
      BY <2>2, <2>6, <3>1 DEF SameHeld
  <2>7. CASE consume(a, n) = [give_up(c) EXCEPT !.events = Append(@, Event("invalid", <<>>))]
    <3>1. PICK e \in Outcome : e = Event("invalid", <<>>)
      BY EventKinds
    <3>2. PICK d : d = consume(a, n)
      OBVIOUS
    <3>3. d.current = <<>> /\ d.events = Append(c.events, e) /\ d.next = c.next /\ d.pending = c.pending
          /\ DOMAIN d = DOMAIN c
      BY <2>3, <2>7, <3>1, <3>2 DEF give_up, InOrder
    <3>4. Append(c.events, e) \in Seq(Outcome)
      BY <2>3, AppendProperties DEF InOrder
    <3> QED
      BY <2>2, <2>3, <3>2, <3>3, <3>4 DEF InOrder, UpTo, SameHeld
  <2> QED
    BY <2>4, <2>5, <2>6, <2>7
<1> QED
  BY <1>3, <1>4

LEMMA Smallest ==
  ASSUME NEW T \in SUBSET Nat, T # {}
  PROVE  Min(T) \in T /\ \A y \in T : Min(T) <= y
<1>1. \E x \in T : \A y \in T : x <= y
  BY Least
<1> QED
  BY <1>1 DEF Min

LEMMA GapFacts ==
  ASSUME NEW a, a.next \in Nat, IsFiniteSet(DOMAIN a.pending)
  PROVE  /\ FirstGap(a) \in Nat /\ FirstGap(a) >= a.next /\ FirstGap(a) \notin DOMAIN a.pending
         /\ \A e \in a.next..(FirstGap(a) - 1) : e \in DOMAIN a.pending
<1>0. PICK D : D = DOMAIN a.pending /\ IsFiniteSet(D)
  OBVIOUS
<1>1. PICK m \in Nat, k \in Nat : m = a.next /\ D = DOMAIN a.pending /\ k = Cardinality(D)
  BY <1>0, FS_CardinalityType
<1>2. PICK T : T = {e \in m..(m + k) : e \notin D}
  OBVIOUS
<1>3. T # {}
  <2> SUFFICES ASSUME m..(m + k) \subseteq D PROVE FALSE
    BY <1>2
  <2>1. Cardinality(m..(m + k)) = k + 1
    <3>1. m \in Int /\ m + k \in Int /\ m <= m + k /\ (m + k) - m + 1 = k + 1
      OBVIOUS
    <3> DEFINE n == m + k
    <3>2. n \in Int
      BY <3>1
    <3> HIDE DEF n
    <3>3. Cardinality(m..n) = IF m > n THEN 0 ELSE n - m + 1
      BY <3>1, <3>2, FS_Interval, Zenon
    <3>4. ~(m > n) /\ n - m + 1 = k + 1
      BY <3>1 DEF n
    <3>5. Cardinality(m..n) = k + 1
      BY <3>3, <3>4, Zenon
    <3> QED
      BY <3>5 DEF n
  <2>2. Cardinality(m..(m + k)) <= k
    BY <1>0, <1>1, FS_Subset
  <2> QED
    BY <2>1, <2>2
<1>4. PICK g : g = FirstGap(a) /\ g \in T /\ \A y \in T : g <= y
  <2>1. T \in SUBSET Nat
    BY <1>2
  <2>2. FirstGap(a) = Min(T)
    BY <1>1, <1>2 DEF FirstGap
  <2> QED
    BY <1>3, <2>1, <2>2, Smallest
<1>5. g \in m..(m + k) /\ g \notin D
  BY <1>2, <1>4
<1>6. ASSUME NEW e \in m..(g - 1), e \notin D PROVE FALSE
  <2>1. e \in m..(m + k)
    BY <1>5
  <2> QED
    BY <1>2, <1>4, <1>5, <1>6, <2>1
<1> QED
  BY <1>1, <1>4, <1>5, <1>6

(* The packets of a stream at base + 1, base + 2, ...                      *)
LastPacket == PerFrame * MaxFrames

HeldAt(a, base) ==
    /\ DOMAIN a.pending \subseteq (base + 1)..(base + LastPacket)
    /\ \A e \in DOMAIN a.pending : a.pending[e] = e - base
    /\ a.next \in (base + 1)..(base + LastPacket + 1)

DrainStep(a, upto, f, i) ==
    IF i = 0 THEN [a EXCEPT !.next = upto,
                            !.pending = [e \in DOMAIN a.pending \ (a.next .. upto) |-> a.pending[e]]]
    ELSE consume(f[i - 1], a.pending[a.next + i - 1])

LEMMA DrainExists ==
  ASSUME NEW a, NEW upto, NEW k \in Nat
  PROVE  \E f : f = [i \in 0..k |-> DrainStep(a, upto, f, i)]
<1> DEFINE S == {m \in Nat : \E f : f = [i \in 0..m |-> DrainStep(a, upto, f, i)]}
<1>1. 0 \in S
  <2>1. PICK f : f = [i \in 0..0 |-> DrainStep(a, upto, <<>>, 0)]
    OBVIOUS
  <2>2. f = [i \in 0..0 |-> DrainStep(a, upto, f, i)]
    BY <2>1 DEF DrainStep
  <2> QED
    BY <2>2
<1>2. ASSUME NEW m \in Nat, m \in S PROVE m + 1 \in S
  <2>1. PICK f : f = [i \in 0..m |-> DrainStep(a, upto, f, i)]
    BY <1>2
  <2>2. PICK g : g = [i \in 0..(m + 1) |-> IF i = m + 1 THEN DrainStep(a, upto, f, m + 1) ELSE f[i]]
    OBVIOUS
  <2>3. \A i \in 0..m : g[i] = f[i]
    BY <2>2
  <2>4. \A i \in 0..(m + 1) : g[i] = DrainStep(a, upto, g, i)
    <3> SUFFICES ASSUME NEW i \in 0..(m + 1) PROVE g[i] = DrainStep(a, upto, g, i)
      OBVIOUS
    <3>1. g[i] = DrainStep(a, upto, f, i)
      BY <2>1, <2>2
    <3>2. i # 0 => g[i - 1] = f[i - 1]
      BY <2>3
    <3> QED
      BY <3>1, <3>2 DEF DrainStep
  <2>5. g = [i \in 0..(m + 1) |-> DrainStep(a, upto, g, i)]
    BY <2>2, <2>4
  <2> QED
    BY <2>5
<1> HIDE DEF S
<1>3. Nat \subseteq S
  BY <1>1, <1>2, NatInd
<1>4. k \in S
  BY <1>3
<1> QED
  BY <1>4 DEF S

(* Consume what is contiguous: every packet has its turn.                  *)
LEMMA DrainKeeps ==
  ASSUME StartsAt = {1}, NEW base \in Nat, NEW a, HeldAt(a, base), InOrder(a, a.next - base - 1)
  PROVE  HeldAt(drain(a), base) /\ InOrder(drain(a), drain(a).next - base - 1)
<1>1. PICK N \in Nat, m \in Nat : N = LastPacket /\ m = a.next /\ m \in (base + 1)..(base + N + 1)
  <2>1. PICK N \in Nat : N = LastPacket
    BY Bounds DEF LastPacket
  <2>2. PICK m : m = a.next
    OBVIOUS
  <2>3. m \in (base + 1)..(base + N + 1)
    BY <2>1, <2>2 DEF HeldAt
  <2>4. m \in Nat
    BY <2>3
  <2> QED
    BY <2>1, <2>2, <2>3, <2>4
<1>g. PICK g : g = FirstGap(a)
  OBVIOUS
<1>2. IsFiniteSet(DOMAIN a.pending)
  <2>1. IsFiniteSet((base + 1)..(base + N))
    BY FS_Interval
  <2> QED
    BY <1>1, <2>1, FS_Subset DEF HeldAt
<1>3. g \in Nat /\ g >= m /\ \A e \in m..(g - 1) : e \in DOMAIN a.pending
  BY <1>1, <1>g, <1>2, GapFacts
<1>4. PICK k \in Nat : k = g - m
  BY <1>3
<1> DEFINE f == CHOOSE f : f = [i \in 0..k |-> DrainStep(a, g, f, i)]
<1>5. f = [i \in 0..k |-> DrainStep(a, g, f, i)]
  BY DrainExists
<1>6. drain(a) = f[k]
  BY <1>1, <1>g, <1>4 DEF drain, DrainStep
<1> HIDE DEF f
<1>7. PICK taken : taken = [a EXCEPT !.next = g,
                                    !.pending = [e \in DOMAIN a.pending \ (a.next .. g) |-> a.pending[e]]]
  OBVIOUS
<1>8. /\ HeldAt(taken, base) /\ taken.next = g
      /\ InOrder(taken, m - base - 1)
  <2>1. /\ taken.next = g /\ taken.current = a.current /\ taken.skipping = a.skipping
        /\ taken.events = a.events /\ DOMAIN taken = DOMAIN a
        /\ taken.pending = [e \in DOMAIN a.pending \ (a.next .. g) |-> a.pending[e]]
    BY <1>7 DEF InOrder
  <2>2. g \in (base + 1)..(base + N + 1)
    <3>1. g # m => g - 1 \in DOMAIN a.pending
      BY <1>3
    <3>2. \A e \in DOMAIN a.pending : e \in (base + 1)..(base + N)
      BY <1>1 DEF HeldAt
    <3> QED
      BY <1>1, <1>3, <3>1, <3>2
  <2>3. InOrder(taken, m - base - 1)
    BY <1>1, <2>1 DEF InOrder
  <2>4. HeldAt(taken, base)
    BY <1>1, <2>1, <2>2 DEF HeldAt
  <2> QED
    BY <2>1, <2>3, <2>4
<1> DEFINE S == {i \in Nat : i \in 0..k => InOrder(f[i], m - base - 1 + i) /\ SameHeld(taken, f[i])}
<1>9. 0 \in S
  <2>1. f[0] = taken
    <3>1. 0 \in 0..k
      OBVIOUS
    <3>2. f[0] = DrainStep(a, g, f, 0)
      BY <1>5, <3>1
    <3> QED
      BY <1>7, <3>2 DEF DrainStep
  <2>2. m - base - 1 + 0 = m - base - 1
    BY <1>1
  <2> QED
    BY <1>8, <2>1, <2>2 DEF SameHeld
<1>10. ASSUME NEW i \in Nat, i \in S PROVE i + 1 \in S
  <2> SUFFICES ASSUME i + 1 \in 0..k
               PROVE  InOrder(f[i + 1], m - base - 1 + (i + 1)) /\ SameHeld(taken, f[i + 1])
    OBVIOUS
  <2>1. PICK n \in Nat \ {0} : n = m - base - 1 + (i + 1) /\ n - 1 = m - base - 1 + i
    BY <1>1
  <2>2. InOrder(f[i], n - 1) /\ SameHeld(taken, f[i])
    BY <1>10, <2>1
  <2>3. a.pending[m + i] = n
    <3>0. (m + i) - base = n
      BY <1>1, <2>1
    <3>1. m + i \in DOMAIN a.pending
      BY <1>3, <1>4
    <3> QED
      BY <3>0, <3>1 DEF HeldAt
  <2>4. f[i + 1] = consume(f[i], n)
    <3>1. i + 1 # 0 /\ (i + 1) - 1 = i /\ a.next + (i + 1) - 1 = m + i
      BY <1>1
    <3>2. f[i + 1] = DrainStep(a, g, f, i + 1)
      BY <1>5
    <3> QED
      BY <2>3, <3>1, <3>2 DEF DrainStep
  <2>5. InOrder(consume(f[i], n), n) /\ SameHeld(f[i], consume(f[i], n))
    BY <2>2, ConsumeKeeps
  <2> QED
    BY <2>1, <2>2, <2>4, <2>5 DEF SameHeld
<1> HIDE DEF S
<1>11. k \in S
  BY <1>9, <1>10, NatInd
<1>12. InOrder(f[k], m - base - 1 + k) /\ SameHeld(taken, f[k])
  BY <1>11 DEF S
<1>13. m - base - 1 + k = g - base - 1
  BY <1>1, <1>3, <1>4
<1> QED
  BY <1>6, <1>8, <1>12, <1>13 DEF SameHeld, HeldAt

(* The assembler's packets stand at their places.                          *)
Placed(a, base) ==
    base \in Nat /\ SameMod(SeqRange, base + 1, FirstSeq) /\ HeldAt(a, base) /\ InOrder(a, a.next - base - 1)

Stream(a) ==
    \/ InOrder(a, 0) /\ a.next = NoSeqYet /\ a.pending = NoPackets /\ a.current = <<>>
    \/ \E base \in Nat : Placed(a, base)

LEMMA Started ==
  ASSUME NEW n \in 1..LastPacket
  PROVE  \E base \in Nat : /\ SameMod(SeqRange, base + 1, FirstSeq)
                           /\ base + n = SeqRange + ((FirstSeq + n - 1) % SeqRange)
<1>1. PICK N \in Nat, R \in Nat : N = LastPacket /\ R = SeqRange /\ R > 2 * N
  BY Bounds DEF LastPacket
<1>2. PICK x \in Int, s \in 0..(R - 1) : x = FirstSeq + n - 1 /\ s = x % SeqRange /\ SameMod(SeqRange, x, s)
  <2>1. SeqRange \in Nat \ {0} /\ FirstSeq + n - 1 \in Int
    BY <1>1, Bounds
  <2>2. PICK x \in Int : x = FirstSeq + n - 1
    BY <2>1
  <2> QED
    BY <1>1, <2>1, <2>2, ModSame
<1>3. PICK base \in Nat : base = R + s - n
  BY <1>1, <1>2
<1>4. SameMod(SeqRange, base + 1, FirstSeq)
  <2>1. PICK k \in Int : x = s + SeqRange * k
    BY <1>2 DEF SameMod
  <2>2. PICK y \in Int, l \in Int : y = SeqRange * k /\ l = -k + 1
    BY Bounds
  <2>3. SeqRange * l = -y + R
    BY <1>1, <2>2, Bounds
  <2>4. base + 1 = FirstSeq + (-y + R)
    <3>1. x = s + y /\ x = FirstSeq + n - 1 /\ base = R + s - n
      BY <1>2, <1>3, <2>1, <2>2
    <3>2. FirstSeq \in Int /\ s \in Int /\ n \in Int
      BY Bounds
    <3> QED
      BY <3>1, <3>2
  <2> QED
    BY <2>2, <2>3, <2>4 DEF SameMod
<1>5. base + n = SeqRange + ((FirstSeq + n - 1) % SeqRange)
  <2>1. base + n = R + s
    BY <1>2, <1>3
  <2> QED
    BY <1>1, <1>2, <2>1
<1> QED
  BY <1>4, <1>5

LEMMA AssembledKeeps ==
  ASSUME StartsAt = {1}, Stream(asm), NEW n \in 1..LastPacket
  PROVE  \E base \in Nat : Placed(assembled(n), base)
<1>1. PICK seq, expected, e :
          /\ seq = (FirstSeq + n - 1) % SeqRange
          /\ expected = IF asm.next = NoSeqYet THEN SeqRange + seq ELSE asm.next
          /\ e = extend(seq, expected)
  OBVIOUS
<1>a. PICK added, a :
          /\ added = [x \in DOMAIN asm.pending \cup {e} |-> IF x = e THEN n ELSE asm.pending[x]]
          /\ a = [asm EXCEPT !.next = expected, !.pending = added]
  OBVIOUS
<1>2. PICK overdue \in BOOLEAN :
          /\ added = [x \in DOMAIN asm.pending \cup {e} |-> IF x = e THEN n ELSE asm.pending[x]]
          /\ a = [asm EXCEPT !.next = expected, !.pending = added]
          /\ overdue <=> (e - expected > MaxReorder \/ Cardinality(DOMAIN added) > MaxReorder)
  BY <1>a
<1>3. assembled(n) = CASE e < expected -> [asm EXCEPT !.next = expected]
                       [] e = expected -> drain(a)
                       [] e > expected /\ ~overdue -> a
                       [] OTHER -> drain([give_up(a) EXCEPT !.next = Min(DOMAIN added),
                                                            !.events = <<Event("lost", <<>>)>>])
  BY <1>1, <1>2 DEF assembled
<1>4. PICK N \in Nat : N = LastPacket
  BY Bounds DEF LastPacket
<1>5. PICK b : b = [asm EXCEPT !.next = expected]
  OBVIOUS
<1>6. PICK base \in Nat : Placed(b, base) /\ b.next = expected /\ b.pending = asm.pending
  <2>1. CASE InOrder(asm, 0) /\ asm.next = NoSeqYet /\ asm.pending = NoPackets /\ asm.current = <<>>
    <3>1. PICK base \in Nat : SameMod(SeqRange, base + 1, FirstSeq) /\ base + n = expected
      BY <1>1, <2>1, Started
    <3>2. /\ DOMAIN b = DOMAIN asm /\ b.next = expected /\ b.pending = NoPackets /\ b.current = <<>>
          /\ b.skipping = asm.skipping /\ b.events = asm.events
      BY <1>5, <2>1 DEF InOrder
    <3>3. HeldAt(b, base)
      BY <1>4, <3>1, <3>2 DEF HeldAt, NoPackets
    <3>4. InOrder(b, b.next - base - 1)
      BY <2>1, <3>2 DEF InOrder, UpTo
    <3> QED
      BY <2>1, <3>1, <3>2, <3>3, <3>4 DEF Placed
  <2>2. ASSUME NEW base \in Nat, Placed(asm, base) PROVE Placed(b, base) /\ b.next = expected /\ b.pending = asm.pending
    <3>1. asm.next \in (base + 1)..(base + N + 1)
      BY <1>4, <2>2 DEF Placed, HeldAt
    <3>2. expected = asm.next
      BY <1>1, <3>1 DEF NoSeqYet
    <3>3. /\ DOMAIN b = DOMAIN asm /\ b.next = asm.next /\ b.pending = asm.pending
          /\ b.current = asm.current /\ b.skipping = asm.skipping /\ b.events = asm.events
      BY <1>5, <2>2, <3>2 DEF Placed, InOrder
    <3> QED
      BY <2>2, <3>2, <3>3 DEF Placed, HeldAt, InOrder
  <2> QED
    BY <2>1, <2>2 DEF Stream
<1>7. /\ expected \in (base + 1)..(base + N + 1) /\ SameMod(SeqRange, base + 1, FirstSeq)
      /\ DOMAIN asm.pending \subseteq (base + 1)..(base + N)
      /\ \A x \in DOMAIN asm.pending : asm.pending[x] = x - base
      /\ InOrder(b, expected - base - 1)
  BY <1>4, <1>6 DEF Placed, HeldAt
<1>8. e = base + n
  <2>1. PICK m \in 1..(PerFrame * MaxFrames + 1) : m = expected - base /\ expected = base + m
    BY <1>4, <1>7 DEF LastPacket
  <2>2. n \in 1..(PerFrame * MaxFrames)
    BY DEF LastPacket
  <2> QED
    BY <1>1, <1>7, <2>1, <2>2, Extended
<1>9. HeldAt(a, base) /\ InOrder(a, a.next - base - 1) /\ a.next = expected /\ DOMAIN a = DOMAIN b
  <2>1. /\ DOMAIN a = DOMAIN b /\ a.next = expected /\ a.pending = added /\ a.current = b.current
        /\ a.skipping = b.skipping /\ a.events = b.events
    BY <1>2, <1>5, <1>7 DEF InOrder
  <2>2. \A x \in DOMAIN added : x \in (base + 1)..(base + N) /\ added[x] = x - base
    BY <1>2, <1>4, <1>7, <1>8
  <2> QED
    BY <1>4, <1>7, <2>1, <2>2 DEF HeldAt, InOrder
<1>t. e \in Nat /\ expected \in Nat
  BY <1>4, <1>7, <1>8
<1>10. CASE e < expected
  <2>1. assembled(n) = b
    BY <1>t, <1>3, <1>5, <1>10
  <2> QED
    BY <1>6, <2>1
<1>11. CASE e = expected
  BY <1>t, <1>3, <1>7, <1>9, <1>11, DrainKeeps DEF Placed
<1>12. CASE e > expected /\ ~overdue
  BY <1>t, <1>3, <1>7, <1>9, <1>12 DEF Placed
<1>13. CASE e > expected /\ overdue
  <2>1. PICK d : d = [give_up(a) EXCEPT !.next = Min(DOMAIN added), !.events = <<Event("lost", <<>>)>>]
    OBVIOUS
  <2>2. assembled(n) = drain(d)
    BY <1>t, <1>3, <1>13, <2>1
  <2>3. /\ d.next = Min(DOMAIN added) /\ d.pending = added /\ d.current = <<>>
        /\ d.events = <<Event("lost", <<>>)>> /\ DOMAIN d = DOMAIN a
    BY <1>2, <1>9, <2>1 DEF give_up, InOrder
  <2>4. d.events \in Seq(Outcome)
    BY <2>3, EventKinds
  <2>5. InOrder(d, d.next - base - 1)
    BY <1>9, <2>3, <2>4 DEF InOrder, UpTo
  <2>6. Min(DOMAIN added) \in DOMAIN added
    <3>1. DOMAIN added \in SUBSET Nat /\ e \in DOMAIN added
      BY <1>2, <1>7, <1>8
    <3> QED
      BY <3>1, Smallest
  <2>7. a.pending = added
    BY <1>2, <1>9, <1>5, <1>7 DEF InOrder
  <2>8. HeldAt(d, base)
    BY <1>4, <1>9, <2>3, <2>6, <2>7 DEF HeldAt
  <2> QED
    BY <1>7, <2>2, <2>5, <2>8, DrainKeeps DEF Placed
<1>14. e < expected \/ e = expected \/ e > expected
  BY <1>7, <1>8
<1> QED
  BY <1>10, <1>11, <1>12, <1>13, <1>14

HeedStep(events, f, i) == IF i = 0 THEN source ELSE heeded(f[i - 1], events[i])

LEMMA HeedExists ==
  ASSUME NEW events, NEW k \in Nat
  PROVE  \E f : f = [i \in 0..k |-> HeedStep(events, f, i)]
<1> DEFINE S == {m \in Nat : \E f : f = [i \in 0..m |-> HeedStep(events, f, i)]}
<1>1. 0 \in S
  <2>1. PICK f : f = [i \in 0..0 |-> HeedStep(events, <<>>, 0)]
    OBVIOUS
  <2>2. f = [i \in 0..0 |-> HeedStep(events, f, i)]
    BY <2>1 DEF HeedStep
  <2> QED
    BY <2>2
<1>2. ASSUME NEW m \in Nat, m \in S PROVE m + 1 \in S
  <2>1. PICK f : f = [i \in 0..m |-> HeedStep(events, f, i)]
    BY <1>2
  <2>2. PICK g : g = [i \in 0..(m + 1) |-> IF i = m + 1 THEN HeedStep(events, f, m + 1) ELSE f[i]]
    OBVIOUS
  <2>3. \A i \in 0..m : g[i] = f[i]
    BY <2>2
  <2>4. \A i \in 0..(m + 1) : g[i] = HeedStep(events, g, i)
    <3> SUFFICES ASSUME NEW i \in 0..(m + 1) PROVE g[i] = HeedStep(events, g, i)
      OBVIOUS
    <3>1. g[i] = HeedStep(events, f, i)
      BY <2>1, <2>2
    <3>2. i # 0 => g[i - 1] = f[i - 1]
      BY <2>3
    <3> QED
      BY <3>1, <3>2 DEF HeedStep
  <2>5. g = [i \in 0..(m + 1) |-> HeedStep(events, g, i)]
    BY <2>2, <2>4
  <2> QED
    BY <2>5
<1> HIDE DEF S
<1>3. Nat \subseteq S
  BY <1>1, <1>2, NatInd
<1>4. k \in S
  BY <1>3
<1> QED
  BY <1>4 DEF S

Deciding(s) ==
    {"valid", "to_decode", "want_keyframe"} \subseteq DOMAIN s /\ s.to_decode \in Seq(WholeFrame)

(* What the source keeps of the assembler's outcomes to decode is whole.   *)
LEMMA HeededWhole ==
  ASSUME Deciding(source), NEW events \in Seq(Outcome)
  PROVE  Deciding(Heeded(events))
<1>1. PICK k \in Nat : k = Len(events)
  OBVIOUS
<1> DEFINE f == CHOOSE f : f = [i \in 0..k |-> HeedStep(events, f, i)]
<1>2. f = [i \in 0..k |-> HeedStep(events, f, i)]
  BY HeedExists
<1>3. Heeded(events) = f[k]
  BY <1>1 DEF Heeded, HeedStep
<1> HIDE DEF f
<1> DEFINE S == {i \in Nat : i \in 0..k => Deciding(f[i])}
<1>4. 0 \in S
  <2>1. 0 \in 0..k
    OBVIOUS
  <2>2. f[0] = HeedStep(events, f, 0)
    BY <1>2, <2>1
  <2>3. f[0] = source
    BY <2>2 DEF HeedStep
  <2> QED
    BY <2>3
<1>5. ASSUME NEW i \in Nat, i \in S PROVE i + 1 \in S
  <2> SUFFICES ASSUME i + 1 \in 0..k PROVE Deciding(f[i + 1])
    OBVIOUS
  <2>0. PICK s : s = f[i] /\ Deciding(s)
    BY <1>5
  <2>1. PICK ev \in Outcome : s = f[i] /\ ev = events[i + 1] /\ Deciding(s)
    BY <1>1, <2>0
  <2>2. f[i + 1] = heeded(s, ev)
    <3>1. i + 1 # 0 /\ (i + 1) - 1 = i
      OBVIOUS
    <3>2. f[i + 1] = HeedStep(events, f, i + 1)
      BY <1>2
    <3> QED
      BY <2>1, <3>1, <3>2 DEF HeedStep
  <2>3. CASE ev.kind = "frame"
    <3>1. ev \in WholeFrame
      BY <2>3 DEF Outcome, Loss
    <3>2. PICK valid \in BOOLEAN : valid <=> (s.valid \/ ev.key)
      OBVIOUS
    <3>3. /\ f[i + 1].to_decode \in {s.to_decode, Append(s.to_decode, ev)}
          /\ DOMAIN f[i + 1] = DOMAIN s
      BY <2>1, <2>2, <2>3 DEF heeded, Deciding
    <3>4. Append(s.to_decode, ev) \in Seq(WholeFrame)
      BY <2>1, <3>1, AppendProperties DEF Deciding
    <3> QED
      BY <2>1, <3>3, <3>4 DEF Deciding
  <2>4. CASE ev.kind # "frame"
    BY <2>1, <2>2, <2>4 DEF heeded, Deciding
  <2> QED
    BY <2>3, <2>4
<1> HIDE DEF S
<1>6. k \in S
  BY <1>4, <1>5, NatInd
<1> QED
  BY <1>3, <1>6 DEF S

(* Whatever is in progress, kept, decided, queued or taken is of whole     *)
(* frames.                                                                 *)
WholeInv ==
    /\ Stream(asm)
    /\ Deciding(source)
    /\ jobs \in Seq(WholeFrame)
    /\ hands \in [Threads -> WholeFrame \cup {NoFrame}]

LEMMA PushWhole ==
  ASSUME StartsAt = {1}, WholeInv, NEW n \in 1..LastPacket, push_packet(n)
  PROVE  WholeInv'
<1>1. PICK a : a = assembled(n)
  OBVIOUS
<1>2. PICK base \in Nat : Placed(a, base)
  BY <1>1, AssembledKeeps DEF WholeInv
<1>3. a.events \in Seq(Outcome)
  BY <1>2 DEF Placed, InOrder
<1>4. asm' = [a EXCEPT !.events = <<>>]
  BY <1>1 DEF push_packet
<1>5. Placed(asm', base)
  <2>1. /\ DOMAIN asm' = DOMAIN a /\ asm'.next = a.next /\ asm'.pending = a.pending
        /\ asm'.current = a.current /\ asm'.skipping = a.skipping /\ asm'.events = <<>>
    BY <1>2, <1>4 DEF Placed, InOrder
  <2> QED
    BY <1>2, <2>1 DEF Placed, InOrder, HeldAt
<1>6. PICK s : s = Heeded(a.events) /\ Deciding(s)
  BY <1>3, HeededWhole DEF WholeInv
<1>7. source' = [source EXCEPT !.at = "pushing", !.valid = s.valid, !.to_decode = s.to_decode,
                               !.want_keyframe = s.want_keyframe]
  BY <1>1, <1>6 DEF push_packet
<1>8. DOMAIN source' = DOMAIN source /\ source'.to_decode = s.to_decode
  BY <1>7 DEF WholeInv, Deciding
<1>9. Stream(asm)'
  BY <1>5 DEF Stream, Placed, SameMod, HeldAt, InOrder, UpTo, LastPacket, At, Outcome, Loss, WholeFrame, PacketsOf
<1>10. Deciding(source)'
  BY <1>6, <1>8 DEF Deciding, WholeInv, WholeFrame, PacketsOf
<1>11. UNCHANGED <<jobs, hands>>
  BY DEF push_packet
<1> QED
  BY <1>9, <1>10, <1>11 DEF WholeInv

LEMMA WholeStep ==
  ASSUME StartsAt = {1}, WholeInv, [SourceNext]_sourceVars
  PROVE  WholeInv'
<1> USE DEF WholeInv
<1>1. ASSUME UNCHANGED <<asm, source>>, jobs' \in Seq(WholeFrame),
             hands' \in [Threads -> WholeFrame \cup {NoFrame}]
      PROVE  WholeInv'
  BY <1>1 DEF Stream, Placed, HeldAt, InOrder, UpTo, Deciding
<1>2. ASSUME UNCHANGED asm, DOMAIN source' = DOMAIN source, source'.to_decode \in Seq(WholeFrame),
             jobs' \in Seq(WholeFrame), hands' \in [Threads -> WholeFrame \cup {NoFrame}]
      PROVE  WholeInv'
  BY <1>2 DEF Stream, Placed, HeldAt, InOrder, UpTo, Deciding
<1>3. CASE UNCHANGED sourceVars
  BY <1>1, <1>3 DEF sourceVars
<1>4. CASE Arrive
  <2>1. PICK n \in 1..LastPacket : push_packet(n)
    BY <1>4 DEF Arrive, LastPacket
  <2> QED
    BY <2>1, PushWhole
<1>5. CASE offer_frame
  <2>1. source.to_decode \in Seq(WholeFrame) /\ source.to_decode # <<>>
    BY <1>5 DEF offer_frame, Deciding
  <2>2. Head(source.to_decode) \in WholeFrame /\ Tail(source.to_decode) \in Seq(WholeFrame)
    BY <2>1, HeadTailProperties
  <2>3. Append(jobs, Head(source.to_decode)) \in Seq(WholeFrame)
    BY <2>2, AppendProperties
  <2>4. DOMAIN source' = DOMAIN source /\ source'.to_decode = Tail(source.to_decode)
    BY <1>5 DEF offer_frame, Deciding
  <2>5. jobs' \in {jobs, Append(jobs, Head(source.to_decode))} /\ UNCHANGED <<asm, hands>>
    BY <1>5 DEF offer_frame
  <2> QED
    BY <1>2, <2>2, <2>3, <2>4, <2>5
<1>6. CASE send_feedback \/ request_from_sender \/ TimePasses
  <2>1. DOMAIN source' = DOMAIN source /\ source'.to_decode = source.to_decode /\ UNCHANGED <<asm, jobs, hands>>
    BY <1>6 DEF send_feedback, request_from_sender, TimePasses, Deciding
  <2> QED
    BY <1>2, <2>1 DEF Deciding
<1>7. ASSUME NEW t \in Threads, take_job(t) PROVE WholeInv'
  <2>1. Head(jobs) \in WholeFrame /\ Tail(jobs) \in Seq(WholeFrame)
    BY <1>7, HeadTailProperties DEF take_job
  <2>2. jobs' = Tail(jobs) /\ hands' = [hands EXCEPT ![t] = Head(jobs)] /\ UNCHANGED <<asm, source>>
    BY <1>7 DEF take_job
  <2> QED
    BY <1>1, <2>1, <2>2
<1>8. ASSUME NEW t \in Threads, decode_ok(t) \/ decode_error(t) PROVE WholeInv'
  <2>1. hands' = [hands EXCEPT ![t] = NoFrame] /\ UNCHANGED <<asm, jobs>>
    BY <1>8 DEF decode_ok, decode_error, done
  <2>2. DOMAIN source' = DOMAIN source /\ source'.to_decode = source.to_decode
    BY <1>8 DEF decode_ok, decode_error, Deciding
  <2> QED
    BY <1>2, <2>1, <2>2 DEF Deciding
<1> QED
  BY <1>3, <1>4, <1>5, <1>6, <1>7, <1>8 DEF SourceNext

(* When only a frame's first packet looks like its start, nothing but      *)
(* whole frames reach the decoder's queue and its threads, whatever the    *)
(* network does to the packets and wherever their sequence numbers wrap    *)
(* (assembler.rs push, consume, finish, give_up; source.rs push).          *)
THEOREM FramesAlwaysWhole == StartsAt = {1} /\ SourceSpec => []FramesWhole
<1> SUFFICES ASSUME StartsAt = {1} PROVE SourceSpec => []FramesWhole
  OBVIOUS
<1>1. SourceInit => WholeInv
  <2> SUFFICES ASSUME SourceInit PROVE WholeInv
    OBVIOUS
  <2>1. InOrder(asm, 0) /\ asm.next = NoSeqYet /\ asm.pending = NoPackets /\ asm.current = <<>>
    BY DEF SourceInit, InOrder, UpTo
  <2>2. Deciding(source) /\ jobs \in Seq(WholeFrame)
    BY DEF SourceInit, Deciding
  <2>3. hands \in [Threads -> WholeFrame \cup {NoFrame}]
    BY DEF SourceInit
  <2> QED
    BY <2>1, <2>2, <2>3 DEF WholeInv, Stream
<1>2. WholeInv /\ [SourceNext]_sourceVars => WholeInv'
  BY WholeStep
<1>3. WholeInv => FramesWhole
  <2> SUFFICES ASSUME WholeInv, NEW j \in Handed PROVE j.packets = PacketsOf(FrameOf(j.packets[1]))
    BY DEF FramesWhole
  <2>1. j \in WholeFrame
    BY DEF Handed, WholeInv
  <2> QED
    BY <2>1, WholeOK
<1> QED
  BY <1>1, <1>2, <1>3, PTL DEF SourceSpec

-----------------------------------------------------------------------------
(* The jitter buffer of a stream. *)

LEMMA JitterBounds ==
    /\ SeqCount \in Nat \ {0} /\ Ahead \in Nat /\ Behind \in Nat /\ TargetDelay \in Nat
    /\ (SeqCount - 1) \div 2 \in Nat /\ Ahead < (SeqCount - 1) \div 2
    /\ Behind <= SeqCount - ((SeqCount - 1) \div 2) /\ Ahead + Behind < SeqCount
BY JitterAssumption

(* A packet that is held stands under its sequence number, not too far     *)
(* from its turn; one that came in time has not been passed.               *)
HeldPacket(p, s, t) ==
    /\ {"place", "age", "timely"} \subseteq DOMAIN p
    /\ p.place \in Int /\ s = p.place % SeqCount
    /\ t - Behind <= p.place /\ p.place <= t + Ahead
    /\ p.timely => p.place >= t

JitterInv ==
    /\ turn \in Nat
    /\ next_seq = NoSeq => DOMAIN packets = {} /\ played = NoSeq
    /\ next_seq # NoSeq => next_seq = turn % SeqCount
    /\ played # NoSeq => played \in Int /\ played < turn
    /\ \A s \in DOMAIN packets : HeldPacket(packets[s], s, turn)

(* How far apart two sequence numbers are is how far apart their places    *)
(* are, as long as that is less than there are numbers.                    *)
LEMMA Distance ==
  ASSUME NEW n \in Int, NEW t \in Int
  PROVE  /\ 0 <= n - t /\ n - t < SeqCount => wrapping_sub(n % SeqCount, t % SeqCount) = n - t
         /\ 0 < t - n /\ t - n < SeqCount => wrapping_sub(n % SeqCount, t % SeqCount) = SeqCount - (t - n)
<1>1. PICK x \in Int : x = n - t
  OBVIOUS
<1>2. wrapping_sub(n % SeqCount, t % SeqCount) = x % SeqCount
  BY <1>1, ModFirst, JitterBounds DEF wrapping_sub
<1>3. ASSUME 0 <= x, x < SeqCount PROVE x % SeqCount = x
  <2>1. x \in 0..(SeqCount - 1) /\ SameMod(SeqCount, x, x)
    <3>1. 0 \in Int /\ x = x + SeqCount * 0
      BY JitterBounds
    <3> QED
      BY <1>3, <3>1, JitterBounds DEF SameMod
  <2> QED
    BY <2>1, ModIs, JitterBounds
<1>4. ASSUME 0 < -x, -x < SeqCount PROVE x % SeqCount = x + SeqCount
  <2>1. x + SeqCount \in 0..(SeqCount - 1) /\ SameMod(SeqCount, x, x + SeqCount)
    <3>1. -1 \in Int /\ x = (x + SeqCount) + SeqCount * (-1)
      BY JitterBounds
    <3> QED
      BY <1>4, <3>1, JitterBounds DEF SameMod
  <2> QED
    BY <2>1, ModIs, JitterBounds
<1>5. SeqCount \in Nat
  BY JitterBounds
<1> QED
  BY <1>1, <1>2, <1>3, <1>4, <1>5

(* What drop_stale leaves is at its turn or later.                         *)
LEMMA NotStale ==
  ASSUME NEW t \in Nat, NEW p, NEW s, HeldPacket(p, s, t),
         s = t % SeqCount \/ is_sequence_newer(s, t % SeqCount)
  PROVE  p.place >= t
<1>1. PICK n \in Int : n = p.place /\ s = n % SeqCount /\ t - Behind <= n /\ n <= t + Ahead
  BY DEF HeldPacket
<1> SUFFICES ASSUME n < t PROVE FALSE
  BY <1>1
<1>2. wrapping_sub(s, t % SeqCount) = SeqCount - (t - n) /\ t - n <= Behind
  <2>1. 0 < t - n /\ t - n < SeqCount /\ t - n <= Behind
    BY <1>1, JitterBounds
  <2> QED
    BY <1>1, <2>1, Distance
<1>3. ~is_sequence_newer(s, t % SeqCount)
  BY <1>2, JitterBounds DEF is_sequence_newer
<1>4. s # t % SeqCount
  <2> SUFFICES ASSUME s = t % SeqCount PROVE FALSE
    OBVIOUS
  <2>1. wrapping_sub(t % SeqCount, t % SeqCount) = 0
    <3>1. 0 <= t - t /\ t - t < SeqCount /\ t - t = 0
      BY JitterBounds
    <3> QED
      BY <3>1, Distance
  <2> QED
    BY <1>1, <1>2, <2>1, JitterBounds
<1> QED
  BY <1>3, <1>4

LEMMA PushPlaces ==
  ASSUME JitterInv, NEW n \in 0..LastPlace, push(n)
  PROVE  JitterInv'
<1>1. PICK s, expected, added :
          /\ s = n % SeqCount /\ expected = IF next_seq = NoSeq THEN n ELSE turn
          /\ added = [t \in DOMAIN packets \cup {s} |->
                        IF t = s THEN [place |-> n, age |-> 0, timely |-> n >= expected] ELSE packets[t]]
  OBVIOUS
<1>2. /\ n >= turn - Behind /\ n <= turn + Ahead /\ n \in Nat
      /\ turn' = expected /\ next_seq' = expected % SeqCount /\ UNCHANGED played
      /\ packets' = IF Cardinality(DOMAIN added) > MaxBuffer THEN Without(added, First(added)) ELSE added
  BY <1>1, JitterAssumption DEF push, JitterInv
<1>3. expected \in Nat /\ next_seq' # NoSeq
  <2>1. expected \in Nat
    <3>1. turn \in Nat /\ n \in Nat
      BY <1>2 DEF JitterInv
    <3> QED
      BY <1>1, <3>1
  <2>2. expected % SeqCount \in 0..(SeqCount - 1)
    <3>1. expected \in Int /\ SeqCount \in Nat \ {0}
      BY <2>1, JitterBounds
    <3> QED
      BY <3>1, Divides
  <2> QED
    BY <1>2, <2>1, <2>2, JitterBounds DEF NoSeq
<1>4. \A t \in DOMAIN added : HeldPacket(added[t], t, expected)
  <2> SUFFICES ASSUME NEW t \in DOMAIN added PROVE HeldPacket(added[t], t, expected)
    OBVIOUS
  <2>1. CASE t = s
    <3>2. added[t] = [place |-> n, age |-> 0, timely |-> n >= expected]
      BY <1>1, <2>1
    <3>3. expected - Behind <= n /\ n <= expected + Ahead
      BY <1>1, <1>2, JitterBounds
    <3>4. /\ DOMAIN added[t] = {"place", "age", "timely"} /\ added[t].place = n
          /\ added[t].timely = (n >= expected)
      BY <3>2
    <3>5. n \in Int /\ t = n % SeqCount
      BY <1>1, <2>1
    <3> QED
      BY <3>3, <3>4, <3>5 DEF HeldPacket
  <2>2. CASE t # s
    <3>1. t \in DOMAIN packets /\ added[t] = packets[t] /\ expected = turn
      BY <1>1, <2>2 DEF JitterInv
    <3> QED
      BY <3>1 DEF JitterInv
  <2> QED
    BY <2>1, <2>2
<1>5. \A t \in DOMAIN packets' : t \in DOMAIN added /\ packets'[t] = added[t]
  BY <1>2 DEF Without
<1>6. played # NoSeq => played \in Int /\ played < expected
  BY <1>1 DEF JitterInv
<1> QED
  BY <1>2, <1>3, <1>4, <1>5, <1>6 DEF JitterInv, HeldPacket


(* The loop passes no packet that is held, and plays the one at its turn.  *)
LEMMA PopPlaces ==
  ASSUME JitterInv, pop
  PROVE  /\ JitterInv'
         /\ played' # played =>
               /\ played' \in Int /\ played' >= turn
               /\ \A s \in DOMAIN packets : packets[s].timely => packets[s].place >= played'
<1>1. PICK kept, k, s :
          kept = drop_stale(packets) /\ k = Skipped(kept) /\ s = (next_seq + k) % SeqCount
  OBVIOUS
<1>2. PICK plays \in BOOLEAN : plays <=> (s \in DOMAIN kept /\ kept[s].age >= TargetDelay)
  OBVIOUS
<1>3. /\ next_seq # NoSeq /\ next_seq = turn % SeqCount /\ turn \in Nat
      /\ \A t \in DOMAIN packets : HeldPacket(packets[t], t, turn)
  BY DEF pop, JitterInv
<1>4. /\ packets' = IF plays THEN Without(kept, s) ELSE kept
      /\ next_seq' = (next_seq + (IF plays THEN k + 1 ELSE k)) % SeqCount
      /\ turn' = turn + (IF plays THEN k + 1 ELSE k)
      /\ played' = IF plays THEN kept[s].place ELSE played
  BY <1>1, <1>2 DEF pop
(* j packets on from the turn is the place of a packet that is kept. *)
<1>5. ASSUME NEW t \in DOMAIN kept
      PROVE  /\ t \in DOMAIN packets /\ kept[t] = packets[t] /\ HeldPacket(kept[t], t, turn)
             /\ kept[t].place - turn \in 0..Ahead
             /\ t = (next_seq + (kept[t].place - turn)) % SeqCount
  <2>1. t \in DOMAIN packets /\ (t = next_seq \/ is_sequence_newer(t, next_seq)) /\ kept[t] = packets[t]
    BY <1>1, <1>5 DEF drop_stale
  <2>2. HeldPacket(kept[t], t, turn)
    BY <1>3, <2>1
  <2>3. kept[t].place >= turn
    BY <1>3, <2>1, <2>2, NotStale
  <2>4. PICK n \in Int, j \in Int : n = kept[t].place /\ t = n % SeqCount /\ n <= turn + Ahead /\ j = n - turn
    BY <1>3, <2>2 DEF HeldPacket
  <2>5. j \in 0..Ahead /\ turn + j = n
    <3>1. n >= turn /\ turn \in Int /\ Ahead \in Nat
      BY <1>3, <2>3, <2>4, JitterBounds
    <3>2. n <= turn + Ahead /\ j = n - turn
      BY <2>4
    <3> QED
      BY <3>1, <3>2
  <2>6. ((turn % SeqCount) + j) % SeqCount = (turn + j) % SeqCount
    <3>1. SeqCount \in Nat \ {0} /\ turn \in Int
      BY <1>3, JitterBounds
    <3> QED
      BY <3>1, ModFirst
  <2> QED
    BY <1>3, <2>1, <2>2, <2>4, <2>5, <2>6
<1>6. PICK K : /\ k \in K /\ K \subseteq Nat
               /\ \A i \in K : k <= i
               /\ \A t \in DOMAIN kept : kept[t].place - turn \in K
  <2> DEFINE K == {i \in 0..(SeqCount - 1) :
                     LET u == (next_seq + i) % SeqCount
                     IN  \/ u \in DOMAIN kept
                         \/ DOMAIN kept = {}
                         \/ /\ sequence_distance(u, First(kept)) <= GapLimit
                            /\ kept[First(kept)].age <= MaxDelay}
  <2>1. k = Min(K)
    BY <1>1 DEF Skipped
  <2>2. \A t \in DOMAIN kept : kept[t].place - turn \in K
    <3> SUFFICES ASSUME NEW t \in DOMAIN kept PROVE kept[t].place - turn \in K
      OBVIOUS
    <3>1. PICK j \in 0..Ahead : j = kept[t].place - turn /\ (next_seq + j) % SeqCount \in DOMAIN kept
      BY <1>5
    <3>2. j \in 0..(SeqCount - 1)
      BY JitterBounds
    <3> QED
      BY <3>1, <3>2
  <2>3. K # {}
    <3>1. CASE DOMAIN kept = {}
      <4>1. 0 \in 0..(SeqCount - 1)
        BY JitterBounds
      <4> QED
        BY <3>1, <4>1
    <3> QED
      BY <2>2, <3>1
  <2>4. K \subseteq Nat
    BY JitterBounds
  <2> HIDE DEF K
  <2> QED
    BY <2>1, <2>2, <2>3, <2>4, Smallest
<1>7. k \in Nat
  BY <1>6
<1>8. ASSUME plays
      PROVE  s \in DOMAIN kept /\ kept[s].place = turn + k
  <2>1. s \in DOMAIN kept
    BY <1>2, <1>8
  <2>2. PICK j \in 0..Ahead : j = kept[s].place - turn /\ s = (next_seq + j) % SeqCount /\ k <= j
    BY <1>5, <1>6, <2>1
  <2>3. kept[s].place \in Int
    BY <1>5, <2>1 DEF HeldPacket
  <2>4. j = k
    <3>1. SeqCount \in Nat \ {0} /\ turn \in Int /\ j \in Int /\ k \in Int
      BY <1>3, <1>7, JitterBounds
    <3>2. (turn + j) % SeqCount = (turn + k) % SeqCount
      <4>1. s = ((turn % SeqCount) + j) % SeqCount /\ s = ((turn % SeqCount) + k) % SeqCount
        BY <1>1, <1>3, <2>2
      <4> QED
        BY <3>1, <4>1, ModFirst
    <3>3. PICK n \in Int, m \in Int : n = turn + j /\ m = turn + k
      BY <3>1
    <3>4. 0 <= n - m /\ n - m < SeqCount /\ 0 <= m - m /\ m - m < SeqCount /\ m - m = 0 /\ n - m = j - k
      <4>1. n - m = j - k /\ m - m = 0
        BY <3>1, <3>3
      <4>2. k <= j /\ 0 <= k /\ j <= Ahead /\ Ahead \in Nat /\ Ahead < SeqCount
        BY <1>7, <2>2, JitterBounds
      <4> QED
        BY <3>1, <4>1, <4>2
    <3>5. wrapping_sub(n % SeqCount, m % SeqCount) = n - m /\ wrapping_sub(m % SeqCount, m % SeqCount) = m - m
      BY <3>4, Distance
    <3>6. n - m = 0
      BY <3>2, <3>3, <3>4, <3>5
    <3> QED
      BY <3>1, <3>4, <3>6
  <2> QED
    BY <1>3, <2>1, <2>2, <2>3, <2>4
<1>9. PICK d \in Nat : d = (IF plays THEN k + 1 ELSE k) /\ turn' = turn + d /\ next_seq' = (next_seq + d) % SeqCount
  BY <1>4, <1>7
<1>10. turn' \in Nat /\ next_seq' = turn' % SeqCount /\ next_seq' # NoSeq
  <2>1. SeqCount \in Nat \ {0} /\ turn \in Int /\ d \in Int /\ turn + d \in Int
    BY <1>3, JitterBounds
  <2>2. ((turn % SeqCount) + d) % SeqCount = (turn + d) % SeqCount /\ (turn + d) % SeqCount \in 0..(SeqCount - 1)
    BY <2>1, ModFirst, Divides
  <2> QED
    BY <1>3, <1>9, <2>2 DEF NoSeq
<1>11. ASSUME NEW t \in DOMAIN packets'
       PROVE  HeldPacket(packets'[t], t, turn')
  <2>1. t \in DOMAIN kept /\ packets'[t] = kept[t] /\ (plays => t # s)
    BY <1>4, <1>11 DEF Without
  <2>2. PICK n \in Int : n = kept[t].place /\ HeldPacket(kept[t], t, turn) /\ n - turn \in 0..Ahead /\ k <= n - turn
    BY <1>5, <1>6, <2>1 DEF HeldPacket
  <2>3. plays => n - turn # k
    <3> SUFFICES ASSUME plays, n - turn = k PROVE FALSE
      OBVIOUS
    <3>1. t = s
      BY <1>1, <1>5, <2>1, <2>2
    <3> QED
      BY <2>1, <3>1
  <2>4. n >= turn'
    BY <1>3, <1>7, <1>9, <2>2, <2>3
  <2>5. n <= turn' + Ahead /\ turn' - Behind <= n
    BY <1>3, <1>9, <2>2, <2>4, JitterBounds
  <2> QED
    BY <2>1, <2>2, <2>4, <2>5 DEF HeldPacket
<1>12. played' # NoSeq => played' \in Int /\ played' < turn'
  <2>1. CASE plays
    BY <1>3, <1>4, <1>7, <1>8, <1>9, <2>1
  <2>2. CASE ~plays
    <3>1. played' = played
      BY <1>4, <2>2
    <3> QED
      BY <1>3, <1>9, <3>1 DEF JitterInv
  <2> QED
    BY <2>1, <2>2
<1>13. JitterInv'
  BY <1>10, <1>11, <1>12 DEF JitterInv, HeldPacket
<1>14. ASSUME played' # played
       PROVE  /\ played' \in Int /\ played' >= turn
              /\ \A t \in DOMAIN packets : packets[t].timely => packets[t].place >= played'
  <2>1. plays /\ played' = turn + k
    BY <1>4, <1>8, <1>14
  <2>2. ASSUME NEW t \in DOMAIN packets, packets[t].timely PROVE packets[t].place >= turn + k
    <3>1. PICK n \in Int : n = packets[t].place /\ t = n % SeqCount /\ n >= turn /\ n <= turn + Ahead
      BY <1>3, <2>2 DEF HeldPacket
    <3>2. t = next_seq \/ is_sequence_newer(t, next_seq)
      <4>1. 0 <= n - turn /\ n - turn < SeqCount /\ n - turn <= Ahead /\ turn \in Int
        BY <1>3, <3>1, JitterBounds
      <4>2. wrapping_sub(t, next_seq) = n - turn
        BY <1>3, <3>1, <4>1, Distance
      <4> QED
        BY <4>1, <4>2, JitterBounds DEF is_sequence_newer
    <3>3. t \in DOMAIN kept /\ kept[t] = packets[t]
      BY <1>1, <3>2 DEF drop_stale
    <3>4. k <= n - turn
      BY <1>6, <3>1, <3>3
    <3> QED
      BY <1>3, <1>7, <3>1, <3>4
  <2> QED
    BY <1>3, <1>7, <2>1, <2>2
<1> QED
  BY <1>13, <1>14

LEMMA JitterStep ==
  ASSUME JitterInv, [JitterNext]_jitterVars
  PROVE  /\ JitterInv'
         /\ played' \notin {played, NoSeq} =>
               /\ played' > played
               /\ \A s \in DOMAIN packets : packets[s].timely => packets[s].place >= played'
<1>1. CASE UNCHANGED jitterVars
  BY <1>1 DEF jitterVars, JitterInv, HeldPacket
<1>2. ASSUME NEW n \in 0..LastPlace, push(n)
      PROVE  JitterInv' /\ played' = played
  BY <1>2, PushPlaces DEF push
<1>3. CASE pop
  <2>1. JitterInv' /\ (played' # played => /\ played' \in Int /\ played' >= turn
               /\ \A s \in DOMAIN packets : packets[s].timely => packets[s].place >= played')
    BY <1>3, PopPlaces
  <2>2. turn \in Nat /\ (played = -1 \/ (played \in Int /\ played < turn))
    BY DEF JitterInv, NoSeq
  <2> QED
    BY <2>1, <2>2
<1>4. CASE clear
  BY <1>4 DEF clear, JitterInv, HeldPacket
<1>5. CASE Wait
  <2>1. /\ DOMAIN packets' = DOMAIN packets /\ UNCHANGED <<next_seq, turn, played>>
        /\ \A s \in DOMAIN packets : HeldPacket(packets[s], s, turn) => HeldPacket(packets'[s], s, turn)
    BY <1>5 DEF Wait, HeldPacket
  <2> QED
    BY <2>1 DEF JitterInv, HeldPacket
<1> QED
  BY <1>1, <1>2, <1>3, <1>4, <1>5 DEF JitterNext, jitterVars

(* Packets are played in the order they were sent, and giving up a missing *)
(* one passes none that came in time, however the network reorders and     *)
(* repeats them and wherever the sequence numbers wrap (jitter.rs push,    *)
(* pop, drop_stale_packets).                                               *)
THEOREM PlayedAlwaysInTurn == JitterSpec => PlayedInTurn
<1>1. JitterInit => JitterInv
  BY JitterBounds DEF JitterInit, JitterInv
<1>2. JitterInv /\ [JitterNext]_jitterVars => JitterInv'
  BY JitterStep
<1>3. JitterInv /\ [JitterNext]_jitterVars =>
        [played' \notin {played, NoSeq} =>
           /\ played' > played
           /\ \A s \in DOMAIN packets : packets[s].timely => packets[s].place >= played']_jitterVars
  BY JitterStep
<1> QED
  BY <1>1, <1>2, <1>3, PTL DEF JitterSpec, PlayedInTurn

-----------------------------------------------------------------------------
(* VideoFloor: who is told to have the floor has it, and may have it.      *)

FloorTypeOK ==
    /\ joined \subseteq Presenters /\ enabled \subseteq joined
    /\ screen \in [Presenters -> {"none", "new", "live", "idle", "failed"}]
    /\ floor \in Presenters \union {NoPresenter} /\ shown \in Presenters \union {NoPresenter}
    /\ steps \subseteq [op : {"left", "release", "take", "announce"}, id : Presenters]

(* Whoever takes the floor or announces it does so alone and may share.    *)
TakesAlone == \A s \in steps : s.op \in {"take", "announce"} => steps = {s} /\ s.id \in enabled

(* Only between the grant and its announcement do listeners not know.      *)
Known == \/ shown = floor
         \/ floor \in Presenters /\ steps = {Step("announce", floor)}

Announced == \A s \in steps : s.op = "announce" => floor = s.id

ShareInv == FloorTypeOK /\ TakesAlone /\ Known /\ Announced /\ DisabledNeverHolds

LEMMA StepFacts ==
  ASSUME NEW op, NEW id
  PROVE  /\ Step(op, id).op = op /\ Step(op, id).id = id
         /\ \A op2, id2 : Step(op, id) = Step(op2, id2) => op = op2 /\ id = id2
         /\ op \in {"left", "release", "take", "announce"} /\ id \in Presenters
              => Step(op, id) \in [op : {"left", "release", "take", "announce"}, id : Presenters]
  BY DEF Step

(* An operation that begins leaves only departures and releases to do. *)
LEMMA ReleaseKeeps ==
  ASSUME FloorTypeOK', NEW more, steps' = steps \union more,
         \A s \in more : s.op \in {"left", "release"},
         steps = {}, ShareInv, DisabledNeverHolds', UNCHANGED <<floor, shown>>
  PROVE  ShareInv'
<1>1. shown = floor
  BY DEF ShareInv, Known
<1>2. \A s \in steps' : s.op \in {"left", "release"}
  OBVIOUS
<1>3. TakesAlone' /\ Known' /\ Announced'
  BY <1>1, <1>2 DEF TakesAlone, Known, Announced
<1> QED
  BY <1>3 DEF ShareInv

LEMMA BeginKeeps ==
  ASSUME ~Racing, ShareInv, NEW p \in Presenters,
         \/ participant_joined(p) \/ participant_left(p)
         \/ add_source_kind(p) \/ remove_source_kind(p)
         \/ release_content_with(p) \/ stop_content \/ expire_content
         \/ \E enable \in BOOLEAN : set_participant_content_enabled(p, enable)
  PROVE  ShareInv'
<1>1. FloorTypeOK /\ DisabledNeverHolds /\ steps = {}
  BY DEF ShareInv, Calm, participant_joined, participant_left, add_source_kind,
         remove_source_kind, release_content_with, stop_content, expire_content,
         set_participant_content_enabled
<1>2. UNCHANGED <<floor, shown>>
  BY DEF participant_joined, participant_left, add_source_kind, remove_source_kind,
         release_content_with, stop_content, expire_content, set_participant_content_enabled
<1> DEFINE Rest(S) == \A s \in S : s.op \in {"left", "release"}
<1>3. CASE participant_joined(p)
  <2>1. FloorTypeOK' /\ DisabledNeverHolds' /\ steps' = steps \union {}
    BY <1>1, <1>3 DEF participant_joined, FloorTypeOK, DisabledNeverHolds
  <2> QED
    BY <1>1, <1>2, <2>1, ReleaseKeeps
<1>4. CASE participant_left(p)
  <2> DEFINE more == {Step("left", p)} \union (IF floor = p THEN {Step("release", p)} ELSE {})
  <2>1. steps' = steps \union more /\ Rest(more)
    BY <1>4, StepFacts DEF participant_left
  <2>2. FloorTypeOK'
    BY <1>1, <1>4, StepFacts DEF participant_left, FloorTypeOK
  <2>3. DisabledNeverHolds'
    BY <1>1, <1>4 DEF participant_left, DisabledNeverHolds
  <2> QED
    BY <1>1, <1>2, <2>1, <2>2, <2>3, ReleaseKeeps
<1>5. CASE add_source_kind(p)
  <2>1. FloorTypeOK' /\ DisabledNeverHolds' /\ steps' = steps \union {}
    BY <1>1, <1>5 DEF add_source_kind, FloorTypeOK, DisabledNeverHolds
  <2> QED
    BY <1>1, <1>2, <2>1, ReleaseKeeps
<1>6. CASE remove_source_kind(p)
  <2> DEFINE more == IF floor = p THEN {Step("release", p)} ELSE {}
  <2>1. steps' = steps \union more /\ Rest(more)
    BY <1>6, StepFacts DEF remove_source_kind
  <2>2. FloorTypeOK'
    BY <1>1, <1>6, StepFacts DEF remove_source_kind, SourceRemoved, FloorTypeOK
  <2>3. DisabledNeverHolds'
    BY <1>1, <1>6 DEF remove_source_kind, SourceRemoved, DisabledNeverHolds
  <2> QED
    BY <1>1, <1>2, <2>1, <2>2, <2>3, ReleaseKeeps
<1>7. CASE release_content_with(p)
  <2>1. steps' = steps \union {Step("release", p)} /\ Rest({Step("release", p)})
    BY <1>7, StepFacts DEF release_content_with
  <2>2. FloorTypeOK' /\ DisabledNeverHolds'
    BY <1>1, <1>7, StepFacts DEF release_content_with, FloorTypeOK, DisabledNeverHolds
  <2> QED
    BY <1>1, <1>2, <2>1, <2>2, ReleaseKeeps
<1>8. CASE stop_content
  <2>1. steps' = steps \union {Step("release", floor)} /\ Rest({Step("release", floor)})
    BY <1>8, StepFacts DEF stop_content
  <2>2. FloorTypeOK' /\ DisabledNeverHolds'
    BY <1>1, <1>8, StepFacts DEF stop_content, FloorTypeOK, DisabledNeverHolds
  <2> QED
    BY <1>1, <1>2, <2>1, <2>2, ReleaseKeeps
<1>9. CASE expire_content
  <2>1. steps' = steps \union {Step("release", floor)} /\ Rest({Step("release", floor)})
    BY <1>9, StepFacts DEF expire_content
  <2>2. FloorTypeOK' /\ DisabledNeverHolds'
    BY <1>1, <1>9, StepFacts DEF expire_content, FloorTypeOK, DisabledNeverHolds
  <2> QED
    BY <1>1, <1>2, <2>1, <2>2, ReleaseKeeps
<1>10. ASSUME NEW enable \in BOOLEAN, set_participant_content_enabled(p, enable)
       PROVE  ShareInv'
  <2> DEFINE more == IF ~enable /\ floor = p THEN {Step("release", p)} ELSE {}
  <2>1. steps' = steps \union more /\ Rest(more)
    BY <1>10, StepFacts DEF set_participant_content_enabled
  <2>2. FloorTypeOK'
    BY <1>1, <1>10, StepFacts DEF set_participant_content_enabled, FloorTypeOK
  <2>3. DisabledNeverHolds'
    BY <1>1, <1>10 DEF set_participant_content_enabled, DisabledNeverHolds
  <2> QED
    BY <1>1, <1>2, <2>1, <2>2, <2>3, ReleaseKeeps
<1> QED
  BY <1>3, <1>4, <1>5, <1>6, <1>7, <1>8, <1>9, <1>10

LEMMA ContinueKeeps ==
  ASSUME ~Racing, ShareInv, NEW p \in Presenters,
         LeftSource(p) \/ SourceFades(p) \/ release_floor(p)
  PROVE  ShareInv'
<1>1. FloorTypeOK /\ TakesAlone /\ Known /\ Announced /\ DisabledNeverHolds
  BY DEF ShareInv
<1>2. CASE SourceFades(p)
  BY <1>1, <1>2 DEF SourceFades, ShareInv, FloorTypeOK, TakesAlone, Known, Announced,
                    DisabledNeverHolds
<1>3. CASE LeftSource(p)
  <2>1. Step("left", p) \in steps /\ UNCHANGED <<joined, enabled, floor, shown>>
    BY <1>3 DEF LeftSource
  <2>2. \A s \in steps : s.op \notin {"take", "announce"}
    <3> SUFFICES ASSUME NEW s \in steps, s.op \in {"take", "announce"} PROVE FALSE
      OBVIOUS
    <3>1. steps = {s}
      BY <1>1 DEF TakesAlone
    <3> QED
      BY <2>1, <3>1, StepFacts
  <2>3. shown = floor
    BY <1>1, <2>2, StepFacts DEF Known
  <2>4. FloorTypeOK' /\ \A s \in steps' : s.op \notin {"take", "announce"}
    BY <1>1, <1>3, <2>2, StepFacts DEF LeftSource, FloorTypeOK
  <2>5. DisabledNeverHolds'
    BY <1>1, <1>3, StepFacts DEF LeftSource, DisabledNeverHolds
  <2>6. TakesAlone' /\ Announced' /\ Known'
    BY <2>1, <2>3, <2>4 DEF TakesAlone, Announced, Known
  <2> QED
    BY <2>4, <2>5, <2>6 DEF ShareInv
<1>4. CASE release_floor(p)
  <2>1. Step("release", p) \in steps /\ steps' \subseteq steps /\ floor' = NoPresenter
        /\ UNCHANGED <<joined, enabled, screen>>
    BY <1>4 DEF release_floor
  <2>2. \A s \in steps : s.op \notin {"take", "announce"}
    <3> SUFFICES ASSUME NEW s \in steps, s.op \in {"take", "announce"} PROVE FALSE
      OBVIOUS
    <3>1. steps = {s}
      BY <1>1 DEF TakesAlone
    <3> QED
      BY <2>1, <3>1, StepFacts
  <2>3. shown = floor
    BY <1>1, <2>2, StepFacts DEF Known
  <2>4. shown' = NoPresenter
    BY <1>4, <2>3 DEF release_floor
  <2>5. FloorTypeOK' /\ DisabledNeverHolds'
    BY <1>1, <2>1, <2>4, VideoFloorAssumption DEF FloorTypeOK, DisabledNeverHolds
  <2>6. TakesAlone' /\ Announced' /\ Known'
    BY <2>1, <2>2, <2>4 DEF TakesAlone, Announced, Known
  <2> QED
    BY <2>5, <2>6 DEF ShareInv
<1> QED
  BY <1>2, <1>3, <1>4

LEMMA TakeKeeps ==
  ASSUME ~Racing, ShareInv, NEW p \in Presenters,
         content_admits(p) \/ take_floor(p) \/ Announce(p)
  PROVE  ShareInv'
<1>1. FloorTypeOK /\ TakesAlone /\ Known /\ Announced /\ DisabledNeverHolds
  BY DEF ShareInv
<1>2. CASE content_admits(p)
  <2>1. steps = {} /\ shown = floor /\ UNCHANGED <<joined, enabled, floor, shown>>
    BY <1>1, <1>2 DEF content_admits, Calm, Known
  <2>2. steps' = {} \/ (steps' = {Step("take", p)} /\ p \in enabled)
    BY <1>2, <2>1 DEF content_admits, MayShare
  <2>3. FloorTypeOK'
    BY <1>1, <1>2, <2>1, <2>2, StepFacts DEF content_admits, FloorTypeOK
  <2>4. TakesAlone' /\ Announced' /\ Known' /\ DisabledNeverHolds'
    BY <1>1, <2>1, <2>2, StepFacts DEF TakesAlone, Announced, Known, DisabledNeverHolds
  <2> QED
    BY <2>3, <2>4 DEF ShareInv
<1>3. CASE take_floor(p)
  <2>1. steps = {Step("take", p)} /\ p \in enabled /\ UNCHANGED <<joined, enabled, screen, shown>>
    BY <1>1, <1>3, StepFacts DEF take_floor, TakesAlone
  <2>2. shown = floor
    BY <1>1, <2>1, StepFacts DEF Known
  <2>3. \/ floor' = p /\ steps' = {Step("announce", p)}
        \/ floor' = floor /\ steps' = {}
    BY <1>3, <2>1 DEF take_floor
  <2>4. FloorTypeOK'
    BY <1>1, <2>1, <2>3, StepFacts DEF FloorTypeOK
  <2>5. TakesAlone' /\ Announced' /\ Known'
    BY <2>1, <2>2, <2>3, StepFacts DEF TakesAlone, Announced, Known
  <2>6. DisabledNeverHolds'
    BY <1>1, <2>1, <2>3, StepFacts DEF DisabledNeverHolds
  <2> QED
    BY <2>4, <2>5, <2>6 DEF ShareInv
<1>4. CASE Announce(p)
  <2>1. steps = {Step("announce", p)} /\ floor = p
    BY <1>1, <1>4, StepFacts DEF Announce, TakesAlone, Announced
  <2>2. steps' = {} /\ shown' = floor /\ UNCHANGED <<joined, enabled, floor>>
    BY <1>4, <2>1 DEF Announce
  <2>3. FloorTypeOK'
    BY <1>1, <1>4, <2>1, <2>2 DEF Announce, FloorTypeOK
  <2>4. TakesAlone' /\ Announced' /\ Known' /\ DisabledNeverHolds'
    BY <1>1, <2>1, <2>2, StepFacts DEF TakesAlone, Announced, Known, DisabledNeverHolds
  <2> QED
    BY <2>3, <2>4 DEF ShareInv
<1> QED
  BY <1>2, <1>3, <1>4

LEMMA ShareAlways == ~Racing /\ FloorSpec => []ShareInv
<1> SUFFICES ASSUME ~Racing PROVE FloorSpec => []ShareInv
  OBVIOUS
<1>1. FloorInit => ShareInv
  BY DEF FloorInit, ShareInv, FloorTypeOK, TakesAlone, Known, Announced, DisabledNeverHolds
<1>2. ShareInv /\ [FloorNext]_floorVars => ShareInv'
  <2> SUFFICES ASSUME ShareInv, [FloorNext]_floorVars PROVE ShareInv'
    OBVIOUS
  <2>1. CASE UNCHANGED floorVars
    BY <2>1 DEF floorVars, ShareInv, FloorTypeOK, TakesAlone, Known, Announced, DisabledNeverHolds
  <2>2. CASE stop_content \/ expire_content
    <3>1. floor \in Presenters
      BY <2>2 DEF stop_content, expire_content, ShareInv, FloorTypeOK
    <3> QED
      BY <2>2, <3>1, BeginKeeps
  <2> QED
    BY <2>1, <2>2, BeginKeeps, ContinueKeeps, TakeKeeps DEF FloorNext
<1> QED
  BY <1>1, <1>2, PTL DEF FloorSpec

(* Whose content the host has disabled does not hold the floor, or a       *)
(* release is under way (set_participant_content_enabled, take_floor), for *)
(* any presenters when operations come one after another.                  *)
THEOREM DisabledHoldsNothing == ~Racing /\ FloorSpec => []DisabledNeverHolds
<1>1. ShareInv => DisabledNeverHolds
  BY DEF ShareInv
<1> QED
  BY <1>1, ShareAlways, PTL

(* What the room's events said last is who holds the floor (take_floor,    *)
(* release_floor), for any presenters when operations come one after       *)
(* another.                                                                *)
THEOREM ListenersAlwaysAgree == ~Racing /\ FloorSpec => []ListenersAgree
<1>1. ShareInv => ListenersAgree
  BY DEF ShareInv, Known, ListenersAgree
<1> QED
  BY <1>1, ShareAlways, PTL
=============================================================================
