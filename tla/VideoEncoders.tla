---------------------------- MODULE VideoEncoders ----------------------------
(***************************************************************************)
(* One encoder per flavor, shared by everyone who watches it: subscribers, *)
(* recordings, and the moves of the bitrate ladder and of load shedding    *)
(* (crates/forge-conference/src/video/room.rs and egress.rs).  Who watches *)
(* and which encoders exist are behind different locks, so an operation is *)
(* a list of steps; job[w] is where w's operation goes on.                 *)
(***************************************************************************)
EXTENDS Naturals, FiniteSets

CONSTANTS Watchers,  \* subscribers and recordings
          Flavors,   \* a codec, a size and a rate, on one output
          Nothing,
          AtOnce     \* whether the steps of two operations interleave

Jobs == [at : {"ensure", "ensureMove", "insert", "move", "check", "drop"},
         old : Flavors \cup {Nothing}, new : Flavors \cup {Nothing}]

ASSUME VideoEncodersAssumption == /\ Nothing \notin Flavors /\ Nothing \notin Jobs
                                  /\ AtOnce \in BOOLEAN

VARIABLES watching,  \* the flavor each watcher is inserted with
          flag,      \* the encoder whose wants_keyframe each watcher was given
          encoders,  \* the flavors that have an encoder
          wanted,    \* the encoders whose wants_keyframe is set
          job        \* [at, old, new] or Nothing

encoderVars == <<watching, flag, encoders, wanted, job>>

Goes(at, old, new) == [at |-> at, old |-> old, new |-> new]

Turn(w) == job[w] = Nothing /\ (AtOnce \/ \A x \in Watchers : job[x] = Nothing)

EncodersInit ==
    /\ watching = [w \in Watchers |-> Nothing]
    /\ flag = [w \in Watchers |-> Nothing]
    /\ encoders = {}
    /\ wanted = {}
    /\ job = [w \in Watchers |-> Nothing]

-----------------------------------------------------------------------------
(* Operations: subscribe_kind and record, unsubscribe_kind and stop_record, *)
(* and the moves of walk_the_ladder, shed_one and restore_one.              *)

\* The old subscription goes first.
subscribe_kind(w, f) ==
    /\ Turn(w)
    /\ watching' = [watching EXCEPT ![w] = Nothing]
    /\ job' = [job EXCEPT ![w] =
                  Goes(IF watching[w] = Nothing THEN "ensure" ELSE "check", watching[w], f)]
    /\ UNCHANGED <<flag, encoders, wanted>>

unsubscribe_kind(w) ==
    /\ Turn(w) /\ watching[w] # Nothing
    /\ watching' = [watching EXCEPT ![w] = Nothing]
    /\ job' = [job EXCEPT ![w] = Goes("check", watching[w], Nothing)]
    /\ UNCHANGED <<flag, encoders, wanted>>

\* The encoder has to exist before the watcher is pointed at it.
move_to_flavor(w, f) ==
    /\ Turn(w) /\ watching[w] \notin {Nothing, f}
    /\ job' = [job EXCEPT ![w] = Goes("ensureMove", watching[w], f)]
    /\ UNCHANGED <<watching, flag, encoders, wanted>>

-----------------------------------------------------------------------------
(* Steps *)

\* An encoder that is there is asked for a keyframe, as a new one is; opening
\* one may fail, which ends the operation.
ensure_encoder(w) ==
    /\ job[w] # Nothing /\ job[w].at \in {"ensure", "ensureMove"}
    /\ \/ /\ encoders' = encoders \cup {job[w].new}
          /\ wanted' = wanted \cup {job[w].new}
          /\ job' = [job EXCEPT ![w].at = IF @ = "ensure" THEN "insert" ELSE "move"]
       \/ /\ job[w].new \notin encoders
          /\ job' = [job EXCEPT ![w] = Nothing]
          /\ UNCHANGED <<encoders, wanted>>
    /\ UNCHANGED <<watching, flag>>

\* The new subscriber holds the flag of its encoder.
Insert(w) ==
    /\ job[w] # Nothing /\ job[w].at = "insert"
    /\ watching' = [watching EXCEPT ![w] = job[w].new]
    /\ flag' = [flag EXCEPT ![w] = IF job[w].new \in encoders THEN job[w].new ELSE Nothing]
    /\ job' = [job EXCEPT ![w] = Nothing]
    /\ UNCHANGED <<encoders, wanted>>

\* Subscriber::move_to: another flavor, the same flag, which is set.
move_to(w) ==
    /\ job[w] # Nothing /\ job[w].at = "move"
    /\ watching' = [watching EXCEPT ![w] = job[w].new]
    /\ wanted' = wanted \cup ({flag[w]} \cap encoders)
    /\ job' = [job EXCEPT ![w] = Goes("check", job[w].old, Nothing)]
    /\ UNCHANGED <<flag, encoders>>

Next_of(j) == IF j.new = Nothing THEN Nothing ELSE [j EXCEPT !.at = "ensure"]

\* Mutant: the subscription being dropped counts as a use.
still_used_always(f) == TRUE

still_used(f) == \E x \in Watchers : watching[x] = f

\* Looked up without the lock on the encoders.
release_flavor(w) ==
    /\ job[w] # Nothing /\ job[w].at = "check"
    /\ job' = [job EXCEPT ![w] = IF still_used(job[w].old) THEN Next_of(@)
                                 ELSE [@ EXCEPT !.at = "drop"]]
    /\ UNCHANGED <<watching, flag, encoders, wanted>>

\* A flag whose encoder is gone is nobody's.
Drop(w) ==
    /\ job[w] # Nothing /\ job[w].at = "drop"
    /\ encoders' = encoders \ {job[w].old}
    /\ wanted' = wanted \ {job[w].old}
    /\ flag' = [x \in Watchers |-> IF flag[x] = job[w].old THEN Nothing ELSE flag[x]]
    /\ job' = [job EXCEPT ![w] = Next_of(@)]
    /\ UNCHANGED watching

\* handle_feedback: a receiver that lost the picture.
request_keyframe(w) ==
    /\ Turn(w) /\ watching[w] # Nothing
    /\ wanted' = wanted \cup ({flag[w]} \cap encoders)
    /\ UNCHANGED <<watching, flag, encoders, job>>

\* FlavorEncoder::encode, for an encoder someone watches.
Keyframe(f) ==
    /\ f \in wanted /\ \E x \in Watchers : watching[x] = f
    /\ wanted' = wanted \ {f}
    /\ UNCHANGED <<watching, flag, encoders, job>>

EncodersNext ==
    \/ \E w \in Watchers :
          \/ \E f \in Flavors : subscribe_kind(w, f) \/ move_to_flavor(w, f)
          \/ unsubscribe_kind(w) \/ ensure_encoder(w) \/ Insert(w) \/ move_to(w)
          \/ release_flavor(w) \/ Drop(w) \/ request_keyframe(w)
    \/ \E f \in Flavors : Keyframe(f)

EncodersSpec == EncodersInit /\ [][EncodersNext]_encoderVars

-----------------------------------------------------------------------------
(* Properties *)

\* "The encoder has to exist before anyone is pointed at it, or a tick could
\* find a subscriber with nothing to send it" (move_to_flavor): whoever watches
\* a flavor has its encoder.
WatchersServed == \A w \in Watchers : watching[w] = Nothing \/ watching[w] \in encoders

\* "Drop an encoder no subscriber or recording wants any more" (release_flavor):
\* with no operation under way, every encoder is watched.
EncodersWatched ==
    (\A w \in Watchers : job[w] = Nothing) =>
        \A f \in encoders : \E w \in Watchers : watching[w] = f

\* "PLI/FIR re-key its encoder" (handle_feedback): a receiver's request for a
\* keyframe reaches the encoder that makes its picture.
PliReachesEncoder ==
    [][\A w \in Watchers : request_keyframe(w) => watching[w] \in wanted']_encoderVars
=============================================================================
