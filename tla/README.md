# Forge Media: TLA+ models, checks and proofs

Forge Media is a media server in Rust: it relays and mixes RTP for calls that a
SIP server, a WebRTC client or an HTTP API sets up, records them, injects audio,
hosts conferences, and fails over between instances. This directory holds TLA+
models of its control logic, TLC configurations that check them on small
instances, and TLAPS proofs for instances of any size.

- `tlc -config X.cfg M` checks a model; the pairs are in the tables of runs and
  of disagreements (there `M` is the part of the name before `_`, and
  `MC_SessionManager` for `SessionManager`).
- `tlapm M.tla` checks the proofs of the eight modules `*Proofs`.
- `PROJECT.json` maps every definition to the lines it models and lists runs,
  mutants, hazards, findings and theorems.

## Inventory

| Part | State | Operations | What is hard | What makes it correct |
|---|---|---|---|---|
| RTP port pool (`forge-rtp/port_pool.rs`) | Vec of free ports, HashSet of taken ones | allocate (random, specific, with a floor), deallocate | a release twice, of a foreign pair | every pair once, none lost |
| Allocation and bind (`forge-engine/session.rs`, `party.rs`, `manager.rs`) | pairs drawn, rejected, bound; drop guards | draw, bind, retry, undo, reserve | the host holds a port; errors halfway; callers interleave at each await | no leak, no shared pair, the reserved band is kept, a call returns |
| Session lifecycle (`manager.rs`, `session.rs`, `forwarding.rs`) | DashMap of sessions, session state, release flag, loop handles | create, start, stop, time out, cleanup, Drop | four parties may stop one session; a task that aborts itself; check-then-insert | pairs go back once, Terminated is final, loops end |
| Supervision and playback (`party.rs`, `injection.rs`) | supervisor slot, suppression counters, playbacks | add, set mode, remove, play, stop, hang up | a slot read before an await and used after it | no leg left in silence, the port goes back |
| High availability (`forge-ha`) | Redis lock and heartbeats, role, monitor, virtual IP | elect, renew, step down, beat, detect, fail over | crashes, lost commands, timeouts, stale knowledge | a primary owns the lock; a failed one is replaced in time |
| Session recovery (`forge-ha/state_sync.rs`, `failover.rs`, `session.rs`) | call records in Redis; the standby's sessions and pool | sync, load, rebuild | the pool of the new process knows nothing of the old pairs; one record that cannot be rebuilt | stored calls are carried over, none is lost for another's sake |
| Media path (`forwarding.rs`, `session.rs`) | learned addresses, codecs, playout queues, recording taps | receive, learn, transcode, schedule, pump, forward | two writers of one stream's clock, a queue emptied while one schedules | generated audio in order, on one timeline |
| AI integration (`ai_integration.rs`) | session map, stored records, attempts | attach, detach, drop, reconnect, restore, check | a crash between two saves; a reconnection that meets the old entry | a drop is survived; reconnection ends, also when the store fails |
| DTLS-SRTP, SRTP (`dtls_srtp.rs`, `forge-rtp/srtp.rs`) | role, keys, replay window, rollover counters | handshake, install, protect, unprotect | reordering around a wrap of 16 bits | no packet accepted twice, none refused for the wrap |
| RTP, RTCP, jitter (`forge-rtp`) | jitter buffer, receiver statistics | push, pop, report | wrapping numbers, duplicates | order kept |
| Video RTP (`forge-rtp/video`, `forge-conference/video/source.rs`, `pool.rs`) | packets held, frame in progress, picture's validity, keyframe request, decode queue | push, give up, decode, ask for a keyframe | gaps given up, frames without marker, several decoding threads, a gate | whole frames, decoded after their references; a keyframe that is needed is asked for |
| BFCP (`forge-bfcp`) | users, floor requests, subscriptions; UDP transactions | request, release, query, grant, deny, revoke, retransmit | lost and repeated datagrams, a grant while another holds | one request per user, none of a stranger, informed subscribers, in-order delivery, no request executed twice |
| Audio conferences (`forge-conference/conference.rs`) | mixer's members, lobby, hosts, lock, capacity | join, admit, leave, promote, lock, end | concurrent joins at the limit, the last host leaves | capacity kept, guests are moderated |
| Video conferences (`forge-conference/video/room.rs`, `egress.rs`, `content.rs`) | content floor and its source, encoders and their watchers | present, stop, attach, fail, subscribe, move, release | floor and source locked separately; an encoder dropped while one subscribes | the floor comes free; an encoder runs for its watchers |
| ICE, WebRTC (`forge-webrtc/transport.rs`, `forge-ice`) | candidates, checks, selected pair, DTLS state | signal, check, answer, nominate, renominate, time out, close | lost, late and repeated answers; nominations before a check | only verified pairs are selected; no way back to a worse one |
| DTMF (`forge-dtmf`, `forwarding.rs`) | current event, tone, deduplication window | packet, audio frame, publish | three end packets, the same digit in the audio, two legs | one digit per press, of the leg that pressed |
| SIPREC (`forge-siprec`) | recordings, dialogs, forks, mutes | start, confirm, fail over, pause, mute, stop, forward | packets between a check and a send, stop while forwarding | nothing is forwarded of a stopped, paused or muted one |
| Recording, HTTP API, sources | recorder state; keys, rate buckets; audio files | start, stop; authenticate, limit | slow subscribers, limits | see Plan |
| Codecs, image processing, SDP, containers, kernel path | - | conversions | - | not state machines: out of scope |

The parts meet as follows. API handlers call `SessionManager`, which draws pairs
from the one `PortPool` and keeps sessions in a map; each session runs a
forwarding loop as a task that holds an `Arc` to it; the timeout monitor is one
more task. `PlaybackManager` and the supervisor act on a session through its
suppression counters, and a playback writes to a leg through its playout queue,
which the loop or a pump task drains. The pool's Mutex, a session's `RwLock`s and
the map are what they share, and every `await` on them is a place where the others
run. A packet passes the WebRTC transport (ICE, DTLS), SRTP, and then the
forwarding loop, which hands it to DTMF detection and SIPREC forking, or a
conference, whose video goes through a source's assembler and the node's codec
threads. forge-ha's services share a Redis server between processes; the executable
does not start them yet (`forge-api/src/ha.rs` is a placeholder), so `HACluster` and
`SessionRecovery` wire them as their doc comments say.

## Modules

| Module | Models | Notes |
|---|---|---|
| `PortLedger` | what the pool promises: pairs are free or taken | abstract; extended by the engine modules |
| `PortPool` | `port_pool.rs` | implements `PortLedger` (`ImplementsLedger`): `free` is the Vec's content, `taken` the HashSet |
| `PortAllocation` | `allocate_and_bind`, `allocate_leg_sockets`, `release_all`, guards, `reserve_port_pair`, `add_party`'s draw | `pc` is the await the caller is at; a bind is a choice of outcome |
| `SessionManager` | `manager.rs`, the states, release and Drop of `session.rs`, the ends of the loop | actors: handlers, the monitor, one loop per session; `at` is the await, `on` the `Arc` held |
| `Supervision` | `party.rs`, `injection.rs`, the suppression counters | `Overlapping` says whether requests may run at the same time; `audio` is what a playback plays: once, in a loop, or a loop that has no frame |
| `HACluster` | `election.rs`, `heartbeat.rs`, `failover.rs`, the VIP's activation | time in renewal intervals; `Tick` only when nothing is due; `step_down` in three steps (`StepDown`, `DeleteLock`, `ClearPrimary`), of which an instance may have several under way unless `Serialized` |
| `SessionRecovery` | `state_sync.rs`, the recovery of `failover.rs`, `session.rs`'s rebuilding | the primary's calls, their records, the standby's takeover beside new calls of its own; `brokenOff` says that an error in the promotion, the scan or the reading of a record ended it |
| `AISessions` | `ai_integration.rs`: attach, detach, drop, reconnect, restore, health check | a record and an entry; `Unreachable` lets the provider refuse, `KeyMayMiss` the API key be missing, `MaxFaults` bounds the calls of the backend that fail, executed or not |
| `FloorServer` | forge-bfcp's `server.rs` | `told` is what each subscriber's last `FloorStatus` named |
| `FloorTransport` | forge-bfcp's `transport.rs` (`UdpPeer`), a client and the network | implements `OrderedDelivery` (`ImplementsDelivery`) |
| `OrderedDelivery` | what a peer promises of the server's messages | abstract |
| `VideoFloor` | the content floor of `video/room.rs` and `content.rs` | floor, gate, sources and announcements, each under its own lock; `Racing` lets requests overlap |
| `VideoEncoders` | encoders and watchers of `video/room.rs`, `egress.rs` | `job` is where a watcher's subscribe, move or release is; `AtOnce` lets them overlap |
| `VideoSource` | `video/assembler.rs`, `video/source.rs`, `video/pool.rs` | a push is a step for the assembler, one per frame offered and one for the feedback; the pool's threads move in between |
| `Conference` | `conference.rs`: admission, lobby, hosts, capacity, lock, end | a caller may join again; `pending` holds a request between its check and its effect; the end notes the members (`EndConference`) and removes them one by one until one has gone already (`EndNext`) |
| `IceTransport` | `forge-webrtc/transport.rs`, both peers, and the network | `net` keeps every datagram, so each may come late, again or never |
| `SrtpStream` | rollover counters and replay window of `srtp.rs`, sender and receiver | indices are compared with the packet's unbounded place |
| `Playout` | a leg's playout queue (`session.rs`, `forwarding.rs`), its callers and the pump | `raced` says that a caller's two locks and the pump overlapped |
| `JitterBuffer` | `jitter.rs` | a held packet knows its place and whether it came in time |
| `DtmfDigits` | `rfc2833.rs`, the states of `inband.rs`, `dedup.rs`, the publication in `forwarding.rs` | presses have phases; audio of both legs interleaves |
| `SiprecClient` | `src.rs`, `forking.rs`, the dialogs of `sip.rs` | `handlers` are calls between two locks; `Serialized` runs control calls one after another; `Joiners` come after the start, the others are the streams the recording is started with |
| `MC_Media`, `MC_Control` | parts that share no state, of which one moves per behaviour | a part's fair steps are disabled until it is the one that moves |
| `MC_SessionManager` | the symmetry of its pairs, sessions and handlers | |
| `PortAllocationProofs`, `HAClusterProofs` | theorems about the module they are named for | |
| `SessionManagerProofs` | theorems about `SessionManager`, `AISessions`, `SessionRecovery` | |
| `FloorProofs` | theorems about `FloorServer`, `FloorTransport` | |
| `MediaProofs` | theorems about `PortPool`, `SrtpStream`, `VideoEncoders` | |
| `SupervisionProofs` | theorems about `Supervision`, `Playout` | |
| `LegProofs` | theorems about `DtmfDigits`, `SiprecClient`, `IceTransport` | |
| `RoomProofs` | theorems about `Conference`, `VideoFloor`, `VideoSource`, `JitterBuffer` | |

**Granularity.** Code between two awaits, or two locks where other threads run, is
one step. `PortAllocation` has each draw and bind as a step; `SessionManager` takes
both legs' pairs at once, because what interleaves with a draw is `PortAllocation`'s
subject. `stop_forwarding` is a step per await: state lock, task lock (held to its
end, `TasksUnlocked`), the `compare_exchange` on `ports_deallocated`, one step per
pair given back, the final state. An aborted task may end at any of its awaits,
because any lock may be contended; that is how `LoopCancelled` is guarded.

**Drop.** A session is `Referenced` while the map, an actor or its loop has it;
when the last reference goes, the task that Drop spawns runs `DropTask`.

**Ghosts.** `lostBuilding` and `lostCancelled` (`SessionManager`) keep the pairs
that were forgotten and by which of the two ways; `waited` (`HACluster`) times a
failover and begins anew when any step relieves the instance (`Waits`); `accepted` (`SrtpStream`), `turn` and `played` (`JitterBuffer`), `sent`
(`Playout`), `keyDue` (`VideoSource`) and the presses' counts (`DtmfDigits`) record
what happened. They guard no step of the code's.

**Redis.** A command that fails may have been executed or not, and both are
modelled. Keys expire by `Tick`. `MaxErrors`, `MaxCrashes` and `MaxRequests` bound
how often each happens.

**Networks.** In `IceTransport`, `SrtpStream`, `FloorTransport`, `JitterBuffer` and
`VideoSource` a packet may arrive late, again, out of order or never. SRTP's
authentication is that a packet is accepted only under the index it was protected
with. `IceTransport` has no Binding Error Response: the code handles one
(transport.rs:1019) and nothing in it sends one, so that two of its transports never
meet it.

## Runs

Passing:

| Run | Module, cfg | Shows |
|---|---|---|
| `port_allocation` | PortAllocation, PortAllocation.cfg | a session and a supervisor draw at once with every bind outcome: `OneOwner`, `BandKept`, `AllocationReturns` |
| `sessions` | MC_SessionManager, SessionManager.cfg | two sessions, two handlers, the monitor, the loops and Drop: `PairsAreExclusive`, `NoPairLeaked`, `StatesAdvance` |
| `sessions_live` | MC_SessionManager, SessionManager_live.cfg | `TerminatedReleases`, `TerminatedLoopEnds` |
| `ha` | HACluster, HACluster.cfg | two crashes, one failed command, one request: without errors a primary owns the lock until it has deleted it to step down (`PrimaryOwnsLock`) and a failover is prompt (`FailoverIsPrompt`); a primary that is gone is replaced (`FailoverHappens`) |
| `media` | MC_Media, MC_Media.cfg | ten parts, see below |
| `control` | MC_Control, MC_Control.cfg | six parts, see below |

`media`:

- pool: whatever callers give back, also twice, every operation is a step of the
  ledger (`ImplementsLedger`);
- SRTP: no packet is accepted twice (`NeverTwice`), and a new one that arrives within
  the window is accepted, across the wrap too (`ArrivalsAccepted`);
- ICE: the selected pair has answered a check (`SelectedVerified`), and a late or
  repeated nomination does not bring back a worse one (`NeverDraggedBack`);
- playout: timestamps of generated audio advance (`TimestampsAdvance`) and what is due
  goes out in order (`DueInOrder`);
- conference, calls one after another: no guest is mixed in a room that waits for its
  moderator (`GuestsModerated`); those who came by the rules are within capacity
  (`CapacityKept`);
- encoders: none runs that nobody watches, once no request is under way (`EncodersWatched`);
- SIPREC, control calls one after another: nothing more is sent to the
  streams a recording was started with once it is stopped (`StopIsFinal`);
- jitter: packets are played in order, and none that came in time is passed over
  (`PlayedInTurn`);
- DTMF: a press is published at most once by its telephone-events (`DigitOnce`), whose
  copies are taken to arrive within the deduplication window;
- video source: what is decoded is a whole frame (`FramesWhole`), and a keyframe that
  is needed has been asked for or will be (`KeyframeAsked`).

`control`:

- BFCP server: `OneRequestPerUser`, `RequestersKnown`, `SubscribersInformed`; its
  transport: `ExecutedOnce`, `NoNoteLost`, `ImplementsDelivery`, `HeardOrBroken`;
- content floor: a presenter who is granted it while leaving does not keep it
  (`FloorComesFree`);
- supervision, requests one after another: the relay is held back exactly where a
  supervisor's mode wants it (`RelayRestored`), a hung-up call's supervisor gives its
  pair back (`PortGoesBack`), a playback ends with its call unless it loops over a source
  that has no frame (`PlaybackEndsWithCall`);
- AI: no record says for ever that a reconnection is under way, wherever in it the
  connection fails or the server crashes, unless the persistence backend has failed since
  the server started (`ReconnectionEnds`);
- takeover: every stored call goes on at the standby, unless its own record expired, its
  ports are in use there, it was started before its record was written, its session
  cannot be built or it was stopped (`CallsCarriedOver`), and none is missing when the
  failover says that it is complete (`NoneForgotten`): a session that cannot be recovered
  costs no other call. Both leave out a recovery that was broken off, by an error in the
  promotion, the scan or the reading of any record, which costs all of them.

Violated, each a disagreement between the code and what it says of itself:

| Run | Property | What happens |
|---|---|---|
| `sessions_build_fails` | `ConstructionKeepsPairs` | the guards are disarmed before the VAD and the codecs are built; an error there loses both pairs |
| `sessions_loop_aborts_itself` | `CleanupIsGuaranteed` | a loop that times out aborts its own task and may be dropped between two pairs |
| `ha_split_brain` | `OnePrimary` | one failed renewal, and the primary stays primary without its lock |
| `ai_reconnect` | `SurvivesDrops` | the dropped session's own entry makes every reconnection fail as "already exists" |
| `siprec_mute` | `ConsentKept` | forwarding looks at the pause and never at the mute |
| `dtmf_inband` | `DigitOfItsLeg` | one in-band detector serves both legs: leg B's frame ends leg A's tone and gets the digit |

### Bounds

- `PortAllocation`: four pairs for one session (two legs), one supervisor and
  reservations, two attempts: exhaustion, a retry after a conflict and the last
  attempt's failure all occur. The proofs cover any number.
- `SessionManager`: two sessions contend for three pairs on one call id, so that
  creation is refused, pairs are issued again and an id is replaced. Two handlers
  and the monitor are enough for any two of the four releasing parties to meet.
  The liveness run has one session and no symmetry.
- `HACluster`: two instances, the TTLs in the code's ratio (renewal 5 s, lock 15 s,
  heartbeat 10 s, its key 20 s: 1, 3, 2, 4), two crashes, one error and one request
  in any order, step-downs of an instance one after another (`Serialized`), so that an instance may crash right after it has taken over.
- `MC_Media`: ports 10 to 20, five pairs, with a floor, an exhausted pool and foreign
  or odd ports; SRTP with 6 sequence numbers, 4 rollovers and a window of 2, four
  packets sent and three under way, so that numbers wrap with a packet missing on
  either side; two ICE paths, a direct and a relayed one, with two checks each and a
  renomination; one playback, digits and stops, three requests; a moderator and two
  guests with no limit or a limit of two; two watchers of two flavours; one recording
  of a caller and of one who joins later, with three calls at once; 8 sequence numbers and 12 packets for a jitter buffer of
  three; two legs and two presses, a tone being two frames (5 in the code); video of
  three frames of two packets, each a keyframe, a delta, one without marker, one that
  cannot be put together or one too large, with a reorder window of 2 (16), numbers
  that wrap in the middle, a decode queue and a frame rate of 2, two decoding threads,
  and a source that fails at the second error (10).
- `MC_Control`: three users and three request ids, so that ids wrap and skip those in
  use; two transactions, two messages, two retransmissions (3), with
  `LateDatagrams = FALSE` (no copy of a request arrives after the client's next one)
  and `PromptTick = TRUE` (the owner ticks right after an acknowledgement), without
  either of which a property fails (see Disagreements); two presenters; two pairs, two
  supervisors, one announcement; two AI tasks, two attempts, two drops, one crash,
  one failure of the backend; two calls, two pairs, a failover that may break off at
  each of its reads, and one new call on the standby.

A packet's number wraps within these bounds in every module that compares numbers,
and no packet is half the numbers away from the one expected, as 2^15 packets are
not.

Deadlock is checked where the system never stops (`PortAllocation`, `HACluster`);
sessions are born once and playbacks started once in the other models, which
therefore may come to an end, and a client may fall silent.

### Fairness

Weak fairness of the steps of a task that can proceed: the tokio runtime polls a
woken task. Requests, packets, crashes and closings have none. `PortAllocation`
asks it of a call in progress and of spawned release tasks; `SessionManager` of
handlers inside a request, the monitor's pass, loops and Drop's task; `Supervision`
of a playback's ticks; `FloorTransport` of `tick` alone, which the owner's timer
calls, and nothing of the network or the client; `VideoFloor` of the room's compose
clock and of operations begun; `AISessions` of its tasks, of the restore at start and of
the health check's timer; `SessionRecovery` of the
failover orchestrator's task; `HACluster` of running instances' timers and of time.
`HACluster` also assumes that a step that is due is taken before time passes:
its timing properties are about the protocol, not about an overloaded host.

## Proofs

**`PortAllocationProofs`**: `TypeCorrect`, `OneOwnerAlways`, `BandKeptAlways`, for any
finite set of pairs, any callers, any floor up to the number of pairs, any number
of attempts. `OneOwner` alone is not inductive: `Draw` overwrites `drawn` and
`UndoLegA` gives back one pair and forgets the set. `Stages` says how many pairs a
caller has at each place, so that nothing is forgotten. `BandKept` rests on the
cardinality lemmas `DisjointUnion`, `OneMore` and `BandMonotone`: a retry asks for
its floor less what it has set aside.

**`SessionManagerProofs`**: `TypeCorrect`, `PairsAreExclusiveAlways`,
`NoPairLeakedAlways`, `StatesAdvanceAlways`, for any calls, sessions, handlers and
pairs. The strengthening `Ownership` adds that only a session whose
`ports_deallocated` is set is giving pairs back, that an unborn session has none,
and that lost pairs have no owner; `Control` adds that whatever the map or an actor
holds has been built. Without the first, a session could give back a pair that
another has drawn since.

`OneSessionAlways` and `LiveAlwaysFound`: when no two creations overlap (`OneCreation`,
a condition on the behaviour: at most one handler is between the check of the id and the
insertion), a call has one session that runs, and `stop_session` finds it, unless it is
on the way to be stopped. Beside the id that stays free (`Fresh`) that needs that no stop
disappears before it has changed the state: a loop that is aborted has its session over
(`Settled`), and a session's loop is spawned once (`SpawnedOnce`). SessionManager_disagreements.cfg
shows what happens otherwise.

The AI session, `AlwaysAttended`: a record says that a reconnection is under way only
while somebody is at it, or once the backend has failed since the server started, for
any tasks, crashes, drops and failures and with all of them overlapping. A task past
`mark` saves what became of its attempt before it ends, or the backend fails; a restart's
task has a copy of the record from `list_all` (`Attempting`). A reconnection
that has not yet marked the record may give up, but then the record does not say
Reconnecting on its account. The takeover, `NoneForgottenAlways`, for any calls and ports:
`Whereabouts` says where an owed call is in each phase of the failover, with a record,
among the keys not read yet, among what was read, or in a session. The theorem says
nothing of a failover that was broken off (`brokenOff`).

**`HAClusterProofs`**: `PrimaryOwnsLockAlways` and `NoSplitBrainWithoutErrors`, for any
instances, any lock TTL longer than a renewal interval, any heartbeat interval, and
any number of crashes and requests, as long as no Redis command has failed and an
instance is not asked to step down twice at once (`Serialized`). A primary then owns the
lock until its step-down has deleted it; two instances are primary at once only between
that DEL and the clearing of the flag (`clearing`), which the code awaits one after the
other (election.rs:140-143). That a primary owns the lock is not inductive, because time passes; `Renewing` adds that
its renewal task is running and due before the lock expires. `TypeAlways` bounds every
timer by its interval.

`FailoverAlwaysPrompt`, for any instances, intervals and number of crashes, without
errors and requests: nobody is without a primary for longer than the heartbeat key's TTL
and two checks in a row. A new primary that crashes at once begins a new wait: the bound
is one for each failure. While an instance waits there is no primary, so no one writes
the lock or a key that says primary, and what is left of their TTLs and the time waited
add up to a TTL at most (`KeysRunOut`); a check that finds a heartbeat therefore comes
early in the wait, even one that `detect_primary` found of another instance that is gone,
and a lost election, too (`ChecksInTime`). The hypothesis `LockIsShort` says that a lost
election leaves the time for two more checks: a lock TTL of at most three heartbeat
intervals and one renewal interval. The code's lock, three renewal intervals, is short
enough for every heartbeat interval of at least one renewal interval. One unit more and
TLC finds the bound exceeded (`LockTTL = 5`, `HbEvery = 1`).

**`FloorProofs`**, the server: `OneRequestPerUserAlways`, `RequestersKnownAlways`,
`SubscribersInformedAlways`, for any users and any width of request ids. The three
are inductive together with the types (`IInv`); `SameGranted` says that a request
that goes without having been granted changes nobody's holder, which is why the
code may stay silent then.

The transport, for any number of transactions, messages and retransmissions, and a
network that loses, repeats and reorders: `NoMessageLost` under nothing else;
`ExecutedAtMostOnce` when no copy of a request arrives after the client's next one
(`~LateDatagrams`), where `ExecutionInv` says that whatever can still arrive has its
response in the one-entry cache or has not been executed; and
`ImplementsOrderedDelivery` when the owner ticks right after an acknowledgement
(`PromptTick`): `OrderInv` says that what is outstanding comes right before what is
queued and that only what was sent is on the way, from which each step of the peer is
a step of `OrderedDelivery` or a stutter. Without either hypothesis TLC finds the
property violated (see Disagreements).

**`MediaProofs`**: `PoolNeverDoubles` and `PoolIsLedger` (each operation on the Vec and
the HashSet is one take, one give or nothing) for any port range. `NoReplay` and
`NoArrivalRefused` for any number of sequence numbers, any rollovers and any window:
`SrtpInv` says that rollover counter and window stand at the same packet, the newest
one accepted, and that the window's bits are the accepted packets within its reach.
`NoEncoderLeft` for any watchers and flavours and all interleavings, as `WatchedInv`: an encoder is watched, or someone
who is on the way to watch it or to look whether it is still used is there.
`WatchersHaveEncoders` for operations one after another (`~AtOnce`), the case in which
no run violates it.

**`SupervisionProofs`**: `RelaySafety`, `PortsReturned`, `SupervisorAlone`, for any
requests, announcements, legs and pairs when requests on one session come one after
another (`~Overlapping`). A counter is at any time the number of those who hold the
leg back; that needs the place of the one request under way, and the finite
cardinality lemmas. Overlapping requests violate all three (Supervision_overlap.cfg).
`QueueAlwaysInOrder` and `AudioAlwaysAdvances`, for any playbacks, number of requests
and length of the queue: `QueueOK` says that the cursor is where the last item ends,
and `OnTime` where the two copies of the cursor stand unless the pump ran between a
caller's two locks. `retain` is a recursive function: `Least` and `NatInd`, an
induction over the naturals in terms of sets, show that it is defined and keeps some
of the items in their order.

**`LegProofs`**: `DigitsOnce`, for any deduplication window and number of end packets:
until the last copy of an end can arrive, the deduplicator remembers it (`DigitInv`).
`StoppedStaysSilent` and `ServerKnowsPause`, for any recordings and handlers when
control calls are `Serialized`; packets still interleave with them: `ForkInv` says that
the streams of a recording being stopped are those its stop has left to remove and that
an ended one has none of those it was started with, `ToldInv` that the server was told what is so or a re-INVITE that
says it is under way. `SelectedIsVerified` and
`SelectionNeverBack`, for any candidates and priorities: `IceInv` says what each state
of a check implies, and that an answer on the network belongs to a check that was sent.

**`RoomProofs`**: `GuestsAlwaysModerated` and `CapacityAlwaysKept`, for any callers,
moderators and limits when requests come one after another (`~Overlap`): `StillTrue`
says that what a request has checked holds until it takes effect, which two that
overlap break (Conference_disagreements.cfg). `KeyframeAlwaysAsked`, for any frames,
network, thread count and limits: `KeyInv` says that a request for a keyframe is in
`pli_pending` or in the push under way until its PLI is sent.

`DisabledHoldsNothing` and `ListenersAlwaysAgree`, for any presenters when operations on
the content floor come one after another (`~Racing`): whoever takes the floor does so
alone and with content enabled (`TakesAlone`), and only between the grant and its
announcement do listeners not know the holder (`Known`).
VideoFloor_disagreements.cfg shows both violated otherwise.

`FramesAlwaysWhole`, for any length of the frames, any stream, reordering limit and
number of sequence numbers, when only a frame's first packet looks like its start
(`StartsAt = {1}`; VideoSource_disagreements.cfg otherwise): packets stand at `base + 1`,
`base + 2`, ... for a `base` that is fixed once the first has come (`Placed`), which is
where `extend` puts each of them (`Extended`); what is kept of the frame in progress is
all of it up to the packet whose turn came last (`InOrder`), so that a frame is handed
on only when its last packet has come, and a packet of the next one finds it complete.
`consume`, `drain`, `push` and the source's loop each keep that; both loops are recursive
functions. `PlayedAlwaysInTurn`, for any number of sequence numbers, buffer, gap limit
and delays: a packet that is held stands under its number and at most `Behind` before
or `Ahead` after its turn, and one that came in time has not been passed (`HeldPacket`);
what `drop_stale` leaves is then not late (`NotStale`), and the number of packets skipped is at
most the distance to the nearest of them. `ModFirst`, `ModIs` and the lemmas beside
them carry the arithmetic of both.

The assumptions are the named ones on the constants (`PairsAssumption`,
`AllocationAssumption`, `ManagerAssumption`, `ClusterAssumption`, `FloorAssumption` and
so on, in the module that declares the constants); TLC evaluates them in every run.
Where a theorem has a hypothesis (`~Overlapping`, `~Overlap`, `Serialized`,
`~LateDatagrams`, `PromptTick`, `~AtOnce`, `~Racing`, `StartsAt = {1}`, `LockIsShort`), it is about
the model's constants, the run's values satisfy it (but for `Racing`, which `control`
leaves on and the property it checks does not need), and the Disagreements (for
`LockIsShort`, the paragraph above) show what happens otherwise. `OneCreation` alone is
about the behaviour: the constants of a run say how many handlers there are, not what
they do.
`TypeOK` of the proved modules, `NoPortTwice` (the ledger's runs find what violates it)
and `ReconnectionAttended` are proved and not part of a run.

Only model-checked: liveness (`AllocationReturns`, `TerminatedReleases`, `TerminatedLoopEnds`,
`PlaybackEndsWithCall`, `FailoverHappens`, `HeardOrBroken`, `FloorComesFree`,
`ReconnectionEnds`, `CallsCarriedOver`), which the prover does not do under fairness.

## Disagreements

Beside the violated runs, these configurations show where the code does not
do what it or its documents say. They are kept for whoever decides about them.
Where a cfg names several properties, `tlc -continue` shows each that is an invariant
or an action property; a liveness property is best left in the cfg by itself.

| cfg | Property | Code and text |
|---|---|---|
| PortAllocation_second_leg.cfg | `SecondLegNotRefused` | another session may take the pair kept for leg B (session.rs:4035: "so the second is not the one refused") |
| SessionManager_disagreements.cfg | `OneSocketPerPort` | a stopped session's pairs go back before its sockets are closed (manager.rs:592: "so two allocators never hand out one port") |
| | `OneSessionPerCall` | check, await, insert: two creations of one call that overlap both succeed, and the map keeps the later one (manager.rs:304; session.rs:869: "Unique session/call ID") |
| | `CleanupStopsTimedOut` | the monitor stops a session that has resumed or replaced the one it saw (manager.rs:606) |
| Supervision_overlap.cfg | `RelayRestored` | with overlapping requests a removed supervisor's mode is applied (party.rs:174) |
| | `OneSupervisor` | overlapping `add_party` calls both install (party.rs:86) |
| | `PortGoesBack` | a supervisor added during a hangup keeps its port (session.rs:2186) |
| HACluster_disagreements.cfg | `PrimaryReturns` | a primary that stepped down and lives is watched as the primary by its heartbeat, whose role nobody reads; no one is elected again |
| HACluster_split.cfg with `MaxErrors = 0`, `MaxRequests = 1` | `OnePrimary` | no command fails: between the DEL of a step-down and the clearing of `is_primary` another instance is elected (election.rs:140) |
| HACluster_disagreements.cfg | `VipFollowsPrimary` | nothing calls `deactivate` (vip_manager.rs:16: "called when stepping down from primary") |
| MC_Control_faults.cfg | `SomeStateIsBetter` | one record that cannot be read costs every call (state_sync.rs:70; failover.rs:144: "Continue anyway - some state is better than no state") |
| | `FaultsPass` | a save that fails after a reconnection leaves the record Reconnecting, which the health check passes over, until the next restart (ai_integration.rs:1174, 1227; docs/AI_SESSION_PERSISTENCE.md:16: "Continue operating even if persistence fails") |
| | `EveryPlaybackEnds` | a looped source that can be reset and has no frame is read for ever, and nobody notices that its call is gone (injection.rs:381; 364: "The session is gone; playback ends") |
| FloorTransport_disagreements.cfg | `HeardInOrder` | after an acknowledgement and before the next tick, `notify` sends a new message ahead of the queued ones, and a subscriber hears an old status last (transport.rs:254: "Messages waiting their turn") |
| FloorTransport_disagreements.cfg | `ExecutedOnce` | a copy of a request that arrives after the next one is executed again, only the last response is kept (transport.rs:6: "cached and replayed when the request is retransmitted") |
| Conference_disagreements.cfg | `EndEmptiesRoom` | ending a conference leaves members behind (conference.rs:1635: "Remove all participants") |
| | `VideoFollows` | one who left the conference stays in its video room (comment on `enable_video`: "later joins and leaves follow automatically") |
| Conference_disagreements.cfg | `GuestsModerated` | a guest whose join was decided while the host was there enters after the host left |
| VideoFloor_disagreements.cfg | `DisabledNeverHolds`, `ListenersAgree` | overlapping requests: one whose content was disabled takes the floor (comment on `set_participant_content_enabled`: "keeps them from taking it again"); what was announced last is not who holds it |
| VideoEncoders_disagreements.cfg | `WatchersServed` | an encoder is dropped under a watcher who has just subscribed (room.rs:2766) |
| VideoEncoders_disagreements.cfg | `PliReachesEncoder` | a receiver moved to another encoder re-keys the first one (egress.rs:354; room.rs:1762: "re-key its encoder") |
| VideoSource_disagreements.cfg | `ReferencesDecoded` | two of the pool's threads take a source's next two frames and lock its decoder in the wrong order (pool.rs:120; source.rs:11: "dropped rather than decoded against missing references") |
| | `FramesWhole` | with several slices per frame each looks like a frame's start (mod.rs:95), so what a loss left of a frame passes as one, even as a keyframe (assembler.rs:8: "the frame spanning it is dropped") |
| IceTransport_failed.cfg | `FailedIsFinal` | a transport that failed by its timeout is connected by the peer's late DTLS flight (transport.rs:1110; :80: "no recovery is attempted") |
| SrtpStream_late.cfg | `IndexIsPlace` | a packet protected late, across a wrap, gets the next rollover's index (srtp.rs:345) |
| JitterBuffer_wrap.cfg | `OldestDropped` | at a wrap an overflow drops the newest packet, which has the least number (jitter.rs:101: "Drop oldest packet") |
| SiprecClient_overlap.cfg | `PauseTold` | overlapping pause and update: the server is last told the opposite (src.rs:662) |
| | `SilentWhilePaused` | a packet that passed the check is sent after the pause (src.rs:479) |
| | `StopIsFinal` | a stream added while the recording stops, under the name of one it was started with, keeps its fork |
| | `AllForkingStops` | the stream of one who joined later stays in the forker after the stop, also when control calls come one after another (src.rs:728: "Stop RTP forking for all streams") |

Found while modelling, without a configuration of their own:

- `HACluster`: `step_down` deletes the lock whoever owns it, so that the second of two
  that overlap deletes the lock of the instance elected after the first; a manual failover leaves
  the orchestrator watching the old primary, whose failure it then answers with an
  election that loses to the instance's own lock and makes it a standby; a failed
  promotion leaves `FailoverState::Promoting`, and manual failovers are refused until
  the next election; two missed heartbeats are required where docs/ha-setup.md speaks
  of three.
- `SessionRecovery`: `EndedStaysEnded` (docs/HA_IMPLEMENTATION_PLAN.md:173) and
  `BoundIsMarked` (session.rs:3318) do not hold: a stopped call's record may be left
  for the standby, and a recovered pair is not marked in its pool.
- `AISessions`: a record whose attempts are used up stays Disconnected and never
  becomes Failed (docs/AI_SESSION_PERSISTENCE.md:117); a failed disconnect leaves a
  record without its configuration; a record's TTL is never refreshed; a record stored
  as Active cannot be started.
- `VideoSource`: `ReferencesDecoded` also fails with one thread, when a frame over the
  frame rate is dropped (source.rs:343) or when one push yields two frames, the first
  meets a full queue and the second does not (source.rs:347); after a decoder's error
  the picture stays valid and delta frames go to a decoder that was reset, each
  counting towards the errors that fail the source. Nothing calls the assembler's
  `reset`: a sender that restarts its numbers is taken as late for up to half of them.
- `Playout`: `TimestampsAdvance` excuses the two windows marked `raced` (session.rs:2441,
  which comments on the first); a digit that replaces one reuses its timestamp.
- `SiprecClient`: `stop_recording` of an unconfirmed dialog fails after the stop time was
  set; a failed start leaves its dialog with the `DialogManager`; two recordings of one
  call share the SSRC map's entries.
- `DtmfDigits`: frames of the other leg reset a tone, which then may never be long
  enough; a telephone-event's end after the in-band one is published a second time;
  `enable_dedup` is not read.
- `PortPool`: an odd `max_port` gives one pair more than `capacity()` reports
  (port_pool.rs:59).

## Plan

Done: all models above, and proofs about all of them.

Next:

1. The retransmission cache and stream rewriting of video, DTLS roles and keying, TURN
   refresh, receiver statistics.
2. Session persistence, the recorder's states, rate limiting, PIN attempts.

## Not modelled

Signal and image processing, codecs, encodings (SDP, STUN, RTP headers, BFCP
messages, containers), cryptography, the eBPF path, hardware bindings, storage and
HTTP plumbing, which are most of the repository's lines: their correctness is in
data, not in control. The recording server of SIPREC, Continue events, the digit
buffer and the relay of DTMF, the providers' protocols and barge-in, the composition
and the speaker's choice, address learning and transcoding are not modelled.

Blocking of runtime threads by a DashMap guard held across an await (manager.rs:614,
injection.rs:249, forking.rs) is below the models' level, where an await lets every
other task run. `release_port_pair` run twice (manager.rs:586) would free another
owner's pair; the code's callers run it once. The parts the plan names and no module
has yet are `not_modelled` in `PROJECT.json`.
