# A verification project for Andara's World

TLA+ models of `andara-server` and of the programs around it: how its World is
ticked, recorded, checkpointed and recovered, how a Character moves through it,
how a player's line becomes a Command and its Events come back, and how content
and state are stored and read again. TLC checks the models on small instances;
TLAPS proves the central results for every value of the constants. Names follow
the source. `PROJECT.json` maps each definition to the lines it models and lists
components, runs, mutants, findings, hazards and theorems.

## 1. The system

`andara-server` is a MUD server whose ordering authority is Kafka. The Gateway
turns a player's Intent into a Command on the `commands` topic; the simulation
polls its Partitions ten times a second, applies what it got in offset order,
and writes the Events it emitted and one Tick Boundary Record (tick, offsets,
State Hash) to the `events` topic. A restart restores a snapshot round and
replays the log, tick by tick, along the recorded boundaries; a World whose hash
is not reproduced is not started.

### Inventory

| Component | State it keeps | Operations | Talks to | What is hard | What makes it correct |
|---|---|---|---|---|---|
| boundary sequencer (`tickloop/boundary_seq.go`, `kafka.go`) | outstanding and held boundaries, the loss | publish, resolve, handOver | producer, loop, snapshotter | two goroutines, produce outside the mutex, timeouts racing acks, a shared bounded buffer | no gap on the topic; acks truthful; a loss is final |
| tick loop, snapshot rounds (`tickloop/loop.go`, `snapshot.go`) | published tick, pending checkpoints, the round in flight | tick, commitAcked, drain, Maybe, Force, run | source, engine, publisher, store | reports arrive between any two lines of a tick; a round is written long after it was copied | a checkpoint never claims an unrecorded tick; a stored object has its boundary; a loss ends the process |
| Command source, log readers (`tickloop/kafka.go`, `seams.go`, `reader.go`) | a buffer per Partition, what is paused, read positions | fetch, Poll, requeue, SeekAfter, HeadTick, Next | both topics | the tick puts back while the fetcher appends; late writes out of tick order; a trimmed start | every Command once, in order; nothing held is refused or skipped |
| simulation engine, Characters (`sim`) | Zones, offsets, Entities, Transit, Placed | Step, ReplayEach, move, Arrive, HandoffAck, Bind, Purge, expiry, DueHandoffs | only by Commands on other Zones' logs | lost, repeated, late Commands; crash between produce and boundary; replay must be exact | one body, never lost, never revived; the hash is reproduced |
| recovery (`recovery`, `boot/recover.go`) | none | Recover | store, both topics | any prefix of anything may be on disk | refuses only what it cannot reproduce |
| snapshot store, lifecycle (`store`, `lifecycle`) | rounds, tags, the one pre-stop | put, Sweep, TagRound, PrepareStop | file system or S3, snapshotter | sweep against tag and against a round being written; the pre-stop's budget | a recovery point stays; a tagged round is kept |
| ingress (`ingress`) | turn queue, idempotency keys, bindings, Partition health | Submit, settle, await, Bind, probe | command pipeline, producer, Events | deadline with the record live; eviction; transit hold; callbacks that overtake each other | one Command per `client_ref`; order per Session; a healthy client is kept |
| roster (`roster`) | live, switching and deleting claims | Select, Release, Delete, ObserveLinkdead, Sweep | accounts, ingress, sim | select, delete and teardown race; produces that land late | one live Character per Account; no live Character is deleted |
| gateway (`gateway`) | Sessions by ID and connection, the drain | open, close, recheck, Shutdown | every service | four closers at once, and an open under them | every Session is released once, and none left behind |
| events hub, egress (`events`, `egress`) | subscriptions, history ring, streams | Publish, deliver, attach, resume, Rebind, Park | loop, gateway | slow readers; resume against eviction | a stream misses nothing without being told |
| accounts (`auth`, `recordlog`) | index over a compacted topic | every write of an Account or reservation | record log | append before index; unsure appends; dying between two writes | the index is the topic; secrets are spent once |
| content (`content`, `content/lang`) | registry index, serving, held and staged packs, the directory | publish, approve, activate, load, Apply, Follow, gate, reconcile | sim (ContentSwap), compacted topics, the CLI | packs validated against content that changes; three programs judge the same pack | versions are whole; what is in effect was validated as a whole; a World begins once |
| projector (`projector`) | replica, keys, checkpoint | Run, dump, reconcile, commit | all topics | dying between produce and commit; a round newer than the checkpoint | the topic is the World |
| process, config (`cmd`, `boot`, `config`) | readiness flags, exit code; layers of keys | start, wait, serve, drain, exit; load, validate | all of the above | three goroutines and a signal; rounding after validation | readiness and exit code are true; what runs is what was accepted |
| admin CLI's `play` (`admin/cli/play.go`) | Session, pending refs, resume point | submit, stream loop, enter, leave | gateway | retries under a Session that is replaced | a line is taken once; what is "not sent" was not |

## 2. Modules

| Module | Models | Run |
|---|---|---|
| `BoundaryLog` | abstract: what the server is promised about the boundaries on the events topic | refined by `BoundarySeq`, used by `TickLoop` |
| `BoundarySeq`, `BoundarySeqProofs` | the sequencer, the publisher's buffer, the broker as it relies on them; the theorems | `BoundarySeq` |
| `Handoff`, `HandoffProofs` | one Character and every Command that moves it, crashes included; the theorems | `Handoff`, `HandoffCrash`, `HandoffCrashBody` |
| `TickLoop`, `TickLoopProofs` | loop, checkpoints, rounds, store, recovery, over `BoundaryLog`'s actions; the theorems | `TickLoop` |
| `Ingress`, `IngressProofs` | a Session's Submits from entry to answer: queue, keys, pipeline, producer; the theorems | `Ingress` |
| `Bindings` | the routing table and the hold of an Intent in transit | `Serving` |
| `PartitionHealth` | read-only state, probes, callbacks, clients of a Partition | `Serving` |
| `Roster` | Sessions, live flags, selects, teardowns, deletes | `Serving`, `RosterReconnect`, `RosterDelete` |
| `Stream` | hub, history, egress, and a client that reopens its stream | `Serving` |
| `Gateway` | connections, Sessions, calls, closers, drain | `Serving` |
| `Accounts` | the Account store over its topic | `Serving` |
| `Boot` | the process: start, goroutines, probes, exits | `Serving` |
| `Config` | layers, validation and conversions of the two binaries | `Serving` |
| `Play` | the Text Interface: lines, retries, stream loop, leaving | `Serving` |
| `Content` | a published version on its way into effect: registry pointers, Loader, Engine's half | `Stored`, `ContentBehind`, `NewestMove` |
| `Genesis` | the first swap of a World fed from a directory | `Stored` |
| `Publish` | publish, approve, activate against the Registry | `Stored` |
| `Templates` | compiler, upload and the server's chain validation | `Stored` |
| `Worlds` | compiler, gate and loader judging the same Zones; BuildWorld | `Stored` |
| `Projector` | the replica and its compacted topic | `Stored` |
| `Retention` | rounds, sweep, tags, pre-stop | `Stored` |
| `BoundaryReader` | search, head and batches of the boundary Partition | `Stored` |
| `CommandFeed` | fetch buffers, round robin, put-back; a replica's ranges | `Stored` |
| `LogScan` | reading a compacted topic up to a captured end | `Stored` |
| `PlayerProofs` | lemmas and invariants of `PartitionHealth`, `Bindings`, `Roster`, `Stream` | |
| `ServingProofs` | those of the other parts of `MCServing`; the theorems about all of them | |
| `ContentProofs` | the theorems about `Content`, `Genesis`, `Templates`, `Worlds` | |
| `StoredProofs` | the theorems about the other parts of `MCStored` | |
| `MCHandoff`, `MCTickLoop`, `MCIngress`, `MCServing`, `MCStored`, `MCContent` | the instances TLC checks | |

How state and steps correspond to the code: a step is a stretch between two locks,
waits, produces or RPCs, so what the code does under one lock is one action, and
what it does in two sections can be interleaved. External are the broker and
franz-go (records in order, a timeout fails what is buffered behind it, an append
may fail or land though reported failed, a write may land late), the stores
(objects are whole), `net/http`, and the people; each action of theirs is
`"external": true` in the map.

**BoundarySeq.** `handOver`, which runs outside the mutex, is three steps per
record (room check once per batch, stopped flag, produce), for each of the two
goroutines `Threads`. The promise queue is `sent`, `failed`, `refused`; a slot is
freed when a promise has returned. `Restart` is the next process, which recovers
to the head of the topic. The timeout of `publish` is a choice at every call with
something outstanding. A tick is one whose Events can be rendered: `Publish` returns
a rendering error before it looks at the boundary (section 4), which is left out.

**Handoff.** Each Zone holds the Character's presence, handoff sequence, transit
record and mark; every map in a `ZoneState` is keyed by Entity ID and no handler
reads another Entity's entry, so one Character stands for all. A step applies one
record of one Zone's log, so all batchings are covered. `durable` and `since` are
the state at the newest delivered boundary and what was applied after it: a
`Crash` goes back to the first and puts the second back on the logs, where it can
be interleaved anew, since Zones are on different Partitions. What a tick produced
stays on the logs. The roster and the routing table are an environment that may
be stale (`known`).

**TickLoop.** `Step` is a function of the World and the batch, so a World is its
history, and equal histories are equal State Hashes. A tick is two steps, so that
an ack or a loss can be reported between publication and checkpoint. A record in
`Poison` panics, which freezes its Partition before it.

**Ingress.** A Submit is a goroutine; a produce that passes its deadline leaves its
record live, and the entry of its key open until the producer knows its fate.
The table of keys is a set; the line (`turns`), the producer's queue (`enq`) and
the log are sequences, so that what the code promises about their order can be
stated. Dropped clients, refusals at a drain and evicted or expired keys are
steps.

**Roster.** Call k of `SelectCharacter` is also the `live` it installs. A failed
produce frees what it claimed; one past its deadline is in `late`. `clog` is what
the log holds of a Character and `body` what it has been applied to. `muddied` is
history: a record nobody answers for may be in the log, of a failed produce, a
crash, an orphaned switch, or a teardown that finds its flag gone or overtakes its
call. It assumes that the linkdead grace outlasts a teardown (`LinkdeadExpires`),
and that a teardown's timer wins only over a switch (`TeardownProduces`).

**Stream** numbers the Events in one player's sight; a subscription is one
perception, so a rebinding makes a new one. It does so in the three sections of
`egress.go:626-645` (`NewObserver`, `Swap`, `LetGo`): an Event published between
them reaches both subscriptions. **Accounts** makes one operation one step, since a
single lock is held, and puts the failures between its writes; `Open` bootstraps an
Operator or not, as `auth.bootstrap_operator` is set at that start or, by default,
not.
**Publish** does the same for the Registry's lock and interleaves clients.
**Projector** keeps, for each tick, the records produced and not yet landed (`out`):
the records of one tick have different keys, so their order tells nothing.
**Content** has two goroutines that load (boot and `Follow`, and `ReloadContent`).
**Templates** and **Worlds** are pure: a behaviour chooses the inputs and each
judge's verdict is an operator, checked against the others and against a
definition of what is wanted. **Retention** lists Zone by Zone, beside rounds that
are being put; `caught` is history: the rounds that a listing has torn and that were
whole by its end. **LogScan** assumes that a tombstone outlives a scan
(`delete.retention.ms`) and that `TopicKeys` reads while its projector is not
writing.

**MCServing and MCStored** are sums: a behaviour follows the one `part` it starts
with, by that part's own specification, while the others stay as they begin. The
parts share no variable, and their composition in the code is through the calls
modelled at each end, so their product would add states and no behaviour of any
part. A property of a sum is the conjunction of its parts' properties.

## 3. Runs

| Run | Instance | Shows |
|---|---|---|
| `BoundarySeq` | 7 ticks, buffer 4, 2 restarts | no gap, truthful acks, exact slots, the inductive invariant, refinement of `BoundaryLog`; a boundary taken is settled, or a loss declared |
| `Handoff` | 3 Zones, 4 Gateway Commands, 1 lost Command, 2 copies, content swap, no crash | `InOnePlace` (one body, never lost, a purged one never revived), `NewestWins`, `HereOrBetween`, `SpawnsOnce`, and that a transit settles |
| `HandoffCrash` | 2 Zones, 4 Commands, 1 crash, 1 lost | what holds of each Zone through any crash |
| `HandoffCrashBody` (violation) | 2 Zones, 1 crash | two bodies: finding 1 |
| `TickLoop` | 2 Partitions, 2 records, one of them panicking, 2 ticks, a checkpoint at each, 2 restarts | checkpoints are of delivered ticks and never go back; `Recovers`: rounds verify, one timeline, refusals only after a fault; a loss ends the process |
| `Ingress` | 3 Submits with and without a key, 2 in the queue, 2 records, 1 dropped client | `LoggedOnce`, `AnswersTruthful`, `InOrder`, `OpenIsOwned`, `DrainedIsQuiet` |
| `Serving` | 9 parts, below | `RosterSafe`, `SessionsSafe`, `AccountsSafe`, `SeesWhole`, `ProcessSafe`, `HealthyClientKept` |
| `RosterReconnect` (violation) | 2 Characters, 2 Sessions, 3 selects | a second live body: finding 2 |
| `RosterDelete` (violation) | 2 Characters, 2 Sessions, 2 selects, 1 delete, no failed produce | a deleted Character with a live body: finding 4 |
| `Stored` | 10 parts, below | `ContentSafe`, `PublishSafe`, `LanguageSafe`, `ReadersSafe`, `TopicIsWorld`, `TagKeepsRound`, `RecoveryPointStays` |
| `ContentBehind` (violation) | core and a pack, 1 timed-out swap | content that is not what its versions name: finding 3 |
| `NewestMove` (violation) | 2 core and 2 pack versions, 4 moves, 5 swaps, 1 restart, 2 unanswered reads | a retry that undoes a newer move: finding 5 |

The conjuncts of the sums' properties, and what each refuses:

| Property | Part | Says |
|---|---|---|
| `RosterSafe` | roster | a live flag always has someone who will free it; while no record that nobody answers for is about (`muddied`), a Character that is not ACTIVE has no flag, no claim of a switch and, if no produce failed, no body, and a linkdead hold has its body |
| | bindings | an Intent that waits, waits for its own transit, and is given its own Session's Character |
| `SessionsSafe` | gateway | no Session outlives its connection or its release; the gauge agrees with the map; a call cut by the drain is told so; "closed" means released |
| | play | a line is taken on one Session only; "not sent" was not taken and is not on its way; what is awaited may still come; the prompt's look has been launched |
| `AccountsSafe` | accounts | a secret is spent once, a reserved name stays; once a start found or made an active Operator, one remains |
| `SeesWhole` | stream | what the player saw is everything its perceptions were handed since the last notice of a gap, in order, and once within a perception |
| `ProcessSafe` | boot | ready only when serving a World (nothing is said of readiness during a drain, `main.go:346-350`); the exit code says why it stopped |
| | config | the highest layer wins; both binaries run within what was validated |
| `HealthyClientKept` | health | no stale callback drops the client of a healthy Partition |
| `ContentSafe` | content | if nothing disturbed the swaps, effect, digest and versions agree; what a pointer names is served, refused or held once the loader is quiet, but for the Builder's pack after a retry outlived a newer move of it (`outlived`) |
| | genesis | a World begins once, with what was in the directory, and a boot that serves, serves what is in effect |
| `PublishSafe` | publish | versions name blobs that are stored, take turns, and are approved by another |
| `LanguageSafe` | templates | chains keep their ancestors; the server accepts what the compiler did; a decompiled pack compiles to itself |
| | worlds | a built World is whole; the gate tells a Builder what will be refused; compiler and build agree; a diff tells all |
| `ReadersSafe` | reader | while no write is late: no false gap, the end is the head, no boundary skipped |
| | feed | each Command applied once and in order, by server and replica |
| | scan | a scan of a compacted topic can finish and holds what was newest when it began |
| `TopicIsWorld` | projector | caught up, the topic is the World's aggregates and nothing else |
| `TagKeepsRound`, `RecoveryPointStays` | retention | a tag reported is kept; the newest complete round and the pinned one stay, unless a listing straddled that round's writes (`caught`) |

**Bounds.** Named in the CONSTANTS. In `BoundarySeq` a full buffer, a batch of several
held boundaries, a refusal in mid-batch and a loss in a second process all need at
most 7 ticks and 4 slots; the theorems remove the bound. In `Handoff`, 3 Zones allow a
round trip and a stale Arrive at a Zone already left, 4 Commands a Bind, two moves and
a Purge or second Bind; `MaxCopies` stands for the backoff of retries. In `TickLoop`
two ticks hold a checkpoint, a round on either side of it and a loss after it, and two
restarts a recovery from what a recovery wrote. In `Ingress` three Submits are an
original, its retry and one behind them. The sums take the smallest numbers at which
each part's hazard occurs (two of what races, one fault of each kind, one restart more
than a recovery needs); each named wrong form below fails within them. `MCBounded` of
`Serving` keeps a `play` behaviour to one abandoned request and to before it leaves;
that of `Stored` keeps a store fault out of three-round behaviours and a registry
fault out of those that move a pointer. What they cut is in the theorems, which have
no bound. In `Content`, three moves and four swaps let a core move release a held
version. Symmetry in `Serving` is over `Characters` and `Sessions`, used only as
names; the one temporal property, `HealthyClientKept`, is an action property of
another part. Deadlock is not checked in any run: every model stops at its bounds, and
the process may end.

**Fairness.** `BoundarySeq`: goroutines run, a buffered record is written or times
out, promises run; nothing forces the loop to publish. `Handoff`: a logged record
is applied and a record in transit is retried, because the loop ticks and
`DueHandoffs` takes the earliest due first; no Session is forced to act.
`TickLoop`: the loop's goroutine finishes its ticks and its drain, a round has an
upload deadline. Nothing makes the broker deliver. The sums state safety and
action properties only and assume no fairness.

**Mutants.** Every property has one in `PROJECT.json`: a plausible bug in a mapped
definition under which the same run finds the property violated. For the conjuncts
of a sum the modules keep further wrong forms beside the right ones, each refuted
by the conjunct it concerns when put in its place:

| Module | Wrong forms |
|---|---|
| `Bindings`, `PartitionHealth` | `ExpireAny`, `BindSessionBeside`; `IfDegradedOrNot` |
| `Roster`, `Stream` | `RefusedNeverClosing`, `RefusedByClosingOnly`, `PutBackEnded`; `ResumeAtLast` |
| `Gateway`, `Play` | `DrainCtxDoneLate`, `LiveOrNot`, `OnceBegun`; `SendOnCurrent`, `NotSentAtAll`, `OpenedKeeping` |
| `Accounts` | `LastOperatorAny` |
| `Boot`, `Config` | `WorldHadZonesAny`, `ExitOfDeaf`; `ApplyEnvUnder`, `LinkdeadTicksDown` |
| `Content`, `Genesis` | `BarrierSkipped`, `StartFollowUnpinned`; `StaleNever`, `WaitEndsAnyway` |
| `Publish` | `ParentHeldOnce`, `SelfApprovalByName`, `PutBlobFirst` |
| `Templates`, `Worlds` | `ValidateChainLoose`, `KindOfSelf`, `OwnFieldsByParent`; `ExitTargetRoom`, `WarnOrphansSelf`, `ExplainedByZone`, `AcceptsAlone` |
| `Projector`, `Retention` | `CoveredAlways`, `CommitReadyEarly`; `FoundIncompleteAny`, `GainedTagNever`, `SweepFailsLocked` |
| `BoundaryReader`, `CommandFeed`, `LogScan` | `BoundaryAfterAt`, `HandedOverAll`, `LastBoundaryFirst`; `RequeuedBehind`; `ReplayCompleteAtOnce`, `ReplayCompleteBelowEnd` |

## 4. Findings and observations

1. **Two bodies after a crash** (`HandoffCrashBody`). Outbound Commands are logged
   before their tick's boundary is delivered. A crash between the two takes the
   source back to where it still holds the Character while the Arrive is in the
   target's log. `docs/glossary.md` says that a crash anywhere leaves an Entity in
   one place.
2. **A second live Character** (`RosterReconnect`). A reconnect takes the linkdead
   hold away before it finds its Session closing, and returns without it. The
   comment of the teardown says that only the despawn frees the flag.
3. **Content that is not what it is called** (`ContentBehind`). A load evaluates a
   version against the content serving then and stages it against what serves
   later. The comment at the staging says that the two are the same.
4. **A body of a deleted Character** (`RosterDelete`). A Session's teardown waits for
   its switch no longer than a produce deadline, unbinds the new Character and drops
   its flag; the switch goes on, frees its claim and produces the Bind with neither.
   A delete in between finds nothing in its way. No produce fails. `roster.go:419-422`
   says "a bind never outlives a delete (never a live body with status DELETED)".
5. **A retry that undoes a newer move** (`NewestMove`). A Builder version is held for
   core skew while core waits to be retried. A newer move of the pack is read and
   waits out its debounce. Core's retry comes first and releases the held version,
   whose read fails: it is to be retried, beside the newer one. That is loaded, and
   then the retry loads the older one over it, to stay. `loader.go:1361` says "A
   newer move supersedes a retry of the version it replaces".

Observed while modelling, without a run of their own:

- `tickloop`: `Publish` returns an Event's marshalling error before it looks at the
  boundary (`kafka.go:546-553`), a gap if an Event can fail to marshal. A boundary's
  offsets exclude a record that panicked, so a replay does not fault the Zone and
  refuses (`engine.go:522`; `ReplayReproduces`). A crash can also lose a body
  (`Recoverable`). After a late write the search can land past a round's boundary and
  refuse it as gone (`reader.go:378-380`). `selectRoundRobin` starts at the lowest
  Partition at each poll (`seams.go:21-22`); a buffer of one record never resumes.
- `roster`: a switch exempts itself from the claim of `r.switching`
  (`roster.go:423`), which is a set. So, after a switch whose caller is gone, a second
  switch to the same Character may share the claim, and the end of the first deletes
  it for both. A delete then finds a live Character: five selects, two failed calls
  and one delete, against the comment at `roster.go:470-473` that none "slips in
  before the late QUIT". `muddied` covers it: `NeverLiveDeleted` and `HoldHasBody`
  are stated while no record that nobody answers for may be in the log.
- `roster`, `egress`, `gateway`: a `Bind` whose produce failed may land after a delete
  too (finding 4 is the same without a failure). A fresh egress session may append
  before the client attaches, and a floor of 0 then gives no Resync
  (`history.go:93-98`; `ResumeAccounted`). A call past the drain check that resolves
  after `closeAll` is answered UNAUTHENTICATED.
- `play`: a retry of a line that was taken may be answered by a rate limit or a
  drain, and reads as a refusal. A reconnect whose `SelectCharacter` cannot be
  reached opens another Session and does not close the first; leaving while the
  stream loop reconnects may leave one open until the connection closes.
- `recordlog`: the record below a captured end need not stay
  (`recordlog/kafka.go:218-222`): a concurrent append can close its segment.
  `Replay` and `scan` end all the same; `TopicKeys` would not, which matters only if
  another writer ran beside the projector. A scan may miss a key that is written
  again while it reads.
- `content`: A timed-out swap may be applied late;
  `ReloadContent` beside `Follow` can bring an older version back; `wait` may report
  the refusal of a second genesis although the first applied; an empty World is
  refused before the gate's own check of it (`gate.go:278`).
- `store`: the sweep runs on a ticker of its own, beside rounds of the same interval
  and forced ones (`boot/retention.go:84-93`). With one round kept, a listing that
  straddles round 3's puts has it torn; if a newer round is listed too, or no tagged
  round is kept, it is deleted although it is the newest complete one, against
  `config.go:193-195`. `RecoveryPointStays` leaves out the rounds so `caught`. Tags
  are not listed before objects as `retention.go:98-100` says.
- `config`: `ANDARA_CONFIG` overrides `--config`; an unparsable boolean in
  the environment becomes false; rounding may let a limit exceed another by a tick.
- `boot`: content that becomes ready after a drain began may be announced ready
  (`main.go:346-350`); paths that discard `halt()`'s result discard a lost boundary.

## 5. Proofs

Every theorem is for arbitrary constants that satisfy the named assumptions of its
module: any number of ticks, Zones, Partitions, Submits, rounds, versions, faults and
restarts. Those that relate Zones have a hypothesis beside them, in bold, because they
are false without it. Where a property itself leaves out a case the code meets, it
says so by a history variable: `muddied` (`RosterSafe`), `caught`
(`RecoveryPointStays`), `outlived` and `Undisturbed` (`ContentSafe`). The larger
inductive invariants were checked by TLC on the instance of their run before they were
proved.

**BoundarySeqProofs.** `Gapless` is not inductive:
whether the next write continues the topic depends on what is buffered, handed over
and held, and on whether a failure is pending. `BoundaryInv` says: the buffer
continues the topic; only one goroutine has something to hand over and it continues
the buffer, or the buffer is full and refuses it; acknowledgements come in order;
and the sequencer is *healthy* (every tick accounted for, `outstanding` exactly what
waits for its promise), *doomed* (a failure whose promise has not run is
outstanding, past everything produced, and nothing more can enter the buffer) or
has *lost*. `TopicGapless`, `AckedIsDelivered` and `LossIsNotAcked` follow from
`BoundaryInvariant`, and `BoundaryLogRefinement` proves that every step of
`BoundarySeq` is a step or a stutter of `BoundaryLog`. `SlotsAreExact` needs one
thing more, `SlotInv`: a timeout moves all that is buffered to what failed, and
counts right only if none of it had failed before.

**HandoffProofs**, with losses, repeats, retries and swaps. `Kept` ties a Zone's
body, record and mark: no body has sequence 0, a body stands at its Zone's mark and
has no record beside it, a record is one past the mark. A crash restores `durable`,
so `HandoffInv` is `Kept` of both; it gives `HeldIsAtMark` and `NeverHereAndBetween`
through any crash. What relates several Zones is false after a crash (finding 1) and
is proved for **`MaxCrashes = 0`**: `OnePlaceInv` says where the newest handoff is
(`PlaceInv`: a body at the highest mark, or the record that goes beyond every mark),
that every Arrive and ack on a log was decided before or is of that handoff
(`RecordsInv`), and that after a Purge no Bind is left that could create another
body (`SpawnInv`). It gives
`AlwaysInOnePlace`, `NewestAlwaysWins` and the action property `BodySpawnsOnce`.

**TickLoopProofs**, from `BoundaryLog`'s promises, which `BoundaryLogRefinement`
discharges. `LoopInv` says: the boundaries are the prefixes of one history the
Engine can have (`TopicInv`); the World of a running process continues what was
recorded before it started (`WorldInv`); the ticks held for a checkpoint ascend from
the one committed (`CheckpointInv`); the round in flight is a copy of this World at
one of its ticks and is written only once that tick was acknowledged (`RoundInv`).
`CheckpointsDelivered`, `CheckpointsAdvance` (an action property, over restarts) and
`RecoveryStarts` follow; the last needs in addition that a replay along the
boundaries of one history reproduces it unless a tick faulted a Zone.

**IngressProofs.** `IngressInv` relates the turn queue, the key table, the client's
records and the log: a Submit's place in the code fixes what its entry and its
record may be; what an entry or an answer says is true of the record; a ref has one
entry in the table; the line is passed from the front, records entered the client in
its order, and one client's records are in the log in that order. All six properties
the run checks follow.

**StoredProofs**, about the sum's own `Spec`: the steps of the other parts leave the
part's variables alone.

*Rounds.* A sweep decides on what it listed, then deletes it object by object under
the lock. The invariant says what a listing that may be stale still proves of the
store. Both theorems hold under every policy, with rounds put beside the listing.
`RecoveryPointHolds` is `RecoveryPointStays`: a round that a sweep took for torn was
torn when it was listed, or is one a listing straddled (`caught`), and the newest
complete one is deleted in the second case only.

*Projector.* `TopicIsWorld` speaks of a projector that has caught up; what carries it
there is `ProjectorInv`: a key of the topic is as of the checkpoint's tick, or a
record of a later tick, not past the highest rendered, was written to it. The
records of a tick are the differences between two Worlds, so replaying them from the
checkpoint restores each key that a death left ahead, and a rebuild from a round
writes or deletes every key there is. The lemmas first say this of the operators
(`RecordsAreDifferences`, `Untouched`); the proof then has one per action.

*Registry.* `PublishInv`: versions are numbered without a gap, the index is the topic
but for writes that landed unanswered or were not approved, and what a publish
command saw as stored is stored. `RegistryIsSafe` is `PublishSafe`.

*Readers.* They have an invariant each, and `ReadersAreSafe` (`ReadersSafe`) takes
them together, for logs of any length and batches, buffers and windows of any size:

- `ReaderInv`. While no late write landed, boundaries ascend with their offsets and
  none before one is missing (`InTickOrder`). While the listed start also stands
  (`Intact`), the search keeps the round's boundary at or past `lo` and every earlier
  one before `hi` (`SeekInv`); then that boundary is the first to be handed out
  (`RoundInv`), so the start over is never taken; then whatever is past the replica's
  tick is buffered or ahead (`ReplayInv`). That a batch follows on is a bijection
  between its due offsets and an interval of ticks (`DueFollowOn`). The growing
  windows of `HeadTick` are shown to find the last boundary (`HeadTickIs`). That the
  replay ends at the head needs no `Intact`: the check on each batch is enough.
- `FeedInv`. `FeedExact` is inductive once the types and the order of `applied`,
  `expected` and `end` are added; for the replica, that the boundaries never go back.
  The lemmas are about ranges of offsets as sequences, cut and joined. `Share` enters
  by one fact only: a Partition gives no more than its buffer holds.
- `ScanInv`. What the reader holds of a key that is not written again, by where its
  newest record is: not reached, passed, or compacted away as a lone tombstone.

**ContentProofs.** Two of its results rest on a named assumption: `GenesisAssumption`
(revisions are not 0, bounds are numbers) and `CoreAssumption` (the server starts
on a core that builds, as it published it itself). TLC evaluates both.

- `ContentIsSafe` (`ContentSafe`), for any versions, moves, swaps, restarts and
  faults. Types hold always. While nothing disturbs a swap (`Undisturbed`),
  `ContentInv` has three parts. `SwapShape`: the Engine is at most one swap from
  what the Loader serves, and a load in progress was evaluated against what serves
  now. It is what makes the staging right, and what finding 3 breaks. `QueuesShape`:
  the newest move in the watch is what the pointer names, once the watch is read the
  debounce holds nothing else, and a pack is not in the debounce and to be retried
  at once. `PacksShape`: the version a pointer names is in one of the places it may
  wait (unread, pending, to be retried, held, in the batch), in effect, or refused.
  So once the loader is quiet nothing is lost. Where a retry of the Builder's pack has
  `outlived` a newer move of it, that pack may be in the debounce and to be retried
  at once, and the two last parts are silent of it: there the claim is false
  (finding 5).
- Genesis: `GenesisShape` says that what is in effect is the first record on the World
  Partition and that a boot serves only once it is; `GenesisUnedited`, that until the
  files are edited every record, in flight or logged, is of the one revision.
- `AncestorsStay`. The server compares a Template with its parent alone. The invariant
  `RegistryBuilt` says that the definitions in effect passed that check together,
  have one name each, and that what is uploaded, altered or not, has too. That this is
  enough up a chain of any length is an argument about the shortest chain that would
  fail (`BuiltKeeps`). It needs the compiler's chains to be sequences; they come from
  a recursive function, which is shown to exist round by round (`ChainRoundsExist`).
- `WorldStaysWhole`. Each way a World is not whole is a finding that refuses the build
  (`FallbackRefuses`, `ExitRefuses`), so a build without errors is whole.
- `LanguageKept` is the two on the sum's `Spec`.

**PlayerProofs** and **ServingProofs**, about `MCServing`'s `Spec`. `ServingTypes` is
`ServingTypeOK` in full.

- `HealthyClientStays`: a client said to be built since the last recovery is there
  (`HealthInv`), and a callback drops it only if the Partition is read-only as it runs.
- `FlagAlwaysOwned`, `RosterIsSafe`. `FlagInv` says of each call, by where it is in
  the code, what it holds, so that whoever holds a flag will free it. It is
  unconditional. `RosterInv` adds the claims of switch and delete (`ClaimShape`) and
  what each held flag may rely on in the log and the World (`WorldShape`, while not
  `muddied`). While not `muddied`, a switch's claim is its own (`KeptShape`, which
  gives `ClaimKept`), so no hypothesis is needed. `BindingsInv`: a timer that fires is
  of a transit whose hold has passed, so no Intent is ended by another's.
- `SessionsAreSafe`. `GatewayInv`: a Session is opened and counted by one call and ended
  by one closer, so the gauge is the difference of two sets. `PlayInv`: a line belongs
  to the Session it was first sent on, whatever became of the answer.
- `AccountsAreSafe`. `SecretShape`: a secret is in one Account's record and one place of
  it, on the topic and in the index, and one that was honoured is live in neither.
  `IndexShape`: but for an unsure append the index is the topic.
- `ProcessIsSafe`. `BootInv`: the stages bound what each goroutine can still do, and until
  a World has had Zones, the walk over the swaps seen so far holds what is in effect.
  `ConfigInv`: both binaries were started with what the layers parse to.
- `StreamSeesWhole`. `StreamInv` says of each subscription that what it was handed is
  since its start and before all that the hub has still queued, its channel in order
  (`SubShape`); of each stream object what its history and its floor hold of that
  (`ObjShape`); and of what the client has not seen, that it is in a frame past the
  cursor or in the channel, or behind a Resync (`AheadShape`). Between the sections
  of a rebind both subscriptions receive, so what the new one repeats was handed to
  both; within one perception nothing is repeated.

`LeastNatural` and its like, the least-number principle and what it says of `Min` and
`Max`, stand at the head of each module that uses them: what would be an induction
over the naturals is an argument about the least number that fails.

**Model-checked only.**

- Liveness: `TakenIsSettled`, `HandoffSettles`, `LostStops`. TLAPS 1.4.5 proves
  neither liveness under fairness nor ENABLED.
- `Handoff` across Zones with crashes, where the properties are false or restricted.
- Of `LanguageSafe`: `CompilerAgrees`, `RoundTrips`, `GateTellsEnough`,
  `CompilerMatchesBuild`, `DiffTellsAll`. They compare what folds over sequences
  (`Flatten`, `FlattenSeq`, `SetToSortSeq`) compute, for every input: induction over
  data.
- `StoredTypeOK` as a whole, since `WorldsTypeOK` is about such a fold and
  `TemplatesTypeOK` about the kinds that the constants' declarations state. The
  types of rounds, projector, content and genesis are theorems
  (`RetentionTypes`, `ProjectorTypes`, `ContentTypesAlways`, `GenesisInvariant`), those
  of registry, readers, feed and scan are in their invariants as far as a step needs
  them.

## 6. Not modelled

- Text and encodings: the lexer, parser and formatter of `content/lang`, the command
  parser, canonical encoding, protobuf and everything under `gen`. They are
  functions of their input; a model that said what they compute would repeat them.
- I/O and measurement: telemetry, certificates, the lifecycle socket, probes' HTTP,
  the stores' backends, `kafkaclient`'s options, deployment, scripts, test support.
- Other programs: the Python agents, the web client, and those commands of the CLI
  that are one request and its output.
- Of modelled parts: a tick whose Events cannot be rendered; an error of `play`'s
  Submit that is no Connect error (`play.go:657-659`); what readiness says during a
  drain (`ReadyTruthful` speaks of a running process); a dead projector's write that
  lands late. A dead server's late write is in `BoundaryReader`, but `NoFalseGap`,
  `EndsAtHead` and `NothingSkipped` are stated while none landed out of tick order, so
  the refusal that `reader.go:79-80` and `378-380` foresee is not judged. Rooms,
  Events, PRNG and the combat extension in `Handoff`, and a batch of several Entities
  (hazard `sim/handoff.go:176`); state migration; age-based retention and state
  versions; redaction, world scope and farewells of the stream; rate limits, audit,
  workload keys and hashing of the accounts; rollback, history, sizes and the reload
  after an approval in the registry; seeds and the wait for a first content in the
  process; position writes in the roster; pacing.
- Compositions: `Roster` with `Handoff` (a Bind there is one record here), `Gateway`
  with `Ingress`, and `Content` with `TickLoop` are each modelled at their ends;
  their products are out of TLC's reach at bounds where anything happens.

## 7. What would come next

Every safety property of the runs but `StoredTypeOK` and part of `LanguageSafe` is a
theorem. Next would be `Flatten` as a recursive function with its own lemmas, as is
done for `Chains`, and from it `CompilerAgrees`; then what the roster does promise
of a record that nobody answers for; then the product of `Content` and
`TickLoop`, for a swap between a round and its recovery.
