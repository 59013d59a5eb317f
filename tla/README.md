# Got-Soup: TLA+ models, model checks and proofs

This directory models the core of Got-Soup (`alpha_core`): the event-sourced
store and its files, the economy, the moderation and the forum that are replayed
from it, the operations that append to it, start-up and recovery, the wallet, and
the path by which a node publishes its events.  TLC checks each model on small instances;
TLAPS proves the most important properties for every value of the constants.
Paths below are relative to the repository root; `store.cpp` is
`src/core/storage/store.cpp` and `alpha_service.cpp` is
`src/core/service/alpha_service.cpp`.

## 1. Inventory of the system

Everything runs on one thread per process.  What makes the system hard is not
parallelism but order: events arrive late and out of order, blocks are confirmed
by the clock, every view is rebuilt by a replay whose order depends on both, and
each operation is a sequence of in-memory changes and file writes that can stop
half way.

| Component | State | Operations | Talks to | Hard behaviour | What makes it correct |
|---|---|---|---|---|---|
| Block timeline (`Store`, store.cpp) | `events_`, `blocks_`, `event_to_block_`, hashes | `append_event`, `routine_block_check`, `open`, `rollback_to_last_checkpoint`, pruning | called by the service; feeds both replays | clock-driven confirmation, overflow blocks, gaps from pruning, rollback | every event in exactly one block; limits kept; confirmed blocks frozen; final events never lost |
| Economic replay (`materialize_views`) | balances, claimed blocks, nonces, issued and burned totals | one rule per claim, transfer, post | reads blocks and events | order of events decides validity; supply cap; self-transfers | no overdraft, capped supply, one payout per block, gapless nonces |
| Moderation replay (`materialize_views`) | moderators, flag counts, hidden objects, pins, **policy (not rebuilt)** | one rule per moderation event | profile seeds it; blocks give confirmations | policy changes during and across replays; finality | a moderator remains; outsiders powerless; auto-hides earned; peers agree |
| Content views and queries | recipes, threads, replies, reviews | second half of `materialize_views`, `query_*` | ledger validity, hidden objects | none beyond order | hidden or unpaid content is not shown |
| Store files | event log, block log, checkpoints, snapshot, invalid-event log | `persist_*`, `load_*` | file system | crash between writes, truncated rewrite, failed append | a restart loses no accepted event and no confirmed block |
| Backtest (`backtest_validate`) | last result | read-only | service decides on rollback or reset by its message | one bad event fails it for good | a store the operations built passes |
| P2P node (`p2p/node.cpp`) | peers, outbound queue, seen ids | start, stop, queue, ingest, tick | service | restarts clear the queue; seen before stored | nothing published twice or on the wrong network |
| Service (`alpha_service.cpp`) | active mode, transports, community, last local timestamp, tick counter | user operations, `sync_tick`, `use_community_profile`, `init` | all of the above | partial failures between store, node and profile; claim bursts; recovery | an accepted event is published or its loss is reported |
| Wallet (`crypto.cpp`, service flags) | identity, lock, vault, backups | unlock, lock, export, import, recover, nuke | files | failure between memory and vault | memory and vault agree; no mutation without a verified backup |
| Release reset and start-up | marker and release files, quarantined directories | `apply_release_reset_if_needed`, `init` | files | crash between steps | a reset happens once and completely |
| Anonymity providers | running flag, test mode | start, stop | service | none | endpoint matches the mode |
| Hash, canonical map | none | pure | all | encoding | equal only for equal inputs |
| Core API, daemon, shells, reference engine | windows, sockets | forwarding, rendering | service | the timer that drives `sync_tick` | none of their own |

## 2. Modules

| Module | Models | State | Actions and the code they stand for |
|---|---|---|---|
| `BlockTimeline` | the in-memory timeline of `Store` | `now`, `events` (`events_`), `blocks` (`blocks_`, as a function from the indices present), `chain` (the stored hashes) | `AppendEvent` (`append_event`), `RoutineBlockCheck`, `Open`, `RollbackToLastCheckpoint`, `Tick` (the clock) |
| `Ledger` | the economic rules of `materialize_views` | none: operators on a ledger record | `ClaimAccepted`, `TransferAccepted`, `PostAccepted` and what each applies |
| `LedgerReplay` | the economic loop | `ledger`, the fixed set `confirmed`, the history `accepted` | one event per step, any event may be next |
| `TokenSupply` | the abstract token: mint below a cap, move, burn | `balance`, `issued`, `burned` | refined by `LedgerReplay` |
| `Moderation` | the moderation branch of the second loop | none: operators on a view record | roles, flags, hides, pins, policy updates, finality |
| `ModerationReplay` | that loop and the operations that start it | `log` (events with their block and time), `confirmed`, `view`, `todo`, `pass`, histories `twin`, `named`, `asked` | append anywhere in the order, block check, rollback, quarantine, restart with its two passes, one loop step |
| `SyncTick` | `sync_tick`, reward claims, local timestamps, outbound queue | distance between the clocks, claims, queue, what was handed out | tick start, one claim, tick end, user operation, remote claim, lock, network restart, process restart |
| `Publish` | how events reach the network while transports are switched | settings, open store, stores of both chains, node, publications | transport toggles, test mode, local events, ticks, ingest, restarts |
| `Outbox` | the abstract outbox: made once, sent at most once, lost together | `made`, `waiting`, `sent` | refined by `Publish` |
| `Content` | the forum part of the second loop, the passes after it, the queries | none: operators on a collection and a board | what one recipe, thread, reply, review or thumb adds; totals, pins, hidden objects, reply counts |
| `Community` | one node with all of that: instances of `BlockTimeline`, `Ledger`, `Moderation` and `Content` behind one replay order | `now`, `phase`, `node` (events, blocks, views, last local time), `history`, `setting` | every operation of `AlphaService` that appends an event (`CreateRecipe` ... `DownvoteAndPurge`), `SyncTick` with its claims, `IngestRemoteEvent`, `Stop`, `Start` (`use_community_profile` with its rollback and both quarantines) |
| `StoreDisk` | event log and block log, written and read back | `phase`, `log` and `blocks` in memory, `disk` (lines, a cut tail, block log), faults left, what was acknowledged | append, repeated append, block check, `open`, the checks of start-up, rollback, quarantine, refused start, crash |
| `Startup` | the application directory from `init` to a served store | `dir` (release tag, genesis marker, vault, profiles, stores), `memory`, `phase`, faults | release reset, marker and key, profile, opening with the comparison of the genesis block and the quarantine that follows it, prepared reset, switches, local events, an upgrade to another release |
| `Wallet` | identity, vault, backups and the service's backup state | `wallet`, `service`, `files`, `made`, faults | start with or without a vault, lock, unlock, export, verify, import, recover, nuke, and an operation that makes an event |

`BlockTimelineProofs`, `CommunityProofs`, `LedgerReplayProofs`, `ModerationReplayProofs`,
`PublishProofs` (with those about `SyncTick`), `StartupProofs`, `StoreDiskProofs` and
`WalletProofs` hold the proofs; the `MC*` modules give TLC's constants.

Abstractions worth knowing:

* **Blocks** are a function from indices to records, because pruning leaves gaps;
  `blocks_.back()` is the largest index.  The ids of a block are a set: replay sorts
  a block's events by time, priority and id, never by their place in the block.
* **Hashes** are the nested records that were hashed: two are equal exactly when
  their inputs are.  The release's genesis hash is a record of its own.
* **Replay** is one event per step only so that intermediate states can be
  inspected; in the code nothing runs between two steps.  `LedgerReplay` lets any
  event be next, which covers every order the timeline can produce.
* **Amounts** are unbounded integers; the code's `int64` sums can overflow only for
  values far above the supply, which the model does not cover.
* **The clock** of `SyncTick` is its distance from the last local timestamp, in
  beats, since only that distance decides whether the store accepts an event.
* **Chains** in `Publish`: an event carries the chain it was made for; which of its
  effects replay accepts is left to the replay modules.
* **`Community`** is one node; its peers are the events they can send.  Ids are numbers,
  because ids decide ties in the replay order.  An event has a size, and first-fit looks at
  both limits of a block (`store.cpp:2145`).  An *alien* is an event of another chain,
  network or community, or one whose id is not of its content: nothing looks at this when
  the event comes in, only the validation does.  The wallet is unlocked, a start is one
  step.  Each behaviour has a `setting`: the kinds of event on offer, their sizes, the
  profile's numbers, the lags of peers' events, whether they may be aliens, the age of the
  empty store and how long the clock runs.  The settings partition the questions, not the
  rules: all of them run the same operators.
  The replay order puts each stored id at the place given by the number of ids that sort
  before it, by block, time, kind and id; the two loops of `materialize_views` are
  recursive functions over that order, one `EconomyStep` or `ForumStep` per event.
* **`StoreDisk`** keeps of an event only whether it rivals another (two claims of one
  block) or is rejected by the validation.  A line that was cut short is a tail; what is
  appended behind it completes it to a line that does not parse, or parses as an event
  with another id.
* **`Startup`** keeps of a store the tag in its genesis block and in its header, the chain
  ids stamped on its events, and whether an event is in the genesis block, which then has
  another merkle root and hash than the release's (`alpha_service.cpp:1752`).  A local
  event goes there if the genesis block is not confirmed by then; whether it is, is left
  open.  The first start finds an empty directory, a new release meets what the one before
  left, and the kind of environment says which faults occur.
* **`ModerationReplay`** places an event in any block that is not confirmed and at any
  time: which block first-fit picks is in `BlockTimeline`.  A rollback drops what lies
  above the genesis block or above some confirmed block, and keeps the policy.
* **`Wallet`** numbers identities.  A text cut inside its last field reads as the same
  key with a wrong cid; one cut earlier does not read.  The authenticated vault (with
  libsodium) and the xor vault (without) are both modelled: they differ in what a wrong
  passphrase leaves in memory.

A comment `Mutant:` marks an operator that is not part of the model: it is a
plausible bug in the definition after it, used to show that a property notices.

## 3. What the runs check

| Run (`.cfg`) | Result | Question | Bounds, and why they are enough |
|---|---|---|---|
| `MCBlockTimeline` | holds | Are events placed once, limits kept, confirmed blocks and checkpointed events never touched, and does pruning spare blocks with events? | two events of two sizes, blocks that hold two units, seven seconds of two-second blocks, two slots per check, two recent blocks kept: full blocks, overflow blocks, late confirmation, lag, gaps and rollback all happen |
| `MCTimelineLive` | holds | Is every due event confirmed in the end? | two events in one-event blocks, four seconds |
| `MCLedgerReplay` | holds | Is the ledger a capped token without double payment? | two authors, four blocks (genesis, full, decayed and floor rewards), a supply that four units exhaust, five accepted events: self-transfers, the cut last reward and rejected nonces all occur |
| `MCModerationReplay` | holds | Does a moderator remain, are outsiders powerless, are auto-hides backed by stored flags? | two cids, all kinds of events, three stored at a time in two blocks and any order, rollbacks, restarts and quarantines at any point: a stranger who is made a moderator and removes the owner fits, so do two flags and a change of threshold, and a threshold whose event was dropped in the meantime |
| `MCSyncTick` | holds | Are blocks claimed once and events published once; do backlog and queue drain? | three blocks with a drift of one second, so that a backlog exceeds the drift; one user operation; one crash at any step, any number of network restarts |
| `MCPublish` | holds | Do events stay on their own chain? | two local events (one waits while another is made), one remote event, any number of switches |
| `MCPublishOutbox` | holds | Is the path an outbox, even if switches are cut short? | two local events, any number of switches and failures |
| `MCCommunity` | holds | Do a node's own events stand whatever peers send, does a node on its own always run, is what is served paid for, coherent, complete and fresh, and when does a start drop events? | eleven settings: economy with a peer and ties in time, the same with two sizes, claims of two nodes with stops over three seconds, the own economy with names, the own economy with two sizes (a big event does not fit behind another, and a small one overtakes it), aliens in a store that is new (claims; claims with names), the forum tree with hides, reviews and thumbs, flags and hides, roles; up to four events, moderation effective after one confirmation, blocks of three events and three units, up to three seconds, peers' events up to one second late |
| `MCStoreDisk` | holds | Do the blocks and events that are served belong together after any fault, are they on disk after stops, and are readable lines removed by a rollback or a quarantine only? | two rival events (a claim conflict is in reach of every start), one-event blocks, so that one of them overflows, a checkpoint at every block, three seconds, up to two faults of any kind at any write: a stop inside the start that repairs an earlier one, and a line appended behind a cut one and lost |
| `MCStoreDiskRollback` | **violated** | Does the rollback for a claim conflict end the conflict? | two rivals, no fault |
| `MCWallet` | holds | Is an open wallet backed up, is the signing key in the vault, can the last author be recovered? | two backups, two passphrases, two identities, two seconds, one fault; stops in both builds, cut writes with the xor vault, refused ones with the sealed one |
| `MCStartup` | holds | Is a served store on its chain, is the identity new after a reset, does a marker stay readable, are events kept? | two communities, both networks, two identities, one fault - a stop or a refused write at any file - one upgrade; directories that are empty, of the release before, half reset, with a block log cut short or with an event in the genesis block; events in at most two stores (`MaxFilled`) |

The clock, the logs and the numbers of operations are bounded by named constants
(`MaxTime`, `MaxFilled`, `MaxLog`, `MaxTip`, `MaxAccepted`, `MaxNonce`, `MaxBlocks`,
`MaxAttempts`, `MaxRestarts`, `MaxFaults`, `MaxIdentity`, `MaxUpgrades`, and the ids and
the horizon of a setting in `Community`).  `MCLedgerReplay` turns deadlock checking off:
a replay ends when its events are used up.  The type invariants of `StoreDisk`,
`Startup`, `SyncTick` and `Wallet` are left out of the runs, to keep those to the
properties that say more; they are parts of the inductive invariants of section 5.

### Disagreements between code and documents

`MCStoreDiskRollback` is a run: **the repair does not always repair.**  Start-up answers
two claims of one block with a rollback to the last checkpoint (`alpha_service.cpp:1807`).
If both claims lie at or below the checkpoint they survive it (`store.cpp:1918`); the
validation fails again, and so does every later start.  The test of the repair expects no
invalid event after it (`tests/test_alpha_core.cpp:160`).

The following are stated in the modules and are *not* among the runs, since the code does
not have them; TLC finds each violated in the named module when it is asked.

* `ConfirmedHashFrozen` (`BlockTimeline`): an overflow block is opened at its event's own
  time (`store.cpp:2159`) and may be confirmed before an earlier block, whose confirmation
  then changes both hashes; `store.cpp:1392` calls the timeline immutable.
* `GenesisIsRelease` (`BlockTimeline`): an event of the first interval goes into the
  hardcoded genesis block (`store.cpp:2146`; "hardcoded and authoritative",
  `alpha_service.cpp:1712`), and the next start takes the store for another release's and
  sets it aside.  `EventsKept` (`Startup`) and `DroppedForCauseOnly` (`Community`) name
  this case; they do not claim that such a store is kept.
* `ReplayStableAcrossPeers` (`ModerationReplay`): a `PolicyUpdated` outlives the replay
  that applied it (`store.cpp:923`); the plan asks for "Replay/idempotency stable across
  peers." (`moderation-plan.md:94`).
* `ViewDeterminedByChain` (`ModerationReplay`): the block check confirms without a replay
  (`store.cpp:1116`), so an event that became final is not enforced until the next append
  or start (`moderation-plan.md:6`).
* `NodeOnOpenChain` (`Publish`, with `SwitchMayFail`): a switch cut short between
  opening the store (`alpha_service.cpp:1745`) and replacing the node (`1788`) leaves the
  two on different networks.

Observations made while modelling, each visible in the module named:

* **Timeline and files.**  A small event may be placed in an earlier block than a bigger
  one that came first (`store.cpp:2153`) and is then replayed before it.  If both are the
  node's own, the small one can become invalid - a transfer whose nonce comes too early, a
  post before the claim that pays for it - even on a node without peers, which then
  announces nothing more and does not start again: the case `overtaken` of `AloneRuns`
  and `OwnEventsStand`.  With pruning on (it is off by default) a kept block's `prev_hash`
  may name a pruned block until the next check.  `checkpoints.dat` and `state.snapshot` are
  written and never read.  An unsigned event, or one with a finding no repair is for,
  makes every later start fail.  Behind a line that was cut short the next event is lost
  too.  After a refused write of the event log the event stays in memory and the next block
  check writes its id into the block log: the next start finds a block that names a missing
  event and sets the store aside (`StoreDisk`).  A block log that is lost costs the store
  as well, since the events are then assigned to a new genesis block (`Startup`).
* **Moderation.**  A rollback that drops a `PolicyUpdated` keeps what it set
  (`store.cpp:1949`), and so does a quarantine: an object may be auto-hidden by a threshold
  that no stored event and no profile asks for.  `AutoHideEarned` counts what was asked for
  since the profile was read.
* **Peers.**  `ingest_remote_event` (`1129`) accepts events of another chain, network or
  community; the next start sets the whole store aside for one of them (`store.cpp:1192`,
  `alpha_service.cpp:1817`).
* **Service.**  A finding in one stored event - a removal of a cid that is no moderator
  (`alpha_service.cpp:1386`), a peer's moderation judged by another profile (`2778`) -
  makes every validation fail from then on: own events are stored but not announced
  (`2616`), and the next start fails.  The exceptions in `AloneRuns` and
  `OwnEventsStand` are these cases (`Community`).  Local time starts at 0 in a new
  process (`2628`): an event made within the seconds by which own time ran ahead can
  replay before the claim that pays for it.  `init`'s own rollback (`587`) is never reached
  with a finding, because `use_community_profile` has failed first.
  `reward_transactions` looks for `confirmation_count` (`1089`) in a text that says
  `confirmations=` (`store.cpp:1457`), so transfers always show none.
* **Publishing.**  Unlocking the wallet or reloading the peers drops the queue while the
  ids stay seen: those events are never published.  A burst of claims as long as the
  allowed drift blocks user operations too.
* **Wallet.**  Any readable backup verifies, whoever's key it holds (`1497`); verifying
  without an export on record counts as one; export, nuke and restart within one second
  leave the old backup valid.  These are the exceptions in `OpenIsBackedUp`.  A wrong
  passphrase leaves the xor build with an empty identity while it stays unlocked.  A
  recovery with a new passphrase makes the next start fail, since the shells start with
  the configured one.  A stop while the vault is rewritten leaves it empty.
* **Start-up.**  A stop inside `prepare_genesis_reset` can leave an incomplete marker
  beside a matching release tag, and every start fails; so does a community profile that
  was cut short.  The header of a block log that is then quarantined still sets
  `chain_id_`.

## 4. Fairness

`BlockTimeline!FairSpec` lets time pass and `routine_block_check` run;
`SyncTick!FairSpec` adds that a tick which started runs to its end.  Both are what
the Windows and macOS shells provide: a 1.5 second timer calls `sync_tick`
(`src/app/main_win.cpp:2293` and `2303`, `src/app/main_macos.mm:1872`), and the
process has one thread.  The period matters: a tick whose claim is rejected uses up
one second of local time, and only because the period is longer than a second does
the clock catch up (`BacklogDrains`).  The Linux shell calls `sync_tick` only when it
redraws and the daemon never does, so none of the liveness properties is claimed for
them.  Nothing is assumed of the user, of other nodes, of restarts or of locking.

## 5. What is proved

Every theorem holds for all values of the constants under the named assumptions of
the modules (`TimelineConstants`, `ReplayConstants`, `ModerationConstants`,
`PublishConstants`, `WalletConstants`, `StoreDiskConstants` and so on), which say no more
than that limits are positive numbers, that sets of names are disjoint and, in
`Community`, that there are finitely many ids.  One theorem has a hypothesis of its own,
`EventsFit`; `Community` assumes the same of its sizes, as the shells configure them.

* **Timeline** (`BlockTimelineProofs`): `TypeCorrect`, `PlacedOnceAlways`,
  `BlocksStayWithinLimits`, `ConfirmedBlocksFrozen`, `CheckpointedEventsSurvive`.  The
  inductive invariant is `TypeOK /\ EventsPlacedOnce`.  Neither half is inductive alone: a
  prune keeps events only because every event's block is known to hold it, and placement
  keeps types only because the last block exists.  A first part holds the facts on least
  and greatest indices and induction over sets of naturals.  The two action properties
  follow from the same invariant, one operation at a time.  The limits need `Within`: the
  ids of a block are finitely many, within the count, and their sizes within the bytes.
  An event goes into a block with room, or into one of its own, and the latter keeps the
  limit only if the event fits there: `EventsFit`.  The store takes `max_event_bytes` and
  `max_block_bytes` as configured, each with a least value only (`store.cpp:471`), so that
  this is a hypothesis of the theorem and no assumption of the module; the shells
  configure 64 KiB and 1 MiB, with which it holds.
* **Ledger** (`LedgerReplayProofs`): `LedgerTyped`, `NeverOverdrawn`,
  `SupplyNeverExceeded`, `EachBlockPaidOnce`, `TransferNoncesGapless` and
  `ReplayImplementsToken`.  The invariant is the conjunction of all of them; payment
  once and gapless nonces need the history of accepted events, and each accepted event
  maps to one step of `TokenSupply`.
* **Moderation** (`ModerationReplayProofs`): `ModerationTyped`, `AlwaysAModerator`
  (the profile names a moderator, as `load_or_create_community_profile` ensures),
  `OutsidersStayPowerless` and `AutoHideAlwaysEarned`.  The invariant relates the view to
  its twin, the replay without the outsiders' events, at every position of the loop.  An
  auto-hide is earned because of `Counted`, on top: the threshold in force is always one
  that `Thresholds` counts - only somebody with authority can have set it, which is where
  the powerlessness of outsiders comes in - and no flag count exceeds the flags among the
  stored events that the loop has passed (`FlagsStored`).  Since the policy outlives a
  rollback, `Thresholds` is about the histories `named` and `asked`, not about the log.
* **Publishing** (`PublishProofs`): `PublishTyped` and `PublishImplementsOutbox` hold
  whether or not switches are cut short; their invariant adds to the types that what is
  queued was made and that a stopped node holds nothing.  `PublishedOnlyOnOwnChain` and
  `OwnEventsStayHome` assume that no switch is cut short - otherwise `NodeOnOpenChain`
  does not hold either - and their invariant ties the settings, the open store, the
  node's network and the queue to one chain.
* **Claims and queue** (`PublishProofs`, second half, about `SyncTick`): `NodeClaimsOnce` and `HandedOutOnce`, for any
  number of blocks, operations and restarts and any drift.  The invariant says that the
  blocks a tick has listed are still unclaimed when their turn comes, that what was
  claimed is on record, and that an event is in the queue or handed out, once and not
  both.  The list is what could go stale (`alpha_service.cpp:2530`): it stays right
  because remote claims arrive between ticks only.
* **Start-up** (`StartupProofs`): `StartupTyped`, `StoreStaysOnItsChain`,
  `ResetsRenewTheIdentity`, `MarkerStaysReadable` and `StartsKeepEvents`, for any number
  of communities, identities, releases and faults.  All but the first are about stops that
  are not mixed up with a prepared reset (`Orderly` in `Startup`); refused writes are only
  covered by the first.  The invariant `StartupInv` describes
  the directory by its release tag: once the tag is written, the marker can be read, the
  key is younger than the last reset and every store is of the chain that the marker
  defines (`OfItsRelease`); a prepared reset has moved every store away; and what a
  running service holds in memory is what the directory holds.  The writes of a reset may
  stop anywhere because the tag is written last.  For events, every store a start opens is
  of its chain as far as it can be read (`OfChain`), so that only an event in the genesis
  block or a lost genesis block makes it `Foreign`; `KeptBy` carries that through every
  outcome of an opening, block logs cut short included.
* **Store files** (`StoreDiskProofs`): `StoreTyped`, `ServedAlwaysOnDisk`,
  `ServedAlwaysCoherent` and `LinesAlwaysKept`, for any number of events, faults and
  restarts.  The invariant adds to the types: no event is on two lines of the event log,
  cut ones included, and none that was lost behind a cut line is on any; what can be read
  is in memory while a store is open; while only stops happen the files hold what memory
  holds *in every phase of a start*, not only when the store is served; and a served store
  is placed as `BlockTimelineProofs` means it, but for events whose own write was refused:
  those are on no line, so that whatever the next start loads has its block
  (`ServedCoherent`, with `Holds`).  This part asks nothing of the faults: a start gets
  there because it validates, a running store because each append and check places what
  it has written.  The middle parts are what makes a rollback
  or a check that rewrites files during a start safe.  Placement is not proved again:
  the module instantiates `BlockTimelineProofs` with its own log as the events and carries
  its lemmas over.  Assignment and the retained lines are recursive functions over the
  log; what they compute is shown by induction over the positions of the log
  (`NatSetInduction`, which is stated for a set and not for a predicate).
* **Wallet** (`WalletProofs`): `WalletTyped`, `SignerInVaultAlways`,
  `SignersAlwaysHaveKeys`, `AuthorAlwaysRecoverable` and `OpenAlwaysBackedUp`, for any
  number of identities, backups, passphrases and faults.  The invariant `WalletInv` adds three things: only
  keys that were generated are held anywhere, so a nuke never meets the author's; a
  process that does not run holds no identity, and a vault that does not exist none; and
  `AuthorHeld`, the author's key is in the vault itself unless the vault is unreadable
  *and* nobody can sign - only then does a backup hold it.  Without the last part an
  export that is cut short could destroy the only copy.  Import, recovery and nuke share
  one lemma (`ReplaceStep`).  `OpenAlwaysBackedUp` needs `BackupParts` on top: the times on
  record are in the past, a wallet counts as backed up only on a verified backup as recent
  as its key, memory and vault are of one key, and then the backup *last written* is of
  that key and is the one that was verified (`LastExportHolds`).  The last part is what
  carries the property through exports to several paths and restarts in between.

* **Community** (`CommunityProofs`): `TypeCorrect`, `CountsAreFresh`, `ServedArePaidFor`,
  `BoardsAreCoherent`, `TotalsAreComplete`, `DropsForCauseOnly` and `AloneNodesRun`, for
  any number of events, blocks, peers and starts, any setting and any reward schedule.  Most of the work
  is about the replay, and none of it depends on how the log came about:
  - `OrderLists`: for any stored events and any blocks that place them, the replay order
    lists every stored id once.  Two different ids never share a rank, because sort keys
    are totally ordered and end with the id.
  - `EconomyResult`: after any number of rounds of the first loop no balance is negative
    and the burned total is at least the cost of the posts that were accepted so far.
  - `ForumResult`: after any number of rounds of the second loop the collection holds
    exactly the accepted posts seen so far, each under its own kind, with reviews and
    thumbs counted under their recipe whether or not it has been seen.
  - `ServedOK`: what the passes after the loops serve is part of that collection, closed
    under what is hidden, with totals and reply counts of what is served.
  `ViewResult` puts these together: the view of any well-placed log is good (`ViewOK`).
  The inductive invariant `IInv` then says that the store is well placed (by the lemmas of
  `BlockTimelineProofs`, instantiated), that its view is good or empty, that timestamps
  are within the drift, and that a running node's counts are fresh.  `AppendedOK`,
  `RolledBackOK` and `ClaimsOK` carry it through appends, the repair and the claim loop,
  whose rounds are again counted by induction.  `CountsAreFresh` needs no result of the
  replay, only that every way to change the blocks of a running node ends in the
  confirmation metrics; `DropsForCauseOnly` needs that only `RolledBack` and `Quarantined`
  remove events, that a start which rolls back has found a claim of a block that is already
  claimed, and that a start which quarantines has found an alien or an event in the genesis
  block (`Cause`).

  `AloneNodesRun` (a node without peers' events can always be started, and has announced
  all it stored) is the one that compares logs: an operation checks its event against the
  views it has, a start replays everything, and nothing in the code says that the second
  has to agree with the first.  The second inductive invariant, `Alone`, says why it does:
  - `Orderly`: a block before one that holds an event is confirmed or has no room for an
    event of that size (`Room`, which is both limits).  So a new event is smaller than a
    stored one or goes into no earlier block (`AssignedAfter`); if it overtakes none, it is
    *replayed last*, since own times only grow (`LaterIsLast`).  The block check keeps this
    (`CheckedPlaced`), and so does an event that overtakes; but that one may not be valid,
    and neither may one whose time a start set back: the cases `overtaken` and `rewound`.
  - `Sound`: there is an account of the log, ledgers from the empty one to the last by
    which every event is accepted.  An accepted event that is replayed last extends it
    (`SoundGrows`), a block that is confirmed later keeps it (`SoundStays`), and the views
    of the replay are those of the account (`SoundEconomy`).
  - `Fit`: what each operation checks is enough for the replay to accept the event at the
    end.  For the claim loop this holds round by round: a claim changes the owner of no
    other block, so those that were claimable when the loop began still are
    (`ClaimRoundAlone`).
  - `Moderated`: the moderators are at least those of the profile as long as none was
    removed, so what the own node was allowed to do is not rejected later.  A node that
    removes a moderator can reject its own earlier authority; the property excludes it.
  A start then finds no claim of a claimed block, so it does not roll back, and no
  finding, so it does not refuse.  It may find an event in the genesis block: then it goes
  on with an empty store, which has an account, too (`QuarantinedCalm`, `StartAlone`).

**Only model-checked**:

* the liveness properties (`DueEventsConfirmed`, `BacklogDrains`, `QueueDrains`), which
  are beyond the prover;
* `OwnEventsStand` of `Community`: an own event that was accepted when it was made is
  still accepted when events of peers, perhaps of earlier blocks or times, join the log.
  `AloneNodesRun` is the case without peers, where a new event is replayed last; this one
  needs that the economic loop commutes with events of other authors inserted anywhere.
  It excludes the two cases above and peers that claim a block of this node or pay it.
  It also needs that the supply is not exhausted, since then the reward of a claim depends
  on all claims before it: that holds in the run and is no assumption of the module.

## 6. What is not modelled, and why

* The shells, the daemon's HTTP and JSON-RPC parser, the Core API and the reference
  engine keep no state that feeds back into the core.
* Cryptography, hashing, the merkle root and the canonical encoding are taken as
  injective: they are functions on bytes, and no model depends on how they are computed.
* Status and health reports format state that the modules have.
* The rule on display names (duplicates, immortal names, the name's cipher) and the peer
  list with its file.  `Community` has the event by which a node becomes known.
* Two nodes in one model.  A peer is the set of events it may send; that two nodes
  judge the same events by different profiles is in the observations above.
* A `Community` start is one step: `StoreDisk` and `Startup` cut theirs anywhere.

## 7. Plan

1. **Two logs**: that the economic loop commutes with the events of others, as a lemma
   about `Ledger`, and with it `OwnEventsStand` for all constants below the supply cap.
   The accounts of `AloneNodesRun` are the start: an event of a peer is to be inserted
   into one instead of appended.
2. **Two nodes**: `Community` twice, with different profiles and one set of events, to
   state what two peers agree on.  `OrderLists` and `ViewResult` already hold for each of
   them.
3. **Names and peers**: the rule on names with imports, and the peer file.
