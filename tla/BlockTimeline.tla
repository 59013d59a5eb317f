--------------------------- MODULE BlockTimeline ---------------------------
(***************************************************************************)
(* The in-memory timeline of alpha::Store: the accepted events, the blocks *)
(* that hold them, and the hash chain over the blocks.                     *)
(*                                                                         *)
(* blocks_ is a vector sorted by a strictly increasing index, so it is     *)
(* modelled as a function from the indices present to block records: the   *)
(* vector's order is the order of the indices, blocks_.back() is the       *)
(* largest index and event_to_block_ is read off the event_ids sets.  The  *)
(* order of the ids inside one block is not kept: replay sorts a block's   *)
(* events by time, priority and id (module LedgerReplay), never by it.     *)
(*                                                                         *)
(* Every operation reads the clock; the clock is the variable now, which   *)
(* only moves forward here.  Disk state and failing writes are not part of *)
(* this module: every persist_* call succeeds.                             *)
(***************************************************************************)
EXTENDS Integers, FiniteSets, FiniteSetsExt

CONSTANTS
  EventIds,                 \* ids an envelope may carry
  Sizes,                    \* envelope sizes, in the unit of MaxBlockBytes
  BlockInterval,            \* block_interval_seconds_
  MaxReservePerCheck,       \* kMaxReservePerCheck, 256 in the code
  MaxBlockEvents,           \* validation_limits_.max_block_events
  MaxBlockBytes,            \* validation_limits_.max_block_bytes
  MaxFutureDrift,           \* validation_limits_.max_future_drift_seconds
  MaxPastDrift,             \* validation_limits_.max_past_drift_seconds
  EnablePruning,            \* enable_pruning_
  PruneKeepRecent,          \* prune_keep_recent_blocks_
  CheckpointInterval,       \* chain_policy_.checkpoint_interval_blocks
  CheckpointConfirmations,  \* chain_policy_.checkpoint_confirmations
  MaxTime                   \* bound on the clock, for model checking

ASSUME TimelineConstants ==
  /\ Sizes \subseteq Nat \ {0}
  /\ BlockInterval \in Nat \ {0}
  /\ MaxReservePerCheck \in Nat \ {0}
  /\ MaxBlockEvents \in Nat \ {0}
  /\ MaxBlockBytes \in Nat \ {0}
  /\ MaxFutureDrift \in Nat /\ MaxPastDrift \in Nat
  /\ EnablePruning \in BOOLEAN /\ PruneKeepRecent \in Nat \ {0}
  /\ CheckpointInterval \in Nat \ {0}
  /\ CheckpointConfirmations \in Nat \ {0}
  /\ MaxTime \in Nat

VARIABLES
  now,      \* util::unix_timestamp_now()
  events,   \* events_, as a function from the stored ids to their envelopes
  blocks,   \* blocks_, as a function from the indices present to records
  chain     \* prev_hash and block_hash of each block, as last recomputed

vars == <<now, events, blocks, chain>>

Envelope == [unix_ts : Int, size : Sizes]

BlockRecord == [opened_unix : Int, reserved : BOOLEAN, confirmed : BOOLEAN,
                backfilled : BOOLEAN, event_ids : SUBSET EventIds]

NewBlock(opened) == [opened_unix |-> opened, reserved |-> TRUE, confirmed |-> FALSE,
                     backfilled |-> FALSE, event_ids |-> {}]

Back(bs) == Max(DOMAIN bs)
Confirmed(bs) == {i \in DOMAIN bs : bs[i].confirmed}
BlocksOf(bs, id) == {i \in DOMAIN bs : id \in bs[i].event_ids}

-----------------------------------------------------------------------------
(* The hash chain.  A hash is modelled by what it is taken of, so two      *)
(* hashes are equal exactly when everything below them is: the record, the *)
(* index and the previous block's hash.  An empty genesis block carries    *)
(* the release's hardcoded hash whatever its fields are.                   *)

ReleaseGenesisHash == <<"release genesis">>

Digest(prev, i, b) == IF i = 0 /\ b.event_ids = {} THEN ReleaseGenesisHash
                                                   ELSE <<prev, i, b>>

RecomputeHashes(bs) ==
  LET below(i) == {j \in DOMAIN bs : j < i}
      h[i \in DOMAIN bs] ==
        LET prev == IF below(i) = {} THEN <<"genesis">> ELSE h[Max(below(i))].block_hash
        IN  [prev_hash |-> prev, block_hash |-> Digest(prev, i, bs[i])]
  IN  h

-----------------------------------------------------------------------------
(* Placing events into blocks.                                             *)

BlockEventBytes(bs, evs, i) ==
  MapThenSumSet(LAMBDA id : evs[id].size, bs[i].event_ids)

\* Mutant: the scan forgets that a confirmed block is closed.
HasRoomIgnoringConfirmed(bs, evs, id, i) ==
  /\ Cardinality(bs[i].event_ids) < MaxBlockEvents
  /\ BlockEventBytes(bs, evs, i) + evs[id].size <= MaxBlockBytes

\* Mutant: the byte limit is compared before the event is added.
HasRoomByCurrentBytes(bs, evs, id, i) ==
  /\ ~bs[i].confirmed
  /\ Cardinality(bs[i].event_ids) < MaxBlockEvents
  /\ BlockEventBytes(bs, evs, i) < MaxBlockBytes

HasRoom(bs, evs, id, i) ==
  /\ ~bs[i].confirmed
  /\ Cardinality(bs[i].event_ids) < MaxBlockEvents
  /\ BlockEventBytes(bs, evs, i) + evs[id].size <= MaxBlockBytes

\* The first unconfirmed block with room takes the event; if there is none, a
\* block opened at the event's own timestamp is appended for it.
AssignEvent(bs, evs, id) ==
  LET roomy == {i \in DOMAIN bs : HasRoom(bs, evs, id, i)}
      slot  == IF roomy = {} THEN Back(bs) + 1 ELSE Min(roomy)
      b     == IF roomy = {} THEN NewBlock(evs[id].unix_ts) ELSE bs[slot]
  IN  [i \in DOMAIN bs \cup {slot} |->
         IF i = slot THEN [b EXCEPT !.backfilled = @ \/ b.reserved,
                                    !.reserved = FALSE,
                                    !.event_ids = @ \cup {id}]
                     ELSE bs[i]]

\* One reserved block per elapsed interval since the last block was opened,
\* at most MaxReservePerCheck of them.
EnsureBlockSlots(bs, t) ==
  LET last  == Back(bs)
      due   == (t - bs[last].opened_unix) \div BlockInterval
      fresh == {i \in (last + 1)..(last + due) : i <= last + MaxReservePerCheck}
  IN  [i \in DOMAIN bs \cup fresh |->
         IF i \in DOMAIN bs THEN bs[i]
         ELSE NewBlock(bs[last].opened_unix + (i - last) * BlockInterval)]

\* Mutant: a block is confirmed one second late.
ConfirmOverdue(bs, t) ==
  [i \in DOMAIN bs |->
     [bs[i] EXCEPT !.confirmed = @ \/ t - bs[i].opened_unix > BlockInterval]]

ConfirmDue(bs, t) ==
  [i \in DOMAIN bs |->
     [bs[i] EXCEPT !.confirmed = @ \/ t - bs[i].opened_unix >= BlockInterval]]

\* Mutant: the first block is pruned like any other.
PruneGenesisToo(bs) ==
  LET excess   == Cardinality(DOMAIN bs) - Max({2, PruneKeepRecent})
      prunable == {i \in Confirmed(bs) : bs[i].event_ids = {}}
  IN  IF EnablePruning
      THEN {i \in prunable : Cardinality({j \in prunable : j < i}) < excess}
      ELSE {}

\* The oldest empty confirmed blocks after the first one, as many as exceed
\* the number to keep.
PruneVictims(bs) ==
  LET excess   == Cardinality(DOMAIN bs) - Max({2, PruneKeepRecent})
      prunable == {i \in Confirmed(bs) \ {Min(DOMAIN bs)} : bs[i].event_ids = {}}
  IN  IF EnablePruning
      THEN {i \in prunable : Cardinality({j \in prunable : j < i}) < excess}
      ELSE {}

RestrictTo(f, S) == [x \in DOMAIN f \cap S |-> f[x]]

\* rollback_to_last_checkpoint's target: the highest confirmed block on the
\* checkpoint grid that is deep enough below the confirmed tip, else genesis.
CheckpointIndex(bs) ==
  LET tip == Max(Confirmed(bs))
  IN  Max({0} \cup {i \in Confirmed(bs) : /\ i % CheckpointInterval = 0
                                          /\ tip - i + 1 >= CheckpointConfirmations})

-----------------------------------------------------------------------------
(* The operations of the store.                                            *)

Init ==
  /\ now = 0
  /\ events = [id \in {} |-> [unix_ts |-> 0, size |-> 0]]
  /\ blocks = [i \in {0} |-> NewBlock(0)]
  /\ chain = RecomputeHashes(blocks)

Tick ==
  /\ now < MaxTime
  /\ now' = now + 1
  /\ UNCHANGED <<events, blocks, chain>>

WithinDrift(ts) == ts <= now + MaxFutureDrift /\ ts >= now - MaxPastDrift

\* append_event of an envelope that passes the checks and is not stored yet.
\* A rejected or an already stored envelope leaves the timeline unchanged.
AppendEvent(id, env) ==
  /\ WithinDrift(env.unix_ts)
  /\ id \notin DOMAIN events
  /\ events' = [x \in DOMAIN events \cup {id} |-> IF x = id THEN env ELSE events[x]]
  /\ blocks' = EnsureBlockSlots(AssignEvent(blocks, events', id), now)
  /\ chain' = RecomputeHashes(blocks')
  /\ UNCHANGED now

\* routine_block_check: new slots, confirmation of every block that is an
\* interval old, hashes, then pruning, which the hashes do not see.
RoutineBlockCheck ==
  LET checked == ConfirmDue(EnsureBlockSlots(blocks, now), now)
      kept    == DOMAIN checked \ PruneVictims(checked)
  IN  /\ blocks' = RestrictTo(checked, kept)
      /\ chain' = RestrictTo(RecomputeHashes(checked), kept)
      /\ UNCHANGED <<now, events>>

\* open after a clean stop: both logs load unchanged and only slots are added.
Open ==
  /\ blocks' = EnsureBlockSlots(blocks, now)
  /\ chain' = RecomputeHashes(blocks')
  /\ UNCHANGED <<now, events>>

\* Mutant: the checkpoint block itself is dropped.
RollbackBelowCheckpoint ==
  LET kept == {i \in DOMAIN blocks : i = 0 \/ i < CheckpointIndex(blocks)}
  IN  /\ blocks' = RestrictTo(blocks, kept)
      /\ events' = RestrictTo(events, UNION {blocks[i].event_ids : i \in kept})
      /\ chain' = RecomputeHashes(blocks')
      /\ UNCHANGED now

\* Mutant: the blocks are cut but the events they held stay stored.
RollbackBlocksOnly ==
  LET kept == {i \in DOMAIN blocks : i <= CheckpointIndex(blocks)}
  IN  /\ blocks' = RestrictTo(blocks, kept)
      /\ chain' = RecomputeHashes(blocks')
      /\ UNCHANGED <<now, events>>

RollbackToLastCheckpoint ==
  LET kept == {i \in DOMAIN blocks : i <= CheckpointIndex(blocks)}
  IN  /\ blocks' = RestrictTo(blocks, kept)
      /\ events' = RestrictTo(events, UNION {blocks[i].event_ids : i \in kept})
      /\ chain' = RecomputeHashes(blocks')
      /\ UNCHANGED now

\* Envelopes on offer: only timestamps the drift check would accept.
Offered == [unix_ts : (now - MaxPastDrift)..(now + MaxFutureDrift), size : Sizes]

Next ==
  \/ Tick
  \/ \E id \in EventIds : \E env \in Offered : AppendEvent(id, env)
  \/ RoutineBlockCheck
  \/ Open
  \/ RollbackToLastCheckpoint

Spec == Init /\ [][Next]_vars

\* The GUI shells call sync_tick, and with it routine_block_check, from a
\* timer; the clock advances.
FairSpec == Spec /\ WF_vars(Tick) /\ WF_vars(RoutineBlockCheck)

-----------------------------------------------------------------------------
(* Properties.                                                             *)

\* Every variable holds a value of its type, the genesis block is present and
\* the timeline has a last block, so that blocks_.front() and back() exist.
TypeOK ==
  /\ now \in Nat
  /\ DOMAIN events \subseteq EventIds
  /\ events \in [DOMAIN events -> Envelope]
  /\ DOMAIN blocks \subseteq Nat
  /\ 0 \in DOMAIN blocks
  /\ \E last \in DOMAIN blocks : \A i \in DOMAIN blocks : i <= last
  /\ blocks \in [DOMAIN blocks -> BlockRecord]

\* Every accepted event sits in exactly one block and no block lists an event
\* the store does not hold: what backtest_validate reports as "Event not
\* assigned", "Duplicate event assignment" and "Block references missing event".
EventsPlacedOnce ==
  /\ \A id \in DOMAIN events : \E i \in DOMAIN blocks : id \in blocks[i].event_ids
  /\ \A i, j \in DOMAIN blocks :
       i # j => blocks[i].event_ids \cap blocks[j].event_ids = {}
  /\ \A i \in DOMAIN blocks : blocks[i].event_ids \subseteq DOMAIN events

\* First-fit placement, overflow blocks and backfilling keep every block
\* within the two limits backtest_validate enforces.
BlocksWithinLimits ==
  \A i \in DOMAIN blocks :
    /\ Cardinality(blocks[i].event_ids) <= MaxBlockEvents
    /\ BlockEventBytes(blocks, events, i) <= MaxBlockBytes

\* A confirmed block never becomes unconfirmed and its set of events never
\* changes while it is in the timeline, whatever is appended or checked later.
ConfirmedFrozen ==
  [][\A i \in DOMAIN blocks \cap DOMAIN blocks' :
       blocks[i].confirmed => /\ blocks'[i].confirmed
                              /\ blocks'[i].event_ids = blocks[i].event_ids]_vars

\* No step, a rollback included, loses an event held by a confirmed block at or
\* below the last checkpoint.
CheckpointedEventsKept ==
  [][\A i \in Confirmed(blocks) :
       i <= CheckpointIndex(blocks) =>
         /\ blocks[i].event_ids \subseteq DOMAIN events'
         /\ blocks[i].event_ids # {} => i \in DOMAIN blocks']_vars

\* The hash of a confirmed block never changes while it stays in the timeline
\* ("Event and block timelines are immutable and coherent.", store.cpp:1392).
ConfirmedHashFrozen ==
  [][\A i \in Confirmed(blocks) \cap DOMAIN chain' :
       chain'[i].block_hash = chain[i].block_hash]_vars

\* The genesis block keeps the release's hash, which use_community_profile
\* compares at every start.
GenesisIsRelease == chain[0].block_hash = ReleaseGenesisHash

\* An accepted event whose block is due before the clock's bound ends up in a
\* confirmed block, unless a rollback drops it first.
DueEventsConfirmed ==
  \A id \in EventIds :
    (\E i \in BlocksOf(blocks, id) : blocks[i].opened_unix + BlockInterval <= MaxTime)
      ~> (id \notin DOMAIN events \/ BlocksOf(blocks, id) \subseteq Confirmed(blocks))
=============================================================================
