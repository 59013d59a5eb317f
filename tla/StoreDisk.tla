----------------------------- MODULE StoreDisk -----------------------------
(***************************************************************************)
(* The files of alpha::Store and how a start reads them back.  The event   *)
(* log is appended to, the block log is rewritten in place; a process may  *)
(* stop inside a write, an open may be refused, and a write may be cut     *)
(* short unseen (the stream is checked before its buffer is flushed).      *)
(*                                                                         *)
(* An operation is one step: nothing of the process runs beside it, so a   *)
(* stop inside it is a step that does its first writes and ends it.  The   *)
(* start is several steps, one per phase, since each phase rewrites files. *)
(*                                                                         *)
(* A line cut short is told apart by what the next read makes of it:       *)
(*   "stub"      cut inside the id: ignored, but the next line appended    *)
(*               to it is read as an event with a wrong id                 *)
(*   "torn"      cut before the signature: ignored                         *)
(*   "unsigned"  cut before the signature's first character: read          *)
(*   "bare"      cut inside the signature or before the newline: read      *)
(* What is appended to any but a stub makes a line that is ignored.  A     *)
(* line is cut only when the one before it is complete.                    *)
(*                                                                         *)
(* Placement and checkpoints are those of BlockTimeline; hashes are left   *)
(* out, since every open and check recomputes them, and so is pruning.     *)
(* The block log's header, which names the chain, is in module Startup.    *)
(***************************************************************************)
EXTENDS Integers, Sequences, SequencesExt, FiniteSets, FiniteSetsExt

CONSTANTS
  EventIds, BlockInterval, MaxReservePerCheck, MaxBlockEvents, MaxPastDrift,
  CheckpointInterval, CheckpointConfirmations,
  Rivals,      \* claims of one block: replay rejects all but one of them
  Rejected,    \* events replay rejects for another reason
  Stray,       \* an id no event has: what a garbled line names
  MaxTime,     \* bounds on the clock and on the number of faults
  MaxFaults

ASSUME StoreDiskConstants ==
  /\ Rivals \subseteq EventIds /\ Rejected \subseteq EventIds
  /\ Stray \notin EventIds
  /\ BlockInterval \in Nat \ {0}
  /\ MaxReservePerCheck \in Nat \ {0}
  /\ MaxBlockEvents \in Nat \ {0}
  /\ MaxPastDrift \in Nat
  /\ CheckpointInterval \in Nat \ {0}
  /\ CheckpointConfirmations \in Nat \ {0}
  /\ MaxTime \in Nat /\ MaxFaults \in Nat

VARIABLES
  now,      \* util::unix_timestamp_now()
  phase,    \* "down", the phases of a start, or "serving"
  log,      \* events_, in their order
  blocks,   \* blocks_, as in BlockTimeline
  disk,     \* the event log's lines, its unterminated tail, the block log
  kinds,    \* the faults this run's environment knows
  left,     \* how many of them are still to come
  acked,    \* history: the events append_event reported as stored
  joined    \* history: the events on a line that was appended to a cut one

vars == <<now, phase, log, blocks, disk, kinds, left, acked, joined>>

Line == [id : EventIds \cup {Stray}, unix_ts : Int, signed : BOOLEAN]
TornLine == [line : Line, form : {"stub", "torn", "unsigned", "bare"}]

Ids(l) == {l[k].id : k \in DOMAIN l}

TimeOf(l, id) == IF id \in Ids(l) THEN l[SelectInSeq(l, LAMBDA e : e.id = id)].unix_ts ELSE 0

Envelopes(l, ids) == [id \in ids |-> [unix_ts |-> TimeOf(l, id), size |-> 1]]

NoBlocks == [i \in {} |-> 0]

Timeline == INSTANCE BlockTimeline WITH
  EventIds <- EventIds \cup {Stray}, Sizes <- {1}, MaxBlockBytes <- MaxBlockEvents, MaxFutureDrift <- 0,
  EnablePruning <- FALSE, PruneKeepRecent <- 1,
  events <- Envelopes(log, Ids(log)), chain <- 0

EnsureGenesis(bs) == IF bs = NoBlocks THEN [i \in {0} |-> Timeline!NewBlock(now)] ELSE bs

\* One event after the other, in their order.
AssignUnassigned(bs, l) ==
  LET sizes == Envelopes(l, EventIds \cup {Stray})
      assigned[k \in 0..Len(l)] ==
        IF k = 0 THEN bs
        ELSE LET b == assigned[k - 1]
             IN  IF Timeline!BlocksOf(b, l[k].id) # {} THEN b
                 ELSE Timeline!AssignEvent(b, sizes, l[k].id)
  IN  assigned[Len(l)]

\* The lines whose event is in one of the blocks, in their order.
Retained(l, bs) ==
  LET kept[k \in 0..Len(l)] ==
        IF k = 0 THEN <<>>
        ELSE IF Timeline!BlocksOf(bs, l[k].id) # {} THEN Append(kept[k - 1], l[k]) ELSE kept[k - 1]
  IN  kept[Len(l)]

-----------------------------------------------------------------------------
(* What a write leaves in a file, given the fault it meets.                *)

Fault == [kind : {"crash", "refused", "short"}, at : {"events", "blocks"}]
         \cup [kind : {"crash", "refused"}, at : {"later"}]
NoFault == [kind |-> "none", at |-> "later"]

\* The operation ends at the fault: its later writes do not happen.
Ends(f) == f.kind \in {"crash", "refused"}

EmptyDisk == [lines |-> <<>>, tail |-> {}, blocks |-> NoBlocks]

\* A complete line; behind one that was cut short it completes that one.
Appended(d, e) ==
  IF d.tail = {} THEN [d EXCEPT !.lines = Append(@, e)]
  ELSE [d EXCEPT !.tail = {},
                 !.lines = IF \E t \in d.tail : t.form = "stub"
                           THEN Append(@, [e EXCEPT !.id = Stray]) ELSE @]

CutLine(d, e) ==
  {[d EXCEPT !.tail = {[line |-> [e EXCEPT !.signed = (form # "unsigned")], form |-> form]}] :
     form \in {"stub", "torn", "unsigned", "bare"}}

\* Mutant: the log is opened for rewriting instead of appending.
EventTruncated(d, e, f) == {[d EXCEPT !.lines = <<e>>, !.tail = {}]}

\* persist_event
EventAppended(d, e, f) ==
  IF f.at # "events" THEN {Appended(d, e)}
  ELSE {d} \cup (IF f.kind = "refused" THEN {}
                 ELSE {Appended(d, e)} \cup (IF d.tail = {} THEN CutLine(d, e) ELSE {}))

\* persist_event_log
EventLogRewritten(d, l, f) ==
  LET upTo(k) == [d EXCEPT !.lines = SubSeq(l, 1, k), !.tail = {}]
      cut == UNION {{upTo(k - 1)} \cup CutLine(upTo(k - 1), l[k]) : k \in DOMAIN l}
  IN  IF f.at # "events" THEN {upTo(Len(l))}
      ELSE (IF Ends(f) THEN {d} ELSE {})
           \cup (IF f.kind = "refused" THEN {} ELSE {upTo(Len(l))} \cup cut)

\* A block line cut short is ignored, or read with none or some of its ids
\* and possibly the beginning of one more.
CutBlocks(bs) ==
  UNION {LET upTo(ids) == [i \in {j \in DOMAIN bs : j <= k} |->
                             IF i < k THEN bs[i] ELSE [bs[i] EXCEPT !.event_ids = ids]]
         IN  {[i \in {j \in DOMAIN bs : j < k} |-> bs[i]]}
             \cup {upTo(ids) : ids \in (SUBSET bs[k].event_ids) \cup {{Stray}}} : k \in DOMAIN bs}

\* persist_block_log
BlockLogRewritten(d, bs, f) ==
  IF f.at = "events" /\ Ends(f) THEN {d}
  ELSE IF f.at # "blocks" THEN {[d EXCEPT !.blocks = bs]}
  ELSE (IF Ends(f) THEN {d} ELSE {})
       \cup (IF f.kind = "refused" THEN {}
             ELSE {[d EXCEPT !.blocks = b] : b \in CutBlocks(bs) \cup {bs}})

\* The environment spends a fault of a kind it knows.
Meets(f) ==
  /\ f # NoFault => f.kind \in kinds /\ left > 0
  /\ left' = IF f = NoFault THEN left ELSE left - 1

Down == phase' = "down" /\ log' = <<>> /\ blocks' = NoBlocks

-----------------------------------------------------------------------------
(* Operations of a store that is being served.                             *)

Init ==
  /\ now = 0
  /\ phase = "down" /\ log = <<>> /\ blocks = NoBlocks
  /\ disk = EmptyDisk
  /\ kinds \in {{}, {"crash"}, {"crash", "refused", "short"}}
  /\ left = MaxFaults
  /\ acked = {} /\ joined = {}

Tick ==
  /\ now < MaxTime
  /\ now' = now + 1
  /\ UNCHANGED <<phase, log, blocks, disk, kinds, left, acked, joined>>

Checked(bs, l) ==
  Timeline!ConfirmDue(AssignUnassigned(Timeline!EnsureBlockSlots(EnsureGenesis(bs), now), l), now)

Placed(bs, l) ==
  Timeline!EnsureBlockSlots(AssignUnassigned(EnsureGenesis(bs), l), now)

\* Mutant: an event is placed only if all its writes succeed.
UnplacedIfRefused(f) == f.kind = "refused"

\* An event whose own write is refused is not placed.
Unplaced(f) == f.kind = "refused" /\ f.at = "events"

\* append_event: the event is in memory before it is written, and a refused
\* write leaves it there.
AppendEvent(e, f) ==
  LET l == Append(log, e)
  IN  /\ phase = "serving" /\ e.id \notin Ids(log)
      /\ Timeline!WithinDrift(e.unix_ts)
      /\ Meets(f)
      /\ \E d \in EventAppended(disk, e, f) : disk' \in BlockLogRewritten(d, Placed(blocks, l), f)
      /\ IF f.kind = "crash" THEN Down
         ELSE /\ log' = l
              /\ blocks' = IF Unplaced(f) THEN blocks ELSE Placed(blocks, l)
              /\ UNCHANGED phase
      /\ acked' = IF Ends(f) THEN acked ELSE acked \cup {e.id}
      /\ joined' = (joined \ {e.id}) \cup
                   (IF disk.tail # {} /\ disk'.tail = {}
                    THEN {e.id} \cup {t.line.id : t \in disk.tail} ELSE {})
      /\ UNCHANGED <<now, kinds>>

\* An event that is in memory is reported as stored, whether or not it was written.
AppendAgain(id) ==
  /\ phase = "serving" /\ id \in Ids(log) \ acked
  /\ acked' = acked \cup {id}
  /\ UNCHANGED <<now, phase, log, blocks, disk, kinds, left, joined>>

RoutineBlockCheck(f) ==
  /\ f.at # "events"
  /\ Meets(f)
  /\ disk' \in BlockLogRewritten(disk, Checked(blocks, log), f)
  /\ \/ /\ phase = "serving" /\ f.kind # "crash"
        /\ blocks' = Checked(blocks, log)
        /\ UNCHANGED <<phase, log>>
     \/ /\ phase \in {"opened", "rolled back"} /\ ~Ends(f)
        /\ phase' = IF phase = "opened" THEN "checked" ELSE "repaired"
        /\ blocks' = Checked(blocks, log)
        /\ UNCHANGED log
     \/ phase = "serving" /\ f.kind = "crash" /\ Down
     \/ phase \in {"opened", "rolled back"} /\ Ends(f) /\ Down
  /\ UNCHANGED <<now, kinds, acked, joined>>

Stop ==
  /\ phase = "serving" /\ Down
  /\ UNCHANGED <<now, disk, kinds, left, acked, joined>>

-----------------------------------------------------------------------------
(* A start: open, block check, validation, and what its result calls for.  *)

\* load_event_log
Loaded(d) ==
  d.lines \o SetToSeq({t.line : t \in {u \in d.tail : u.form \in {"unsigned", "bare"}}})

Genuine(bs) == bs[Min(DOMAIN bs)].event_ids = {}

Open(f) ==
  LET l == Loaded(disk)
      bs == Placed(disk.blocks, l)
  IN  /\ phase = "down"
      /\ f.at # "events" /\ Meets(f)
      /\ disk' \in BlockLogRewritten(disk, bs, f)
      /\ IF Ends(f) THEN Down
         ELSE /\ phase' = IF Genuine(bs) THEN "opened" ELSE "foreign"
              /\ log' = l /\ blocks' = bs
      /\ UNCHANGED <<now, kinds, acked, joined>>

\* The findings of backtest_validate that should_rebuild_local_store knows.
Corrupt ==
  \/ Stray \in Ids(log)
  \/ ~Timeline!EventsPlacedOnce

Conflict == Cardinality(Rivals \cap Ids(log)) > 1

\* The other findings: an empty signature, an event replay rejects.
Unsound == Conflict \/ (\E e \in ToSet(log) : ~e.signed \/ e.id \in Rejected)

Serve ==
  /\ phase \in {"checked", "repaired"} /\ ~Corrupt /\ ~Unsound
  /\ phase' = "serving"
  /\ UNCHANGED <<now, log, blocks, disk, kinds, left, acked, joined>>

\* Mutant: the event log is not rewritten.
RollbackBlockLogOnly(f) ==
  LET at == Timeline!CheckpointIndex(blocks)
      bs == [i \in {j \in DOMAIN blocks : j <= at} |-> blocks[i]]
  IN  /\ phase = "checked" /\ Conflict /\ Meets(f)
      /\ disk' \in BlockLogRewritten(disk, bs, f)
      /\ phase' = "rolled back" /\ blocks' = bs
      /\ log' = Retained(log, bs)
      /\ UNCHANGED <<now, kinds, acked, joined>>

RollbackToLastCheckpoint(f) ==
  LET at == Timeline!CheckpointIndex(blocks)
      bs == [i \in {j \in DOMAIN blocks : j <= at} |-> blocks[i]]
      l == Retained(log, bs)
  IN  /\ phase = "checked" /\ Conflict
      /\ Meets(f)
      /\ \E d \in EventLogRewritten(disk, l, f) : disk' \in BlockLogRewritten(d, bs, f)
      /\ IF Ends(f) THEN Down ELSE phase' = "rolled back" /\ log' = l /\ blocks' = bs
      /\ UNCHANGED <<now, kinds, acked, joined>>

\* quarantine_and_reset_store_dir, and open of the empty directory.
Quarantine(f) ==
  LET bs == EnsureGenesis(NoBlocks)
  IN  /\ \/ phase = "foreign"
         \/ phase = "checked" /\ Corrupt /\ ~Conflict
         \/ phase = "repaired" /\ Corrupt
      /\ f.at # "events" /\ Meets(f)
      /\ disk' \in BlockLogRewritten(EmptyDisk, bs, f)
      /\ IF Ends(f) THEN Down ELSE phase' = "opened" /\ log' = <<>> /\ blocks' = bs
      /\ UNCHANGED <<now, kinds, acked, joined>>

\* init fails and the process ends.
Refuse ==
  /\ ~Corrupt /\ Unsound
  /\ phase = "repaired" \/ (phase = "checked" /\ ~Conflict)
  /\ Down
  /\ UNCHANGED <<now, disk, kinds, left, acked, joined>>

OfferedLines == [id : EventIds, unix_ts : (now - MaxPastDrift)..now, signed : {TRUE}]

StartStep ==
  \/ Serve
  \/ Refuse
  \/ \E f \in Fault \cup {NoFault} :
       \/ Open(f)
       \/ RollbackToLastCheckpoint(f)
       \/ Quarantine(f)
       \/ phase # "serving" /\ RoutineBlockCheck(f)

Next ==
  \/ Tick
  \/ Stop
  \/ StartStep
  \/ \E id \in EventIds : AppendAgain(id)
  \/ \E f \in Fault \cup {NoFault} :
       \/ \E e \in OfferedLines : AppendEvent(e, f)
       \/ phase = "serving" /\ RoutineBlockCheck(f)

Spec == Init /\ [][Next]_vars

-----------------------------------------------------------------------------
(* Properties.                                                             *)

\* The variables hold values of their types, and no event is held twice.
TypeOK ==
  /\ now \in 0..MaxTime /\ left \in 0..MaxFaults
  /\ phase \in {"down", "foreign", "opened", "checked", "rolled back", "repaired", "serving"}
  /\ log \in Seq(Line) /\ disk.lines \in Seq(Line)
  /\ \A j, k \in DOMAIN log : log[j].id = log[k].id => j = k \/ log[j].id = Stray
  /\ disk.tail \subseteq TornLine /\ Cardinality(disk.tail) <= 1
  /\ acked \subseteq EventIds /\ joined \subseteq EventIds \cup {Stray}

\* While nothing worse than a stop happens, what is served is what the next
\* start would load: the block log is the blocks, and the event log holds every
\* event but those on a line that was appended to a cut one.
ServedIsOnDisk ==
  phase = "serving" /\ kinds \subseteq {"crash"} =>
    /\ disk.blocks = blocks
    /\ Ids(Loaded(disk)) \subseteq Ids(log) \cup {Stray}
    /\ Ids(log) \subseteq Ids(Loaded(disk)) \cup joined

\* Whatever stops, refused and unseen short writes left in the files, and whatever
\* failed since: blocks that are served name served events only and each once, and
\* every event that the next start would load is served and has its block.  Only an
\* event whose own write was refused may be without one.
ServedIsCoherent ==
  phase = "serving" =>
    /\ Stray \notin Ids(log)
    /\ \A i \in DOMAIN blocks : blocks[i].event_ids \subseteq Ids(log)
    /\ \A i, j \in DOMAIN blocks : i # j => blocks[i].event_ids \cap blocks[j].event_ids = {}
    /\ \A id \in Ids(Loaded(disk)) \ {Stray} : id \in Ids(log) /\ Timeline!BlocksOf(blocks, id) # {}

\* The start is about to roll the store back or to set it aside.
Repairs ==
  \/ phase = "foreign"
  \/ phase = "checked" /\ (Conflict \/ Corrupt)
  \/ phase = "repaired" /\ Corrupt

\* A line that can be read stays readable, whatever the faults, unless the store is
\* rolled back or quarantined or a line is joined to one that was cut short.
LinesKept ==
  [][\/ Ids(Loaded(disk)) \subseteq Ids(Loaded(disk'))
     \/ Repairs
     \/ joined' # joined]_vars

\* The rollback for a claim conflict leaves no conflict behind, so that the start that
\* made it succeeds: "health.invalid_economic_event_count == 0" once the store is
\* rolled back (tests/test_alpha_core.cpp:160).
RollbackEndsConflict == phase = "rolled back" => ~Conflict
=============================================================================
