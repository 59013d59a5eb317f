------------------------ MODULE BlockTimelineProofs ------------------------
(***************************************************************************)
(* Theorems about BlockTimeline, for every value of its constants: the     *)
(* type invariant, that every accepted event sits in exactly one block,    *)
(* that no block outgrows its limits, that confirmed blocks are frozen, and *)
(* that no step drops an event at or below the last checkpoint.            *)
(***************************************************************************)
EXTENDS BlockTimeline, FiniteSetTheorems, TLAPS

-----------------------------------------------------------------------------
(* Sets of naturals.                                                       *)

\* A non-empty set of naturals has a least element.  The initial segments 0..n
\* are finite sets, on which strict inclusion is well-founded.
LEMMA LeastNat ==
  ASSUME NEW S, S \subseteq Nat, S # {}
  PROVE  \E x \in S : \A y \in S : x <= y
<1> DEFINE T == {0..n : n \in S}
<1>1. \A n \in S : 0..n \in FiniteSubsetsOf(Nat)
  <2> SUFFICES ASSUME NEW n \in S PROVE 0..n \in FiniteSubsetsOf(Nat)
    OBVIOUS
  <2>1. IsFiniteSet(0..n)
    BY FS_Interval
  <2>2. 0..n \subseteq Nat
    OBVIOUS
  <2> QED
    BY <2>1, <2>2 DEF FiniteSubsetsOf
<1>2. T \subseteq FiniteSubsetsOf(Nat) /\ T # {}
  BY <1>1
<1>3. PICK t \in T : \A u \in T : ~ (<<u, t>> \in StrictSubsetOrdering(Nat))
  BY <1>2, FS_StrictSubsetOrderingWellFounded, WFMin
<1>4. PICK x \in S : t = 0..x
  OBVIOUS
<1>5. ASSUME NEW y \in S, y < x PROVE FALSE
  <2>1. 0..y \subseteq 0..x /\ 0..y # 0..x
    BY <1>5
  <2>2. 0..y \in SUBSET Nat /\ 0..x \in SUBSET Nat
    OBVIOUS
  <2>3. <<0..y, 0..x>> \in StrictSubsetOrdering(Nat)
    BY <2>1, <2>2 DEF StrictSubsetOrdering
  <2> QED
    BY <2>3, <1>3, <1>4
<1> QED
  BY <1>5

\* Min of a non-empty set of naturals is its least element.
LEMMA MinOfNats ==
  ASSUME NEW S, S \subseteq Nat, S # {}
  PROVE  /\ Min(S) \in S
         /\ \A y \in S : Min(S) <= y
BY LeastNat DEF Min

\* A non-empty set of naturals with an upper bound has a largest element.
LEMMA BoundedHasLast ==
  ASSUME NEW S, S \subseteq Nat, S # {},
         NEW b \in Nat, \A i \in S : i <= b
  PROVE  \E last \in S : \A i \in S : i <= last
<1> DEFINE U == {n \in Nat : \A i \in S : i <= n}
<1>1. U \subseteq Nat /\ b \in U
  OBVIOUS
<1>2. PICK m \in U : \A y \in U : m <= y
  BY <1>1, LeastNat
<1>3. ASSUME m \notin S PROVE FALSE
  <2>1. \A i \in S : i <= m - 1
    BY <1>2, <1>3
  <2>2. m - 1 \in Nat
    <3>1. PICK s \in S : TRUE
      OBVIOUS
    <3>2. s \in Nat /\ s <= m - 1 /\ m \in Nat
      BY <2>1, <3>1
    <3> QED
      BY <3>2
  <2>3. m - 1 \in U
    BY <2>1, <2>2
  <2> QED
    BY <1>2, <2>3
<1> QED
  BY <1>2, <1>3

\* Where a largest element exists, it is Max.
LEMMA MaxOfBounded ==
  ASSUME NEW S, S \subseteq Nat,
         \E last \in S : \A i \in S : i <= last
  PROVE  /\ Max(S) \in S
         /\ \A i \in S : i <= Max(S)
BY DEF Max

\* Induction over the naturals: a set that holds 0 and the successor of each of
\* its naturals holds them all.
LEMMA NatSetInduction ==
  ASSUME NEW S, 0 \in S, \A n \in Nat : n \in S => n + 1 \in S
  PROVE  Nat \subseteq S
<1> DEFINE C == Nat \ S
<1>1. SUFFICES ASSUME C # {} PROVE FALSE
  OBVIOUS
<1>2. PICK x \in C : \A y \in C : x <= y
  BY <1>1, LeastNat
<1>3. x - 1 \in Nat /\ x - 1 \notin C
  BY <1>2
<1> QED
  BY <1>2, <1>3

-----------------------------------------------------------------------------
(* Timelines.                                                              *)

\* What the operations assume of a timeline and of the events it places.
TimelineOK(bs) ==
  /\ DOMAIN bs \subseteq Nat
  /\ 0 \in DOMAIN bs
  /\ \E last \in DOMAIN bs : \A i \in DOMAIN bs : i <= last
  /\ bs \in [DOMAIN bs -> BlockRecord]

PlacedOnce(bs, ids) ==
  /\ \A id \in ids : \E i \in DOMAIN bs : id \in bs[i].event_ids
  /\ \A i, j \in DOMAIN bs : i # j => bs[i].event_ids \cap bs[j].event_ids = {}
  /\ \A i \in DOMAIN bs : bs[i].event_ids \subseteq ids

\* A block of the second timeline extends the block of the first: it stays
\* confirmed, and a confirmed one keeps its events.
Extends(bs, cs) ==
  /\ DOMAIN bs \subseteq DOMAIN cs
  /\ \A i \in DOMAIN bs :
       /\ bs[i].confirmed => cs[i].confirmed
       /\ bs[i].confirmed => cs[i].event_ids = bs[i].event_ids
       /\ bs[i].event_ids \subseteq cs[i].event_ids

LEMMA BackIsLast ==
  ASSUME NEW bs, TimelineOK(bs)
  PROVE  /\ Back(bs) \in DOMAIN bs
         /\ \A i \in DOMAIN bs : i <= Back(bs)
BY MaxOfBounded DEF Back, TimelineOK

LEMMA NewBlockType ==
  ASSUME NEW t \in Int
  PROVE  /\ NewBlock(t) \in BlockRecord
         /\ NewBlock(t).event_ids = {}
BY DEF NewBlock, BlockRecord

\* The slots that ensure_block_slots_until adds are empty and come after the
\* last block.
LEMMA EnsureBlockSlotsOK ==
  ASSUME NEW bs, TimelineOK(bs), NEW t \in Int
  PROVE  /\ TimelineOK(EnsureBlockSlots(bs, t))
         /\ \A ids : PlacedOnce(bs, ids) => PlacedOnce(EnsureBlockSlots(bs, t), ids)
         /\ Extends(bs, EnsureBlockSlots(bs, t))
<1> DEFINE last == Back(bs)
           due == (t - bs[last].opened_unix) \div BlockInterval
           fresh == {i \in (last + 1)..(last + due) : i <= last + MaxReservePerCheck}
           cs == EnsureBlockSlots(bs, t)
<1>1. /\ last \in DOMAIN bs
      /\ last \in Nat
      /\ \A i \in DOMAIN bs : i <= last
  BY BackIsLast DEF TimelineOK
<1>2. bs[last].opened_unix \in Int
  BY <1>1 DEF TimelineOK, BlockRecord
<1>3. due \in Int
  BY <1>2, TimelineConstants DEF TimelineConstants
<1> HIDE DEF due
<1>4. fresh \subseteq Nat /\ \A i \in fresh : i > last /\ i <= last + MaxReservePerCheck
  BY <1>1, <1>3, TimelineConstants DEF TimelineConstants
<1>5. cs = [i \in DOMAIN bs \cup fresh |->
              IF i \in DOMAIN bs THEN bs[i]
              ELSE NewBlock(bs[last].opened_unix + (i - last) * BlockInterval)]
  BY DEF EnsureBlockSlots, due
<1> HIDE DEF cs, fresh, last
<1>6. \A i \in fresh : bs[last].opened_unix + (i - last) * BlockInterval \in Int
  BY <1>1, <1>2, <1>4, TimelineConstants DEF TimelineConstants
<1>7. DOMAIN cs = DOMAIN bs \cup fresh
  BY <1>5
<1>8. \A i \in DOMAIN bs : cs[i] = bs[i]
  BY <1>5, <1>7
<1>9. \A i \in DOMAIN cs \ DOMAIN bs : cs[i] \in BlockRecord /\ cs[i].event_ids = {}
  BY <1>5, <1>6, <1>7, NewBlockType
<1>10. TimelineOK(cs)
  <2>1. DOMAIN cs \subseteq Nat /\ 0 \in DOMAIN cs
    BY <1>4, <1>7 DEF TimelineOK
  <2>2. last + MaxReservePerCheck \in Nat
    BY <1>1, TimelineConstants DEF TimelineConstants
  <2>3. \A i \in DOMAIN cs : i <= last + MaxReservePerCheck
    BY <1>1, <1>4, <1>7, <2>1, TimelineConstants DEF TimelineConstants
  <2>4. \E m \in DOMAIN cs : \A i \in DOMAIN cs : i <= m
    BY <2>1, <2>2, <2>3, BoundedHasLast
  <2>5. \A i \in DOMAIN cs : cs[i] \in BlockRecord
    BY <1>8, <1>9 DEF TimelineOK
  <2>6. cs \in [DOMAIN cs -> BlockRecord]
    BY <1>5, <1>7, <2>5
  <2> QED
    BY <2>1, <2>4, <2>6 DEF TimelineOK
<1>11. ASSUME NEW ids, PlacedOnce(bs, ids) PROVE PlacedOnce(cs, ids)
  BY <1>7, <1>8, <1>9, <1>11 DEF PlacedOnce
<1>12. Extends(bs, cs)
  BY <1>7, <1>8 DEF Extends
<1> QED
  BY <1>10, <1>11, <1>12 DEF cs

\* First-fit placement puts a new event into one unconfirmed block, or into a
\* block appended after the last one, and leaves the other blocks alone.
LEMMA AssignEventOK ==
  ASSUME NEW bs, TimelineOK(bs), NEW evs, NEW id \in EventIds,
         evs[id].unix_ts \in Int
  PROVE  /\ TimelineOK(AssignEvent(bs, evs, id))
         /\ \A ids : PlacedOnce(bs, ids) /\ id \notin ids =>
                      PlacedOnce(AssignEvent(bs, evs, id), ids \cup {id})
         /\ Extends(bs, AssignEvent(bs, evs, id))
<1> DEFINE roomy == {i \in DOMAIN bs : HasRoom(bs, evs, id, i)}
           slot == IF roomy = {} THEN Back(bs) + 1 ELSE Min(roomy)
           b == IF roomy = {} THEN NewBlock(evs[id].unix_ts) ELSE bs[slot]
           c == [b EXCEPT !.backfilled = @ \/ b.reserved,
                          !.reserved = FALSE,
                          !.event_ids = @ \cup {id}]
           cs == AssignEvent(bs, evs, id)
<1>1. cs = [i \in DOMAIN bs \cup {slot} |-> IF i = slot THEN c ELSE bs[i]]
  BY DEF AssignEvent
<1>2. /\ Back(bs) \in DOMAIN bs
      /\ Back(bs) \in Nat
      /\ \A i \in DOMAIN bs : i <= Back(bs)
  BY BackIsLast DEF TimelineOK
<1>3. CASE roomy = {}
  <2>1. slot = Back(bs) + 1 /\ b = NewBlock(evs[id].unix_ts)
    BY <1>3
  <2>2. slot \in Nat /\ slot \notin DOMAIN bs /\ \A i \in DOMAIN bs : i <= slot
    BY <1>2, <2>1 DEF TimelineOK
  <2>3. b \in BlockRecord /\ b.event_ids = {}
    BY <2>1, NewBlockType
  <2> HIDE DEF slot, b
  <2>4. c \in BlockRecord /\ c.event_ids = {id}
    BY <2>3 DEF BlockRecord
  <2> HIDE DEF c, cs
  <2>5. /\ DOMAIN cs = DOMAIN bs \cup {slot}
        /\ cs[slot] = c
        /\ \A i \in DOMAIN bs : cs[i] = bs[i]
    BY <1>1, <2>2
  <2>6. TimelineOK(cs)
    <3>1. cs \in [DOMAIN cs -> BlockRecord]
      BY <1>1, <2>4, <2>5 DEF TimelineOK
    <3> QED
      BY <2>2, <2>5, <3>1 DEF TimelineOK
  <2>7. ASSUME NEW ids, PlacedOnce(bs, ids), id \notin ids
        PROVE  PlacedOnce(cs, ids \cup {id})
    BY <2>4, <2>5, <2>2, <2>7 DEF PlacedOnce
  <2>8. Extends(bs, cs)
    BY <2>5 DEF Extends
  <2> QED
    BY <2>6, <2>7, <2>8 DEF cs
<1>4. CASE roomy # {}
  <2>1. slot \in roomy
    BY <1>4, MinOfNats DEF TimelineOK
  <2>2. slot \in DOMAIN bs /\ ~ bs[slot].confirmed /\ b = bs[slot]
    BY <1>4, <2>1 DEF HasRoom
  <2>3. b \in BlockRecord
    BY <2>2 DEF TimelineOK
  <2> HIDE DEF slot, b
  <2>4. c \in BlockRecord /\ c.event_ids = b.event_ids \cup {id}
    BY <2>3 DEF BlockRecord
  <2> HIDE DEF c, cs
  <2>5. /\ DOMAIN cs = DOMAIN bs
        /\ cs[slot] = c
        /\ \A i \in DOMAIN bs \ {slot} : cs[i] = bs[i]
    BY <1>1, <2>2
  <2>6. TimelineOK(cs)
    <3>1. cs \in [DOMAIN cs -> BlockRecord]
      BY <1>1, <2>4, <2>5 DEF TimelineOK
    <3> QED
      BY <2>5, <3>1 DEF TimelineOK
  <2>7. ASSUME NEW ids, PlacedOnce(bs, ids), id \notin ids
        PROVE  PlacedOnce(cs, ids \cup {id})
    <3>1. \A i \in DOMAIN cs : cs[i].event_ids \subseteq ids \cup {id}
      BY <2>2, <2>4, <2>5, <2>7 DEF PlacedOnce
    <3>2. \A e \in ids \cup {id} : \E i \in DOMAIN cs : e \in cs[i].event_ids
      <4>1. id \in cs[slot].event_ids /\ slot \in DOMAIN cs
        BY <2>2, <2>4, <2>5
      <4>2. \A i \in DOMAIN bs : bs[i].event_ids \subseteq cs[i].event_ids
        BY <2>2, <2>4, <2>5
      <4> QED
        BY <4>1, <4>2, <2>5, <2>7 DEF PlacedOnce
    <3>3. ASSUME NEW i \in DOMAIN cs, NEW j \in DOMAIN cs, i # j
          PROVE  cs[i].event_ids \cap cs[j].event_ids = {}
      <4>1. id \notin bs[i].event_ids /\ id \notin bs[j].event_ids
        BY <2>5, <2>7 DEF PlacedOnce
      <4>2. bs[i].event_ids \cap bs[j].event_ids = {}
        BY <2>5, <2>7, <3>3 DEF PlacedOnce
      <4> QED
        BY <4>1, <4>2, <2>2, <2>4, <2>5, <3>3
    <3> QED
      BY <3>1, <3>2, <3>3 DEF PlacedOnce
  <2>8. Extends(bs, cs)
    BY <2>2, <2>4, <2>5 DEF Extends
  <2> QED
    BY <2>6, <2>7, <2>8 DEF cs
<1> QED
  BY <1>3, <1>4

\* Confirmation only raises the confirmed flag.
LEMMA ConfirmDueOK ==
  ASSUME NEW bs, TimelineOK(bs), NEW t \in Int
  PROVE  /\ TimelineOK(ConfirmDue(bs, t))
         /\ \A ids : PlacedOnce(bs, ids) => PlacedOnce(ConfirmDue(bs, t), ids)
         /\ Extends(bs, ConfirmDue(bs, t))
<1> DEFINE cs == ConfirmDue(bs, t)
<1>1. /\ DOMAIN cs = DOMAIN bs
      /\ cs = [i \in DOMAIN bs |->
                 [bs[i] EXCEPT !.confirmed = @ \/ t - bs[i].opened_unix >= BlockInterval]]
  BY DEF ConfirmDue
<1> HIDE DEF cs
<1>2. ASSUME NEW i \in DOMAIN bs
      PROVE  /\ cs[i] \in BlockRecord
             /\ cs[i].event_ids = bs[i].event_ids
             /\ bs[i].confirmed => cs[i].confirmed
  BY <1>1 DEF TimelineOK, BlockRecord
<1>3. cs \in [DOMAIN cs -> BlockRecord]
  BY <1>1, <1>2
<1>4. TimelineOK(cs)
  BY <1>1, <1>3 DEF TimelineOK
<1>5. DOMAIN cs = DOMAIN bs
  BY <1>1
<1>6. ASSUME NEW ids, PlacedOnce(bs, ids) PROVE PlacedOnce(cs, ids)
  BY <1>2, <1>5, <1>6 DEF PlacedOnce
<1>7. Extends(bs, cs)
  BY <1>2, <1>5 DEF Extends
<1> QED
  BY <1>4, <1>6, <1>7 DEF cs

\* Dropping blocks other than genesis keeps a timeline a timeline.
LEMMA RestrictOK ==
  ASSUME NEW bs, TimelineOK(bs), NEW S, 0 \in S
  PROVE  TimelineOK(RestrictTo(bs, S))
<1> DEFINE cs == RestrictTo(bs, S)
<1>1. DOMAIN cs = DOMAIN bs \cap S /\ \A i \in DOMAIN cs : cs[i] = bs[i]
  BY DEF RestrictTo
<1>2. cs \in [DOMAIN cs -> BlockRecord]
  BY <1>1 DEF TimelineOK, RestrictTo
<1> HIDE DEF cs
<1>3. DOMAIN cs \subseteq Nat /\ 0 \in DOMAIN cs
  BY <1>1 DEF TimelineOK
<1>4. PICK m \in Nat : \A i \in DOMAIN cs : i <= m
  BY <1>1 DEF TimelineOK
<1>5. \E last \in DOMAIN cs : \A i \in DOMAIN cs : i <= last
  BY <1>3, <1>4, BoundedHasLast
<1> QED
  BY <1>2, <1>3, <1>5 DEF TimelineOK, cs

\* The checkpoint is a block of the timeline.
LEMMA CheckpointPresent ==
  ASSUME NEW bs, TimelineOK(bs)
  PROVE  CheckpointIndex(bs) \in DOMAIN bs
<1> DEFINE deep == {0} \cup {i \in Confirmed(bs) :
                      /\ i % CheckpointInterval = 0
                      /\ Max(Confirmed(bs)) - i + 1 >= CheckpointConfirmations}
<1>1. CheckpointIndex(bs) = Max(deep)
  BY DEF CheckpointIndex
<1>2. deep \subseteq DOMAIN bs /\ 0 \in deep
  BY DEF Confirmed, TimelineOK
<1> HIDE DEF deep
<1>3. PICK m \in Nat : \A i \in DOMAIN bs : i <= m
  BY DEF TimelineOK
<1>4. deep \subseteq Nat /\ deep # {} /\ \A i \in deep : i <= m
  BY <1>2, <1>3 DEF TimelineOK
<1>5. \E last \in deep : \A i \in deep : i <= last
  BY <1>4, BoundedHasLast
<1>6. Max(deep) \in deep
  BY <1>4, <1>5, MaxOfBounded
<1> QED
  BY <1>1, <1>2, <1>6

-----------------------------------------------------------------------------
(* The operations.                                                         *)

EventsOK(evs) == DOMAIN evs \subseteq EventIds /\ evs \in [DOMAIN evs -> Envelope]

\* The inductive invariant: both conjuncts are checked by TLC as well.
IInv == TypeOK /\ EventsPlacedOnce

LEMMA IInvParts ==
  IInv <=> /\ now \in Nat
           /\ EventsOK(events)
           /\ TimelineOK(blocks)
           /\ PlacedOnce(blocks, DOMAIN events)
BY DEF IInv, TypeOK, EventsPlacedOnce, EventsOK, TimelineOK, PlacedOnce

LEMMA InitIInv == Init => IInv
<1> SUFFICES ASSUME Init PROVE IInv
  OBVIOUS
<1>1. DOMAIN events = {} /\ EventsOK(events)
  BY DEF Init, EventsOK
<1>2. NewBlock(0) \in BlockRecord /\ NewBlock(0).event_ids = {}
  BY NewBlockType
<1>3. DOMAIN blocks = {0} /\ blocks[0] = NewBlock(0) /\ blocks = [i \in {0} |-> NewBlock(0)]
  BY DEF Init
<1>4. TimelineOK(blocks)
  BY <1>2, <1>3 DEF TimelineOK
<1>5. PlacedOnce(blocks, DOMAIN events)
  BY <1>1, <1>2, <1>3 DEF PlacedOnce
<1> QED
  BY <1>1, <1>4, <1>5, IInvParts DEF Init

\* What append_event does to the timeline.
LEMMA AppendStep ==
  ASSUME IInv, NEW id \in EventIds, NEW env \in Offered, AppendEvent(id, env)
  PROVE  /\ IInv'
         /\ Extends(blocks, blocks')
         /\ DOMAIN events \subseteq DOMAIN events'
<1>1. now \in Nat /\ EventsOK(events) /\ TimelineOK(blocks) /\ PlacedOnce(blocks, DOMAIN events)
  BY IInvParts
<1>2. env \in Envelope
  BY <1>1, TimelineConstants DEF Offered, Envelope, TimelineConstants
<1>3. /\ DOMAIN events' = DOMAIN events \cup {id}
      /\ events'[id] = env
      /\ events' \in [DOMAIN events' -> Envelope]
      /\ id \notin DOMAIN events
  BY <1>1, <1>2 DEF AppendEvent, EventsOK
<1>4. events'[id].unix_ts \in Int
  BY <1>2, <1>3 DEF Envelope
<1> DEFINE as == AssignEvent(blocks, events', id)
<1>5. /\ TimelineOK(as)
      /\ PlacedOnce(as, DOMAIN events')
      /\ Extends(blocks, as)
  <2>1. /\ TimelineOK(as)
        /\ PlacedOnce(as, DOMAIN events \cup {id})
        /\ Extends(blocks, as)
    BY <1>1, <1>3, <1>4, AssignEventOK
  <2> QED
    BY <1>3, <2>1
<1>6. blocks' = EnsureBlockSlots(as, now) /\ now' = now
  BY DEF AppendEvent
<1> HIDE DEF as
<1>7. /\ TimelineOK(blocks')
      /\ PlacedOnce(blocks', DOMAIN events')
      /\ Extends(as, blocks')
  <2>1. now \in Int
    BY <1>1
  <2>2. /\ TimelineOK(EnsureBlockSlots(as, now))
        /\ PlacedOnce(EnsureBlockSlots(as, now), DOMAIN events')
        /\ Extends(as, EnsureBlockSlots(as, now))
    BY <1>5, <2>1, EnsureBlockSlotsOK
  <2> QED
    BY <1>6, <2>2
<1>8. Extends(blocks, blocks')
  BY <1>5, <1>7 DEF Extends
<1>9. EventsOK(events')
  BY <1>1, <1>3 DEF EventsOK
<1> QED
  BY <1>1, <1>3, <1>6, <1>7, <1>8, <1>9, IInvParts DEF IInv, TypeOK, EventsPlacedOnce, EventsOK, TimelineOK, PlacedOnce

\* What routine_block_check does: the blocks it prunes hold no event.
LEMMA RoutineStep ==
  ASSUME IInv, RoutineBlockCheck
  PROVE  /\ IInv'
         /\ \A i \in DOMAIN blocks \ DOMAIN blocks' : blocks[i].event_ids = {}
         /\ \A i \in DOMAIN blocks \cap DOMAIN blocks' :
              blocks[i].confirmed => /\ blocks'[i].confirmed
                                     /\ blocks'[i].event_ids = blocks[i].event_ids
<1>1. now \in Nat /\ EventsOK(events) /\ TimelineOK(blocks) /\ PlacedOnce(blocks, DOMAIN events)
  BY IInvParts
<1> DEFINE es == EnsureBlockSlots(blocks, now)
           checked == ConfirmDue(es, now)
           kept == DOMAIN checked \ PruneVictims(checked)
<1>2. TimelineOK(es) /\ PlacedOnce(es, DOMAIN events) /\ Extends(blocks, es)
  BY <1>1, EnsureBlockSlotsOK
<1> HIDE DEF es
<1>3. TimelineOK(checked) /\ PlacedOnce(checked, DOMAIN events) /\ Extends(es, checked)
  BY <1>1, <1>2, ConfirmDueOK
<1>4. Extends(blocks, checked)
  BY <1>2, <1>3 DEF Extends
<1>5. blocks' = RestrictTo(checked, kept) /\ UNCHANGED <<now, events>>
  BY DEF RoutineBlockCheck, es
<1> HIDE DEF checked
<1>6. Min(DOMAIN checked) = 0
  <2>1. /\ Min(DOMAIN checked) \in DOMAIN checked
        /\ Min(DOMAIN checked) <= 0
    BY <1>3, MinOfNats DEF TimelineOK
  <2> QED
    BY <1>3, <2>1 DEF TimelineOK
<1>7. \A i \in PruneVictims(checked) : checked[i].event_ids = {} /\ i # 0
  BY <1>6 DEF PruneVictims
<1>8. 0 \in kept
  BY <1>3, <1>7 DEF TimelineOK
<1>9. TimelineOK(blocks')
  BY <1>3, <1>5, <1>8, RestrictOK
<1>10. /\ DOMAIN blocks' = kept
       /\ \A i \in kept : blocks'[i] = checked[i]
  BY <1>5 DEF RestrictTo
<1>11. PlacedOnce(blocks', DOMAIN events)
  BY <1>3, <1>7, <1>10 DEF PlacedOnce
<1>12. IInv'
  BY <1>1, <1>5, <1>9, <1>11 DEF IInv, TypeOK, EventsPlacedOnce, EventsOK, TimelineOK, PlacedOnce
<1>13. \A i \in DOMAIN blocks \ DOMAIN blocks' : blocks[i].event_ids = {}
  BY <1>4, <1>7, <1>10 DEF Extends
<1>14. \A i \in DOMAIN blocks \cap DOMAIN blocks' :
         blocks[i].confirmed => /\ blocks'[i].confirmed
                                /\ blocks'[i].event_ids = blocks[i].event_ids
  BY <1>4, <1>10 DEF Extends
<1> QED
  BY <1>12, <1>13, <1>14

\* What open does after a clean stop.
LEMMA OpenStep ==
  ASSUME IInv, Open
  PROVE  /\ IInv'
         /\ Extends(blocks, blocks')
<1>1. now \in Int /\ EventsOK(events) /\ TimelineOK(blocks) /\ PlacedOnce(blocks, DOMAIN events)
  BY IInvParts
<1>2. blocks' = EnsureBlockSlots(blocks, now) /\ UNCHANGED <<now, events>>
  BY DEF Open
<1>3. /\ TimelineOK(EnsureBlockSlots(blocks, now))
      /\ PlacedOnce(EnsureBlockSlots(blocks, now), DOMAIN events)
      /\ Extends(blocks, EnsureBlockSlots(blocks, now))
  BY <1>1, EnsureBlockSlotsOK
<1>4. TimelineOK(blocks') /\ PlacedOnce(blocks', DOMAIN events) /\ Extends(blocks, blocks')
  BY <1>2, <1>3
<1> QED
  BY <1>1, <1>2, <1>4, IInvParts
     DEF IInv, TypeOK, EventsPlacedOnce, EventsOK, TimelineOK, PlacedOnce

\* What rollback_to_last_checkpoint does: the blocks up to the checkpoint stay
\* as they are, with their events; the later ones go.
LEMMA RollbackStep ==
  ASSUME IInv, RollbackToLastCheckpoint
  PROVE  /\ IInv'
         /\ \A i \in DOMAIN blocks : i <= CheckpointIndex(blocks) =>
              /\ i \in DOMAIN blocks'
              /\ blocks[i].event_ids \subseteq DOMAIN events'
         /\ \A i \in DOMAIN blocks \cap DOMAIN blocks' : blocks'[i] = blocks[i]
<1>1. now \in Nat /\ EventsOK(events) /\ TimelineOK(blocks) /\ PlacedOnce(blocks, DOMAIN events)
  BY IInvParts
<1> DEFINE cp == CheckpointIndex(blocks)
           kept == {i \in DOMAIN blocks : i <= cp}
           ids == UNION {blocks[i].event_ids : i \in kept}
<1>2. /\ blocks' = RestrictTo(blocks, kept)
      /\ events' = RestrictTo(events, ids)
      /\ now' = now
  BY DEF RollbackToLastCheckpoint
<1>3. 0 \in kept
  BY <1>1, CheckpointPresent DEF TimelineOK
<1> HIDE DEF cp
<1>4. TimelineOK(blocks')
  BY <1>1, <1>2, <1>3, RestrictOK
<1>5. /\ DOMAIN blocks' = kept
      /\ \A i \in kept : blocks'[i] = blocks[i]
  BY <1>2 DEF RestrictTo
<1>6. \A i \in kept : blocks[i].event_ids \subseteq ids
  OBVIOUS
<1>7. ids \subseteq DOMAIN events
  BY <1>1 DEF PlacedOnce
<1> HIDE DEF ids
<1>8. DOMAIN events' = ids /\ events' \in [ids -> Envelope]
  BY <1>1, <1>2, <1>7 DEF RestrictTo, EventsOK
<1>9. EventsOK(events')
  BY <1>1, <1>7, <1>8 DEF EventsOK
<1>10. PlacedOnce(blocks', DOMAIN events')
  <2>1. \A id \in ids : \E i \in kept : id \in blocks[i].event_ids
    BY DEF ids
  <2> QED
    BY <1>1, <1>5, <1>6, <1>8, <2>1 DEF PlacedOnce
<1>11. IInv'
  BY <1>1, <1>2, <1>4, <1>9, <1>10
     DEF IInv, TypeOK, EventsPlacedOnce, EventsOK, TimelineOK, PlacedOnce
<1> QED
  BY <1>5, <1>6, <1>8, <1>11 DEF cp

LEMMA NextIInv == IInv /\ [Next]_vars => IInv'
<1> SUFFICES ASSUME IInv, [Next]_vars PROVE IInv'
  OBVIOUS
<1>1. CASE Tick
  BY <1>1 DEF Tick, IInv, TypeOK, EventsPlacedOnce
<1>2. ASSUME NEW id \in EventIds, NEW env \in Offered, AppendEvent(id, env)
      PROVE  IInv'
  BY <1>2, AppendStep
<1>3. CASE RoutineBlockCheck
  BY <1>3, RoutineStep
<1>4. CASE Open
  BY <1>4, OpenStep
<1>5. CASE RollbackToLastCheckpoint
  BY <1>5, RollbackStep
<1>6. CASE UNCHANGED vars
  BY <1>6 DEF vars, IInv, TypeOK, EventsPlacedOnce
<1> QED
  BY <1>1, <1>2, <1>3, <1>4, <1>5, <1>6 DEF Next

-----------------------------------------------------------------------------
(* The total size of a set of events.                                      *)

\* What BlockEventBytes computes for a set of events.
Size(evs, S) == MapThenSumSet(LAMBDA id : evs[id].size, S)

\* g gives the total size of every subset of U, in whichever order it is summed up.
Totals(g, evs, U) ==
  /\ g \in [SUBSET U -> Nat]
  /\ g[{}] = 0
  /\ \A S \in SUBSET U : \A x \in S : g[S] = evs[x].size + g[S \ {x}]

\* The recursion that the fold of the community modules is defined by.
SumsUp(f, evs, S) ==
  f = [s \in SUBSET S |-> IF s = {} THEN 0
         ELSE evs[CHOOSE x \in s : TRUE].size + f[s \ {CHOOSE x \in s : TRUE}]]

LEMMA SizeUnfolds ==
  ASSUME NEW evs, NEW S, NEW f, SumsUp(f, evs, S)
  PROVE  \E h : SumsUp(h, evs, S) /\ Size(evs, S) = h[S]
<1> DEFINE iter == CHOOSE h : SumsUp(h, evs, S)
<1>1. Size(evs, S) = iter[S]
  BY DEF Size, MapThenSumSet, MapThenFoldSet, SumsUp
<1>2. SumsUp(iter, evs, S)
  OBVIOUS
<1> QED
  BY <1>1, <1>2

LEMMA TotalsExist ==
  ASSUME NEW evs, NEW U, IsFiniteSet(U), \A x \in U : evs[x].size \in Nat
  PROVE  \E g : Totals(g, evs, U)
<1> DEFINE Have(V) == \E g : Totals(g, evs, V)
           N == {n \in Nat : \A V \in SUBSET U : Cardinality(V) = n => Have(V)}
<1>1. 0 \in N
  <2> SUFFICES ASSUME NEW V \in SUBSET U, Cardinality(V) = 0 PROVE Have(V)
    OBVIOUS
  <2>1. V = {}
    BY FS_Subset, FS_EmptySet
  <2>2. Totals([s \in SUBSET V |-> 0], evs, V)
    BY <2>1 DEF Totals
  <2> QED
    BY <2>2
<1>2. ASSUME NEW n \in Nat, n \in N PROVE n + 1 \in N
  <2> SUFFICES ASSUME NEW V \in SUBSET U, Cardinality(V) = n + 1 PROVE Have(V)
    OBVIOUS
  <2>1. IsFiniteSet(V) /\ V # {}
    BY FS_Subset, FS_EmptySet
  <2>2. PICK a \in V : TRUE
    BY <2>1
  <2>3. Cardinality(V \ {a}) = n
    <3>1. Cardinality(V \ {a}) = Cardinality(V) - 1
      BY <2>1, <2>2, FS_RemoveElement
    <3> QED
      BY <3>1
  <2>4. PICK g : Totals(g, evs, V \ {a})
    BY <1>2, <2>3
  <2> DEFINE k == [s \in SUBSET V |-> IF a \in s THEN evs[a].size + g[s \ {a}] ELSE g[s]]
  <2>5. evs[a].size \in Nat /\ \A x \in V : evs[x].size \in Nat
    BY <2>2
  <2>6. \A s \in SUBSET (V \ {a}) : g[s] \in Nat
    BY <2>4 DEF Totals
  <2>7. ASSUME NEW s \in SUBSET V PROVE s \ {a} \in SUBSET (V \ {a}) /\ (a \notin s => s \in SUBSET (V \ {a}))
    OBVIOUS
  <2>8. k \in [SUBSET V -> Nat]
    BY <2>5, <2>6, <2>7
  <2>9. k[{}] = 0
    BY <2>4 DEF Totals
  <2>10. ASSUME NEW s \in SUBSET V, NEW x \in s PROVE k[s] = evs[x].size + k[s \ {x}]
    <3>1. CASE a \notin s
      <4>1. g[s] = evs[x].size + g[s \ {x}]
        BY <2>4, <2>7, <3>1 DEF Totals
      <4>2. s \ {x} \in SUBSET V /\ a \notin s \ {x}
        BY <3>1
      <4> QED
        BY <3>1, <4>1, <4>2
    <3>2. CASE a \in s /\ x = a
      <4>1. s \ {x} \in SUBSET V /\ a \notin s \ {x}
        BY <3>2
      <4> QED
        BY <3>2, <4>1
    <3>3. CASE a \in s /\ x # a
      <4> DEFINE r == s \ {a}
      <4>1. r \in SUBSET (V \ {a}) /\ x \in r /\ s \ {x} \in SUBSET V /\ a \in s \ {x}
        BY <3>3
      <4>2. g[r] = evs[x].size + g[r \ {x}]
        BY <2>4, <4>1 DEF Totals
      <4>3. (s \ {x}) \ {a} = r \ {x} /\ r \ {x} \in SUBSET (V \ {a})
        OBVIOUS
      <4>4. g[r \ {x}] \in Nat /\ evs[x].size \in Nat
        BY <2>5, <2>6, <4>3
      <4>5. k[s] = evs[a].size + g[r] /\ k[s \ {x}] = evs[a].size + g[r \ {x}]
        BY <3>3, <4>1, <4>3
      <4> HIDE DEF k, r
      <4> QED
        BY <2>5, <4>2, <4>4, <4>5
    <3> QED
      BY <3>1, <3>2, <3>3
  <2> HIDE DEF k
  <2> QED
    BY <2>8, <2>9, <2>10 DEF Totals
<1>3. Nat \subseteq N
  <2> HIDE DEF N
  <2> QED
    BY <1>1, <1>2, NatSetInduction
<1>4. Cardinality(U) \in Nat
  BY FS_CardinalityType
<1> QED
  BY <1>3, <1>4

\* The fold of the community modules computes these totals.
LEMMA SizeIsTotal ==
  ASSUME NEW evs, NEW U, IsFiniteSet(U), NEW g, Totals(g, evs, U), NEW S \in SUBSET U
  PROVE  Size(evs, S) = g[S]
<1> DEFINE f == [s \in SUBSET S |-> g[s]]
<1>0. ASSUME NEW s \in SUBSET S, s # {}
      PROVE  /\ (CHOOSE x \in s : TRUE) \in s
             /\ s \ {CHOOSE x \in s : TRUE} \in SUBSET S
             /\ g[s] = evs[CHOOSE x \in s : TRUE].size + g[s \ {CHOOSE x \in s : TRUE}]
  <2>1. (CHOOSE x \in s : TRUE) \in s
    BY <1>0
  <2> QED
    BY <2>1 DEF Totals
<1>1. SumsUp(f, evs, S)
  BY <1>0 DEF Totals, SumsUp
<1>2. PICK h : SumsUp(h, evs, S) /\ Size(evs, S) = h[S]
  BY <1>1, SizeUnfolds
<1> DEFINE N == {n \in Nat : \A s \in SUBSET S : Cardinality(s) = n => h[s] = g[s]}
<1>3. 0 \in N
  <2> SUFFICES ASSUME NEW s \in SUBSET S, Cardinality(s) = 0 PROVE h[s] = g[s]
    OBVIOUS
  <2>1. s = {}
    BY FS_Subset, FS_EmptySet
  <2> QED
    BY <1>2, <2>1 DEF Totals, SumsUp
<1>4. ASSUME NEW n \in Nat, n \in N PROVE n + 1 \in N
  <2> SUFFICES ASSUME NEW s \in SUBSET S, Cardinality(s) = n + 1 PROVE h[s] = g[s]
    OBVIOUS
  <2> DEFINE x == CHOOSE x \in s : TRUE
  <2>1. IsFiniteSet(s) /\ s # {}
    BY FS_Subset, FS_EmptySet
  <2>2. x \in s /\ s \ {x} \in SUBSET S /\ g[s] = evs[x].size + g[s \ {x}]
    BY <1>0, <2>1
  <2>3. h[s] = evs[x].size + h[s \ {x}]
    BY <1>2, <2>1 DEF SumsUp
  <2> HIDE DEF x
  <2>4. Cardinality(s \ {x}) = n
    <3>1. Cardinality(s \ {x}) = Cardinality(s) - 1
      BY <2>1, <2>2, FS_RemoveElement
    <3> QED
      BY <3>1
  <2> QED
    BY <1>4, <2>2, <2>3, <2>4
<1>5. Nat \subseteq N
  <2> HIDE DEF N
  <2> QED
    BY <1>3, <1>4, NatSetInduction
<1>6. Cardinality(S) \in Nat
  BY FS_Subset, FS_CardinalityType
<1> QED
  BY <1>2, <1>5, <1>6

\* The total size of a set with one event more.
LEMMA SizeOfOneMore ==
  ASSUME NEW evs, NEW S, IsFiniteSet(S), \A x \in S : evs[x].size \in Nat,
         NEW id, id \notin S, evs[id].size \in Nat
  PROVE  Size(evs, S \cup {id}) = Size(evs, S) + evs[id].size
<1> DEFINE U == S \cup {id}
<1>1. IsFiniteSet(U)
  BY FS_AddElement
<1>2. PICK g : Totals(g, evs, U)
  BY <1>1, TotalsExist
<1>3. Size(evs, U) = g[U] /\ Size(evs, S) = g[S]
  BY <1>1, <1>2, SizeIsTotal
<1>4. g[U] = evs[id].size + g[U \ {id}] /\ U \ {id} = S /\ g[S] \in Nat
  BY <1>2 DEF Totals
<1> HIDE DEF U
<1>5. Size(evs, U) = evs[id].size + Size(evs, S) /\ Size(evs, S) \in Nat
  BY <1>3, <1>4
<1> QED
  BY <1>5 DEF U

\* It is of the sizes of these events alone.
LEMMA SizeOfSame ==
  ASSUME NEW evs, NEW fvs, NEW S, IsFiniteSet(S),
         \A x \in S : evs[x].size \in Nat /\ fvs[x].size = evs[x].size
  PROVE  Size(fvs, S) = Size(evs, S)
<1>1. PICK g : Totals(g, evs, S)
  BY TotalsExist
<1>2. Totals(g, fvs, S)
  BY <1>1 DEF Totals
<1> QED
  BY <1>1, <1>2, SizeIsTotal

LEMMA SizeOfNone == ASSUME NEW evs PROVE Size(evs, {}) = 0
<1>1. PICK g : Totals(g, evs, {})
  BY TotalsExist, FS_EmptySet
<1>2. IsFiniteSet({}) /\ {} \in SUBSET {}
  BY FS_EmptySet
<1>3. Size(evs, {}) = g[{}]
  BY <1>1, <1>2, SizeIsTotal
<1> QED
  BY <1>1, <1>3 DEF Totals

LEMMA SizeOfOne ==
  ASSUME NEW evs, NEW id, evs[id].size \in Nat
  PROVE  Size(evs, {id}) = evs[id].size
<1> DEFINE S == {}
<1>1. IsFiniteSet(S) /\ id \notin S /\ (\A x \in S : evs[x].size \in Nat) /\ Size(evs, S) = 0
  BY FS_EmptySet, SizeOfNone
<1> DEFINE T == S \cup {id}
<1>2. T = {id}
  OBVIOUS
<1> HIDE DEF S
<1>3. Size(evs, T) = Size(evs, S) + evs[id].size
  BY <1>1, SizeOfOneMore
<1> HIDE DEF T
<1>4. Size(evs, T) = evs[id].size
  BY <1>1, <1>3
<1> QED
  BY <1>2, <1>4

-----------------------------------------------------------------------------
(* The limits of a block.                                                  *)

\* The store takes max_event_bytes and max_block_bytes as they are configured, each
\* with a least value only (store.cpp:471); the shells configure 64 KiB and 1 MiB, so
\* that an event fits into a block of its own.
EventsFit == \A s \in Sizes : s <= MaxBlockBytes

Within(bs, evs) ==
  \A i \in DOMAIN bs : /\ IsFiniteSet(bs[i].event_ids)
                       /\ Cardinality(bs[i].event_ids) <= MaxBlockEvents
                       /\ Size(evs, bs[i].event_ids) <= MaxBlockBytes

\* Blocks that hold what other blocks held, or nothing.
LEMMA WithinFrom ==
  ASSUME NEW bs, NEW cs, NEW evs, Within(bs, evs),
         \A i \in DOMAIN cs : \/ cs[i].event_ids = {}
                              \/ \E j \in DOMAIN bs : cs[i].event_ids = bs[j].event_ids
  PROVE  Within(cs, evs)
<1>1. IsFiniteSet({}) /\ Cardinality({}) <= MaxBlockEvents /\ Size(evs, {}) <= MaxBlockBytes
  BY FS_EmptySet, SizeOfNone, TimelineConstants DEF TimelineConstants
<1> QED
  BY <1>1 DEF Within

\* The sizes of other events do not matter.
LEMMA WithinOthers ==
  ASSUME NEW bs, NEW evs, NEW fvs, NEW D, Within(bs, evs),
         \A i \in DOMAIN bs : bs[i].event_ids \subseteq D,
         \A x \in D : evs[x].size \in Nat /\ fvs[x].size = evs[x].size
  PROVE  Within(bs, fvs)
<1>1. ASSUME NEW i \in DOMAIN bs PROVE Size(fvs, bs[i].event_ids) = Size(evs, bs[i].event_ids)
  BY SizeOfSame DEF Within
<1> QED
  BY <1>1 DEF Within

LEMMA SlotsWithin ==
  ASSUME NEW bs, NEW evs, Within(bs, evs), NEW t
  PROVE  Within(EnsureBlockSlots(bs, t), evs)
<1> DEFINE last == Back(bs)
           due == (t - bs[last].opened_unix) \div BlockInterval
           fresh == {i \in (last + 1)..(last + due) : i <= last + MaxReservePerCheck}
           opened(i) == bs[last].opened_unix + (i - last) * BlockInterval
           cs == EnsureBlockSlots(bs, t)
<1>1. cs = [i \in DOMAIN bs \cup fresh |-> IF i \in DOMAIN bs THEN bs[i] ELSE NewBlock(opened(i))]
  BY DEF EnsureBlockSlots
<1>2. \A u : NewBlock(u).event_ids = {}
  BY DEF NewBlock
<1> HIDE DEF cs, fresh, opened
<1>3. \A i \in DOMAIN cs : \/ cs[i].event_ids = {}
                           \/ \E j \in DOMAIN bs : cs[i].event_ids = bs[j].event_ids
  BY <1>1, <1>2
<1> QED
  BY <1>3, WithinFrom DEF cs

\* First-fit placement asks for room, or opens a block for the event alone.
LEMMA AssignWithin ==
  ASSUME NEW bs, TimelineOK(bs), NEW evs, NEW id, Within(bs, evs),
         \A i \in DOMAIN bs : id \notin bs[i].event_ids,
         \A i \in DOMAIN bs : \A x \in bs[i].event_ids : evs[x].size \in Nat,
         evs[id].size \in Nat, evs[id].size <= MaxBlockBytes
  PROVE  Within(AssignEvent(bs, evs, id), evs)
<1> DEFINE roomy == {i \in DOMAIN bs : HasRoom(bs, evs, id, i)}
           slot == IF roomy = {} THEN Back(bs) + 1 ELSE Min(roomy)
           b == IF roomy = {} THEN NewBlock(evs[id].unix_ts) ELSE bs[slot]
           c == [b EXCEPT !.backfilled = @ \/ b.reserved,
                          !.reserved = FALSE,
                          !.event_ids = @ \cup {id}]
           cs == AssignEvent(bs, evs, id)
           Fits(S) == IsFiniteSet(S) /\ Cardinality(S) <= MaxBlockEvents /\ Size(evs, S) <= MaxBlockBytes
<1>1. cs = [i \in DOMAIN bs \cup {slot} |-> IF i = slot THEN c ELSE bs[i]]
  BY DEF AssignEvent
<1>2. c.event_ids = b.event_ids \cup {id}
  <2>1. CASE roomy = {}
    BY <2>1 DEF NewBlock
  <2>2. CASE roomy # {}
    <3>1. slot \in DOMAIN bs /\ b = bs[slot]
      BY <2>2, MinOfNats DEF TimelineOK
    <3>2. b \in BlockRecord
      BY <3>1 DEF TimelineOK
    <3> QED
      BY <3>2 DEF BlockRecord
  <2> QED
    BY <2>1, <2>2
<1>3. Fits(b.event_ids \cup {id})
  <2>1. CASE roomy = {}
    <3>1. b.event_ids = {} /\ b.event_ids \cup {id} = {id}
      BY <2>1 DEF NewBlock
    <3>2. IsFiniteSet({id}) /\ Cardinality({id}) = 1
      BY FS_Singleton
    <3>3. Size(evs, {id}) = evs[id].size
      BY SizeOfOne
    <3>4. 1 <= MaxBlockEvents
      BY TimelineConstants DEF TimelineConstants
    <3> QED
      BY <3>1, <3>2, <3>3, <3>4
  <2>2. CASE roomy # {}
    <3>1. slot \in roomy /\ slot \in DOMAIN bs /\ b = bs[slot]
      BY <2>2, MinOfNats DEF TimelineOK
    <3> DEFINE S == b.event_ids
    <3>2. IsFiniteSet(S) /\ id \notin S /\ \A x \in S : evs[x].size \in Nat
      BY <3>1 DEF Within
    <3>3. Cardinality(S) < MaxBlockEvents /\ Size(evs, S) + evs[id].size <= MaxBlockBytes
      BY <3>1 DEF HasRoom, BlockEventBytes, Size
    <3> HIDE DEF S
    <3>4. IsFiniteSet(S \cup {id}) /\ Cardinality(S \cup {id}) = Cardinality(S) + 1
      BY <3>2, FS_AddElement
    <3>5. Size(evs, S \cup {id}) = Size(evs, S) + evs[id].size
      BY <3>2, SizeOfOneMore
    <3>6. Cardinality(S) \in Nat /\ MaxBlockEvents \in Nat
      BY <3>2, FS_CardinalityType, TimelineConstants DEF TimelineConstants
    <3>7. Fits(S \cup {id})
      BY <3>3, <3>4, <3>5, <3>6
    <3> QED
      BY <3>7 DEF S
  <2> QED
    BY <2>1, <2>2
<1> HIDE DEF roomy, slot, b, c, cs
<1>4. DOMAIN cs = DOMAIN bs \cup {slot} /\ cs[slot].event_ids = b.event_ids \cup {id}
      /\ \A i \in DOMAIN cs \ {slot} : i \in DOMAIN bs /\ cs[i] = bs[i]
  BY <1>1, <1>2
<1>5. Within(cs, evs)
  BY <1>3, <1>4 DEF Within
<1> QED
  BY <1>5 DEF cs

LEMMA InitWithin == Init => Within(blocks, events)
<1> SUFFICES ASSUME Init PROVE Within(blocks, events)
  OBVIOUS
<1>1. \A i \in DOMAIN blocks : blocks[i].event_ids = {}
  BY DEF Init, NewBlock
<1>2. Within([i \in {} |-> 0], events)
  BY DEF Within
<1> QED
  BY <1>1, <1>2, WithinFrom

LEMMA EventSizes == ASSUME IInv PROVE \A x \in DOMAIN events : events[x].size \in Nat
  BY TimelineConstants DEF IInv, TypeOK, Envelope, TimelineConstants

LEMMA NextWithin ==
  ASSUME IInv, Within(blocks, events), EventsFit, [Next]_vars PROVE Within(blocks, events)'
<1>1. /\ TimelineOK(blocks) /\ PlacedOnce(blocks, DOMAIN events) /\ EventsOK(events)
  BY IInvParts
<1>2. ASSUME NEW id \in EventIds, NEW env \in Offered, AppendEvent(id, env)
      PROVE  Within(blocks, events)'
  <2>1. /\ id \notin DOMAIN events /\ DOMAIN events' = DOMAIN events \cup {id}
        /\ events'[id] = env /\ \A x \in DOMAIN events : events'[x] = events[x]
        /\ blocks' = EnsureBlockSlots(AssignEvent(blocks, events', id), now)
    BY <1>2 DEF AppendEvent
  <2>2. env.size \in Nat /\ env.size <= MaxBlockBytes
    BY TimelineConstants DEF Offered, EventsFit, TimelineConstants
  <2>3. \A i \in DOMAIN blocks : blocks[i].event_ids \subseteq DOMAIN events
    BY <1>1 DEF PlacedOnce
  <2>4. Within(blocks, events')
    BY <2>1, <2>3, EventSizes, WithinOthers
  <2>5. \A i \in DOMAIN blocks : /\ id \notin blocks[i].event_ids
                                 /\ \A x \in blocks[i].event_ids : events'[x].size \in Nat
    BY <2>1, <2>3, EventSizes
  <2>6. Within(AssignEvent(blocks, events', id), events')
    BY <1>1, <2>1, <2>2, <2>4, <2>5, AssignWithin
  <2> QED
    BY <2>1, <2>6, SlotsWithin
<1>3. CASE RoutineBlockCheck
  <2> DEFINE es == EnsureBlockSlots(blocks, now)
             checked == ConfirmDue(es, now)
             kept == DOMAIN checked \ PruneVictims(checked)
  <2>1. blocks' = RestrictTo(checked, kept) /\ events' = events
    BY <1>3 DEF RoutineBlockCheck
  <2>2. Within(es, events) /\ TimelineOK(es)
    <3>1. now \in Int
      BY DEF IInv, TypeOK
    <3> QED
      BY <1>1, <3>1, SlotsWithin, EnsureBlockSlotsOK
  <2> HIDE DEF es
  <2>3. DOMAIN checked = DOMAIN es /\ \A i \in DOMAIN es : checked[i].event_ids = es[i].event_ids
    BY <2>2 DEF ConfirmDue, TimelineOK, BlockRecord
  <2> HIDE DEF checked, kept
  <2>4. \A i \in DOMAIN blocks' : i \in DOMAIN checked /\ blocks'[i] = checked[i]
    BY <2>1 DEF RestrictTo
  <2>5. Within(blocks', events)
    BY <2>2, <2>3, <2>4, WithinFrom
  <2> QED
    BY <2>1, <2>5
<1>4. CASE Open
  <2>1. blocks' = EnsureBlockSlots(blocks, now) /\ events' = events
    BY <1>4 DEF Open
  <2> QED
    BY <2>1, SlotsWithin
<1>5. CASE RollbackToLastCheckpoint
  <2> DEFINE kept == {i \in DOMAIN blocks : i <= CheckpointIndex(blocks)}
             ids == UNION {blocks[i].event_ids : i \in kept}
  <2>1. blocks' = RestrictTo(blocks, kept) /\ events' = RestrictTo(events, ids)
    BY <1>5 DEF RollbackToLastCheckpoint
  <2> HIDE DEF kept, ids
  <2>2. \A i \in DOMAIN blocks' : i \in DOMAIN blocks /\ blocks'[i] = blocks[i]
    BY <2>1 DEF RestrictTo
  <2>3. Within(blocks', events)
    BY <2>2, WithinFrom
  <2>4. \A x \in DOMAIN events' : x \in DOMAIN events /\ events'[x] = events[x]
    BY <2>1 DEF RestrictTo
  <2>5. \A i \in DOMAIN blocks' : blocks'[i].event_ids \subseteq DOMAIN events'
    <3>1. IInv'
      BY <1>5, RollbackStep
    <3> QED
      BY <3>1 DEF IInv, EventsPlacedOnce
  <2> DEFINE D == DOMAIN events'
  <2>6. \A x \in D : events[x].size \in Nat /\ events'[x].size = events[x].size
    BY <2>4, EventSizes
  <2>7. \A i \in DOMAIN blocks' : blocks'[i].event_ids \subseteq D
    BY <2>5
  <2> HIDE DEF D
  <2>8. Within(blocks', events')
    BY <2>3, <2>6, <2>7, WithinOthers
  <2> QED
    BY <2>8
<1>6. CASE Tick \/ UNCHANGED vars
  BY <1>6 DEF Tick, vars
<1> QED
  BY <1>2, <1>3, <1>4, <1>5, <1>6 DEF Next

-----------------------------------------------------------------------------
(* The theorems.                                                           *)

\* The timeline always has its genesis and its last block and holds values of
\* its types: store.cpp relies on blocks_.front() and back() without a check.
THEOREM TypeCorrect == Spec => []TypeOK
<1>1. IInv => TypeOK
  BY DEF IInv
<1> QED
  BY <1>1, InitIInv, NextIInv, PTL DEF Spec

\* Appending, backfilling, overflowing, pruning and rolling back never leave an
\* accepted event outside the blocks or inside two of them.
THEOREM PlacedOnceAlways == Spec => []EventsPlacedOnce
<1>1. IInv => EventsPlacedOnce
  BY DEF IInv
<1> QED
  BY <1>1, InitIInv, NextIInv, PTL DEF Spec

\* Where every event fits into a block of its own, first-fit placement, overflow
\* blocks, backfilling and rollbacks keep every block within the limits that
\* backtest_validate enforces, whatever the sizes of the events.
THEOREM BlocksStayWithinLimits ==
  ASSUME EventsFit PROVE Spec => []BlocksWithinLimits
<1>1. Init => IInv /\ Within(blocks, events)
  BY InitIInv, InitWithin
<1>2. (IInv /\ Within(blocks, events)) /\ [Next]_vars => (IInv /\ Within(blocks, events))'
  BY NextIInv, NextWithin
<1>3. Within(blocks, events) => BlocksWithinLimits
  BY DEF Within, Size, BlocksWithinLimits, BlockEventBytes
<1> QED
  BY <1>1, <1>2, <1>3, PTL DEF Spec

\* No operation unconfirms a block or changes the events of a confirmed one.
THEOREM ConfirmedBlocksFrozen == Spec => ConfirmedFrozen
<1> DEFINE Frozen == \A i \in DOMAIN blocks \cap DOMAIN blocks' :
                       blocks[i].confirmed => /\ blocks'[i].confirmed
                                              /\ blocks'[i].event_ids = blocks[i].event_ids
<1>1. ASSUME IInv, Next PROVE Frozen
  <2>1. CASE Tick
    BY <2>1 DEF Tick
  <2>2. ASSUME NEW id \in EventIds, NEW env \in Offered, AppendEvent(id, env)
        PROVE  Frozen
    BY <1>1, <2>2, AppendStep DEF Extends
  <2>3. CASE RoutineBlockCheck
    BY <1>1, <2>3, RoutineStep
  <2>4. CASE Open
    BY <1>1, <2>4, OpenStep DEF Extends
  <2>5. CASE RollbackToLastCheckpoint
    BY <1>1, <2>5, RollbackStep
  <2> QED
    BY <1>1, <2>1, <2>2, <2>3, <2>4, <2>5 DEF Next
<1>2. IInv /\ [Next]_vars => [Frozen]_vars
  BY <1>1
<1> QED
  BY <1>2, InitIInv, NextIInv, PTL DEF Spec, ConfirmedFrozen

\* No operation, a rollback included, drops an event in a confirmed block at or
\* below the checkpoint that a rollback would return to.
THEOREM CheckpointedEventsSurvive == Spec => CheckpointedEventsKept
<1> DEFINE Kept == \A i \in Confirmed(blocks) :
                     i <= CheckpointIndex(blocks) =>
                       /\ blocks[i].event_ids \subseteq DOMAIN events'
                       /\ blocks[i].event_ids # {} => i \in DOMAIN blocks'
<1>1. ASSUME IInv, Next PROVE Kept
  <2>1. \A i \in Confirmed(blocks) : i \in DOMAIN blocks /\ blocks[i].event_ids \subseteq DOMAIN events
    BY <1>1, IInvParts DEF PlacedOnce, Confirmed
  <2>2. CASE Tick
    BY <2>1, <2>2 DEF Tick
  <2>3. ASSUME NEW id \in EventIds, NEW env \in Offered, AppendEvent(id, env)
        PROVE  Kept
    <3>1. DOMAIN blocks \subseteq DOMAIN blocks' /\ DOMAIN events \subseteq DOMAIN events'
      BY <1>1, <2>3, AppendStep DEF Extends
    <3> QED
      BY <2>1, <3>1
  <2>4. CASE RoutineBlockCheck
    BY <1>1, <2>1, <2>4, RoutineStep DEF RoutineBlockCheck
  <2>5. CASE Open
    <3>1. DOMAIN blocks \subseteq DOMAIN blocks' /\ events' = events
      BY <1>1, <2>5, OpenStep DEF Extends, Open
    <3> QED
      BY <2>1, <3>1
  <2>6. CASE RollbackToLastCheckpoint
    BY <1>1, <2>1, <2>6, RollbackStep
  <2> QED
    BY <1>1, <2>2, <2>3, <2>4, <2>5, <2>6 DEF Next
<1>2. IInv /\ [Next]_vars => [Kept]_vars
  BY <1>1
<1> QED
  BY <1>2, InitIInv, NextIInv, PTL DEF Spec, CheckpointedEventsKept
=============================================================================
