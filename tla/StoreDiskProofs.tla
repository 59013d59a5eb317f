-------------------------- MODULE StoreDiskProofs --------------------------
(***************************************************************************)
(* Theorems about StoreDisk, for every value of its constants and any      *)
(* number of faults.                                                       *)
(***************************************************************************)
EXTENDS StoreDisk, FiniteSetTheorems, SequenceTheorems, TLAPS

\* What BlockTimelineProofs shows of placement, for the timeline of StoreDisk.
Placing == INSTANCE BlockTimelineProofs WITH
  EventIds <- EventIds \cup {Stray}, Sizes <- {1}, MaxBlockBytes <- MaxBlockEvents,
  MaxFutureDrift <- 0, EnablePruning <- FALSE, PruneKeepRecent <- 1,
  events <- Envelopes(log, Ids(log)), chain <- 0

-----------------------------------------------------------------------------
(* Placement, as BlockTimelineProofs and StoreDisk know it.                *)

LEMMA PlacingConstants == Placing!TimelineConstants
  BY StoreDiskConstants DEF StoreDiskConstants, Placing!TimelineConstants

LEMMA SameAssign ==
  ASSUME NEW bs, NEW evs, NEW id
  PROVE  Timeline!AssignEvent(bs, evs, id) = Placing!AssignEvent(bs, evs, id)
<1>1. ASSUME NEW i
      PROVE  Timeline!BlockEventBytes(bs, evs, i) = Placing!BlockEventBytes(bs, evs, i)
  BY DEF Timeline!BlockEventBytes, Placing!BlockEventBytes, Timeline!MapThenSumSet,
         Placing!MapThenSumSet, Timeline!MapThenFoldSet, Placing!MapThenFoldSet
<1>2. \A S : Timeline!Cardinality(S) = Placing!Cardinality(S)
  BY DEF Timeline!Cardinality, Placing!Cardinality
<1>3. \A i : Timeline!HasRoom(bs, evs, id, i) <=> Placing!HasRoom(bs, evs, id, i)
  BY <1>1, <1>2 DEF Timeline!HasRoom, Placing!HasRoom
<1>4. Timeline!Back(bs) = Placing!Back(bs)
  BY DEF Timeline!Back, Placing!Back, Timeline!Max, Placing!Max
<1>5. \A t : Timeline!NewBlock(t) = Placing!NewBlock(t)
  BY DEF Timeline!NewBlock, Placing!NewBlock
<1>6. \A S : Timeline!Min(S) = Placing!Min(S)
  BY DEF Timeline!Min, Placing!Min
<1> QED
  BY <1>3, <1>4, <1>5, <1>6 DEF Timeline!AssignEvent, Placing!AssignEvent

LEMMA SameSlots ==
  ASSUME NEW bs, NEW t
  PROVE  /\ Timeline!EnsureBlockSlots(bs, t) = Placing!EnsureBlockSlots(bs, t)
         /\ Timeline!ConfirmDue(bs, t) = Placing!ConfirmDue(bs, t)
         /\ Timeline!NewBlock(t) = Placing!NewBlock(t)
<1>1. Timeline!Back(bs) = Placing!Back(bs)
  BY DEF Timeline!Back, Placing!Back, Timeline!Max, Placing!Max
<1>2. \A u : Timeline!NewBlock(u) = Placing!NewBlock(u)
  BY DEF Timeline!NewBlock, Placing!NewBlock
<1>3. Timeline!EnsureBlockSlots(bs, t) = Placing!EnsureBlockSlots(bs, t)
  BY <1>1, <1>2 DEF Timeline!EnsureBlockSlots, Placing!EnsureBlockSlots
<1>4. Timeline!ConfirmDue(bs, t) = Placing!ConfirmDue(bs, t)
  BY DEF Timeline!ConfirmDue, Placing!ConfirmDue
<1> QED
  BY <1>2, <1>3, <1>4

LEMMA SameCheckpoint ==
  ASSUME NEW bs PROVE Timeline!CheckpointIndex(bs) = Placing!CheckpointIndex(bs)
  BY DEF Timeline!CheckpointIndex, Placing!CheckpointIndex, Timeline!Confirmed, Placing!Confirmed,
         Timeline!Max, Placing!Max

-----------------------------------------------------------------------------
(* The lines a rollback retains.                                           *)

Distinct(l) == \A j, k \in DOMAIN l : l[j].id = l[k].id => j = k \/ l[j].id = Stray

\* s holds some of the first n lines of l.
From(s, l, n) ==
  /\ s \in Seq(Line)
  /\ \A j \in 1..Len(s) : \E k \in 1..n : s[j] = l[k]
  /\ Distinct(l) => Distinct(s)

LEMMA RetainedFrom ==
  ASSUME NEW l \in Seq(Line), NEW bs
  PROVE  From(Retained(l, bs), l, Len(l))
<1> DEFINE Step(s, k) == IF Timeline!BlocksOf(bs, l[k].id) # {} THEN Append(s, l[k]) ELSE s
           Upto(g, n) == g = [k \in 0..n |-> IF k = 0 THEN <<>> ELSE Step(g[k - 1], k)]
           Kept == CHOOSE g : Upto(g, Len(l))
           N == {n \in Nat : \E g : Upto(g, n)}
           M == {n \in Nat : n <= Len(l) => From(Kept[n], l, n)}
<1>1. Retained(l, bs) = Kept[Len(l)]
  BY DEF Retained
<1>2. Len(l) \in Nat
  OBVIOUS
<1> HIDE DEF Step
<1>3. 0 \in N
  <2>1. Upto([k \in 0..0 |-> <<>>], 0)
    OBVIOUS
  <2> QED
    BY <2>1
<1>4. ASSUME NEW n \in Nat, n \in N PROVE n + 1 \in N
  <2>1. PICK g : Upto(g, n)
    BY <1>4
  <2> DEFINE h == [k \in 0..(n + 1) |-> IF k = n + 1 THEN Step(g[n], n + 1) ELSE g[k]]
  <2>2. g[0] = <<>> /\ \A k \in 1..n : g[k] = Step(g[k - 1], k)
    BY <2>1
  <2>3. \A k \in 0..n : h[k] = g[k]
    OBVIOUS
  <2>4. ASSUME NEW k \in 0..(n + 1)
        PROVE  h[k] = IF k = 0 THEN <<>> ELSE Step(h[k - 1], k)
    <3>1. CASE k \in 1..n
      <4>1. k - 1 \in 0..n /\ k \in 0..n /\ k # 0
        BY <3>1
      <4> HIDE DEF h
      <4> QED
        BY <3>1, <2>2, <2>3, <4>1
    <3>2. CASE k = n + 1
      <4>1. h[k] = Step(g[n], k) /\ k - 1 = n /\ n \in 0..n
        BY <3>2
      <4> HIDE DEF h
      <4> QED
        BY <3>2, <2>3, <4>1
    <3>3. CASE k = 0
      BY <2>2, <2>3, <3>3
    <3> QED
      BY <3>1, <3>2, <3>3
  <2>5. h = [k \in 0..(n + 1) |-> h[k]]
    OBVIOUS
  <2> HIDE DEF h
  <2>6. h = [k \in 0..(n + 1) |-> IF k = 0 THEN <<>> ELSE Step(h[k - 1], k)]
    BY <2>4, <2>5
  <2> QED
    BY <2>6
<1>5. Nat \subseteq N
  <2> HIDE DEF N
  <2> QED
    BY <1>3, <1>4, Placing!NatSetInduction, PlacingConstants
<1>6. Upto(Kept, Len(l))
  BY <1>2, <1>5
<1> HIDE DEF Kept
<1>7. /\ Kept[0] = <<>>
      /\ \A n \in Nat : n + 1 <= Len(l) => Kept[n + 1] = Step(Kept[n], n + 1)
  BY <1>2, <1>6
<1>8. 0 \in M
  <2> DEFINE s == <<>>
  <2>1. s \in Seq(Line) /\ Len(s) = 0 /\ DOMAIN s = {} /\ 1..Len(s) = {}
    OBVIOUS
  <2> HIDE DEF s
  <2>2. From(s, l, 0)
    BY <2>1 DEF From, Distinct
  <2> QED
    BY <1>7, <2>2 DEF s
<1>9. ASSUME NEW n \in Nat, n \in M PROVE n + 1 \in M
  <2> SUFFICES ASSUME n + 1 <= Len(l) PROVE From(Kept[n + 1], l, n + 1)
    OBVIOUS
  <2> DEFINE s == Kept[n]
             x == l[n + 1]
  <2>1. From(s, l, n)
    BY <1>2, <1>9
  <2>2. Kept[n + 1] = s \/ Kept[n + 1] = Append(s, x)
    BY <1>7 DEF Step
  <2>3. x \in Line
    BY <1>2
  <2> HIDE DEF s
  <2>4. CASE Kept[n + 1] = s
    BY <2>1, <2>4 DEF From
  <2>5. CASE Kept[n + 1] = Append(s, x)
    <3> DEFINE t == Append(s, x)
    <3>1. /\ t \in Seq(Line) /\ Len(t) = Len(s) + 1
          /\ t[Len(s) + 1] = x /\ \A j \in 1..Len(s) : t[j] = s[j]
          /\ Len(s) \in Nat
      BY <2>1, <2>3 DEF From
    <3>2. \A j \in 1..Len(s) : \E k \in 1..n : s[j] = l[k]
      BY <2>1 DEF From
    <3> HIDE DEF t
    <3>3. \A j \in 1..Len(t) : \E k \in 1..(n + 1) : t[j] = l[k]
      BY <3>1, <3>2
    <3>4. ASSUME Distinct(l) PROVE Distinct(t)
      <4> SUFFICES ASSUME NEW j \in 1..Len(t), NEW k \in 1..Len(t), t[j].id = t[k].id, j # k
                   PROVE  t[j].id = Stray
        BY <3>1 DEF Distinct
      <4>1. CASE j <= Len(s) /\ k <= Len(s)
        <5>1. j \in DOMAIN s /\ k \in DOMAIN s /\ s[j].id = s[k].id
          BY <2>1, <3>1, <4>1 DEF From
        <5>2. Distinct(s)
          BY <2>1, <3>4 DEF From
        <5> QED
          BY <3>1, <4>1, <5>1, <5>2 DEF Distinct
      <4>2. CASE j = Len(s) + 1
        <5>1. k \in 1..Len(s)
          BY <3>1, <4>2
        <5>2. PICK m \in 1..n : s[k] = l[m]
          BY <3>2, <5>1
        <5>3. l[m].id = l[n + 1].id /\ m # n + 1 /\ m \in DOMAIN l /\ n + 1 \in DOMAIN l
          BY <1>2, <3>1, <4>2, <5>1, <5>2
        <5> QED
          BY <3>1, <3>4, <4>2, <5>3 DEF Distinct
      <4>3. CASE k = Len(s) + 1
        <5>1. j \in 1..Len(s)
          BY <3>1, <4>3
        <5>2. PICK m \in 1..n : s[j] = l[m]
          BY <3>2, <5>1
        <5>3. l[m].id = l[n + 1].id /\ m # n + 1 /\ m \in DOMAIN l /\ n + 1 \in DOMAIN l
          BY <1>2, <3>1, <4>3, <5>1, <5>2
        <5> QED
          BY <3>1, <3>4, <4>3, <5>1, <5>2, <5>3 DEF Distinct
      <4> QED
        BY <3>1, <4>1, <4>2, <4>3
    <3>5. From(t, l, n + 1)
      BY <3>1, <3>3, <3>4 DEF From
    <3> QED
      BY <2>5, <3>5 DEF t
  <2> QED
    BY <2>2, <2>4, <2>5
<1>10. Nat \subseteq M
  <2> HIDE DEF M
  <2> QED
    BY <1>8, <1>9, Placing!NatSetInduction, PlacingConstants
<1> QED
  BY <1>1, <1>2, <1>10

-----------------------------------------------------------------------------
(* Assignment of the events that are in no block.                          *)

BlocksOK(bs) == Placing!TimelineOK(bs)

SizesOf(l) == Envelopes(l, EventIds \cup {Stray})

AssignStep(b, l, id) ==
  IF Timeline!BlocksOf(b, id) # {} THEN b ELSE Timeline!AssignEvent(b, SizesOf(l), id)

\* Assignment goes from one line to the next.
Runs(a, bs, l) ==
  /\ a[0] = bs
  /\ \A n \in Nat : n + 1 <= Len(l) => a[n + 1] = AssignStep(a[n], l, l[n + 1].id)

LEMMA AssignRun ==
  ASSUME NEW bs, NEW l \in Seq(Line)
  PROVE  \E a : Runs(a, bs, l) /\ AssignUnassigned(bs, l) = a[Len(l)]
<1> DEFINE Step(b, k) == AssignStep(b, l, l[k].id)
           Upto(g, n) == g = [k \in 0..n |-> IF k = 0 THEN bs ELSE Step(g[k - 1], k)]
           Assigned == CHOOSE g : Upto(g, Len(l))
           N == {n \in Nat : \E g : Upto(g, n)}
<1>1. AssignUnassigned(bs, l) = Assigned[Len(l)]
  BY DEF AssignUnassigned, AssignStep, SizesOf
<1>2. Len(l) \in Nat
  OBVIOUS
<1> HIDE DEF Step
<1>3. 0 \in N
  <2>1. Upto([k \in 0..0 |-> bs], 0)
    OBVIOUS
  <2> QED
    BY <2>1
<1>4. ASSUME NEW n \in Nat, n \in N PROVE n + 1 \in N
  <2>1. PICK g : Upto(g, n)
    BY <1>4
  <2> DEFINE h == [k \in 0..(n + 1) |-> IF k = n + 1 THEN Step(g[n], n + 1) ELSE g[k]]
  <2>2. g[0] = bs /\ \A k \in 1..n : g[k] = Step(g[k - 1], k)
    BY <2>1
  <2>3. \A k \in 0..n : h[k] = g[k]
    OBVIOUS
  <2>4. ASSUME NEW k \in 0..(n + 1)
        PROVE  h[k] = IF k = 0 THEN bs ELSE Step(h[k - 1], k)
    <3>1. CASE k \in 1..n
      <4>1. k - 1 \in 0..n /\ k \in 0..n /\ k # 0
        BY <3>1
      <4> HIDE DEF h
      <4> QED
        BY <3>1, <2>2, <2>3, <4>1
    <3>2. CASE k = n + 1
      <4>1. h[k] = Step(g[n], k) /\ k - 1 = n /\ n \in 0..n
        BY <3>2
      <4> HIDE DEF h
      <4> QED
        BY <3>2, <2>3, <4>1
    <3>3. CASE k = 0
      BY <2>2, <2>3, <3>3
    <3> QED
      BY <3>1, <3>2, <3>3
  <2>5. h = [k \in 0..(n + 1) |-> h[k]]
    OBVIOUS
  <2> HIDE DEF h
  <2>6. h = [k \in 0..(n + 1) |-> IF k = 0 THEN bs ELSE Step(h[k - 1], k)]
    BY <2>4, <2>5
  <2> QED
    BY <2>6
<1>5. Nat \subseteq N
  <2> HIDE DEF N
  <2> QED
    BY <1>3, <1>4, Placing!NatSetInduction, PlacingConstants
<1>6. Upto(Assigned, Len(l))
  BY <1>2, <1>5
<1> HIDE DEF Assigned
<1>7. /\ Assigned[0] = bs
      /\ \A n \in Nat : n + 1 <= Len(l) => Assigned[n + 1] = Step(Assigned[n], n + 1)
  BY <1>2, <1>6
<1> QED
  BY <1>1, <1>7 DEF Step, Runs

LEMMA TimeIsInt ==
  ASSUME NEW l \in Seq(Line), NEW id \in EventIds \cup {Stray}
  PROVE  SizesOf(l)[id].unix_ts \in Int
<1>1. SizesOf(l)[id].unix_ts = TimeOf(l, id)
  BY DEF SizesOf, Envelopes
<1>2. CASE id \notin Ids(l)
  BY <1>1, <1>2 DEF TimeOf
<1>3. CASE id \in Ids(l)
  <2> DEFINE at == SelectInSeq(l, LAMBDA e : e.id = id)
           I == {i \in 1..Len(l) : l[i].id = id}
  <2>1. at \in DOMAIN l
    <3>1. I \subseteq Nat /\ I # {} /\ I \subseteq DOMAIN l
      BY <1>3 DEF Ids
    <3>2. at = Min(I)
      BY <3>1 DEF SelectInSeq
    <3> HIDE DEF I, at
    <3>3. \E x \in I : \A y \in I : x <= y
      BY <3>1, Placing!LeastNat, PlacingConstants
    <3>4. Min(I) \in I
      BY <3>3 DEF Min
    <3> QED
      BY <3>1, <3>2, <3>4
  <2>2. TimeOf(l, id) = l[at].unix_ts
    BY <1>3 DEF TimeOf
  <2> HIDE DEF at
  <2>3. l[at] \in Line
    BY <2>1
  <2> QED
    BY <1>1, <2>2, <2>3 DEF Line
<1> QED
  BY <1>2, <1>3

\* Assignment keeps a timeline a timeline.
LEMMA AssignType ==
  ASSUME NEW bs, BlocksOK(bs), NEW l \in Seq(Line)
  PROVE  BlocksOK(AssignUnassigned(bs, l))
<1>1. PICK a : Runs(a, bs, l) /\ AssignUnassigned(bs, l) = a[Len(l)]
  BY AssignRun
<1> DEFINE M == {n \in Nat : n <= Len(l) => BlocksOK(a[n])}
<1>2. 0 \in M
  BY <1>1 DEF Runs
<1>3. ASSUME NEW n \in Nat, n \in M PROVE n + 1 \in M
  <2> SUFFICES ASSUME n + 1 <= Len(l) PROVE BlocksOK(a[n + 1])
    OBVIOUS
  <2>1. BlocksOK(a[n]) /\ l[n + 1].id \in EventIds \cup {Stray}
    <3>1. l[n + 1] \in Line /\ n <= Len(l)
      BY <1>3
    <3> QED
      BY <1>3, <3>1 DEF Line
  <2>2. SizesOf(l)[l[n + 1].id].unix_ts \in Int
    BY <2>1, TimeIsInt
  <2>3. BlocksOK(Placing!AssignEvent(a[n], SizesOf(l), l[n + 1].id))
    BY <2>1, <2>2, Placing!AssignEventOK, PlacingConstants DEF BlocksOK
  <2>4. BlocksOK(Timeline!AssignEvent(a[n], SizesOf(l), l[n + 1].id))
    BY <2>3, SameAssign
  <2> QED
    BY <1>1, <2>1, <2>4 DEF AssignStep, Runs
<1>4. Nat \subseteq M
  <2> HIDE DEF M
  <2> QED
    BY <1>2, <1>3, Placing!NatSetInduction, PlacingConstants
<1> QED
  BY <1>1, <1>4

\* Blocks that hold these events, each once, and no others.
Holds(bs, ids) == BlocksOK(bs) /\ Placing!PlacedOnce(bs, ids)

\* Assignment places every line's event, and leaves the others where they are.
LEMMA AssignHolds ==
  ASSUME NEW bs, NEW l \in Seq(Line), NEW ids, ids \subseteq Ids(l), Holds(bs, ids)
  PROVE  Holds(AssignUnassigned(bs, l), Ids(l))
<1>1. PICK a : Runs(a, bs, l) /\ AssignUnassigned(bs, l) = a[Len(l)]
  BY AssignRun
<1> DEFINE Upto(n) == ids \cup {l[k].id : k \in 1..n}
           M == {n \in Nat : n <= Len(l) => Holds(a[n], Upto(n))}
<1>2. 0 \in M
  <2>1. Upto(0) = ids
    OBVIOUS
  <2> QED
    BY <1>1, <2>1 DEF Runs
<1>3. ASSUME NEW n \in Nat, n \in M PROVE n + 1 \in M
  <2> SUFFICES ASSUME n + 1 <= Len(l) PROVE Holds(a[n + 1], Upto(n + 1))
    OBVIOUS
  <2> DEFINE id == l[n + 1].id
  <2>1. Holds(a[n], Upto(n)) /\ id \in EventIds \cup {Stray}
    <3>1. l[n + 1] \in Line /\ n <= Len(l)
      BY <1>3
    <3> QED
      BY <1>3, <3>1 DEF Line
  <2>2. Upto(n + 1) = Upto(n) \cup {id}
    OBVIOUS
  <2>3. SizesOf(l)[id].unix_ts \in Int
    BY <2>1, TimeIsInt
  <2>4. a[n + 1] = AssignStep(a[n], l, id)
    BY <1>1 DEF Runs
  <2> HIDE DEF Upto, id
  <2>5. CASE Timeline!BlocksOf(a[n], id) # {}
    <3>1. a[n + 1] = a[n]
      BY <2>4, <2>5 DEF AssignStep
    <3>2. id \in Upto(n)
      BY <2>1, <2>5 DEF Holds, Placing!PlacedOnce, Timeline!BlocksOf
    <3>3. Upto(n + 1) = Upto(n)
      BY <2>2, <3>2
    <3> QED
      BY <2>1, <3>1, <3>3
  <2>6. CASE Timeline!BlocksOf(a[n], id) = {}
    <3>1. a[n + 1] = Placing!AssignEvent(a[n], SizesOf(l), id)
      BY <2>4, <2>6, SameAssign DEF AssignStep
    <3>2. id \notin Upto(n)
      BY <2>1, <2>6 DEF Holds, Placing!PlacedOnce, Timeline!BlocksOf
    <3>3. /\ Placing!TimelineOK(Placing!AssignEvent(a[n], SizesOf(l), id))
          /\ Placing!PlacedOnce(Placing!AssignEvent(a[n], SizesOf(l), id), Upto(n) \cup {id})
      BY <2>1, <2>3, <3>2, Placing!AssignEventOK, PlacingConstants DEF Holds, BlocksOK
    <3> QED
      BY <2>2, <3>1, <3>3 DEF Holds, BlocksOK
  <2> QED
    BY <2>5, <2>6
<1>4. Nat \subseteq M
  <2> HIDE DEF M
  <2> QED
    BY <1>2, <1>3, Placing!NatSetInduction, PlacingConstants
<1>5. Len(l) \in Nat /\ Len(l) <= Len(l) /\ DOMAIN l = 1..Len(l)
  OBVIOUS
<1>6. Upto(Len(l)) = Ids(l)
  BY <1>5 DEF Ids
<1>7. Holds(a[Len(l)], Upto(Len(l)))
  <2> HIDE DEF Upto
  <2> QED
    BY <1>4, <1>5
<1> HIDE DEF Upto, M
<1> QED
  BY <1>1, <1>6, <1>7

-----------------------------------------------------------------------------
(* The files.                                                              *)

DiskOK(d) ==
  /\ d = [lines |-> d.lines, tail |-> d.tail, blocks |-> d.blocks]
  /\ d.lines \in Seq(Line)
  /\ d.tail = {} \/ \E t \in TornLine : d.tail = {t}
  /\ d.blocks = NoBlocks \/ BlocksOK(d.blocks)

TailIds(d) == {t.line.id : t \in d.tail}
ReadableIds(d) == {t.line.id : t \in {u \in d.tail : u.form \in {"unsigned", "bare"}}}

\* No event is on two lines, whole or cut.
OncePerLine(d) == Distinct(d.lines) /\ TailIds(d) \cap Ids(d.lines) \subseteq {Stray}

\* A start reads the lines, and the cut one if it can be read.
LEMMA LoadedLines ==
  ASSUME NEW d, DiskOK(d)
  PROVE  /\ Loaded(d) \in Seq(Line)
         /\ Ids(Loaded(d)) = Ids(d.lines) \cup ReadableIds(d)
         /\ OncePerLine(d) => Distinct(Loaded(d))
<1> DEFINE U == {u \in d.tail : u.form \in {"unsigned", "bare"}}
           S == {t.line : t \in U}
<1>1. Loaded(d) = d.lines \o SetToSeq(S)
  BY DEF Loaded
<1>2. d.lines \in Seq(Line)
  BY DEF DiskOK
<1>3. CASE U = {}
  <2>1. S = {} /\ ReadableIds(d) = {}
    BY <1>3 DEF ReadableIds
  <2>2. SetToSeq(S) = <<>>
    <3>1. Cardinality(S) = 0
      BY <2>1, FS_EmptySet
    <3>2. \A g \in [1..0 -> S] : g \in Seq(S) /\ Len(g) = 0
      OBVIOUS
    <3>3. \A g \in [1..0 -> S] : g = <<>>
      BY <3>2, EmptySeq
    <3>4. <<>> \in [1..0 -> S]
      <4>1. <<>> \in Seq(S) /\ Len(<<>>) = 0
        BY EmptySeq
      <4>2. \A g \in Seq(S) : g \in [1..Len(g) -> S]
        OBVIOUS
      <4> QED
        BY <4>1, <4>2
    <3>5. IsInjective(<<>>)
      BY <3>4 DEF IsInjective
    <3> QED
      BY <3>1, <3>3, <3>4, <3>5 DEF SetToSeq
  <2>3. Loaded(d) = d.lines
    BY <1>1, <1>2, <2>2, ConcatEmptySeq
  <2> QED
    BY <1>2, <2>1, <2>3 DEF OncePerLine
<1>4. CASE U # {}
  <2>1. PICK t \in TornLine : d.tail = {t} /\ U = {t}
    BY <1>4 DEF DiskOK
  <2> DEFINE x == t.line
  <2>2. x \in Line /\ S = {x} /\ ReadableIds(d) = {x.id} /\ TailIds(d) = {x.id}
    BY <2>1 DEF ReadableIds, TailIds, TornLine
  <2> HIDE DEF x
  <2>3. SetToSeq(S) = <<x>>
    <3>1. Cardinality(S) = 1
      BY <2>2, FS_Singleton
    <3>2. \A g \in [1..1 -> {x}] : g = <<x>>
      OBVIOUS
    <3>3. <<x>> \in [1..1 -> {x}] /\ IsInjective(<<x>>)
      BY DEF IsInjective
    <3> QED
      BY <2>2, <3>1, <3>2, <3>3 DEF SetToSeq
  <2> DEFINE l == Append(d.lines, x)
  <2>4. Loaded(d) = l
    BY <1>1, <1>2, <2>2, <2>3, AppendIsConcat
  <2>5. /\ l \in Seq(Line) /\ DOMAIN l = 1..(Len(d.lines) + 1) /\ Len(d.lines) \in Nat
        /\ DOMAIN d.lines = 1..Len(d.lines)
        /\ l[Len(d.lines) + 1] = x /\ \A k \in 1..Len(d.lines) : l[k] = d.lines[k]
    BY <1>2, <2>2
  <2> HIDE DEF l
  <2>6. Ids(l) = Ids(d.lines) \cup {x.id}
    <3>1. DOMAIN l = DOMAIN d.lines \cup {Len(d.lines) + 1}
      BY <2>5
    <3> QED
      BY <2>5, <3>1 DEF Ids
  <2>7. ASSUME OncePerLine(d) PROVE Distinct(l)
    <3>1. \A k \in 1..Len(d.lines) : d.lines[k].id = x.id => x.id = Stray
      BY <2>2, <2>5, <2>7 DEF OncePerLine, Ids
    <3>2. ASSUME NEW j \in DOMAIN l, NEW k \in DOMAIN l, l[j].id = l[k].id, j # k
          PROVE  l[j].id = Stray
      <4>1. CASE j <= Len(d.lines) /\ k <= Len(d.lines)
        <5>1. j \in DOMAIN d.lines /\ k \in DOMAIN d.lines /\ d.lines[j].id = d.lines[k].id
          BY <2>5, <3>2, <4>1
        <5> QED
          BY <2>5, <2>7, <3>2, <5>1 DEF OncePerLine, Distinct
      <4>2. CASE j = Len(d.lines) + 1
        BY <2>5, <3>1, <3>2, <4>2
      <4>3. CASE k = Len(d.lines) + 1
        BY <2>5, <3>1, <3>2, <4>3
      <4> QED
        BY <2>5, <4>1, <4>2, <4>3
    <3> QED
      BY <3>2 DEF Distinct
  <2> QED
    BY <2>2, <2>4, <2>5, <2>6, <2>7
<1> QED
  BY <1>3, <1>4

\* What a write to the event log makes of its files.
Whole(d, e, c) == d.tail = {} /\ c.lines = Append(d.lines, e) /\ c.tail = {}

Cut(d, e, c) ==
  /\ d.tail = {} /\ c.lines = d.lines
  /\ \E t \in TornLine : c.tail = {t} /\ t.line.id = e.id

Joined(d, c) ==
  /\ d.tail # {} /\ c.tail = {}
  /\ \/ c.lines = d.lines
     \/ \E x \in Line : x.id = Stray /\ c.lines = Append(d.lines, x)

SameLines(d, c) == c.lines = d.lines /\ c.tail = d.tail

LEMMA CutLineOK ==
  ASSUME NEW d, DiskOK(d), NEW e \in Line, NEW c \in CutLine(d, e)
  PROVE  /\ DiskOK(c) /\ c.blocks = d.blocks /\ c.lines = d.lines
         /\ \E t \in TornLine : c.tail = {t} /\ t.line.id = e.id
<1>1. PICK form \in {"stub", "torn", "unsigned", "bare"} :
        c = [d EXCEPT !.tail = {[line |-> [e EXCEPT !.signed = (form # "unsigned")], form |-> form]}]
  BY DEF CutLine
<1> DEFINE sg == (form # "unsigned")
           x == [e EXCEPT !.signed = sg]
           t == [line |-> x, form |-> form]
<1>2. sg \in BOOLEAN
  OBVIOUS
<1>3. c = [d EXCEPT !.tail = {t}]
  BY <1>1
<1> HIDE DEF sg
<1>4. x \in Line /\ x.id = e.id
  BY <1>2 DEF Line
<1> HIDE DEF x
<1>5. t \in TornLine /\ t.line.id = e.id
  BY <1>4 DEF TornLine
<1> HIDE DEF t
<1>6. c = [lines |-> d.lines, tail |-> {t}, blocks |-> d.blocks]
  BY <1>3 DEF DiskOK
<1> QED
  BY <1>5, <1>6 DEF DiskOK

LEMMA AppendedOK ==
  ASSUME NEW d, DiskOK(d), NEW e \in Line
  PROVE  /\ DiskOK(Appended(d, e)) /\ Appended(d, e).blocks = d.blocks
         /\ Whole(d, e, Appended(d, e)) \/ Joined(d, Appended(d, e))
<1> DEFINE c == Appended(d, e)
           x == [e EXCEPT !.id = Stray]
           ls == IF \E t \in d.tail : t.form = "stub" THEN Append(d.lines, x) ELSE d.lines
<1>1. x \in Line /\ x.id = Stray
  BY DEF Line
<1> HIDE DEF x
<1>2. CASE d.tail = {}
  <2>1. c = [lines |-> Append(d.lines, e), tail |-> d.tail, blocks |-> d.blocks]
    BY <1>2 DEF Appended, DiskOK
  <2>2. Append(d.lines, e) \in Seq(Line)
    BY DEF DiskOK
  <2> QED
    BY <1>2, <2>1, <2>2 DEF DiskOK, Whole
<1>3. CASE d.tail # {}
  <2>1. c = [lines |-> ls, tail |-> {}, blocks |-> d.blocks]
    BY <1>3 DEF Appended, DiskOK, x
  <2>2. ls \in Seq(Line) /\ (ls = d.lines \/ ls = Append(d.lines, x))
    BY <1>1 DEF DiskOK
  <2> HIDE DEF ls
  <2> QED
    BY <1>1, <1>3, <2>1, <2>2 DEF DiskOK, Joined
<1> QED
  BY <1>2, <1>3

\* persist_event: nothing, the whole line, a part of it, or its end behind a cut one.
LEMMA EventAppendedOK ==
  ASSUME NEW d, DiskOK(d), NEW e \in Line, NEW f, NEW c \in EventAppended(d, e, f)
  PROVE  /\ DiskOK(c) /\ c.blocks = d.blocks
         /\ SameLines(d, c) \/ Whole(d, e, c) \/ Cut(d, e, c) \/ Joined(d, c)
         /\ f = NoFault => Whole(d, e, c) \/ Joined(d, c)
<1>1. \/ c = Appended(d, e)
      \/ c = d /\ f.at = "events"
      \/ d.tail = {} /\ c \in CutLine(d, e) /\ f.at = "events"
  BY DEF EventAppended
<1>2. f = NoFault => f.at # "events"
  BY DEF NoFault
<1> QED
  BY <1>1, <1>2, AppendedOK, CutLineOK DEF SameLines, Cut

\* A log written anew holds a part of what it was to hold.
Written(c, l) ==
  /\ Ids(c.lines) \subseteq Ids(l) /\ TailIds(c) \subseteq Ids(l)
  /\ Distinct(l) => OncePerLine(c)

LEMMA PrefixWritten ==
  ASSUME NEW l \in Seq(Line), NEW k \in 0..Len(l), NEW c, c.lines = SubSeq(l, 1, k),
         \/ c.tail = {}
         \/ k + 1 <= Len(l) /\ \E t \in TornLine : c.tail = {t} /\ t.line.id = l[k + 1].id
  PROVE  Written(c, l) /\ c.lines \in Seq(Line)
<1> DEFINE s == SubSeq(l, 1, k)
<1>1. /\ s \in Seq(Line) /\ Len(s) = k /\ DOMAIN s = 1..k
      /\ \A j \in 1..k : s[j] = l[j] /\ j \in DOMAIN l
  OBVIOUS
<1> HIDE DEF s
<1>2. c.lines = s
  BY DEF s
<1>3. Ids(s) \subseteq Ids(l)
  BY <1>1 DEF Ids
<1>4. Distinct(l) => Distinct(s)
  BY <1>1 DEF Distinct
<1>5. CASE c.tail = {}
  <2>1. TailIds(c) = {}
    BY <1>5 DEF TailIds
  <2> QED
    BY <1>1, <1>2, <1>3, <1>4, <2>1 DEF Written, OncePerLine
<1>6. CASE c.tail # {}
  <2>1. k + 1 <= Len(l) /\ k + 1 \in DOMAIN l /\ TailIds(c) = {l[k + 1].id}
    BY <1>6 DEF TailIds
  <2>2. TailIds(c) \subseteq Ids(l)
    BY <2>1 DEF Ids
  <2>3. ASSUME Distinct(l) PROVE TailIds(c) \cap Ids(s) \subseteq {Stray}
    <3>1. \A j \in 1..k : s[j].id = l[k + 1].id => s[j].id = Stray
      BY <1>1, <2>1, <2>3 DEF Distinct
    <3> QED
      BY <1>1, <2>1, <3>1 DEF Ids
  <2> QED
    BY <1>1, <1>2, <1>3, <1>4, <2>2, <2>3 DEF Written, OncePerLine
<1> QED
  BY <1>5, <1>6

LEMMA Rewritten ==
  ASSUME NEW d, d = [lines |-> d.lines, tail |-> d.tail, blocks |-> d.blocks], NEW s
  PROVE  [d EXCEPT !.lines = s, !.tail = {}] = [lines |-> s, tail |-> {}, blocks |-> d.blocks]
<1> DEFINE c == [d EXCEPT !.lines = s, !.tail = {}]
<1>1. DOMAIN c = DOMAIN d /\ DOMAIN d = {"lines", "tail", "blocks"}
  OBVIOUS
<1>2. c["lines"] = s /\ c["tail"] = {} /\ c["blocks"] = d.blocks
  BY <1>1
<1>3. c = [k \in DOMAIN c |-> c[k]]
  OBVIOUS
<1> HIDE DEF c
<1>4. c = [lines |-> s, tail |-> {}, blocks |-> d.blocks]
  BY <1>1, <1>2, <1>3
<1> QED
  BY <1>4, Zenon DEF c

\* persist_event_log: the old log, or the new one up to some line, perhaps cut.
LEMMA EventLogRewrittenOK ==
  ASSUME NEW d, DiskOK(d), NEW l \in Seq(Line), NEW f, NEW c \in EventLogRewritten(d, l, f)
  PROVE  /\ DiskOK(c) /\ c.blocks = d.blocks
         /\ Written(c, l) \/ (Ends(f) /\ SameLines(d, c))
         /\ f = NoFault => c.lines = l /\ c.tail = {}
<1> DEFINE upTo(k) == [d EXCEPT !.lines = SubSeq(l, 1, k), !.tail = {}]
<1>1. ASSUME NEW k \in 0..Len(l)
      PROVE  /\ upTo(k) = [lines |-> SubSeq(l, 1, k), tail |-> {}, blocks |-> d.blocks]
             /\ SubSeq(l, 1, k) \in Seq(Line)
             /\ DiskOK(upTo(k)) /\ upTo(k).blocks = d.blocks /\ Written(upTo(k), l)
  <2>1. upTo(k) = [lines |-> SubSeq(l, 1, k), tail |-> {}, blocks |-> d.blocks]
    BY Rewritten DEF DiskOK
  <2> HIDE DEF upTo
  <2>2. upTo(k).lines = SubSeq(l, 1, k) /\ upTo(k).tail = {} /\ upTo(k).blocks = d.blocks
    BY <2>1
  <2>3. Written(upTo(k), l) /\ upTo(k).lines \in Seq(Line)
    BY <2>2, PrefixWritten
  <2> QED
    BY <2>1, <2>2, <2>3 DEF DiskOK
<1>2. \/ c = d /\ Ends(f) /\ f.at = "events"
      \/ c = upTo(Len(l))
      \/ f.at = "events" /\ \E k \in DOMAIN l : c = upTo(k - 1) \/ c \in CutLine(upTo(k - 1), l[k])
  BY DEF EventLogRewritten
<1>3. Len(l) \in 0..Len(l) /\ SubSeq(l, 1, Len(l)) = l
  OBVIOUS
<1>4. f = NoFault => f.at # "events"
  BY DEF NoFault
<1>5. CASE c = d /\ Ends(f) /\ f.at = "events"
  BY <1>4, <1>5 DEF SameLines
<1>6. CASE c = upTo(Len(l))
  <2>1. upTo(Len(l)).lines = l /\ upTo(Len(l)).tail = {}
    BY <1>1, <1>3
  <2> HIDE DEF upTo
  <2> QED
    BY <1>1, <1>3, <1>6, <2>1
<1>7. ASSUME f.at = "events", NEW k \in DOMAIN l,
             c = upTo(k - 1) \/ c \in CutLine(upTo(k - 1), l[k])
      PROVE  DiskOK(c) /\ c.blocks = d.blocks /\ Written(c, l)
  <2>1. k - 1 \in 0..Len(l) /\ k = (k - 1) + 1 /\ k <= Len(l) /\ l[k] \in Line
    OBVIOUS
  <2> DEFINE m == k - 1
  <2>2. CASE c = upTo(m)
    <3> HIDE DEF upTo
    <3> QED
      BY <1>1, <2>1, <2>2
  <2>3. CASE c \in CutLine(upTo(m), l[k])
    <3>1. DiskOK(upTo(m)) /\ upTo(m).blocks = d.blocks /\ upTo(m).lines = SubSeq(l, 1, m)
      BY <1>1, <2>1
    <3> HIDE DEF upTo
    <3>2. /\ DiskOK(c) /\ c.blocks = d.blocks /\ c.lines = SubSeq(l, 1, m)
          /\ \E t \in TornLine : c.tail = {t} /\ t.line.id = l[k].id
      BY <2>1, <2>3, <3>1, CutLineOK
    <3>3. m \in 0..Len(l) /\ m + 1 <= Len(l) /\ k = m + 1
      BY <2>1
    <3> HIDE DEF m
    <3>4. Written(c, l)
      BY <3>2, <3>3, PrefixWritten
    <3> QED
      BY <3>2, <3>4
  <2> QED
    BY <1>7, <2>2, <2>3
<1> QED
  BY <1>2, <1>4, <1>5, <1>6, <1>7

\* Some of the blocks of a timeline, genesis among them, with any of the ids.
LEMMA SubTimeline ==
  ASSUME NEW bs, BlocksOK(bs), NEW cs, DOMAIN cs \subseteq DOMAIN bs, 0 \in DOMAIN cs,
         cs \in [DOMAIN cs -> Placing!BlockRecord]
  PROVE  BlocksOK(cs)
<1>1. DOMAIN cs \subseteq Nat /\ DOMAIN cs # {}
  BY DEF BlocksOK, Placing!TimelineOK
<1>2. PICK m \in Nat : \A i \in DOMAIN cs : i <= m
  BY DEF BlocksOK, Placing!TimelineOK
<1>3. \E last \in DOMAIN cs : \A i \in DOMAIN cs : i <= last
  BY <1>1, <1>2, Placing!BoundedHasLast, PlacingConstants
<1> QED
  BY <1>1, <1>3 DEF BlocksOK, Placing!TimelineOK

LEMMA CutBlocksOK ==
  ASSUME NEW bs, BlocksOK(bs), NEW b \in CutBlocks(bs)
  PROVE  b = NoBlocks \/ BlocksOK(b)
<1>1. PICK k \in DOMAIN bs :
        \/ b = [i \in {j \in DOMAIN bs : j < k} |-> bs[i]]
        \/ \E ids \in (SUBSET bs[k].event_ids) \cup {{Stray}} :
             b = [i \in {j \in DOMAIN bs : j <= k} |->
                    IF i < k THEN bs[i] ELSE [bs[i] EXCEPT !.event_ids = ids]]
  <2> DEFINE whole(k) == [i \in {j \in DOMAIN bs : j < k} |-> bs[i]]
             upTo(k, ids) == [i \in {j \in DOMAIN bs : j <= k} |->
                                IF i < k THEN bs[i] ELSE [bs[i] EXCEPT !.event_ids = ids]]
             F(k) == {whole(k)} \cup {upTo(k, ids) : ids \in (SUBSET bs[k].event_ids) \cup {{Stray}}}
  <2>1. CutBlocks(bs) = UNION {F(k) : k \in DOMAIN bs}
    BY DEF CutBlocks
  <2>2. PICK k \in DOMAIN bs : b \in F(k)
    <3> HIDE DEF F
    <3> QED
      BY <2>1
  <2> HIDE DEF whole, upTo
  <2>3. b = whole(k) \/ \E ids \in (SUBSET bs[k].event_ids) \cup {{Stray}} : b = upTo(k, ids)
    BY <2>2
  <2> QED
    BY <2>3 DEF whole, upTo
<1> DEFINE before == [i \in {j \in DOMAIN bs : j < k} |-> bs[i]]
<1>2. /\ DOMAIN bs \subseteq Nat /\ 0 \in DOMAIN bs
      /\ \A i \in DOMAIN bs : bs[i] \in Placing!BlockRecord
  BY DEF BlocksOK, Placing!TimelineOK
<1>3. CASE b = before
  <2>1. CASE k = 0
    <3>1. DOMAIN before = {}
      BY <1>2, <2>1
    <3>2. before = NoBlocks
      BY <3>1 DEF NoBlocks
    <3> QED
      BY <1>3, <3>2
  <2>2. CASE k # 0
    <3>1. DOMAIN before \subseteq DOMAIN bs /\ 0 \in DOMAIN before
      BY <1>2, <2>2
    <3>2. before \in [DOMAIN before -> Placing!BlockRecord]
      BY <1>2
    <3> HIDE DEF before
    <3> QED
      BY <1>3, <3>1, <3>2, SubTimeline
  <2> QED
    BY <2>1, <2>2
<1>4. ASSUME NEW ids \in (SUBSET bs[k].event_ids) \cup {{Stray}},
             b = [i \in {j \in DOMAIN bs : j <= k} |->
                    IF i < k THEN bs[i] ELSE [bs[i] EXCEPT !.event_ids = ids]]
      PROVE  BlocksOK(b)
  <2>1. bs[k] \in Placing!BlockRecord
    BY <1>2
  <2>2. ids \subseteq EventIds \cup {Stray}
    BY <2>1 DEF Placing!BlockRecord
  <2>3. [bs[k] EXCEPT !.event_ids = ids] \in Placing!BlockRecord
    BY <2>1, <2>2 DEF Placing!BlockRecord
  <2>4. DOMAIN b = {j \in DOMAIN bs : j <= k}
    BY <1>4
  <2>5. ASSUME NEW i \in DOMAIN b PROVE b[i] \in Placing!BlockRecord
    <3>1. i < k \/ i = k
      BY <1>2, <2>4
    <3> QED
      BY <1>2, <1>4, <2>3, <2>4, <3>1
  <2>6. b = [i \in DOMAIN b |-> b[i]]
    BY <1>4
  <2>7. b \in [DOMAIN b -> Placing!BlockRecord]
    BY <2>5, <2>6
  <2>8. DOMAIN b \subseteq DOMAIN bs /\ 0 \in DOMAIN b
    BY <1>2, <2>4
  <2> QED
    BY <2>7, <2>8, SubTimeline
<1> QED
  BY <1>1, <1>3, <1>4

\* persist_block_log: the old blocks, the new ones, or a beginning of them.
LEMMA BlockLogRewrittenOK ==
  ASSUME NEW d, DiskOK(d), NEW bs, BlocksOK(bs), NEW f, NEW c \in BlockLogRewritten(d, bs, f)
  PROVE  /\ DiskOK(c) /\ SameLines(d, c)
         /\ f = NoFault => c.blocks = bs
<1>1. \/ c = d /\ Ends(f)
      \/ \E b \in CutBlocks(bs) \cup {bs} :
           c = [d EXCEPT !.blocks = b] /\ (f.at # "blocks" => b = bs)
  BY DEF BlockLogRewritten
<1>2. f = NoFault => f.at # "blocks" /\ ~ Ends(f)
  BY DEF NoFault, Ends
<1>3. ASSUME NEW b \in CutBlocks(bs) \cup {bs}, c = [d EXCEPT !.blocks = b]
      PROVE  DiskOK(c) /\ SameLines(d, c) /\ c.blocks = b
  <2>1. c = [lines |-> d.lines, tail |-> d.tail, blocks |-> b]
    BY <1>3 DEF DiskOK
  <2>2. b = NoBlocks \/ BlocksOK(b)
    BY CutBlocksOK
  <2> QED
    BY <2>1, <2>2 DEF DiskOK, SameLines
<1> QED
  BY <1>1, <1>2, <1>3 DEF SameLines

-----------------------------------------------------------------------------
(* What the operations make of the blocks.                                 *)

LEMMA GenesisOK ==
  ASSUME now \in Int, NEW bs, bs = NoBlocks \/ BlocksOK(bs)
  PROVE  BlocksOK(EnsureGenesis(bs))
<1>1. CASE bs = NoBlocks
  <2> DEFINE b == Placing!NewBlock(now)
  <2>1. b \in Placing!BlockRecord
    BY Placing!NewBlockType, PlacingConstants
  <2>2. EnsureGenesis(bs) = [i \in {0} |-> b]
    BY <1>1, SameSlots DEF EnsureGenesis
  <2> HIDE DEF b
  <2> QED
    BY <2>1, <2>2 DEF BlocksOK, Placing!TimelineOK
<1>2. CASE bs # NoBlocks
  BY <1>2 DEF EnsureGenesis
<1> QED
  BY <1>1, <1>2

LEMMA SlotsOK ==
  ASSUME now \in Int, NEW bs, BlocksOK(bs)
  PROVE  BlocksOK(Timeline!EnsureBlockSlots(bs, now)) /\ BlocksOK(Timeline!ConfirmDue(bs, now))
<1>1. Placing!TimelineOK(Placing!EnsureBlockSlots(bs, now))
  BY Placing!EnsureBlockSlotsOK, PlacingConstants DEF BlocksOK
<1>2. Placing!TimelineOK(Placing!ConfirmDue(bs, now))
  BY Placing!ConfirmDueOK, PlacingConstants DEF BlocksOK
<1> QED
  BY <1>1, <1>2, SameSlots DEF BlocksOK

LEMMA PlacedOK ==
  ASSUME now \in Int, NEW bs, bs = NoBlocks \/ BlocksOK(bs), NEW l \in Seq(Line)
  PROVE  BlocksOK(Placed(bs, l))
<1>1. BlocksOK(AssignUnassigned(EnsureGenesis(bs), l))
  BY GenesisOK, AssignType
<1> QED
  BY <1>1, SlotsOK DEF Placed

LEMMA CheckedOK ==
  ASSUME now \in Int, NEW bs, bs = NoBlocks \/ BlocksOK(bs), NEW l \in Seq(Line)
  PROVE  BlocksOK(Checked(bs, l))
<1>1. BlocksOK(Timeline!EnsureBlockSlots(EnsureGenesis(bs), now))
  BY GenesisOK, SlotsOK
<1>2. BlocksOK(AssignUnassigned(Timeline!EnsureBlockSlots(EnsureGenesis(bs), now), l))
  BY <1>1, AssignType
<1> QED
  BY <1>2, SlotsOK DEF Checked

UpToCheckpoint(bs) == [i \in {j \in DOMAIN bs : j <= Timeline!CheckpointIndex(bs)} |-> bs[i]]

LEMMA UpToCheckpointOK ==
  ASSUME NEW bs, BlocksOK(bs)
  PROVE  BlocksOK(UpToCheckpoint(bs))
<1> DEFINE at == Timeline!CheckpointIndex(bs)
           cs == UpToCheckpoint(bs)
<1>1. at \in DOMAIN bs
  BY SameCheckpoint, Placing!CheckpointPresent, PlacingConstants DEF BlocksOK
<1> HIDE DEF at
<1>2. cs = [i \in {j \in DOMAIN bs : j <= at} |-> bs[i]]
  BY DEF UpToCheckpoint, at
<1> HIDE DEF cs
<1>3. DOMAIN bs \subseteq Nat /\ 0 \in DOMAIN bs /\ \A i \in DOMAIN bs : bs[i] \in Placing!BlockRecord
  BY DEF BlocksOK, Placing!TimelineOK
<1>4. DOMAIN cs \subseteq DOMAIN bs /\ 0 \in DOMAIN cs
  BY <1>1, <1>2, <1>3
<1>5. cs \in [DOMAIN cs -> Placing!BlockRecord]
  BY <1>2, <1>3
<1> QED
  BY <1>4, <1>5, SubTimeline DEF cs

-----------------------------------------------------------------------------
(* The blocks after an append or a check hold every event in memory.       *)

LEMMA SlotsHold ==
  ASSUME now \in Int, NEW bs, NEW ids, Holds(bs, ids)
  PROVE  /\ Holds(Timeline!EnsureBlockSlots(bs, now), ids)
         /\ Holds(Timeline!ConfirmDue(bs, now), ids)
<1>1. Placing!PlacedOnce(Placing!EnsureBlockSlots(bs, now), ids)
  BY Placing!EnsureBlockSlotsOK, PlacingConstants DEF Holds, BlocksOK
<1>2. Placing!PlacedOnce(Placing!ConfirmDue(bs, now), ids)
  BY Placing!ConfirmDueOK, PlacingConstants DEF Holds, BlocksOK
<1> QED
  BY <1>1, <1>2, SameSlots, SlotsOK DEF Holds

LEMMA PlacedHolds ==
  ASSUME now \in Int, NEW bs, NEW l \in Seq(Line), NEW ids, ids \subseteq Ids(l), Holds(bs, ids)
  PROVE  Holds(Placed(bs, l), Ids(l)) /\ Holds(Checked(bs, l), Ids(l))
<1>1. EnsureGenesis(bs) = bs
  BY DEF EnsureGenesis, Holds, BlocksOK, Placing!TimelineOK, NoBlocks
<1>2. Holds(AssignUnassigned(bs, l), Ids(l))
  BY AssignHolds
<1> DEFINE cs == Timeline!EnsureBlockSlots(bs, now)
<1>3. Holds(cs, ids)
  BY SlotsHold
<1> HIDE DEF cs
<1>4. Holds(AssignUnassigned(cs, l), Ids(l))
  BY <1>3, AssignHolds
<1> QED
  BY <1>1, <1>2, <1>4, SlotsHold DEF Placed, Checked, cs

LEMMA IdsOfAppend ==
  ASSUME NEW l \in Seq(Line), NEW e
  PROVE  Ids(Append(l, e)) = Ids(l) \cup {e.id}
<1> DEFINE m == Append(l, e)
<1>1. /\ DOMAIN m = DOMAIN l \cup {Len(l) + 1} /\ m[Len(l) + 1] = e
      /\ \A k \in DOMAIN l : m[k] = l[k]
  OBVIOUS
<1> HIDE DEF m
<1>2. Ids(m) = Ids(l) \cup {e.id}
  BY <1>1 DEF Ids
<1> QED
  BY <1>2 DEF m

-----------------------------------------------------------------------------
(* The inductive invariant.                                                *)

Typed ==
  /\ now \in 0..MaxTime /\ left \in 0..MaxFaults
  /\ acked \subseteq EventIds /\ joined \subseteq EventIds \cup {Stray}
  /\ phase \in {"down", "foreign", "opened", "checked", "rolled back", "repaired", "serving"}
  /\ log \in Seq(Line) /\ Distinct(log)
  /\ DiskOK(disk)
  /\ phase # "down" => BlocksOK(blocks)

\* No event is on two lines; the joined ones are on none.  What can be read is in
\* memory; a start has nothing else in memory, so that a log it rewrites is as good.
LinesFit ==
  /\ OncePerLine(disk)
  /\ (Ids(disk.lines) \cup TailIds(disk)) \cap joined \subseteq {Stray}
  /\ phase # "down" => /\ Ids(disk.lines) \subseteq Ids(log) \cup {Stray}
                       /\ ReadableIds(disk) \subseteq Ids(log)
  /\ phase \notin {"down", "serving"} => Ids(log) \cap joined \subseteq {Stray}

\* ServedIsOnDisk, in every phase that has a store open.
OpenIsOnDisk ==
  phase # "down" /\ kinds \subseteq {"crash"} =>
    disk.blocks = blocks /\ Ids(log) \subseteq Ids(disk.lines) \cup ReadableIds(disk) \cup joined

\* Every event that can be read from the disk has its block.
ServedCoherent ==
  phase = "serving" =>
    /\ Stray \notin Ids(log)
    /\ \E ids \in SUBSET Ids(log) :
         /\ Holds(blocks, ids)
         /\ (Ids(disk.lines) \cup ReadableIds(disk)) \ {Stray} \subseteq ids

IInv == Typed /\ LinesFit /\ OpenIsOnDisk /\ ServedCoherent

LEMMA TypedFacts ==
  ASSUME IInv
  PROVE  /\ now \in 0..MaxTime /\ now \in Int /\ left \in 0..MaxFaults
         /\ acked \subseteq EventIds /\ joined \subseteq EventIds \cup {Stray}
         /\ log \in Seq(Line) /\ Distinct(log) /\ DiskOK(disk)
         /\ phase # "down" => BlocksOK(blocks)
<1>1. now \in 0..MaxTime
  BY DEF IInv, Typed
<1>2. now \in Int
  BY <1>1
<1> QED
  BY <1>1, <1>2 DEF IInv, Typed

LEMMA NoLines == Ids(<<>>) = {} /\ Distinct(<<>>) /\ <<>> \in Seq(Line)
<1> DEFINE s == <<>>
<1>1. s \in Seq(Line) /\ Len(s) = 0 /\ DOMAIN s = 1..Len(s)
  BY EmptySeq
<1> HIDE DEF s
<1>2. Ids(s) = {} /\ Distinct(s)
  BY <1>1 DEF Ids, Distinct
<1> QED
  BY <1>1, <1>2 DEF s

\* What a step that ends the process has to leave.
LEMMA DownStep ==
  ASSUME IInv, Down, DiskOK(disk'), OncePerLine(disk'),
         (Ids(disk'.lines) \cup TailIds(disk')) \cap joined' \subseteq {Stray},
         now' \in 0..MaxTime, left' \in 0..MaxFaults,
         acked' \subseteq EventIds, joined' \subseteq EventIds \cup {Stray}
  PROVE  IInv'
<1>1. phase' = "down" /\ log' = <<>>
  BY DEF Down
<1>2. Typed' /\ LinesFit' /\ OpenIsOnDisk' /\ ServedCoherent'
  BY <1>1, NoLines DEF Typed, LinesFit, OpenIsOnDisk, ServedCoherent
<1> QED
  BY <1>2 DEF IInv

\* The environment's faults.
LEMMA MeetsOK ==
  ASSUME IInv, NEW f, Meets(f)
  PROVE  /\ left' \in 0..MaxFaults
         /\ kinds \subseteq {"crash"} => f = NoFault \/ f.kind = "crash"
         /\ "refused" \notin kinds => f.kind # "refused"
<1>1. left \in 0..MaxFaults /\ MaxFaults \in Nat
  BY StoreDiskConstants DEF IInv, Typed, StoreDiskConstants
<1>2. f = NoFault \/ (f.kind \in kinds /\ left > 0)
  BY DEF Meets
<1>3. NoFault.kind # "refused"
  BY DEF NoFault
<1>4. left' \in 0..MaxFaults
  BY <1>1, <1>2 DEF Meets
<1> QED
  BY <1>2, <1>3, <1>4

LEMMA EmptyDiskOK ==
  /\ DiskOK(EmptyDisk) /\ OncePerLine(EmptyDisk)
  /\ Ids(EmptyDisk.lines) = {} /\ TailIds(EmptyDisk) = {} /\ ReadableIds(EmptyDisk) = {}
<1>1. EmptyDisk.lines = <<>> /\ EmptyDisk.tail = {} /\ EmptyDisk.blocks = NoBlocks
      /\ EmptyDisk = [lines |-> EmptyDisk.lines, tail |-> EmptyDisk.tail, blocks |-> EmptyDisk.blocks]
  BY DEF EmptyDisk
<1>2. DiskOK(EmptyDisk)
  BY <1>1, NoLines DEF DiskOK
<1> QED
  BY <1>1, <1>2, NoLines DEF TailIds, ReadableIds, OncePerLine

LEMMA InitInv == Init => IInv
<1> SUFFICES ASSUME Init PROVE IInv
  OBVIOUS
<1>1. 0 \in 0..MaxTime /\ MaxFaults \in 0..MaxFaults
  BY StoreDiskConstants DEF StoreDiskConstants
<1> QED
  BY <1>1, EmptyDiskOK, NoLines
     DEF Init, IInv, Typed, LinesFit, OpenIsOnDisk, ServedCoherent

-----------------------------------------------------------------------------
(* Its steps.                                                              *)

\* The write of an event, and of the blocks after it.
LEMMA AppendWrites ==
  ASSUME IInv, NEW e \in OfferedLines, NEW f, AppendEvent(e, f)
  PROVE  /\ DiskOK(disk') /\ (f = NoFault => disk'.blocks = Placed(blocks, Append(log, e)))
         /\ \/ SameLines(disk, disk')
            \/ Whole(disk, e, disk') \/ Cut(disk, e, disk') \/ Joined(disk, disk')
         /\ f = NoFault => Whole(disk, e, disk') \/ Joined(disk, disk')
         /\ e \in Line /\ e.id \in EventIds /\ e.id \notin Ids(log)
         /\ Append(log, e) \in Seq(Line)
         /\ BlocksOK(Placed(blocks, Append(log, e)))
<1>1. now \in Int /\ log \in Seq(Line) /\ DiskOK(disk) /\ phase = "serving" /\ BlocksOK(blocks)
  BY DEF IInv, Typed, AppendEvent
<1>2. e \in Line /\ e.id \in EventIds /\ e.id \notin Ids(log)
  <2>1. now - MaxPastDrift \in Int
    BY <1>1, StoreDiskConstants DEF StoreDiskConstants
  <2> DEFINE times == (now - MaxPastDrift)..now
             yes == {TRUE}
  <2>2. times \subseteq Int /\ yes \subseteq BOOLEAN /\ e \in [id : EventIds, unix_ts : times, signed : yes]
    <3>1. times \subseteq Int
      BY <1>1, <2>1
    <3>2. yes \subseteq BOOLEAN
      BY Zenon
    <3>3. e \in [id : EventIds, unix_ts : times, signed : yes]
      BY Zenon DEF OfferedLines
    <3> QED
      BY <3>1, <3>2, <3>3
  <2> HIDE DEF times, yes
  <2>3. e.id \in EventIds
    BY <2>2
  <2>4. e \in Line
    BY <2>2 DEF Line
  <2> QED
    BY <2>3, <2>4 DEF AppendEvent
<1>3. Append(log, e) \in Seq(Line)
  BY <1>1, <1>2
<1>4. BlocksOK(Placed(blocks, Append(log, e)))
  BY <1>1, <1>3, PlacedOK
<1>5. PICK d \in EventAppended(disk, e, f) :
        disk' \in BlockLogRewritten(d, Placed(blocks, Append(log, e)), f)
  BY DEF AppendEvent
<1>6. /\ DiskOK(d)
      /\ SameLines(disk, d) \/ Whole(disk, e, d) \/ Cut(disk, e, d) \/ Joined(disk, d)
      /\ f = NoFault => Whole(disk, e, d) \/ Joined(disk, d)
  BY <1>1, <1>2, EventAppendedOK
<1>7. /\ DiskOK(disk') /\ disk'.lines = d.lines /\ disk'.tail = d.tail
      /\ f = NoFault => disk'.blocks = Placed(blocks, Append(log, e))
  BY <1>4, <1>5, <1>6, BlockLogRewrittenOK DEF SameLines
<1>8. /\ SameLines(disk, d) => SameLines(disk, disk')
      /\ Whole(disk, e, d) => Whole(disk, e, disk')
      /\ Cut(disk, e, d) => Cut(disk, e, disk')
      /\ Joined(disk, d) => Joined(disk, disk')
  BY <1>7 DEF SameLines, Whole, Cut, Joined
<1> QED
  BY <1>2, <1>3, <1>4, <1>6, <1>7, <1>8

\* The lines and the joined events after a write.
LEMMA AppendLines ==
  ASSUME IInv, NEW e \in OfferedLines, NEW f, AppendEvent(e, f)
  PROVE  /\ OncePerLine(disk')
         /\ (Ids(disk'.lines) \cup TailIds(disk')) \cap joined' \subseteq {Stray}
         /\ Ids(disk.lines) \subseteq Ids(disk'.lines)
         /\ Ids(disk'.lines) \subseteq Ids(disk.lines) \cup {e.id, Stray}
         /\ ReadableIds(disk') \subseteq ReadableIds(disk) \cup {e.id}
         /\ joined' \subseteq EventIds \cup {Stray}
         /\ joined \ {e.id} \subseteq joined'
         /\ \/ e.id \in Ids(disk'.lines) \/ e.id \in joined'
            \/ SameLines(disk, disk') \/ Cut(disk, e, disk')
         /\ \/ ReadableIds(disk) \subseteq ReadableIds(disk')
            \/ Joined(disk, disk') /\ TailIds(disk) \cup {e.id} \subseteq joined'
         /\ ReadableIds(disk) \subseteq TailIds(disk)
<1> DEFINE A == Ids(disk.lines)
           T == TailIds(disk)
           A2 == Ids(disk'.lines)
           T2 == TailIds(disk')
           R == ReadableIds(disk)
           R2 == ReadableIds(disk')
<1>1. /\ e \in Line /\ e.id \in EventIds /\ e.id \notin Ids(log) /\ e.id # Stray
      /\ \/ SameLines(disk, disk') \/ Whole(disk, e, disk')
         \/ Cut(disk, e, disk') \/ Joined(disk, disk')
  BY AppendWrites, StoreDiskConstants DEF StoreDiskConstants
<1>2. /\ OncePerLine(disk) /\ disk.lines \in Seq(Line) /\ joined \subseteq EventIds \cup {Stray}
      /\ (A \cup T) \cap joined \subseteq {Stray}
      /\ A \subseteq Ids(log) \cup {Stray}
      /\ T \subseteq EventIds \cup {Stray}
  <2>1. phase = "serving"
    BY DEF AppendEvent
  <2>2. T \subseteq EventIds \cup {Stray}
    BY DEF IInv, Typed, DiskOK, TailIds, TornLine, Line
  <2> QED
    BY <2>1, <2>2 DEF IInv, LinesFit, Typed, DiskOK
<1>3. Distinct(disk.lines) /\ T \cap A \subseteq {Stray} /\ e.id \notin A
  BY <1>1, <1>2 DEF OncePerLine
<1>4. /\ R \subseteq T
      /\ disk.tail = {} => R = {} /\ T = {}
      /\ disk'.tail = {} => R2 = {} /\ T2 = {}
      /\ disk'.tail = disk.tail => R2 = R /\ T2 = T
  BY DEF ReadableIds, TailIds
<1>5. joined' = (joined \ {e.id}) \cup
                (IF disk.tail # {} /\ disk'.tail = {} THEN {e.id} \cup T ELSE {})
  BY DEF AppendEvent, TailIds
<1>6. ASSUME NEW x \in Line, x.id \notin A \/ x.id = Stray
      PROVE  Ids(Append(disk.lines, x)) = A \cup {x.id} /\ Distinct(Append(disk.lines, x))
  <2> DEFINE m == Append(disk.lines, x)
             n == Len(disk.lines)
  <2>1. /\ DOMAIN m = 1..(n + 1) /\ n \in Nat /\ DOMAIN disk.lines = 1..n /\ m[n + 1] = x
        /\ \A k \in 1..n : m[k] = disk.lines[k] /\ disk.lines[k].id \in A
    BY <1>2 DEF Ids
  <2> HIDE DEF m, n
  <2>2. \A k \in 1..n : m[k].id = x.id => x.id = Stray
    BY <1>6, <2>1
  <2>3. ASSUME NEW j \in DOMAIN m, NEW k \in DOMAIN m, m[j].id = m[k].id, j # k
        PROVE  m[j].id = Stray
    <3>1. CASE j \in 1..n /\ k \in 1..n
      BY <1>3, <2>1, <2>3, <3>1 DEF Distinct
    <3>2. CASE j = n + 1
      BY <2>1, <2>2, <2>3, <3>2
    <3>3. CASE k = n + 1
      BY <2>1, <2>2, <2>3, <3>3
    <3> QED
      BY <2>1, <3>1, <3>2, <3>3
  <2>4. Distinct(m)
    BY <2>3 DEF Distinct
  <2> QED
    BY <1>2, <2>4, IdsOfAppend DEF m
<1>7. CASE SameLines(disk, disk')
  <2>1. A2 = A /\ T2 = T /\ R2 = R /\ joined' = joined \ {e.id} /\ OncePerLine(disk')
    BY <1>2, <1>4, <1>5, <1>7 DEF SameLines, OncePerLine
  <2> HIDE DEF A, T, A2, T2, R, R2
  <2> QED
    BY <1>2, <1>4, <1>7, <2>1 DEF A, T, A2, T2, R, R2
<1>8. CASE Whole(disk, e, disk')
  <2>1. A2 = A \cup {e.id} /\ T2 = {} /\ R2 = {} /\ R = {} /\ Distinct(disk'.lines)
    BY <1>1, <1>3, <1>4, <1>6, <1>8 DEF Whole
  <2>2. joined' = joined \ {e.id}
    BY <1>5, <1>8 DEF Whole
  <2> HIDE DEF A, T, A2, T2, R, R2
  <2>3. (A2 \cup T2) \cap joined' \subseteq {Stray}
    BY <1>2, <2>1, <2>2
  <2>4. OncePerLine(disk')
    BY <2>1 DEF OncePerLine, T2
  <2> QED
    BY <1>2, <1>4, <2>1, <2>2, <2>3, <2>4 DEF A, T, A2, T2, R, R2
<1>9. CASE Cut(disk, e, disk')
  <2>1. A2 = A /\ T2 = {e.id} /\ R2 \subseteq {e.id} /\ R = {} /\ Distinct(disk'.lines)
    BY <1>3, <1>4, <1>9 DEF Cut, TailIds, ReadableIds
  <2>2. joined' = joined \ {e.id}
    BY <1>5, <1>9 DEF Cut
  <2> HIDE DEF A, T, A2, T2, R, R2
  <2>3. (A2 \cup T2) \cap joined' \subseteq {Stray}
    BY <1>2, <2>1, <2>2
  <2>4. OncePerLine(disk')
    <3>1. T2 \cap A2 \subseteq {Stray}
      BY <1>3, <2>1
    <3> QED
      BY <2>1, <3>1 DEF OncePerLine, T2, A2
  <2> QED
    BY <1>2, <1>4, <1>9, <2>1, <2>2, <2>3, <2>4 DEF A, T, A2, T2, R, R2
<1>10. CASE Joined(disk, disk')
  <2>1. A2 \in {A, A \cup {Stray}} /\ T2 = {} /\ R2 = {} /\ Distinct(disk'.lines)
    BY <1>3, <1>4, <1>6, <1>10 DEF Joined
  <2>2. joined' = (joined \ {e.id}) \cup {e.id} \cup T
    BY <1>5, <1>10 DEF Joined
  <2> HIDE DEF A, T, A2, T2, R, R2
  <2>3. (A2 \cup T2) \cap joined' \subseteq {Stray}
    BY <1>2, <1>3, <2>1, <2>2
  <2>4. OncePerLine(disk')
    BY <2>1 DEF OncePerLine, T2
  <2> QED
    BY <1>1, <1>2, <1>4, <1>10, <2>1, <2>2, <2>3, <2>4 DEF A, T, A2, T2, R, R2
<1> QED
  BY <1>1, <1>7, <1>8, <1>9, <1>10

LEMMA AppendStep ==
  ASSUME IInv, NEW e \in OfferedLines, NEW f, AppendEvent(e, f) PROVE IInv'
<1> DEFINE l == Append(log, e)
<1>1. /\ phase = "serving" /\ now' = now /\ kinds' = kinds /\ Meets(f)
      /\ acked' \subseteq acked \cup {e.id}
      /\ f.kind = "crash" => Down
      /\ f.kind # "crash" => /\ log' = l /\ phase' = phase
                             /\ f.kind # "refused" => blocks' = Placed(blocks, l)
                             /\ blocks' = blocks \/ blocks' = Placed(blocks, l)
  BY DEF AppendEvent, Unplaced
<1>2. /\ left' \in 0..MaxFaults /\ now \in 0..MaxTime /\ now \in Int /\ acked' \subseteq EventIds
      /\ e \in Line /\ e.id \in EventIds /\ e.id \notin Ids(log) /\ log \in Seq(Line)
  BY <1>1, MeetsOK, AppendWrites DEF IInv, Typed
<1>3. DiskOK(disk') /\ OncePerLine(disk') /\ joined' \subseteq EventIds \cup {Stray}
      /\ (Ids(disk'.lines) \cup TailIds(disk')) \cap joined' \subseteq {Stray}
  BY AppendWrites, AppendLines
<1>4. CASE f.kind = "crash"
  BY <1>1, <1>2, <1>3, <1>4, DownStep
<1>5. CASE f.kind # "crash"
  <2>1. /\ log' = l /\ phase' = "serving" /\ l \in Seq(Line)
        /\ Ids(l) = Ids(log) \cup {e.id}
    BY <1>1, <1>2, <1>5, AppendWrites, IdsOfAppend
  <2>2. BlocksOK(blocks')
    BY <1>1, <1>5, AppendWrites DEF IInv, Typed
  <2>3. Distinct(l)
    <3> DEFINE n == Len(log)
    <3>1. /\ DOMAIN l = 1..(n + 1) /\ n \in Nat /\ DOMAIN log = 1..n /\ l[n + 1] = e
          /\ \A k \in 1..n : l[k] = log[k] /\ log[k].id \in Ids(log)
      BY <1>2 DEF Ids
    <3> HIDE DEF l, n
    <3>2. Distinct(log) /\ \A k \in 1..n : l[k].id # e.id
      BY <1>2, <3>1 DEF IInv, Typed
    <3>3. ASSUME NEW j \in DOMAIN l, NEW k \in DOMAIN l, l[j].id = l[k].id, j # k
          PROVE  l[j].id = Stray
      <4>1. CASE j \in 1..n /\ k \in 1..n
        BY <3>1, <3>2, <3>3, <4>1 DEF Distinct
      <4>2. CASE j = n + 1
        BY <3>1, <3>2, <3>3, <4>2
      <4>3. CASE k = n + 1
        BY <3>1, <3>2, <3>3, <4>3
      <4> QED
        BY <3>1, <4>1, <4>2, <4>3
    <3> QED
      BY <3>3 DEF Distinct
  <2> HIDE DEF l
  <2>4. Typed'
    BY <1>1, <1>2, <1>3, <2>1, <2>2, <2>3 DEF Typed
  <2>5. LinesFit'
    <3>1. /\ Ids(disk.lines) \subseteq Ids(log) \cup {Stray}
          /\ ReadableIds(disk) \subseteq Ids(log)
      BY <1>1 DEF IInv, LinesFit
    <3>2. /\ Ids(disk'.lines) \subseteq Ids(disk.lines) \cup {e.id, Stray}
          /\ ReadableIds(disk') \subseteq ReadableIds(disk) \cup {e.id}
      BY AppendLines
    <3>3. Ids(disk'.lines) \subseteq Ids(l) \cup {Stray} /\ ReadableIds(disk') \subseteq Ids(l)
      BY <2>1, <3>1, <3>2
    <3> QED
      BY <1>3, <2>1, <3>3 DEF LinesFit
  <2>6. OpenIsOnDisk'
    <3> SUFFICES ASSUME kinds \subseteq {"crash"}
                 PROVE  /\ disk'.blocks = blocks'
                        /\ Ids(l) \subseteq Ids(disk'.lines) \cup ReadableIds(disk') \cup joined'
      BY <1>1, <2>1 DEF OpenIsOnDisk
    <3>1. f = NoFault /\ f.kind # "refused"
      BY <1>1, <1>5, MeetsOK DEF NoFault
    <3>2. /\ Whole(disk, e, disk') \/ Joined(disk, disk')
          /\ disk'.blocks = blocks'
      BY <1>1, <1>5, <3>1, AppendWrites DEF l
    <3>3. Ids(log) \subseteq Ids(disk.lines) \cup ReadableIds(disk) \cup joined
      BY <1>1 DEF IInv, OpenIsOnDisk
    <3>4. e.id \in Ids(disk'.lines) \/ e.id \in joined'
      <4>1. CASE Whole(disk, e, disk')
        BY <1>2, <4>1, IdsOfAppend DEF IInv, Typed, DiskOK, Whole
      <4>2. CASE Joined(disk, disk')
        BY <4>2 DEF Joined, AppendEvent
      <4> QED
        BY <3>2, <4>1, <4>2
    <3>5. \/ ReadableIds(disk) \subseteq ReadableIds(disk')
          \/ TailIds(disk) \subseteq joined'
      BY AppendLines
    <3>6. /\ Ids(disk.lines) \subseteq Ids(disk'.lines) /\ joined \ {e.id} \subseteq joined'
          /\ ReadableIds(disk) \subseteq TailIds(disk)
      BY AppendLines
    <3>7. Ids(l) \subseteq Ids(disk'.lines) \cup ReadableIds(disk') \cup joined'
      BY <2>1, <3>3, <3>4, <3>5, <3>6
    <3> QED
      BY <3>2, <3>7
  <2>7. ServedCoherent'
    <3>1. PICK ids \in SUBSET Ids(log) :
            /\ Holds(blocks, ids)
            /\ (Ids(disk.lines) \cup ReadableIds(disk)) \ {Stray} \subseteq ids
      BY <1>1 DEF IInv, ServedCoherent
    <3>2. Stray \notin Ids(l)
      <4>1. Stray \notin Ids(log)
        BY <1>1 DEF IInv, ServedCoherent
      <4> QED
        BY <1>2, <2>1, <4>1, StoreDiskConstants DEF StoreDiskConstants
    <3>3. CASE blocks' = Placed(blocks, l)
      <4>1. Holds(blocks', Ids(l))
        BY <1>2, <2>1, <3>1, <3>3, PlacedHolds
      <4>2. (Ids(disk'.lines) \cup ReadableIds(disk')) \ {Stray} \subseteq Ids(l)
        BY <2>1, <2>5 DEF LinesFit
      <4> DEFINE all == Ids(l)
      <4>3. Holds(blocks', all) /\ all \in SUBSET Ids(log')
            /\ (Ids(disk'.lines) \cup ReadableIds(disk')) \ {Stray} \subseteq all
        BY <2>1, <4>1, <4>2
      <4> HIDE DEF all
      <4> QED
        BY <2>1, <3>2, <4>3 DEF ServedCoherent
    <3>4. CASE blocks' # Placed(blocks, l)
      <4>1. f.kind = "refused" /\ f.at = "events" /\ blocks' = blocks
        BY <1>5, <3>4 DEF AppendEvent, Unplaced, l
      <4>2. disk' = disk
        BY <4>1 DEF AppendEvent, EventAppended, BlockLogRewritten, Ends
      <4>3. ids \in SUBSET Ids(log') /\ Holds(blocks', ids)
            /\ (Ids(disk'.lines) \cup ReadableIds(disk')) \ {Stray} \subseteq ids
        BY <2>1, <3>1, <4>1, <4>2
      <4> QED
        BY <2>1, <3>2, <4>3 DEF ServedCoherent
    <3> QED
      BY <3>3, <3>4
  <2> QED
    BY <2>4, <2>5, <2>6, <2>7 DEF IInv
<1> QED
  BY <1>4, <1>5

LEMMA SameLinesSameIds ==
  ASSUME NEW d, NEW c, SameLines(d, c)
  PROVE  /\ Ids(c.lines) = Ids(d.lines) /\ TailIds(c) = TailIds(d)
         /\ ReadableIds(c) = ReadableIds(d)
         /\ OncePerLine(d) => OncePerLine(c)
  BY DEF SameLines, TailIds, ReadableIds, OncePerLine

LEMMA CheckStep ==
  ASSUME IInv, NEW f, RoutineBlockCheck(f) PROVE IInv'
<1>1. /\ phase \in {"serving", "opened", "rolled back"} /\ phase # "down"
      /\ now' = now /\ kinds' = kinds /\ acked' = acked /\ joined' = joined /\ Meets(f)
      /\ disk' \in BlockLogRewritten(disk, Checked(blocks, log), f)
  BY DEF RoutineBlockCheck
<1>2. /\ left' \in 0..MaxFaults /\ now \in 0..MaxTime /\ now \in Int
      /\ acked \subseteq EventIds /\ joined \subseteq EventIds \cup {Stray}
      /\ log \in Seq(Line) /\ DiskOK(disk) /\ BlocksOK(blocks) /\ Distinct(log)
  BY <1>1, MeetsOK, TypedFacts
<1>3. BlocksOK(Checked(blocks, log))
  BY <1>2, CheckedOK
<1>4. /\ DiskOK(disk') /\ SameLines(disk, disk')
      /\ f = NoFault => disk'.blocks = Checked(blocks, log)
  BY <1>1, <1>2, <1>3, BlockLogRewrittenOK
<1>5. /\ Ids(disk'.lines) = Ids(disk.lines) /\ TailIds(disk') = TailIds(disk)
      /\ ReadableIds(disk') = ReadableIds(disk) /\ OncePerLine(disk')
      /\ (Ids(disk'.lines) \cup TailIds(disk')) \cap joined' \subseteq {Stray}
  <2>1. OncePerLine(disk) /\ (Ids(disk.lines) \cup TailIds(disk)) \cap joined \subseteq {Stray}
    BY DEF IInv, LinesFit
  <2> QED
    BY <1>1, <1>4, <2>1, SameLinesSameIds
<1>6. CASE Down
  BY <1>1, <1>2, <1>4, <1>5, <1>6, DownStep
<1>7. CASE ~ Down
  <2>1. /\ log' = log /\ blocks' = Checked(blocks, log) /\ f.kind # "crash"
        /\ \/ phase = "serving" /\ phase' = "serving"
           \/ phase \in {"opened", "rolled back"} /\ phase' \in {"checked", "repaired"}
    BY <1>7 DEF RoutineBlockCheck, Ends
  <2>2. Typed'
    BY <1>1, <1>2, <1>3, <1>4, <2>1 DEF Typed
  <2>3. LinesFit'
    <3>1. /\ Ids(disk.lines) \subseteq Ids(log) \cup {Stray} /\ ReadableIds(disk) \subseteq Ids(log)
          /\ phase # "serving" => Ids(log) \cap joined \subseteq {Stray}
      BY <1>1 DEF IInv, LinesFit
    <3> QED
      BY <1>1, <1>5, <2>1, <3>1 DEF LinesFit
  <2>4. OpenIsOnDisk'
    <3> SUFFICES ASSUME kinds \subseteq {"crash"}
                 PROVE  /\ disk'.blocks = blocks'
                        /\ Ids(log) \subseteq Ids(disk'.lines) \cup ReadableIds(disk') \cup joined
      BY <1>1, <2>1 DEF OpenIsOnDisk
    <3>1. f = NoFault
      BY <1>1, <2>1, MeetsOK
    <3>2. Ids(log) \subseteq Ids(disk.lines) \cup ReadableIds(disk) \cup joined
      BY <1>1 DEF IInv, OpenIsOnDisk
    <3> QED
      BY <1>4, <1>5, <2>1, <3>1, <3>2
  <2>5. ServedCoherent'
    <3> SUFFICES ASSUME phase = "serving", phase' = "serving"
                 PROVE  /\ Stray \notin Ids(log')
                        /\ \E ids \in SUBSET Ids(log') :
                             /\ Holds(blocks', ids)
                             /\ (Ids(disk'.lines) \cup ReadableIds(disk')) \ {Stray} \subseteq ids
      BY <1>1, <2>1 DEF ServedCoherent
    <3>1. PICK ids \in SUBSET Ids(log) : Holds(blocks, ids)
      BY DEF IInv, ServedCoherent
    <3> DEFINE all == Ids(log)
    <3>2. Holds(blocks', all)
      BY <1>2, <2>1, <3>1, PlacedHolds
    <3>3. (Ids(disk'.lines) \cup ReadableIds(disk')) \ {Stray} \subseteq all
      BY <1>5, <2>1, <2>3 DEF LinesFit
    <3>4. Stray \notin Ids(log') /\ all \in SUBSET Ids(log')
      BY <2>1 DEF IInv, ServedCoherent
    <3> HIDE DEF all
    <3> QED
      BY <3>2, <3>3, <3>4
  <2> QED
    BY <2>2, <2>3, <2>4, <2>5 DEF IInv
<1> QED
  BY <1>6, <1>7

LEMMA OpenStep ==
  ASSUME IInv, NEW f, Open(f) PROVE IInv'
<1> DEFINE l == Loaded(disk)
           bs == Placed(disk.blocks, l)
<1>1. /\ phase = "down" /\ now' = now /\ kinds' = kinds /\ acked' = acked /\ joined' = joined
      /\ Meets(f) /\ disk' \in BlockLogRewritten(disk, bs, f)
      /\ IF Ends(f) THEN Down
         ELSE phase' \in {"opened", "foreign"} /\ log' = l /\ blocks' = bs
  BY DEF Open
<1>2. /\ left' \in 0..MaxFaults /\ now \in 0..MaxTime /\ now \in Int
      /\ acked \subseteq EventIds /\ joined \subseteq EventIds \cup {Stray} /\ DiskOK(disk)
  BY <1>1, MeetsOK, TypedFacts
<1>3. OncePerLine(disk) /\ (Ids(disk.lines) \cup TailIds(disk)) \cap joined \subseteq {Stray}
  BY DEF IInv, LinesFit
<1>4. l \in Seq(Line) /\ Ids(l) = Ids(disk.lines) \cup ReadableIds(disk) /\ Distinct(l)
  BY <1>2, <1>3, LoadedLines
<1>5. BlocksOK(bs)
  BY <1>2, <1>4, PlacedOK DEF DiskOK
<1> HIDE DEF l, bs
<1>6. DiskOK(disk') /\ SameLines(disk, disk') /\ (f = NoFault => disk'.blocks = bs)
  BY <1>1, <1>2, <1>5, BlockLogRewrittenOK
<1>7. /\ Ids(disk'.lines) = Ids(disk.lines) /\ TailIds(disk') = TailIds(disk)
      /\ ReadableIds(disk') = ReadableIds(disk) /\ OncePerLine(disk')
  BY <1>3, <1>6, SameLinesSameIds
<1>8. CASE Ends(f)
  BY <1>1, <1>2, <1>3, <1>6, <1>7, <1>8, DownStep
<1>9. CASE ~ Ends(f)
  <2>1. phase' \in {"opened", "foreign"} /\ log' = l /\ blocks' = bs
    BY <1>1, <1>9
  <2>2. Typed'
    BY <1>1, <1>2, <1>4, <1>5, <1>6, <2>1 DEF Typed
  <2>3. ReadableIds(disk) \subseteq TailIds(disk)
    BY DEF ReadableIds, TailIds
  <2>4. LinesFit'
    BY <1>1, <1>3, <1>4, <1>7, <2>1, <2>3 DEF LinesFit
  <2>5. OpenIsOnDisk'
    <3>1. kinds \subseteq {"crash"} => f = NoFault
      BY <1>1, <1>9, MeetsOK DEF Ends
    <3> QED
      BY <1>1, <1>4, <1>6, <1>7, <2>1, <3>1 DEF OpenIsOnDisk
  <2>6. ServedCoherent'
    BY <2>1 DEF ServedCoherent
  <2> QED
    BY <2>2, <2>4, <2>5, <2>6 DEF IInv
<1> QED
  BY <1>8, <1>9

LEMMA RollbackStep ==
  ASSUME IInv, NEW f, RollbackToLastCheckpoint(f) PROVE IInv'
<1> DEFINE bs == UpToCheckpoint(blocks)
           l == Retained(log, bs)
<1>1. /\ phase = "checked" /\ now' = now /\ kinds' = kinds /\ acked' = acked /\ joined' = joined
      /\ Meets(f)
      /\ \E d \in EventLogRewritten(disk, l, f) : disk' \in BlockLogRewritten(d, bs, f)
      /\ IF Ends(f) THEN Down ELSE phase' = "rolled back" /\ log' = l /\ blocks' = bs
  BY DEF RollbackToLastCheckpoint, UpToCheckpoint
<1>2. /\ left' \in 0..MaxFaults /\ now \in 0..MaxTime /\ now \in Int
      /\ acked \subseteq EventIds /\ joined \subseteq EventIds \cup {Stray}
      /\ log \in Seq(Line) /\ DiskOK(disk) /\ BlocksOK(blocks) /\ Distinct(log)
  BY <1>1, MeetsOK, TypedFacts
<1>3. /\ OncePerLine(disk) /\ (Ids(disk.lines) \cup TailIds(disk)) \cap joined \subseteq {Stray}
      /\ Ids(log) \cap joined \subseteq {Stray}
  BY <1>1 DEF IInv, LinesFit
<1>4. BlocksOK(bs)
  BY <1>2, UpToCheckpointOK
<1>5. l \in Seq(Line) /\ Ids(l) \subseteq Ids(log) /\ Distinct(l)
  <2>1. From(l, log, Len(log))
    BY <1>2, RetainedFrom
  <2> HIDE DEF l
  <2>2. l \in Seq(Line) /\ DOMAIN l = 1..Len(l) /\ DOMAIN log = 1..Len(log)
    BY <1>2, <2>1 DEF From
  <2>3. Ids(l) \subseteq Ids(log)
    BY <2>1, <2>2 DEF From, Ids
  <2> QED
    BY <1>2, <2>1, <2>2, <2>3 DEF From
<1> HIDE DEF l, bs
<1>6. PICK d \in EventLogRewritten(disk, l, f) : disk' \in BlockLogRewritten(d, bs, f)
  BY <1>1
<1>7. /\ DiskOK(d)
      /\ Written(d, l) \/ (Ends(f) /\ SameLines(disk, d))
      /\ f = NoFault => d.lines = l /\ d.tail = {}
  BY <1>2, <1>5, EventLogRewrittenOK
<1>8. DiskOK(disk') /\ SameLines(d, disk') /\ (f = NoFault => disk'.blocks = bs)
  BY <1>4, <1>6, <1>7, BlockLogRewrittenOK
<1>9. /\ Ids(disk'.lines) = Ids(d.lines) /\ TailIds(disk') = TailIds(d)
      /\ ReadableIds(disk') = ReadableIds(d)
      /\ OncePerLine(d) => OncePerLine(disk')
  BY <1>8, SameLinesSameIds
<1>10. ASSUME Written(d, l)
       PROVE  /\ OncePerLine(disk') /\ Ids(disk'.lines) \subseteq Ids(l) /\ TailIds(disk') \subseteq Ids(l)
              /\ (Ids(disk'.lines) \cup TailIds(disk')) \cap joined' \subseteq {Stray}
  BY <1>1, <1>3, <1>5, <1>9, <1>10 DEF Written
<1>11. CASE Ends(f)
  <2>1. OncePerLine(disk') /\ (Ids(disk'.lines) \cup TailIds(disk')) \cap joined' \subseteq {Stray}
    <3>1. CASE Written(d, l)
      BY <1>10, <3>1
    <3>2. CASE SameLines(disk, d)
      <4>1. Ids(d.lines) = Ids(disk.lines) /\ TailIds(d) = TailIds(disk) /\ OncePerLine(d)
        BY <1>3, <3>2, SameLinesSameIds
      <4> QED
        BY <1>1, <1>3, <1>9, <4>1
    <3> QED
      BY <1>7, <3>1, <3>2
  <2> QED
    BY <1>1, <1>2, <1>8, <1>11, <2>1, DownStep
<1>12. CASE ~ Ends(f)
  <2>1. phase' = "rolled back" /\ log' = l /\ blocks' = bs
    BY <1>1, <1>12
  <2>2. /\ OncePerLine(disk') /\ Ids(disk'.lines) \subseteq Ids(l) /\ TailIds(disk') \subseteq Ids(l)
        /\ (Ids(disk'.lines) \cup TailIds(disk')) \cap joined' \subseteq {Stray}
    BY <1>7, <1>10, <1>12
  <2>3. Typed'
    BY <1>1, <1>2, <1>4, <1>5, <1>8, <2>1 DEF Typed
  <2>4. ReadableIds(disk') \subseteq TailIds(disk')
    BY DEF ReadableIds, TailIds
  <2>5. LinesFit'
    <3>1. ReadableIds(disk') \subseteq Ids(l) /\ Ids(disk'.lines) \subseteq Ids(l) \cup {Stray}
      BY <2>2, <2>4
    <3>2. Ids(l) \cap joined \subseteq {Stray}
      BY <1>3, <1>5
    <3> QED
      BY <1>1, <2>1, <2>2, <3>1, <3>2 DEF LinesFit
  <2>6. OpenIsOnDisk'
    <3>1. kinds \subseteq {"crash"} => f = NoFault
      BY <1>1, <1>12, MeetsOK DEF Ends
    <3> QED
      BY <1>1, <1>7, <1>8, <1>9, <2>1, <3>1 DEF OpenIsOnDisk
  <2>7. ServedCoherent'
    BY <2>1 DEF ServedCoherent
  <2> QED
    BY <2>3, <2>5, <2>6, <2>7 DEF IInv
<1> QED
  BY <1>11, <1>12

LEMMA QuarantineStep ==
  ASSUME IInv, NEW f, Quarantine(f) PROVE IInv'
<1> DEFINE bs == EnsureGenesis(NoBlocks)
<1>1. /\ now' = now /\ kinds' = kinds /\ acked' = acked /\ joined' = joined
      /\ Meets(f) /\ disk' \in BlockLogRewritten(EmptyDisk, bs, f)
      /\ IF Ends(f) THEN Down ELSE phase' = "opened" /\ log' = <<>> /\ blocks' = bs
  BY DEF Quarantine
<1>2. /\ left' \in 0..MaxFaults /\ now \in 0..MaxTime /\ now \in Int
      /\ acked \subseteq EventIds /\ joined \subseteq EventIds \cup {Stray}
  BY <1>1, MeetsOK, TypedFacts
<1>3. BlocksOK(bs)
  BY <1>2, GenesisOK
<1> HIDE DEF bs
<1>4. DiskOK(disk') /\ SameLines(EmptyDisk, disk') /\ (f = NoFault => disk'.blocks = bs)
  BY <1>1, <1>3, EmptyDiskOK, BlockLogRewrittenOK
<1>5. /\ Ids(disk'.lines) = {} /\ TailIds(disk') = {}
      /\ ReadableIds(disk') = {} /\ OncePerLine(disk')
  BY <1>4, EmptyDiskOK, SameLinesSameIds
<1>6. CASE Ends(f)
  BY <1>1, <1>2, <1>4, <1>5, <1>6, DownStep
<1>7. CASE ~ Ends(f)
  <2>1. phase' = "opened" /\ log' = <<>> /\ blocks' = bs
    BY <1>1, <1>7
  <2>2. Typed'
    BY <1>1, <1>2, <1>3, <1>4, <2>1, NoLines DEF Typed
  <2>3. LinesFit'
    BY <1>1, <1>5, <2>1, NoLines DEF LinesFit
  <2>4. OpenIsOnDisk'
    <3>1. kinds \subseteq {"crash"} => f = NoFault
      BY <1>1, <1>7, MeetsOK DEF Ends
    <3> QED
      BY <1>1, <1>4, <2>1, <3>1, NoLines DEF OpenIsOnDisk
  <2>5. ServedCoherent'
    BY <2>1 DEF ServedCoherent
  <2> QED
    BY <2>2, <2>3, <2>4, <2>5 DEF IInv
<1> QED
  BY <1>6, <1>7

\* Placed once, as the timeline of BlockTimelineProofs and that of StoreDisk say it.
LEMMA SamePlacedOnce == Timeline!EventsPlacedOnce <=> Placing!PlacedOnce(blocks, Ids(log))
<1>1. DOMAIN Envelopes(log, Ids(log)) = Ids(log)
  BY DEF Envelopes
<1> QED
  BY <1>1 DEF Timeline!EventsPlacedOnce, Placing!PlacedOnce

LEMMA ServeStep ==
  ASSUME IInv, Serve PROVE IInv'
<1>1. /\ phase \in {"checked", "repaired"} /\ phase' = "serving"
      /\ UNCHANGED <<now, log, blocks, disk, kinds, left, acked, joined>>
  BY DEF Serve
<1>2. Holds(blocks, Ids(log)) /\ Stray \notin Ids(log)
  <2>1. Timeline!EventsPlacedOnce /\ Stray \notin Ids(log)
    BY DEF Serve, Corrupt
  <2> QED
    BY <1>1, <2>1, SamePlacedOnce, TypedFacts DEF Holds
<1>3. Typed' /\ LinesFit' /\ OpenIsOnDisk'
  BY <1>1 DEF IInv, Typed, LinesFit, OpenIsOnDisk
<1>4. ServedCoherent'
  <2> DEFINE all == Ids(log)
  <2>1. (Ids(disk'.lines) \cup ReadableIds(disk')) \ {Stray} \subseteq all
    BY <1>1 DEF IInv, LinesFit
  <2>2. all \in SUBSET Ids(log') /\ Holds(blocks', all) /\ Stray \notin Ids(log')
    BY <1>1, <1>2
  <2> HIDE DEF all
  <2> QED
    BY <2>1, <2>2 DEF ServedCoherent
<1> QED
  BY <1>3, <1>4 DEF IInv

\* Stop and Refuse: the process ends and leaves the files as they are.
LEMMA EndStep ==
  ASSUME IInv, Down, UNCHANGED <<now, disk, kinds, left, acked, joined>> PROVE IInv'
<1>1. OncePerLine(disk) /\ (Ids(disk.lines) \cup TailIds(disk)) \cap joined \subseteq {Stray}
  BY DEF IInv, LinesFit
<1>2. disk' = disk /\ joined' = joined
  OBVIOUS
<1>3. DiskOK(disk') /\ OncePerLine(disk')
      /\ (Ids(disk'.lines) \cup TailIds(disk')) \cap joined' \subseteq {Stray}
  BY <1>1, <1>2, TypedFacts
<1> QED
  BY <1>3, TypedFacts, DownStep

\* Steps that change only the clock or what was reported as stored.
LEMMA QuietStep ==
  ASSUME IInv, now' \in 0..MaxTime, acked' \subseteq EventIds,
         UNCHANGED <<phase, log, blocks, disk, kinds, left, joined>>
  PROVE  IInv'
  BY DEF IInv, Typed, LinesFit, OpenIsOnDisk, ServedCoherent

LEMMA NextInv == IInv /\ [Next]_vars => IInv'
<1> SUFFICES ASSUME IInv, [Next]_vars PROVE IInv'
  OBVIOUS
<1>1. CASE Tick
  <2>1. now \in 0..MaxTime /\ MaxTime \in Nat /\ acked \subseteq EventIds
    BY TypedFacts, StoreDiskConstants DEF StoreDiskConstants
  <2>2. now' \in 0..MaxTime /\ acked' \subseteq EventIds
    BY <1>1, <2>1 DEF Tick
  <2> QED
    BY <1>1, <2>2, QuietStep DEF Tick
<1>2. CASE Stop
  BY <1>2, EndStep DEF Stop
<1>3. CASE Serve
  BY <1>3, ServeStep
<1>4. CASE Refuse
  BY <1>4, EndStep DEF Refuse
<1>5. ASSUME NEW f, Open(f) PROVE IInv'
  BY <1>5, OpenStep
<1>6. ASSUME NEW f, RollbackToLastCheckpoint(f) PROVE IInv'
  BY <1>6, RollbackStep
<1>7. ASSUME NEW f, Quarantine(f) PROVE IInv'
  BY <1>7, QuarantineStep
<1>8. ASSUME NEW f, RoutineBlockCheck(f) PROVE IInv'
  BY <1>8, CheckStep
<1>9. ASSUME NEW id \in EventIds, AppendAgain(id) PROVE IInv'
  <2>1. acked' \subseteq EventIds /\ now' \in 0..MaxTime
    BY <1>9, TypedFacts DEF AppendAgain
  <2> QED
    BY <1>9, <2>1, QuietStep DEF AppendAgain
<1>10. ASSUME NEW f, NEW e \in OfferedLines, AppendEvent(e, f) PROVE IInv'
  BY <1>10, AppendStep
<1>11. CASE UNCHANGED vars
  <2>1. now' \in 0..MaxTime /\ acked' \subseteq EventIds
    BY <1>11, TypedFacts DEF vars
  <2> QED
    BY <1>11, <2>1, QuietStep DEF vars
<1> QED
  BY <1>1, <1>2, <1>3, <1>4, <1>5, <1>6, <1>7, <1>8, <1>9, <1>10, <1>11 DEF Next, StartStep

-----------------------------------------------------------------------------
(* Theorems.                                                               *)

LEMMA InvAlways == Spec => []IInv
  BY InitInv, NextInv, PTL DEF Spec

\* The variables keep their types, whatever was cut, lost or refused: no event is held
\* twice in events_, and at most one line of the event log is left unterminated.
THEOREM StoreTyped == Spec => []TypeOK
<1>1. IInv => TypeOK
  <2> SUFFICES ASSUME IInv PROVE TypeOK
    OBVIOUS
  <2>1. disk.tail \subseteq TornLine /\ Cardinality(disk.tail) <= 1
    <3>1. CASE disk.tail = {}
      BY <3>1, FS_EmptySet
    <3>2. ASSUME NEW t \in TornLine, disk.tail = {t}
          PROVE  disk.tail \subseteq TornLine /\ Cardinality(disk.tail) <= 1
      <4>1. Cardinality({t}) = 1
        BY FS_Singleton
      <4>2. {t} \subseteq TornLine /\ 1 <= 1
        OBVIOUS
      <4> QED
        BY <3>2, <4>1, <4>2
    <3>3. disk.tail = {} \/ \E t \in TornLine : disk.tail = {t}
      <4>1. DiskOK(disk)
        BY TypedFacts
      <4> QED
        BY <4>1 DEF DiskOK
    <3> QED
      BY <3>1, <3>2, <3>3, Zenon
  <2>2. disk.lines \in Seq(Line)
    BY TypedFacts DEF DiskOK
  <2>3. \A j, k \in DOMAIN log : log[j].id = log[k].id => j = k \/ log[j].id = Stray
    BY TypedFacts DEF Distinct
  <2>4. phase \in {"down", "foreign", "opened", "checked", "rolled back", "repaired", "serving"}
    BY DEF IInv, Typed
  <2> QED
    BY <2>1, <2>2, <2>3, <2>4, TypedFacts DEF TypeOK
<1> QED
  BY <1>1, InvAlways, PTL

\* While nothing worse than stops happens, the next start loads what is served: the
\* blocks, and every event but those on a line that was appended to a cut one.
THEOREM ServedAlwaysOnDisk == Spec => []ServedIsOnDisk
<1>1. IInv => ServedIsOnDisk
  <2> SUFFICES ASSUME IInv, phase = "serving", kinds \subseteq {"crash"}
               PROVE  /\ disk.blocks = blocks
                      /\ Ids(Loaded(disk)) \subseteq Ids(log) \cup {Stray}
                      /\ Ids(log) \subseteq Ids(Loaded(disk)) \cup joined
    BY DEF ServedIsOnDisk
  <2>1. Ids(Loaded(disk)) = Ids(disk.lines) \cup ReadableIds(disk)
    BY TypedFacts, LoadedLines
  <2>2. Ids(disk.lines) \subseteq Ids(log) \cup {Stray} /\ ReadableIds(disk) \subseteq Ids(log)
    BY DEF IInv, LinesFit
  <2>3. disk.blocks = blocks
    BY DEF IInv, OpenIsOnDisk
  <2>4. Ids(log) \subseteq Ids(disk.lines) \cup ReadableIds(disk) \cup joined
    BY DEF IInv, OpenIsOnDisk
  <2> QED
    BY <2>1, <2>2, <2>3, <2>4
<1> QED
  BY <1>1, InvAlways, PTL

\* Whatever stops, refused and unseen short writes left in the files, and whatever has
\* failed since the start: blocks that are served name served events only and each once,
\* and every event that the next start would load is served and has its block
\* (backtest_validate at the start, assign_unassigned_events_to_blocks after it).
THEOREM ServedAlwaysCoherent == Spec => []ServedIsCoherent
<1>1. IInv => ServedIsCoherent
  <2> SUFFICES ASSUME IInv, phase = "serving"
               PROVE  /\ Stray \notin Ids(log)
                      /\ \A i \in DOMAIN blocks : blocks[i].event_ids \subseteq Ids(log)
                      /\ \A i, j \in DOMAIN blocks :
                           i # j => blocks[i].event_ids \cap blocks[j].event_ids = {}
                      /\ \A id \in Ids(Loaded(disk)) \ {Stray} :
                           id \in Ids(log) /\ Timeline!BlocksOf(blocks, id) # {}
    BY DEF ServedIsCoherent
  <2>1. PICK ids \in SUBSET Ids(log) :
          /\ Holds(blocks, ids)
          /\ (Ids(disk.lines) \cup ReadableIds(disk)) \ {Stray} \subseteq ids
    BY DEF IInv, ServedCoherent
  <2>2. Ids(Loaded(disk)) = Ids(disk.lines) \cup ReadableIds(disk)
    BY TypedFacts, LoadedLines
  <2>3. Placing!PlacedOnce(blocks, ids) /\ Stray \notin Ids(log)
    BY <2>1 DEF IInv, ServedCoherent, Holds
  <2>4. ASSUME NEW id \in Ids(Loaded(disk)) \ {Stray}
        PROVE  id \in Ids(log) /\ Timeline!BlocksOf(blocks, id) # {}
    <3>1. id \in ids
      BY <2>1, <2>2, <2>4
    <3> QED
      BY <2>1, <2>3, <3>1 DEF Placing!PlacedOnce, Timeline!BlocksOf
  <2> QED
    BY <2>1, <2>3, <2>4 DEF Placing!PlacedOnce
<1> QED
  BY <1>1, InvAlways, PTL

\* A line that can be read stays readable through every write, stop and refusal: only
\* the rollback or the quarantine of a start or a line that joins a cut one loses it.
THEOREM LinesAlwaysKept == Spec => LinesKept
<1> DEFINE Kept == \/ Ids(Loaded(disk)) \subseteq Ids(Loaded(disk'))
                   \/ Repairs
                   \/ joined' # joined
<1>1. ASSUME IInv, IInv', Next PROVE Kept
  <2> DEFINE Lines(d) == Ids(d.lines) \cup ReadableIds(d)
  <2>1. Ids(Loaded(disk)) = Lines(disk)
    BY <1>1, TypedFacts, LoadedLines
  <2>2. Ids(Loaded(disk')) = Lines(disk')
    <3>1. DiskOK(disk')
      BY <1>1 DEF IInv, Typed
    <3> QED
      BY <3>1, LoadedLines
  <2>3. ASSUME disk' = disk PROVE Kept
    BY <2>3
  <2>4. ASSUME SameLines(disk, disk') PROVE Kept
    BY <2>1, <2>2, <2>4, SameLinesSameIds
  <2>5. ASSUME NEW f, Open(f) PROVE Kept
    <3> DEFINE bs == Placed(disk.blocks, Loaded(disk))
    <3>1. disk' \in BlockLogRewritten(disk, bs, f) /\ now \in Int /\ DiskOK(disk)
      BY <1>1, <2>5, TypedFacts DEF Open
    <3>2. BlocksOK(bs)
      <4>1. Loaded(disk) \in Seq(Line)
        BY <3>1, LoadedLines
      <4> QED
        BY <3>1, <4>1, PlacedOK DEF DiskOK
    <3> HIDE DEF bs
    <3> QED
      BY <2>4, <3>1, <3>2, BlockLogRewrittenOK
  <2>6. ASSUME NEW f, RoutineBlockCheck(f) PROVE Kept
    <3> DEFINE bs == Checked(blocks, log)
    <3>1. disk' \in BlockLogRewritten(disk, bs, f) /\ phase # "down"
      BY <2>6 DEF RoutineBlockCheck
    <3>2. BlocksOK(bs)
      BY <1>1, <3>1, TypedFacts, CheckedOK
    <3> HIDE DEF bs
    <3>3. SameLines(disk, disk')
      BY <1>1, <3>1, <3>2, TypedFacts, BlockLogRewrittenOK
    <3> QED
      BY <2>4, <3>3
  <2>7. ASSUME NEW f, NEW e \in OfferedLines, AppendEvent(e, f) PROVE Kept
    <3>1. /\ Ids(disk.lines) \subseteq Ids(disk'.lines)
          /\ \/ ReadableIds(disk) \subseteq ReadableIds(disk')
             \/ TailIds(disk) \subseteq joined'
          /\ ReadableIds(disk) \subseteq TailIds(disk)
      BY <1>1, <2>7, AppendLines
    <3>2. CASE ReadableIds(disk) \subseteq ReadableIds(disk')
      BY <2>1, <2>2, <3>1, <3>2
    <3>3. CASE TailIds(disk) \subseteq joined /\ joined' = joined
      <4>1. /\ TailIds(disk) \cap joined \subseteq {Stray}
            /\ ReadableIds(disk) \subseteq Ids(log)
        BY <1>1, <2>7 DEF IInv, LinesFit, AppendEvent
      <4>2. ReadableIds(disk) \subseteq {Stray}
        BY <3>1, <3>3, <4>1
      <4>3. Stray \notin Ids(log)
        BY <1>1, <2>7 DEF IInv, ServedCoherent, AppendEvent
      <4>4. ReadableIds(disk) = {}
        BY <4>1, <4>2, <4>3
      <4> QED
        BY <2>1, <2>2, <3>1, <4>4
    <3> QED
      BY <3>1, <3>2, <3>3
  <2>8. ASSUME NEW f, RollbackToLastCheckpoint(f) PROVE Kept
    BY <2>8 DEF RollbackToLastCheckpoint, Repairs
  <2>9. ASSUME NEW f, Quarantine(f) PROVE Kept
    BY <2>9 DEF Quarantine, Repairs
  <2>10. CASE Tick \/ Stop \/ Serve \/ Refuse \/ \E id \in EventIds : AppendAgain(id)
    <3>1. disk' = disk
      BY <2>10 DEF Tick, Stop, Serve, Refuse, AppendAgain
    <3> QED
      BY <2>3, <3>1
  <2> HIDE DEF Kept
  <2> QED
    BY <1>1, <2>5, <2>6, <2>7, <2>8, <2>9, <2>10 DEF Next, StartStep
<1>2. IInv /\ IInv' /\ [Next]_vars => [Kept]_vars
  BY <1>1
<1> QED
  BY <1>2, InitInv, NextInv, PTL DEF Spec, LinesKept
=============================================================================
