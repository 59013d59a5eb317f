-------------------------- MODULE CommunityProofs --------------------------
(***************************************************************************)
(* Theorems about Community, for every value of its constants: any number  *)
(* of events, of peers and of starts, any setting.  The replay's loops are *)
(* recursive functions over the replay order; what they compute is shown   *)
(* by induction over the order, for any collection of typed events.        *)
(***************************************************************************)
EXTENDS Community, FiniteSetTheorems, TLAPS

\* What BlockTimelineProofs shows of placement, for the timeline of Community.
Placing == INSTANCE BlockTimelineProofs WITH
  EnablePruning <- FALSE, PruneKeepRecent <- 1, MaxTime <- 0, events <- 0, blocks <- 0, chain <- 0

LEMMA PlacingConstants == Placing!TimelineConstants
  BY CommunityConstants DEF CommunityConstants, Placing!TimelineConstants

LEMMA SameAssign ==
  ASSUME NEW bs, NEW evs, NEW id
  PROVE  Timeline!AssignEvent(bs, evs, id) = Placing!AssignEvent(bs, evs, id)
<1>1. ASSUME NEW i
      PROVE  Timeline!BlockEventBytes(bs, evs, i) = Placing!BlockEventBytes(bs, evs, i)
  BY DEF Timeline!BlockEventBytes, Placing!BlockEventBytes, Timeline!MapThenSumSet,
         Placing!MapThenSumSet, Timeline!MapThenFoldSet, Placing!MapThenFoldSet
<1>2. \A S : Timeline!Cardinality(S) = Placing!Cardinality(S)
  BY DEF Timeline!Cardinality, Placing!Cardinality
<1>3. \A i : Timeline!HasRoom(bs, evs, id, i) <=> Placing!HasRoom(bs, evs, id, i)
  BY <1>1, <1>2 DEF Timeline!HasRoom, Placing!HasRoom
<1>4. Timeline!Back(bs) = Placing!Back(bs)
  BY DEF Timeline!Back, Placing!Back, Timeline!Max, Placing!Max
<1>5. \A t : Timeline!NewBlock(t) = Placing!NewBlock(t)
  BY DEF Timeline!NewBlock, Placing!NewBlock
<1>6. \A S : Timeline!Min(S) = Placing!Min(S)
  BY DEF Timeline!Min, Placing!Min
<1> QED
  BY <1>3, <1>4, <1>5, <1>6 DEF Timeline!AssignEvent, Placing!AssignEvent

LEMMA SameTimeline ==
  ASSUME NEW bs, NEW t
  PROVE  /\ Timeline!EnsureBlockSlots(bs, t) = Placing!EnsureBlockSlots(bs, t)
         /\ Timeline!ConfirmDue(bs, t) = Placing!ConfirmDue(bs, t)
         /\ Timeline!NewBlock(t) = Placing!NewBlock(t)
         /\ Timeline!CheckpointIndex(bs) = Placing!CheckpointIndex(bs)
         /\ Timeline!Back(bs) = Placing!Back(bs)
<1>1. Timeline!Back(bs) = Placing!Back(bs)
  BY DEF Timeline!Back, Placing!Back, Timeline!Max, Placing!Max
<1>2. \A u : Timeline!NewBlock(u) = Placing!NewBlock(u)
  BY DEF Timeline!NewBlock, Placing!NewBlock
<1>3. Timeline!EnsureBlockSlots(bs, t) = Placing!EnsureBlockSlots(bs, t)
  BY <1>1, <1>2 DEF Timeline!EnsureBlockSlots, Placing!EnsureBlockSlots
<1>4. Timeline!ConfirmDue(bs, t) = Placing!ConfirmDue(bs, t)
  BY DEF Timeline!ConfirmDue, Placing!ConfirmDue
<1>5. Timeline!CheckpointIndex(bs) = Placing!CheckpointIndex(bs)
  BY DEF Timeline!CheckpointIndex, Placing!CheckpointIndex, Timeline!Confirmed, Placing!Confirmed,
         Timeline!Max, Placing!Max
<1> QED
  BY <1>1, <1>2, <1>3, <1>4, <1>5

-----------------------------------------------------------------------------
(* What is stored: typed events, each in one block.                        *)

ClaimSays == [kind : {"claim"}, author : Cids, block : BlockIndices, reward : Int, proof_ok : BOOLEAN]
TransferSays == [kind : {"transfer"}, author : Cids, to : Cids, amount : Int, fee : Int, nonce : Nat,
                 witness_ok : BOOLEAN]
PostSays == [kind : C!PostKinds, author : Cids, value : Nat, parent : EventIds \cup {NoObject},
             rating : 0..5, core : BOOLEAN]
NameSays == [kind : {"ProfileUpdated"}, author : Cids]
RoleSays == [kind : M!RoleKinds, author : Cids, target : Cids]
ObjectSays == [kind : M!VisibilityKinds \cup M!PinKinds, author : Cids, object : EventIds]
Says == ClaimSays \cup TransferSays \cup PostSays \cup NameSays \cup RoleSays \cup ObjectSays

EventsOK(evs) ==
  /\ DOMAIN evs \subseteq EventIds
  /\ evs = [id \in DOMAIN evs |-> evs[id]]
  /\ \A id \in DOMAIN evs : evs[id].says \in Says /\ evs[id].unix_ts \in Int /\ evs[id].size \in Sizes

BlocksOK(bs) == Placing!TimelineOK(bs)

Coherent(bs, evs) == BlocksOK(bs) /\ Placing!PlacedOnce(bs, DOMAIN evs)

LEMMA SaysByKind ==
  ASSUME NEW e \in Says
  PROVE  /\ e.author \in Cids
         /\ e.kind = "claim" => e \in ClaimSays
         /\ e.kind = "transfer" => e \in TransferSays
         /\ IsPost(e) => e \in PostSays
         /\ IsModeration(e) => e \in RoleSays \cup ObjectSays
         /\ IsModeration(e) => ~ IsPost(e)
<1> USE DEF ClaimSays, TransferSays, PostSays, NameSays, RoleSays, ObjectSays, Says, IsPost, IsModeration,
            C!PostKinds, M!RoleKinds, M!VisibilityKinds, M!PinKinds
<1>1. e.author \in Cids
  OBVIOUS
<1>2. e.kind = "claim" => e \in ClaimSays
  OBVIOUS
<1>3. e.kind = "transfer" => e \in TransferSays
  OBVIOUS
<1>4. IsPost(e) => e \in PostSays
  OBVIOUS
<1>5. IsModeration(e) => e \in RoleSays \cup ObjectSays
  OBVIOUS
<1>6. IsModeration(e) => ~ IsPost(e)
  OBVIOUS
<1> QED
  BY <1>1, <1>2, <1>3, <1>4, <1>5, <1>6

LEMMA EventsFinite == ASSUME NEW evs, EventsOK(evs) PROVE IsFiniteSet(DOMAIN evs) /\ DOMAIN evs \subseteq Nat
  BY FS_Subset, CommunityConstants DEF EventsOK, CommunityConstants

LEMMA SlotsCoherent ==
  ASSUME NEW t \in Int, NEW bs, NEW evs, Coherent(bs, evs)
  PROVE  /\ Coherent(Timeline!EnsureBlockSlots(bs, t), evs)
         /\ Coherent(Timeline!ConfirmDue(bs, t), evs)
<1>1. /\ Placing!TimelineOK(Placing!EnsureBlockSlots(bs, t))
      /\ Placing!PlacedOnce(Placing!EnsureBlockSlots(bs, t), DOMAIN evs)
  BY Placing!EnsureBlockSlotsOK, PlacingConstants DEF Coherent, BlocksOK
<1>2. /\ Placing!TimelineOK(Placing!ConfirmDue(bs, t))
      /\ Placing!PlacedOnce(Placing!ConfirmDue(bs, t), DOMAIN evs)
  BY Placing!ConfirmDueOK, PlacingConstants DEF Coherent, BlocksOK
<1> QED
  BY <1>1, <1>2, SameTimeline DEF Coherent, BlocksOK

LEMMA CheckedCoherent ==
  ASSUME now \in Int, NEW bs, NEW evs, Coherent(bs, evs)
  PROVE  Coherent(Checked(bs), evs)
  BY SlotsCoherent DEF Checked

LEMMA PlacedBlock ==
  ASSUME NEW bs, NEW evs, Coherent(bs, evs), NEW id \in DOMAIN evs
  PROVE  BlockOf(bs, id) \in Nat /\ BlockOf(bs, id) \in DOMAIN bs
<1>1. \E i \in DOMAIN bs : id \in bs[i].event_ids
  BY DEF Coherent, Placing!PlacedOnce
<1> QED
  BY <1>1 DEF BlockOf, Coherent, BlocksOK, Placing!TimelineOK

-----------------------------------------------------------------------------
(* The replay order lists every stored id once.                            *)

Key == Nat \X Int \X Nat \X Nat

LEMMA BeforeForm ==
  ASSUME NEW p \in Key, NEW q \in Key
  PROVE  Before(p, q) <=> \/ p[1] < q[1]
                          \/ p[1] = q[1] /\ p[2] < q[2]
                          \/ p[1] = q[1] /\ p[2] = q[2] /\ p[3] < q[3]
                          \/ p[1] = q[1] /\ p[2] = q[2] /\ p[3] = q[3] /\ p[4] < q[4]
<1>1. 1..4 = {1, 2, 3, 4} /\ 1..(1 - 1) = {} /\ 1..(2 - 1) = {1} /\ 1..(3 - 1) = {1, 2} /\ 1..(4 - 1) = {1, 2, 3}
  OBVIOUS
<1> DEFINE P(k) == p[k] < q[k] /\ \A j \in 1..(k - 1) : p[j] = q[j]
<1>2. Before(p, q) <=> P(1) \/ P(2) \/ P(3) \/ P(4)
  <2> HIDE DEF P
  <2>1. Before(p, q) <=> \E k \in 1..4 : P(k)
    BY DEF Before, P
  <2> QED
    BY <1>1, <2>1
<1>3. P(1) <=> p[1] < q[1]
  BY <1>1
<1>4. P(2) <=> p[1] = q[1] /\ p[2] < q[2]
  BY <1>1
<1>5. P(3) <=> p[1] = q[1] /\ p[2] = q[2] /\ p[3] < q[3]
  BY <1>1
<1>6. P(4) <=> p[1] = q[1] /\ p[2] = q[2] /\ p[3] = q[3] /\ p[4] < q[4]
  BY <1>1
<1> HIDE DEF P
<1> QED
  BY <1>2, <1>3, <1>4, <1>5, <1>6

\* Before is a strict total order of the keys.
LEMMA BeforeOrders ==
  /\ \A p \in Key : ~ Before(p, p)
  /\ \A p, q \in Key : p = q \/ Before(p, q) \/ Before(q, p)
  /\ \A p, q, r \in Key : Before(p, q) /\ Before(q, r) => Before(p, r)
<1>1. \A p \in Key : p[1] \in Int /\ p[2] \in Int /\ p[3] \in Int /\ p[4] \in Int
  BY DEF Key
<1>2. ASSUME NEW p \in Key PROVE ~ Before(p, p)
  BY <1>1, BeforeForm
<1>3. ASSUME NEW p \in Key, NEW q \in Key, p # q PROVE Before(p, q) \/ Before(q, p)
  <2>1. p[1] # q[1] \/ p[2] # q[2] \/ p[3] # q[3] \/ p[4] # q[4]
    BY <1>3 DEF Key
  <2> QED
    BY <1>1, <2>1, BeforeForm
<1>4. ASSUME NEW p \in Key, NEW q \in Key, NEW r \in Key, Before(p, q), Before(q, r) PROVE Before(p, r)
  <2>1. \/ p[1] < q[1]
        \/ p[1] = q[1] /\ p[2] < q[2]
        \/ p[1] = q[1] /\ p[2] = q[2] /\ p[3] < q[3]
        \/ p[1] = q[1] /\ p[2] = q[2] /\ p[3] = q[3] /\ p[4] < q[4]
    BY <1>4, BeforeForm
  <2>2. \/ q[1] < r[1]
        \/ q[1] = r[1] /\ q[2] < r[2]
        \/ q[1] = r[1] /\ q[2] = r[2] /\ q[3] < r[3]
        \/ q[1] = r[1] /\ q[2] = r[2] /\ q[3] = r[3] /\ q[4] < r[4]
    BY <1>4, BeforeForm
  <2>3. \/ p[1] < r[1]
        \/ p[1] = r[1] /\ p[2] < r[2]
        \/ p[1] = r[1] /\ p[2] = r[2] /\ p[3] < r[3]
        \/ p[1] = r[1] /\ p[2] = r[2] /\ p[3] = r[3] /\ p[4] < r[4]
    BY <1>1, <2>1, <2>2
  <2> QED
    BY <2>3, BeforeForm
<1> QED
  BY <1>2, <1>3, <1>4

\* Counting the earlier keys puts each of them at a place of its own.
LEMMA PlacesOfKeys ==
  ASSUME NEW keys, keys \subseteq Key, IsFiniteSet(keys)
  PROVE  LET place == [p \in keys |-> Cardinality(Earlier(keys, p)) + 1]
         IN  place \in Bijection(keys, 1..Cardinality(keys))
<1> DEFINE place == [p \in keys |-> Cardinality(Earlier(keys, p)) + 1]
           n == Cardinality(keys)
<1>1. n \in Nat
  BY FS_CardinalityType
<1>2. ASSUME NEW p \in keys
      PROVE  /\ IsFiniteSet(Earlier(keys, p)) /\ Cardinality(Earlier(keys, p)) \in Nat
             /\ Cardinality(Earlier(keys, p)) < n
  <2>1. Earlier(keys, p) \in SUBSET (keys \ {p})
    BY BeforeOrders DEF Earlier
  <2>2. IsFiniteSet(keys \ {p}) /\ Cardinality(keys \ {p}) = n - 1
    BY FS_RemoveElement
  <2>3. IsFiniteSet(Earlier(keys, p)) /\ Cardinality(Earlier(keys, p)) <= Cardinality(keys \ {p})
    BY <2>1, <2>2, FS_Subset
  <2> HIDE DEF n
  <2> QED
    BY <1>1, <2>2, <2>3, FS_CardinalityType
<1>3. place \in [keys -> 1..n]
  <2>1. \A p \in keys : Cardinality(Earlier(keys, p)) + 1 \in 1..n
    <3> HIDE DEF n
    <3> QED
      BY <1>1, <1>2
  <2> HIDE DEF n
  <2> QED
    BY <2>1
<1>4. ASSUME NEW p \in keys, NEW q \in keys, Before(p, q) PROVE place[p] < place[q]
  <2> DEFINE S == Earlier(keys, p)
  <2>1. S \cup {p} \in SUBSET Earlier(keys, q) /\ p \notin S
    BY <1>4, BeforeOrders DEF Earlier
  <2>2. Cardinality(S \cup {p}) = Cardinality(S) + 1
    BY <1>2, <2>1, FS_AddElement
  <2>3. Cardinality(S \cup {p}) <= Cardinality(Earlier(keys, q))
    BY <1>2, <2>1, FS_Subset
  <2>4. Cardinality(S) \in Nat /\ Cardinality(Earlier(keys, q)) \in Nat
    BY <1>2
  <2>5. Cardinality(S) < Cardinality(Earlier(keys, q))
    BY <2>2, <2>3, <2>4
  <2>6. place[p] = Cardinality(S) + 1 /\ place[q] = Cardinality(Earlier(keys, q)) + 1
    OBVIOUS
  <2> HIDE DEF place, S
  <2> QED
    BY <2>4, <2>5, <2>6
<1>5. place \in Injection(keys, 1..n)
  <2>1. \A p \in keys : place[p] \in Int
    BY <1>1, <1>3
  <2> HIDE DEF place, n
  <2>2. \A p, q \in keys : place[p] = place[q] => p = q
    BY <1>4, <2>1, BeforeOrders
  <2> QED
    BY <1>3, <2>2 DEF Injection, IsInjective
<1>6. IsFiniteSet(1..n) /\ Cardinality(1..n) = n
  <2> HIDE DEF n
  <2> QED
    BY <1>1, FS_Interval
<1> HIDE DEF place
<1>7. place \in Surjection(keys, 1..n)
  BY <1>5, <1>6, FS_Injection
<1> QED
  BY <1>5, <1>7 DEF Bijection, place

LEMMA KeysTyped ==
  ASSUME NEW evs, EventsOK(evs), NEW bs, Coherent(bs, evs)
  PROVE  LET keys == {SortKey(evs, bs, id) : id \in DOMAIN evs}
         IN  /\ \A id \in DOMAIN evs : SortKey(evs, bs, id) \in Key /\ SortKey(evs, bs, id)[4] = id
             /\ keys \subseteq Key /\ IsFiniteSet(keys) /\ Cardinality(keys) \in Nat
<1> DEFINE S == DOMAIN evs
           key == [id \in S |-> SortKey(evs, bs, id)]
           keys == {SortKey(evs, bs, id) : id \in S}
<1>1. ASSUME NEW id \in S PROVE SortKey(evs, bs, id) \in Key /\ SortKey(evs, bs, id)[4] = id
  <2>1. BlockOf(bs, id) \in Nat
    BY PlacedBlock
  <2>2. evs[id].unix_ts \in Int /\ id \in Nat
    BY EventsFinite DEF EventsOK
  <2>3. Priority(evs[id].says) \in Nat
    BY DEF Priority
  <2> QED
    BY <2>1, <2>2, <2>3 DEF SortKey, Key
<1>2. key \in [S -> keys] /\ \A p \in keys : \E id \in S : p = key[id]
  OBVIOUS
<1>3. key \in Surjection(S, keys)
  <2> HIDE DEF key, keys
  <2> QED
    BY <1>2 DEF Surjection
<1>4. IsFiniteSet(keys)
  BY <1>3, EventsFinite, FS_Surjection
<1>5. Cardinality(keys) \in Nat
  BY <1>4, FS_CardinalityType
<1>6. keys \subseteq Key
  BY <1>1
<1> QED
  BY <1>1, <1>4, <1>5, <1>6

\* order lists the elements of S, each once.
Lists(order, S) ==
  /\ order \in Seq(S)
  /\ \A x \in S : \E k \in 1..Len(order) : order[k] = x
  /\ \A j, k \in 1..Len(order) : order[j] = order[k] => j = k

LEMMA OrderLists ==
  ASSUME NEW evs, EventsOK(evs), NEW bs, Coherent(bs, evs)
  PROVE  Lists(ReplayOrder(evs, bs), DOMAIN evs)
<1> DEFINE S == DOMAIN evs
           key == [id \in S |-> SortKey(evs, bs, id)]
           keys == {SortKey(evs, bs, id) : id \in S}
           place == [p \in keys |-> Cardinality(Earlier(keys, p)) + 1]
           placed == {<<Cardinality(Earlier(keys, p)) + 1, p[4]>> : p \in keys}
           n == Cardinality(keys)
           order == ReplayOrder(evs, bs)
<1>1. order = [k \in 1..n |-> (CHOOSE at \in placed : at[1] = k)[2]]
  BY DEF ReplayOrder
<1>2. \A id \in S : key[id] \in Key /\ key[id][4] = id
  BY KeysTyped
<1>3. \A p \in keys : \E id \in S : p = key[id]
  OBVIOUS
<1>4. \A id \in S : key[id] \in keys
  OBVIOUS
<1>5. keys \subseteq Key /\ IsFiniteSet(keys) /\ n \in Nat
  BY KeysTyped
<1>6. \A p \in keys : p[4] \in S /\ p = key[p[4]]
  BY <1>2, <1>3
<1> HIDE DEF key, keys, S, order
<1>7. place \in Bijection(keys, 1..n)
  BY <1>5, PlacesOfKeys
<1>8. \A p \in keys : <<place[p], p[4]>> \in placed
  OBVIOUS
<1>9. \A at \in placed : \E p \in keys : at = <<place[p], p[4]>>
  OBVIOUS
<1> HIDE DEF place, placed
<1>10. ASSUME NEW k \in 1..n PROVE \E p \in keys : place[p] = k /\ order[k] = p[4]
  <2>1. PICK q \in keys : place[q] = k
    BY <1>7 DEF Bijection, Surjection
  <2> DEFINE at == CHOOSE at \in placed : at[1] = k
  <2>2. at \in placed /\ at[1] = k
    <3>1. \E x \in placed : x[1] = k
      BY <1>8, <2>1
    <3> QED
      BY <3>1
  <2> HIDE DEF at
  <2>3. PICK p \in keys : at = <<place[p], p[4]>>
    BY <1>9, <2>2
  <2>4. order[k] = at[2]
    BY <1>1 DEF at
  <2> QED
    BY <2>2, <2>3, <2>4
<1> HIDE DEF n
<1>11. DOMAIN order = 1..n /\ order \in [1..n -> S]
  <2>1. \A k \in 1..n : order[k] \in S
    BY <1>6, <1>10
  <2> QED
    BY <1>1, <2>1
<1>12. order \in Seq(S) /\ Len(order) = n
  BY <1>5, <1>11
<1>13. ASSUME NEW x \in S PROVE \E k \in 1..n : order[k] = x
  <2>1. key[x] \in keys /\ key[x][4] = x
    BY <1>2, <1>4
  <2>2. place[key[x]] \in 1..n
    BY <1>7, <2>1 DEF Bijection, Injection
  <2>3. PICK p \in keys : place[p] = place[key[x]] /\ order[place[key[x]]] = p[4]
    BY <1>10, <2>2
  <2>4. p = key[x]
    BY <1>7, <2>1, <2>3 DEF Bijection, Injection, IsInjective
  <2> QED
    BY <2>1, <2>2, <2>3, <2>4
<1>14. ASSUME NEW j \in 1..n, NEW k \in 1..n, order[j] = order[k] PROVE j = k
  <2>1. PICK p \in keys : place[p] = j /\ order[j] = p[4]
    BY <1>10
  <2>2. PICK q \in keys : place[q] = k /\ order[k] = q[4]
    BY <1>10
  <2>3. p = q
    BY <1>6, <1>14, <2>1, <2>2
  <2> QED
    BY <2>1, <2>2, <2>3
<1> QED
  BY <1>12, <1>13, <1>14 DEF Lists, S, order

-----------------------------------------------------------------------------
(* The ledger.                                                             *)

LedgerOK(l) == l \in L!LedgerState /\ (\A c \in Cids : l.balance[c] >= 0) /\ l.burned >= 0

EconomicSays == ClaimSays \cup TransferSays \cup [kind : {"post"}, author : Cids, value : Nat]

LEMMA EmptyLedgerOK == LedgerOK(L!EmptyLedger) /\ L!EmptyLedger.burned = 0
  BY CommunityConstants DEF CommunityConstants, LedgerOK, L!EmptyLedger, L!LedgerState

LEMMA EconomicType == ASSUME NEW e \in Says, IsEconomic(e) PROVE Economic(e) \in EconomicSays
<1>1. CASE IsPost(e)
  <2>1. e \in PostSays
    BY <1>1, SaysByKind
  <2> QED
    BY <1>1, <2>1 DEF Economic, AsPost, EconomicSays, PostSays
<1>2. CASE ~ IsPost(e)
  <2>1. e \in ClaimSays \cup TransferSays
    BY <1>2, SaysByKind DEF IsEconomic
  <2> QED
    BY <1>2, <2>1 DEF Economic, EconomicSays
<1> QED
  BY <1>1, <1>2

\* A changed balance of one cid.
LEMMA BalanceChanged ==
  ASSUME NEW b \in [Cids -> Int], \A c \in Cids : b[c] >= 0, NEW a \in Cids, NEW u \in Nat
  PROVE  /\ L!Credit(b, a, u) \in [Cids -> Int]
         /\ \A c \in Cids : L!Credit(b, a, u)[c] >= 0
         /\ b[a] >= u => /\ L!Debit(b, a, u) \in [Cids -> Int]
                         /\ \A c \in Cids : L!Debit(b, a, u)[c] >= 0
  BY DEF L!Credit, L!Debit

\* What an accepted event makes of the ledger, as far as the views depend on it.
LedgerAfter(l, m, e) ==
  /\ LedgerOK(m)
  /\ m.burned >= l.burned
  /\ e.kind = "post" => m.burned = l.burned + e.value
  /\ \/ m.claimed = l.claimed
     \/ e.kind = "claim" /\ m.claimed = [l.claimed EXCEPT ![e.block] = e.author]

LEMMA LedgerStep ==
  ASSUME NEW l, LedgerOK(l), NEW e \in EconomicSays, NEW confirmed, L!Accepted(l, e, confirmed)
  PROVE  LedgerAfter(l, L!ApplyEvent(l, e, confirmed), e)
<1> DEFINE m == L!ApplyEvent(l, e, confirmed)
<1>1. /\ l.claimed \in [BlockIndices -> Cids \cup {NoCid}] /\ l.balance \in [Cids -> Int]
      /\ l.issued \in Int /\ l.burned \in Int /\ l.nonce \in [Cids -> Nat]
      /\ l = [claimed |-> l.claimed, balance |-> l.balance, issued |-> l.issued,
              burned |-> l.burned, nonce |-> l.nonce]
      /\ \A c \in Cids : l.balance[c] >= 0
  BY DEF LedgerOK, L!LedgerState
<1>2. CASE e.kind = "claim"
  <2>1. e \in ClaimSays /\ e.author \in Cids /\ e.block \in BlockIndices /\ e.reward \in Nat
    <3>1. e \in ClaimSays
      BY <1>2 DEF EconomicSays, TransferSays
    <3>2. L!ClaimAccepted(l, e, confirmed)
      BY <1>2 DEF L!Accepted
    <3> QED
      BY <3>1, <3>2 DEF ClaimSays, L!ClaimAccepted
  <2> DEFINE claimed == [l.claimed EXCEPT ![e.block] = e.author]
             balance == L!Credit(l.balance, e.author, e.reward)
  <2>2. m = L!ApplyClaim(l, e)
    BY <1>2 DEF L!ApplyEvent
  <2>3. m = [l EXCEPT !.claimed = claimed, !.balance = balance, !.issued = l.issued + e.reward]
    BY <2>2 DEF L!ApplyClaim
  <2>4. claimed \in [BlockIndices -> Cids \cup {NoCid}]
    BY <1>1, <2>1
  <2>5. balance \in [Cids -> Int] /\ \A c \in Cids : balance[c] >= 0
    BY <1>1, <2>1, BalanceChanged
  <2>6. l.issued + e.reward \in Int
    BY <1>1, <2>1
  <2> HIDE DEF m, balance, claimed
  <2>7. m = [claimed |-> claimed, balance |-> balance, issued |-> l.issued + e.reward,
             burned |-> l.burned, nonce |-> l.nonce]
    BY <1>1, <2>3
  <2>8. LedgerOK(m) /\ m.burned = l.burned /\ m.claimed = claimed
    BY <1>1, <2>4, <2>5, <2>6, <2>7 DEF LedgerOK, L!LedgerState
  <2> QED
    BY <1>1, <1>2, <2>8 DEF LedgerAfter, m, claimed
<1>3. CASE e.kind = "transfer"
  <2>1. /\ e.author \in Cids /\ e.to \in Cids /\ e.amount \in Nat /\ e.fee \in Nat /\ e.nonce \in Nat
        /\ l.balance[e.author] >= e.amount + e.fee
    <3>1. e \in TransferSays
      BY <1>3 DEF EconomicSays, ClaimSays
    <3>2. L!TransferAccepted(l, e)
      BY <1>3 DEF L!Accepted
    <3> QED
      BY <3>1, <3>2 DEF TransferSays, L!TransferAccepted
  <2> DEFINE debited == L!Debit(l.balance, e.author, e.amount + e.fee)
             balance == L!Credit(debited, e.to, e.amount)
             nonce == [l.nonce EXCEPT ![e.author] = e.nonce]
  <2>2. m = L!ApplyTransfer(l, e)
    BY <1>3 DEF L!ApplyEvent
  <2>3. m = [l EXCEPT !.balance = balance, !.burned = l.burned + e.fee, !.nonce = nonce]
    BY <2>2 DEF L!ApplyTransfer
  <2>4. nonce \in [Cids -> Nat]
    BY <1>1, <2>1
  <2>5. debited \in [Cids -> Int] /\ \A c \in Cids : debited[c] >= 0
    <3>1. e.amount + e.fee \in Nat
      BY <2>1
    <3> QED
      BY <1>1, <2>1, <3>1, BalanceChanged
  <2>6. balance \in [Cids -> Int] /\ \A c \in Cids : balance[c] >= 0
    <3> HIDE DEF debited
    <3> QED
      BY <2>1, <2>5, BalanceChanged
  <2>7. l.burned + e.fee \in Int /\ l.burned + e.fee >= l.burned
    BY <1>1, <2>1
  <2> HIDE DEF m, balance, nonce, debited
  <2>8. m = [claimed |-> l.claimed, balance |-> balance, issued |-> l.issued,
             burned |-> l.burned + e.fee, nonce |-> nonce]
    BY <1>1, <2>3
  <2>9. l.burned + e.fee >= 0
    BY <1>1, <2>7 DEF LedgerOK
  <2>10. LedgerOK(m) /\ m.burned >= l.burned /\ m.claimed = l.claimed
    BY <1>1, <2>4, <2>6, <2>7, <2>8, <2>9 DEF LedgerOK, L!LedgerState
  <2> QED
    BY <1>3, <2>10 DEF LedgerAfter, m
<1>4. CASE e.kind = "post"
  <2>1. e.author \in Cids /\ e.value \in Nat
    BY <1>4 DEF EconomicSays, ClaimSays, TransferSays
  <2>2. l.balance[e.author] >= e.value
    <3>1. L!PostAccepted(l, e)
      BY <1>4 DEF L!Accepted
    <3> QED
      BY <1>1, <2>1, <3>1 DEF L!PostAccepted
  <2> DEFINE balance == L!Debit(l.balance, e.author, e.value)
  <2>3. m = [l EXCEPT !.balance = balance, !.burned = l.burned + e.value]
    BY <1>4 DEF L!ApplyEvent, L!ApplyPost
  <2>4. balance \in [Cids -> Int] /\ \A c \in Cids : balance[c] >= 0
    BY <1>1, <2>1, <2>2, BalanceChanged
  <2>5. l.burned + e.value \in Int /\ l.burned + e.value >= l.burned
    BY <1>1, <2>1
  <2> HIDE DEF m, balance
  <2>6. m = [claimed |-> l.claimed, balance |-> balance, issued |-> l.issued,
             burned |-> l.burned + e.value, nonce |-> l.nonce]
    BY <1>1, <2>3
  <2>7. l.burned + e.value >= 0
    BY <1>1, <2>5 DEF LedgerOK
  <2>8. LedgerOK(m) /\ m.burned = l.burned + e.value /\ m.claimed = l.claimed
    BY <1>1, <2>4, <2>5, <2>6, <2>7 DEF LedgerOK, L!LedgerState
  <2> QED
    BY <1>4, <2>5, <2>8 DEF LedgerAfter, m
<1> QED
  BY <1>2, <1>3, <1>4 DEF EconomicSays, ClaimSays, TransferSays

-----------------------------------------------------------------------------
(* What a set of posts cost.                                               *)

Cost(evs, S) == MapThenSumSet(LAMBDA id : evs[id].says.value, S)

\* The values as sizes, of which BlockTimelineProofs knows how to sum them up.
Prices(evs) == [x \in EventIds |-> [size |-> evs[x].says.value]]

CostsUp(f, evs, S) ==
  f = [s \in SUBSET S |-> IF s = {} THEN 0
         ELSE evs[CHOOSE x \in s : TRUE].says.value + f[s \ {CHOOSE x \in s : TRUE}]]

LEMMA CostIsSize ==
  ASSUME NEW evs, NEW S, S \subseteq EventIds
  PROVE  Cost(evs, S) = Placing!Size(Prices(evs), S)
<1>1. ASSUME NEW f PROVE CostsUp(f, evs, S) <=> Placing!SumsUp(f, Prices(evs), S)
  <2>1. ASSUME NEW s \in SUBSET S, s # {}
        PROVE  Prices(evs)[CHOOSE x \in s : TRUE].size = evs[CHOOSE x \in s : TRUE].says.value
    <3>1. (CHOOSE x \in s : TRUE) \in EventIds
      BY <2>1
    <3> QED
      BY <3>1 DEF Prices
  <2> QED
    BY <2>1 DEF CostsUp, Placing!SumsUp
<1>2. (CHOOSE f : CostsUp(f, evs, S)) = (CHOOSE f : Placing!SumsUp(f, Prices(evs), S))
  BY <1>1
<1>3. Cost(evs, S) = (CHOOSE f : CostsUp(f, evs, S))[S]
  BY DEF Cost, CostsUp, MapThenSumSet, MapThenFoldSet
<1>4. Placing!Size(Prices(evs), S) = (CHOOSE f : Placing!SumsUp(f, Prices(evs), S))[S]
  BY DEF Placing!Size, Placing!SumsUp, Placing!MapThenSumSet, Placing!MapThenFoldSet
<1> QED
  BY <1>2, <1>3, <1>4

LEMMA CostOfNone == ASSUME NEW evs PROVE Cost(evs, {}) = 0
  BY CostIsSize, Placing!SizeOfNone, PlacingConstants

LEMMA SameFinite == \A S : IsFiniteSet(S) <=> Placing!IsFiniteSet(S)
  BY DEF IsFiniteSet, Placing!IsFiniteSet

LEMMA CostOfOneMore ==
  ASSUME NEW evs, NEW S, S \subseteq EventIds, \A x \in S : evs[x].says.value \in Nat,
         NEW id \in EventIds, id \notin S, evs[id].says.value \in Nat
  PROVE  Cost(evs, S \cup {id}) = Cost(evs, S) + evs[id].says.value
<1>1. IsFiniteSet(S)
  BY FS_Subset, CommunityConstants DEF CommunityConstants
<1>2. \A x \in EventIds : Prices(evs)[x].size = evs[x].says.value
  BY DEF Prices
<1>3. Placing!Size(Prices(evs), S \cup {id}) = Placing!Size(Prices(evs), S) + Prices(evs)[id].size
  BY <1>1, <1>2, SameFinite, Placing!SizeOfOneMore, PlacingConstants
<1> QED
  BY <1>2, <1>3, CostIsSize

-----------------------------------------------------------------------------
(* The first loop.                                                         *)

\* Two stored claims of one block.
Conflict(evs) ==
  \E x, y \in DOMAIN evs :
    /\ x # y /\ evs[x].says.kind = "claim" /\ evs[y].says.kind = "claim"
    /\ evs[x].says.block = evs[y].says.block

ClaimIn(D, evs, b) == \E x \in D : evs[x].says.kind = "claim" /\ evs[x].says.block = b

Posts(D, evs) == {x \in D : IsPost(evs[x].says)}

\* After the events D: the ledger is sound, a block is claimed by one of them, a
\* duplicate is a conflict among them, and what its posts cost was burned.
EconomyOK(E, evs, D) ==
  /\ E = [ledger |-> E.ledger, entries |-> E.entries, invalid |-> E.invalid, duplicate |-> E.duplicate]
  /\ LedgerOK(E.ledger) /\ E.entries \subseteq Cids /\ E.invalid \subseteq D
  /\ \A b \in BlockIndices : E.ledger.claimed[b] # NoCid => ClaimIn(D, evs, b)
  /\ E.duplicate # {} => Conflict(evs)
  /\ \A T \in SUBSET Posts(D \ E.invalid, evs) : Cost(evs, T) <= E.ledger.burned

LEMMA NoEconomyOK == ASSUME NEW evs PROVE EconomyOK(NoEconomy, evs, {})
<1>1. \A T \in SUBSET Posts({}, evs) : T = {}
  BY DEF Posts
<1>2. \A b \in BlockIndices : L!EmptyLedger.claimed[b] = NoCid
  BY DEF L!EmptyLedger
<1> QED
  BY <1>1, <1>2, EmptyLedgerOK, CostOfNone DEF EconomyOK, NoEconomy

LEMMA TouchedType ==
  ASSUME NEW l, NEW e \in EconomicSays PROVE Touched(l, e) \subseteq Cids
  BY DEF Touched, EconomicSays, ClaimSays, TransferSays

\* One event more, accepted.
LEMMA AcceptedCost ==
  ASSUME NEW evs, EventsOK(evs), NEW D, D \subseteq DOMAIN evs, NEW id \in DOMAIN evs \ D,
         NEW I, I \subseteq D, NEW burned \in Int, NEW after \in Int, after >= burned,
         IsPost(evs[id].says) => after = burned + evs[id].says.value,
         \A T \in SUBSET Posts(D \ I, evs) : Cost(evs, T) <= burned,
         \A T \in SUBSET Posts(D \ I, evs) : Cost(evs, T) \in Int,
         NEW T \in SUBSET Posts((D \cup {id}) \ I, evs)
  PROVE  Cost(evs, T) <= after
<1> DEFINE S == T \ {id}
<1>1. S \in SUBSET Posts(D \ I, evs) /\ id \notin S /\ Cost(evs, S) <= burned /\ Cost(evs, S) \in Int
  BY DEF Posts
<1>2. CASE id \notin T
  <2>1. S = T
    BY <1>2
  <2> QED
    BY <1>1, <2>1
<1>3. CASE id \in T
  <2>1. IsPost(evs[id].says) /\ T = S \cup {id}
    BY <1>3 DEF Posts
  <2>2. \A x \in DOMAIN evs : IsPost(evs[x].says) => evs[x].says.value \in Nat
    BY SaysByKind DEF EventsOK, PostSays
  <2>3. S \subseteq EventIds /\ id \in EventIds /\ \A x \in S : evs[x].says.value \in Nat
    BY <1>1, <2>2 DEF Posts, EventsOK
  <2> HIDE DEF S
  <2>4. Cost(evs, S \cup {id}) = Cost(evs, S) + evs[id].says.value
    BY <1>1, <2>1, <2>2, <2>3, CostOfOneMore
  <2> QED
    BY <1>1, <2>1, <2>2, <2>4
<1> QED
  BY <1>2, <1>3

LEMMA CostType ==
  ASSUME NEW evs, EventsOK(evs), NEW T \in SUBSET Posts(DOMAIN evs, evs)
  PROVE  Cost(evs, T) \in Nat
<1>1. T \subseteq EventIds /\ IsFiniteSet(T)
  BY FS_Subset, EventsFinite DEF Posts, EventsOK
<1>2. \A x \in T : Prices(evs)[x].size \in Nat
  BY <1>1, SaysByKind DEF Prices, PostSays, Posts, EventsOK
<1>3. PICK g : Placing!Totals(g, Prices(evs), T)
  BY <1>1, <1>2, SameFinite, Placing!TotalsExist, PlacingConstants
<1>4. Placing!Size(Prices(evs), T) = g[T]
  BY <1>1, <1>3, SameFinite, Placing!SizeIsTotal, PlacingConstants
<1>5. g[T] \in Nat
  BY <1>3 DEF Placing!Totals
<1> QED
  BY <1>1, <1>4, <1>5, CostIsSize

LEMMA EconomyStepOK ==
  ASSUME NEW evs, EventsOK(evs), NEW D, D \subseteq DOMAIN evs, NEW id \in DOMAIN evs \ D,
         NEW E, EconomyOK(E, evs, D), NEW confirmed, confirmed \subseteq BlockIndices
  PROVE  EconomyOK(EconomyStep(E, evs, id, confirmed), evs, D \cup {id})
<1> DEFINE e == Economic(evs[id].says)
           F == EconomyStep(E, evs, id, confirmed)
           l == E.ledger
           m == L!ApplyEvent(l, e, confirmed)
<1>0. /\ E = [ledger |-> l, entries |-> E.entries, invalid |-> E.invalid, duplicate |-> E.duplicate]
      /\ LedgerOK(l) /\ E.entries \subseteq Cids /\ E.invalid \subseteq D
      /\ \A b \in BlockIndices : l.claimed[b] # NoCid => ClaimIn(D, evs, b)
      /\ E.duplicate # {} => Conflict(evs)
      /\ \A T \in SUBSET Posts(D \ E.invalid, evs) : Cost(evs, T) <= l.burned
  BY DEF EconomyOK
<1>5. E = [ledger |-> l, entries |-> E.entries, invalid |-> E.invalid, duplicate |-> E.duplicate]
  BY <1>0
<1>1. \A b \in BlockIndices : ClaimIn(D, evs, b) => ClaimIn(D \cup {id}, evs, b)
  BY DEF ClaimIn
<1>2. l.burned \in Int
  BY <1>0 DEF LedgerOK, L!LedgerState
<1>3. CASE ~ IsEconomic(evs[id].says)
  <2>1. F = E
    BY <1>3 DEF EconomyStep
  <2>2. Posts((D \cup {id}) \ E.invalid, evs) = Posts(D \ E.invalid, evs)
    BY <1>3 DEF Posts, IsEconomic
  <2> QED
    BY <1>0, <1>1, <2>1, <2>2 DEF EconomyOK
<1>4. CASE IsEconomic(evs[id].says)
  <2>1. e \in EconomicSays /\ evs[id].says \in Says
    BY <1>4, EconomicType DEF EventsOK
  <2>2. Touched(l, e) \subseteq Cids
    BY <2>1, TouchedType
  <2>3. e.kind = "claim" => evs[id].says = e
    BY DEF Economic, AsPost
  <2>4. IsPost(evs[id].says) => e.kind = "post" /\ e.value = evs[id].says.value
    BY DEF Economic, AsPost
  <2> HIDE DEF e, F, l
  <2>5. CASE L!Accepted(l, e, confirmed)
    <3> DEFINE entries == E.entries \cup Touched(l, e)
                 \cup (CASE e.kind = "claim" -> {e.author} [] e.kind = "transfer" -> {e.to} [] OTHER -> {})
    <3>1. F = [E EXCEPT !.ledger = m, !.entries = entries]
      BY <1>4, <2>5 DEF EconomyStep, F, e, l
    <3>2. entries \subseteq Cids
      BY <1>0, <2>1, <2>2 DEF EconomicSays, ClaimSays, TransferSays
    <3>3. LedgerAfter(l, m, e)
      BY <1>0, <2>1, <2>5, LedgerStep
    <3> HIDE DEF entries, m
    <3>4. F = [ledger |-> m, entries |-> entries, invalid |-> E.invalid, duplicate |-> E.duplicate]
      BY <1>0, <3>1
    <3>8. /\ F = [ledger |-> F.ledger, entries |-> F.entries, invalid |-> F.invalid, duplicate |-> F.duplicate]
          /\ F.ledger = m /\ F.entries = entries /\ F.invalid = E.invalid /\ F.duplicate = E.duplicate
      BY <3>4
    <3>5. ASSUME NEW b \in BlockIndices, m.claimed[b] # NoCid PROVE ClaimIn(D \cup {id}, evs, b)
      <4>1. CASE m.claimed = l.claimed
        BY <1>0, <1>1, <3>5, <4>1
      <4>2. CASE e.kind = "claim" /\ m.claimed = [l.claimed EXCEPT ![e.block] = e.author]
        <5>1. CASE b = e.block
          BY <2>3, <4>2, <5>1 DEF ClaimIn
        <5>2. CASE b # e.block
          <6>1. l.claimed \in [BlockIndices -> Cids \cup {NoCid}]
            BY <1>0 DEF LedgerOK, L!LedgerState
          <6>2. m.claimed[b] = l.claimed[b]
            BY <4>2, <5>2, <6>1
          <6> QED
            BY <1>0, <1>1, <3>5, <6>2
        <5> QED
          BY <5>1, <5>2
      <4> QED
        BY <3>3, <4>1, <4>2 DEF LedgerAfter
    <3>6. ASSUME NEW T \in SUBSET Posts((D \cup {id}) \ E.invalid, evs) PROVE Cost(evs, T) <= m.burned
      <4>1. m.burned \in Int /\ m.burned >= l.burned
        BY <3>3 DEF LedgerAfter, LedgerOK, L!LedgerState
      <4>2. IsPost(evs[id].says) => m.burned = l.burned + evs[id].says.value
        BY <2>4, <3>3 DEF LedgerAfter
      <4>3. \A U \in SUBSET Posts(D \ E.invalid, evs) : Cost(evs, U) \in Int
        <5>1. \A U \in SUBSET Posts(D \ E.invalid, evs) : U \in SUBSET Posts(DOMAIN evs, evs)
          BY DEF Posts
        <5> QED
          BY <5>1, CostType
      <4> QED
        BY <1>0, <1>2, <4>1, <4>2, <4>3, AcceptedCost
    <3>7. LedgerOK(m) /\ E.invalid \subseteq D \cup {id}
      BY <1>0, <3>3 DEF LedgerAfter
    <3>9. EconomyOK(F, evs, D \cup {id})
      BY <1>0, <3>2, <3>5, <3>6, <3>7, <3>8 DEF EconomyOK
    <3> QED
      BY <3>9 DEF F
  <2>6. CASE ~ L!Accepted(l, e, confirmed)
    <3> DEFINE entries == E.entries \cup Touched(l, e)
               invalid == E.invalid \cup {id}
               duplicate == IF IsDuplicate(l, e, confirmed) THEN E.duplicate \cup {id} ELSE E.duplicate
    <3>1. F = [E EXCEPT !.invalid = invalid, !.entries = entries, !.duplicate = duplicate]
      BY <1>4, <2>6 DEF EconomyStep, F, e, l
    <3>2. entries \subseteq Cids /\ invalid \subseteq D \cup {id}
      BY <1>0, <2>2
    <3>3. duplicate # {} => Conflict(evs)
      <4>1. CASE ~ IsDuplicate(l, e, confirmed)
        BY <1>0, <4>1
      <4>2. CASE IsDuplicate(l, e, confirmed)
        <5>1. e.kind = "claim" /\ e.block \in BlockIndices /\ l.claimed[e.block] # NoCid
          BY <4>2 DEF IsDuplicate
        <5>2. PICK x \in D : evs[x].says.kind = "claim" /\ evs[x].says.block = e.block
          BY <1>0, <5>1 DEF ClaimIn
        <5>3. x # id /\ x \in DOMAIN evs /\ evs[id].says.kind = "claim" /\ evs[id].says.block = e.block
          BY <2>3, <5>1
        <5> QED
          BY <5>2, <5>3 DEF Conflict
      <4> QED
        BY <4>1, <4>2
    <3>4. Posts((D \cup {id}) \ invalid, evs) = Posts(D \ E.invalid, evs)
      BY DEF Posts
    <3> HIDE DEF entries, invalid, duplicate
    <3>5. DOMAIN F = DOMAIN E /\ F = [x \in DOMAIN E |-> F[x]]
      BY <3>1
    <3>6. DOMAIN E = {"ledger", "entries", "invalid", "duplicate"} /\ E.ledger = l
      BY <1>5
    <3>7. /\ F = [ledger |-> F.ledger, entries |-> F.entries, invalid |-> F.invalid, duplicate |-> F.duplicate]
          /\ F.ledger = l /\ F.entries = entries /\ F.invalid = invalid /\ F.duplicate = duplicate
      BY <3>1, <3>5, <3>6
    <3>8. EconomyOK(F, evs, D \cup {id})
      BY <1>0, <1>1, <3>2, <3>3, <3>4, <3>7 DEF EconomyOK
    <3> QED
      BY <3>8 DEF F
  <2> QED
    BY <2>5, <2>6
<1> QED
  BY <1>3, <1>4

-----------------------------------------------------------------------------
(* A loop over the replay order.                                           *)

Done(order, n) == {order[j] : j \in 1..n}

LEMMA DoneGrows ==
  ASSUME NEW S, NEW order, Lists(order, S)
  PROVE  /\ Len(order) \in Nat /\ Done(order, 0) = {} /\ Done(order, Len(order)) = S
         /\ \A n \in Nat : n + 1 <= Len(order) =>
              /\ order[n + 1] \in S \ Done(order, n)
              /\ Done(order, n) \subseteq S
              /\ Done(order, n + 1) = Done(order, n) \cup {order[n + 1]}
<1>1. Len(order) \in Nat /\ \A k \in 1..Len(order) : order[k] \in S
  BY DEF Lists
<1>2. Done(order, 0) = {}
  BY DEF Done
<1>3. Done(order, Len(order)) = S
  BY <1>1 DEF Done, Lists
<1>4. ASSUME NEW n \in Nat, n + 1 <= Len(order)
      PROVE  /\ order[n + 1] \in S \ Done(order, n)
             /\ Done(order, n) \subseteq S
             /\ Done(order, n + 1) = Done(order, n) \cup {order[n + 1]}
  <2>1. 1..(n + 1) = 1..n \cup {n + 1} /\ n + 1 \in 1..Len(order) /\ \A j \in 1..n : j \in 1..Len(order) /\ j # n + 1
    BY <1>1, <1>4
  <2>2. order[n + 1] \notin Done(order, n)
    BY <2>1 DEF Done, Lists
  <2> QED
    BY <1>1, <2>1, <2>2 DEF Done
<1> QED
  BY <1>1, <1>2, <1>3, <1>4

\* The first loop goes from one event to the next.
EconomyRuns(g, evs, bs, order) ==
  /\ g[0] = NoEconomy
  /\ \A n \in Nat : n + 1 <= Len(order) =>
       g[n + 1] = EconomyStep(g[n], evs, order[n + 1], Timeline!Confirmed(bs) \cap BlockIndices)

LEMMA EconomyRun ==
  ASSUME NEW evs, NEW bs, NEW order, Len(order) \in Nat
  PROVE  \E g : EconomyRuns(g, evs, bs, order) /\ Economy(evs, bs, order) = g[Len(order)]
<1> DEFINE Step(E, k) == EconomyStep(E, evs, order[k], Timeline!Confirmed(bs) \cap BlockIndices)
           Upto(g, n) == g = [k \in 0..n |-> IF k = 0 THEN NoEconomy ELSE Step(g[k - 1], k)]
           After == CHOOSE g : Upto(g, Len(order))
           N == {n \in Nat : \E g : Upto(g, n)}
<1>1. Economy(evs, bs, order) = After[Len(order)]
  BY DEF Economy
<1> HIDE DEF Step
<1>2. 0 \in N
  <2>1. Upto([k \in 0..0 |-> NoEconomy], 0)
    OBVIOUS
  <2> QED
    BY <2>1
<1>3. ASSUME NEW n \in Nat, n \in N PROVE n + 1 \in N
  <2>1. PICK g : Upto(g, n)
    BY <1>3
  <2> DEFINE h == [k \in 0..(n + 1) |-> IF k = n + 1 THEN Step(g[n], n + 1) ELSE g[k]]
  <2>2. g[0] = NoEconomy /\ \A k \in 1..n : g[k] = Step(g[k - 1], k)
    BY <2>1
  <2>3. (\A k \in 0..n : h[k] = g[k]) /\ h[n + 1] = Step(g[n], n + 1) /\ h = [k \in 0..(n + 1) |-> h[k]]
    OBVIOUS
  <2> HIDE DEF h
  <2>4. ASSUME NEW k \in 0..(n + 1)
        PROVE  h[k] = IF k = 0 THEN NoEconomy ELSE Step(h[k - 1], k)
    <3>1. CASE k \in 1..n
      <4>1. k - 1 \in 0..n /\ k \in 0..n /\ k # 0
        BY <3>1
      <4>2. g[k] = Step(g[k - 1], k)
        BY <3>1, <2>2
      <4>3. h[k] = g[k] /\ h[k - 1] = g[k - 1]
        BY <2>3, <4>1
      <4> QED
        BY <4>1, <4>2, <4>3
    <3>2. CASE k = n + 1
      <4>1. k - 1 = n /\ n \in 0..n /\ k # 0
        BY <3>2
      <4> QED
        BY <3>2, <2>3, <4>1
    <3>3. CASE k = 0
      <4>1. 0 \in 0..n
        OBVIOUS
      <4>2. h[0] = g[0]
        BY <2>3, <4>1
      <4> QED
        BY <2>2, <3>3, <4>2
    <3> QED
      BY <3>1, <3>2, <3>3
  <2>5. h = [k \in 0..(n + 1) |-> IF k = 0 THEN NoEconomy ELSE Step(h[k - 1], k)]
    BY <2>3, <2>4
  <2> QED
    BY <2>5
<1>4. Nat \subseteq N
  <2> HIDE DEF N
  <2> QED
    BY <1>2, <1>3, Placing!NatSetInduction, PlacingConstants
<1>5. Upto(After, Len(order))
  BY <1>4
<1> HIDE DEF After
<1>6. /\ After[0] = NoEconomy
      /\ \A n \in Nat : n + 1 <= Len(order) => After[n + 1] = Step(After[n], n + 1)
  BY <1>5
<1> QED
  BY <1>1, <1>6 DEF Step, EconomyRuns

LEMMA EconomyResult ==
  ASSUME NEW evs, EventsOK(evs), NEW bs, NEW order, Lists(order, DOMAIN evs)
  PROVE  EconomyOK(Economy(evs, bs, order), evs, DOMAIN evs)
<1>1. PICK g : EconomyRuns(g, evs, bs, order) /\ Economy(evs, bs, order) = g[Len(order)]
  BY DoneGrows, EconomyRun
<1> DEFINE N == {n \in Nat : n <= Len(order) => EconomyOK(g[n], evs, Done(order, n))}
<1>2. 0 \in N
  <2>1. g[0] = NoEconomy /\ Done(order, 0) = {}
    BY <1>1, DoneGrows DEF EconomyRuns
  <2>2. EconomyOK(g[0], evs, Done(order, 0))
    BY <2>1, NoEconomyOK
  <2> QED
    BY <2>2
<1>3. ASSUME NEW n \in Nat, n \in N PROVE n + 1 \in N
  <2> SUFFICES ASSUME n + 1 <= Len(order) PROVE EconomyOK(g[n + 1], evs, Done(order, n + 1))
    OBVIOUS
  <2>1. Len(order) \in Nat
    BY DoneGrows
  <2>2. EconomyOK(g[n], evs, Done(order, n))
    BY <1>3, <2>1
  <2>3. /\ order[n + 1] \in DOMAIN evs \ Done(order, n) /\ Done(order, n) \subseteq DOMAIN evs
        /\ Done(order, n + 1) = Done(order, n) \cup {order[n + 1]}
    BY DoneGrows
  <2>4. g[n + 1] = EconomyStep(g[n], evs, order[n + 1], Timeline!Confirmed(bs) \cap BlockIndices)
    BY <1>1 DEF EconomyRuns
  <2> QED
    BY <2>2, <2>3, <2>4, EconomyStepOK
<1>4. Nat \subseteq N
  <2> HIDE DEF N
  <2> QED
    BY <1>2, <1>3, Placing!NatSetInduction, PlacingConstants
<1> QED
  BY <1>1, <1>4, DoneGrows

-----------------------------------------------------------------------------
(* The second loop: the posts that the first one accepted, by what they are. *)

OfKind(A, evs, kind) == {x \in A : evs[x].says.kind = kind}

\* Of a kind and about an object.
Given(A, evs, kind, o) == {x \in A : evs[x].says.kind = kind /\ evs[x].says.parent = o}

PostsOK(P, evs, A) ==
  /\ P = [recipes |-> P.recipes, core |-> P.core, threads |-> P.threads, replies |-> P.replies,
          ratings |-> P.ratings, reviews |-> P.reviews, thumbs |-> P.thumbs]
  /\ P.recipes = OfKind(A, evs, "RecipeCreated")
  /\ P.threads = {<<x, evs[x].says.parent>> : x \in OfKind(A, evs, "ThreadCreated")}
  /\ P.replies = {<<x, evs[x].says.parent>> :
                    x \in {y \in OfKind(A, evs, "ReplyCreated") : evs[y].says.parent # NoObject}}
  /\ P.reviews = [o \in EventIds |-> Cardinality(Given(A, evs, "ReviewAdded", o))]
  /\ P.thumbs = [o \in EventIds |-> Cardinality(Given(A, evs, "ThumbsUpAdded", o))]

LEMMA NoPostsOK == ASSUME NEW evs PROVE PostsOK(C!NoPosts, evs, {})
<1>1. \A kind : OfKind({}, evs, kind) = {}
  BY DEF OfKind
<1>2. \A kind, o : Given({}, evs, kind, o) = {}
  BY DEF Given
<1>3. Cardinality({}) = 0
  BY FS_EmptySet
<1> QED
  BY <1>1, <1>2, <1>3 DEF PostsOK, C!NoPosts

\* One more of a kind adds one to the total of what it is about.
LEMMA OneMoreGiven ==
  ASSUME NEW evs, NEW A, IsFiniteSet(A), NEW id, id \notin A, NEW kind, evs[id].says.kind = kind,
         NEW totals, totals = [o \in EventIds |-> Cardinality(Given(A, evs, kind, o))],
         evs[id].says.parent \in EventIds
  PROVE  C!AddTo(totals, evs[id].says.parent, 1) =
           [o \in EventIds |-> Cardinality(Given(A \cup {id}, evs, kind, o))]
<1> DEFINE p == evs[id].says.parent
<1>1. ASSUME NEW o \in EventIds
      PROVE  C!AddTo(totals, p, 1)[o] = Cardinality(Given(A \cup {id}, evs, kind, o))
  <2>1. IsFiniteSet(Given(A, evs, kind, o)) /\ id \notin Given(A, evs, kind, o)
    BY FS_Subset DEF Given
  <2>2. CASE o = p
    <3>1. Given(A \cup {id}, evs, kind, o) = Given(A, evs, kind, o) \cup {id}
      BY <2>2 DEF Given
    <3>2. Cardinality(Given(A, evs, kind, o) \cup {id}) = Cardinality(Given(A, evs, kind, o)) + 1
      BY <2>1, FS_AddElement
    <3> QED
      BY <2>2, <3>1, <3>2 DEF C!AddTo
  <2>3. CASE o # p
    <3>1. Given(A \cup {id}, evs, kind, o) = Given(A, evs, kind, o)
      BY <2>3 DEF Given
    <3> QED
      BY <2>3, <3>1 DEF C!AddTo
  <2> QED
    BY <2>2, <2>3
<1>2. C!AddTo(totals, p, 1) = [o \in EventIds |-> C!AddTo(totals, p, 1)[o]]
  BY DEF C!AddTo
<1> QED
  BY <1>1, <1>2

\* What one more event is not leaves the rest as it was.
LEMMA OneMoreOther ==
  ASSUME NEW evs, NEW A, NEW id, NEW kind, evs[id].says.kind # kind
  PROVE  /\ OfKind(A \cup {id}, evs, kind) = OfKind(A, evs, kind)
         /\ \A o : Given(A \cup {id}, evs, kind, o) = Given(A, evs, kind, o)
  BY DEF OfKind, Given


LEMMA OneMorePlain ==
  ASSUME NEW evs, NEW A, NEW id, ~ IsPost(evs[id].says), NEW P, PostsOK(P, evs, A)
  PROVE  PostsOK(P, evs, A \cup {id})
<1>1. \A kind \in C!PostKinds : evs[id].says.kind # kind
  BY DEF IsPost
<1>2. \A kind \in C!PostKinds : /\ OfKind(A \cup {id}, evs, kind) = OfKind(A, evs, kind)
                                /\ \A o : Given(A \cup {id}, evs, kind, o) = Given(A, evs, kind, o)
  BY <1>1, OneMoreOther
<1>3. /\ OfKind(A \cup {id}, evs, "RecipeCreated") = OfKind(A, evs, "RecipeCreated")
      /\ OfKind(A \cup {id}, evs, "ThreadCreated") = OfKind(A, evs, "ThreadCreated")
      /\ OfKind(A \cup {id}, evs, "ReplyCreated") = OfKind(A, evs, "ReplyCreated")
      /\ \A o : Given(A \cup {id}, evs, "ReviewAdded", o) = Given(A, evs, "ReviewAdded", o)
      /\ \A o : Given(A \cup {id}, evs, "ThumbsUpAdded", o) = Given(A, evs, "ThumbsUpAdded", o)
  BY <1>2 DEF C!PostKinds
<1> QED
  BY <1>3 DEF PostsOK

LEMMA AddPostOK ==
  ASSUME NEW evs, EventsOK(evs), NEW A, A \subseteq DOMAIN evs, NEW id \in DOMAIN evs \ A,
         IsPost(evs[id].says), NEW P, PostsOK(P, evs, A)
  PROVE  PostsOK(C!AddPost(P, id, evs[id].says), evs, A \cup {id})
<1> DEFINE e == evs[id].says
           F == C!AddPost(P, id, e)
           B == A \cup {id}
<1>1. /\ P = [recipes |-> P.recipes, core |-> P.core, threads |-> P.threads, replies |-> P.replies,
              ratings |-> P.ratings, reviews |-> P.reviews, thumbs |-> P.thumbs]
      /\ P.recipes = OfKind(A, evs, "RecipeCreated")
      /\ P.threads = {<<x, evs[x].says.parent>> : x \in OfKind(A, evs, "ThreadCreated")}
      /\ P.replies = {<<x, evs[x].says.parent>> :
                        x \in {y \in OfKind(A, evs, "ReplyCreated") : evs[y].says.parent # NoObject}}
      /\ P.reviews = [o \in EventIds |-> Cardinality(Given(A, evs, "ReviewAdded", o))]
      /\ P.thumbs = [o \in EventIds |-> Cardinality(Given(A, evs, "ThumbsUpAdded", o))]
  BY DEF PostsOK
<1>2. e.kind \in C!PostKinds /\ e.parent \in EventIds \cup {NoObject} /\ NoObject \notin EventIds
  BY SaysByKind, CommunityConstants DEF EventsOK, PostSays, CommunityConstants
<1>3. IsFiniteSet(A) /\ id \notin A
  BY EventsFinite, FS_Subset
<1>4. \A kind : e.kind # kind => /\ OfKind(B, evs, kind) = OfKind(A, evs, kind)
                                 /\ \A o : Given(B, evs, kind, o) = Given(A, evs, kind, o)
  BY OneMoreOther
<1>5. \A kind : e.kind = kind => OfKind(B, evs, kind) = OfKind(A, evs, kind) \cup {id}
  BY DEF OfKind
<1>6. ASSUME NEW kind, e.kind = kind, e.parent = NoObject, NEW o \in EventIds
      PROVE  Given(B, evs, kind, o) = Given(A, evs, kind, o)
  BY <1>2, <1>6 DEF Given
<1>7. DOMAIN P = {"recipes", "core", "threads", "replies", "ratings", "reviews", "thumbs"}
  BY <1>1
<1> HIDE DEF F, B
<1>8. CASE e.kind = "RecipeCreated"
  <2> DEFINE recipes == P.recipes \cup {id}
             core == IF e.core THEN P.core \cup {id} ELSE P.core
  <2>1. F = [P EXCEPT !.recipes = recipes, !.core = core]
    BY <1>8 DEF F, C!AddPost
  <2> HIDE DEF recipes, core
  <2>2. F = [recipes |-> recipes, core |-> core, threads |-> P.threads, replies |-> P.replies,
             ratings |-> P.ratings, reviews |-> P.reviews, thumbs |-> P.thumbs]
    BY <1>1, <2>1
  <2>3. recipes = OfKind(B, evs, "RecipeCreated")
    BY <1>1, <1>5, <1>8 DEF recipes
  <2>4. /\ OfKind(B, evs, "ThreadCreated") = OfKind(A, evs, "ThreadCreated")
        /\ OfKind(B, evs, "ReplyCreated") = OfKind(A, evs, "ReplyCreated")
        /\ \A o : Given(B, evs, "ReviewAdded", o) = Given(A, evs, "ReviewAdded", o)
        /\ \A o : Given(B, evs, "ThumbsUpAdded", o) = Given(A, evs, "ThumbsUpAdded", o)
    BY <1>4, <1>8
  <2>5. /\ F = [recipes |-> F.recipes, core |-> F.core, threads |-> F.threads, replies |-> F.replies,
                ratings |-> F.ratings, reviews |-> F.reviews, thumbs |-> F.thumbs]
        /\ F.recipes = recipes /\ F.threads = P.threads /\ F.replies = P.replies /\ F.reviews = P.reviews /\ F.thumbs = P.thumbs
    BY <2>2
  <2>6. PostsOK(F, evs, B)
    BY <1>1, <2>3, <2>4, <2>5 DEF PostsOK
  <2> QED
    BY <2>6 DEF F, B
<1>9. CASE e.kind = "ThreadCreated"
  <2> DEFINE threads == P.threads \cup {<<id, e.parent>>}
  <2>1. F = [P EXCEPT !.threads = threads]
    BY <1>9 DEF F, C!AddPost
  <2>2. threads = {<<x, evs[x].says.parent>> : x \in OfKind(B, evs, "ThreadCreated")}
    <3>1. OfKind(B, evs, "ThreadCreated") = OfKind(A, evs, "ThreadCreated") \cup {id}
      BY <1>5, <1>9
    <3> QED
      BY <1>1, <3>1
  <2> HIDE DEF threads
  <2>3. F = [recipes |-> P.recipes, core |-> P.core, threads |-> threads, replies |-> P.replies,
             ratings |-> P.ratings, reviews |-> P.reviews, thumbs |-> P.thumbs]
    BY <1>1, <2>1
  <2>4. /\ OfKind(B, evs, "RecipeCreated") = OfKind(A, evs, "RecipeCreated")
        /\ OfKind(B, evs, "ReplyCreated") = OfKind(A, evs, "ReplyCreated")
        /\ \A o : Given(B, evs, "ReviewAdded", o) = Given(A, evs, "ReviewAdded", o)
        /\ \A o : Given(B, evs, "ThumbsUpAdded", o) = Given(A, evs, "ThumbsUpAdded", o)
    BY <1>4, <1>9
  <2>5. /\ F = [recipes |-> F.recipes, core |-> F.core, threads |-> F.threads, replies |-> F.replies,
                ratings |-> F.ratings, reviews |-> F.reviews, thumbs |-> F.thumbs]
        /\ F.recipes = P.recipes /\ F.threads = threads /\ F.replies = P.replies /\ F.reviews = P.reviews /\ F.thumbs = P.thumbs
    BY <2>3
  <2>6. PostsOK(F, evs, B)
    BY <1>1, <2>2, <2>4, <2>5 DEF PostsOK
  <2> QED
    BY <2>6 DEF F, B
<1>10. CASE e.kind = "ReplyCreated"
  <2> DEFINE replies == IF e.parent = NoObject THEN P.replies ELSE P.replies \cup {<<id, e.parent>>}
  <2>1. F = [P EXCEPT !.replies = replies]
    BY <1>1, <1>10 DEF F, C!AddPost
  <2>2. replies = {<<x, evs[x].says.parent>> :
                     x \in {y \in OfKind(B, evs, "ReplyCreated") : evs[y].says.parent # NoObject}}
    <3>1. OfKind(B, evs, "ReplyCreated") = OfKind(A, evs, "ReplyCreated") \cup {id}
      BY <1>5, <1>10
    <3> QED
      BY <1>1, <3>1
  <2> HIDE DEF replies
  <2>3. F = [recipes |-> P.recipes, core |-> P.core, threads |-> P.threads, replies |-> replies,
             ratings |-> P.ratings, reviews |-> P.reviews, thumbs |-> P.thumbs]
    BY <1>1, <2>1
  <2>4. /\ OfKind(B, evs, "RecipeCreated") = OfKind(A, evs, "RecipeCreated")
        /\ OfKind(B, evs, "ThreadCreated") = OfKind(A, evs, "ThreadCreated")
        /\ \A o : Given(B, evs, "ReviewAdded", o) = Given(A, evs, "ReviewAdded", o)
        /\ \A o : Given(B, evs, "ThumbsUpAdded", o) = Given(A, evs, "ThumbsUpAdded", o)
    BY <1>4, <1>10
  <2>5. /\ F = [recipes |-> F.recipes, core |-> F.core, threads |-> F.threads, replies |-> F.replies,
                ratings |-> F.ratings, reviews |-> F.reviews, thumbs |-> F.thumbs]
        /\ F.recipes = P.recipes /\ F.threads = P.threads /\ F.replies = replies /\ F.reviews = P.reviews /\ F.thumbs = P.thumbs
    BY <2>3
  <2>6. PostsOK(F, evs, B)
    BY <1>1, <2>2, <2>4, <2>5 DEF PostsOK
  <2> QED
    BY <2>6 DEF F, B
<1>11. CASE e.kind = "ReviewAdded"
  <2> DEFINE ratings == IF e.parent = NoObject THEN P.ratings ELSE C!AddTo(P.ratings, e.parent, e.rating)
             reviews == IF e.parent = NoObject THEN P.reviews ELSE C!AddTo(P.reviews, e.parent, 1)
  <2>1. F = [P EXCEPT !.ratings = ratings, !.reviews = reviews]
    BY <1>1, <1>11 DEF F, C!AddPost, C!AddReview
  <2>2. reviews = [o \in EventIds |-> Cardinality(Given(B, evs, "ReviewAdded", o))]
    <3>1. CASE e.parent = NoObject
      BY <1>1, <1>6, <1>11, <3>1
    <3>2. CASE e.parent # NoObject
      BY <1>1, <1>2, <1>3, <1>11, <3>2, OneMoreGiven DEF B
    <3> QED
      BY <3>1, <3>2
  <2> HIDE DEF ratings, reviews
  <2>3. F = [recipes |-> P.recipes, core |-> P.core, threads |-> P.threads, replies |-> P.replies,
             ratings |-> ratings, reviews |-> reviews, thumbs |-> P.thumbs]
    BY <1>1, <2>1
  <2>4. /\ OfKind(B, evs, "RecipeCreated") = OfKind(A, evs, "RecipeCreated")
        /\ OfKind(B, evs, "ThreadCreated") = OfKind(A, evs, "ThreadCreated")
        /\ OfKind(B, evs, "ReplyCreated") = OfKind(A, evs, "ReplyCreated")
        /\ \A o : Given(B, evs, "ThumbsUpAdded", o) = Given(A, evs, "ThumbsUpAdded", o)
    BY <1>4, <1>11
  <2>5. /\ F = [recipes |-> F.recipes, core |-> F.core, threads |-> F.threads, replies |-> F.replies,
                ratings |-> F.ratings, reviews |-> F.reviews, thumbs |-> F.thumbs]
        /\ F.recipes = P.recipes /\ F.threads = P.threads /\ F.replies = P.replies /\ F.reviews = reviews /\ F.thumbs = P.thumbs
    BY <2>3
  <2>6. PostsOK(F, evs, B)
    BY <1>1, <2>2, <2>4, <2>5 DEF PostsOK
  <2> QED
    BY <2>6 DEF F, B
<1>12. CASE e.kind = "ThumbsUpAdded"
  <2> DEFINE thumbs == IF e.parent = NoObject THEN P.thumbs ELSE C!AddTo(P.thumbs, e.parent, 1)
  <2>1. F = [P EXCEPT !.thumbs = thumbs]
    BY <1>1, <1>12 DEF F, C!AddPost
  <2>2. thumbs = [o \in EventIds |-> Cardinality(Given(B, evs, "ThumbsUpAdded", o))]
    <3>1. CASE e.parent = NoObject
      BY <1>1, <1>6, <1>12, <3>1
    <3>2. CASE e.parent # NoObject
      <4>1. e.parent \in EventIds /\ thumbs = C!AddTo(P.thumbs, e.parent, 1)
        BY <1>2, <3>2
      <4>2. C!AddTo(P.thumbs, e.parent, 1) =
              [o \in EventIds |-> Cardinality(Given(A \cup {id}, evs, "ThumbsUpAdded", o))]
        <5>1. P.thumbs = [o \in EventIds |-> Cardinality(Given(A, evs, "ThumbsUpAdded", o))]
          BY <1>1
        <5>2. evs[id].says.kind = "ThumbsUpAdded" /\ evs[id].says.parent \in EventIds
          BY <1>12, <4>1
        <5> HIDE DEF e
        <5>3. C!AddTo(P.thumbs, evs[id].says.parent, 1) =
                [o \in EventIds |-> Cardinality(Given(A \cup {id}, evs, "ThumbsUpAdded", o))]
          BY <1>3, <5>1, <5>2, OneMoreGiven
        <5> QED
          BY <5>3 DEF e
      <4> QED
        BY <4>1, <4>2 DEF B
    <3> QED
      BY <3>1, <3>2
  <2> HIDE DEF thumbs
  <2>3. F = [recipes |-> P.recipes, core |-> P.core, threads |-> P.threads, replies |-> P.replies,
             ratings |-> P.ratings, reviews |-> P.reviews, thumbs |-> thumbs]
    BY <1>1, <2>1
  <2>4. /\ OfKind(B, evs, "RecipeCreated") = OfKind(A, evs, "RecipeCreated")
        /\ OfKind(B, evs, "ThreadCreated") = OfKind(A, evs, "ThreadCreated")
        /\ OfKind(B, evs, "ReplyCreated") = OfKind(A, evs, "ReplyCreated")
        /\ \A o : Given(B, evs, "ReviewAdded", o) = Given(A, evs, "ReviewAdded", o)
    BY <1>4, <1>12
  <2>5. /\ F = [recipes |-> F.recipes, core |-> F.core, threads |-> F.threads, replies |-> F.replies,
                ratings |-> F.ratings, reviews |-> F.reviews, thumbs |-> F.thumbs]
        /\ F.recipes = P.recipes /\ F.threads = P.threads /\ F.replies = P.replies /\ F.reviews = P.reviews /\ F.thumbs = thumbs
    BY <2>3
  <2>6. PostsOK(F, evs, B)
    BY <1>1, <2>2, <2>4, <2>5 DEF PostsOK
  <2> QED
    BY <2>6 DEF F, B
<1> QED
  BY <1>2, <1>8, <1>9, <1>10, <1>11, <1>12 DEF C!PostKinds

\* After the events D, of which those in invalid were passed over.
ForumOK(F, evs, invalid, D) ==
  /\ F = [moderation |-> F.moderation, rejected |-> F.rejected, posts |-> F.posts]
  /\ F.rejected \subseteq D
  /\ PostsOK(F.posts, evs, D \ invalid)

LEMMA ForumStepOK ==
  ASSUME NEW evs, EventsOK(evs), NEW bs, NEW invalid, NEW D, D \subseteq DOMAIN evs,
         NEW id \in DOMAIN evs \ D, NEW F, ForumOK(F, evs, invalid, D)
  PROVE  ForumOK(ForumStep(F, evs, bs, id, invalid), evs, invalid, D \cup {id})
<1> DEFINE e == evs[id].says
           G == ForumStep(F, evs, bs, id, invalid)
<1>1. /\ F = [moderation |-> F.moderation, rejected |-> F.rejected, posts |-> F.posts]
      /\ F.rejected \subseteq D /\ PostsOK(F.posts, evs, D \ invalid)
  BY DEF ForumOK
<1>2. (D \cup {id}) \ invalid = IF id \in invalid THEN D \ invalid ELSE (D \ invalid) \cup {id}
  OBVIOUS
<1>3. ASSUME ~ IsPost(e) PROVE PostsOK(F.posts, evs, (D \cup {id}) \ invalid)
  <2>1. PostsOK(F.posts, evs, (D \ invalid) \cup {id})
    BY <1>1, <1>3, OneMorePlain
  <2> QED
    BY <1>1, <1>2, <2>1
<1>4. CASE IsModeration(e)
  <2> DEFINE moderation == M!ApplyModeration(F.moderation, e, Confirmations(bs, id))
             rejected == IF IsRejected(F.moderation, e, Confirmations(bs, id))
                         THEN F.rejected \cup {id} ELSE F.rejected
  <2>1. G = [F EXCEPT !.moderation = moderation, !.rejected = rejected]
    BY <1>4 DEF ForumStep
  <2>2. rejected \subseteq D \cup {id}
    BY <1>1
  <2>3. ~ IsPost(e)
    BY <1>4 DEF IsModeration, IsPost, C!PostKinds, M!RoleKinds, M!VisibilityKinds, M!PinKinds
  <2> HIDE DEF moderation, rejected, G
  <2>4. G = [moderation |-> moderation, rejected |-> rejected, posts |-> F.posts]
    BY <1>1, <2>1
  <2>5. /\ G = [moderation |-> G.moderation, rejected |-> G.rejected, posts |-> G.posts]
        /\ G.rejected = rejected /\ G.posts = F.posts
    BY <2>4
  <2>6. ForumOK(G, evs, invalid, D \cup {id})
    BY <1>3, <2>2, <2>3, <2>5 DEF ForumOK
  <2> QED
    BY <2>6 DEF G
<1>5. CASE ~ IsModeration(e) /\ IsPost(e) /\ id \notin invalid
  <2>1. G = [F EXCEPT !.posts = C!AddPost(F.posts, id, e)]
    BY <1>5 DEF ForumStep, Skipped
  <2>2. PostsOK(C!AddPost(F.posts, id, e), evs, (D \ invalid) \cup {id})
    BY <1>1, <1>5, AddPostOK
  <2> HIDE DEF G, e
  <2>3. /\ G = [moderation |-> G.moderation, rejected |-> G.rejected, posts |-> G.posts]
        /\ G.rejected = F.rejected /\ G.posts = C!AddPost(F.posts, id, e)
    BY <1>1, <2>1
  <2>4. ForumOK(G, evs, invalid, D \cup {id})
    BY <1>1, <1>2, <1>5, <2>2, <2>3 DEF ForumOK
  <2> QED
    BY <2>4 DEF G
<1>6. CASE ~ IsModeration(e) /\ ~ (IsPost(e) /\ id \notin invalid)
  <2>1. G = F
    BY <1>6 DEF ForumStep, Skipped
  <2>2. PostsOK(F.posts, evs, (D \cup {id}) \ invalid)
    BY <1>1, <1>2, <1>3, <1>6
  <2> QED
    BY <1>1, <2>1, <2>2 DEF ForumOK
<1> QED
  BY <1>4, <1>5, <1>6

\* The second loop goes from one event to the next.
ForumRuns(g, evs, bs, order, invalid, policy) ==
  /\ g[0] = NoForum(policy)
  /\ \A n \in Nat : n + 1 <= Len(order) => g[n + 1] = ForumStep(g[n], evs, bs, order[n + 1], invalid)

LEMMA ForumRun ==
  ASSUME NEW evs, NEW bs, NEW order, Len(order) \in Nat, NEW invalid, NEW policy
  PROVE  \E g : /\ ForumRuns(g, evs, bs, order, invalid, policy)
                /\ Forum(evs, bs, order, invalid, policy) = g[Len(order)]
<1> DEFINE Empty == NoForum(policy)
           Step(F, k) == ForumStep(F, evs, bs, order[k], invalid)
           Upto(g, n) == g = [k \in 0..n |-> IF k = 0 THEN Empty ELSE Step(g[k - 1], k)]
           After == CHOOSE g : Upto(g, Len(order))
           N == {n \in Nat : \E g : Upto(g, n)}
<1>1. Forum(evs, bs, order, invalid, policy) = After[Len(order)]
  BY DEF Forum
<1> HIDE DEF Step, Empty
<1>2. 0 \in N
  <2>1. Upto([k \in 0..0 |-> Empty], 0)
    OBVIOUS
  <2> QED
    BY <2>1
<1>3. ASSUME NEW n \in Nat, n \in N PROVE n + 1 \in N
  <2>1. PICK g : Upto(g, n)
    BY <1>3
  <2> DEFINE h == [k \in 0..(n + 1) |-> IF k = n + 1 THEN Step(g[n], n + 1) ELSE g[k]]
  <2>2. g[0] = Empty /\ \A k \in 1..n : g[k] = Step(g[k - 1], k)
    BY <2>1
  <2>3. (\A k \in 0..n : h[k] = g[k]) /\ h[n + 1] = Step(g[n], n + 1) /\ h = [k \in 0..(n + 1) |-> h[k]]
    OBVIOUS
  <2> HIDE DEF h
  <2>4. ASSUME NEW k \in 0..(n + 1)
        PROVE  h[k] = IF k = 0 THEN Empty ELSE Step(h[k - 1], k)
    <3>1. CASE k \in 1..n
      <4>1. k - 1 \in 0..n /\ k \in 0..n /\ k # 0
        BY <3>1
      <4>2. g[k] = Step(g[k - 1], k)
        BY <3>1, <2>2
      <4>3. h[k] = g[k] /\ h[k - 1] = g[k - 1]
        BY <2>3, <4>1
      <4> QED
        BY <4>1, <4>2, <4>3
    <3>2. CASE k = n + 1
      <4>1. k - 1 = n /\ n \in 0..n /\ k # 0
        BY <3>2
      <4> QED
        BY <3>2, <2>3, <4>1
    <3>3. CASE k = 0
      <4>1. 0 \in 0..n
        OBVIOUS
      <4>2. h[0] = g[0]
        BY <2>3, <4>1
      <4> QED
        BY <2>2, <3>3, <4>2
    <3> QED
      BY <3>1, <3>2, <3>3
  <2>5. h = [k \in 0..(n + 1) |-> IF k = 0 THEN Empty ELSE Step(h[k - 1], k)]
    BY <2>3, <2>4
  <2> QED
    BY <2>5
<1>4. Nat \subseteq N
  <2> HIDE DEF N
  <2> QED
    BY <1>2, <1>3, Placing!NatSetInduction, PlacingConstants
<1>5. Upto(After, Len(order))
  BY <1>4
<1> HIDE DEF After
<1>6. /\ After[0] = Empty
      /\ \A n \in Nat : n + 1 <= Len(order) => After[n + 1] = Step(After[n], n + 1)
  BY <1>5
<1> QED
  BY <1>1, <1>6 DEF Step, Empty, ForumRuns

LEMMA ForumResult ==
  ASSUME NEW evs, EventsOK(evs), NEW bs, NEW order, Lists(order, DOMAIN evs), NEW invalid, NEW policy
  PROVE  ForumOK(Forum(evs, bs, order, invalid, policy), evs, invalid, DOMAIN evs)
<1>1. PICK g : /\ ForumRuns(g, evs, bs, order, invalid, policy)
               /\ Forum(evs, bs, order, invalid, policy) = g[Len(order)]
  BY DoneGrows, ForumRun
<1> DEFINE N == {n \in Nat : n <= Len(order) => ForumOK(g[n], evs, invalid, Done(order, n))}
<1>2. 0 \in N
  <2>1. g[0] = NoForum(policy) /\ Done(order, 0) = {}
    BY <1>1, DoneGrows DEF ForumRuns
  <2>2. PostsOK(C!NoPosts, evs, {} \ invalid)
    <3>1. {} \ invalid = {}
      OBVIOUS
    <3> QED
      BY <3>1, NoPostsOK
  <2>3. ForumOK(g[0], evs, invalid, Done(order, 0))
    BY <2>1, <2>2 DEF NoForum, ForumOK
  <2> QED
    BY <2>3
<1>3. ASSUME NEW n \in Nat, n \in N PROVE n + 1 \in N
  <2> SUFFICES ASSUME n + 1 <= Len(order) PROVE ForumOK(g[n + 1], evs, invalid, Done(order, n + 1))
    OBVIOUS
  <2>1. Len(order) \in Nat
    BY DoneGrows
  <2>2. ForumOK(g[n], evs, invalid, Done(order, n))
    BY <1>3, <2>1
  <2>3. /\ order[n + 1] \in DOMAIN evs \ Done(order, n) /\ Done(order, n) \subseteq DOMAIN evs
        /\ Done(order, n + 1) = Done(order, n) \cup {order[n + 1]}
    BY DoneGrows
  <2>4. g[n + 1] = ForumStep(g[n], evs, bs, order[n + 1], invalid)
    BY <1>1 DEF ForumRuns
  <2> QED
    BY <2>2, <2>3, <2>4, ForumStepOK
<1>4. Nat \subseteq N
  <2> HIDE DEF N
  <2> QED
    BY <1>2, <1>3, Placing!NatSetInduction, PlacingConstants
<1> QED
  BY <1>1, <1>4, DoneGrows

-----------------------------------------------------------------------------
(* What is served of the posts A.                                          *)

\* Served posts are posts of A and hang together, and the totals are those of A.
BoardOK(B, evs, A) ==
  /\ C!ServedPosts(B) \subseteq Posts(A, evs)
  /\ \A r \in B.replies : r[2] \in OfKind(A, evs, "ThreadCreated") => r[2] \in DOMAIN B.threads
  /\ \A t \in DOMAIN B.threads :
       /\ B.threads[t].recipe \in OfKind(A, evs, "RecipeCreated") => B.threads[t].recipe \in DOMAIN B.recipes
       /\ B.threads[t].reply_count = Cardinality(C!QueryReplies(B, t))
  /\ \A x \in DOMAIN B.recipes :
       /\ B.recipes[x].reviews = Cardinality(Given(A, evs, "ReviewAdded", x))
       /\ B.recipes[x].thumbs = Cardinality(Given(A, evs, "ThumbsUpAdded", x))

\* The replies of a thread are as many as their ids.
LEMMA RepliesCounted ==
  ASSUME NEW S, IsFiniteSet(S), NEW replies, \A r \in replies : r = <<r[1], r[2]>> /\ r[1] \in S, NEW t
  PROVE  C!ReplyCount(replies, t) = Cardinality({r[1] : r \in C!RepliesOf(replies, t)})
<1> DEFINE R == C!RepliesOf(replies, t)
           T == {r[1] : r \in R}
           f == [x \in T |-> <<x, t>>]
<1>1. \A r \in R : r = <<r[1], t>> /\ r[1] \in T /\ r[1] \in S
  BY DEF C!RepliesOf
<1>2. \A x \in T : x \in S /\ <<x, t>> \in R
  BY <1>1
<1>3. IsFiniteSet(T)
  BY <1>2, FS_Subset
<1> HIDE DEF R, T
<1>4. f \in Bijection(T, R)
  <2>1. f \in [T -> R]
    BY <1>2
  <2>2. \A x, y \in T : f[x] = f[y] => x = y
    OBVIOUS
  <2>3. \A r \in R : \E x \in T : f[x] = r
    BY <1>1
  <2> QED
    BY <2>1, <2>2, <2>3 DEF Bijection, Injection, Surjection, IsInjective
<1>5. Cardinality(R) = Cardinality(T)
  BY <1>3, <1>4, FS_Bijection DEF ExistsBijection
<1> QED
  BY <1>5 DEF C!ReplyCount, C!Cardinality, Cardinality, R, T

LEMMA ServedOK ==
  ASSUME NEW evs, EventsOK(evs), NEW A, A \subseteq DOMAIN evs, NEW P, PostsOK(P, evs, A),
         NEW pins, NEW hidden
  PROVE  BoardOK(C!Served(P, pins, hidden), evs, A)
<1> DEFINE gone == {t[1] : t \in {u \in P.threads : u[1] \in hidden \/ u[2] \in hidden}}
           visible == C!VisibleReplies(P.replies, gone, hidden)
           recipes == [x \in P.recipes \ hidden |->
                         [core |-> x \in C!Pinned(P, pins), ratings |-> P.ratings[x],
                          reviews |-> P.reviews[x], thumbs |-> P.thumbs[x]]]
           threads == [t \in {u[1] : u \in P.threads} \ gone |->
                         [recipe |-> (CHOOSE u \in P.threads : u[1] = t)[2],
                          reply_count |-> C!ReplyCount(visible, t)]]
           B == C!Served(P, pins, hidden)
<1>1. /\ P.recipes = OfKind(A, evs, "RecipeCreated")
      /\ P.threads = {<<x, evs[x].says.parent>> : x \in OfKind(A, evs, "ThreadCreated")}
      /\ P.replies = {<<x, evs[x].says.parent>> :
                        x \in {y \in OfKind(A, evs, "ReplyCreated") : evs[y].says.parent # NoObject}}
      /\ P.reviews = [o \in EventIds |-> Cardinality(Given(A, evs, "ReviewAdded", o))]
      /\ P.thumbs = [o \in EventIds |-> Cardinality(Given(A, evs, "ThumbsUpAdded", o))]
  BY DEF PostsOK
<1>2. B.recipes = recipes /\ B.threads = threads /\ B.replies = visible
  BY DEF C!Served
<1>3. \A kind : OfKind(A, evs, kind) \subseteq A
  BY DEF OfKind
<1>4. \A kind \in C!PostKinds : OfKind(A, evs, kind) \subseteq Posts(A, evs)
  BY DEF OfKind, Posts, IsPost
<1>5. /\ P.recipes \subseteq Posts(A, evs)
      /\ \A u \in P.threads : u[1] \in Posts(A, evs)
      /\ \A r \in P.replies : r = <<r[1], r[2]>> /\ r[1] \in Posts(A, evs)
  BY <1>1, <1>4 DEF C!PostKinds
<1>6. visible \subseteq P.replies /\ \A r \in visible : r[2] \notin gone
  BY DEF C!VisibleReplies
<1>7. C!ServedPosts(B) \subseteq Posts(A, evs)
  <2>1. DOMAIN recipes \subseteq P.recipes /\ \A t \in DOMAIN threads : \E u \in P.threads : t = u[1]
    OBVIOUS
  <2> HIDE DEF recipes, threads, visible, B
  <2> QED
    BY <1>2, <1>5, <1>6, <2>1 DEF C!ServedPosts
<1>8. ASSUME NEW r \in visible, r[2] \in OfKind(A, evs, "ThreadCreated") PROVE r[2] \in DOMAIN threads
  <2>1. <<r[2], evs[r[2]].says.parent>> \in P.threads
    BY <1>1, <1>8
  <2>2. r[2] \in {u[1] : u \in P.threads}
    BY <2>1
  <2> HIDE DEF gone, visible
  <2> QED
    BY <1>6, <2>2
<1>9. ASSUME NEW t \in DOMAIN threads
      PROVE  /\ threads[t].recipe \in OfKind(A, evs, "RecipeCreated") => threads[t].recipe \in DOMAIN recipes
             /\ threads[t].reply_count = Cardinality({r[1] : r \in C!RepliesOf(visible, t)})
  <2> DEFINE u == CHOOSE u \in P.threads : u[1] = t
  <2>1. t \in {v[1] : v \in P.threads} /\ t \notin gone
    OBVIOUS
  <2>2. u \in P.threads /\ u[1] = t
    BY <2>1
  <2>3. u[2] \notin hidden
    BY <2>1, <2>2
  <2>4. threads[t].recipe = u[2] /\ threads[t].reply_count = C!ReplyCount(visible, t)
    OBVIOUS
  <2>5. DOMAIN recipes = P.recipes \ hidden
    OBVIOUS
  <2> HIDE DEF threads, u, recipes, visible, gone
  <2>6. IsFiniteSet(A)
    BY EventsFinite, FS_Subset
  <2>7. \A r \in visible : r = <<r[1], r[2]>> /\ r[1] \in A
    BY <1>5, <1>6 DEF Posts
  <2>8. C!ReplyCount(visible, t) = Cardinality({r[1] : r \in C!RepliesOf(visible, t)})
    BY <2>6, <2>7, RepliesCounted
  <2> QED
    BY <1>1, <2>3, <2>4, <2>5, <2>8
<1>10. ASSUME NEW x \in DOMAIN recipes
       PROVE  /\ recipes[x].reviews = Cardinality(Given(A, evs, "ReviewAdded", x))
              /\ recipes[x].thumbs = Cardinality(Given(A, evs, "ThumbsUpAdded", x))
  <2>1. recipes[x].reviews = P.reviews[x] /\ recipes[x].thumbs = P.thumbs[x]
    OBVIOUS
  <2>2. x \in EventIds
    BY <1>5 DEF Posts, EventsOK
  <2> HIDE DEF recipes
  <2> QED
    BY <1>1, <2>1, <2>2
<1>11. \A t : C!QueryReplies(B, t) = {r[1] : r \in C!RepliesOf(visible, t)}
  BY <1>2 DEF C!QueryReplies
<1> HIDE DEF B, recipes, threads, visible, gone
<1> QED
  BY <1>2, <1>7, <1>8, <1>9, <1>10, <1>11 DEF BoardOK, B

\* What the views say of the stored events.
ViewOK(v, evs) ==
  /\ LedgerOK(v.ledger) /\ v.entries \subseteq Cids
  /\ v.invalid \subseteq DOMAIN evs /\ v.rejected \subseteq DOMAIN evs
  /\ v.duplicate # {} => Conflict(evs)
  /\ BoardOK(v.board, evs, DOMAIN evs \ v.invalid)
  /\ Cost(evs, C!ServedPosts(v.board)) <= v.ledger.burned

LEMMA ViewResult ==
  ASSUME NEW evs, EventsOK(evs), NEW bs, Coherent(bs, evs)
  PROVE  ViewOK(View(evs, bs), evs)
<1> DEFINE order == ReplayOrder(evs, bs)
           E == Economy(evs, bs, order)
           F == Forum(evs, bs, order, E.invalid, setting.policy)
           B == C!Served(F.posts, F.moderation.pins, F.moderation.hidden)
           v == View(evs, bs)
<1>1. Lists(order, DOMAIN evs)
  BY OrderLists
<1>2. /\ v.ledger = E.ledger /\ v.entries = E.entries /\ v.invalid = E.invalid /\ v.duplicate = E.duplicate
      /\ v.rejected = F.rejected /\ v.board = B
  BY DEF View
<1> HIDE DEF v, order
<1>3. EconomyOK(E, evs, DOMAIN evs)
  BY <1>1, EconomyResult
<1> HIDE DEF E
<1>4. ForumOK(F, evs, E.invalid, DOMAIN evs)
  BY <1>1, ForumResult
<1> HIDE DEF F
<1>5. BoardOK(B, evs, DOMAIN evs \ E.invalid)
  BY <1>4, ServedOK DEF ForumOK
<1> HIDE DEF B
<1>6. Cost(evs, C!ServedPosts(B)) <= E.ledger.burned
  BY <1>3, <1>5 DEF BoardOK, EconomyOK
<1>7. ViewOK(v, evs)
  BY <1>2, <1>3, <1>4, <1>5, <1>6 DEF ViewOK, EconomyOK, ForumOK
<1> QED
  BY <1>7 DEF v

LEMMA NothingServed == C!ServedPosts(C!EmptyBoard) = {}
  BY DEF C!EmptyBoard, C!Served, C!NoPosts, C!ServedPosts, C!VisibleReplies

LEMMA NoViewOK == ASSUME NEW evs PROVE ViewOK(NoView, evs)
<1>1. LedgerOK(NoView.ledger) /\ NoView.ledger.burned = 0
  BY EmptyLedgerOK DEF NoView
<1>2. Cost(evs, C!ServedPosts(NoView.board)) = 0
  BY NothingServed, CostOfNone DEF NoView
<1>3. DOMAIN NoView.board.recipes = {} /\ DOMAIN NoView.board.threads = {} /\ NoView.board.replies = {}
  BY DEF NoView, C!EmptyBoard, C!Served, C!NoPosts, C!VisibleReplies
<1>4. C!ServedPosts(NoView.board) = {}
  BY NothingServed DEF NoView
<1>5. BoardOK(NoView.board, evs, DOMAIN evs \ NoView.invalid)
  BY <1>3, <1>4 DEF BoardOK
<1>6. NoView.invalid = {} /\ NoView.rejected = {} /\ NoView.duplicate = {} /\ NoView.entries = {}
  BY DEF NoView
<1> QED
  BY <1>1, <1>2, <1>5, <1>6 DEF ViewOK

-----------------------------------------------------------------------------
(* A node.                                                                 *)

\* A node without its views.
StoreOK(N) ==
  /\ N = [events |-> N.events, blocks |-> N.blocks, view |-> N.view, shown |-> N.shown, last |-> N.last]
  /\ EventsOK(N.events) /\ Coherent(N.blocks, N.events) /\ N.last \in Int

NodeOK(N) == StoreOK(N) /\ ViewOK(N.view, N.events)

\* No event is beyond the drift.
InDrift(N) == \A id \in DOMAIN N.events : N.events[id].unix_ts <= now + MaxFutureDrift

Fresh(N) == N.shown = Metrics(N.view.board, N.blocks)

\* The counts that a stopped node shows are those of its empty board.
LEMMA NoShownFresh == ASSUME NEW bs PROVE NoShown = Metrics(C!EmptyBoard, bs)
  BY NothingServed DEF NoShown, Metrics

LEMMA ReplayedOK ==
  ASSUME NEW N, StoreOK(N)
  PROVE  /\ NodeOK(Replayed(N)) /\ Fresh(Replayed(N))
         /\ Replayed(N).events = N.events /\ Replayed(N).blocks = N.blocks
<1> DEFINE v == View(N.events, N.blocks)
           shown == Metrics(v.board, N.blocks)
           O == Replayed(N)
<1>1. ViewOK(v, N.events)
  BY ViewResult DEF StoreOK
<1>2. O = [N EXCEPT !.view = v, !.shown = shown]
  BY DEF Replayed
<1>3. shown = Metrics(v.board, N.blocks)
  OBVIOUS
<1> HIDE DEF O, v, shown
<1>4. O = [events |-> N.events, blocks |-> N.blocks, view |-> v, shown |-> shown, last |-> N.last]
  BY <1>2 DEF StoreOK
<1>5. /\ O = [events |-> O.events, blocks |-> O.blocks, view |-> O.view, shown |-> O.shown, last |-> O.last]
      /\ O.events = N.events /\ O.blocks = N.blocks /\ O.view = v /\ O.shown = shown /\ O.last = N.last
  BY <1>4
<1>6. NodeOK(O) /\ Fresh(O)
  BY <1>1, <1>3, <1>5 DEF NodeOK, StoreOK, Fresh
<1> QED
  BY <1>5, <1>6 DEF O

LEMMA RoutineCheckOK ==
  ASSUME now \in Int, NEW N, NodeOK(N)
  PROVE  /\ NodeOK(RoutineCheck(N)) /\ Fresh(RoutineCheck(N))
         /\ RoutineCheck(N).events = N.events /\ RoutineCheck(N).view = N.view
<1> DEFINE bs == Checked(N.blocks)
           shown == Metrics(N.view.board, bs)
           O == RoutineCheck(N)
<1>1. Coherent(bs, N.events)
  BY CheckedCoherent DEF NodeOK, StoreOK
<1>2. O = [N EXCEPT !.blocks = bs, !.shown = shown]
  BY DEF RoutineCheck
<1>3. shown = Metrics(N.view.board, bs)
  OBVIOUS
<1> HIDE DEF O, bs, shown
<1>4. O = [events |-> N.events, blocks |-> bs, view |-> N.view, shown |-> shown, last |-> N.last]
  BY <1>2 DEF NodeOK, StoreOK
<1>5. /\ O = [events |-> O.events, blocks |-> O.blocks, view |-> O.view, shown |-> O.shown, last |-> O.last]
      /\ O.events = N.events /\ O.blocks = bs /\ O.view = N.view /\ O.shown = shown /\ O.last = N.last
  BY <1>4
<1>6. NodeOK(O) /\ Fresh(O)
  BY <1>1, <1>3, <1>5 DEF NodeOK, StoreOK, Fresh
<1> QED
  BY <1>5, <1>6 DEF O

EventOK(event) == event.says \in Says /\ event.unix_ts \in Int /\ event.size \in Sizes

\* A rejected event changes nothing; a stored one joins the others.
LEMMA AppendedOK ==
  ASSUME now \in Int, NEW N, NodeOK(N), InDrift(N), Fresh(N),
         NEW id \in EventIds, NEW event, EventOK(event)
  PROVE  LET O == Appended(N, id, event)
         IN  /\ NodeOK(O) /\ InDrift(O) /\ Fresh(O)
             /\ DOMAIN N.events \subseteq DOMAIN O.events
<1> DEFINE evs == [x \in DOMAIN N.events \cup {id} |->
                     IF x = id THEN event ELSE N.events[x]]
           as == Timeline!AssignEvent(N.blocks, evs, id)
           bs == Timeline!EnsureBlockSlots(as, now)
           B == [N EXCEPT !.events = evs, !.blocks = bs]
           O == Appended(N, id, event)
<1>1. CASE ~ Stored(N, id, event)
  BY <1>1 DEF Appended
<1>2. CASE Stored(N, id, event)
  <2>1. O = Replayed(B)
    BY <1>2 DEF Appended
  <2>2. id \notin DOMAIN N.events /\ event.unix_ts <= now + MaxFutureDrift
    BY <1>2 DEF Stored, Timeline!WithinDrift
  <2>3. EventsOK(N.events) /\ Coherent(N.blocks, N.events)
    BY DEF NodeOK, StoreOK
  <2>4. DOMAIN evs = DOMAIN N.events \cup {id} /\ evs = [x \in DOMAIN evs |-> evs[x]]
    OBVIOUS
  <2>5. /\ evs[id] = event
        /\ \A x \in DOMAIN N.events : evs[x] = N.events[x]
    BY <2>2
  <2>6. evs[id].unix_ts \in Int
    BY <2>5 DEF EventOK
  <2> HIDE DEF evs, as, bs, O
  <2>7. EventsOK(evs)
    BY <2>3, <2>4, <2>5 DEF EventsOK, EventOK
  <2>8. InDrift(N) => \A x \in DOMAIN evs : evs[x].unix_ts <= now + MaxFutureDrift
    BY <2>2, <2>4, <2>5 DEF InDrift
  <2>9. Coherent(as, evs)
    <3>1. /\ Placing!TimelineOK(Placing!AssignEvent(N.blocks, evs, id))
          /\ Placing!PlacedOnce(Placing!AssignEvent(N.blocks, evs, id), DOMAIN N.events \cup {id})
      BY <2>2, <2>3, <2>6, Placing!AssignEventOK, PlacingConstants DEF Coherent, BlocksOK
    <3> QED
      BY <2>4, <3>1, SameAssign DEF Coherent, BlocksOK, as
  <2>10. Coherent(bs, evs)
    BY <2>9, SlotsCoherent DEF bs
  <2>11. B = [N EXCEPT !.events = evs, !.blocks = bs]
    OBVIOUS
  <2>12. /\ N.last \in Int
         /\ N = [events |-> N.events, blocks |-> N.blocks, view |-> N.view, shown |-> N.shown, last |-> N.last]
    BY DEF NodeOK, StoreOK
  <2> HIDE DEF B
  <2>13. /\ B = [events |-> B.events, blocks |-> B.blocks, view |-> B.view, shown |-> B.shown, last |-> B.last]
         /\ B.events = evs /\ B.blocks = bs /\ B.last = N.last
    BY <2>11, <2>12
  <2>14. StoreOK(B)
    BY <2>7, <2>10, <2>12, <2>13 DEF StoreOK
  <2>15. NodeOK(O) /\ Fresh(O) /\ O.events = evs
    BY <2>1, <2>13, <2>14, ReplayedOK
  <2>16. InDrift(O)
    BY <2>8, <2>15 DEF InDrift
  <2>17. DOMAIN N.events \subseteq DOMAIN O.events
    BY <2>4, <2>15
  <2> QED
    BY <2>15, <2>16, <2>17 DEF O
<1> QED
  BY <1>1, <1>2

\* The events of a prefix of the blocks, in that prefix.
LEMMA PrefixCoherent ==
  ASSUME NEW bs, NEW evs, Coherent(bs, evs), EventsOK(evs), NEW S, S \subseteq DOMAIN bs, 0 \in S
  PROVE  LET cs == Timeline!RestrictTo(bs, S)
             fvs == Timeline!RestrictTo(evs, UNION {cs[i].event_ids : i \in S})
         IN  Coherent(cs, fvs) /\ EventsOK(fvs) /\ DOMAIN fvs \subseteq DOMAIN evs
               /\ \A x \in DOMAIN fvs : fvs[x] = evs[x]
<1> DEFINE cs == Timeline!RestrictTo(bs, S)
           ids == UNION {cs[i].event_ids : i \in S}
           fvs == Timeline!RestrictTo(evs, ids)
<1>1. DOMAIN cs = S /\ \A i \in S : cs[i] = bs[i]
  BY DEF Timeline!RestrictTo
<1>2. cs = Placing!RestrictTo(bs, S)
  BY DEF Timeline!RestrictTo, Placing!RestrictTo
<1>3. Placing!TimelineOK(cs)
  BY <1>2, Placing!RestrictOK, PlacingConstants DEF Coherent, BlocksOK
<1>4. DOMAIN fvs = DOMAIN evs \cap ids /\ \A x \in DOMAIN fvs : fvs[x] = evs[x]
  BY DEF Timeline!RestrictTo
<1>5. fvs = [x \in DOMAIN fvs |-> fvs[x]]
  BY DEF Timeline!RestrictTo
<1> HIDE DEF cs, fvs
<1>6. ids \subseteq DOMAIN evs
  BY <1>1 DEF Coherent, Placing!PlacedOnce
<1>7. Placing!PlacedOnce(cs, ids)
  <2>1. \A id \in ids : \E i \in DOMAIN cs : id \in cs[i].event_ids
    BY <1>1
  <2>2. \A i, j \in DOMAIN cs : i # j => cs[i].event_ids \cap cs[j].event_ids = {}
    BY <1>1 DEF Coherent, Placing!PlacedOnce
  <2>3. \A i \in DOMAIN cs : cs[i].event_ids \subseteq ids
    BY <1>1
  <2> HIDE DEF ids
  <2> QED
    BY <2>1, <2>2, <2>3 DEF Placing!PlacedOnce
<1> HIDE DEF ids
<1>8. DOMAIN fvs = ids
  BY <1>4, <1>6
<1>9. EventsOK(fvs)
  BY <1>4, <1>5 DEF EventsOK
<1> QED
  BY <1>3, <1>4, <1>7, <1>8, <1>9 DEF Coherent, BlocksOK, cs, fvs, ids

LEMMA RolledBackOK ==
  ASSUME NEW N, NodeOK(N), InDrift(N)
  PROVE  NodeOK(RolledBack(N)) /\ InDrift(RolledBack(N))
<1> DEFINE kept == {i \in DOMAIN N.blocks : i <= Timeline!CheckpointIndex(N.blocks)}
           bs == Timeline!RestrictTo(N.blocks, kept)
           evs == Timeline!RestrictTo(N.events, UNION {bs[i].event_ids : i \in kept})
           B == [N EXCEPT !.blocks = bs, !.events = evs]
           O == RolledBack(N)
<1>1. O = Replayed(B)
  BY DEF RolledBack
<1>2. kept \subseteq DOMAIN N.blocks /\ 0 \in kept
  <2>1. Placing!CheckpointIndex(N.blocks) \in DOMAIN N.blocks
    BY Placing!CheckpointPresent, PlacingConstants DEF NodeOK, StoreOK, Coherent, BlocksOK
  <2>2. Timeline!CheckpointIndex(N.blocks) \in Nat /\ 0 \in DOMAIN N.blocks
    BY <2>1, SameTimeline DEF NodeOK, StoreOK, Coherent, BlocksOK, Placing!TimelineOK
  <2> QED
    BY <2>2
<1> HIDE DEF kept
<1>3. Coherent(bs, evs) /\ EventsOK(evs) /\ DOMAIN evs \subseteq DOMAIN N.events
      /\ \A x \in DOMAIN evs : evs[x] = N.events[x]
  BY <1>2, PrefixCoherent DEF NodeOK, StoreOK
<1> HIDE DEF bs, evs, O
<1>4. B = [N EXCEPT !.blocks = bs, !.events = evs]
  OBVIOUS
<1>5. /\ N.last \in Int
      /\ N = [events |-> N.events, blocks |-> N.blocks, view |-> N.view, shown |-> N.shown, last |-> N.last]
  BY DEF NodeOK, StoreOK
<1> HIDE DEF B
<1>6. /\ B = [events |-> B.events, blocks |-> B.blocks, view |-> B.view, shown |-> B.shown, last |-> B.last]
      /\ B.events = evs /\ B.blocks = bs /\ B.last = N.last
  BY <1>4, <1>5
<1>7. StoreOK(B)
  BY <1>3, <1>5, <1>6 DEF StoreOK
<1>8. NodeOK(O) /\ O.events = evs
  BY <1>1, <1>6, <1>7, ReplayedOK
<1>9. InDrift(O)
  BY <1>3, <1>8 DEF InDrift
<1> QED
  BY <1>8, <1>9 DEF O

-----------------------------------------------------------------------------
(* Own operations.                                                         *)

LEMMA LastOfIds ==
  ASSUME NEW S, S \subseteq EventIds, S # {}
  PROVE  Max(S) \in S /\ Min(S) \in S
<1> DEFINE Last(T) == \E last \in T : \A i \in T : i <= last
           N == {n \in Nat : \A T \in SUBSET EventIds : T # {} /\ Cardinality(T) = n => Last(T)}
<1>1. EventIds \subseteq Nat /\ IsFiniteSet(EventIds)
  BY CommunityConstants DEF CommunityConstants
<1>2. 0 \in N
  BY <1>1, FS_Subset, FS_EmptySet
<1>3. ASSUME NEW n \in Nat, n \in N PROVE n + 1 \in N
  <2> SUFFICES ASSUME NEW T \in SUBSET EventIds, T # {}, Cardinality(T) = n + 1 PROVE Last(T)
    OBVIOUS
  <2>1. PICK x \in T : TRUE
    OBVIOUS
  <2>2. IsFiniteSet(T)
    BY <1>1, FS_Subset
  <2>3. Cardinality(T \ {x}) = n
    <3>1. Cardinality(T \ {x}) = IF x \in T THEN Cardinality(T) - 1 ELSE Cardinality(T)
      BY <2>2, FS_RemoveElement
    <3>2. n + 1 - 1 = n
      OBVIOUS
    <3> QED
      BY <2>1, <3>1, <3>2
  <2>4. CASE T \ {x} = {}
    <3>1. \A i \in T : i <= x
      BY <1>1, <2>1, <2>4
    <3> QED
      BY <2>1, <3>1
  <2>5. CASE T \ {x} # {}
    <3>1. PICK last \in T \ {x} : \A i \in T \ {x} : i <= last
      BY <1>3, <2>3, <2>5
    <3>2. \A i \in T : i \in Nat
      BY <1>1
    <3>3. CASE x <= last
      BY <2>1, <3>1, <3>2, <3>3
    <3>4. CASE ~ (x <= last)
      <4>1. \A i \in T : i <= x
        BY <2>1, <3>1, <3>2, <3>4
      <4> QED
        BY <2>1, <4>1
    <3> QED
      BY <3>3, <3>4
  <2> QED
    BY <2>4, <2>5
<1>4. Nat \subseteq N
  <2> HIDE DEF N
  <2> QED
    BY <1>2, <1>3, Placing!NatSetInduction, PlacingConstants
<1>5. \E last \in S : \A i \in S : i <= last
  BY <1>1, <1>4, FS_Subset, FS_CardinalityType
<1>6. \E first \in S : \A i \in S : first <= i
  BY <1>1, Placing!LeastNat, PlacingConstants
<1> QED
  BY <1>5, <1>6 DEF Max, Min

LEMMA FreshIdsOK ==
  ASSUME setting \in Setting, NEW N
  PROVE  /\ FreshIds(N) \subseteq EventIds
         /\ FreshIds(N) # {} => Max(FreshIds(N)) \in EventIds /\ Min(FreshIds(N)) \in EventIds
<1> DEFINE free == setting.ids \ DOMAIN N.events
<1>1. free \subseteq EventIds
  BY DEF Setting
<1> HIDE DEF free
<1>2. FreshIds(N) = IF free = {} THEN {} ELSE IF setting.ties THEN {Min(free), Max(free)} ELSE {Min(free)}
  BY DEF FreshIds, free
<1>3. FreshIds(N) \subseteq EventIds
  BY <1>1, <1>2, LastOfIds
<1> HIDE DEF FreshIds
<1> QED
  BY <1>3, LastOfIds

HistoryOK(h) ==
  /\ h = [met |-> h.met, announced |-> h.announced, rewound |-> h.rewound, overtaken |-> h.overtaken,
          entangled |-> h.entangled]
  /\ h.announced \subseteq EventIds

\* A node that runs, with its history.
RunningOK(N, h) == NodeOK(N) /\ InDrift(N) /\ Fresh(N) /\ HistoryOK(h)

\* A node and a history while an operation makes its events.
StateOK(S) ==
  /\ S = [node |-> S.node, history |-> S.history, ok |-> S.ok]
  /\ RunningOK(S.node, S.history)

LEMMA LastChanged ==
  ASSUME NEW N, NodeOK(N), InDrift(N), Fresh(N), NEW ts \in Int
  PROVE  LET O == [N EXCEPT !.last = ts] IN NodeOK(O) /\ InDrift(O) /\ Fresh(O) /\ O.events = N.events
<1> DEFINE O == [N EXCEPT !.last = ts]
<1>1. O = [events |-> N.events, blocks |-> N.blocks, view |-> N.view, shown |-> N.shown, last |-> ts]
  BY DEF NodeOK, StoreOK
<1> HIDE DEF O
<1>2. /\ O = [events |-> O.events, blocks |-> O.blocks, view |-> O.view, shown |-> O.shown, last |-> O.last]
      /\ O.events = N.events /\ O.blocks = N.blocks /\ O.view = N.view /\ O.shown = N.shown /\ O.last = ts
  BY <1>1
<1>3. NodeOK(O) /\ InDrift(O) /\ Fresh(O)
  BY <1>2 DEF NodeOK, StoreOK, InDrift, Fresh
<1> QED
  BY <1>2, <1>3 DEF O

LEMMA HistoryChanged ==
  ASSUME NEW h, HistoryOK(h), NEW announced, NEW overtaken, NEW entangled
  PROVE  [h EXCEPT !.announced = announced, !.overtaken = overtaken, !.entangled = entangled]
         = [met |-> h.met, announced |-> announced, rewound |-> h.rewound, overtaken |-> overtaken,
            entangled |-> entangled]
<1> DEFINE g == [h EXCEPT !.announced = announced]
           f == [g EXCEPT !.overtaken = overtaken]
<1>1. g = [met |-> h.met, announced |-> announced, rewound |-> h.rewound, overtaken |-> h.overtaken,
           entangled |-> h.entangled]
  BY DEF HistoryOK
<1> HIDE DEF g
<1>2. f = [met |-> h.met, announced |-> announced, rewound |-> h.rewound, overtaken |-> overtaken,
           entangled |-> h.entangled]
  BY <1>1
<1> HIDE DEF f
<1>3. [f EXCEPT !.entangled = entangled]
      = [met |-> h.met, announced |-> announced, rewound |-> h.rewound, overtaken |-> overtaken,
         entangled |-> entangled]
  BY <1>2
<1> QED
  BY <1>3 DEF f, g

\* What an own event adds to the history.
LEMMA AnnouncedOK ==
  ASSUME NEW S, StateOK(S), NEW id \in EventIds, NEW N, NodeOK(N), InDrift(N), Fresh(N), NEW always
  PROVE  LET T == Announced(S, id, N, always)
         IN  /\ StateOK(T) /\ T.node = N
             /\ T.history.rewound = S.history.rewound /\ T.history.met = S.history.met
             /\ S.history.announced \ {id} \subseteq T.history.announced
             /\ id \in DOMAIN N.events /\ Valid(N) => id \in T.history.announced
             /\ id \notin DOMAIN N.events => T.history = S.history
             /\ id \in DOMAIN N.events => T.history.overtaken = (S.history.overtaken \/ Overtakes(N, id))
<1> DEFINE T == Announced(S, id, N, always)
           a == S.history.announced
<1>1. /\ S = [node |-> S.node, history |-> S.history, ok |-> S.ok]
      /\ S.history = [met |-> S.history.met, announced |-> a, rewound |-> S.history.rewound,
                      overtaken |-> S.history.overtaken, entangled |-> S.history.entangled]
      /\ a \subseteq EventIds /\ HistoryOK(S.history)
  BY DEF StateOK, RunningOK, HistoryOK
<1>2. CASE id \notin DOMAIN N.events
  <2>1. T = [S EXCEPT !.node = N, !.ok = FALSE]
    BY <1>2 DEF Announced
  <2>2. T = [node |-> N, history |-> S.history, ok |-> T.ok]
    BY <1>1, <2>1, Zenon
  <2> HIDE DEF T
  <2>3. /\ T = [node |-> T.node, history |-> T.history, ok |-> T.ok]
        /\ T.node = N /\ T.history = S.history
    BY <2>2
  <2>4. StateOK(T)
    BY <1>1, <2>3 DEF StateOK, RunningOK
  <2> QED
    BY <1>2, <2>3, <2>4 DEF T
<1>3. CASE id \in DOMAIN N.events
  <2> DEFINE announced == IF always \/ Valid(N) THEN a \cup {id} ELSE a \ {id}
             overtaken == S.history.overtaken \/ Overtakes(N, id)
             entangled == S.history.entangled \/ Entangled(N)
             past == S.history
             h == [past EXCEPT !.announced = announced, !.overtaken = overtaken, !.entangled = entangled]
             ok == Valid(N)
  <2>1. T = [node |-> N, ok |-> ok, history |-> h]
    BY <1>3 DEF Announced
  <2>2. announced \subseteq EventIds /\ a \ {id} \subseteq announced /\ (ok => id \in announced)
    BY <1>1
  <2>10. overtaken = (S.history.overtaken \/ Overtakes(N, id))
    OBVIOUS
  <2>11. HistoryOK(past)
    BY <1>1
  <2> HIDE DEF announced, overtaken, entangled, ok, a, past
  <2>3. h = [met |-> past.met, announced |-> announced, rewound |-> past.rewound,
             overtaken |-> overtaken, entangled |-> entangled]
    BY <2>11, HistoryChanged
  <2> HIDE DEF h, T
  <2>4. /\ h.rewound = S.history.rewound /\ h.met = S.history.met /\ h.announced = announced
        /\ h.overtaken = overtaken /\ HistoryOK(h)
    BY <2>2, <2>3 DEF HistoryOK, past
  <2>5. /\ T = [node |-> T.node, history |-> T.history, ok |-> T.ok]
        /\ T.node = N /\ T.history = h
    BY <2>1
  <2>6. StateOK(T)
    BY <2>4, <2>5 DEF StateOK, RunningOK
  <2>7. T.history.overtaken = (S.history.overtaken \/ Overtakes(N, id))
    BY <2>4, <2>5, <2>10, Zenon
  <2>8. S.history.announced \ {id} \subseteq T.history.announced /\ (Valid(N) => id \in T.history.announced)
    BY <2>2, <2>4, <2>5 DEF a, ok
  <2>9. T.history.rewound = S.history.rewound /\ T.history.met = S.history.met
    BY <2>4, <2>5
  <2> QED
    BY <1>3, <2>5, <2>6, <2>7, <2>8, <2>9, Zenon DEF T
<1> QED
  BY <1>2, <1>3

LEMMA LocalEventOK ==
  ASSUME NEW e \in Says, NEW ts \in Int, NEW size \in Sizes, NEW alien
  PROVE  /\ EventOK(Event(e, ts, size, alien))
         /\ Event(e, ts, size, alien).says = e /\ Event(e, ts, size, alien).unix_ts = ts
         /\ Event(e, ts, size, alien).size = size /\ Event(e, ts, size, alien).alien = alien
<1>1. Event(e, ts, size, alien) = [says |-> e, unix_ts |-> ts, size |-> size, alien |-> alien]
  BY DEF Event
<1> QED
  BY <1>1 DEF EventOK

LEMMA MadeOK ==
  ASSUME now \in Int, NEW S, StateOK(S), NEW id \in EventIds, NEW e \in Says, NEW size \in Sizes, NEW always
  PROVE  /\ StateOK(Made(S, id, e, size, always))
         /\ DOMAIN S.node.events \subseteq DOMAIN Made(S, id, e, size, always).node.events
<1> DEFINE ts == LocalTime(S.node)
           event == Event(e, ts, size, FALSE)
           N == [S.node EXCEPT !.last = ts]
           O == Appended(N, id, event)
<1>1. NodeOK(S.node) /\ InDrift(S.node) /\ Fresh(S.node)
  BY DEF StateOK, RunningOK
<1>2. ts \in Int
  BY <1>1 DEF LocalTime, NodeOK, StoreOK
<1>3. Made(S, id, e, size, always) = Announced(S, id, O, always)
  BY DEF Made
<1> HIDE DEF ts
<1>6. EventOK(event)
  BY <1>2, LocalEventOK
<1> HIDE DEF event
<1>4. NodeOK(N) /\ InDrift(N) /\ Fresh(N) /\ N.events = S.node.events
  BY <1>1, <1>2, LastChanged
<1> HIDE DEF N
<1>5. NodeOK(O) /\ InDrift(O) /\ Fresh(O) /\ DOMAIN S.node.events \subseteq DOMAIN O.events
  BY <1>4, <1>6, AppendedOK
<1> HIDE DEF O
<1> QED
  BY <1>3, <1>5, AnnouncedOK

-----------------------------------------------------------------------------
(* The inductive invariant: what is stored is typed, placed and within the *)
(* drift, the views say of it what they should, and a running node shows   *)
(* the confirmations of its blocks.                                        *)

IInv ==
  /\ now \in 0..setting.horizon /\ phase \in {"up", "down", "refused"} /\ setting \in Setting
  /\ NodeOK(node) /\ InDrift(node) /\ HistoryOK(history)
  /\ phase = "up" => Fresh(node)

\* The stored events stay.
Keeps == DOMAIN node.events \subseteq DOMAIN node'.events

LEMMA Clock == ASSUME IInv PROVE now \in Nat /\ setting.horizon \in Nat
  BY DEF IInv, Setting

LEMMA Runs ==
  ASSUME IInv, NEW N, NEW h, RunningOK(N, h),
         node' = N, history' = h, now' = now, phase' = phase, setting' = setting
  PROVE  IInv'
<1>1. NodeOK(node') /\ Fresh(node') /\ HistoryOK(history')
  BY DEF RunningOK
<1>2. \A id \in DOMAIN (node').events : (node').events[id].unix_ts <= now' + MaxFutureDrift
  BY DEF RunningOK, InDrift
<1> QED
  BY <1>1, <1>2 DEF IInv, InDrift

LEMMA NowOK == ASSUME IInv, phase = "up" PROVE StateOK(Now) /\ Now.node = node
<1>1. Now = [node |-> Now.node, history |-> Now.history, ok |-> Now.ok] /\ Now.node = node /\ Now.history = history
  BY DEF Now
<1>2. RunningOK(node, history)
  BY DEF IInv, RunningOK
<1> QED
  BY <1>1, <1>2 DEF StateOK

LEMMA BecomesOK ==
  ASSUME IInv, NEW S, StateOK(S), DOMAIN node.events \subseteq DOMAIN S.node.events, Becomes(S)
  PROVE  IInv' /\ Keeps
<1>1. node' = S.node /\ history' = S.history /\ now' = now /\ phase' = phase /\ setting' = setting
  BY DEF Becomes
<1>2. RunningOK(S.node, S.history)
  BY DEF StateOK
<1>3. IInv'
  BY <1>1, <1>2, Runs
<1>4. Keeps
  BY <1>1 DEF Keeps
<1> QED
  BY <1>3, <1>4

LEMMA SizesTyped == ASSUME setting \in Setting PROVE setting.sizes \subseteq Sizes /\ ClaimSize \in Sizes
  BY CommunityConstants DEF Setting, CommunityConstants

LEMMA PublishOK ==
  ASSUME IInv, NEW e \in Says, Publish(e)
  PROVE  IInv' /\ Keeps
<1>1. phase = "up" /\ \E id \in FreshIds(node), size \in setting.sizes : Becomes(Made(Now, id, e, size, FALSE))
  BY DEF Publish, Offers
<1>2. PICK id \in FreshIds(node), size \in setting.sizes : Becomes(Made(Now, id, e, size, FALSE))
  BY <1>1
<1>3. id \in EventIds /\ size \in Sizes /\ now \in Int
  BY <1>2, FreshIdsOK, SizesTyped, Clock DEF IInv
<1>4. StateOK(Now) /\ Now.node = node
  BY <1>1, NowOK
<1> DEFINE S == Made(Now, id, e, size, FALSE)
<1>5. StateOK(S) /\ DOMAIN node.events \subseteq DOMAIN S.node.events
  BY <1>3, <1>4, MadeOK
<1>6. Becomes(S)
  BY <1>2
<1> HIDE DEF S
<1> QED
  BY <1>5, <1>6, BecomesOK

-----------------------------------------------------------------------------
(* What the operations publish is typed.                                   *)

LEMMA PostIsSays ==
  ASSUME NEW kind \in C!PostKinds, NEW author \in Cids, NEW value \in Nat,
         NEW parent \in EventIds \cup {NoObject}, NEW rating \in 0..5, NEW core \in BOOLEAN
  PROVE  PostBy(kind, author, value, parent, rating, core) \in Says
  BY DEF PostBy, Says, PostSays

LEMMA PostCostType ==
  ASSUME setting \in Setting, NEW requested \in setting.values
  PROVE  PostCost(requested) \in Nat
<1>1. requested \in Nat /\ setting.minimum_post_value \in Nat
  BY DEF Setting
<1>2. \E x \in {requested, setting.minimum_post_value} : \A y \in {requested, setting.minimum_post_value} : y <= x
  BY <1>1
<1>3. Max({requested, setting.minimum_post_value}) \in {requested, setting.minimum_post_value}
  BY <1>2 DEF Max
<1> QED
  BY <1>1, <1>3 DEF PostCost

LEMMA MeIsCid == Me \in Cids /\ NoObject \notin EventIds
  BY CommunityConstants DEF CommunityConstants

LEMMA LocalPostStep == ASSUME IInv, LocalPost PROVE IInv' /\ Keeps
<1>1. setting \in Setting /\ setting.about \subseteq EventIds /\ setting.values \subseteq Nat
  BY DEF IInv, Setting
<1>2. CASE CreateRecipe
  <2>1. PICK requested \in setting.values, core \in BOOLEAN :
          Publish(PostBy("RecipeCreated", Me, IF core THEN requested ELSE PostCost(requested), NoObject, 0, core))
    BY <1>2 DEF CreateRecipe
  <2>2. (IF core THEN requested ELSE PostCost(requested)) \in Nat
    BY <1>1, PostCostType
  <2>3. PostBy("RecipeCreated", Me, IF core THEN requested ELSE PostCost(requested), NoObject, 0, core) \in Says
    BY <2>2, MeIsCid, PostIsSays DEF C!PostKinds
  <2> QED
    BY <2>1, <2>3, PublishOK
<1>3. ASSUME NEW kind \in C!PostKinds, NEW rating \in 0..5, CreateUnder(kind, rating) PROVE IInv' /\ Keeps
  <2>1. PICK requested \in setting.values, parent \in setting.about :
          Publish(PostBy(kind, Me, PostCost(requested), parent, rating, FALSE))
    BY <1>3 DEF CreateUnder
  <2>2. PostBy(kind, Me, PostCost(requested), parent, rating, FALSE) \in Says
    BY <1>1, PostCostType, MeIsCid, PostIsSays
  <2> QED
    BY <2>1, <2>2, PublishOK
<1>4. CASE AddThumbUp
  <2>1. PICK x \in C!QueryRecipes(node.view.board) : Publish(PostBy("ThumbsUpAdded", Me, 0, x, 0, FALSE))
    BY <1>4 DEF AddThumbUp
  <2>2. x \in EventIds
    BY <2>1 DEF IInv, NodeOK, StoreOK, ViewOK, BoardOK, EventsOK, Posts, C!QueryRecipes, C!ServedPosts
  <2>3. PostBy("ThumbsUpAdded", Me, 0, x, 0, FALSE) \in Says
    <3>1. "ThumbsUpAdded" \in C!PostKinds /\ 0 \in 0..5 /\ x \in EventIds \cup {NoObject}
      BY <2>2 DEF C!PostKinds
    <3> QED
      BY <3>1, MeIsCid, PostIsSays
  <2> QED
    BY <2>1, <2>3, PublishOK
<1>5. {"ThreadCreated", "ReplyCreated", "ReviewAdded"} \subseteq C!PostKinds /\ 0 \in 0..5 /\ 5 \in 0..5
  BY DEF C!PostKinds
<1> QED
  BY <1>2, <1>3, <1>4, <1>5 DEF LocalPost

LEMMA LocalModerationStep == ASSUME IInv, LocalModeration PROVE IInv' /\ Keeps
<1>1. setting.about \subseteq EventIds /\ setting \in Setting /\ now \in Int
  BY Clock DEF IInv, Setting
<1>2. ASSUME NEW kind \in M!VisibilityKinds \cup M!PinKinds, NEW x \in setting.about
      PROVE  AboutObject(kind, x) \in Says
  BY <1>1, MeIsCid DEF AboutObject, Says, ObjectSays
<1>3. CASE FlagContent
  <2>1. PICK x \in setting.about : Publish(AboutObject("ContentFlagged", x))
    BY <1>3 DEF FlagContent
  <2> QED
    BY <1>2, <2>1, PublishOK DEF M!VisibilityKinds
<1>4. ASSUME NEW kind \in {"ContentHidden", "ContentUnhidden"} \cup M!PinKinds, Moderate(kind) PROVE IInv' /\ Keeps
  <2>1. PICK x \in setting.about : Publish(AboutObject(kind, x))
    BY <1>4 DEF Moderate
  <2>2. kind \in M!VisibilityKinds \cup M!PinKinds
    BY DEF M!VisibilityKinds
  <2> QED
    BY <1>2, <2>1, <2>2, PublishOK
<1>5. ASSUME NEW kind \in M!RoleKinds, ChangeRole(kind) PROVE IInv' /\ Keeps
  <2>1. PICK c \in Cids : Publish([kind |-> kind, author |-> Me, target |-> c])
    BY <1>5 DEF ChangeRole
  <2>2. [kind |-> kind, author |-> Me, target |-> c] \in Says
    BY MeIsCid DEF Says, RoleSays
  <2> QED
    BY <2>1, <2>2, PublishOK
<1>6. CASE DownvoteAndPurge
  <2>1. PICK x \in setting.about, id \in FreshIds(node), size \in setting.sizes :
          LET flagged == Made(Now, id, AboutObject("ContentFlagged", x), size, FALSE)
          IN  \E second \in FreshIds(flagged.node), other \in setting.sizes :
                Becomes(IF flagged.ok THEN Made(flagged, second, AboutObject("ContentHidden", x), other, FALSE)
                        ELSE flagged)
    BY <1>6 DEF DownvoteAndPurge
  <2> DEFINE flagged == Made(Now, id, AboutObject("ContentFlagged", x), size, FALSE)
  <2>2. PICK second \in FreshIds(flagged.node), other \in setting.sizes :
          Becomes(IF flagged.ok THEN Made(flagged, second, AboutObject("ContentHidden", x), other, FALSE)
                  ELSE flagged)
    BY <2>1
  <2>3. AboutObject("ContentFlagged", x) \in Says /\ AboutObject("ContentHidden", x) \in Says
    BY <1>2 DEF M!VisibilityKinds
  <2>4. phase = "up"
    BY <1>6 DEF DownvoteAndPurge, Offers
  <2>5. StateOK(Now) /\ Now.node = node
    BY <2>4, NowOK
  <2>6. id \in EventIds /\ size \in Sizes /\ other \in Sizes
    BY <1>1, FreshIdsOK, SizesTyped
  <2>7. StateOK(flagged) /\ DOMAIN node.events \subseteq DOMAIN flagged.node.events
    BY <1>1, <2>3, <2>5, <2>6, MadeOK
  <2> HIDE DEF flagged
  <2>8. second \in EventIds
    BY <1>1, <2>2, FreshIdsOK
  <2> DEFINE hidden == Made(flagged, second, AboutObject("ContentHidden", x), other, FALSE)
  <2>9. StateOK(hidden) /\ DOMAIN flagged.node.events \subseteq DOMAIN hidden.node.events
    BY <1>1, <2>3, <2>6, <2>7, <2>8, MadeOK
  <2>10. CASE flagged.ok
    <3>1. Becomes(hidden)
      BY <2>2, <2>10
    <3> HIDE DEF hidden
    <3> QED
      BY <2>7, <2>9, <3>1, BecomesOK
  <2>11. CASE ~ flagged.ok
    <3>1. Becomes(flagged)
      BY <2>2, <2>11
    <3> QED
      BY <2>7, <3>1, BecomesOK
  <2> QED
    BY <2>10, <2>11
<1> QED
  BY <1>3, <1>4, <1>5, <1>6 DEF LocalModeration

LEMMA RewardType ==
  ASSUME NEW b \in BlockIndices
  PROVE  /\ L!ScheduledReward(b) \in Int
         /\ \A issued \in Int : L!ExpectedClaimReward(b, issued) \in Int
<1>1. /\ RawSubsidy[b] \in Nat /\ MinSubsidy \in Nat /\ MaxSupply \in Nat
  BY CommunityConstants DEF CommunityConstants
<1>2. L!ScheduledReward(b) \in Int
  BY <1>1 DEF L!ScheduledReward
<1> QED
  BY <1>1, <1>2 DEF L!ExpectedClaimReward

LEMMA FeeType == ASSUME NEW amount \in Amounts PROVE amount \in Nat /\ L!BurnFee(amount) \in Int
  BY CommunityConstants DEF CommunityConstants, L!BurnFee

LEMMA TransferStep == ASSUME IInv, TransferRewards PROVE IInv' /\ Keeps
<1>1. PICK to \in KnownTargets, amount \in Amounts :
        Publish([kind |-> "transfer", author |-> Me, to |-> to, amount |-> amount,
                 fee |-> L!BurnFee(amount), nonce |-> node.view.ledger.nonce[Me] + 1, witness_ok |-> TRUE])
  BY DEF TransferRewards
<1>2. to \in Cids
  <2>1. node.view.entries \subseteq Cids /\ \A id \in DOMAIN node.events : node.events[id].says.author \in Cids
    BY SaysByKind DEF IInv, NodeOK, StoreOK, ViewOK, EventsOK
  <2> QED
    BY <2>1, MeIsCid DEF KnownTargets
<1>3. node.view.ledger.nonce[Me] + 1 \in Nat
  BY MeIsCid DEF IInv, NodeOK, ViewOK, LedgerOK, L!LedgerState
<1>4. amount \in Int /\ L!BurnFee(amount) \in Int
  BY FeeType
<1>5. [kind |-> "transfer", author |-> Me, to |-> to, amount |-> amount,
       fee |-> L!BurnFee(amount), nonce |-> node.view.ledger.nonce[Me] + 1, witness_ok |-> TRUE] \in Says
  BY <1>2, <1>3, <1>4, MeIsCid DEF Says, TransferSays
<1> QED
  BY <1>1, <1>5, PublishOK

LEMMA NameStep == ASSUME IInv, SetDisplayName PROVE IInv' /\ Keeps
<1>1. [kind |-> "ProfileUpdated", author |-> Me] \in Says
  BY MeIsCid DEF Says, NameSays
<1> QED
  BY <1>1, PublishOK DEF SetDisplayName

-----------------------------------------------------------------------------
(* The claim loop.                                                         *)

\* S after some rounds from R: a running state that holds the events of R.
ClaimsFrom(R, S) == StateOK(S) /\ DOMAIN R.node.events \subseteq DOMAIN S.node.events

LEMMA ClaimRoundOK ==
  ASSUME now \in Int, setting \in Setting, NEW R, NEW T, ClaimsFrom(R, T), NEW b \in BlockIndices, NEW last
  PROVE  ClaimsFrom(R, ClaimRound(T, b, last))
<1> DEFINE reward == L!ExpectedClaimReward(b, T.node.view.ledger.issued)
           claim == [kind |-> "claim", author |-> Me, block |-> b, reward |-> reward, proof_ok |-> TRUE]
           id == IF last THEN Max(FreshIds(T.node)) ELSE Min(FreshIds(T.node))
           S == Made(T, id, claim, ClaimSize, TRUE)
           ok == id \in DOMAIN S.node.events
           U == [S EXCEPT !.ok = ok]
<1>1. CASE ~ T.ok \/ reward <= 0 \/ FreshIds(T.node) = {}
  BY <1>1 DEF ClaimRound
<1>2. CASE ~ (~ T.ok \/ reward <= 0 \/ FreshIds(T.node) = {})
  <2>1. ClaimRound(T, b, last) = U
    BY <1>2 DEF ClaimRound
  <2>2. id \in EventIds
    BY <1>2, FreshIdsOK
  <2>3. reward \in Int
    BY RewardType DEF ClaimsFrom, StateOK, RunningOK, NodeOK, ViewOK, LedgerOK, L!LedgerState
  <2> HIDE DEF reward, id
  <2>4. claim \in Says
    BY <2>3, MeIsCid DEF Says, ClaimSays
  <2> HIDE DEF claim
  <2>5. StateOK(S) /\ DOMAIN T.node.events \subseteq DOMAIN S.node.events
    BY <2>2, <2>4, MadeOK, SizesTyped DEF ClaimsFrom
  <2> HIDE DEF S, ok
  <2>6. /\ S = [node |-> S.node, history |-> S.history, ok |-> S.ok]
        /\ RunningOK(S.node, S.history)
    BY <2>5 DEF StateOK
  <2>7. U = [node |-> S.node, history |-> S.history, ok |-> ok]
    BY <2>6
  <2> HIDE DEF U
  <2>8. U = [node |-> U.node, history |-> U.history, ok |-> U.ok] /\ U.node = S.node /\ U.history = S.history
    BY <2>7
  <2>9. ClaimsFrom(R, U)
    BY <2>5, <2>6, <2>8 DEF StateOK, ClaimsFrom
  <2> QED
    BY <2>1, <2>9
<1> QED
  BY <1>1, <1>2

\* The loop goes from one block index to the next.
ClaimsRuns(g, S, last) ==
  /\ g[0] = S
  /\ \A n \in Nat : n + 1 <= Timeline!Back(S.node.blocks) =>
       g[n + 1] = IF n + 1 \in Claimable(S.node) THEN ClaimRound(g[n], n + 1, last) ELSE g[n]

LEMMA ClaimsRun ==
  ASSUME NEW S, StateOK(S), NEW last
  PROVE  /\ Timeline!Back(S.node.blocks) \in Nat
         /\ \E g : ClaimsRuns(g, S, last) /\ Claims(S, last) = g[Timeline!Back(S.node.blocks)]
<1> DEFINE claimable == Claimable(S.node)
           back == Timeline!Back(S.node.blocks)
           Step(T, i) == IF i \in claimable THEN ClaimRound(T, i, last) ELSE T
           Upto(g, n) == g = [i \in 0..n |-> IF i = 0 THEN S ELSE Step(g[i - 1], i)]
           After == CHOOSE g : Upto(g, back)
           N == {n \in Nat : \E g : Upto(g, n)}
<1>1. Claims(S, last) = After[back]
  <2> DEFINE g == CHOOSE g : g = [i \in 0..back |->
                    IF i = 0 THEN S
                    ELSE IF i \in claimable THEN ClaimRound(g[i - 1], i, last) ELSE g[i - 1]]
  <2>1. Claims(S, last) = g[back]
    BY DEF Claims
  <2>2. g = After
    OBVIOUS
  <2> QED
    BY <2>1, <2>2
<1>2. back \in Nat
  <2>1. Placing!TimelineOK(S.node.blocks)
    BY DEF StateOK, RunningOK, NodeOK, StoreOK, Coherent, BlocksOK
  <2>2. Placing!Back(S.node.blocks) \in DOMAIN S.node.blocks
    BY <2>1, Placing!BackIsLast, PlacingConstants
  <2> QED
    BY <2>1, <2>2, SameTimeline DEF Placing!TimelineOK
<1> HIDE DEF claimable, back, Step
<1>3. 0 \in N
  <2>1. Upto([k \in 0..0 |-> S], 0)
    OBVIOUS
  <2> QED
    BY <2>1
<1>4. ASSUME NEW n \in Nat, n \in N PROVE n + 1 \in N
  <2>1. PICK g : Upto(g, n)
    BY <1>4
  <2> DEFINE h == [k \in 0..(n + 1) |-> IF k = n + 1 THEN Step(g[n], n + 1) ELSE g[k]]
  <2>2. g[0] = S /\ \A k \in 1..n : g[k] = Step(g[k - 1], k)
    BY <2>1
  <2>3. (\A k \in 0..n : h[k] = g[k]) /\ h[n + 1] = Step(g[n], n + 1) /\ h = [k \in 0..(n + 1) |-> h[k]]
    OBVIOUS
  <2> HIDE DEF h
  <2>4. ASSUME NEW k \in 0..(n + 1)
        PROVE  h[k] = IF k = 0 THEN S ELSE Step(h[k - 1], k)
    <3>1. CASE k \in 1..n
      <4>1. k - 1 \in 0..n /\ k \in 0..n /\ k # 0
        BY <3>1
      <4>2. g[k] = Step(g[k - 1], k)
        BY <3>1, <2>2
      <4>3. h[k] = g[k] /\ h[k - 1] = g[k - 1]
        BY <2>3, <4>1
      <4> QED
        BY <4>1, <4>2, <4>3
    <3>2. CASE k = n + 1
      <4>1. k - 1 = n /\ n \in 0..n /\ k # 0
        BY <3>2
      <4> QED
        BY <3>2, <2>3, <4>1
    <3>3. CASE k = 0
      <4>1. 0 \in 0..n
        OBVIOUS
      <4>2. h[0] = g[0]
        BY <2>3, <4>1
      <4> QED
        BY <2>2, <3>3, <4>2
    <3> QED
      BY <3>1, <3>2, <3>3
  <2>5. h = [k \in 0..(n + 1) |-> IF k = 0 THEN S ELSE Step(h[k - 1], k)]
    BY <2>3, <2>4
  <2> QED
    BY <2>5
<1>5. Nat \subseteq N
  <2> HIDE DEF N
  <2> QED
    BY <1>3, <1>4, Placing!NatSetInduction, PlacingConstants
<1>6. Upto(After, back)
  BY <1>2, <1>5
<1> HIDE DEF After
<1>7. After[0] = S /\ \A n \in Nat : n + 1 <= back => After[n + 1] = Step(After[n], n + 1)
  BY <1>2, <1>6
<1>8. ClaimsRuns(After, S, last)
  BY <1>7 DEF ClaimsRuns, Step, claimable, back
<1> QED
  BY <1>1, <1>2, <1>8 DEF back

LEMMA ClaimsOK ==
  ASSUME now \in Int, setting \in Setting, NEW S, StateOK(S), NEW last
  PROVE  ClaimsFrom(S, Claims(S, last))
<1> DEFINE back == Timeline!Back(S.node.blocks)
<1>1. PICK g : ClaimsRuns(g, S, last) /\ Claims(S, last) = g[back]
  BY ClaimsRun
<1>2. back \in Nat
  BY ClaimsRun
<1>3. \A i : i \in Claimable(S.node) => i \in BlockIndices
  BY DEF Claimable
<1> HIDE DEF back
<1> DEFINE G == {n \in Nat : n <= back => ClaimsFrom(S, g[n])}
<1>4. 0 \in G
  BY <1>1 DEF ClaimsRuns, ClaimsFrom
<1>5. ASSUME NEW n \in Nat, n \in G PROVE n + 1 \in G
  <2> SUFFICES ASSUME n + 1 <= back PROVE ClaimsFrom(S, g[n + 1])
    OBVIOUS
  <2>1. ClaimsFrom(S, g[n])
    BY <1>2, <1>5
  <2>2. g[n + 1] = IF n + 1 \in Claimable(S.node) THEN ClaimRound(g[n], n + 1, last) ELSE g[n]
    BY <1>1 DEF ClaimsRuns, back
  <2>3. CASE n + 1 \in Claimable(S.node)
    <3>1. n + 1 \in BlockIndices
      BY <1>3, <2>3
    <3>2. ClaimsFrom(S, ClaimRound(g[n], n + 1, last))
      BY <2>1, <3>1, ClaimRoundOK
    <3> QED
      BY <2>2, <2>3, <3>2
  <2> QED
    BY <2>1, <2>2, <2>3
<1>6. Nat \subseteq G
  <2> HIDE DEF G
  <2> QED
    BY <1>4, <1>5, Placing!NatSetInduction, PlacingConstants
<1> QED
  BY <1>1, <1>2, <1>6

LEMMA SyncTickStep == ASSUME IInv, SyncTick PROVE IInv' /\ Keeps
<1> DEFINE S == [Now EXCEPT !.node = RoutineCheck(node)]
<1>1. phase = "up" /\ \E last \in BOOLEAN : Becomes(Claims(S, last))
  BY DEF SyncTick
<1>2. PICK last \in BOOLEAN : Becomes(Claims(S, last))
  BY <1>1
<1>3. now \in Int /\ setting \in Setting
  BY Clock DEF IInv
<1>4. /\ NodeOK(RoutineCheck(node)) /\ Fresh(RoutineCheck(node))
      /\ RoutineCheck(node).events = node.events
  BY <1>3, RoutineCheckOK DEF IInv
<1>5. StateOK(Now) /\ Now.node = node
  BY <1>1, NowOK
<1>6. S = [node |-> RoutineCheck(node), history |-> Now.history, ok |-> Now.ok]
  BY <1>5 DEF StateOK
<1> HIDE DEF S
<1>7. StateOK(S) /\ S.node = RoutineCheck(node)
  <2>1. S = [node |-> S.node, history |-> S.history, ok |-> S.ok] /\ S.node = RoutineCheck(node) /\ S.history = Now.history
    BY <1>6
  <2>2. InDrift(RoutineCheck(node))
    BY <1>4 DEF InDrift, IInv
  <2> QED
    BY <1>4, <1>5, <2>1, <2>2 DEF StateOK, RunningOK
<1>8. ClaimsFrom(S, Claims(S, last))
  BY <1>3, <1>7, ClaimsOK
<1> DEFINE T == Claims(S, last)
<1>9. StateOK(T) /\ DOMAIN node.events \subseteq DOMAIN T.node.events
  BY <1>4, <1>7, <1>8 DEF ClaimsFrom
<1>10. Becomes(T)
  BY <1>2
<1> HIDE DEF T
<1> QED
  BY <1>9, <1>10, BecomesOK

-----------------------------------------------------------------------------
(* Events of peers, stops and starts.                                      *)

LEMMA ForeignIsSays ==
  ASSUME setting \in Setting, NEW author \in Cids, NEW e \in Foreign(author)
  PROVE  e \in Says
<1> DEFINE claims == {[kind |-> "claim", author |-> author, block |-> b, reward |-> L!ScheduledReward(b),
                       proof_ok |-> TRUE] : b \in {i \in BlockIndices : 0 < i /\ i <= now}}
           transfers == {[kind |-> "transfer", author |-> author, to |-> to, amount |-> amount,
                          fee |-> L!BurnFee(amount), nonce |-> nonce, witness_ok |-> TRUE] :
                            to \in Cids, amount \in Amounts, nonce \in 1..MaxNonce}
           names == [kind : {"ProfileUpdated"}, author : {author}]
           recipes == [kind : {"RecipeCreated"}, author : {author}, value : setting.values,
                       parent : {NoObject}, rating : {0}, core : {FALSE}]
           under == [kind : {"ThreadCreated", "ReplyCreated", "ReviewAdded", "ThumbsUpAdded"},
                     author : {author}, value : setting.values, parent : setting.about, rating : {5},
                     core : {FALSE}]
           roles == [kind : M!RoleKinds, author : {author}, target : Cids]
           objects == [kind : M!VisibilityKinds \cup M!PinKinds, author : {author}, object : setting.about]
<1>0. Foreign(author) = claims \cup transfers \cup names \cup recipes \cup under \cup roles \cup objects
  BY DEF Foreign
<1>1. setting.about \subseteq EventIds /\ setting.values \subseteq Nat
  BY DEF Setting
<1>2. CASE e \in claims
  <2>1. PICK b \in BlockIndices : e = [kind |-> "claim", author |-> author, block |-> b,
                                       reward |-> L!ScheduledReward(b), proof_ok |-> TRUE]
    BY <1>2
  <2>2. L!ScheduledReward(b) \in Int
    BY RewardType
  <2>3. e \in ClaimSays
    BY <2>1, <2>2 DEF ClaimSays
  <2> QED
    BY <2>3 DEF Says
<1>3. CASE e \in transfers
  <2>1. PICK to \in Cids, amount \in Amounts, nonce \in 1..MaxNonce :
          e = [kind |-> "transfer", author |-> author, to |-> to, amount |-> amount,
               fee |-> L!BurnFee(amount), nonce |-> nonce, witness_ok |-> TRUE]
    BY <1>3
  <2>2. amount \in Int /\ L!BurnFee(amount) \in Int /\ nonce \in Nat
    BY FeeType
  <2>3. e \in TransferSays
    BY <2>1, <2>2 DEF TransferSays
  <2> QED
    BY <2>3 DEF Says
<1>4. CASE e \in names
  BY <1>4 DEF Says, NameSays
<1>5. CASE e \in recipes \/ e \in under
  <2>1. /\ e = [kind |-> e.kind, author |-> e.author, value |-> e.value, parent |-> e.parent,
                rating |-> e.rating, core |-> e.core]
        /\ e.kind \in {"RecipeCreated", "ThreadCreated", "ReplyCreated", "ReviewAdded", "ThumbsUpAdded"}
        /\ e.author = author /\ e.value \in setting.values /\ e.parent \in setting.about \cup {NoObject}
        /\ e.rating \in {0, 5}
    BY <1>5
  <2>2. e.core \in BOOLEAN
    BY <1>5
  <2>3. e.rating \in 0..5 /\ e.value \in Nat /\ e.parent \in EventIds \cup {NoObject}
    BY <1>1, <2>1
  <2>4. e.kind \in C!PostKinds
    BY <2>1 DEF C!PostKinds
  <2>5. e \in PostSays
    BY <2>1, <2>2, <2>3, <2>4 DEF PostSays
  <2> QED
    BY <2>5 DEF Says
<1>6. CASE e \in roles
  BY <1>6 DEF Says, RoleSays
<1>7. CASE e \in objects
  <2>1. /\ e = [kind |-> e.kind, author |-> e.author, object |-> e.object]
        /\ e.kind \in M!VisibilityKinds \cup M!PinKinds /\ e.author = author /\ e.object \in setting.about
    BY <1>7
  <2>2. e \in ObjectSays
    BY <1>1, <2>1 DEF ObjectSays
  <2> QED
    BY <2>2 DEF Says
<1> HIDE DEF claims, transfers, names, recipes, under, roles, objects
<1> QED
  BY <1>0, <1>2, <1>3, <1>4, <1>5, <1>6, <1>7

LEMMA Remet ==
  ASSUME NEW h, HistoryOK(h), NEW met, NEW entangled
  PROVE  [h EXCEPT !.met = met, !.entangled = entangled]
         = [met |-> met, announced |-> h.announced, rewound |-> h.rewound, overtaken |-> h.overtaken,
            entangled |-> entangled]
<1> DEFINE g == [h EXCEPT !.met = met]
<1>1. g = [met |-> met, announced |-> h.announced, rewound |-> h.rewound, overtaken |-> h.overtaken,
           entangled |-> h.entangled]
  BY DEF HistoryOK
<1> HIDE DEF g
<1>2. [g EXCEPT !.entangled = entangled]
      = [met |-> met, announced |-> h.announced, rewound |-> h.rewound, overtaken |-> h.overtaken,
         entangled |-> entangled]
  BY <1>1
<1> QED
  BY <1>2 DEF g

LEMMA IngestStep ==
  ASSUME IInv, NEW e \in Says, NEW ts \in Int, IngestRemoteEvent(e, ts)
  PROVE  IInv' /\ Keeps
<1>1. PICK id \in FreshIds(node), size \in setting.sizes, alien \in setting.aliens :
        /\ node' = Appended(node, id, Event(e, ts, size, alien))
        /\ history' = [history EXCEPT !.met = @ \/ id \in DOMAIN node'.events,
                                      !.entangled = @ \/ Entangled(node')]
  BY DEF IngestRemoteEvent
<1>2. phase = "up" /\ now' = now /\ phase' = phase /\ setting' = setting
  BY DEF IngestRemoteEvent
<1>3. id \in EventIds /\ size \in Sizes /\ now \in Int
  BY FreshIdsOK, SizesTyped, Clock DEF IInv
<1>4. NodeOK(node) /\ InDrift(node) /\ Fresh(node) /\ HistoryOK(history)
  BY <1>2 DEF IInv
<1> DEFINE event == Event(e, ts, size, alien)
           N == Appended(node, id, event)
<1>10. EventOK(event)
  BY <1>3, LocalEventOK
<1> HIDE DEF event
<1>5. NodeOK(N) /\ InDrift(N) /\ Fresh(N) /\ DOMAIN node.events \subseteq DOMAIN N.events
  BY <1>3, <1>4, <1>10, AppendedOK
<1>11. node' = N
  BY <1>1 DEF event
<1> HIDE DEF N
<1> DEFINE met == history.met \/ id \in DOMAIN N.events
           entangled == history.entangled \/ Entangled(N)
           h == [history EXCEPT !.met = met, !.entangled = entangled]
<1>6. history' = h
  BY <1>1, <1>11
<1> HIDE DEF met, entangled
<1>7. h = [met |-> met, announced |-> history.announced, rewound |-> history.rewound,
           overtaken |-> history.overtaken, entangled |-> entangled]
  BY <1>4, Remet
<1> HIDE DEF h
<1>8. HistoryOK(h)
  BY <1>4, <1>7 DEF HistoryOK
<1>9. IInv'
  BY <1>2, <1>5, <1>6, <1>8, <1>11, Runs DEF RunningOK
<1> QED
  BY <1>5, <1>9, <1>11 DEF Keeps

\* A node whose views are cleared.
LEMMA ClearedOK ==
  ASSUME NEW N, NodeOK(N), InDrift(N), NEW O, DOMAIN O = DOMAIN N, O = [x \in DOMAIN N |-> O[x]],
         O.events = N.events, O.blocks = N.blocks, O.view = NoView, O.last \in Int
  PROVE  NodeOK(O) /\ InDrift(O)
<1>1. O = [events |-> O.events, blocks |-> O.blocks, view |-> O.view, shown |-> O.shown, last |-> O.last]
  BY DEF NodeOK, StoreOK
<1>2. ViewOK(O.view, O.events)
  BY NoViewOK
<1> QED
  BY <1>1, <1>2 DEF NodeOK, StoreOK, InDrift

\* A node that does not run need not show anything.
LEMMA Rests ==
  ASSUME IInv, NEW N, NodeOK(N), InDrift(N), NEW h, HistoryOK(h),
         node' = N, history' = h, now' = now, phase' \in {"down", "refused"}, setting' = setting
  PROVE  IInv'
<1>1. NodeOK(node') /\ HistoryOK(history') /\ phase' # "up"
  OBVIOUS
<1>2. \A id \in DOMAIN (node').events : (node').events[id].unix_ts <= now' + MaxFutureDrift
  BY DEF InDrift
<1> QED
  BY <1>1, <1>2 DEF IInv, InDrift

LEMMA StopStep == ASSUME IInv, Stop PROVE IInv' /\ Keeps
<1>1. /\ phase' = "down" /\ node' = [node EXCEPT !.view = NoView, !.shown = NoShown, !.last = 0]
      /\ now' = now /\ history' = history /\ setting' = setting
  BY DEF Stop
<1>2. NodeOK(node) /\ InDrift(node) /\ HistoryOK(history)
  BY DEF IInv
<1> DEFINE N == [node EXCEPT !.view = NoView, !.shown = NoShown, !.last = 0]
<1>3. DOMAIN N = DOMAIN node /\ N = [x \in DOMAIN node |-> N[x]]
  OBVIOUS
<1>4. DOMAIN node = {"events", "blocks", "view", "shown", "last"}
  BY <1>2 DEF NodeOK, StoreOK
<1>5. N.events = node.events /\ N.blocks = node.blocks /\ N.view = NoView /\ N.last = 0
  BY <1>4
<1>6. node' = N
  BY <1>1
<1> HIDE DEF N
<1>7. NodeOK(N) /\ InDrift(N)
  BY <1>2, <1>3, <1>5, ClearedOK
<1>8. IInv'
  BY <1>1, <1>2, <1>6, <1>7, Rests
<1> QED
  BY <1>5, <1>6, <1>8 DEF Keeps

\* A new genesis block holds nothing.
LEMMA GenesisCoherent ==
  ASSUME NEW t \in Int
  PROVE  /\ Coherent(NewGenesis(t), NoEvents) /\ EventsOK(NoEvents)
         /\ DOMAIN NoEvents = {} /\ DOMAIN NewGenesis(t) = {0} /\ NewGenesis(t)[0].event_ids = {}
<1> DEFINE first == NewGenesis(t)
           evs == NoEvents
<1>1. EventsOK(evs) /\ DOMAIN evs = {}
  BY DEF NoEvents, EventsOK
<1>2. DOMAIN first = {0} /\ first[0] = Timeline!NewBlock(t) /\ first = [i \in DOMAIN first |-> first[i]]
  BY DEF NewGenesis
<1>3. Timeline!NewBlock(t) \in Placing!BlockRecord /\ Timeline!NewBlock(t).event_ids = {}
  BY SameTimeline, Placing!NewBlockType, PlacingConstants
<1> HIDE DEF first, evs
<1>4. Placing!TimelineOK(first)
  BY <1>2, <1>3 DEF Placing!TimelineOK
<1>5. Placing!PlacedOnce(first, {})
  BY <1>2, <1>3 DEF Placing!PlacedOnce
<1> QED
  BY <1>1, <1>2, <1>3, <1>4, <1>5 DEF Coherent, BlocksOK, first, evs

LEMMA QuarantinedOK ==
  ASSUME now \in Int, NEW N, NodeOK(N)
  PROVE  /\ NodeOK(Quarantined(N)) /\ InDrift(Quarantined(N))
         /\ Quarantined(N).events = NoEvents /\ Quarantined(N).blocks = NewGenesis(now)
         /\ DOMAIN NoEvents = {}
<1> DEFINE evs == NoEvents
           bs == NewGenesis(now)
           B == [N EXCEPT !.events = evs, !.blocks = bs]
           O == Quarantined(N)
<1>1. O = Replayed(B)
  BY DEF Quarantined
<1>2. Coherent(bs, evs) /\ EventsOK(evs) /\ DOMAIN evs = {}
  BY GenesisCoherent
<1> HIDE DEF evs, bs, O
<1>3. B = [N EXCEPT !.events = evs, !.blocks = bs]
  OBVIOUS
<1>4. /\ N.last \in Int
      /\ N = [events |-> N.events, blocks |-> N.blocks, view |-> N.view, shown |-> N.shown, last |-> N.last]
  BY DEF NodeOK, StoreOK
<1> HIDE DEF B
<1>5. /\ B = [events |-> B.events, blocks |-> B.blocks, view |-> B.view, shown |-> B.shown, last |-> B.last]
      /\ B.events = evs /\ B.blocks = bs /\ B.last = N.last
  BY <1>3, <1>4
<1>6. StoreOK(B)
  BY <1>2, <1>4, <1>5 DEF StoreOK
<1>7. NodeOK(O) /\ O.events = evs /\ O.blocks = bs
  BY <1>1, <1>5, <1>6, ReplayedOK
<1>8. InDrift(O)
  BY <1>2, <1>7 DEF InDrift
<1> QED
  BY <1>2, <1>7, <1>8 DEF O, evs, bs

LEMMA RoutineCheckInDrift ==
  ASSUME now \in Int, NEW N, NodeOK(N), InDrift(N)
  PROVE  InDrift(RoutineCheck(N))
  BY RoutineCheckOK DEF InDrift

\* The slots that are added leave the genesis block alone.
LEMMA SlotsKeepGenesis ==
  ASSUME NEW bs, Placing!TimelineOK(bs), NEW t \in Int
  PROVE  Timeline!EnsureBlockSlots(bs, t)[0] = bs[0]
<1> DEFINE last == Timeline!Back(bs)
           due == (t - bs[last].opened_unix) \div BlockInterval
           fresh == {i \in (last + 1)..(last + due) : i <= last + MaxReservePerCheck}
           new(i) == Timeline!NewBlock(bs[last].opened_unix + (i - last) * BlockInterval)
<1>1. Timeline!EnsureBlockSlots(bs, t) = [i \in DOMAIN bs \cup fresh |-> IF i \in DOMAIN bs THEN bs[i] ELSE new(i)]
  BY DEF Timeline!EnsureBlockSlots
<1>2. 0 \in DOMAIN bs
  BY DEF Placing!TimelineOK
<1> HIDE DEF fresh, new
<1> QED
  BY <1>1, <1>2

\* Why a start may drop events.
Cause(N) == Conflict(N.events) \/ Aliens(N) # {} \/ N.blocks[0].event_ids # {}

LEMMA StartStep == ASSUME IInv, Start PROVE IInv' /\ (Keeps \/ Cause(node)) /\ phase \in {"down", "refused"}
<1> DEFINE bs == Timeline!EnsureBlockSlots(node.blocks, now)
           O == [node EXCEPT !.blocks = bs]
           opened == Replayed(O)
           own == IF opened.blocks[0].event_ids = {} THEN opened ELSE Quarantined(opened)
           checked == RoutineCheck(own)
           repaired == IF RollsBack(checked) THEN RoutineCheck(RolledBack(checked)) ELSE checked
           N == IF Aliens(repaired) = {} THEN repaired ELSE RoutineCheck(Quarantined(repaired))
           resting == [N EXCEPT !.view = NoView, !.shown = NoShown]
           rewound == history.rewound \/ \E x \in Mine(N) : N.events[x].unix_ts >= now
           h == [history EXCEPT !.rewound = rewound]
<1>1. /\ phase' = IF Valid(N) THEN "up" ELSE "refused"
      /\ node' = IF Valid(N) THEN N ELSE resting
      /\ history' = h /\ now' = now /\ setting' = setting
      /\ phase \in {"down", "refused"}
  BY DEF Start
<1>2. NodeOK(node) /\ InDrift(node) /\ HistoryOK(history) /\ now \in Int
  BY Clock DEF IInv
<1>3. Coherent(bs, node.events) /\ bs[0] = node.blocks[0]
  BY <1>2, SlotsCoherent, SlotsKeepGenesis DEF NodeOK, StoreOK, Coherent, BlocksOK
<1> HIDE DEF bs, rewound
<1>4. O = [events |-> node.events, blocks |-> bs, view |-> node.view, shown |-> node.shown, last |-> node.last]
  BY <1>2 DEF NodeOK, StoreOK
<1>5. h = [met |-> history.met, announced |-> history.announced, rewound |-> rewound,
           overtaken |-> history.overtaken, entangled |-> history.entangled]
  BY <1>2 DEF HistoryOK
<1> HIDE DEF O, h
<1>6. HistoryOK(h)
  BY <1>2, <1>5 DEF HistoryOK
<1>7. /\ O = [events |-> O.events, blocks |-> O.blocks, view |-> O.view, shown |-> O.shown, last |-> O.last]
      /\ O.events = node.events /\ O.blocks = bs /\ O.last = node.last
  BY <1>4
<1>8. StoreOK(O)
  BY <1>2, <1>3, <1>7 DEF NodeOK, StoreOK
<1>9. NodeOK(opened) /\ opened.events = node.events /\ opened.blocks = bs
  BY <1>7, <1>8, ReplayedOK
<1> HIDE DEF opened
<1>16. InDrift(opened)
  BY <1>2, <1>9 DEF InDrift
<1>10. /\ NodeOK(own) /\ InDrift(own)
       /\ own.events = node.events \/ node.blocks[0].event_ids # {}
  BY <1>2, <1>3, <1>9, <1>16, QuarantinedOK
<1> HIDE DEF own
<1>11. /\ NodeOK(checked) /\ InDrift(checked) /\ Fresh(checked) /\ checked.events = own.events
  BY <1>2, <1>10, RoutineCheckOK, RoutineCheckInDrift
<1> HIDE DEF checked
<1>17. /\ NodeOK(repaired) /\ InDrift(repaired) /\ Fresh(repaired)
       /\ repaired.events = checked.events \/ Conflict(checked.events)
  <2>1. CASE ~ RollsBack(checked)
    BY <1>11, <2>1
  <2>2. CASE RollsBack(checked)
    <3>1. NodeOK(RolledBack(checked)) /\ InDrift(RolledBack(checked))
      BY <1>11, RolledBackOK
    <3>2. NodeOK(RoutineCheck(RolledBack(checked))) /\ Fresh(RoutineCheck(RolledBack(checked)))
      BY <1>2, <3>1, RoutineCheckOK
    <3>3. InDrift(RoutineCheck(RolledBack(checked)))
      BY <1>2, <3>1, RoutineCheckInDrift
    <3>4. Conflict(checked.events)
      BY <1>11, <2>2 DEF RollsBack, NodeOK, ViewOK
    <3> QED
      BY <2>2, <3>2, <3>3, <3>4
  <2> QED
    BY <2>1, <2>2
<1> HIDE DEF repaired
<1>12. /\ NodeOK(N) /\ InDrift(N) /\ Fresh(N)
       /\ N.events = repaired.events \/ Aliens(repaired) # {}
  <2>1. CASE Aliens(repaired) = {}
    BY <1>17, <2>1
  <2>2. CASE Aliens(repaired) # {}
    <3>1. NodeOK(Quarantined(repaired)) /\ InDrift(Quarantined(repaired))
      BY <1>2, <1>17, QuarantinedOK
    <3> QED
      BY <1>2, <2>2, <3>1, RoutineCheckOK, RoutineCheckInDrift
  <2> QED
    BY <2>1, <2>2
<1>13. DOMAIN node.events \subseteq DOMAIN N.events \/ Cause(node)
  <2>1. repaired.events = node.events => Aliens(repaired) = Aliens(node)
    BY DEF Aliens
  <2> HIDE DEF N
  <2> QED
    BY <1>10, <1>11, <1>12, <1>17, <2>1 DEF Cause
<1> HIDE DEF N
<1>14. CASE Valid(N)
  <2>1. node' = N /\ phase' = "up"
    BY <1>1, <1>14
  <2>2. NodeOK(node') /\ Fresh(node') /\ HistoryOK(history')
    BY <1>1, <1>6, <1>12, <2>1
  <2>3. \A id \in DOMAIN (node').events : (node').events[id].unix_ts <= now' + MaxFutureDrift
    BY <1>1, <1>12, <2>1 DEF InDrift
  <2>4. IInv'
    BY <1>1, <2>1, <2>2, <2>3 DEF IInv, InDrift
  <2> QED
    BY <1>1, <1>13, <2>1, <2>4 DEF Keeps
<1>15. CASE ~ Valid(N)
  <2>1. node' = resting /\ phase' = "refused"
    BY <1>1, <1>15
  <2>2. DOMAIN resting = DOMAIN N /\ resting = [x \in DOMAIN N |-> resting[x]]
    OBVIOUS
  <2>3. DOMAIN N = {"events", "blocks", "view", "shown", "last"} /\ N.last \in Int
    BY <1>12 DEF NodeOK, StoreOK
  <2>4. resting.events = N.events /\ resting.blocks = N.blocks /\ resting.view = NoView /\ resting.last = N.last
    BY <2>3
  <2> HIDE DEF resting
  <2>5. NodeOK(resting) /\ InDrift(resting)
    BY <1>12, <2>2, <2>3, <2>4, ClearedOK
  <2>6. IInv'
    BY <1>1, <1>6, <2>1, <2>5, Rests
  <2> QED
    BY <1>1, <1>13, <2>1, <2>4, <2>6 DEF Keeps
<1> QED
  BY <1>14, <1>15

-----------------------------------------------------------------------------
(* The invariant holds.                                                    *)

LEMMA InitIInv == Init => IInv
<1> SUFFICES ASSUME Init PROVE IInv
  OBVIOUS
<1> DEFINE bs == Checked(NewGenesis(0))
           evs == NoEvents
<1>1. /\ now = setting.age /\ phase = "up" /\ setting \in Settings
      /\ node = [events |-> evs, blocks |-> bs, view |-> NoView, shown |-> NoShown, last |-> 0]
  BY DEF Init
<1>2. HistoryOK(history)
  <2> DEFINE no == FALSE
  <2>1. history = [met |-> no, announced |-> {}, rewound |-> no, overtaken |-> no, entangled |-> no]
    BY DEF Init
  <2> HIDE DEF no
  <2> QED
    BY <2>1 DEF HistoryOK
<1>3. now \in Int /\ now \in 0..setting.horizon /\ setting \in Setting
  BY <1>1, CommunitySettings DEF CommunitySettings, Setting
<1>4. EventsOK(evs) /\ DOMAIN evs = {}
  BY GenesisCoherent
<1> HIDE DEF evs
<1>5. Coherent(bs, evs)
  BY <1>3, GenesisCoherent, CheckedCoherent DEF evs
<1> HIDE DEF bs
<1>6. /\ node = [events |-> node.events, blocks |-> node.blocks, view |-> node.view, shown |-> node.shown,
                 last |-> node.last]
      /\ node.events = evs /\ node.blocks = bs /\ node.view = NoView /\ node.shown = NoShown /\ node.last = 0
  BY <1>1
<1>7. NodeOK(node)
  BY <1>4, <1>5, <1>6, NoViewOK DEF NodeOK, StoreOK
<1>8. Fresh(node)
  <2>1. NoView.board = C!EmptyBoard
    BY DEF NoView
  <2> QED
    BY <1>6, <2>1, NoShownFresh DEF Fresh
<1>9. InDrift(node)
  BY <1>4, <1>6 DEF InDrift
<1> QED
  BY <1>1, <1>2, <1>3, <1>7, <1>8, <1>9 DEF IInv

LEMMA TickStep == ASSUME IInv, Tick PROVE IInv' /\ Keeps
<1>1. now < setting.horizon /\ now' = now + 1 /\ phase' = phase /\ node' = node /\ history' = history /\ setting' = setting
  BY DEF Tick
<1>2. now \in Nat /\ setting.horizon \in Nat
  BY Clock
<1>3. \A id \in DOMAIN node.events : node.events[id].unix_ts <= now + 1 + MaxFutureDrift
  BY <1>2, CommunityConstants DEF IInv, InDrift, NodeOK, StoreOK, EventsOK, CommunityConstants
<1>4. \A id \in DOMAIN (node').events : (node').events[id].unix_ts <= now' + MaxFutureDrift
  BY <1>1, <1>3
<1>5. NodeOK(node') /\ HistoryOK(history') /\ (phase' = "up" => Fresh(node'))
  BY <1>1 DEF IInv
<1>6. now' \in 0..(setting').horizon
  BY <1>1, <1>2
<1>7. IInv'
  BY <1>1, <1>4, <1>5, <1>6 DEF IInv, InDrift
<1> QED
  BY <1>1, <1>7 DEF Keeps

LEMMA NextStep == ASSUME IInv, [Next]_vars PROVE IInv' /\ (Keeps \/ (Cause(node) /\ phase \in {"down", "refused"}))
<1>1. CASE Tick
  BY <1>1, TickStep
<1>2. CASE LocalPost
  BY <1>2, LocalPostStep
<1>3. CASE LocalModeration
  BY <1>3, LocalModerationStep
<1>4. CASE TransferRewards
  BY <1>4, TransferStep
<1>5. CASE SetDisplayName
  BY <1>5, NameStep
<1>6. CASE SyncTick
  BY <1>6, SyncTickStep
<1>7. ASSUME NEW author \in setting.authors \ {Me}, NEW e \in Foreign(author), NEW lag \in setting.lags,
             IngestRemoteEvent(e, now - lag)
      PROVE  IInv' /\ Keeps
  <2>1. setting \in Setting /\ author \in Cids /\ lag \in Int
    BY DEF IInv, Setting
  <2>2. e \in Says /\ now - lag \in Int
    BY <2>1, ForeignIsSays, Clock
  <2> QED
    BY <1>7, <2>2, IngestStep
<1>8. CASE Stop
  BY <1>8, StopStep
<1>9. CASE Start
  BY <1>9, StartStep
<1>10. CASE UNCHANGED vars
  <2>1. now' = now /\ phase' = phase /\ node' = node /\ history' = history /\ setting' = setting
    BY <1>10 DEF vars
  <2>2. \A id \in DOMAIN (node').events : (node').events[id].unix_ts <= now' + MaxFutureDrift
    BY <2>1 DEF IInv, InDrift
  <2>3. NodeOK(node') /\ HistoryOK(history') /\ (phase' = "up" => Fresh(node'))
    BY <2>1 DEF IInv
  <2>4. IInv'
    BY <2>1, <2>2, <2>3 DEF IInv, InDrift
  <2> QED
    BY <2>1, <2>4 DEF Keeps
<1> QED
  BY <1>1, <1>2, <1>3, <1>4, <1>5, <1>6, <1>7, <1>8, <1>9, <1>10 DEF Next

LEMMA IInvAlways == Spec => []IInv
<1>1. IInv /\ [Next]_vars => IInv'
  BY NextStep
<1> QED
  BY <1>1, InitIInv, PTL DEF Spec

-----------------------------------------------------------------------------
(* A node alone.  Where its events are placed: a block before the one that *)
(* holds an event had no room for it and has none, so a new event is       *)
(* placed after the others, or it is smaller than the ones it is before.   *)

Room(bs, evs, size, i) ==
  /\ ~ bs[i].confirmed /\ Cardinality(bs[i].event_ids) < MaxBlockEvents
  /\ Placing!Size(evs, bs[i].event_ids) + size <= MaxBlockBytes

Orderly(bs, evs) ==
  \A id \in DOMAIN evs : \A i \in DOMAIN bs : i < BlockOf(bs, id) => ~ Room(bs, evs, evs[id].size, i)

LEMMA BlockIs ==
  ASSUME NEW bs, NEW evs, Coherent(bs, evs), NEW id \in DOMAIN evs
  PROVE  /\ id \in bs[BlockOf(bs, id)].event_ids
         /\ \A i \in DOMAIN bs : id \in bs[i].event_ids => BlockOf(bs, id) = i
<1>1. \E i \in DOMAIN bs : id \in bs[i].event_ids
  BY DEF Coherent, Placing!PlacedOnce
<1>2. BlockOf(bs, id) \in DOMAIN bs /\ id \in bs[BlockOf(bs, id)].event_ids
  BY <1>1 DEF BlockOf
<1>3. ASSUME NEW i \in DOMAIN bs, id \in bs[i].event_ids PROVE BlockOf(bs, id) = i
  BY <1>2, <1>3 DEF Coherent, Placing!PlacedOnce
<1> QED
  BY <1>2, <1>3

\* Blocks that grow keep their events.
LEMMA SamePlaces ==
  ASSUME NEW bs, NEW evs, Coherent(bs, evs), NEW cs, NEW fvs, Coherent(cs, fvs), DOMAIN evs \subseteq DOMAIN fvs,
         DOMAIN bs \subseteq DOMAIN cs, \A i \in DOMAIN bs : bs[i].event_ids \subseteq cs[i].event_ids,
         NEW id \in DOMAIN evs
  PROVE  BlockOf(cs, id) = BlockOf(bs, id)
<1>1. BlockOf(bs, id) \in DOMAIN cs /\ id \in cs[BlockOf(bs, id)].event_ids
  BY BlockIs, PlacedBlock
<1> QED
  BY <1>1, BlockIs

\* What the block check does to where the events are.
SamePlaced(bs, cs, evs) ==
  /\ Coherent(cs, evs) /\ Orderly(cs, evs)
  /\ \A id \in DOMAIN evs : BlockOf(cs, id) = BlockOf(bs, id)
  /\ Timeline!Confirmed(bs) \subseteq Timeline!Confirmed(cs)

LEMMA SlotsPlaced ==
  ASSUME NEW bs, NEW evs, Coherent(bs, evs), Orderly(bs, evs), NEW t \in Int
  PROVE  /\ SamePlaced(bs, Timeline!EnsureBlockSlots(bs, t), evs)
         /\ Timeline!Confirmed(Timeline!EnsureBlockSlots(bs, t)) = Timeline!Confirmed(bs)
<1> DEFINE last == Timeline!Back(bs)
           due == (t - bs[last].opened_unix) \div BlockInterval
           fresh == {i \in (last + 1)..(last + due) : i <= last + MaxReservePerCheck}
           opened(i) == bs[last].opened_unix + (i - last) * BlockInterval
           cs == Timeline!EnsureBlockSlots(bs, t)
<1>1. cs = [i \in DOMAIN bs \cup fresh |-> IF i \in DOMAIN bs THEN bs[i] ELSE Timeline!NewBlock(opened(i))]
  BY DEF Timeline!EnsureBlockSlots
<1>2. last \in DOMAIN bs /\ last \in Nat /\ \A i \in DOMAIN bs : i <= last
  BY Placing!BackIsLast, PlacingConstants, SameTimeline DEF Coherent, BlocksOK, Placing!TimelineOK
<1>3. \A i \in fresh : i > last /\ i \in Int
  BY <1>2
<1>4. Coherent(cs, evs)
  BY SlotsCoherent
<1>5. \A u : ~ Timeline!NewBlock(u).confirmed
  BY DEF Timeline!NewBlock
<1> HIDE DEF cs, fresh, opened, last
<1>6. DOMAIN cs = DOMAIN bs \cup fresh /\ \A i \in DOMAIN bs : cs[i] = bs[i]
  BY <1>1
<1>7. \A i \in DOMAIN cs \ DOMAIN bs : ~ cs[i].confirmed /\ i > last
  BY <1>1, <1>3, <1>5
<1>8. \A id \in DOMAIN evs : BlockOf(cs, id) = BlockOf(bs, id)
  BY <1>4, <1>6, SamePlaces
<1>9. Timeline!Confirmed(cs) = Timeline!Confirmed(bs)
  BY <1>6, <1>7 DEF Timeline!Confirmed
<1>10. Orderly(cs, evs)
  <2> SUFFICES ASSUME NEW id \in DOMAIN evs, NEW i \in DOMAIN cs, i < BlockOf(cs, id)
                      PROVE  ~ Room(cs, evs, evs[id].size, i)
    BY DEF Orderly
  <2>1. BlockOf(bs, id) \in DOMAIN bs /\ BlockOf(bs, id) <= last /\ BlockOf(bs, id) \in Nat
    BY <1>2, PlacedBlock
  <2>2. i \in DOMAIN bs
    BY <1>2, <1>3, <1>6, <1>7, <1>8, <2>1
  <2> QED
    BY <1>6, <1>8, <2>2 DEF Orderly, Room
<1> QED
  BY <1>4, <1>8, <1>9, <1>10 DEF SamePlaced, cs

LEMMA ConfirmPlaced ==
  ASSUME NEW bs, NEW evs, Coherent(bs, evs), Orderly(bs, evs), NEW t \in Int
  PROVE  SamePlaced(bs, Timeline!ConfirmDue(bs, t), evs)
<1> DEFINE cs == Timeline!ConfirmDue(bs, t)
<1>1. Coherent(cs, evs)
  BY SlotsCoherent
<1>2. ASSUME NEW i \in DOMAIN bs
      PROVE  /\ cs[i].event_ids = bs[i].event_ids
             /\ bs[i].confirmed => cs[i].confirmed
  <2>1. bs[i] \in Placing!BlockRecord
    BY DEF Coherent, BlocksOK, Placing!TimelineOK
  <2>2. cs[i] = [bs[i] EXCEPT !.confirmed = bs[i].confirmed \/ t - bs[i].opened_unix >= BlockInterval]
    BY DEF Timeline!ConfirmDue
  <2> DEFINE confirmed == bs[i].confirmed \/ t - bs[i].opened_unix >= BlockInterval
  <2>3. bs[i].confirmed => confirmed
    OBVIOUS
  <2>4. cs[i] = [bs[i] EXCEPT !.confirmed = confirmed]
    BY <2>2
  <2> HIDE DEF confirmed, cs
  <2> QED
    BY <2>1, <2>3, <2>4 DEF Placing!BlockRecord
<1>3. DOMAIN cs = DOMAIN bs
  BY DEF Timeline!ConfirmDue
<1> HIDE DEF cs
<1>4. \A id \in DOMAIN evs : BlockOf(cs, id) = BlockOf(bs, id)
  BY <1>1, <1>2, <1>3, SamePlaces
<1>5. Timeline!Confirmed(bs) \subseteq Timeline!Confirmed(cs)
  BY <1>2, <1>3 DEF Timeline!Confirmed
<1>6. \A i \in DOMAIN cs : \A size : Room(cs, evs, size, i) => Room(bs, evs, size, i)
  BY <1>2, <1>3 DEF Room
<1>7. Orderly(cs, evs)
  BY <1>3, <1>4, <1>6 DEF Orderly
<1> QED
  BY <1>1, <1>4, <1>5, <1>7 DEF SamePlaced, cs

LEMMA CheckedPlaced ==
  ASSUME now \in Int, NEW bs, NEW evs, Coherent(bs, evs), Orderly(bs, evs)
  PROVE  SamePlaced(bs, Checked(bs), evs)
<1> DEFINE cs == Timeline!EnsureBlockSlots(bs, now)
<1>1. SamePlaced(bs, cs, evs)
  BY SlotsPlaced
<1> HIDE DEF cs
<1>2. SamePlaced(cs, Timeline!ConfirmDue(cs, now), evs)
  BY <1>1, ConfirmPlaced DEF SamePlaced
<1>3. SamePlaced(bs, Timeline!ConfirmDue(cs, now), evs)
  BY <1>1, <1>2 DEF SamePlaced
<1> QED
  BY <1>3 DEF Checked, cs

LEMMA SizesOfBlock ==
  ASSUME NEW bs, NEW evs, Coherent(bs, evs), EventsOK(evs), NEW i \in DOMAIN bs
  PROVE  /\ bs[i].event_ids \subseteq DOMAIN evs /\ IsFiniteSet(bs[i].event_ids)
         /\ \A x \in DOMAIN evs : evs[x].size \in Nat
         /\ Placing!Size(evs, bs[i].event_ids) \in Nat
<1> DEFINE S == bs[i].event_ids
<1>1. S \subseteq DOMAIN evs
  BY DEF Coherent, Placing!PlacedOnce
<1>2. IsFiniteSet(S)
  BY <1>1, EventsFinite, FS_Subset
<1>3. \A x \in DOMAIN evs : evs[x].size \in Nat
  BY CommunityConstants DEF EventsOK, CommunityConstants
<1> HIDE DEF S
<1>4. PICK g : Placing!Totals(g, evs, S)
  BY <1>1, <1>2, <1>3, SameFinite, Placing!TotalsExist, PlacingConstants
<1>5. Placing!Size(evs, S) = g[S]
  BY <1>2, <1>4, SameFinite, Placing!SizeIsTotal, PlacingConstants
<1>6. g[S] \in Nat
  BY <1>4 DEF Placing!Totals
<1> QED
  BY <1>1, <1>2, <1>3, <1>5, <1>6 DEF S

LEMMA RoomIs ==
  ASSUME NEW bs, NEW evs, Coherent(bs, evs), EventsOK(evs), NEW fvs, \A x \in DOMAIN evs : fvs[x] = evs[x],
         NEW id, NEW i \in DOMAIN bs
  PROVE  /\ Placing!HasRoom(bs, fvs, id, i) <=> Room(bs, evs, fvs[id].size, i)
         /\ Placing!Size(fvs, bs[i].event_ids) = Placing!Size(evs, bs[i].event_ids)
<1> DEFINE S == bs[i].event_ids
<1>1. IsFiniteSet(S) /\ \A x \in S : evs[x].size \in Nat /\ fvs[x].size = evs[x].size
  BY SizesOfBlock
<1> HIDE DEF S
<1>2. Placing!Size(fvs, S) = Placing!Size(evs, S)
  BY <1>1, SameFinite, Placing!SizeOfSame, PlacingConstants
<1>3. Placing!BlockEventBytes(bs, fvs, i) = Placing!Size(fvs, S)
  BY DEF Placing!BlockEventBytes, Placing!Size, S
<1>4. Placing!Cardinality(S) = Cardinality(S)
  BY DEF Placing!Cardinality, Cardinality
<1> QED
  BY <1>2, <1>3, <1>4 DEF Placing!HasRoom, Room, S

\* Where a new event goes: into the first block with room for it, or into one after all
\* others.
LEMMA AssignedAfter ==
  ASSUME NEW bs, NEW evs, Coherent(bs, evs), EventsOK(evs), Orderly(bs, evs),
         NEW id \in EventIds, id \notin DOMAIN evs, NEW fvs, EventsOK(fvs), DOMAIN fvs = DOMAIN evs \cup {id},
         \A x \in DOMAIN evs : fvs[x] = evs[x]
  PROVE  LET cs == Timeline!AssignEvent(bs, fvs, id)
         IN  /\ Coherent(cs, fvs) /\ Orderly(cs, fvs)
             /\ Timeline!Confirmed(cs) = Timeline!Confirmed(bs)
             /\ \A x \in DOMAIN evs :
                  /\ BlockOf(cs, x) = BlockOf(bs, x)
                  /\ BlockOf(bs, x) <= BlockOf(cs, id) \/ fvs[id].size < evs[x].size
<1> DEFINE roomy == {i \in DOMAIN bs : Placing!HasRoom(bs, fvs, id, i)}
           slot == IF roomy = {} THEN Placing!Back(bs) + 1 ELSE Placing!Min(roomy)
           b == IF roomy = {} THEN Placing!NewBlock(fvs[id].unix_ts) ELSE bs[slot]
           reserved == b.backfilled \/ b.reserved
           no == FALSE
           c == [b EXCEPT !.backfilled = reserved, !.reserved = no, !.event_ids = @ \cup {id}]
           cs == Timeline!AssignEvent(bs, fvs, id)
           size == fvs[id].size
<1>1. cs = [i \in DOMAIN bs \cup {slot} |-> IF i = slot THEN c ELSE bs[i]]
  BY SameAssign DEF Placing!AssignEvent
<1>2. Coherent(cs, fvs)
  <2>0. fvs[id].unix_ts \in Int
    BY DEF EventsOK
  <2>1. /\ Placing!TimelineOK(Placing!AssignEvent(bs, fvs, id))
        /\ Placing!PlacedOnce(Placing!AssignEvent(bs, fvs, id), DOMAIN evs \cup {id})
    BY <2>0, Placing!AssignEventOK, PlacingConstants DEF Coherent, BlocksOK
  <2> QED
    BY <2>1, SameAssign DEF Coherent, BlocksOK
<1>3. Placing!TimelineOK(bs) /\ DOMAIN bs \subseteq Nat
  BY DEF Coherent, BlocksOK, Placing!TimelineOK
<1>4. Placing!Back(bs) \in Nat /\ \A i \in DOMAIN bs : i <= Placing!Back(bs)
  BY <1>3, Placing!BackIsLast, PlacingConstants
<1>5. \A i \in DOMAIN bs : i \in roomy <=> Room(bs, evs, size, i)
  BY RoomIs
<1>6. roomy # {} => slot \in roomy /\ \A i \in roomy : slot <= i
  BY <1>3, Placing!MinOfNats, PlacingConstants
<1>7. slot \in Nat /\ \A i \in DOMAIN bs : i < slot => ~ Room(bs, evs, size, i)
  <2> HIDE DEF roomy, size
  <2>1. CASE roomy = {}
    <3>1. slot = Placing!Back(bs) + 1
      BY <2>1
    <3> QED
      BY <1>4, <1>5, <2>1, <3>1
  <2>2. CASE roomy # {}
    <3>1. slot \in roomy /\ (\A i \in roomy : slot <= i) /\ slot \in Nat /\ roomy \subseteq Nat
      BY <1>3, <1>6, <2>2 DEF roomy
    <3> HIDE DEF slot
    <3> QED
      BY <1>3, <1>5, <3>1
  <2> QED
    BY <2>1, <2>2
<1>8. \/ slot \in DOMAIN bs /\ Room(bs, evs, size, slot) /\ b = bs[slot]
      \/ slot \notin DOMAIN bs /\ (\A i \in DOMAIN bs : i < slot)
           /\ b = Placing!NewBlock(fvs[id].unix_ts)
  <2>1. CASE roomy = {}
    <3>1. slot = Placing!Back(bs) + 1 /\ b = Placing!NewBlock(fvs[id].unix_ts)
      BY <2>1
    <3> HIDE DEF slot, b
    <3>2. \A i \in DOMAIN bs : i < slot
      BY <1>3, <1>4, <3>1
    <3>3. slot \notin DOMAIN bs
      BY <1>7, <3>2
    <3> QED
      BY <3>1, <3>2, <3>3
  <2>2. CASE roomy # {}
    <3>1. slot \in roomy /\ b = bs[slot]
      BY <1>6, <2>2
    <3> QED
      BY <1>5, <3>1
  <2> QED
    BY <2>1, <2>2
<1>9. b \in Placing!BlockRecord
  <2>1. fvs[id].unix_ts \in Int
    BY DEF EventsOK
  <2> HIDE DEF b, slot, size
  <2> QED
    BY <1>3, <1>8, <2>1, Placing!NewBlockType, PlacingConstants DEF Placing!TimelineOK
<1>10. ~ b.confirmed /\ (slot \notin DOMAIN bs => b.event_ids = {})
  <2> HIDE DEF b, slot, size
  <2> QED
    BY <1>8 DEF Room, Placing!NewBlock
<1> HIDE DEF roomy, slot, b, reserved, no
<1>11. ~ c.confirmed /\ c.event_ids = b.event_ids \cup {id}
  BY <1>9, <1>10 DEF Placing!BlockRecord
<1> HIDE DEF c
<1>12. /\ DOMAIN cs = DOMAIN bs \cup {slot} /\ cs[slot] = c
       /\ \A i \in DOMAIN bs : i # slot => cs[i] = bs[i]
  BY <1>1
<1> HIDE DEF cs
<1>13. \A i \in DOMAIN bs : bs[i].event_ids \subseteq cs[i].event_ids
  BY <1>8, <1>11, <1>12
<1>14. \A x \in DOMAIN evs : BlockOf(cs, x) = BlockOf(bs, x)
  BY <1>2, <1>12, <1>13, SamePlaces
<1>15. BlockOf(cs, id) = slot
  <2>1. id \in cs[slot].event_ids /\ slot \in DOMAIN cs /\ id \in DOMAIN fvs
    BY <1>11, <1>12
  <2> QED
    BY <1>2, <2>1, BlockIs
<1>16. Timeline!Confirmed(cs) = Timeline!Confirmed(bs)
  BY <1>8, <1>11, <1>12 DEF Timeline!Confirmed, Room
<1>20. size \in Nat /\ \A x \in DOMAIN evs : evs[x].size \in Nat
  BY CommunityConstants DEF EventsOK, CommunityConstants
<1> HIDE DEF size
<1>17. ASSUME NEW x \in DOMAIN evs PROVE BlockOf(bs, x) <= slot \/ size < evs[x].size
  <2>1. BlockOf(bs, x) \in DOMAIN bs /\ BlockOf(bs, x) \in Nat
    BY PlacedBlock
  <2>2. CASE slot \in DOMAIN bs /\ slot < BlockOf(bs, x)
    <3>1. Room(bs, evs, size, slot) /\ ~ Room(bs, evs, evs[x].size, slot)
      BY <1>8, <2>2 DEF Orderly
    <3>2. Placing!Size(evs, bs[slot].event_ids) \in Nat
      BY <2>2, SizesOfBlock
    <3>3. MaxBlockBytes \in Nat
      BY CommunityConstants DEF CommunityConstants
    <3> QED
      BY <1>20, <3>1, <3>2, <3>3 DEF Room
  <2>3. CASE ~ (slot \in DOMAIN bs /\ slot < BlockOf(bs, x))
    BY <1>7, <1>8, <2>1, <2>3
  <2> QED
    BY <2>2, <2>3
<1>18. ASSUME NEW i \in DOMAIN bs, NEW s \in Nat, Room(cs, fvs, s, i) PROVE Room(bs, evs, s, i)
  <2> DEFINE S == bs[i].event_ids
  <2>0. Placing!Size(fvs, S) = Placing!Size(evs, S)
    BY RoomIs
  <2>1. CASE i # slot
    <3>1. cs[i] = bs[i]
      BY <1>12, <2>1
    <3> QED
      BY <1>18, <2>0, <3>1 DEF Room
  <2>2. CASE i = slot
    <3>1. ~ bs[i].confirmed /\ cs[i].event_ids = S \cup {id} /\ Cardinality(S) < MaxBlockEvents
      BY <1>8, <1>11, <1>12, <2>2 DEF Room
    <3>2. /\ IsFiniteSet(S) /\ id \notin S /\ Placing!Size(evs, S) \in Nat
          /\ \A x \in S : fvs[x].size \in Nat
      BY SizesOfBlock
    <3>3. fvs[id].size \in Nat
      BY <1>20 DEF size
    <3> HIDE DEF S
    <3>4. Placing!Size(fvs, S \cup {id}) = Placing!Size(fvs, S) + fvs[id].size
      BY <3>2, <3>3, SameFinite, Placing!SizeOfOneMore, PlacingConstants
    <3>5. Placing!Size(fvs, S \cup {id}) + s <= MaxBlockBytes /\ MaxBlockBytes \in Nat
      BY <1>18, <3>1, CommunityConstants DEF Room, CommunityConstants
    <3>6. Placing!Size(evs, S) + s <= MaxBlockBytes
      BY <2>0, <3>2, <3>3, <3>4, <3>5
    <3> QED
      BY <3>1, <3>6 DEF Room, S
  <2> QED
    BY <2>1, <2>2
<1>19. Orderly(cs, fvs)
  <2> SUFFICES ASSUME NEW x \in DOMAIN fvs, NEW i \in DOMAIN cs, i < BlockOf(cs, x), Room(cs, fvs, fvs[x].size, i)
               PROVE  FALSE
    BY DEF Orderly
  <2>1. BlockOf(cs, x) \in DOMAIN cs /\ BlockOf(cs, x) \in Nat
    BY <1>2, PlacedBlock
  <2>2. i \in DOMAIN bs
    BY <1>3, <1>7, <1>8, <1>12, <2>1
  <2>3. fvs[x].size \in Nat
    BY <1>20 DEF size
  <2>4. Room(bs, evs, fvs[x].size, i)
    BY <1>18, <2>2, <2>3
  <2>5. CASE x = id
    BY <1>7, <1>15, <2>2, <2>4, <2>5 DEF size
  <2>6. CASE x \in DOMAIN evs
    <3>1. i < BlockOf(bs, x) /\ fvs[x] = evs[x]
      BY <1>14, <2>6
    <3> QED
      BY <2>2, <2>4, <2>6, <3>1 DEF Orderly
  <2> QED
    BY <2>5, <2>6
<1> QED
  BY <1>2, <1>14, <1>15, <1>16, <1>17, <1>19 DEF cs, size

-----------------------------------------------------------------------------
(* The order of a store that grows at its end.                             *)

\* Only the keys decide the order.
LEMMA SameOrder ==
  ASSUME NEW evs, NEW fvs, DOMAIN fvs = DOMAIN evs, NEW bs, NEW cs,
         \A x \in DOMAIN evs : SortKey(fvs, cs, x) = SortKey(evs, bs, x)
  PROVE  ReplayOrder(fvs, cs) = ReplayOrder(evs, bs)
<1> DEFINE Ranked(keys) ==
             LET placed == {<<Cardinality(Earlier(keys, p)) + 1, p[4]>> : p \in keys}
             IN  [k \in 1..Cardinality(keys) |-> (CHOOSE at \in placed : at[1] = k)[2]]
<1>1. {SortKey(fvs, cs, x) : x \in DOMAIN fvs} = {SortKey(evs, bs, x) : x \in DOMAIN evs}
  OBVIOUS
<1>2. /\ ReplayOrder(evs, bs) = Ranked({SortKey(evs, bs, x) : x \in DOMAIN evs})
      /\ ReplayOrder(fvs, cs) = Ranked({SortKey(fvs, cs, x) : x \in DOMAIN fvs})
  BY DEF ReplayOrder
<1> HIDE DEF Ranked
<1> QED
  BY <1>1, <1>2

\* An event whose key is after all others is replayed last.
LEMMA LaterIsLast ==
  ASSUME NEW evs, EventsOK(evs), NEW bs, Coherent(bs, evs), NEW fvs, EventsOK(fvs), NEW cs, Coherent(cs, fvs),
         NEW id, id \notin DOMAIN evs, DOMAIN fvs = DOMAIN evs \cup {id},
         \A x \in DOMAIN evs : SortKey(fvs, cs, x) = SortKey(evs, bs, x),
         \A x \in DOMAIN evs : Before(SortKey(fvs, cs, x), SortKey(fvs, cs, id))
  PROVE  ReplayOrder(fvs, cs) = Append(ReplayOrder(evs, bs), id)
<1> DEFINE keys == {SortKey(evs, bs, x) : x \in DOMAIN evs}
           more == {SortKey(fvs, cs, x) : x \in DOMAIN fvs}
           p == SortKey(fvs, cs, id)
           Pair(K, q) == <<Cardinality(Earlier(K, q)) + 1, q[4]>>
           placed == {Pair(keys, q) : q \in keys}
           others == {Pair(more, q) : q \in more}
           n == Cardinality(keys)
           order == ReplayOrder(evs, bs)
           longer == ReplayOrder(fvs, cs)
<1>1. order = [k \in 1..n |-> (CHOOSE at \in placed : at[1] = k)[2]]
  BY DEF ReplayOrder
<1>2. longer = [k \in 1..Cardinality(more) |-> (CHOOSE at \in others : at[1] = k)[2]]
  BY DEF ReplayOrder
<1>3. keys \subseteq Key /\ IsFiniteSet(keys) /\ n \in Nat
  BY KeysTyped
<1>4. p \in Key /\ p[4] = id /\ more \subseteq Key
  BY KeysTyped
<1>5. more = keys \cup {p}
  <2>1. \A q : q \in more <=> \E x \in DOMAIN evs \cup {id} : q = SortKey(fvs, cs, x)
    OBVIOUS
  <2>2. \A q : q \in keys <=> \E x \in DOMAIN evs : q = SortKey(evs, bs, x)
    OBVIOUS
  <2>3. \A x \in DOMAIN evs : SortKey(fvs, cs, x) = SortKey(evs, bs, x)
    OBVIOUS
  <2> HIDE DEF keys, more
  <2>4. \A q : q \in more <=> q \in keys \/ q = p
    BY <2>1, <2>2, <2>3
  <2> QED
    BY <2>4
<1>6. \A q \in keys : Before(q, p)
  OBVIOUS
<1> HIDE DEF keys, more, p
<1>7. p \notin keys /\ Earlier(more, p) = keys /\ \A q \in keys : Earlier(more, q) = Earlier(keys, q)
  <2>1. \A q \in Key : ~ Before(q, q)
    BY BeforeOrders
  <2>2. \A q \in keys : ~ Before(p, q)
    <3> SUFFICES ASSUME NEW q \in keys, Before(p, q) PROVE FALSE
      OBVIOUS
    <3>1. Before(q, p) /\ q \in Key
      BY <1>3, <1>6
    <3>2. Before(q, q)
      BY <1>4, <3>1, BeforeOrders
    <3> QED
      BY <2>1, <3>1, <3>2
  <2> QED
    BY <1>4, <1>5, <1>6, <2>1, <2>2 DEF Earlier
<1>8. Cardinality(more) = n + 1
  BY <1>3, <1>5, <1>7, FS_AddElement
<1>9. others = placed \cup {<<n + 1, id>>}
  BY <1>4, <1>5, <1>7
<1>10. \A at \in placed : at[1] \in 1..n
  <2> SUFFICES ASSUME NEW q \in keys PROVE Cardinality(Earlier(keys, q)) + 1 \in 1..n
    OBVIOUS
  <2> DEFINE place == [r \in keys |-> Cardinality(Earlier(keys, r)) + 1]
  <2>1. place \in Bijection(keys, 1..n)
    BY <1>3, PlacesOfKeys
  <2>2. place[q] = Cardinality(Earlier(keys, q)) + 1
    OBVIOUS
  <2> HIDE DEF place, n
  <2>3. place[q] \in 1..n
    BY <2>1 DEF Bijection, Injection
  <2> QED
    BY <2>2, <2>3
<1> HIDE DEF n, placed, others, order, longer
<1>11. ASSUME NEW k \in 1..n PROVE longer[k] = order[k]
  <2>1. \A at : (at \in others /\ at[1] = k) <=> (at \in placed /\ at[1] = k)
    <3>1. <<n + 1, id>>[1] = n + 1 /\ k # n + 1
      BY <1>3
    <3> QED
      BY <1>9, <3>1
  <2>2. (CHOOSE at \in others : at[1] = k) = (CHOOSE at \in placed : at[1] = k)
    BY <2>1
  <2>3. k \in 1..Cardinality(more)
    BY <1>3, <1>8
  <2> QED
    BY <1>1, <1>2, <2>2, <2>3
<1>12. longer[n + 1] = id
  <2> DEFINE last == <<n + 1, id>>
  <2>1. last \in others /\ last[1] = n + 1
    BY <1>9
  <2>2. \A at \in others : at[1] = n + 1 => at = last
    BY <1>3, <1>9, <1>10
  <2> HIDE DEF last
  <2>3. (CHOOSE at \in others : at[1] = n + 1) = last
    BY <2>1, <2>2
  <2>4. last[2] = id
    BY DEF last
  <2>5. n + 1 \in 1..Cardinality(more)
    BY <1>3, <1>8
  <2> QED
    BY <1>2, <2>3, <2>4, <2>5
<1>13. Lists(order, DOMAIN evs) /\ Lists(longer, DOMAIN fvs)
  BY OrderLists DEF order, longer
<1>14. order \in Seq(DOMAIN fvs) /\ longer \in Seq(DOMAIN fvs) /\ id \in DOMAIN fvs
  BY <1>13 DEF Lists
<1>15. Len(order) = n /\ Len(longer) = n + 1
  <2>1. DOMAIN order = 1..n /\ DOMAIN longer = 1..(n + 1)
    BY <1>1, <1>2, <1>8
  <2>2. n + 1 \in Nat
    BY <1>3
  <2> QED
    BY <1>3, <1>14, <2>1, <2>2
<1>16. longer = Append(order, id)
  <2> DEFINE s == Append(order, id)
  <2>1. /\ s \in Seq(DOMAIN fvs) /\ Len(s) = n + 1 /\ s[n + 1] = id
        /\ \A k \in 1..n : s[k] = order[k]
    BY <1>3, <1>14, <1>15
  <2> HIDE DEF s
  <2>2. \A k \in 1..(n + 1) : s[k] = longer[k]
    BY <1>3, <1>11, <1>12, <2>1
  <2>3. s = [k \in 1..(n + 1) |-> s[k]] /\ longer = [k \in 1..(n + 1) |-> longer[k]]
    BY <1>14, <1>15, <2>1
  <2>4. s = longer
    BY <2>2, <2>3
  <2> QED
    BY <2>4 DEF s
<1> QED
  BY <1>16 DEF order, longer

-----------------------------------------------------------------------------
(* An account of the stored events: ledgers from the empty one to the last *)
(* by which the replay accepts every event.                                *)

AccountStep(l, m, e, confirmed) ==
  IF IsEconomic(e) THEN L!Accepted(l, Economic(e), confirmed) /\ m = L!ApplyEvent(l, Economic(e), confirmed)
  ELSE m = l

Accounts(g, evs, order, confirmed) ==
  /\ g[0] = L!EmptyLedger
  /\ \A n \in Nat : n + 1 <= Len(order) => AccountStep(g[n], g[n + 1], evs[order[n + 1]].says, confirmed)

\* The replay accepts every event and ends with this ledger.
Sound(evs, bs, l) ==
  LET order == ReplayOrder(evs, bs)
  IN  \E g : Accounts(g, evs, order, Timeline!Confirmed(bs) \cap BlockIndices) /\ l = g[Len(order)]

\* What is accepted stays accepted as blocks are confirmed.
LEMMA StepStays ==
  ASSUME NEW l, NEW m, NEW e, NEW C1, NEW C2, C1 \subseteq C2, AccountStep(l, m, e, C1)
  PROVE  AccountStep(l, m, e, C2)
<1> DEFINE d == Economic(e)
<1>1. CASE ~ IsEconomic(e)
  BY <1>1 DEF AccountStep
<1>2. CASE IsEconomic(e)
  <2>1. L!Accepted(l, d, C1) /\ m = L!ApplyEvent(l, d, C1)
    BY <1>2 DEF AccountStep
  <2> HIDE DEF d
  <2>2. L!Accepted(l, d, C2)
    BY <2>1 DEF L!Accepted, L!ClaimAccepted
  <2>3. L!ApplyEvent(l, d, C2) = L!ApplyEvent(l, d, C1)
    BY <2>1, <2>2 DEF L!ApplyEvent
  <2> QED
    BY <1>2, <2>1, <2>2, <2>3 DEF AccountStep, d
<1> QED
  BY <1>1, <1>2

LEMMA SoundStays ==
  ASSUME NEW evs, EventsOK(evs), NEW bs, Coherent(bs, evs), NEW cs, SamePlaced(bs, cs, evs), NEW l, Sound(evs, bs, l)
  PROVE  Sound(evs, cs, l)
<1> DEFINE order == ReplayOrder(evs, bs)
           C1 == Timeline!Confirmed(bs) \cap BlockIndices
           C2 == Timeline!Confirmed(cs) \cap BlockIndices
<1>1. ReplayOrder(evs, cs) = order
  BY SameOrder DEF SamePlaced, SortKey
<1>2. C1 \subseteq C2
  BY DEF SamePlaced
<1>3. PICK g : Accounts(g, evs, order, C1) /\ l = g[Len(order)]
  BY DEF Sound
<1> HIDE DEF order, C1, C2
<1>4. Accounts(g, evs, order, C2)
  BY <1>2, <1>3, StepStays DEF Accounts
<1> QED
  BY <1>1, <1>3, <1>4 DEF Sound, C2

\* One event more, replayed after the others.
LEMMA SoundGrows ==
  ASSUME NEW evs, EventsOK(evs), NEW bs, Coherent(bs, evs), NEW l, Sound(evs, bs, l),
         NEW fvs, EventsOK(fvs), NEW cs, Coherent(cs, fvs), Timeline!Confirmed(bs) \subseteq Timeline!Confirmed(cs),
         NEW id, id \notin DOMAIN evs, DOMAIN fvs = DOMAIN evs \cup {id},
         \A x \in DOMAIN evs : fvs[x] = evs[x] /\ BlockOf(cs, x) = BlockOf(bs, x),
         \A x \in DOMAIN evs : /\ BlockOf(bs, x) <= BlockOf(cs, id)
                               /\ evs[x].unix_ts < fvs[id].unix_ts,
         NEW m, AccountStep(l, m, fvs[id].says, Timeline!Confirmed(cs) \cap BlockIndices)
  PROVE  Sound(fvs, cs, m)
<1> DEFINE order == ReplayOrder(evs, bs)
           longer == ReplayOrder(fvs, cs)
           C1 == Timeline!Confirmed(bs) \cap BlockIndices
           C2 == Timeline!Confirmed(cs) \cap BlockIndices
           n == Len(order)
<1>1. \A x \in DOMAIN evs : SortKey(fvs, cs, x) = SortKey(evs, bs, x)
  BY DEF SortKey
<1>2. ASSUME NEW x \in DOMAIN evs PROVE Before(SortKey(fvs, cs, x), SortKey(fvs, cs, id))
  <2> DEFINE p == SortKey(fvs, cs, x)
             q == SortKey(fvs, cs, id)
  <2>1. p \in Key /\ q \in Key
    BY KeysTyped
  <2>2. p[1] = BlockOf(bs, x) /\ q[1] = BlockOf(cs, id) /\ p[2] = evs[x].unix_ts /\ q[2] = fvs[id].unix_ts
    BY DEF SortKey
  <2>3. BlockOf(bs, x) \in Nat /\ BlockOf(cs, id) \in Nat
    BY PlacedBlock
  <2> HIDE DEF p, q
  <2>4. p[1] < q[1] \/ (p[1] = q[1] /\ p[2] < q[2])
    BY <2>2, <2>3
  <2>5. Before(p, q)
    BY <2>1, <2>4, BeforeForm
  <2> QED
    BY <2>5 DEF p, q
<1>3. longer = Append(order, id)
  BY <1>1, <1>2, LaterIsLast
<1>4. Lists(order, DOMAIN evs)
  BY OrderLists
<1>5. PICK g : Accounts(g, evs, order, C1) /\ l = g[n]
  BY DEF Sound
<1>6. C1 \subseteq C2
  OBVIOUS
<1>7. AccountStep(l, m, fvs[id].says, C2)
  OBVIOUS
<1> HIDE DEF order, longer, C1, C2
<1>8. /\ order \in Seq(DOMAIN evs) /\ n \in Nat /\ \A k \in 1..n : order[k] \in DOMAIN evs
  BY <1>4 DEF Lists
<1>9. order \in Seq(DOMAIN fvs) /\ id \in DOMAIN fvs
  BY <1>8
<1>10. Len(longer) = n + 1 /\ longer[n + 1] = id /\ \A k \in 1..n : longer[k] = order[k]
  BY <1>3, <1>8, <1>9
<1> DEFINE h == [k \in Nat |-> IF k <= n THEN g[k] ELSE m]
<1> HIDE DEF n
<1>11. h[0] = g[0] /\ (\A k \in Nat : k <= n => h[k] = g[k]) /\ h[n + 1] = m
  BY <1>8
<1> HIDE DEF h
<1>12. ASSUME NEW k \in Nat, k + 1 <= Len(longer)
       PROVE  AccountStep(h[k], h[k + 1], fvs[longer[k + 1]].says, C2)
  <2>1. CASE k + 1 <= n
    <3>1. k <= n /\ k + 1 \in Nat /\ k + 1 \in 1..n
      BY <1>8, <2>1
    <3>2. AccountStep(g[k], g[k + 1], evs[order[k + 1]].says, C1)
      BY <1>5, <2>1 DEF Accounts, n
    <3>3. longer[k + 1] = order[k + 1] /\ fvs[order[k + 1]] = evs[order[k + 1]]
      BY <1>8, <1>10, <3>1
    <3>4. h[k] = g[k] /\ h[k + 1] = g[k + 1]
      BY <1>11, <2>1, <3>1
    <3> QED
      BY <1>6, <3>2, <3>3, <3>4, StepStays
  <2>2. CASE ~ (k + 1 <= n)
    <3>1. k = n
      BY <1>8, <1>10, <1>12, <2>2
    <3>2. h[k] = l /\ h[k + 1] = m /\ longer[k + 1] = id
      BY <1>5, <1>8, <1>10, <1>11, <3>1
    <3> QED
      BY <1>7, <3>2
  <2> QED
    BY <2>1, <2>2
<1>13. Accounts(h, fvs, longer, C2)
  BY <1>5, <1>11, <1>12 DEF Accounts
<1>14. m = h[Len(longer)]
  BY <1>10, <1>11
<1> QED
  BY <1>13, <1>14 DEF Sound, longer, C2

\* The replay's first loop follows the account.
Follows(E, l) ==
  /\ E = [ledger |-> E.ledger, entries |-> E.entries, invalid |-> E.invalid, duplicate |-> E.duplicate]
  /\ E.ledger = l /\ E.invalid = {} /\ E.duplicate = {}

LEMMA FollowsStep ==
  ASSUME NEW E, NEW l, Follows(E, l), NEW evs, NEW id, NEW confirmed, NEW m,
         AccountStep(l, m, evs[id].says, confirmed)
  PROVE  Follows(EconomyStep(E, evs, id, confirmed), m)
<1> DEFINE e == Economic(evs[id].says)
           F == EconomyStep(E, evs, id, confirmed)
<1>1. CASE ~ IsEconomic(evs[id].says)
  BY <1>1 DEF AccountStep, EconomyStep
<1>2. CASE IsEconomic(evs[id].says)
  <2>1. L!Accepted(E.ledger, e, confirmed) /\ m = L!ApplyEvent(E.ledger, e, confirmed)
    BY <1>2 DEF AccountStep, Follows
  <2> DEFINE entries == E.entries \cup Touched(E.ledger, e)
                        \cup (CASE e.kind = "claim" -> {e.author} [] e.kind = "transfer" -> {e.to} [] OTHER -> {})
  <2>2. F = [E EXCEPT !.ledger = L!ApplyEvent(E.ledger, e, confirmed), !.entries = entries]
    BY <1>2, <2>1 DEF EconomyStep
  <2>3. F = [E EXCEPT !.ledger = m, !.entries = entries]
    BY <2>1, <2>2
  <2> HIDE DEF entries, F, e
  <2>4. F = [ledger |-> m, entries |-> entries, invalid |-> {}, duplicate |-> {}]
    BY <2>3 DEF Follows
  <2>5. Follows(F, m)
    BY <2>4 DEF Follows
  <2> QED
    BY <2>5 DEF F
<1> QED
  BY <1>1, <1>2

LEMMA SoundEconomy ==
  ASSUME NEW evs, EventsOK(evs), NEW bs, Coherent(bs, evs), NEW l, Sound(evs, bs, l)
  PROVE  Follows(Economy(evs, bs, ReplayOrder(evs, bs)), l)
<1> DEFINE order == ReplayOrder(evs, bs)
           confirmed == Timeline!Confirmed(bs) \cap BlockIndices
<1>1. Lists(order, DOMAIN evs)
  BY OrderLists
<1>2. PICK a : Accounts(a, evs, order, confirmed) /\ l = a[Len(order)]
  BY DEF Sound
<1> HIDE DEF order
<1>3. Len(order) \in Nat
  BY <1>1, DoneGrows
<1>4. PICK g : EconomyRuns(g, evs, bs, order) /\ Economy(evs, bs, order) = g[Len(order)]
  BY <1>3, EconomyRun
<1> DEFINE N == {n \in Nat : n <= Len(order) => Follows(g[n], a[n])}
<1>5. 0 \in N
  <2>1. g[0] = NoEconomy /\ a[0] = L!EmptyLedger
    BY <1>2, <1>4 DEF EconomyRuns, Accounts
  <2>2. Follows(g[0], a[0])
    BY <2>1 DEF Follows, NoEconomy
  <2> QED
    BY <2>2
<1>6. ASSUME NEW n \in Nat, n \in N PROVE n + 1 \in N
  <2> SUFFICES ASSUME n + 1 <= Len(order) PROVE Follows(g[n + 1], a[n + 1])
    OBVIOUS
  <2>1. Follows(g[n], a[n])
    BY <1>3, <1>6
  <2>2. g[n + 1] = EconomyStep(g[n], evs, order[n + 1], confirmed)
    BY <1>4 DEF EconomyRuns
  <2>3. AccountStep(a[n], a[n + 1], evs[order[n + 1]].says, confirmed)
    BY <1>2 DEF Accounts
  <2> HIDE DEF confirmed
  <2> QED
    BY <2>1, <2>2, <2>3, FollowsStep
<1>7. Nat \subseteq N
  <2> HIDE DEF N
  <2> QED
    BY <1>5, <1>6, Placing!NatSetInduction, PlacingConstants
<1> QED
  BY <1>2, <1>3, <1>4, <1>7 DEF order

-----------------------------------------------------------------------------
(* The moderation of a node alone.                                         *)

\* All events are the node's own; one that takes a moderator was made by one.
Own(e) == e.author = Me /\ (IsModeration(e) /\ e.kind # "ContentFlagged" => Me \in Seeds)

AllOwn(evs) == \A id \in DOMAIN evs : Own(evs[id].says) /\ ~ evs[id].alien

\* No moderator was removed.
Peaceful(evs) == \A id \in DOMAIN evs : evs[id].says.kind # "ModeratorRemoved"

\* After own events: the moderators are at least those of the profile, and exactly
\* those when the node is none of them; with no removals, nothing is rejected.
Moderated(F, peaceful) ==
  /\ F = [moderation |-> F.moderation, rejected |-> F.rejected, posts |-> F.posts]
  /\ "moderators" \in DOMAIN F.moderation
  /\ peaceful => Seeds \subseteq F.moderation.moderators /\ F.rejected = {}
  /\ Me \notin Seeds => F.moderation.moderators = Seeds

LEMMA ModerationStep ==
  ASSUME NEW V, "moderators" \in DOMAIN V, NEW e \in Says, IsModeration(e), Own(e), NEW count
  PROVE  LET W == M!ApplyModeration(V, e, count)
         IN  /\ "moderators" \in DOMAIN W
             /\ Seeds \subseteq V.moderators /\ e.kind # "ModeratorRemoved" => Seeds \subseteq W.moderators
             /\ Me \notin Seeds => W.moderators = V.moderators
<1> DEFINE W == M!ApplyModeration(V, e, count)
<1>1. CASE W = V
  BY <1>1
<1>2. CASE W = M!ApplyRole(V, e) /\ e.kind \in M!RoleKinds
  <2>1. Me \in Seeds
    BY <1>2 DEF Own, M!RoleKinds
  <2> DEFINE added == V.moderators \cup {e.target}
             fewer == V.moderators \ {e.target}
  <2>2. \/ W = V
        \/ W = [V EXCEPT !.moderators = added]
        \/ W = [V EXCEPT !.moderators = fewer] /\ e.kind = "ModeratorRemoved"
    BY <1>2 DEF M!ApplyRole, M!RoleKinds
  <2>3. Seeds \subseteq V.moderators => Seeds \subseteq added
    OBVIOUS
  <2> HIDE DEF added, fewer, W
  <2>4. \/ W = V
        \/ "moderators" \in DOMAIN W /\ W.moderators = added
        \/ "moderators" \in DOMAIN W /\ e.kind = "ModeratorRemoved"
    BY <2>2
  <2>5. /\ "moderators" \in DOMAIN W
        /\ Seeds \subseteq V.moderators /\ e.kind # "ModeratorRemoved" => Seeds \subseteq W.moderators
    BY <2>3, <2>4
  <2> QED
    BY <2>1, <2>5 DEF W
<1>3. CASE W = M!ApplyObject(V, e) /\ e.kind \notin M!RoleKinds
  <2> DEFINE P(X) == "moderators" \in DOMAIN X /\ X.moderators = V.moderators
  <2>1. \A S, T : P([V EXCEPT !.hidden = S, !.auto_hidden = T])
    OBVIOUS
  <2>2. \A S : P([V EXCEPT !.pins = S])
    OBVIOUS
  <2>3. \A x : P(M!Flag(V, x))
    <3> TAKE x
    <3> DEFINE R == [V.flags EXCEPT ![x] = V.flags[x] + 1]
               hides == V.flags[x] + 1 >= V.policy.flags
               S == IF hides THEN V.hidden \cup {x} ELSE V.hidden
               T == IF hides THEN V.auto_hidden \cup {x} ELSE V.auto_hidden
    <3>1. M!Flag(V, x) = [V EXCEPT !.flags = R, !.hidden = S, !.auto_hidden = T]
      BY DEF M!Flag
    <3> HIDE DEF R, S, T
    <3>2. P([V EXCEPT !.flags = R, !.hidden = S, !.auto_hidden = T])
      OBVIOUS
    <3> HIDE DEF P
    <3> QED
      BY <3>1, <3>2
  <2>4. P(V)
    OBVIOUS
  <2>5. e.kind \in M!VisibilityKinds \cup M!PinKinds
    BY <1>3 DEF IsModeration
  <2>6. P(M!ApplyObject(V, e))
    <3> HIDE DEF P
    <3>1. CASE e.object = NoObject
      BY <2>4, <3>1 DEF M!ApplyObject
    <3>2. CASE e.object # NoObject /\ e.kind = "ContentFlagged"
      BY <2>3, <3>2 DEF M!ApplyObject
    <3>3. CASE e.object # NoObject /\ e.kind = "ContentHidden"
      BY <2>1, <3>3 DEF M!ApplyObject
    <3>4. CASE e.object # NoObject /\ e.kind = "ContentUnhidden"
      BY <2>1, <3>4 DEF M!ApplyObject
    <3>5. CASE e.object # NoObject /\ e.kind = "CoreTopicPinned"
      BY <2>2, <3>5 DEF M!ApplyObject
    <3>6. CASE e.object # NoObject /\ e.kind = "CoreTopicUnpinned"
      BY <2>2, <3>6 DEF M!ApplyObject
    <3> QED
      BY <2>5, <3>1, <3>2, <3>3, <3>4, <3>5, <3>6 DEF M!VisibilityKinds, M!PinKinds
  <2> HIDE DEF W
  <2>7. P(W)
    BY <1>3, <2>6
  <2> QED
    BY <2>7 DEF W
<1>4. e.kind # "PolicyUpdated"
  BY DEF IsModeration, M!RoleKinds, M!VisibilityKinds, M!PinKinds
<1> QED
  BY <1>1, <1>2, <1>3, <1>4 DEF M!ApplyModeration

LEMMA NotRejected ==
  ASSUME NEW V, Seeds \subseteq V.moderators, NEW e \in Says, IsModeration(e), Own(e),
         e.kind # "ModeratorRemoved", NEW count
  PROVE  ~ IsRejected(V, e, count)
<1>1. M!ModeratorRequired(e.kind) => e.author \in V.moderators
  BY DEF M!ModeratorRequired, Own
<1>2. e.kind \in M!RoleKinds => e.target # NoCid
  <2>1. e \in RoleSays \cup ObjectSays
    BY SaysByKind
  <2> QED
    BY <2>1, CommunityConstants
    DEF RoleSays, ObjectSays, M!RoleKinds, M!VisibilityKinds, M!PinKinds, CommunityConstants
<1> QED
  BY <1>1, <1>2 DEF IsRejected

LEMMA ModeratedStep ==
  ASSUME NEW F, NEW peaceful, Moderated(F, peaceful), NEW evs, NEW bs, NEW id, NEW invalid,
         evs[id].says \in Says, Own(evs[id].says), peaceful => evs[id].says.kind # "ModeratorRemoved"
  PROVE  Moderated(ForumStep(F, evs, bs, id, invalid), peaceful)
<1> DEFINE e == evs[id].says
           G == ForumStep(F, evs, bs, id, invalid)
           count == Confirmations(bs, id)
<1>1. CASE IsModeration(e)
  <2> DEFINE moderation == M!ApplyModeration(F.moderation, e, count)
             rejected == IF IsRejected(F.moderation, e, count) THEN F.rejected \cup {id} ELSE F.rejected
  <2>1. G = [F EXCEPT !.moderation = moderation, !.rejected = rejected]
    BY <1>1 DEF ForumStep
  <2>2. /\ "moderators" \in DOMAIN moderation
        /\ Seeds \subseteq F.moderation.moderators /\ e.kind # "ModeratorRemoved" => Seeds \subseteq moderation.moderators
        /\ Me \notin Seeds => moderation.moderators = F.moderation.moderators
    BY <1>1, ModerationStep DEF Moderated
  <2>3. peaceful => rejected = {}
    BY <1>1, NotRejected DEF Moderated
  <2> HIDE DEF moderation, rejected, G
  <2>4. G = [moderation |-> moderation, rejected |-> rejected, posts |-> F.posts]
    BY <2>1 DEF Moderated
  <2>5. /\ G = [moderation |-> G.moderation, rejected |-> G.rejected, posts |-> G.posts]
        /\ G.rejected = rejected /\ G.moderation = moderation
    BY <2>4
  <2>6. Moderated(G, peaceful)
    BY <2>2, <2>3, <2>5 DEF Moderated
  <2> QED
    BY <2>6 DEF G
<1>2. CASE ~ IsModeration(e)
  <2> DEFINE posts == C!AddPost(F.posts, id, e)
  <2>1. G = F \/ G = [F EXCEPT !.posts = posts]
    BY <1>2 DEF ForumStep
  <2> HIDE DEF posts, G
  <2>2. /\ G = [moderation |-> G.moderation, rejected |-> G.rejected, posts |-> G.posts]
        /\ G.rejected = F.rejected /\ G.moderation = F.moderation
    BY <2>1 DEF Moderated
  <2>3. Moderated(G, peaceful)
    BY <2>2 DEF Moderated
  <2> QED
    BY <2>3 DEF G
<1> QED
  BY <1>1, <1>2

LEMMA ModeratedForum ==
  ASSUME NEW evs, EventsOK(evs), AllOwn(evs), NEW bs, NEW order, Lists(order, DOMAIN evs), NEW invalid, NEW policy
  PROVE  Moderated(Forum(evs, bs, order, invalid, policy), Peaceful(evs))
<1> DEFINE peaceful == Peaceful(evs)
<1>0. \A id \in DOMAIN evs : /\ evs[id].says \in Says /\ Own(evs[id].says)
                             /\ peaceful => evs[id].says.kind # "ModeratorRemoved"
  BY DEF EventsOK, AllOwn, Peaceful
<1> HIDE DEF peaceful
<1>1. PICK g : /\ ForumRuns(g, evs, bs, order, invalid, policy)
               /\ Forum(evs, bs, order, invalid, policy) = g[Len(order)]
  BY DoneGrows, ForumRun
<1> DEFINE N == {n \in Nat : n <= Len(order) => Moderated(g[n], peaceful)}
<1>2. 0 \in N
  <2>1. g[0] = NoForum(policy)
    BY <1>1 DEF ForumRuns
  <2> DEFINE cleared == M!Cleared(policy)
  <2>2. "moderators" \in DOMAIN cleared /\ cleared.moderators = Seeds
    BY DEF M!Cleared
  <2>3. g[0] = [moderation |-> cleared, rejected |-> {}, posts |-> C!NoPosts]
    BY <2>1 DEF NoForum
  <2> HIDE DEF cleared
  <2>4. Moderated(g[0], peaceful)
    BY <2>2, <2>3 DEF Moderated
  <2> QED
    BY <2>4
<1>3. ASSUME NEW n \in Nat, n \in N PROVE n + 1 \in N
  <2> SUFFICES ASSUME n + 1 <= Len(order) PROVE Moderated(g[n + 1], peaceful)
    OBVIOUS
  <2>1. Len(order) \in Nat
    BY DoneGrows
  <2>2. Moderated(g[n], peaceful)
    BY <1>3, <2>1
  <2>3. order[n + 1] \in DOMAIN evs
    BY DoneGrows
  <2>4. g[n + 1] = ForumStep(g[n], evs, bs, order[n + 1], invalid)
    BY <1>1 DEF ForumRuns
  <2> QED
    BY <1>0, <2>2, <2>3, <2>4, ModeratedStep
<1>4. Nat \subseteq N
  <2> HIDE DEF N
  <2> QED
    BY <1>2, <1>3, Placing!NatSetInduction, PlacingConstants
<1> QED
  BY <1>1, <1>4, DoneGrows DEF peaceful

\* What a replay of own events shows that are all accounted for.
LEMMA CalmView ==
  ASSUME NEW evs, EventsOK(evs), AllOwn(evs), NEW bs, Coherent(bs, evs), NEW l, Sound(evs, bs, l)
  PROVE  LET v == View(evs, bs)
         IN  /\ v.ledger = l /\ v.invalid = {} /\ v.duplicate = {}
             /\ Peaceful(evs) => v.rejected = {}
             /\ Me \notin Seeds => v.moderation.moderators = Seeds
<1> DEFINE order == ReplayOrder(evs, bs)
           E == Economy(evs, bs, order)
           F == Forum(evs, bs, order, E.invalid, setting.policy)
           v == View(evs, bs)
<1>1. Lists(order, DOMAIN evs)
  BY OrderLists
<1>2. /\ v.ledger = E.ledger /\ v.invalid = E.invalid /\ v.duplicate = E.duplicate
      /\ v.rejected = F.rejected /\ v.moderation = F.moderation
  BY DEF View
<1>3. Follows(E, l)
  BY SoundEconomy
<1> HIDE DEF v, order, E
<1>4. Moderated(F, Peaceful(evs))
  BY <1>1, ModeratedForum
<1> HIDE DEF F
<1> QED
  BY <1>2, <1>3, <1>4 DEF Follows, Moderated, v

-----------------------------------------------------------------------------
(* What a node alone stores and shows.                                     *)

\* What is stored: own events, in order, all accounted for and announced.
Calm(N, announced) ==
  /\ AllOwn(N.events) /\ Orderly(N.blocks, N.events)
  /\ \E l : Sound(N.events, N.blocks, l)
  /\ Peaceful(N.events) => DOMAIN N.events \subseteq announced

\* What the views of a running node say of it.
Serves(N) ==
  /\ Sound(N.events, N.blocks, N.view.ledger) /\ N.view.invalid = {}
  /\ Peaceful(N.events) => N.view.rejected = {}
  /\ Me \notin Seeds => N.view.moderation.moderators = Seeds

\* The next own event is later than all of them.
Timely(N) == \A id \in DOMAIN N.events : N.events[id].unix_ts <= N.last \/ N.events[id].unix_ts < now

LEMMA ReplayedServes ==
  ASSUME NEW N, StoreOK(N), AllOwn(N.events), NEW l, Sound(N.events, N.blocks, l)
  PROVE  LET O == Replayed(N)
         IN  /\ O.events = N.events /\ O.blocks = N.blocks /\ O.last = N.last
             /\ Serves(O) /\ O.view.ledger = l /\ O.view.duplicate = {}
<1> DEFINE v == View(N.events, N.blocks)
           shown == Metrics(v.board, N.blocks)
           O == Replayed(N)
<1>1. /\ v.ledger = l /\ v.invalid = {} /\ v.duplicate = {}
      /\ Peaceful(N.events) => v.rejected = {}
      /\ Me \notin Seeds => v.moderation.moderators = Seeds
  BY CalmView DEF StoreOK
<1>2. O = [N EXCEPT !.view = v, !.shown = shown]
  BY DEF Replayed
<1> HIDE DEF O, v, shown
<1>3. O = [events |-> N.events, blocks |-> N.blocks, view |-> v, shown |-> shown, last |-> N.last]
  BY <1>2 DEF StoreOK
<1>4. O.events = N.events /\ O.blocks = N.blocks /\ O.view = v /\ O.last = N.last
  BY <1>3
<1> QED
  BY <1>1, <1>4 DEF Serves, O

LEMMA CheckCalm ==
  ASSUME now \in Int, NEW N, NodeOK(N), NEW announced, Calm(N, announced)
  PROVE  LET O == RoutineCheck(N)
         IN  /\ O.events = N.events /\ O.blocks = Checked(N.blocks) /\ O.view = N.view /\ O.last = N.last
             /\ Calm(O, announced)
             /\ Serves(N) => Serves(O)
             /\ Timely(N) => Timely(O)
<1> DEFINE bs == Checked(N.blocks)
           shown == Metrics(N.view.board, bs)
           O == RoutineCheck(N)
<1>1. SamePlaced(N.blocks, bs, N.events)
  BY CheckedPlaced DEF NodeOK, StoreOK, Calm
<1>2. O = [N EXCEPT !.blocks = bs, !.shown = shown]
  BY DEF RoutineCheck
<1> HIDE DEF O, bs, shown
<1>3. O = [events |-> N.events, blocks |-> bs, view |-> N.view, shown |-> shown, last |-> N.last]
  BY <1>2 DEF NodeOK, StoreOK
<1>4. O.events = N.events /\ O.blocks = bs /\ O.view = N.view /\ O.last = N.last
  BY <1>3
<1>5. \A l : Sound(N.events, N.blocks, l) => Sound(N.events, bs, l)
  BY <1>1, SoundStays DEF NodeOK, StoreOK
<1>6. Calm(O, announced)
  BY <1>1, <1>4, <1>5 DEF Calm, SamePlaced
<1>7. Serves(N) => Serves(O)
  BY <1>4, <1>5 DEF Serves
<1>8. Timely(N) => Timely(O)
  BY <1>4 DEF Timely
<1> QED
  BY <1>4, <1>6, <1>7, <1>8 DEF O, bs

\* The replay will accept the event after all others.
Fit(N, e) == IsEconomic(e) =>
  L!Accepted(N.view.ledger, Economic(e), Timeline!Confirmed(N.blocks) \cap BlockIndices)

\* A node with one event more.
GrownBy(N, O, id, e) ==
  /\ DOMAIN O.events = DOMAIN N.events \cup {id}
  /\ AllOwn(O.events) /\ Orderly(O.blocks, O.events) /\ Serves(O)
  /\ \A x \in DOMAIN N.events : O.events[x] = N.events[x]
  /\ O.events[id].unix_ts = N.last /\ O.last = N.last
  /\ Timeline!Confirmed(O.blocks) = Timeline!Confirmed(N.blocks)
  /\ AccountStep(N.view.ledger, O.view.ledger, e, Timeline!Confirmed(N.blocks) \cap BlockIndices)

LEMMA AppendedCalm ==
  ASSUME now \in Int, NEW N, NodeOK(N), NEW announced, Calm(N, announced), Serves(N),
         NEW id \in EventIds, NEW event, EventOK(event), Own(event.says), ~ event.alien, Fit(N, event.says),
         event.unix_ts = N.last, \A x \in DOMAIN N.events : N.events[x].unix_ts < N.last
  PROVE  LET O == Appended(N, id, event)
         IN  \/ O = N
             \/ id \in DOMAIN O.events /\ Overtakes(O, id)
             \/ GrownBy(N, O, id, event.says)
<1> DEFINE e == event.says
           ts == N.last
           evs == [x \in DOMAIN N.events \cup {id} |-> IF x = id THEN event ELSE N.events[x]]
           as == Timeline!AssignEvent(N.blocks, evs, id)
           bs == Timeline!EnsureBlockSlots(as, now)
           B == [N EXCEPT !.events = evs, !.blocks = bs]
           O == Appended(N, id, event)
<1>1. CASE ~ Stored(N, id, event)
  BY <1>1 DEF Appended
<1>2. CASE Stored(N, id, event)
  <2>1. O = Replayed(B)
    BY <1>2 DEF Appended
  <2>2. id \notin DOMAIN N.events
    BY <1>2 DEF Stored
  <2>3. EventsOK(N.events) /\ Coherent(N.blocks, N.events) /\ ts \in Int /\ Orderly(N.blocks, N.events)
    BY DEF NodeOK, StoreOK, Calm
  <2>4. DOMAIN evs = DOMAIN N.events \cup {id} /\ evs = [x \in DOMAIN evs |-> evs[x]]
    OBVIOUS
  <2>5. /\ evs[id] = event
        /\ \A x \in DOMAIN N.events : evs[x] = N.events[x]
    BY <2>2
  <2>6. evs[id].says = e /\ evs[id].unix_ts = ts
    BY <2>5
  <2> HIDE DEF evs, as, bs, O
  <2>7. EventsOK(evs)
    BY <2>3, <2>4, <2>5 DEF EventsOK, EventOK
  <2>8. /\ Coherent(as, evs) /\ Orderly(as, evs)
        /\ Timeline!Confirmed(as) = Timeline!Confirmed(N.blocks)
        /\ \A x \in DOMAIN N.events :
             /\ BlockOf(as, x) = BlockOf(N.blocks, x)
             /\ BlockOf(N.blocks, x) <= BlockOf(as, id) \/ evs[id].size < N.events[x].size
    BY <2>2, <2>3, <2>4, <2>5, <2>7, AssignedAfter DEF as
  <2>9. SamePlaced(as, bs, evs) /\ Timeline!Confirmed(bs) = Timeline!Confirmed(as)
    BY <2>8, SlotsPlaced DEF bs
  <2>10. /\ Coherent(bs, evs) /\ Orderly(bs, evs)
         /\ Timeline!Confirmed(bs) = Timeline!Confirmed(N.blocks)
         /\ \A x \in DOMAIN N.events :
              /\ BlockOf(bs, x) = BlockOf(N.blocks, x)
              /\ BlockOf(N.blocks, x) <= BlockOf(bs, id) \/ evs[id].size < N.events[x].size
    BY <2>4, <2>8, <2>9 DEF SamePlaced
  <2>14. AllOwn(evs)
    BY <2>4, <2>5 DEF AllOwn, Calm
  <2>15. B = [N EXCEPT !.events = evs, !.blocks = bs]
    OBVIOUS
  <2>16. /\ N.last \in Int
         /\ N = [events |-> N.events, blocks |-> N.blocks, view |-> N.view, shown |-> N.shown, last |-> N.last]
    BY DEF NodeOK, StoreOK
  <2> HIDE DEF B
  <2>17. /\ B = [events |-> B.events, blocks |-> B.blocks, view |-> B.view, shown |-> B.shown, last |-> B.last]
         /\ B.events = evs /\ B.blocks = bs /\ B.last = N.last
    BY <2>15, <2>16
  <2>18. StoreOK(B)
    BY <2>7, <2>10, <2>16, <2>17 DEF StoreOK
  <2>21. CASE \E x \in DOMAIN N.events : ~ (BlockOf(N.blocks, x) <= BlockOf(bs, id))
    <3>1. PICK x \in DOMAIN N.events : ~ (BlockOf(N.blocks, x) <= BlockOf(bs, id))
      BY <2>21
    <3>2. O.events = evs /\ O.blocks = bs
      BY <2>1, <2>17, <2>18, ReplayedOK
    <3>3. x \in DOMAIN evs /\ id \in DOMAIN evs
      BY <2>4
    <3>4. BlockOf(bs, x) \in Nat /\ BlockOf(bs, id) \in Nat
      BY <2>10, <3>3, PlacedBlock
    <3>5. BlockOf(bs, id) < BlockOf(bs, x) /\ evs[id].size < evs[x].size
      BY <2>5, <2>10, <3>1, <3>4
    <3>6. x \in Mine(O)
      BY <2>14, <3>2, <3>3 DEF Mine, AllOwn, Own
    <3>7. Overtakes(O, id) /\ id \in DOMAIN O.events
      BY <3>2, <3>3, <3>5, <3>6 DEF Overtakes
    <3> QED
      BY <3>7 DEF O
  <2>22. CASE \A x \in DOMAIN N.events : BlockOf(N.blocks, x) <= BlockOf(bs, id)
    <3> DEFINE C1 == Timeline!Confirmed(N.blocks) \cap BlockIndices
               l == N.view.ledger
    <3>11. \E m : AccountStep(l, m, e, C1)
      <4>1. IsEconomic(e) => L!Accepted(l, Economic(e), C1)
        BY DEF Fit
      <4> HIDE DEF C1, l, e
      <4> QED
        BY <4>1 DEF AccountStep
    <3>12. PICK m : AccountStep(l, m, e, C1)
      BY <3>11
    <3>13. Sound(evs, bs, m)
      <4> DEFINE F0 == N.events
                 B0 == N.blocks
                 C2 == Timeline!Confirmed(bs) \cap BlockIndices
      <4>1. Sound(F0, B0, l) /\ EventsOK(F0) /\ Coherent(B0, F0)
        BY <2>3 DEF Serves
      <4>2. /\ id \notin DOMAIN F0 /\ DOMAIN evs = DOMAIN F0 \cup {id}
            /\ Timeline!Confirmed(B0) \subseteq Timeline!Confirmed(bs)
        BY <2>2, <2>4, <2>10
      <4>3. \A x \in DOMAIN F0 : evs[x] = F0[x] /\ BlockOf(bs, x) = BlockOf(B0, x)
        BY <2>5, <2>10
      <4>4. \A x \in DOMAIN F0 : F0[x].unix_ts < evs[id].unix_ts
        BY <2>6
      <4>5. \A x \in DOMAIN F0 : BlockOf(B0, x) <= BlockOf(bs, id) /\ F0[x].unix_ts < evs[id].unix_ts
        BY <2>22, <4>4
      <4>6. AccountStep(l, m, evs[id].says, C2)
        BY <2>6, <2>10, <3>12
      <4> HIDE DEF l, F0, B0, C2
      <4>7. AccountStep(l, m, evs[id].says, Timeline!Confirmed(bs) \cap BlockIndices)
        BY <4>6 DEF C2
      <4> QED
        BY <2>7, <2>10, <4>1, <4>2, <4>3, <4>5, <4>7, SoundGrows
    <3>19. /\ O.events = evs /\ O.blocks = bs /\ O.last = N.last
           /\ Serves(O) /\ O.view.ledger = m
      BY <2>1, <2>14, <2>17, <2>18, <3>13, ReplayedServes
    <3>20. GrownBy(N, O, id, e)
      BY <2>4, <2>5, <2>6, <2>10, <2>14, <3>12, <3>19 DEF GrownBy
    <3> QED
      BY <3>20 DEF O
  <2> QED
    BY <2>21, <2>22
<1> QED
  BY <1>1, <1>2

\* A node that makes events while it is alone.
AloneOK(S) == Calm(S.node, S.history.announced) /\ Serves(S.node) /\ Timely(S.node)

LEMMA MadeAlone ==
  ASSUME now \in Int, NEW S, StateOK(S), AloneOK(S), NEW id \in EventIds, NEW e \in Says, Own(e), Fit(S.node, e),
         NEW size \in Sizes, NEW always, ~ Made(S, id, e, size, always).history.overtaken
  PROVE  LET T == Made(S, id, e, size, always)
         IN  /\ AloneOK(T)
             /\ Timeline!Confirmed(T.node.blocks) = Timeline!Confirmed(S.node.blocks)
             /\ \/ T.node.view.ledger = S.node.view.ledger
                \/ AccountStep(S.node.view.ledger, T.node.view.ledger, e,
                               Timeline!Confirmed(S.node.blocks) \cap BlockIndices)
<1> DEFINE ts == LocalTime(S.node)
           event == Event(e, ts, size, FALSE)
           N == [S.node EXCEPT !.last = ts]
           O == Appended(N, id, event)
           T == Made(S, id, e, size, always)
           a == S.history.announced
<1>1. NodeOK(S.node) /\ InDrift(S.node) /\ Fresh(S.node) /\ S.node.last \in Int
  BY DEF StateOK, RunningOK, NodeOK, StoreOK
<1>2. ts \in Int /\ ts > S.node.last /\ ts >= now
  BY <1>1 DEF LocalTime
<1>3. \A x \in DOMAIN S.node.events : S.node.events[x].unix_ts < ts
  BY <1>1, <1>2 DEF AloneOK, Timely, NodeOK, StoreOK, EventsOK
<1>4. T = Announced(S, id, O, always)
  BY DEF Made
<1> HIDE DEF ts
<1>19. EventOK(event)
  BY <1>2, LocalEventOK
<1>20. event.says = e /\ event.unix_ts = ts
  BY DEF Event
<1>14. EventOK(event) /\ event.says = e /\ event.unix_ts = ts
  BY <1>19, <1>20
<1>18. ~ event.alien
  BY DEF Event
<1> HIDE DEF event
<1>5. NodeOK(N) /\ InDrift(N) /\ Fresh(N) /\ N.events = S.node.events
  BY <1>1, <1>2, LastChanged
<1>6. N.blocks = S.node.blocks /\ N.view = S.node.view /\ N.last = ts
  BY <1>1 DEF NodeOK, StoreOK
<1> HIDE DEF N
<1>7. Calm(N, a) /\ Serves(N) /\ Fit(N, e)
  BY <1>5, <1>6 DEF AloneOK, Calm, Serves, Fit
<1>15. event.unix_ts = N.last /\ ~ event.alien /\ \A x \in DOMAIN N.events : N.events[x].unix_ts < N.last
  BY <1>3, <1>5, <1>6, <1>14, <1>18
<1>9. NodeOK(O) /\ InDrift(O) /\ Fresh(O)
  BY <1>5, <1>14, AppendedOK
<1>16. ~ (id \in DOMAIN O.events /\ Overtakes(O, id))
  <2> HIDE DEF O, T
  <2> SUFFICES ASSUME id \in DOMAIN O.events, Overtakes(O, id) PROVE FALSE
    OBVIOUS
  <2>1. T.history.overtaken = (S.history.overtaken \/ Overtakes(O, id))
    BY <1>4, <1>9, AnnouncedOK
  <2>2. ~ T.history.overtaken
    BY DEF T
  <2> QED
    BY <2>1, <2>2
<1>8. O = N \/ GrownBy(N, O, id, e)
  <2>1. \/ O = N
        \/ id \in DOMAIN O.events /\ Overtakes(O, id)
        \/ GrownBy(N, O, id, event.says)
    BY <1>5, <1>7, <1>14, <1>15, AppendedCalm
  <2> QED
    BY <1>14, <1>16, <2>1
<1> HIDE DEF O
<1>10. T.node = O
  BY <1>4, <1>9, AnnouncedOK
<1>11. /\ a \ {id} \subseteq T.history.announced
       /\ id \in DOMAIN O.events /\ Valid(O) => id \in T.history.announced
       /\ id \notin DOMAIN O.events => T.history = S.history
  BY <1>4, <1>9, AnnouncedOK
<1>17. Serves(O) /\ AllOwn(O.events) /\ Peaceful(O.events) => Valid(O)
  BY DEF Serves, AllOwn, Valid, Aliens
<1> HIDE DEF T, a
<1>12. CASE O = N
  <2>3. Peaceful(O.events) => DOMAIN O.events \subseteq T.history.announced
    <3> SUFFICES ASSUME Peaceful(O.events) PROVE DOMAIN O.events \subseteq T.history.announced
      OBVIOUS
    <3>1. DOMAIN O.events \subseteq a
      BY <1>7, <1>12 DEF Calm
    <3>2. CASE id \in DOMAIN O.events
      <4>1. Valid(O)
        BY <1>7, <1>12, <1>17 DEF Calm
      <4> QED
        BY <1>11, <3>1, <3>2, <4>1
    <3>3. CASE id \notin DOMAIN O.events
      BY <1>11, <3>1, <3>3 DEF a
    <3> QED
      BY <3>2, <3>3
  <2>1. Calm(O, T.history.announced)
    BY <1>7, <1>12, <2>3 DEF Calm
  <2>2. Timely(O)
    BY <1>1, <1>2, <1>3, <1>5, <1>6, <1>12 DEF Timely, NodeOK, StoreOK, EventsOK
  <2> QED
    BY <1>6, <1>7, <1>10, <1>12, <2>1, <2>2 DEF AloneOK, T
<1>13. CASE GrownBy(N, O, id, e)
  <2>1. /\ Serves(O) /\ AllOwn(O.events) /\ Orderly(O.blocks, O.events)
        /\ DOMAIN O.events = DOMAIN N.events \cup {id}
        /\ O.events[id].unix_ts = ts /\ O.last = ts
        /\ \A x \in DOMAIN N.events : O.events[x] = N.events[x]
        /\ Timeline!Confirmed(O.blocks) = Timeline!Confirmed(N.blocks)
    BY <1>6, <1>13 DEF GrownBy
  <2>2. Peaceful(O.events) => Peaceful(N.events) /\ Valid(O)
    BY <1>17, <2>1 DEF Peaceful
  <2>3. Peaceful(O.events) => DOMAIN O.events \subseteq T.history.announced
    BY <1>7, <1>11, <2>1, <2>2 DEF Calm
  <2>4. Calm(O, T.history.announced)
    BY <2>1, <2>3 DEF Calm, Serves
  <2>5. Timely(O)
    BY <1>1, <1>2, <1>3, <1>5, <2>1 DEF Timely, NodeOK, StoreOK, EventsOK
  <2>6. AccountStep(S.node.view.ledger, O.view.ledger, e, Timeline!Confirmed(S.node.blocks) \cap BlockIndices)
    BY <1>6, <1>13 DEF GrownBy
  <2>7. AloneOK(T)
    BY <1>10, <2>1, <2>4, <2>5 DEF AloneOK
  <2>8. Timeline!Confirmed(T.node.blocks) = Timeline!Confirmed(S.node.blocks)
    BY <1>6, <1>10, <2>1
  <2>9. AccountStep(S.node.view.ledger, T.node.view.ledger, e, Timeline!Confirmed(S.node.blocks) \cap BlockIndices)
    BY <1>10, <2>6
  <2> QED
    BY <2>7, <2>8, <2>9, Zenon DEF T
<1> QED
  BY <1>8, <1>12, <1>13

-----------------------------------------------------------------------------
(* The operations of a node alone.                                         *)

Lonely(h) == ~ h.rewound /\ ~ h.overtaken /\ ~ h.met

\* The invariant of a node alone: its events are all accounted for and announced; a
\* running one shows that, and one that was refused removed a moderator.
Alone == Lonely(history) =>
  /\ Calm(node, history.announced)
  /\ phase = "up" => Serves(node) /\ Timely(node)
  /\ phase = "refused" => ~ Peaceful(node.events)

\* S while an operation makes its events.
RunsAlone(S) == StateOK(S) /\ (Lonely(S.history) => AloneOK(S))

LEMMA MadeRunsAlone ==
  ASSUME now \in Int, NEW S, RunsAlone(S), NEW id \in EventIds, NEW e \in Says, NEW size \in Sizes,
         Lonely(S.history) => Own(e) /\ Fit(S.node, e), NEW always
  PROVE  LET T == Made(S, id, e, size, always)
         IN  /\ RunsAlone(T) /\ (Lonely(T.history) => Lonely(S.history))
             /\ Lonely(T.history) =>
                  /\ Timeline!Confirmed(T.node.blocks) = Timeline!Confirmed(S.node.blocks)
                  /\ \/ T.node.view.ledger = S.node.view.ledger
                     \/ AccountStep(S.node.view.ledger, T.node.view.ledger, e,
                                    Timeline!Confirmed(S.node.blocks) \cap BlockIndices)
<1> DEFINE T == Made(S, id, e, size, always)
<1>1. StateOK(T)
  BY MadeOK DEF RunsAlone
<1>2. Lonely(T.history) => Lonely(S.history)
  <2> DEFINE ts == LocalTime(S.node)
             event == Event(e, ts, size, FALSE)
             N == [S.node EXCEPT !.last = ts]
             O == Appended(N, id, event)
  <2>1. T = Announced(S, id, O, always)
    BY DEF Made
  <2>2. NodeOK(S.node) /\ InDrift(S.node) /\ Fresh(S.node) /\ ts \in Int /\ StateOK(S)
    BY DEF RunsAlone, StateOK, RunningOK, NodeOK, StoreOK, LocalTime
  <2> HIDE DEF ts
  <2>6. EventOK(event)
    BY <2>2, LocalEventOK
  <2> HIDE DEF event
  <2>3. NodeOK(N) /\ InDrift(N) /\ Fresh(N)
    BY <2>2, LastChanged
  <2> HIDE DEF N
  <2>4. NodeOK(O) /\ InDrift(O) /\ Fresh(O)
    BY <2>3, <2>6, AppendedOK
  <2> HIDE DEF O
  <2>5. /\ T.history.rewound = S.history.rewound /\ T.history.met = S.history.met
        /\ id \notin DOMAIN O.events => T.history = S.history
        /\ id \in DOMAIN O.events => T.history.overtaken = (S.history.overtaken \/ Overtakes(O, id))
    BY <2>1, <2>2, <2>4, AnnouncedOK
  <2> HIDE DEF T
  <2>7. S.history.overtaken => T.history.overtaken
    BY <2>5, Zenon
  <2> QED
    BY <2>5, <2>7 DEF Lonely
<1>3. ASSUME Lonely(T.history)
      PROVE  /\ AloneOK(T)
             /\ Timeline!Confirmed(T.node.blocks) = Timeline!Confirmed(S.node.blocks)
             /\ \/ T.node.view.ledger = S.node.view.ledger
                \/ AccountStep(S.node.view.ledger, T.node.view.ledger, e,
                               Timeline!Confirmed(S.node.blocks) \cap BlockIndices)
  <2>1. ~ T.history.overtaken /\ StateOK(S) /\ AloneOK(S) /\ Own(e) /\ Fit(S.node, e)
    BY <1>2, <1>3 DEF Lonely, RunsAlone
  <2> QED
    BY <2>1, MadeAlone
<1> HIDE DEF T
<1>4. RunsAlone(T)
  BY <1>1, <1>3 DEF RunsAlone
<1> QED
  BY <1>2, <1>3, <1>4 DEF T

LEMMA NowAlone == ASSUME IInv, Alone, phase = "up" PROVE RunsAlone(Now) /\ Now.node = node /\ Now.history = history
<1>1. StateOK(Now) /\ Now.node = node
  BY NowOK
<1>2. Now.history = history
  BY DEF Now
<1> QED
  BY <1>1, <1>2 DEF RunsAlone, AloneOK, Alone

LEMMA BecomesAlone ==
  ASSUME NEW S, RunsAlone(S), Becomes(S), phase = "up"
  PROVE  Alone'
<1>1. node' = S.node /\ history' = S.history /\ now' = now /\ phase' = "up"
  BY DEF Becomes
<1>2. Lonely(history') => Calm(node', (history').announced) /\ Serves(node')
  BY <1>1 DEF RunsAlone, AloneOK
<1>3. Lonely(history') => \A id \in DOMAIN (node').events :
        (node').events[id].unix_ts <= (node').last \/ (node').events[id].unix_ts < now'
  BY <1>1 DEF RunsAlone, AloneOK, Timely
<1> QED
  BY <1>1, <1>2, <1>3 DEF Alone, Timely

LEMMA PublishAlone ==
  ASSUME IInv, Alone, NEW e \in Says, Publish(e), Lonely(history) => Own(e) /\ Fit(node, e)
  PROVE  Alone'
<1>1. phase = "up" /\ \E id \in FreshIds(node), size \in setting.sizes : Becomes(Made(Now, id, e, size, FALSE))
  BY DEF Publish, Offers
<1>2. PICK id \in FreshIds(node), size \in setting.sizes : Becomes(Made(Now, id, e, size, FALSE))
  BY <1>1
<1>3. id \in EventIds /\ size \in Sizes /\ now \in Int
  BY <1>2, FreshIdsOK, SizesTyped, Clock DEF IInv
<1>4. RunsAlone(Now) /\ Now.node = node /\ Now.history = history
  BY <1>1, NowAlone
<1> DEFINE S == Made(Now, id, e, size, FALSE)
<1>5. RunsAlone(S)
  BY <1>3, <1>4, MadeRunsAlone
<1>6. Becomes(S)
  BY <1>2
<1> HIDE DEF S
<1> QED
  BY <1>1, <1>5, <1>6, BecomesAlone

\* A post that the balance covers is accepted.
LEMMA PostAlone ==
  ASSUME IInv, Alone, NEW kind \in C!PostKinds, NEW value \in Nat, Covers(value),
         NEW parent \in EventIds \cup {NoObject}, NEW rating \in 0..5, NEW core \in BOOLEAN,
         Publish(PostBy(kind, Me, value, parent, rating, core))
  PROVE  Alone'
<1> DEFINE e == PostBy(kind, Me, value, parent, rating, core)
<1>1. e \in Says
  BY MeIsCid, PostIsSays
<1>2. e.kind = kind /\ e.author = Me /\ e.value = value
  BY DEF PostBy
<1>3. Publish(e)
  OBVIOUS
<1> HIDE DEF e
<1>4. Own(e)
  BY <1>2 DEF Own, IsModeration, C!PostKinds, M!RoleKinds, M!VisibilityKinds, M!PinKinds
<1>5. Fit(node, e)
  <2>1. Economic(e) = [kind |-> "post", author |-> Me, value |-> value]
    BY <1>2 DEF Economic, AsPost, IsPost
  <2>2. Economic(e).kind = "post" /\ Economic(e).author = Me /\ Economic(e).value = value
    BY <2>1
  <2>3. L!PostAccepted(node.view.ledger, Economic(e))
    BY <2>2 DEF L!PostAccepted, Covers, Balance
  <2> QED
    BY <2>2, <2>3 DEF Fit, L!Accepted
<1> QED
  BY <1>1, <1>3, <1>4, <1>5, PublishAlone

LEMMA LocalPostAlone == ASSUME IInv, Alone, LocalPost PROVE Alone'
<1>1. setting \in Setting /\ setting.about \subseteq EventIds /\ setting.values \subseteq Nat
  BY DEF IInv, Setting
<1>2. CASE CreateRecipe
  <2>1. PICK requested \in setting.values, core \in BOOLEAN :
          LET value == IF core THEN requested ELSE PostCost(requested)
          IN  Covers(value) /\ Publish(PostBy("RecipeCreated", Me, value, NoObject, 0, core))
    BY <1>2 DEF CreateRecipe
  <2> DEFINE value == IF core THEN requested ELSE PostCost(requested)
  <2>2. value \in Nat
    BY <1>1, PostCostType
  <2>3. Covers(value) /\ Publish(PostBy("RecipeCreated", Me, value, NoObject, 0, core))
    BY <2>1
  <2> HIDE DEF value
  <2>4. "RecipeCreated" \in C!PostKinds /\ 0 \in 0..5 /\ NoObject \in EventIds \cup {NoObject}
    BY DEF C!PostKinds
  <2> QED
    BY <2>2, <2>3, <2>4, PostAlone
<1>3. ASSUME NEW kind \in C!PostKinds, NEW rating \in 0..5, CreateUnder(kind, rating) PROVE Alone'
  <2>1. PICK requested \in setting.values, parent \in setting.about :
          /\ Covers(PostCost(requested))
          /\ Publish(PostBy(kind, Me, PostCost(requested), parent, rating, FALSE))
    BY <1>3 DEF CreateUnder
  <2>2. PostCost(requested) \in Nat /\ parent \in EventIds \cup {NoObject} /\ FALSE \in BOOLEAN
    BY <1>1, PostCostType
  <2> QED
    BY <2>1, <2>2, PostAlone
<1>4. CASE AddThumbUp
  <2>1. PICK x \in C!QueryRecipes(node.view.board) : Publish(PostBy("ThumbsUpAdded", Me, 0, x, 0, FALSE))
    BY <1>4 DEF AddThumbUp
  <2>2. x \in EventIds
    BY <2>1 DEF IInv, NodeOK, StoreOK, ViewOK, BoardOK, EventsOK, Posts, C!QueryRecipes, C!ServedPosts
  <2>3. "ThumbsUpAdded" \in C!PostKinds /\ 0 \in 0..5 /\ 0 \in Nat /\ FALSE \in BOOLEAN
    BY DEF C!PostKinds
  <2>4. Covers(0)
    BY DEF Covers
  <2> QED
    BY <2>1, <2>2, <2>3, <2>4, PostAlone
<1>5. {"ThreadCreated", "ReplyCreated", "ReviewAdded"} \subseteq C!PostKinds /\ 0 \in 0..5 /\ 5 \in 0..5
  BY DEF C!PostKinds
<1> QED
  BY <1>2, <1>3, <1>4, <1>5 DEF LocalPost

\* On a node alone that the profile does not name, nobody is a local moderator.
LEMMA ModeratorAlone ==
  ASSUME Alone, phase = "up", Lonely(history), IsLocalModerator
  PROVE  Me \in Seeds
  BY DEF Alone, Serves, IsLocalModerator

LEMMA LocalModerationAlone == ASSUME IInv, Alone, LocalModeration PROVE Alone'
<1>1. setting.about \subseteq EventIds /\ setting \in Setting /\ now \in Int
  BY Clock DEF IInv, Setting
<1>2. ASSUME NEW kind \in M!VisibilityKinds \cup M!PinKinds, NEW x \in setting.about,
             kind = "ContentFlagged" \/ Me \in Seeds, NEW N
      PROVE  /\ AboutObject(kind, x) \in Says /\ Own(AboutObject(kind, x)) /\ Fit(N, AboutObject(kind, x))
  <2> DEFINE e == AboutObject(kind, x)
  <2>1. e \in Says
    BY <1>1, MeIsCid DEF AboutObject, Says, ObjectSays
  <2>2. e.kind = kind /\ e.author = Me
    BY DEF AboutObject
  <2> HIDE DEF e
  <2>3. ~ IsEconomic(e)
    BY <2>2 DEF IsEconomic, IsPost, C!PostKinds, M!VisibilityKinds, M!PinKinds
  <2>4. Own(e) /\ Fit(N, e)
    BY <1>2, <2>2, <2>3 DEF Own, Fit
  <2> QED
    BY <2>1, <2>4 DEF e
<1>3. CASE FlagContent
  <2>1. PICK x \in setting.about : Publish(AboutObject("ContentFlagged", x))
    BY <1>3 DEF FlagContent
  <2>2. "ContentFlagged" \in M!VisibilityKinds \cup M!PinKinds
    BY DEF M!VisibilityKinds
  <2> QED
    BY <1>2, <2>1, <2>2, PublishAlone
<1>4. ASSUME NEW kind \in {"ContentHidden", "ContentUnhidden"} \cup M!PinKinds, Moderate(kind) PROVE Alone'
  <2>1. PICK x \in setting.about : Publish(AboutObject(kind, x))
    BY <1>4 DEF Moderate
  <2>2. kind \in M!VisibilityKinds \cup M!PinKinds
    BY DEF M!VisibilityKinds
  <2>3. Lonely(history) => Me \in Seeds
    BY <1>4, <2>1, ModeratorAlone DEF Moderate, Publish, Offers
  <2>4. AboutObject(kind, x) \in Says
    BY <1>1, <2>2, MeIsCid DEF AboutObject, Says, ObjectSays
  <2>5. Lonely(history) => Own(AboutObject(kind, x)) /\ Fit(node, AboutObject(kind, x))
    BY <1>2, <2>2, <2>3
  <2> QED
    BY <2>1, <2>4, <2>5, PublishAlone
<1>5. ASSUME NEW kind \in M!RoleKinds, ChangeRole(kind) PROVE Alone'
  <2>1. PICK c \in Cids : Publish([kind |-> kind, author |-> Me, target |-> c])
    BY <1>5 DEF ChangeRole
  <2> DEFINE e == [kind |-> kind, author |-> Me, target |-> c]
  <2>2. e \in Says
    BY MeIsCid DEF Says, RoleSays
  <2>3. e.kind = kind /\ e.author = Me
    OBVIOUS
  <2>4. Publish(e)
    BY <2>1
  <2> HIDE DEF e
  <2>5. Lonely(history) => Me \in Seeds
    BY <1>5, <2>4, ModeratorAlone DEF ChangeRole, Publish, Offers
  <2>6. ~ IsEconomic(e)
    BY <2>3 DEF IsEconomic, IsPost, C!PostKinds, M!RoleKinds
  <2>7. Lonely(history) => Own(e) /\ Fit(node, e)
    BY <2>3, <2>5, <2>6 DEF Own, Fit
  <2> QED
    BY <2>2, <2>4, <2>7, PublishAlone
<1>6. CASE DownvoteAndPurge
  <2>1. PICK x \in setting.about, id \in FreshIds(node), size \in setting.sizes :
          LET flagged == Made(Now, id, AboutObject("ContentFlagged", x), size, FALSE)
          IN  \E second \in FreshIds(flagged.node), other \in setting.sizes :
                Becomes(IF flagged.ok THEN Made(flagged, second, AboutObject("ContentHidden", x), other, FALSE)
                        ELSE flagged)
    BY <1>6 DEF DownvoteAndPurge
  <2> DEFINE flagged == Made(Now, id, AboutObject("ContentFlagged", x), size, FALSE)
  <2>2. PICK second \in FreshIds(flagged.node), other \in setting.sizes :
          Becomes(IF flagged.ok THEN Made(flagged, second, AboutObject("ContentHidden", x), other, FALSE)
                  ELSE flagged)
    BY <2>1
  <2>3. {"ContentFlagged", "ContentHidden"} \subseteq M!VisibilityKinds \cup M!PinKinds
    BY DEF M!VisibilityKinds
  <2>4. phase = "up" /\ IsLocalModerator
    BY <1>6 DEF DownvoteAndPurge, Offers
  <2>5. RunsAlone(Now) /\ Now.history = history
    BY <2>4, NowAlone
  <2>6. id \in EventIds /\ size \in Sizes /\ other \in Sizes
    BY <1>1, FreshIdsOK, SizesTyped
  <2>7. RunsAlone(flagged) /\ (Lonely(flagged.history) => Lonely(history))
    BY <1>1, <1>2, <2>3, <2>5, <2>6, MadeRunsAlone
  <2> HIDE DEF flagged
  <2>8. second \in EventIds
    BY <1>1, <2>2, FreshIdsOK
  <2> DEFINE e == AboutObject("ContentHidden", x)
             hidden == Made(flagged, second, e, other, FALSE)
  <2>9. e \in Says
    BY <1>1, <2>3, MeIsCid DEF AboutObject, Says, ObjectSays
  <2>10. Lonely(flagged.history) => Own(e) /\ Fit(flagged.node, e)
    BY <1>2, <2>3, <2>4, <2>7, ModeratorAlone
  <2> HIDE DEF e
  <2>11. RunsAlone(hidden)
    BY <1>1, <2>6, <2>7, <2>8, <2>9, <2>10, MadeRunsAlone
  <2>12. Becomes(IF flagged.ok THEN hidden ELSE flagged)
    BY <2>2 DEF e
  <2> HIDE DEF hidden
  <2> QED
    BY <2>4, <2>7, <2>11, <2>12, BecomesAlone
<1> QED
  BY <1>3, <1>4, <1>5, <1>6 DEF LocalModeration

\* A transfer that the balance covers, under the next nonce, is accepted.
LEMMA TransferAlone == ASSUME IInv, Alone, TransferRewards PROVE Alone'
<1>1. PICK to \in KnownTargets, amount \in Amounts :
        /\ Balance(node, Me) >= amount + L!BurnFee(amount)
        /\ Publish([kind |-> "transfer", author |-> Me, to |-> to, amount |-> amount,
                    fee |-> L!BurnFee(amount), nonce |-> node.view.ledger.nonce[Me] + 1, witness_ok |-> TRUE])
  BY DEF TransferRewards
<1> DEFINE nonce == node.view.ledger.nonce[Me] + 1
           fee == L!BurnFee(amount)
           e == [kind |-> "transfer", author |-> Me, to |-> to, amount |-> amount,
                 fee |-> fee, nonce |-> nonce, witness_ok |-> TRUE]
<1>2. to \in Cids /\ to # NoCid
  <2>1. node.view.entries \subseteq Cids /\ \A id \in DOMAIN node.events : node.events[id].says.author \in Cids
    BY SaysByKind DEF IInv, NodeOK, StoreOK, ViewOK, EventsOK
  <2> QED
    BY <2>1, MeIsCid, CommunityConstants DEF KnownTargets, CommunityConstants
<1>3. nonce \in Nat /\ nonce # 0
  BY MeIsCid DEF IInv, NodeOK, ViewOK, LedgerOK, L!LedgerState
<1>4. amount \in Nat /\ amount > 0 /\ fee \in Int /\ fee >= 0
  <2>1. amount \in Nat \ {0} /\ FeeDivisor \in Nat \ {0}
    BY CommunityConstants DEF CommunityConstants
  <2> QED
    BY <2>1 DEF L!BurnFee
<1>5. Publish(e)
  BY <1>1
<1>6. nonce = node.view.ledger.nonce[Me] + 1 /\ fee = L!BurnFee(amount)
      /\ node.view.ledger.balance[Me] >= amount + fee
  BY <1>1 DEF Balance
<1> HIDE DEF nonce, fee
<1>7. e \in Says
  BY <1>2, <1>3, <1>4, MeIsCid DEF Says, TransferSays
<1>8. /\ e.kind = "transfer" /\ e.author = Me /\ e.to = to /\ e.amount = amount /\ e.fee = fee
      /\ e.nonce = nonce /\ e.witness_ok
  OBVIOUS
<1> HIDE DEF e
<1>9. Own(e)
  BY <1>8 DEF Own, IsModeration, M!RoleKinds, M!VisibilityKinds, M!PinKinds
<1>10. Economic(e) = e
  BY <1>8 DEF Economic, IsPost, C!PostKinds
<1>11. L!TransferAccepted(node.view.ledger, e)
  BY <1>2, <1>3, <1>4, <1>6, <1>8 DEF L!TransferAccepted
<1>12. Fit(node, e)
  BY <1>8, <1>10, <1>11 DEF Fit, L!Accepted
<1> QED
  BY <1>5, <1>7, <1>9, <1>12, PublishAlone

LEMMA NameAlone == ASSUME IInv, Alone, SetDisplayName PROVE Alone'
<1> DEFINE e == [kind |-> "ProfileUpdated", author |-> Me]
<1>1. e \in Says
  BY MeIsCid DEF Says, NameSays
<1>2. e.kind = "ProfileUpdated" /\ e.author = Me
  OBVIOUS
<1>3. Publish(e)
  BY DEF SetDisplayName
<1> HIDE DEF e
<1>4. ~ IsEconomic(e) /\ ~ IsModeration(e)
  BY <1>2 DEF IsEconomic, IsPost, IsModeration, C!PostKinds, M!RoleKinds, M!VisibilityKinds, M!PinKinds
<1>5. Own(e) /\ Fit(node, e)
  BY <1>2, <1>4 DEF Own, Fit
<1> QED
  BY <1>1, <1>3, <1>5, PublishAlone

\* T after the rounds up to block n of a claim loop that R began: the blocks still to
\* come are claimable.
ClaimsAlone(R, T, n) ==
  /\ RunsAlone(T)
  /\ Lonely(T.history) => \A j \in Claimable(R.node) : j > n =>
       j \in Timeline!Confirmed(T.node.blocks) /\ T.node.view.ledger.claimed[j] = NoCid

LEMMA ClaimableType ==
  ASSUME NEW N
  PROVE  /\ Claimable(N) \subseteq BlockIndices /\ Claimable(N) \subseteq Nat
         /\ \A j \in Claimable(N) : j \in Timeline!Confirmed(N.blocks) /\ N.view.ledger.claimed[j] = NoCid
<1>1. BlockIndices \subseteq Nat
  BY CommunityConstants DEF CommunityConstants
<1> QED
  BY <1>1 DEF Claimable

LEMMA ClaimRoundAlone ==
  ASSUME now \in Int, setting \in Setting, NEW R, NEW T, NEW n \in Nat, ClaimsAlone(R, T, n),
         n + 1 \in Claimable(R.node), NEW last
  PROVE  ClaimsAlone(R, ClaimRound(T, n + 1, last), n + 1)
<1> DEFINE b == n + 1
           reward == L!ExpectedClaimReward(b, T.node.view.ledger.issued)
           claim == [kind |-> "claim", author |-> Me, block |-> b, reward |-> reward, proof_ok |-> TRUE]
           id == IF last THEN Max(FreshIds(T.node)) ELSE Min(FreshIds(T.node))
           S == Made(T, id, claim, ClaimSize, TRUE)
           ok == id \in DOMAIN S.node.events
           U == [S EXCEPT !.ok = ok]
           l == T.node.view.ledger
           C1 == Timeline!Confirmed(T.node.blocks)
<1>0. /\ b \in BlockIndices /\ b \in Claimable(R.node) /\ b > n
      /\ \A j \in Claimable(R.node) : j \in BlockIndices /\ (j > b => j > n /\ j # b)
  <2>1. \A j \in Claimable(R.node) : j \in BlockIndices /\ j \in Nat
    BY ClaimableType
  <2> QED
    BY <2>1
<1>1. CASE ~ T.ok \/ reward <= 0 \/ FreshIds(T.node) = {}
  <2>1. ClaimRound(T, b, last) = T
    BY <1>1 DEF ClaimRound
  <2> QED
    BY <1>0, <2>1 DEF ClaimsAlone
<1>2. CASE ~ (~ T.ok \/ reward <= 0 \/ FreshIds(T.node) = {})
  <2>1. ClaimRound(T, b, last) = U
    BY <1>2 DEF ClaimRound
  <2>2. id \in EventIds
    BY <1>2, FreshIdsOK
  <2>3. StateOK(T) /\ LedgerOK(l) /\ l.claimed \in [BlockIndices -> Cids \cup {NoCid}]
    BY DEF ClaimsAlone, RunsAlone, StateOK, RunningOK, NodeOK, ViewOK, LedgerOK, L!LedgerState
  <2>4. reward \in Int
    BY <1>0, <2>3, RewardType DEF LedgerOK, L!LedgerState
  <2>5. reward > 0 /\ reward = L!ExpectedClaimReward(b, l.issued)
    BY <1>2, <2>4
  <2>6. Lonely(T.history) => b \in C1 \cap BlockIndices /\ l.claimed[b] = NoCid
    BY <1>0 DEF ClaimsAlone
  <2> HIDE DEF reward, id, b
  <2>7. claim \in Says
    BY <1>0, <2>4, MeIsCid DEF Says, ClaimSays
  <2>8. /\ claim.kind = "claim" /\ claim.author = Me /\ claim.block = b /\ claim.reward = reward
        /\ claim.proof_ok
    OBVIOUS
  <2> HIDE DEF claim
  <2>9. Own(claim)
    BY <2>8 DEF Own, IsModeration, M!RoleKinds, M!VisibilityKinds, M!PinKinds
  <2>10. Economic(claim) = claim /\ IsEconomic(claim)
    BY <2>8 DEF Economic, IsEconomic, IsPost, C!PostKinds
  <2>11. Lonely(T.history) => Fit(T.node, claim)
    <3>1. Lonely(T.history) => L!ClaimAccepted(l, claim, C1 \cap BlockIndices)
      BY <2>5, <2>6, <2>8 DEF L!ClaimAccepted
    <3> QED
      BY <2>8, <2>10, <3>1 DEF Fit, L!Accepted
  <2> HIDE DEF l, C1, ok
  <2>12. /\ RunsAlone(S) /\ (Lonely(S.history) => Lonely(T.history))
         /\ Lonely(S.history) =>
              /\ Timeline!Confirmed(S.node.blocks) = C1
              /\ S.node.view.ledger = l \/ AccountStep(l, S.node.view.ledger, claim, C1 \cap BlockIndices)
    BY <2>2, <2>7, <2>9, <2>11, MadeRunsAlone, SizesTyped DEF ClaimsAlone, l, C1
  <2> HIDE DEF S
  <2>13. Lonely(S.history) => \A j \in BlockIndices : j # b => S.node.view.ledger.claimed[j] = l.claimed[j]
    <3>1. claim \in EconomicSays
      BY <2>7, <2>10, EconomicType
    <3>2. ASSUME AccountStep(l, S.node.view.ledger, claim, C1 \cap BlockIndices)
          PROVE  \/ S.node.view.ledger.claimed = l.claimed
                 \/ S.node.view.ledger.claimed = [l.claimed EXCEPT ![b] = Me]
      <4>1. /\ L!Accepted(l, claim, C1 \cap BlockIndices)
            /\ S.node.view.ledger = L!ApplyEvent(l, claim, C1 \cap BlockIndices)
        BY <2>10, <3>2 DEF AccountStep
      <4>2. LedgerAfter(l, S.node.view.ledger, claim)
        BY <2>3, <3>1, <4>1, LedgerStep
      <4> QED
        BY <2>8, <4>2 DEF LedgerAfter
    <3> QED
      BY <2>3, <2>12, <3>2
  <2>14. S = [node |-> S.node, history |-> S.history, ok |-> S.ok] /\ RunningOK(S.node, S.history)
    BY <2>12 DEF RunsAlone, StateOK
  <2>15. U = [node |-> S.node, history |-> S.history, ok |-> ok]
    BY <2>14
  <2> HIDE DEF U
  <2>16. U = [node |-> U.node, history |-> U.history, ok |-> U.ok] /\ U.node = S.node /\ U.history = S.history
    BY <2>15
  <2>17. RunsAlone(U)
    BY <2>12, <2>14, <2>16 DEF RunsAlone, StateOK, AloneOK
  <2>18. ASSUME Lonely(U.history), NEW j \in Claimable(R.node), j > b
         PROVE  j \in Timeline!Confirmed(U.node.blocks) /\ U.node.view.ledger.claimed[j] = NoCid
    <3>0. Lonely(S.history) /\ Lonely(T.history)
      BY <2>12, <2>16, <2>18
    <3>1. j \in BlockIndices /\ j > n /\ j # b
      BY <1>0, <2>18
    <3>2. j \in C1 /\ l.claimed[j] = NoCid
      BY <3>0, <3>1 DEF ClaimsAlone, C1, l
    <3> QED
      BY <2>12, <2>13, <2>16, <3>0, <3>1, <3>2
  <2>19. ClaimsAlone(R, U, b)
    BY <2>17, <2>18 DEF ClaimsAlone
  <2> QED
    BY <2>1, <2>19 DEF b
<1> QED
  BY <1>1, <1>2

LEMMA AllClaimsAlone ==
  ASSUME now \in Int, setting \in Setting, NEW S, RunsAlone(S), NEW last
  PROVE  RunsAlone(Claims(S, last))
<1> DEFINE back == Timeline!Back(S.node.blocks)
<1>1. StateOK(S)
  BY DEF RunsAlone
<1>2. PICK g : ClaimsRuns(g, S, last) /\ Claims(S, last) = g[back]
  BY <1>1, ClaimsRun
<1>3. back \in Nat
  BY <1>1, ClaimsRun
<1> HIDE DEF back
<1> DEFINE G == {n \in Nat : n <= back => ClaimsAlone(S, g[n], n)}
<1>4. 0 \in G
  BY <1>2, ClaimableType DEF ClaimsRuns, ClaimsAlone
<1>5. ASSUME NEW n \in Nat, n \in G PROVE n + 1 \in G
  <2> SUFFICES ASSUME n + 1 <= back PROVE ClaimsAlone(S, g[n + 1], n + 1)
    OBVIOUS
  <2>1. ClaimsAlone(S, g[n], n)
    BY <1>3, <1>5
  <2>2. g[n + 1] = IF n + 1 \in Claimable(S.node) THEN ClaimRound(g[n], n + 1, last) ELSE g[n]
    BY <1>2 DEF ClaimsRuns, back
  <2>3. CASE n + 1 \in Claimable(S.node)
    <3>1. ClaimsAlone(S, ClaimRound(g[n], n + 1, last), n + 1)
      BY <2>1, <2>3, ClaimRoundAlone
    <3> QED
      BY <2>2, <2>3, <3>1
  <2>4. CASE n + 1 \notin Claimable(S.node)
    <3>1. \A j \in Claimable(S.node) : j > n + 1 => j > n
      <4>1. \A j \in Claimable(S.node) : j \in Nat
        BY ClaimableType
      <4> QED
        BY <4>1
    <3> QED
      BY <2>1, <2>2, <2>4, <3>1 DEF ClaimsAlone
  <2> QED
    BY <2>3, <2>4
<1>6. Nat \subseteq G
  <2> HIDE DEF G
  <2> QED
    BY <1>4, <1>5, Placing!NatSetInduction, PlacingConstants
<1> QED
  BY <1>2, <1>3, <1>6 DEF ClaimsAlone

LEMMA SyncTickAlone == ASSUME IInv, Alone, SyncTick PROVE Alone'
<1> DEFINE N == RoutineCheck(node)
           S == [Now EXCEPT !.node = N]
<1>1. phase = "up" /\ \E last \in BOOLEAN : Becomes(Claims(S, last))
  BY DEF SyncTick
<1>2. PICK last \in BOOLEAN : Becomes(Claims(S, last))
  BY <1>1
<1>3. now \in Int /\ setting \in Setting
  BY Clock DEF IInv
<1>4. NodeOK(N) /\ Fresh(N) /\ N.events = node.events
  BY <1>3, RoutineCheckOK DEF IInv
<1>5. InDrift(N)
  BY <1>4 DEF InDrift, IInv
<1>6. Lonely(history) => Calm(N, history.announced) /\ Serves(N) /\ Timely(N)
  BY <1>1, <1>3, CheckCalm DEF Alone, IInv
<1>7. RunsAlone(Now) /\ Now.history = history
  BY <1>1, NowAlone
<1>8. S = [node |-> N, history |-> Now.history, ok |-> Now.ok]
  BY <1>7 DEF RunsAlone, StateOK
<1> HIDE DEF S, N
<1>9. S = [node |-> S.node, history |-> S.history, ok |-> S.ok] /\ S.node = N /\ S.history = history
  BY <1>7, <1>8
<1>10. RunsAlone(S)
  BY <1>4, <1>5, <1>6, <1>7, <1>9 DEF RunsAlone, StateOK, RunningOK, AloneOK
<1> DEFINE T == Claims(S, last)
<1>11. RunsAlone(T)
  BY <1>3, <1>10, AllClaimsAlone
<1>12. Becomes(T)
  BY <1>2
<1> HIDE DEF T
<1> QED
  BY <1>1, <1>11, <1>12, BecomesAlone

-----------------------------------------------------------------------------
(* Peers, stops and starts of a node alone.                                *)

\* A peer's event that is stored ends it; one that is not changes nothing.
LEMMA IngestAlone ==
  ASSUME IInv, Alone, NEW e \in Says, NEW ts \in Int, IngestRemoteEvent(e, ts)
  PROVE  Alone'
<1>1. PICK id \in FreshIds(node), size \in setting.sizes, alien \in setting.aliens :
        /\ node' = Appended(node, id, Event(e, ts, size, alien))
        /\ history' = [history EXCEPT !.met = @ \/ id \in DOMAIN node'.events,
                                      !.entangled = @ \/ Entangled(node')]
  BY DEF IngestRemoteEvent
<1>2. phase = "up" /\ now' = now /\ phase' = phase
  BY DEF IngestRemoteEvent
<1> DEFINE event == Event(e, ts, size, alien)
           N == Appended(node, id, event)
           evs == [x \in DOMAIN node.events \cup {id} |-> IF x = id THEN event ELSE node.events[x]]
           bs == Timeline!EnsureBlockSlots(Timeline!AssignEvent(node.blocks, evs, id), now)
           B == [node EXCEPT !.events = evs, !.blocks = bs]
           met == history.met \/ id \in DOMAIN N.events
           entangled == history.entangled \/ Entangled(N)
           h == [history EXCEPT !.met = met, !.entangled = entangled]
<1>3. node' = N /\ history' = h
  BY <1>1
<1>4. HistoryOK(history) /\ NodeOK(node)
  BY DEF IInv
<1> HIDE DEF event
<1>5. Stored(node, id, event) => id \in DOMAIN N.events
  <2> SUFFICES ASSUME Stored(node, id, event) PROVE id \in DOMAIN N.events
    OBVIOUS
  <2>1. N = Replayed(B)
    BY DEF Appended
  <2>2. id \in DOMAIN evs
    OBVIOUS
  <2>3. B = [node EXCEPT !.events = evs, !.blocks = bs]
    OBVIOUS
  <2> HIDE DEF evs, bs, N, B
  <2>4. B = [events |-> evs, blocks |-> bs, view |-> node.view, shown |-> node.shown, last |-> node.last]
    BY <1>4, <2>3 DEF NodeOK, StoreOK
  <2> DEFINE v == View(B.events, B.blocks)
             shown == Metrics(v.board, B.blocks)
  <2>5. N = [B EXCEPT !.view = v, !.shown = shown]
    BY <2>1 DEF Replayed
  <2> HIDE DEF v, shown
  <2>6. N.events = evs
    BY <2>4, <2>5
  <2> QED
    BY <2>2, <2>6
<1>6. ~ Stored(node, id, event) => N = node
  BY DEF Appended
<1> HIDE DEF N
<1>7. met <=> history.met \/ id \in DOMAIN N.events
  OBVIOUS
<1> HIDE DEF met, entangled
<1>8. h = [met |-> met, announced |-> history.announced, rewound |-> history.rewound,
           overtaken |-> history.overtaken, entangled |-> entangled]
  BY <1>4, Remet
<1>9. /\ h.rewound = history.rewound /\ h.met = met /\ h.announced = history.announced
      /\ h.overtaken = history.overtaken
  <2> HIDE DEF h
  <2> QED
    BY <1>8
<1> HIDE DEF h
<1>10. Lonely(h) => Lonely(history) /\ N = node
  BY <1>5, <1>6, <1>7, <1>9 DEF Lonely
<1>11. Lonely(history') => /\ Calm(node', (history').announced) /\ Serves(node')
                           /\ \A x \in DOMAIN (node').events :
                                (node').events[x].unix_ts <= (node').last \/ (node').events[x].unix_ts < now'
  BY <1>2, <1>3, <1>9, <1>10 DEF Alone, Timely
<1> QED
  BY <1>2, <1>11 DEF Alone, Timely

LEMMA StopAlone == ASSUME IInv, Alone, Stop PROVE Alone'
<1>1. /\ phase = "up" /\ phase' = "down" /\ history' = history
      /\ node' = [node EXCEPT !.view = NoView, !.shown = NoShown, !.last = 0]
  BY DEF Stop
<1>2. NodeOK(node)
  BY DEF IInv
<1>3. (node').events = node.events /\ (node').blocks = node.blocks
  BY <1>1, <1>2 DEF NodeOK, StoreOK
<1> QED
  BY <1>1, <1>3 DEF Alone, Calm

\* An empty store is in order, and the empty ledger accounts for it.
LEMMA EmptySound ==
  ASSUME NEW bs, Coherent(bs, NoEvents)
  PROVE  /\ Sound(NoEvents, bs, L!EmptyLedger) /\ AllOwn(NoEvents) /\ Orderly(bs, NoEvents)
         /\ DOMAIN NoEvents = {}
<1> DEFINE evs == NoEvents
           l == L!EmptyLedger
           order == ReplayOrder(evs, bs)
           g == [k \in Nat |-> l]
           confirmed == Timeline!Confirmed(bs) \cap BlockIndices
<1>1. EventsOK(evs) /\ DOMAIN evs = {}
  BY DEF EventsOK, NoEvents
<1> HIDE DEF evs
<1>2. Lists(order, {})
  BY <1>1, OrderLists DEF evs
<1> HIDE DEF order
<1>3. Len(order) = 0
  BY <1>2 DEF Lists
<1> HIDE DEF l
<1>4. g[0] = l /\ ~ \E n \in Nat : n + 1 <= Len(order)
  BY <1>3
<1> HIDE DEF g
<1>5. Accounts(g, evs, order, confirmed)
  BY <1>4 DEF Accounts, l
<1>6. l = g[Len(order)]
  BY <1>3, <1>4
<1>7. Sound(evs, bs, l)
  BY <1>5, <1>6 DEF Sound, order
<1>8. AllOwn(evs) /\ Orderly(bs, evs)
  BY <1>1 DEF AllOwn, Orderly
<1> QED
  BY <1>1, <1>7, <1>8 DEF evs, l

LEMMA QuarantinedCalm ==
  ASSUME now \in Int, NEW N, NodeOK(N), NEW announced
  PROVE  LET O == Quarantined(N) IN Calm(O, announced) /\ Serves(O) /\ O.view.duplicate = {}
<1> DEFINE evs == NoEvents
           bs == NewGenesis(now)
           B == [N EXCEPT !.events = evs, !.blocks = bs]
           O == Quarantined(N)
<1>1. O = Replayed(B)
  BY DEF Quarantined
<1>2. Coherent(bs, evs) /\ EventsOK(evs)
  BY GenesisCoherent
<1>3. Sound(evs, bs, L!EmptyLedger) /\ AllOwn(evs) /\ Orderly(bs, evs) /\ DOMAIN evs = {}
  BY <1>2, EmptySound
<1> HIDE DEF evs, bs, O
<1>4. /\ N.last \in Int
      /\ N = [events |-> N.events, blocks |-> N.blocks, view |-> N.view, shown |-> N.shown, last |-> N.last]
      /\ B = [N EXCEPT !.events = evs, !.blocks = bs]
  BY DEF NodeOK, StoreOK
<1> HIDE DEF B
<1>5. /\ B = [events |-> B.events, blocks |-> B.blocks, view |-> B.view, shown |-> B.shown, last |-> B.last]
      /\ B.events = evs /\ B.blocks = bs /\ B.last = N.last
  BY <1>4
<1>6. StoreOK(B)
  BY <1>2, <1>4, <1>5 DEF StoreOK
<1>7. O.events = evs /\ O.blocks = bs /\ Serves(O) /\ O.view.duplicate = {}
  BY <1>1, <1>3, <1>5, <1>6, ReplayedServes
<1>8. Calm(O, announced)
  BY <1>3, <1>7 DEF Calm
<1> QED
  BY <1>7, <1>8 DEF O

\* Own events that are all accounted for are valid, unless one removed a moderator.
LEMMA CalmIsValid ==
  ASSUME NEW N, AllOwn(N.events), Serves(N), Peaceful(N.events)
  PROVE  Valid(N)
  BY DEF Serves, AllOwn, Valid, Aliens

\* A start finds what was stored as calm as it was left, or sets it aside for an event
\* in the genesis block: no two claims of one block, so nothing is rolled back, no
\* alien, and no finding unless a moderator was removed.
LEMMA StartAlone == ASSUME IInv, Alone, Start PROVE Alone'
<1> DEFINE bs == Timeline!EnsureBlockSlots(node.blocks, now)
           O == [node EXCEPT !.blocks = bs]
           opened == Replayed(O)
           own == IF opened.blocks[0].event_ids = {} THEN opened ELSE Quarantined(opened)
           checked == RoutineCheck(own)
           repaired == IF RollsBack(checked) THEN RoutineCheck(RolledBack(checked)) ELSE checked
           N == IF Aliens(repaired) = {} THEN repaired ELSE RoutineCheck(Quarantined(repaired))
           resting == [N EXCEPT !.view = NoView, !.shown = NoShown]
           rewound == history.rewound \/ \E x \in Mine(N) : N.events[x].unix_ts >= now
           h == [history EXCEPT !.rewound = rewound]
<1>1. /\ phase' = IF Valid(N) THEN "up" ELSE "refused"
      /\ node' = IF Valid(N) THEN N ELSE resting
      /\ history' = h /\ now' = now
  BY DEF Start
<1>2. NodeOK(node) /\ HistoryOK(history) /\ now \in Int
  BY Clock DEF IInv
<1>3. Coherent(bs, node.events)
  BY <1>2, SlotsCoherent DEF NodeOK, StoreOK
<1>4. ASSUME Lonely(history) PROVE SamePlaced(node.blocks, bs, node.events)
  BY <1>2, <1>4, SlotsPlaced DEF Alone, Calm, NodeOK, StoreOK
<1>5. rewound <=> history.rewound \/ \E x \in Mine(N) : N.events[x].unix_ts >= now
  OBVIOUS
<1> HIDE DEF bs, rewound
<1>6. O = [events |-> node.events, blocks |-> bs, view |-> node.view, shown |-> node.shown, last |-> node.last]
  BY <1>2 DEF NodeOK, StoreOK
<1>7. h = [met |-> history.met, announced |-> history.announced, rewound |-> rewound,
           overtaken |-> history.overtaken, entangled |-> history.entangled]
  BY <1>2 DEF HistoryOK
<1> HIDE DEF O, h
<1>8. /\ h.rewound = rewound /\ h.met = history.met /\ h.announced = history.announced
      /\ h.overtaken = history.overtaken
  BY <1>7
<1>9. /\ O = [events |-> O.events, blocks |-> O.blocks, view |-> O.view, shown |-> O.shown, last |-> O.last]
      /\ O.events = node.events /\ O.blocks = bs /\ O.last = node.last
  BY <1>6
<1>10. StoreOK(O)
  BY <1>2, <1>3, <1>9 DEF NodeOK, StoreOK
<1>11. NodeOK(opened)
  BY <1>10, ReplayedOK
<1> DEFINE a == history.announced
<1>12. ASSUME Lonely(h)
       PROVE  NodeOK(N) /\ Calm(N, a) /\ Serves(N)
  <2>1. Lonely(history)
    BY <1>5, <1>8, <1>12 DEF Lonely
  <2>2. /\ AllOwn(node.events) /\ Orderly(bs, node.events)
        /\ Peaceful(node.events) => DOMAIN node.events \subseteq a
    BY <1>4, <2>1 DEF Alone, Calm, SamePlaced
  <2>3. PICK l : Sound(node.events, node.blocks, l)
    BY <2>1 DEF Alone, Calm
  <2>4. Sound(node.events, bs, l)
    BY <1>2, <1>4, <2>1, <2>3, SoundStays DEF NodeOK, StoreOK
  <2>5. opened.events = node.events /\ opened.blocks = bs /\ Serves(opened) /\ opened.view.duplicate = {}
    BY <1>9, <1>10, <2>2, <2>4, ReplayedServes
  <2> HIDE DEF opened, a
  <2>6. Calm(opened, a)
    BY <2>2, <2>4, <2>5 DEF Calm
  <2>11. NodeOK(own) /\ Calm(own, a) /\ Serves(own) /\ own.view.duplicate = {}
    <3>1. CASE opened.blocks[0].event_ids = {}
      BY <1>11, <2>5, <2>6, <3>1
    <3>2. CASE opened.blocks[0].event_ids # {}
      <4>1. own = Quarantined(opened)
        BY <3>2
      <4>2. NodeOK(Quarantined(opened))
        BY <1>2, <1>11, QuarantinedOK
      <4>3. Calm(Quarantined(opened), a) /\ Serves(Quarantined(opened)) /\ Quarantined(opened).view.duplicate = {}
        BY <1>2, <1>11, QuarantinedCalm
      <4> HIDE DEF own
      <4> QED
        BY <4>1, <4>2, <4>3
    <3> QED
      BY <3>1, <3>2
  <2> HIDE DEF own
  <2>7. Calm(checked, a) /\ Serves(checked) /\ checked.view = own.view
    BY <1>2, <2>11, CheckCalm
  <2>8. NodeOK(checked)
    BY <1>2, <2>11, RoutineCheckOK
  <2> HIDE DEF checked
  <2>9. ~ RollsBack(checked)
    BY <2>7, <2>11 DEF RollsBack
  <2>10. repaired = checked
    BY <2>9
  <2> HIDE DEF repaired
  <2>12. Aliens(repaired) = {}
    BY <2>7, <2>10 DEF Calm, AllOwn, Aliens
  <2>13. N = repaired
    BY <2>12
  <2> HIDE DEF N
  <2> QED
    BY <2>7, <2>8, <2>10, <2>13
<1> HIDE DEF N, a
<1>13. CASE Valid(N)
  <2>1. node' = N /\ phase' = "up"
    BY <1>1, <1>13
  <2>2. ASSUME Lonely(h), NEW x \in DOMAIN N.events PROVE N.events[x].unix_ts < now
    <3>1. NodeOK(N) /\ Calm(N, a)
      BY <1>12, <2>2
    <3>2. x \in Mine(N)
      BY <3>1 DEF Calm, AllOwn, Own, Mine
    <3>3. ~ (N.events[x].unix_ts >= now) /\ N.events[x].unix_ts \in Int
      BY <1>5, <1>8, <2>2, <3>1, <3>2 DEF Lonely, NodeOK, StoreOK, EventsOK
    <3> QED
      BY <1>2, <3>3
  <2>3. Lonely(history') => /\ Calm(node', (history').announced) /\ Serves(node')
                            /\ \A x \in DOMAIN (node').events : (node').events[x].unix_ts < now'
    BY <1>1, <1>8, <1>12, <2>1, <2>2 DEF a
  <2> QED
    BY <2>1, <2>3 DEF Alone, Timely
<1>14. CASE ~ Valid(N)
  <2>1. node' = resting /\ phase' = "refused"
    BY <1>1, <1>14
  <2>2. ASSUME Lonely(h) PROVE Calm(resting, a) /\ ~ Peaceful(resting.events)
    <3>1. NodeOK(N) /\ Calm(N, a) /\ Serves(N)
      BY <1>12, <2>2
    <3>2. DOMAIN N = {"events", "blocks", "view", "shown", "last"}
      BY <3>1 DEF NodeOK, StoreOK
    <3>3. resting.events = N.events /\ resting.blocks = N.blocks
      BY <3>2
    <3> HIDE DEF resting
    <3>4. ~ Peaceful(N.events)
      BY <1>14, <3>1, CalmIsValid DEF Calm
    <3> QED
      BY <3>1, <3>3, <3>4 DEF Calm
  <2> HIDE DEF resting
  <2>3. Lonely(history') => Calm(node', (history').announced) /\ ~ Peaceful((node').events)
    BY <1>1, <1>8, <2>1, <2>2 DEF a
  <2> QED
    BY <2>1, <2>3 DEF Alone
<1> QED
  BY <1>13, <1>14

LEMMA TickAlone == ASSUME IInv, Alone, Tick PROVE Alone'
<1>1. now' = now + 1 /\ phase' = phase /\ node' = node /\ history' = history
  BY DEF Tick
<1>2. now \in Nat /\ \A id \in DOMAIN node.events : node.events[id].unix_ts \in Int
  BY Clock DEF IInv, NodeOK, StoreOK, EventsOK
<1>3. Timely(node) => \A id \in DOMAIN (node').events :
        (node').events[id].unix_ts <= (node').last \/ (node').events[id].unix_ts < now'
  BY <1>1, <1>2 DEF Timely
<1> QED
  BY <1>1, <1>3 DEF Alone, Timely

LEMMA InitAlone == Init => Alone
<1> SUFFICES ASSUME Init PROVE Alone
  OBVIOUS
<1> DEFINE bs == Checked(NewGenesis(0))
           l == L!EmptyLedger
<1>1. phase = "up" /\ node = [events |-> NoEvents, blocks |-> bs, view |-> NoView, shown |-> NoShown, last |-> 0]
  BY DEF Init
<1> HIDE DEF bs
<1>3. node.events = NoEvents /\ node.blocks = bs /\ node.view = NoView
  BY <1>1
<1>4. Coherent(bs, NoEvents)
  BY <1>3, InitIInv DEF IInv, NodeOK, StoreOK
<1>7. Sound(NoEvents, bs, l) /\ AllOwn(NoEvents) /\ Orderly(bs, NoEvents) /\ DOMAIN NoEvents = {}
  BY <1>4, EmptySound
<1> HIDE DEF l
<1>9. /\ NoView.ledger = l /\ NoView.invalid = {} /\ NoView.rejected = {}
      /\ NoView.moderation = M!Cleared(setting.policy)
  BY DEF NoView, l
<1>10. NoView.moderation.moderators = Seeds
  BY <1>9 DEF M!Cleared
<1>11. Serves(node)
  BY <1>3, <1>7, <1>9, <1>10 DEF Serves
<1>12. Calm(node, history.announced)
  BY <1>3, <1>7 DEF Calm
<1>13. Timely(node)
  BY <1>3, <1>7 DEF Timely
<1> QED
  BY <1>1, <1>11, <1>12, <1>13 DEF Alone

LEMMA NextAlone == ASSUME IInv, Alone, [Next]_vars PROVE Alone'
<1>1. CASE Tick
  BY <1>1, TickAlone
<1>2. CASE LocalPost
  BY <1>2, LocalPostAlone
<1>3. CASE LocalModeration
  BY <1>3, LocalModerationAlone
<1>4. CASE TransferRewards
  BY <1>4, TransferAlone
<1>5. CASE SetDisplayName
  BY <1>5, NameAlone
<1>6. CASE SyncTick
  BY <1>6, SyncTickAlone
<1>7. ASSUME NEW author \in setting.authors \ {Me}, NEW e \in Foreign(author), NEW lag \in setting.lags,
             IngestRemoteEvent(e, now - lag)
      PROVE  Alone'
  <2>1. setting \in Setting /\ author \in Cids /\ lag \in Int
    BY DEF IInv, Setting
  <2>2. e \in Says /\ now - lag \in Int
    BY <2>1, ForeignIsSays, Clock
  <2> QED
    BY <1>7, <2>2, IngestAlone
<1>8. CASE Stop
  BY <1>8, StopAlone
<1>9. CASE Start
  BY <1>9, StartAlone
<1>10. CASE UNCHANGED vars
  <2>1. now' = now /\ phase' = phase /\ node' = node /\ history' = history
    BY <1>10 DEF vars
  <2> QED
    BY <2>1 DEF Alone, Timely
<1> QED
  BY <1>1, <1>2, <1>3, <1>4, <1>5, <1>6, <1>7, <1>8, <1>9, <1>10 DEF Next

-----------------------------------------------------------------------------
(* The theorems.                                                           *)

\* Every stored event is placed, none is beyond the drift, and no balance is ever
\* negative, whatever the replay order makes of the claims, transfers and posts.
THEOREM TypeCorrect == Spec => []TypeOK
<1>1. IInv => TypeOK
  <2> SUFFICES ASSUME IInv PROVE TypeOK
    OBVIOUS
  <2>1. NodeOK(node) /\ now \in 0..setting.horizon /\ phase \in {"up", "down", "refused"} /\ setting \in Setting
    BY DEF IInv
  <2>2. DOMAIN node.events \subseteq EventIds
    BY <2>1 DEF NodeOK, StoreOK, EventsOK
  <2>3. \A id \in DOMAIN node.events :
          /\ \E i \in DOMAIN node.blocks : id \in node.blocks[i].event_ids
          /\ node.events[id].unix_ts <= now + MaxFutureDrift
    BY <2>1 DEF IInv, NodeOK, StoreOK, Coherent, Placing!PlacedOnce, InDrift
  <2>4. node.view.invalid \cup node.view.rejected \subseteq DOMAIN node.events
    BY <2>1 DEF NodeOK, ViewOK
  <2>5. \A c \in Cids : Balance(node, c) >= 0
    BY <2>1 DEF NodeOK, ViewOK, LedgerOK, Balance
  <2>6. history.announced \subseteq EventIds
    BY DEF IInv, HistoryOK
  <2> QED
    BY <2>1, <2>2, <2>3, <2>4, <2>5, <2>6 DEF TypeOK
<1> QED
  BY <1>1, IInvAlways, PTL

\* The confirmations that a running node shows are those of its blocks.
THEOREM CountsAreFresh == Spec => []CountsFresh
<1>1. IInv => CountsFresh
  BY DEF IInv, Fresh, CountsFresh
<1> QED
  BY <1>1, IInvAlways, PTL

\* No post is served that its author could not pay for, and what the served posts
\* cost was burned.
THEOREM ServedArePaidFor == Spec => []ServedPaidFor
<1>1. IInv => ServedPaidFor
  <2> SUFFICES ASSUME IInv PROVE ServedPaidFor
    OBVIOUS
  <2>1. /\ C!ServedPosts(node.view.board) \subseteq Posts(DOMAIN node.events \ node.view.invalid, node.events)
        /\ Cost(node.events, C!ServedPosts(node.view.board)) <= node.view.ledger.burned
    BY DEF IInv, NodeOK, ViewOK, BoardOK
  <2>2. C!ServedPosts(node.view.board) \cap node.view.invalid = {}
    BY <2>1 DEF Posts
  <2> QED
    BY <2>1, <2>2 DEF ServedPaidFor, Cost
<1> QED
  BY <1>1, IInvAlways, PTL

\* What is served hangs together, whatever is hidden or rejected.
THEOREM BoardsAreCoherent == Spec => []BoardCoherent
<1>1. IInv => BoardCoherent
  <2> SUFFICES ASSUME IInv PROVE BoardCoherent
    OBVIOUS
  <2> DEFINE board == node.view.board
             A == DOMAIN node.events \ node.view.invalid
  <2>1. BoardOK(board, node.events, A)
    BY DEF IInv, NodeOK, ViewOK
  <2>2. \A x, kind : x \in A /\ node.events[x].says.kind = kind => x \in OfKind(A, node.events, kind)
    BY DEF OfKind
  <2>3. C!QueryThreads(board, NoObject) = DOMAIN board.threads /\ C!QueryRecipes(board) = DOMAIN board.recipes
    BY DEF C!QueryThreads, C!QueryRecipes
  <2>4. \A r \in board.replies : r[2] \in A /\ node.events[r[2]].says.kind = "ThreadCreated" =>
          r[2] \in C!QueryThreads(board, NoObject)
    BY <2>1, <2>2, <2>3 DEF BoardOK
  <2>5. \A t \in DOMAIN board.threads :
          /\ board.threads[t].recipe \in A /\ node.events[board.threads[t].recipe].says.kind = "RecipeCreated" =>
               board.threads[t].recipe \in C!QueryRecipes(board)
          /\ board.threads[t].reply_count = Cardinality(C!QueryReplies(board, t))
    BY <2>1, <2>2, <2>3 DEF BoardOK
  <2> QED
    BY <2>4, <2>5 DEF BoardCoherent
<1> QED
  BY <1>1, IInvAlways, PTL

\* A served recipe counts every accepted review and thumb, in whatever order they
\* are stored and replayed.
THEOREM TotalsAreComplete == Spec => []TotalsComplete
<1>1. IInv => TotalsComplete
  <2> SUFFICES ASSUME IInv, NEW x \in C!QueryRecipes(node.view.board)
               PROVE  /\ node.view.board.recipes[x].reviews =
                           Cardinality({id \in DOMAIN node.events \ node.view.invalid :
                                          /\ node.events[id].says.kind = "ReviewAdded"
                                          /\ node.events[id].says.parent = x})
                      /\ node.view.board.recipes[x].thumbs =
                           Cardinality({id \in DOMAIN node.events \ node.view.invalid :
                                          /\ node.events[id].says.kind = "ThumbsUpAdded"
                                          /\ node.events[id].says.parent = x})
    BY DEF TotalsComplete
  <2>1. BoardOK(node.view.board, node.events, DOMAIN node.events \ node.view.invalid)
    BY DEF IInv, NodeOK, ViewOK
  <2>2. x \in DOMAIN node.view.board.recipes
    BY DEF C!QueryRecipes
  <2> QED
    BY <2>1, <2>2 DEF BoardOK, Given
<1> QED
  BY <1>1, IInvAlways, PTL

\* Only a start drops events, and only if it finds two claims of one block, an alien or
\* an event in the genesis block.
THEOREM DropsForCauseOnly == Spec => DroppedForCauseOnly
<1>1. IInv /\ [Next]_vars =>
        [\/ DOMAIN node.events \subseteq DOMAIN node'.events
         \/ /\ phase \in {"down", "refused"}
            /\ \/ \E x, y \in DOMAIN node.events :
                    /\ x # y
                    /\ node.events[x].says.kind = "claim" /\ node.events[y].says.kind = "claim"
                    /\ node.events[x].says.block = node.events[y].says.block
               \/ Aliens(node) # {}
               \/ node.blocks[0].event_ids # {}]_vars
  BY NextStep DEF Keeps, Cause, Conflict
<1> QED
  BY <1>1, InitIInv, IInvAlways, PTL DEF Spec, DroppedForCauseOnly

\* A node that never stored a peer's event, whose own event time no start set back, whose
\* small events overtook no bigger one and that removed no moderator starts whenever it is
\* started, and has announced every event it holds: its replay accepts each event where
\* it was made.
THEOREM AloneNodesRun == Spec => []AloneRuns
<1>1. IInv /\ Alone /\ [Next]_vars => Alone'
  BY NextAlone
<1>2. Alone => AloneRuns
  BY DEF Alone, AloneRuns, Lonely, Calm, Peaceful
<1> QED
  BY <1>1, <1>2, InitAlone, IInvAlways, PTL DEF Spec
=============================================================================
