----------------------------- MODULE Community -----------------------------
(***************************************************************************)
(* One node of a community: the store with all its parts, the operations   *)
(* of AlphaService that append to it, the events that peers send, and the  *)
(* start that validates what it loaded.  The timeline, the economic rules, *)
(* the moderation rules and the forum views are those of BlockTimeline,    *)
(* Ledger, Moderation and Content.                                         *)
(*                                                                         *)
(* Ids are numbers, since ids decide ties in the replay order.  A start is *)
(* one step and its files hold what was in memory: what a stop inside a    *)
(* write leaves is in StoreDisk, reading the directory and the release's   *)
(* genesis in Startup, the wallet in Wallet (it is unlocked here), the     *)
(* queue's way to the peers in Publish.                                    *)
(***************************************************************************)
EXTENDS Integers, Sequences, FiniteSets, FiniteSetsExt

CONSTANTS
  EventIds, Cids, Me, NoCid, NoObject,
  Seeds,                    \* the moderators of the community profile
  RawSubsidy, BlockIndices, MinSubsidy, MaxSupply, FeeDivisor,
  BlockInterval, MaxReservePerCheck, MaxFutureDrift, MaxPastDrift,
  MaxBlockEvents, MaxBlockBytes, Sizes,
  ClaimSize,                \* the size of a claim of this node
  CheckpointInterval, CheckpointConfirmations,
  Settings,                 \* what a behaviour is about, see Setting
  Amounts, MaxNonce         \* bounds on the transfers

ASSUME CommunityConstants ==
  /\ EventIds \subseteq Nat /\ IsFiniteSet(EventIds) /\ NoObject \notin EventIds
  /\ Me \in Cids /\ NoCid \notin Cids /\ Seeds \subseteq Cids
  /\ BlockIndices \subseteq Nat /\ RawSubsidy \in [BlockIndices -> Nat]
  /\ MinSubsidy \in Nat \ {0} /\ MaxSupply \in Nat /\ FeeDivisor \in Nat \ {0}
  /\ BlockInterval \in Nat \ {0} /\ MaxReservePerCheck \in Nat \ {0}
  /\ MaxBlockEvents \in Nat \ {0} /\ MaxBlockBytes \in Nat \ {0}
  /\ Sizes \subseteq 1..MaxBlockBytes /\ ClaimSize \in Sizes   \* max_event_bytes is far less
  /\ MaxFutureDrift \in Nat /\ MaxPastDrift \in Nat
  /\ CheckpointInterval \in Nat \ {0} /\ CheckpointConfirmations \in Nat \ {0}
  /\ Amounts \subseteq Nat \ {0} /\ MaxNonce \in Nat

VARIABLES
  now,      \* util::unix_timestamp_now()
  phase,    \* "up", "down", or "refused": the last start failed
  node,     \* the store and last_local_event_unix_ts_
  history,  \* what the properties need of the past
  setting   \* the kinds of event on offer and the profile's numbers

vars == <<now, phase, node, history, setting>>

L == INSTANCE Ledger
M == INSTANCE Moderation WITH Objects <- EventIds
C == INSTANCE Content WITH Ids <- EventIds

Timeline == INSTANCE BlockTimeline WITH
  EnablePruning <- FALSE, PruneKeepRecent <- 1, MaxTime <- 0, events <- 0, blocks <- 0, chain <- 0

Kinds == {"claim", "transfer", "ProfileUpdated"} \cup C!PostKinds
         \cup {"ModeratorAdded", "ModeratorRemoved"} \cup M!VisibilityKinds \cup M!PinKinds

\* What is on offer: ids, in their order or (ties) not, the ids that other events are
\* about, values of posts, sizes, the lag of a peer's event and whether it may be an
\* alien, whether the node stops before both the ids and the time are used up, the age
\* of the empty store at the beginning and how long the clock runs.
Setting == [kinds : SUBSET Kinds, authors : SUBSET Cids, minimum_post_value : Nat,
            confirmation_threshold : Nat, policy : M!Policy,
            ids : SUBSET EventIds, about : SUBSET EventIds, ties : BOOLEAN, values : SUBSET Nat,
            sizes : SUBSET Sizes, lags : SUBSET Int, aliens : SUBSET BOOLEAN, stops : BOOLEAN,
            age : Nat, horizon : Nat]

ASSUME CommunitySettings == Settings \subseteq Setting /\ \A S \in Settings : S.horizon >= S.age

\* What an event says: an economic event, a post with its value, a moderation
\* event, or a display name.
IsPost(e) == e.kind \in C!PostKinds
IsEconomic(e) == e.kind \in {"claim", "transfer"} \/ IsPost(e)
IsModeration(e) == e.kind \in M!RoleKinds \cup M!VisibilityKinds \cup M!PinKinds

AsPost(e) == [kind |-> "post", author |-> e.author, value |-> e.value]
Economic(e) == IF IsPost(e) THEN AsPost(e) ELSE e

-----------------------------------------------------------------------------
(* Replay.  evs: from the stored ids to events; bs: the blocks.            *)

\* An alien names another chain, network or community than the store's, or carries an
\* id that is not of its content.  Nothing looks at this but the validation.
Event(e, ts, size, alien) == [says |-> e, unix_ts |-> ts, size |-> size, alien |-> alien]

BlockOf(bs, id) == CHOOSE i \in DOMAIN bs : id \in bs[i].event_ids

Priority(e) == CASE e.kind = "claim" -> 0 [] e.kind = "transfer" -> 1 [] OTHER -> 2

\* What the replay sorts by: block, time, kind and id.
SortKey(evs, bs, id) == <<BlockOf(bs, id), evs[id].unix_ts, Priority(evs[id].says), id>>

Before(p, q) == \E k \in 1..4 : p[k] < q[k] /\ \A j \in 1..(k - 1) : p[j] = q[j]

Earlier(keys, p) == {q \in keys : Before(q, p)}

\* The stored ids, each at the place that the number of earlier ones gives it.
ReplayOrder(evs, bs) ==
  LET keys == {SortKey(evs, bs, id) : id \in DOMAIN evs}
      placed == {<<Cardinality(Earlier(keys, p)) + 1, p[4]>> : p \in keys}
  IN  [k \in 1..Cardinality(keys) |-> (CHOOSE at \in placed : at[1] = k)[2]]

\* Confirmations as replay counts them, from the block's index alone.
Confirmations(bs, id) ==
  LET from == {i \in Timeline!Confirmed(bs) : i >= BlockOf(bs, id)}
  IN  IF from = {} THEN 0 ELSE Max(from) - BlockOf(bs, id) + 1

\* The rejection that start-up knows how to repair.
IsDuplicate(ledger, e, confirmed) ==
  /\ e.kind = "claim" /\ e.block \in confirmed
  /\ e.reward > 0 /\ e.reward = L!ExpectedClaimReward(e.block, ledger.issued)
  /\ ledger.claimed[e.block] # NoCid

\* The cids whose entry in reward_balances_ the event makes or reads.
Touched(ledger, e) ==
  LET rich == [ledger EXCEPT !.balance = [c \in Cids |-> e.amount + e.fee]]
  IN  CASE e.kind = "claim" -> {}
        [] e.kind = "transfer" -> IF L!TransferAccepted(rich, e) THEN {e.author} ELSE {}
        [] e.kind = "post" -> IF e.value > 0 THEN {e.author} ELSE {}

NoEconomy == [ledger |-> L!EmptyLedger, entries |-> {}, invalid |-> {}, duplicate |-> {}]

\* The first loop of materialize_views passes over what is not economic.
EconomyStep(E, evs, id, confirmed) ==
  LET e == Economic(evs[id].says)
  IN  IF ~IsEconomic(evs[id].says) THEN E
      ELSE IF L!Accepted(E.ledger, e, confirmed)
      THEN [E EXCEPT !.ledger = L!ApplyEvent(E.ledger, e, confirmed),
                     !.entries = @ \cup Touched(E.ledger, e)
                       \cup (CASE e.kind = "claim" -> {e.author} [] e.kind = "transfer" -> {e.to}
                               [] OTHER -> {})]
      ELSE [E EXCEPT !.invalid = @ \cup {id},
                     !.entries = @ \cup Touched(E.ledger, e),
                     !.duplicate = IF IsDuplicate(E.ledger, e, confirmed) THEN @ \cup {id} ELSE @]

Economy(evs, bs, order) ==
  LET confirmed == Timeline!Confirmed(bs) \cap BlockIndices
      after[k \in 0..Len(order)] ==
        IF k = 0 THEN NoEconomy ELSE EconomyStep(after[k - 1], evs, order[k], confirmed)
  IN  after[Len(order)]

\* What lands in invalid_moderation_events_.
IsRejected(V, e, confirmations) ==
  /\ M!Effective(V.policy, confirmations)
  /\ \/ M!ModeratorRequired(e.kind) /\ e.author \notin V.moderators
     \/ e.kind \in M!RoleKinds /\ e.target = NoCid
     \/ e.kind = "ModeratorRemoved" /\ ~M!RemovalAllowed(V, e.target)

\* Mutant: the second loop serves what the first one rejected.
SkippedNever(invalid, id) == FALSE

Skipped(invalid, id) == id \in invalid

NoForum(policy) == [moderation |-> M!Cleared(policy), rejected |-> {}, posts |-> C!NoPosts]

\* The second loop, for moderation and posts.
ForumStep(F, evs, bs, id, invalid) ==
  LET e == evs[id].says
  IN  IF IsModeration(e)
      THEN [F EXCEPT !.moderation = M!ApplyModeration(F.moderation, e, Confirmations(bs, id)),
                     !.rejected = IF IsRejected(F.moderation, e, Confirmations(bs, id))
                                  THEN @ \cup {id} ELSE @]
      ELSE IF IsPost(e) /\ ~Skipped(invalid, id) THEN [F EXCEPT !.posts = C!AddPost(F.posts, id, e)]
      ELSE F

Forum(evs, bs, order, invalid, policy) ==
  LET after[k \in 0..Len(order)] ==
        IF k = 0 THEN NoForum(policy) ELSE ForumStep(after[k - 1], evs, bs, order[k], invalid)
  IN  after[Len(order)]

\* materialize_views
View(evs, bs) ==
  LET order == ReplayOrder(evs, bs)
      E == Economy(evs, bs, order)
      F == Forum(evs, bs, order, E.invalid, setting.policy)
  IN  [ledger |-> E.ledger, entries |-> E.entries, invalid |-> E.invalid, duplicate |-> E.duplicate,
       rejected |-> F.rejected, moderation |-> F.moderation,
       board |-> C!Served(F.posts, F.moderation.pins, F.moderation.hidden)]

\* apply_confirmation_metrics: an unconfirmed block counts nothing here.
Metrics(board, bs) ==
  [id \in C!ServedPosts(board) |->
     IF bs[BlockOf(bs, id)].confirmed THEN Confirmations(bs, id) ELSE 0]

-----------------------------------------------------------------------------
(* The store's operations on a node.                                       *)

Replayed(N) ==
  LET v == View(N.events, N.blocks)
  IN  [N EXCEPT !.view = v, !.shown = Metrics(v.board, N.blocks)]

Checked(bs) == Timeline!ConfirmDue(Timeline!EnsureBlockSlots(bs, now), now)

\* Mutant: the metrics are applied before the due blocks are confirmed.
RoutineCheckMetricsFirst(N) ==
  [N EXCEPT !.blocks = Checked(N.blocks), !.shown = Metrics(N.view.board, N.blocks)]

\* routine_block_check: it does not replay.
RoutineCheck(N) ==
  LET bs == Checked(N.blocks) IN [N EXCEPT !.blocks = bs, !.shown = Metrics(N.view.board, bs)]

Stored(N, id, event) == id \notin DOMAIN N.events /\ Timeline!WithinDrift(event.unix_ts)

\* append_event: a rejected envelope changes nothing.
Appended(N, id, event) ==
  LET evs == [x \in DOMAIN N.events \cup {id} |-> IF x = id THEN event ELSE N.events[x]]
      bs == Timeline!EnsureBlockSlots(Timeline!AssignEvent(N.blocks, evs, id), now)
  IN  IF Stored(N, id, event) THEN Replayed([N EXCEPT !.events = evs, !.blocks = bs]) ELSE N

Aliens(N) == {id \in DOMAIN N.events : N.events[id].alien}

\* The findings of backtest_validate that stored events can cause.
Valid(N) == N.view.invalid = {} /\ N.view.rejected = {} /\ Aliens(N) = {}

RolledBack(N) ==
  LET kept == {i \in DOMAIN N.blocks : i <= Timeline!CheckpointIndex(N.blocks)}
      bs == Timeline!RestrictTo(N.blocks, kept)
  IN  Replayed([N EXCEPT !.blocks = bs,
                         !.events = Timeline!RestrictTo(@, UNION {bs[i].event_ids : i \in kept})])

NoEvents == [id \in {} |-> 0]
NewGenesis(t) == [i \in {0} |-> Timeline!NewBlock(t)]

\* quarantine_and_reset_store_dir, and open.
Quarantined(N) == Replayed([N EXCEPT !.events = NoEvents, !.blocks = NewGenesis(now)])

-----------------------------------------------------------------------------
(* A local operation: make_event, then append_locally_and_queue.           *)

Mine(N) == {id \in DOMAIN N.events : N.events[id].says.author = Me}

\* Mutant: two events of one second have the same time.
LocalTimeOfClock(N) == now

LocalTime(N) == IF now > N.last THEN now ELSE N.last + 1

FreshIds(N) == LET free == setting.ids \ DOMAIN N.events
               IN  IF free = {} THEN {} ELSE IF setting.ties THEN {Min(free), Max(free)} ELSE {Min(free)}

\* A new own event is smaller than an older one and fits into an earlier block.
Overtakes(N, id) ==
  \E x \in Mine(N) : /\ N.events[id].size < N.events[x].size
                     /\ BlockOf(N.blocks, id) < BlockOf(N.blocks, x)

\* A peer claims a block that this node claims, too, or pays it.
Entangled(N) ==
  LET stored == {N.events[id].says : id \in DOMAIN N.events}
      own == {e \in stored : e.author = Me}
  IN  \E f \in stored \ own :
        \/ f.kind = "transfer" /\ f.to = Me
        \/ f.kind = "claim" /\ \E e \in own : e.kind = "claim" /\ e.block = f.block

\* The node and the history after an own event: it is stored, and announced if it
\* always is (a claim) or if the store is valid with it.
Announced(S, id, N, always) ==
  IF id \notin DOMAIN N.events THEN [S EXCEPT !.node = N, !.ok = FALSE]
  ELSE [node |-> N, ok |-> Valid(N),
        history |-> [S.history EXCEPT
          !.announced = IF always \/ Valid(N) THEN @ \cup {id} ELSE @ \ {id},
          !.overtaken = @ \/ Overtakes(N, id), !.entangled = @ \/ Entangled(N)]]

Made(S, id, e, size, always) ==
  LET ts == LocalTime(S.node)
  IN  Announced(S, id, Appended([S.node EXCEPT !.last = ts], id, Event(e, ts, size, FALSE)), always)

Now == [node |-> node, history |-> history, ok |-> TRUE]

Becomes(S) == \E T \in {S} : /\ node' = T.node /\ history' = T.history
                            /\ UNCHANGED <<now, phase, setting>>

\* Bound: own event time runs ahead by one refused event at most.
InTime == node.last <= now + MaxFutureDrift

Offers(kind) == phase = "up" /\ InTime /\ kind \in setting.kinds /\ Me \in setting.authors

Publish(e) == /\ Offers(e.kind)
              /\ \E id \in FreshIds(node), size \in setting.sizes : Becomes(Made(Now, id, e, size, FALSE))

Balance(N, c) == N.view.ledger.balance[c]

\* Mutant: what a post costs is not compared with the balance.
CoversAlways(value) == TRUE

Covers(value) == value > 0 => Balance(node, Me) >= value

\* validate_and_apply_post_cost
PostCost(requested) == Max({requested, setting.minimum_post_value})

PostBy(kind, author, value, parent, rating, core) ==
  [kind |-> kind, author |-> author, value |-> value, parent |-> parent, rating |-> rating, core |-> core]

CreateRecipe ==
  \E requested \in setting.values : \E core \in BOOLEAN :
    LET value == IF core THEN requested ELSE PostCost(requested)
    IN  /\ Covers(value)
        /\ Publish(PostBy("RecipeCreated", Me, value, NoObject, 0, core))

\* create_thread, create_reply and add_review: the parent need not be known.
CreateUnder(kind, rating) ==
  \E requested \in setting.values : \E parent \in setting.about :
    /\ Covers(PostCost(requested))
    /\ Publish(PostBy(kind, Me, PostCost(requested), parent, rating, FALSE))

AddThumbUp ==
  \E x \in C!QueryRecipes(node.view.board) :
    Publish(PostBy("ThumbsUpAdded", Me, 0, x, 0, FALSE))

\* The cids that resolve_address_to_cid and resolve_display_name_to_cid find.
KnownTargets ==
  {Me} \cup node.view.entries
  \cup {e.author : e \in {f \in {node.events[id].says : id \in DOMAIN node.events} :
                            f.kind = "ProfileUpdated"}}

TransferRewards ==
  \E to \in KnownTargets : \E amount \in Amounts :
    /\ Balance(node, Me) >= amount + L!BurnFee(amount)
    /\ Publish([kind |-> "transfer", author |-> Me, to |-> to, amount |-> amount,
                fee |-> L!BurnFee(amount), nonce |-> node.view.ledger.nonce[Me] + 1, witness_ok |-> TRUE])

SetDisplayName == Publish([kind |-> "ProfileUpdated", author |-> Me])

\* ensure_local_moderator: by the replayed moderators or by the profile.
IsLocalModerator ==
  setting.policy.enabled /\ (Me \in node.view.moderation.moderators \/ Me \in Seeds)

AboutObject(kind, x) == [kind |-> kind, author |-> Me, object |-> x]

FlagContent == \E x \in setting.about : Publish(AboutObject("ContentFlagged", x))

\* set_content_hidden and pin_core_topic
Moderate(kind) == IsLocalModerator /\ \E x \in setting.about : Publish(AboutObject(kind, x))

\* add_moderator and remove_moderator: whom they name is not looked at.
ChangeRole(kind) ==
  IsLocalModerator /\ \E c \in Cids : Publish([kind |-> kind, author |-> Me, target |-> c])

\* downvote_and_purge_content: the object is hidden only if flagging it succeeded.
DownvoteAndPurge ==
  /\ Offers("ContentHidden") /\ Offers("ContentFlagged") /\ IsLocalModerator
  /\ \E x \in setting.about, id \in FreshIds(node), size \in setting.sizes :
       LET flagged == Made(Now, id, AboutObject("ContentFlagged", x), size, FALSE)
       IN  \E second \in FreshIds(flagged.node), other \in setting.sizes :
             Becomes(IF flagged.ok THEN Made(flagged, second, AboutObject("ContentHidden", x), other, FALSE)
                     ELSE flagged)

\* claimable_confirmed_blocks, as the last replay saw the claims.
Claimable(N) ==
  LET confirmed == Timeline!Confirmed(N.blocks) \ {0}
  IN  {i \in confirmed \cap BlockIndices :
         /\ Max(confirmed) - i + 1 >= setting.confirmation_threshold
         /\ N.view.ledger.claimed[i] = NoCid}

\* One round of the claim loop, for block b, under the first or the last id at hand.
\* In the loop, ok says that the last claim was stored.
ClaimRound(T, b, last) ==
  LET reward == L!ExpectedClaimReward(b, T.node.view.ledger.issued)
      claim == [kind |-> "claim", author |-> Me, block |-> b, reward |-> reward, proof_ok |-> TRUE]
      id == IF last THEN Max(FreshIds(T.node)) ELSE Min(FreshIds(T.node))
      S == Made(T, id, claim, ClaimSize, TRUE)
  IN  IF ~T.ok \/ reward <= 0 \/ FreshIds(T.node) = {} THEN T
      ELSE [S EXCEPT !.ok = id \in DOMAIN S.node.events]

\* try_claim_confirmed_block_rewards: the blocks that were claimable when it began,
\* one after the other, until one cannot be stored.
Claims(S, last) ==
  LET claimable == Claimable(S.node)
      after[i \in 0..Timeline!Back(S.node.blocks)] ==
        IF i = 0 THEN S
        ELSE IF i \in claimable THEN ClaimRound(after[i - 1], i, last) ELSE after[i - 1]
  IN  after[Timeline!Back(S.node.blocks)]

\* sync_tick; every behaviour has ids for the claims it makes.
SyncTick ==
  /\ phase = "up" /\ InTime
  /\ \E S \in {[Now EXCEPT !.node = RoutineCheck(node)]} :
       /\ Cardinality(Claimable(S.node)) <= Cardinality(setting.ids \ DOMAIN node.events)
       /\ \E last \in BOOLEAN : Becomes(Claims(S, last))

-----------------------------------------------------------------------------
(* Events of peers, stops and starts.                                      *)

\* What peers send: fields that the validation accepts, and fit for a node with
\* another history.
Foreign(author) ==
  {[kind |-> "claim", author |-> author, block |-> b, reward |-> L!ScheduledReward(b),
    proof_ok |-> TRUE] : b \in {i \in BlockIndices : 0 < i /\ i <= now}}
  \cup {[kind |-> "transfer", author |-> author, to |-> to, amount |-> amount,
         fee |-> L!BurnFee(amount), nonce |-> nonce, witness_ok |-> TRUE] :
          to \in Cids, amount \in Amounts, nonce \in 1..MaxNonce}
  \cup [kind : {"ProfileUpdated"}, author : {author}]
  \cup [kind : {"RecipeCreated"}, author : {author}, value : setting.values, parent : {NoObject},
        rating : {0}, core : {FALSE}]
  \cup [kind : {"ThreadCreated", "ReplyCreated", "ReviewAdded", "ThumbsUpAdded"}, author : {author},
        value : setting.values, parent : setting.about, rating : {5}, core : {FALSE}]
  \cup [kind : M!RoleKinds, author : {author}, target : Cids]
  \cup [kind : M!VisibilityKinds \cup M!PinKinds, author : {author}, object : setting.about]

IngestRemoteEvent(e, ts) ==
  /\ phase = "up" /\ e.kind \in setting.kinds
  /\ \E id \in FreshIds(node), size \in setting.sizes, alien \in setting.aliens :
       /\ node' = Appended(node, id, Event(e, ts, size, alien))
       /\ history' = [history EXCEPT !.met = @ \/ id \in DOMAIN node'.events,
                                     !.entangled = @ \/ Entangled(node')]
  /\ UNCHANGED <<now, phase, setting>>

NoView == [ledger |-> L!EmptyLedger, entries |-> {}, invalid |-> {}, duplicate |-> {}, rejected |-> {},
           moderation |-> M!Cleared(setting.policy), board |-> C!EmptyBoard]

NoShown == [id \in {} |-> 0]

Stop ==
  /\ phase = "up" /\ (setting.stops \/ (now = setting.horizon /\ setting.ids \subseteq DOMAIN node.events))
  /\ phase' = "down"
  /\ node' = [node EXCEPT !.view = NoView, !.shown = NoShown, !.last = 0]
  /\ UNCHANGED <<now, history, setting>>

\* Mutant: every finding makes the start roll the store back.
RollsBackOnAnyFinding(N) == ~Valid(N)

\* has_duplicate_reward_claim_error
RollsBack(N) == N.view.duplicate # {}

\* use_community_profile: open, quarantine if the genesis block holds an event and so
\* is not the release's, the block check and the validation; for a claim conflict the
\* rollback and another check; for an alien quarantine and another check.  The process
\* ends if the validation still fails.
Start ==
  /\ phase \in {"down", "refused"}
  /\ \E opened \in {Replayed([node EXCEPT !.blocks = Timeline!EnsureBlockSlots(@, now)])} :
     \E checked \in {RoutineCheck(IF opened.blocks[0].event_ids = {} THEN opened ELSE Quarantined(opened))} :
     \E repaired \in {IF RollsBack(checked) THEN RoutineCheck(RolledBack(checked)) ELSE checked} :
     \E N \in {IF Aliens(repaired) = {} THEN repaired ELSE RoutineCheck(Quarantined(repaired))} :
       /\ phase' = IF Valid(N) THEN "up" ELSE "refused"
       /\ node' = IF Valid(N) THEN N ELSE [N EXCEPT !.view = NoView, !.shown = NoShown]
       /\ history' = [history EXCEPT !.rewound = @ \/ \E x \in Mine(N) : N.events[x].unix_ts >= now]
  /\ UNCHANGED <<now, setting>>

\* The store was created at time 0 and holds no events.
Init ==
  /\ setting \in Settings
  /\ now = setting.age
  /\ phase = "up"
  /\ node = [events |-> NoEvents, blocks |-> Checked(NewGenesis(0)),
             view |-> NoView, shown |-> NoShown, last |-> 0]
  /\ history = [met |-> FALSE,        \* an event of a peer was stored
                announced |-> {},
                rewound |-> FALSE,    \* a start set the own event time back
                overtaken |-> FALSE,  \* see Overtakes and Entangled
                entangled |-> FALSE]

Tick ==
  /\ now < setting.horizon
  /\ now' = now + 1
  /\ UNCHANGED <<phase, node, history, setting>>

LocalPost ==
  \/ CreateRecipe
  \/ \E kind \in {"ThreadCreated", "ReplyCreated"} : CreateUnder(kind, 0)
  \/ CreateUnder("ReviewAdded", 5)
  \/ AddThumbUp

LocalModeration ==
  \/ FlagContent
  \/ \E kind \in {"ContentHidden", "ContentUnhidden"} \cup M!PinKinds : Moderate(kind)
  \/ \E kind \in M!RoleKinds : ChangeRole(kind)
  \/ DownvoteAndPurge

Next ==
  \/ Tick
  \/ LocalPost
  \/ LocalModeration
  \/ TransferRewards
  \/ SetDisplayName
  \/ SyncTick
  \/ \E author \in setting.authors \ {Me} : \E e \in Foreign(author) :
       \E lag \in setting.lags : IngestRemoteEvent(e, now - lag)
  \/ Stop
  \/ Start

Spec == Init /\ [][Next]_vars

-----------------------------------------------------------------------------
(* Properties.                                                             *)

\* The variables hold values of their types; every stored event is placed, no
\* timestamp is beyond the drift that the validation allows, and no balance is
\* negative.
TypeOK ==
  /\ now \in 0..setting.horizon /\ phase \in {"up", "down", "refused"}
  /\ setting \in Setting
  /\ DOMAIN node.events \subseteq EventIds
  /\ \A id \in DOMAIN node.events :
       /\ \E i \in DOMAIN node.blocks : id \in node.blocks[i].event_ids
       /\ node.events[id].unix_ts <= now + MaxFutureDrift
  /\ node.view.invalid \cup node.view.rejected \subseteq DOMAIN node.events
  /\ \A c \in Cids : Balance(node, c) >= 0
  /\ history.announced \subseteq EventIds

\* Peers whose claims leave the own blocks alone and who never pay this node cannot
\* make one of its own claims, transfers or posts fail, at whatever time and in
\* whatever order their events arrive; only a start that set the own event time back
\* can, and a small own event that overtook a bigger one.  Near the supply's cap, which
\* the run never reaches, a peer's claim of another block could: it changes what is left
\* for a later one.
OwnEventsStand ==
  ~history.rewound /\ ~history.overtaken /\ ~history.entangled => Mine(node) \cap node.view.invalid = {}

\* A node that never stored an event of a peer starts whenever it is started, and has
\* announced every event it holds, unless its event time was set back, a small event
\* overtook a bigger one, or it removed a moderator.
AloneRuns ==
  ~history.rewound /\ ~history.overtaken /\ ~history.met
  /\ (\A id \in DOMAIN node.events : node.events[id].says.kind # "ModeratorRemoved") =>
    /\ phase # "refused"
    /\ DOMAIN node.events \subseteq history.announced

\* Only a start drops events, and only if two claims of one block are stored, an alien
\* is stored or the genesis block holds an event; whatever else it finds, it keeps them.
DroppedForCauseOnly ==
  [][\/ DOMAIN node.events \subseteq DOMAIN node'.events
     \/ /\ phase \in {"down", "refused"}
        /\ \/ \E x, y \in DOMAIN node.events :
                /\ x # y
                /\ node.events[x].says.kind = "claim" /\ node.events[y].says.kind = "claim"
                /\ node.events[x].says.block = node.events[y].says.block
           \/ Aliens(node) # {}
           \/ node.blocks[0].event_ids # {}]_vars

\* What the served posts cost was burned: a post its author could not pay for where
\* the replay put it is not served.
ServedPaidFor ==
  LET served == C!ServedPosts(node.view.board)
  IN  /\ served \cap node.view.invalid = {}
      /\ MapThenSumSet(LAMBDA id : node.events[id].says.value, served) <= node.view.ledger.burned

\* What is served hangs together whatever is hidden: no reply is served whose thread
\* is stored but not served, no thread whose recipe is hidden, and a thread counts
\* the replies that are served with it.
BoardCoherent ==
  LET board == node.view.board
      stored(x, kind) == x \in DOMAIN node.events \ node.view.invalid /\ node.events[x].says.kind = kind
  IN  /\ \A r \in board.replies : stored(r[2], "ThreadCreated") => r[2] \in C!QueryThreads(board, NoObject)
      /\ \A t \in DOMAIN board.threads :
           LET x == board.threads[t].recipe
           IN  stored(x, "RecipeCreated") => x \in C!QueryRecipes(board)
      /\ \A t \in DOMAIN board.threads :
           board.threads[t].reply_count = Cardinality(C!QueryReplies(board, t))

\* A served recipe's totals hold every accepted review and thumb, also one that was
\* stored or replayed before the recipe.
TotalsComplete ==
  \A x \in C!QueryRecipes(node.view.board) :
    LET given(kind) == {id \in DOMAIN node.events \ node.view.invalid :
                          /\ node.events[id].says.kind = kind
                          /\ node.events[id].says.parent = x}
    IN  /\ node.view.board.recipes[x].reviews = Cardinality(given("ReviewAdded"))
        /\ node.view.board.recipes[x].thumbs = Cardinality(given("ThumbsUpAdded"))

\* The confirmations shown with a served post are those of its block now, although
\* the block check that confirms blocks does not replay.
CountsFresh ==
  phase = "up" => node.shown = Metrics(node.view.board, node.blocks)
=============================================================================
