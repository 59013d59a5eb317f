-------------------------- MODULE ModerationReplay --------------------------
(***************************************************************************)
(* The second loop of Store::materialize_views over the moderation events, *)
(* one event per step, and the store operations that start it.             *)
(*                                                                         *)
(* The store is single-threaded: a new operation starts only when the loop *)
(* is done.  An event may go into any unconfirmed block, wherever the      *)
(* others are, and anywhere among them in time: first-fit looks for room   *)
(* (module BlockTimeline) and peers' events come late.  twin is a history  *)
(* variable: the same replay with the events removed that an outsider has  *)
(* no say in.                                                              *)
(***************************************************************************)
EXTENDS Moderation

CONSTANTS
  ProfilePolicy,   \* the policy of the community profile
  Offered,         \* moderation events that may be appended
  Moments,         \* places in time, one per event
  MaxLog,          \* bound on the number of moderation events
  MaxTip           \* bound on the confirmed blocks

ASSUME ModerationReplayConstants ==
  /\ ProfilePolicy \in Policy
  /\ Offered \subseteq ModerationEvent
  /\ Moments \subseteq Nat
  /\ MaxLog \in Nat /\ MaxTip \in Nat

VARIABLES
  log,        \* the stored moderation events, each with its block and moment
  confirmed,  \* the indices of the confirmed blocks
  view,       \* the moderation view, as far as the loop has come
  todo,       \* the stored events that the loop has still to come to
  pass,       \* "load" while load_event_log replays, before the blocks are loaded
  twin,       \* the view without the outsiders' events
  named,      \* history: whom the events stored since the profile set the policy make a moderator
  asked       \* history: who asks for which flag threshold in those events

vars == <<log, confirmed, view, todo, pass, twin, named, asked>>

Idle == todo = {} /\ pass = "main"

\* latest_confirmed_block_index, -1 if no block is confirmed.
Tip == IF confirmed = {} THEN -1 ELSE CHOOSE b \in confirmed : \A c \in confirmed : c <= b

\* event_confirmations: the block's own confirmed flag is not asked.
ConfirmationsBelow(confirmed_tip, entry) ==
  IF confirmed_tip < entry.block THEN 0 ELSE confirmed_tip - entry.block + 1

\* While the blocks of a fresh process are not loaded there is no tip.
Confirmations(entry) == IF pass = "load" THEN 0 ELSE ConfirmationsBelow(Tip, entry)

\* The replay order: by block, if the blocks are known, then by time (with kind and
\* id deciding ties, which moments stand for).
Precedes(p, x, y) ==
  IF p = "main" /\ x.block # y.block THEN x.block < y.block ELSE x.at < y.at

Events(entries) == {x.event : x \in entries}

\* Whom these events would make a moderator.
Named(evs) == {e.target : e \in {f \in evs : f.kind = "ModeratorAdded"}}

\* Who asks for which flag threshold in these events.
Asked(evs) == {[by |-> e.author, flags |-> e.flags] :
                 e \in {f \in evs : f.kind = "PolicyUpdated" /\ f.flags > 0}}

Outsiders == Cids \ (Seeds \cup Named(Events(log)))

StartReplay(p, policy, twinPolicy) ==
  /\ pass' = p
  /\ view' = Cleared(policy)
  /\ twin' = Cleared(twinPolicy)
  /\ todo' = log'

Init ==
  /\ log = {} /\ confirmed = {}
  /\ view = Cleared(ProfilePolicy)
  /\ twin = Cleared(ProfilePolicy)
  /\ todo = {} /\ named = {} /\ asked = {}
  /\ pass = "main"

\* append_event of a moderation event: placed, then everything is replayed.
AppendModeration(e, b, t) ==
  /\ Idle
  /\ Cardinality(log) < MaxLog
  /\ b \notin confirmed
  /\ \A x \in log : x.at # t
  /\ log' = log \cup {[event |-> e, block |-> b, at |-> t]}
  /\ named' = named \cup Named({e}) /\ asked' = asked \cup Asked({e})
  /\ StartReplay("main", view.policy, twin.policy)
  /\ UNCHANGED confirmed

\* append_event of any other event.
AppendOther ==
  /\ Idle
  /\ log' = log
  /\ StartReplay("main", view.policy, twin.policy)
  /\ UNCHANGED <<confirmed, named, asked>>

\* A rollback drops what lies above a checkpoint; the policy stays as the dropped
\* events left it.  Which block is the checkpoint is in module BlockTimeline.
RollbackToLastCheckpoint(checkpoint) ==
  /\ Idle
  /\ log' = {x \in log : x.block <= checkpoint}
  /\ confirmed' = {b \in confirmed : b <= checkpoint}
  /\ StartReplay("main", view.policy, twin.policy)
  /\ UNCHANGED <<named, asked>>

\* A restart: the policy is set from the profile, then open replays twice, first
\* in load_event_log, then with the blocks.
Restart ==
  /\ Idle
  /\ log' = log
  /\ named' = Named(Events(log)) /\ asked' = Asked(Events(log))
  /\ StartReplay("load", ProfilePolicy, ProfilePolicy)
  /\ UNCHANGED confirmed

\* A start that finds the store unusable sets it aside and opens an empty one; the
\* policy stays here too.
Quarantine ==
  /\ Idle
  /\ log' = {} /\ confirmed' = {}
  /\ StartReplay("load", view.policy, twin.policy)
  /\ UNCHANGED <<named, asked>>

BlocksLoaded ==
  /\ todo = {} /\ pass = "load"
  /\ log' = log
  /\ StartReplay("main", view.policy, twin.policy)
  /\ UNCHANGED <<confirmed, named, asked>>

\* routine_block_check confirms what is due, not always in the order of the indices
\* (an overflow block may be older than the one before it); it does not replay.
RoutineBlockCheck(b) ==
  /\ Idle
  /\ b \notin confirmed
  /\ confirmed' = confirmed \cup {b}
  /\ UNCHANGED <<log, view, todo, pass, twin, named, asked>>

ReplayNext(entry) ==
  LET skip == entry.event.author \in Outsiders /\ entry.event.kind # "ContentFlagged"
  IN  /\ \A x \in todo \ {entry} : Precedes(pass, entry, x)
      /\ view' = ApplyModeration(view, entry.event, Confirmations(entry))
      /\ twin' = IF skip THEN twin
                 ELSE ApplyModeration(twin, entry.event, Confirmations(entry))
      /\ todo' = todo \ {entry}
      /\ UNCHANGED <<log, confirmed, pass, named, asked>>

Next ==
  \/ \E e \in Offered : \E b \in 0..(MaxTip + 1) : \E t \in Moments : AppendModeration(e, b, t)
  \/ AppendOther
  \/ \E checkpoint \in {0} \cup confirmed : RollbackToLastCheckpoint(checkpoint)
  \/ Restart
  \/ Quarantine
  \/ BlocksLoaded
  \/ \E b \in 0..MaxTip : RoutineBlockCheck(b)
  \/ \E entry \in todo : ReplayNext(entry)

Spec == Init /\ [][Next]_vars

-----------------------------------------------------------------------------
(* Properties.                                                             *)

LogEntry == [event : ModerationEvent, block : Nat, at : Nat]

\* Every variable holds a value of its type; what is still to be replayed is stored,
\* and what the stored events name and ask for is on record.
TypeOK ==
  /\ log \subseteq LogEntry /\ todo \subseteq log
  /\ confirmed \subseteq Nat
  /\ view \in View /\ twin \in View
  /\ pass \in {"load", "main"}
  /\ Named(Events(log)) \subseteq named /\ named \subseteq Cids \cup {NoCid}
  /\ Asked(Events(log)) \subseteq asked /\ asked \subseteq [by : Cids, flags : Nat \ {0}]

\* However moderators add and remove one another, in whichever order the events
\* replay, the community never ends up without a moderator.
ModeratorsRemain == view.moderators # {}

\* The thresholds that an auto-hide can have been judged by: the profile's and those
\* that somebody who was ever named a moderator asked for since the profile was read,
\* in events that a rollback or a quarantine may have dropped in the meantime.
Thresholds ==
  {ProfilePolicy.flags} \cup {a.flags : a \in {q \in asked : q.by \in Seeds \cup named}}

\* An object counts as auto-hidden only while it is hidden and only if the stored
\* events flag it as often as such a threshold, whatever moderators, policy updates,
\* late events and rollbacks did in between.
AutoHideEarned ==
  /\ view.auto_hidden \subseteq view.hidden
  /\ \A x \in view.auto_hidden : \E n \in Thresholds :
       Cardinality({f \in log : f.event.kind = "ContentFlagged" /\ f.event.object = x}) >= n

\* Cids that nobody made a moderator change nothing but flag counts: without
\* their other events the replay ends with the same view, policy included.
OutsidersPowerless == view = twin

\* The view that a replay of the stored events below a confirmed tip gives.
Replayed(policy, p, confirmed_tip) ==
  LET after[S \in SUBSET log] ==
        IF S = {} THEN Cleared(policy)
        ELSE LET last == CHOOSE x \in S : \A y \in S \ {x} : Precedes(p, y, x)
             IN  ApplyModeration(after[S \ {last}], last.event, ConfirmationsBelow(confirmed_tip, last))
  IN  after[log]

\* A peer that restarts shows what a peer shows that keeps running ("Replay/
\* idempotency stable across peers.", moderation-plan.md:94).
ReplayStableAcrossPeers ==
  LET running   == Replayed(view.policy, "main", Tip)
      restarted == Replayed(Replayed(ProfilePolicy, "load", -1).policy, "main", Tip)
  IN  Idle => /\ running.hidden = restarted.hidden
              /\ running.moderators = restarted.moderators

\* Between operations the view is the one the stored events and the confirmed
\* tip determine, so that peers with the same chain show the same content
\* ("Visibility is deterministic after finality threshold so all peers
\* converge.", moderation-plan.md:6).
ViewDeterminedByChain == Idle => view = Replayed(view.policy, "main", Tip)
=============================================================================
