----------------------------- MODULE Moderation -----------------------------
(***************************************************************************)
(* The moderation rules of Store::materialize_views as operators: what one *)
(* moderation event does to the view that replay rebuilds and to the       *)
(* policy, which replay does not rebuild.                                  *)
(*                                                                         *)
(* A payload is reduced to what the rules read.  A missing target or       *)
(* object is NoCid or NoObject; a policy field that is missing or not      *)
(* positive is 0, and finality is the set of values it may be updated to:  *)
(* empty when the field is missing.                                        *)
(***************************************************************************)
EXTENDS Integers, FiniteSets

CONSTANTS
  Cids, NoCid,        \* authors and targets; the empty cid
  Objects, NoObject,  \* content ids; the empty id
  Seeds               \* moderation_policy_.moderator_cids, from the profile

ASSUME ModerationConstants ==
  /\ NoCid \notin Cids
  /\ NoObject \notin Objects
  /\ Seeds \subseteq Cids /\ Seeds # {} /\ IsFiniteSet(Seeds)

Policy == [enabled : BOOLEAN, finality : BOOLEAN, confirmations : Nat \ {0}, flags : Nat \ {0}]

RoleKinds == {"ModeratorAdded", "ModeratorRemoved"}
VisibilityKinds == {"ContentFlagged", "ContentHidden", "ContentUnhidden"}
PinKinds == {"CoreTopicPinned", "CoreTopicUnpinned"}

RoleEvent == [kind : RoleKinds, author : Cids, target : Cids \cup {NoCid}]
ObjectEvent == [kind : VisibilityKinds \cup PinKinds, author : Cids, object : Objects \cup {NoObject}]
PolicyEvent == [kind : {"PolicyUpdated"}, author : Cids, flags : Nat, confirmations : Nat,
                finality : SUBSET BOOLEAN]

ModerationEvent == RoleEvent \cup ObjectEvent \cup PolicyEvent

\* moderation_policy_, moderators_, moderation_flag_counts_,
\* moderation_hidden_objects_, moderation_auto_hidden_objects_ and
\* moderation_core_topic_overrides_.
View == [policy : Policy, moderators : SUBSET Cids, flags : [Objects -> Nat],
         hidden : SUBSET Objects, auto_hidden : SUBSET Objects,
         pins : [Objects -> {"none", "pinned", "unpinned"}]]

\* Every view is cleared and the moderators are seeded; the policy stays.
Cleared(policy) ==
  [policy |-> policy, moderators |-> Seeds, flags |-> [x \in Objects |-> 0],
   hidden |-> {}, auto_hidden |-> {}, pins |-> [x \in Objects |-> "none"]]

Effective(policy, confirmations) ==
  policy.enabled /\ (policy.finality => confirmations >= policy.confirmations)

\* Mutant: pinning does not ask for authority.
ModeratorRequiredExceptPins(kind) == kind \notin {"ContentFlagged"} \cup PinKinds

ModeratorRequired(kind) == kind # "ContentFlagged"

\* Mutant: the last moderator may be removed.
RemovalAllowedUnlessUnknown(V, target) == target \in V.moderators

\* Removing an unknown target or the last moderator is invalid.
RemovalAllowed(V, target) == target \in V.moderators /\ Cardinality(V.moderators) > 1

\* Mutant: the object is hidden one flag too early.
FlagHidesEarly(V, x) ==
  LET hides == V.flags[x] + 2 >= V.policy.flags
  IN  [V EXCEPT !.flags = [V.flags EXCEPT ![x] = V.flags[x] + 1],
                !.hidden = IF hides THEN @ \cup {x} ELSE @,
                !.auto_hidden = IF hides THEN @ \cup {x} ELSE @]

Flag(V, x) ==
  LET hides == V.flags[x] + 1 >= V.policy.flags
  IN  [V EXCEPT !.flags = [V.flags EXCEPT ![x] = V.flags[x] + 1],
                !.hidden = IF hides THEN @ \cup {x} ELSE @,
                !.auto_hidden = IF hides THEN @ \cup {x} ELSE @]

UpdatedPolicy(policy, e) ==
  [enabled |-> policy.enabled,
   finality |-> IF e.finality = {} THEN policy.finality ELSE TRUE \in e.finality,
   confirmations |-> IF e.confirmations > 0 THEN e.confirmations ELSE policy.confirmations,
   flags |-> IF e.flags > 0 THEN e.flags ELSE policy.flags]

ApplyRole(V, e) ==
  IF e.target = NoCid THEN V
  ELSE IF e.kind = "ModeratorAdded" THEN [V EXCEPT !.moderators = @ \cup {e.target}]
  ELSE IF RemovalAllowed(V, e.target) THEN [V EXCEPT !.moderators = @ \ {e.target}]
  ELSE V

ApplyObject(V, e) ==
  IF e.object = NoObject THEN V
  ELSE CASE e.kind = "ContentFlagged" -> Flag(V, e.object)
         [] e.kind = "ContentHidden" ->
              [V EXCEPT !.hidden = @ \cup {e.object}, !.auto_hidden = @ \ {e.object}]
         [] e.kind = "ContentUnhidden" ->
              [V EXCEPT !.hidden = @ \ {e.object}, !.auto_hidden = @ \ {e.object}]
         [] e.kind = "CoreTopicPinned" ->
              [V EXCEPT !.pins = [V.pins EXCEPT ![e.object] = "pinned"]]
         [] e.kind = "CoreTopicUnpinned" ->
              [V EXCEPT !.pins = [V.pins EXCEPT ![e.object] = "unpinned"]]

\* The moderation branch of the second loop, for an event with so many
\* confirmations.
ApplyModeration(V, e, confirmations) ==
  IF ~Effective(V.policy, confirmations) THEN V
  ELSE IF ModeratorRequired(e.kind) /\ e.author \notin V.moderators THEN V
  ELSE IF e.kind \in RoleKinds THEN ApplyRole(V, e)
  ELSE IF e.kind = "PolicyUpdated" THEN [V EXCEPT !.policy = UpdatedPolicy(V.policy, e)]
  ELSE ApplyObject(V, e)
=============================================================================
