----------------------- MODULE ModerationReplayProofs -----------------------
(***************************************************************************)
(* Theorems about ModerationReplay, for every set of cids and objects,     *)
(* every profile policy and replays of every length.                       *)
(***************************************************************************)
EXTENDS ModerationReplay, FiniteSetTheorems, TLAPS

\* The moderators that a role event may bring in.
Brought(e) == IF e.kind = "ModeratorAdded" THEN {e.target} ELSE {}

\* The inductive invariant.  An outsider stays powerless because no outsider is
\* ever a moderator, and the last moderator stays because the set is finite.
IInv ==
  /\ TypeOK
  /\ ModeratorsRemain
  /\ OutsidersPowerless
  /\ IsFiniteSet(view.moderators) /\ IsFiniteSet(log)
  /\ view.moderators \subseteq Seeds \cup Named(Events(log))

-----------------------------------------------------------------------------
(* The operators of Moderation.                                            *)

\* What a moderation event may do to a view.
Succeeds(V, W, e) ==
  /\ W \in View
  /\ W.moderators # {} /\ IsFiniteSet(W.moderators)
  /\ W.moderators \subseteq V.moderators \cup Brought(e)

LEMMA ClearedOK ==
  ASSUME NEW policy \in Policy
  PROVE  /\ Cleared(policy) \in View
         /\ Cleared(policy).moderators = Seeds
         /\ Cleared(policy).policy = policy
<1>1. [x \in Objects |-> 0] \in [Objects -> Nat]
  OBVIOUS
<1>2. [x \in Objects |-> "none"] \in [Objects -> {"none", "pinned", "unpinned"}]
  OBVIOUS
<1> QED
  BY <1>1, <1>2, ModerationConstants DEF Cleared, View, ModerationConstants

LEMMA RoleOK ==
  ASSUME NEW V \in View, V.moderators # {}, IsFiniteSet(V.moderators), NEW e \in RoleEvent
  PROVE  Succeeds(V, ApplyRole(V, e), e)
<1>1. e.target \in Cids \cup {NoCid} /\ e.kind \in {"ModeratorAdded", "ModeratorRemoved"}
  BY DEF RoleEvent, RoleKinds
<1>2. V.moderators \subseteq Cids
  BY DEF View
<1>3. CASE e.target = NoCid
  BY <1>3 DEF ApplyRole, Succeeds
<1>4. CASE e.target # NoCid /\ e.kind = "ModeratorAdded"
  <2> DEFINE S == V.moderators \cup {e.target}
  <2>1. ApplyRole(V, e) = [V EXCEPT !.moderators = S]
    BY <1>4 DEF ApplyRole
  <2>2. S \subseteq Cids /\ S # {} /\ IsFiniteSet(S) /\ S \subseteq V.moderators \cup Brought(e)
    BY <1>1, <1>2, <1>4, FS_AddElement DEF Brought
  <2> HIDE DEF S
  <2> QED
    BY <2>1, <2>2 DEF Succeeds, View
<1>5. CASE e.target # NoCid /\ e.kind = "ModeratorRemoved" /\ RemovalAllowed(V, e.target)
  <2> DEFINE S == V.moderators \ {e.target}
  <2>1. ApplyRole(V, e) = [V EXCEPT !.moderators = S]
    BY <1>5 DEF ApplyRole
  <2>2. /\ IsFiniteSet(S)
        /\ Cardinality(S) = Cardinality(V.moderators) - 1
    BY <1>5, FS_RemoveElement DEF RemovalAllowed
  <2>3. Cardinality(V.moderators) \in Nat /\ Cardinality(V.moderators) > 1
    BY <1>5, FS_CardinalityType DEF RemovalAllowed
  <2>4. S # {}
    <3>1. Cardinality(S) # 0
      BY <2>2, <2>3
    <3> HIDE DEF S
    <3> QED
      BY <3>1, FS_EmptySet
  <2>5. S \subseteq Cids /\ S \subseteq V.moderators \cup Brought(e)
    BY <1>2
  <2> HIDE DEF S
  <2> QED
    BY <2>1, <2>2, <2>4, <2>5 DEF Succeeds, View
<1>6. CASE e.target # NoCid /\ e.kind = "ModeratorRemoved" /\ ~RemovalAllowed(V, e.target)
  BY <1>6 DEF ApplyRole, Succeeds
<1> QED
  BY <1>1, <1>3, <1>4, <1>5, <1>6

LEMMA FlagOK ==
  ASSUME NEW V \in View, NEW x \in Objects
  PROVE  Flag(V, x) \in View /\ Flag(V, x).moderators = V.moderators
<1> DEFINE hides == V.flags[x] + 1 >= V.policy.flags
           flags == [V.flags EXCEPT ![x] = V.flags[x] + 1]
           hidden == IF hides THEN V.hidden \cup {x} ELSE V.hidden
           auto_hidden == IF hides THEN V.auto_hidden \cup {x} ELSE V.auto_hidden
<1>1. Flag(V, x) = [V EXCEPT !.flags = flags, !.hidden = hidden, !.auto_hidden = auto_hidden]
  BY DEF Flag
<1>2. flags \in [Objects -> Nat]
  BY DEF View
<1>3. hidden \subseteq Objects /\ auto_hidden \subseteq Objects
  BY DEF View
<1> HIDE DEF flags, hidden, auto_hidden
<1> QED
  BY <1>1, <1>2, <1>3 DEF View

LEMMA ObjectOK ==
  ASSUME NEW V \in View, V.moderators # {}, IsFiniteSet(V.moderators), NEW e \in ObjectEvent
  PROVE  Succeeds(V, ApplyObject(V, e), e)
<1> DEFINE W == ApplyObject(V, e)
<1>1. SUFFICES W \in View /\ W.moderators = V.moderators
  BY DEF Succeeds
<1>2. e.object \in Objects \cup {NoObject} /\ e.kind \in VisibilityKinds \cup PinKinds
  BY DEF ObjectEvent
<1>3. CASE e.object = NoObject
  BY <1>3 DEF ApplyObject
<1>4. CASE e.object # NoObject
  <2>1. e.object \in Objects
    BY <1>2, <1>4
  <2>2. CASE e.kind = "ContentFlagged"
    BY <1>4, <2>1, <2>2, FlagOK DEF ApplyObject
  <2>3. CASE e.kind = "ContentHidden"
    <3> DEFINE hidden == V.hidden \cup {e.object}
               auto_hidden == V.auto_hidden \ {e.object}
    <3>1. W = [V EXCEPT !.hidden = hidden, !.auto_hidden = auto_hidden]
      BY <1>4, <2>3 DEF ApplyObject
    <3>2. hidden \subseteq Objects /\ auto_hidden \subseteq Objects
      BY <2>1 DEF View
    <3> HIDE DEF hidden, auto_hidden
    <3> QED
      BY <3>1, <3>2 DEF View
  <2>4. CASE e.kind = "ContentUnhidden"
    <3> DEFINE hidden == V.hidden \ {e.object}
               auto_hidden == V.auto_hidden \ {e.object}
    <3>1. W = [V EXCEPT !.hidden = hidden, !.auto_hidden = auto_hidden]
      BY <1>4, <2>4 DEF ApplyObject
    <3>2. hidden \subseteq Objects /\ auto_hidden \subseteq Objects
      BY <2>1 DEF View
    <3> HIDE DEF hidden, auto_hidden
    <3> QED
      BY <3>1, <3>2 DEF View
  <2>5. CASE e.kind = "CoreTopicPinned"
    <3> DEFINE pins == [V.pins EXCEPT ![e.object] = "pinned"]
    <3>1. W = [V EXCEPT !.pins = pins]
      BY <1>4, <2>5 DEF ApplyObject
    <3>2. pins \in [Objects -> {"none", "pinned", "unpinned"}]
      BY <2>1 DEF View
    <3> HIDE DEF pins
    <3> QED
      BY <3>1, <3>2 DEF View
  <2>6. CASE e.kind = "CoreTopicUnpinned"
    <3> DEFINE pins == [V.pins EXCEPT ![e.object] = "unpinned"]
    <3>1. W = [V EXCEPT !.pins = pins]
      BY <1>4, <2>6 DEF ApplyObject
    <3>2. pins \in [Objects -> {"none", "pinned", "unpinned"}]
      BY <2>1 DEF View
    <3> HIDE DEF pins
    <3> QED
      BY <3>1, <3>2 DEF View
  <2> QED
    BY <1>2, <2>2, <2>3, <2>4, <2>5, <2>6 DEF VisibilityKinds, PinKinds
<1> QED
  BY <1>3, <1>4

LEMMA UpdatedPolicyType ==
  ASSUME NEW policy \in Policy, NEW e \in PolicyEvent
  PROVE  UpdatedPolicy(policy, e) \in Policy
<1>1. /\ policy.enabled \in BOOLEAN /\ policy.finality \in BOOLEAN
      /\ policy.confirmations \in Nat \ {0} /\ policy.flags \in Nat \ {0}
  BY DEF Policy
<1>2. e.flags \in Nat /\ e.confirmations \in Nat
  BY DEF PolicyEvent
<1>3. (IF e.finality = {} THEN policy.finality ELSE TRUE \in e.finality) \in BOOLEAN
  <2>1. CASE e.finality = {}
    BY <1>1, <2>1, Zenon
  <2>2. CASE e.finality # {}
    <3>1. (TRUE \in e.finality) \in BOOLEAN
      OBVIOUS
    <3> QED
      BY <2>2, <3>1, Zenon
  <2> QED
    BY <2>1, <2>2
<1>4. /\ (IF e.confirmations > 0 THEN e.confirmations ELSE policy.confirmations) \in Nat \ {0}
      /\ (IF e.flags > 0 THEN e.flags ELSE policy.flags) \in Nat \ {0}
  BY <1>1, <1>2
<1> QED
  BY <1>1, <1>3, <1>4 DEF UpdatedPolicy, Policy

LEMMA ApplyOK ==
  ASSUME NEW V \in View, V.moderators # {}, IsFiniteSet(V.moderators),
         NEW e \in ModerationEvent, NEW n
  PROVE  Succeeds(V, ApplyModeration(V, e, n), e)
<1>1. Succeeds(V, V, e)
  BY DEF Succeeds
<1>2. CASE ~Effective(V.policy, n) \/ (ModeratorRequired(e.kind) /\ e.author \notin V.moderators)
  BY <1>1, <1>2 DEF ApplyModeration
<1>3. CASE Effective(V.policy, n) /\ ~(ModeratorRequired(e.kind) /\ e.author \notin V.moderators)
  <2>1. CASE e \in RoleEvent
    <3>1. ApplyModeration(V, e, n) = ApplyRole(V, e)
      BY <1>3, <2>1 DEF ApplyModeration, RoleEvent
    <3> QED
      BY <2>1, <3>1, RoleOK
  <2>2. CASE e \in ObjectEvent
    <3>1. ApplyModeration(V, e, n) = ApplyObject(V, e)
      BY <1>3, <2>2 DEF ApplyModeration, ObjectEvent, RoleKinds, VisibilityKinds, PinKinds
    <3> QED
      BY <2>2, <3>1, ObjectOK
  <2>3. CASE e \in PolicyEvent
    <3>1. ApplyModeration(V, e, n) = [V EXCEPT !.policy = UpdatedPolicy(V.policy, e)]
      BY <1>3, <2>3 DEF ApplyModeration, PolicyEvent, RoleKinds
    <3>2. UpdatedPolicy(V.policy, e) \in Policy
      BY <2>3, UpdatedPolicyType DEF View
    <3> QED
      BY <3>1, <3>2 DEF Succeeds, View
  <2> QED
    BY <2>1, <2>2, <2>3 DEF ModerationEvent
<1> QED
  BY <1>2, <1>3

\* Without authority an event other than a flag changes nothing.
LEMMA NoAuthority ==
  ASSUME NEW V, NEW e, NEW n, e.author \notin V.moderators, e.kind # "ContentFlagged"
  PROVE  ApplyModeration(V, e, n) = V
BY DEF ApplyModeration, ModeratorRequired

-----------------------------------------------------------------------------
(* The operations.                                                         *)

\* The stored events and what they name and ask for.
Stored ==
  /\ log \subseteq LogEntry /\ IsFiniteSet(log)
  /\ confirmed \subseteq Nat
  /\ Named(Events(log)) \subseteq named /\ named \subseteq Cids \cup {NoCid}
  /\ Asked(Events(log)) \subseteq asked /\ asked \subseteq [by : Cids, flags : Nat \ {0}]

\* What events name and ask for has its type.
LEMMA DecisionsType ==
  ASSUME NEW evs, evs \subseteq ModerationEvent
  PROVE  Named(evs) \subseteq Cids \cup {NoCid} /\ Asked(evs) \subseteq [by : Cids, flags : Nat \ {0}]
<1>1. ASSUME NEW e \in evs, e.kind = "ModeratorAdded" PROVE e.target \in Cids \cup {NoCid}
  <2>1. e \in RoleEvent
    BY <1>1 DEF ModerationEvent, ObjectEvent, PolicyEvent, VisibilityKinds, PinKinds
  <2> QED
    BY <2>1 DEF RoleEvent
<1>2. ASSUME NEW e \in evs, e.kind = "PolicyUpdated" PROVE e.author \in Cids /\ e.flags \in Nat
  <2>1. e \in PolicyEvent
    BY <1>2 DEF ModerationEvent, RoleEvent, ObjectEvent, RoleKinds, VisibilityKinds, PinKinds
  <2> QED
    BY <2>1 DEF PolicyEvent
<1> QED
  BY <1>1, <1>2 DEF Named, Asked

LEMMA EventsType ==
  ASSUME NEW S, S \subseteq LogEntry PROVE Events(S) \subseteq ModerationEvent
BY DEF Events, LogEntry

\* Every operation but the loop's step and the block check starts a replay.
LEMMA StartStep ==
  ASSUME NEW policy \in Policy, NEW p \in {"load", "main"}, Stored', StartReplay(p, policy, policy)
  PROVE  IInv'
<1>1. view' = Cleared(policy) /\ twin' = Cleared(policy) /\ todo' = log' /\ pass' = p
  BY DEF StartReplay
<1>2. TypeOK'
  BY <1>1, ClearedOK DEF TypeOK, Stored
<1>3. view'.moderators = Seeds
  BY <1>1, ClearedOK
<1> QED
  BY <1>1, <1>2, <1>3, ModerationConstants
     DEF IInv, Stored, ModeratorsRemain, OutsidersPowerless, ModerationConstants

LEMMA ReplayStep ==
  ASSUME IInv, NEW entry \in todo, ReplayNext(entry)
  PROVE  IInv'
<1> DEFINE e == entry.event
           n == Confirmations(entry)
<1>1. /\ log' = log /\ confirmed' = confirmed /\ pass' = pass /\ named' = named /\ asked' = asked
      /\ todo' = todo \ {entry}
      /\ view' = ApplyModeration(view, e, n)
      /\ twin' = IF e.author \in Outsiders /\ e.kind # "ContentFlagged" THEN twin
                 ELSE ApplyModeration(twin, e, n)
  BY DEF ReplayNext
<1>2. entry \in log /\ entry \in LogEntry
  BY DEF IInv, TypeOK
<1>3. e \in ModerationEvent /\ e \in Events(log)
  BY <1>2 DEF LogEntry, Events
<1>4. view \in View /\ view.moderators # {} /\ IsFiniteSet(view.moderators) /\ twin = view
  BY DEF IInv, TypeOK, ModeratorsRemain, OutsidersPowerless
<1>5. view.moderators \subseteq Seeds \cup Named(Events(log))
  BY DEF IInv
<1> HIDE DEF n, e
<1>6. Succeeds(view, view', e)
  BY <1>1, <1>3, <1>4, ApplyOK
<1>7. Brought(e) \subseteq Named(Events(log))
  BY <1>3 DEF Brought, Named
<1>8. view'.moderators \subseteq Seeds \cup Named(Events(log'))
  <2>1. Events(log') = Events(log)
    BY <1>1
  <2> QED
    BY <1>5, <1>6, <1>7, <2>1 DEF Succeeds
<1>9. twin' = view'
  <2>1. CASE e.author \in Outsiders /\ e.kind # "ContentFlagged"
    <3>1. e.author \notin view.moderators
      BY <1>5, <2>1 DEF Outsiders
    <3>2. ApplyModeration(view, e, n) = view
      BY <2>1, <3>1, NoAuthority
    <3> QED
      BY <1>1, <1>4, <2>1, <3>2
  <2>2. CASE ~(e.author \in Outsiders /\ e.kind # "ContentFlagged")
    BY <1>1, <1>4, <2>2
  <2> QED
    BY <2>1, <2>2
<1>10. TypeOK'
  BY <1>1, <1>6, <1>9 DEF IInv, TypeOK, Succeeds
<1> QED
  BY <1>1, <1>6, <1>8, <1>9, <1>10 DEF IInv, ModeratorsRemain, OutsidersPowerless, Succeeds

LEMMA InitIInv == Init => IInv
<1> SUFFICES ASSUME Init PROVE IInv
  OBVIOUS
<1>1. ProfilePolicy \in Policy
  BY ModerationReplayConstants DEF ModerationReplayConstants
<1>2. /\ log = {} /\ confirmed = {} /\ todo = {} /\ pass = "main" /\ named = {} /\ asked = {}
      /\ view = Cleared(ProfilePolicy) /\ twin = view
  BY DEF Init
<1>3. view \in View /\ view.moderators = Seeds
  BY <1>1, <1>2, ClearedOK
<1>4. TypeOK
  BY <1>2, <1>3 DEF TypeOK, Events, Named, Asked
<1> QED
  BY <1>2, <1>3, <1>4, ModerationConstants, FS_EmptySet
     DEF IInv, ModeratorsRemain, OutsidersPowerless, ModerationConstants

\* The stored events after each operation that changes them.
LEMMA AppendStored ==
  ASSUME IInv, NEW e \in Offered, NEW b \in 0..(MaxTip + 1), NEW t \in Moments, AppendModeration(e, b, t)
  PROVE  Stored'
<1> DEFINE entry == [event |-> e, block |-> b, at |-> t]
<1>1. /\ log' = log \cup {entry} /\ confirmed' = confirmed
      /\ named' = named \cup Named({e}) /\ asked' = asked \cup Asked({e})
  BY DEF AppendModeration
<1>2. e \in ModerationEvent /\ b \in Nat /\ t \in Nat
  BY ModerationReplayConstants DEF ModerationReplayConstants
<1>3. entry \in LogEntry
  BY <1>2 DEF LogEntry
<1>4. Events(log') = Events(log) \cup {e}
  <2>1. entry.event = e
    OBVIOUS
  <2> HIDE DEF entry
  <2>2. ASSUME NEW x \in Events(log') PROVE x \in Events(log) \cup {e}
    BY <1>1, <2>1 DEF Events
  <2>3. ASSUME NEW x \in Events(log) \cup {e} PROVE x \in Events(log')
    BY <1>1, <2>1 DEF Events
  <2> QED
    BY <2>2, <2>3
<1>5. /\ Named(Events(log')) = Named(Events(log)) \cup Named({e})
      /\ Asked(Events(log')) = Asked(Events(log)) \cup Asked({e})
  BY <1>4 DEF Named, Asked
<1>6. Named({e}) \subseteq Cids \cup {NoCid} /\ Asked({e}) \subseteq [by : Cids, flags : Nat \ {0}]
  BY <1>2, DecisionsType
<1>7. log' \subseteq LogEntry /\ IsFiniteSet(log')
  BY <1>1, <1>3, FS_AddElement DEF IInv, TypeOK
<1> QED
  BY <1>1, <1>5, <1>6, <1>7 DEF IInv, TypeOK, Stored

LEMMA DropStored ==
  ASSUME IInv, log' \subseteq log, confirmed' \subseteq confirmed, UNCHANGED <<named, asked>>
  PROVE  Stored'
<1>1. Events(log') \subseteq Events(log)
  BY DEF Events
<1>2. /\ Named(Events(log')) \subseteq Named(Events(log))
      /\ Asked(Events(log')) \subseteq Asked(Events(log))
  BY <1>1 DEF Named, Asked
<1>3. IsFiniteSet(log')
  BY FS_Subset DEF IInv
<1> QED
  BY <1>2, <1>3 DEF IInv, TypeOK, Stored

LEMMA RestartStored ==
  ASSUME IInv, Restart
  PROVE  Stored'
<1>1. log' = log /\ confirmed' = confirmed /\ named' = Named(Events(log)) /\ asked' = Asked(Events(log))
  BY DEF Restart
<1>2. Events(log) \subseteq ModerationEvent
  BY EventsType DEF IInv, TypeOK
<1>3. Events(log') = Events(log)
  BY <1>1
<1> QED
  BY <1>1, <1>2, <1>3, DecisionsType DEF IInv, TypeOK, Stored

LEMMA NextIInv == IInv /\ [Next]_vars => IInv'
<1> SUFFICES ASSUME IInv, [Next]_vars PROVE IInv'
  OBVIOUS
<1>1. view.policy \in Policy /\ twin.policy = view.policy /\ ProfilePolicy \in Policy
  BY ModerationReplayConstants
     DEF IInv, TypeOK, OutsidersPowerless, View, ModerationReplayConstants
<1>2. ASSUME NEW e \in Offered, NEW b \in 0..(MaxTip + 1), NEW t \in Moments, AppendModeration(e, b, t)
      PROVE  IInv'
  <2>1. StartReplay("main", view.policy, twin.policy)
    BY <1>2 DEF AppendModeration
  <2> QED
    BY <1>1, <1>2, <2>1, AppendStored, StartStep
<1>3. CASE AppendOther
  BY <1>1, <1>3, DropStored, StartStep DEF AppendOther
<1>4. ASSUME NEW checkpoint, RollbackToLastCheckpoint(checkpoint)
      PROVE  IInv'
  <2>1. /\ StartReplay("main", view.policy, twin.policy) /\ UNCHANGED <<named, asked>>
        /\ log' \subseteq log /\ confirmed' \subseteq confirmed
    BY <1>4 DEF RollbackToLastCheckpoint
  <2> QED
    BY <1>1, <2>1, DropStored, StartStep
<1>5. CASE Restart
  BY <1>1, <1>5, RestartStored, StartStep DEF Restart
<1>6. CASE Quarantine
  BY <1>1, <1>6, DropStored, StartStep DEF Quarantine
<1>7. CASE BlocksLoaded
  BY <1>1, <1>7, DropStored, StartStep DEF BlocksLoaded
<1>8. ASSUME NEW b \in 0..MaxTip, RoutineBlockCheck(b)
      PROVE  IInv'
  <2>1. confirmed' \subseteq Nat /\ UNCHANGED <<log, view, todo, pass, twin, named, asked>>
    BY <1>8, ModerationReplayConstants DEF RoutineBlockCheck, IInv, TypeOK, ModerationReplayConstants
  <2>2. Events(log') = Events(log)
    BY <2>1
  <2> QED
    BY <2>1, <2>2 DEF IInv, TypeOK, ModeratorsRemain, OutsidersPowerless
<1>9. ASSUME NEW entry \in todo, ReplayNext(entry)
      PROVE  IInv'
  BY <1>9, ReplayStep
<1>10. CASE UNCHANGED vars
  <2>1. Events(log') = Events(log)
    BY <1>10 DEF vars
  <2> QED
    BY <1>10, <2>1 DEF vars, IInv, TypeOK, ModeratorsRemain, OutsidersPowerless
<1> QED
  BY <1>2, <1>3, <1>4, <1>5, <1>6, <1>7, <1>8, <1>9, <1>10 DEF Next

-----------------------------------------------------------------------------
(* The flags behind an auto-hide.  On top of IInv: the policy in force is  *)
(* one that Thresholds counts, which only somebody with authority can      *)
(* change, so that the invariant leans on the powerlessness of outsiders.  *)

\* Every object that the view counts as auto-hidden reached a threshold of T.
Earned(V, T) ==
  /\ V.policy.flags \in T
  /\ V.auto_hidden \subseteq V.hidden
  /\ \A x \in V.auto_hidden : \E n \in T : V.flags[x] >= n

LEMMA FlagEarns ==
  ASSUME NEW V \in View, NEW x \in Objects, NEW T, T \subseteq Nat, Earned(V, T)
  PROVE  Earned(Flag(V, x), T)
<1> DEFINE hides == V.flags[x] + 1 >= V.policy.flags
           flags == [V.flags EXCEPT ![x] = V.flags[x] + 1]
           hidden == IF hides THEN V.hidden \cup {x} ELSE V.hidden
           auto_hidden == IF hides THEN V.auto_hidden \cup {x} ELSE V.auto_hidden
           W == Flag(V, x)
<1>1. W = [V EXCEPT !.flags = flags, !.hidden = hidden, !.auto_hidden = auto_hidden]
  BY DEF Flag
<1>2. W.policy = V.policy /\ W.flags = flags /\ W.hidden = hidden /\ W.auto_hidden = auto_hidden
  BY <1>1 DEF View
<1>3. hidden \subseteq Objects /\ auto_hidden \subseteq hidden
  BY DEF View, Earned
<1>4. ASSUME NEW y \in auto_hidden PROVE \E n \in T : flags[y] >= n
  <2>1. V.flags \in [Objects -> Nat] /\ y \in Objects
    BY <1>3 DEF View
  <2>2. CASE y \in V.auto_hidden
    <3>1. PICK n \in T : V.flags[y] >= n
      BY <2>2 DEF Earned
    <3>2. flags[y] >= V.flags[y] /\ flags[y] \in Nat /\ V.flags[y] \in Nat
      BY <2>1
    <3> QED
      BY <3>1, <3>2
  <2>3. CASE y \notin V.auto_hidden
    <3>1. y = x /\ hides
      BY <1>4, <2>3
    <3>2. flags[y] = V.flags[x] + 1
      BY <2>1, <3>1
    <3> QED
      BY <3>1, <3>2 DEF Earned
  <2> QED
    BY <2>2, <2>3
<1> HIDE DEF W, flags, hidden, auto_hidden
<1>5. Earned(W, T)
  BY <1>2, <1>3, <1>4 DEF Earned
<1> QED
  BY <1>5 DEF W

LEMMA ObjectEarns ==
  ASSUME NEW V \in View, NEW e \in ObjectEvent, NEW T, T \subseteq Nat, Earned(V, T)
  PROVE  Earned(ApplyObject(V, e), T)
<1> DEFINE W == ApplyObject(V, e)
<1>1. e.object \in Objects \cup {NoObject} /\ e.kind \in VisibilityKinds \cup PinKinds
  BY DEF ObjectEvent
<1>2. CASE e.object = NoObject
  BY <1>2 DEF ApplyObject
<1>3. CASE e.object # NoObject /\ e.kind = "ContentFlagged"
  BY <1>1, <1>3, FlagEarns DEF ApplyObject
<1>4. CASE e.object # NoObject /\ e.kind \in {"ContentHidden", "ContentUnhidden"}
  <2> DEFINE hidden == IF e.kind = "ContentHidden" THEN V.hidden \cup {e.object}
                       ELSE V.hidden \ {e.object}
             auto_hidden == V.auto_hidden \ {e.object}
  <2>1. W = [V EXCEPT !.hidden = hidden, !.auto_hidden = auto_hidden]
    BY <1>4 DEF ApplyObject
  <2>2. auto_hidden \subseteq hidden /\ auto_hidden \subseteq V.auto_hidden
    BY DEF Earned
  <2> HIDE DEF hidden, auto_hidden
  <2>3. W.policy = V.policy /\ W.flags = V.flags /\ W.hidden = hidden /\ W.auto_hidden = auto_hidden
    BY <2>1 DEF View
  <2> QED
    BY <2>2, <2>3 DEF Earned
<1>5. CASE e.object # NoObject /\ e.kind \in PinKinds
  <2> DEFINE mark == IF e.kind = "CoreTopicPinned" THEN "pinned" ELSE "unpinned"
             pins == [V.pins EXCEPT ![e.object] = mark]
  <2>1. W = [V EXCEPT !.pins = pins]
    BY <1>5 DEF ApplyObject, PinKinds
  <2> HIDE DEF pins
  <2>2. /\ W.policy = V.policy /\ W.flags = V.flags /\ W.hidden = V.hidden
        /\ W.auto_hidden = V.auto_hidden
    BY <2>1 DEF View
  <2> QED
    BY <2>2 DEF Earned
<1> QED
  BY <1>1, <1>2, <1>3, <1>4, <1>5 DEF VisibilityKinds

LEMMA ApplyEarns ==
  ASSUME NEW V \in View, NEW e \in ModerationEvent, NEW n, NEW T, T \subseteq Nat, Earned(V, T),
         e.kind = "PolicyUpdated" /\ e.author \in V.moderators => e.flags \in T \cup {0}
  PROVE  Earned(ApplyModeration(V, e, n), T)
<1>1. CASE ~Effective(V.policy, n) \/ (ModeratorRequired(e.kind) /\ e.author \notin V.moderators)
  BY <1>1 DEF ApplyModeration
<1>2. CASE Effective(V.policy, n) /\ ~(ModeratorRequired(e.kind) /\ e.author \notin V.moderators)
  <2>1. CASE e \in RoleEvent
    <3>1. ApplyModeration(V, e, n) = ApplyRole(V, e)
      BY <1>2, <2>1 DEF ApplyModeration, RoleEvent
    <3> DEFINE W == ApplyRole(V, e)
    <3>2. \E S : W = V \/ W = [V EXCEPT !.moderators = S]
      BY DEF ApplyRole
    <3> HIDE DEF W
    <3>3. /\ W.policy = V.policy /\ W.flags = V.flags /\ W.hidden = V.hidden
          /\ W.auto_hidden = V.auto_hidden
      BY <3>2 DEF View
    <3>4. Earned(W, T)
      BY <3>3 DEF Earned
    <3> QED
      BY <3>1, <3>4 DEF W
  <2>2. CASE e \in ObjectEvent
    <3>1. ApplyModeration(V, e, n) = ApplyObject(V, e)
      BY <1>2, <2>2 DEF ApplyModeration, ObjectEvent, RoleKinds, VisibilityKinds, PinKinds
    <3> QED
      BY <2>2, <3>1, ObjectEarns
  <2>3. CASE e \in PolicyEvent
    <3> DEFINE policy == UpdatedPolicy(V.policy, e)
               W == [V EXCEPT !.policy = policy]
    <3>1. ApplyModeration(V, e, n) = W
      BY <1>2, <2>3 DEF ApplyModeration, PolicyEvent, RoleKinds
    <3>2. e.kind = "PolicyUpdated" /\ e.flags \in Nat
      BY <2>3 DEF PolicyEvent
    <3>3. e.author \in V.moderators
      BY <1>2, <3>2 DEF ModeratorRequired
    <3>4. policy.flags = IF e.flags > 0 THEN e.flags ELSE V.policy.flags
      BY DEF UpdatedPolicy
    <3>5. policy.flags \in T
      BY <3>2, <3>3, <3>4 DEF Earned
    <3> HIDE DEF policy
    <3>6. /\ W.policy = policy /\ W.flags = V.flags /\ W.hidden = V.hidden
          /\ W.auto_hidden = V.auto_hidden
      BY DEF View
    <3> HIDE DEF W
    <3>7. Earned(W, T)
      BY <3>5, <3>6 DEF Earned
    <3> QED
      BY <3>1, <3>7
  <2> QED
    BY <2>1, <2>2, <2>3 DEF ModerationEvent
<1> QED
  BY <1>1, <1>2

LEMMA ThresholdsType == ASSUME IInv PROVE Thresholds \subseteq Nat
<1>1. ProfilePolicy.flags \in Nat
  BY ModerationReplayConstants DEF ModerationReplayConstants, Policy
<1>2. \A a \in asked : a.flags \in Nat
  BY DEF IInv, TypeOK
<1> QED
  BY <1>1, <1>2 DEF Thresholds

\* A replay that starts has nothing auto-hidden.
LEMMA ClearedEarned ==
  ASSUME NEW policy, NEW T, policy.flags \in T PROVE Earned(Cleared(policy), T)
  BY DEF Earned, Cleared

\* The flags of an object in these entries.
FlagsOf(x, entries) == {f \in entries : f.event.kind = "ContentFlagged" /\ f.event.object = x}

\* Replay counts a flag at most once.
FlagsStored == \A x \in Objects : view.flags[x] <= Cardinality(FlagsOf(x, log \ todo))

Counted == Earned(view, Thresholds) /\ FlagsStored

\* Only a flag event counts, for its own object.
LEMMA ApplyFlags ==
  ASSUME NEW V \in View, NEW e \in ModerationEvent, NEW n, NEW x \in Objects
  PROVE  \/ ApplyModeration(V, e, n).flags[x] = V.flags[x]
         \/ /\ e.kind = "ContentFlagged" /\ e.object = x
            /\ ApplyModeration(V, e, n).flags[x] = V.flags[x] + 1
<1> DEFINE W == ApplyModeration(V, e, n)
<1>1. CASE e.kind = "ContentFlagged" /\ e.object \in Objects /\ W = Flag(V, e.object)
  <2> DEFINE hides == V.flags[e.object] + 1 >= V.policy.flags
             flags == [V.flags EXCEPT ![e.object] = V.flags[e.object] + 1]
             hidden == IF hides THEN V.hidden \cup {e.object} ELSE V.hidden
             auto_hidden == IF hides THEN V.auto_hidden \cup {e.object} ELSE V.auto_hidden
  <2>1. W = [V EXCEPT !.flags = flags, !.hidden = hidden, !.auto_hidden = auto_hidden]
    BY <1>1 DEF Flag
  <2> HIDE DEF W, hidden, auto_hidden
  <2>2. W.flags = flags /\ V.flags \in [Objects -> Nat]
    BY <2>1 DEF View
  <2>3. W.flags[x] = V.flags[x] \/ (e.object = x /\ W.flags[x] = V.flags[x] + 1)
    BY <1>1, <2>2
  <2> QED
    BY <1>1, <2>3 DEF W
<1>2. CASE ~(e.kind = "ContentFlagged" /\ e.object \in Objects /\ W = Flag(V, e.object))
  <2>1. CASE W = V
    BY <2>1
  <2>2. CASE e.kind \in RoleKinds /\ W = ApplyRole(V, e)
    <3>1. \E S : W = V \/ W = [V EXCEPT !.moderators = S]
      BY <2>2 DEF ApplyRole
    <3> HIDE DEF W
    <3>2. W.flags = V.flags
      BY <3>1 DEF View
    <3> QED
      BY <3>2 DEF W
  <2>3. CASE W = [V EXCEPT !.policy = UpdatedPolicy(V.policy, e)]
    <3> DEFINE policy == UpdatedPolicy(V.policy, e)
    <3> HIDE DEF policy, W
    <3>1. W = [V EXCEPT !.policy = policy]
      BY <2>3 DEF policy
    <3>2. W.flags = V.flags
      BY <3>1 DEF View
    <3> QED
      BY <3>2 DEF W
  <2>4. CASE e \in ObjectEvent /\ W = ApplyObject(V, e)
    <3>1. e.object \in Objects \cup {NoObject} /\ e.kind \in VisibilityKinds \cup PinKinds
      BY <2>4 DEF ObjectEvent
    <3>2. \E H, A, P : W = V \/ W = [V EXCEPT !.hidden = H, !.auto_hidden = A] \/ W = [V EXCEPT !.pins = P]
      BY <1>2, <2>4, <3>1 DEF ApplyObject, VisibilityKinds, PinKinds
    <3> HIDE DEF W
    <3>3. W.flags = V.flags
      BY <3>2 DEF View
    <3> QED
      BY <3>3 DEF W
  <2>5. e \in RoleEvent \cup ObjectEvent \cup PolicyEvent
    BY DEF ModerationEvent
  <2> QED
    BY <2>1, <2>2, <2>3, <2>4, <2>5
       DEF ApplyModeration, RoleEvent, ObjectEvent, PolicyEvent, RoleKinds, VisibilityKinds, PinKinds
<1> QED
  BY <1>1, <1>2

\* A replay that starts has counted nothing.
LEMMA StartCounts ==
  ASSUME NEW policy, policy.flags \in Thresholds', view' = Cleared(policy), todo' = log'
  PROVE  Counted'
<1>1. Earned(view', Thresholds')
  BY ClearedEarned
<1>2. ASSUME NEW x \in Objects PROVE view'.flags[x] <= Cardinality(FlagsOf(x, log' \ todo'))
  <2>1. view'.flags[x] = 0
    BY DEF Cleared
  <2>2. FlagsOf(x, log' \ todo') = {}
    BY DEF FlagsOf
  <2> QED
    BY <2>1, <2>2, FS_EmptySet
<1>3. FlagsStored'
  BY <1>2 DEF FlagsStored
<1> QED
  BY <1>1, <1>3 DEF Counted

LEMMA ReplayCounts ==
  ASSUME IInv, Counted, NEW entry \in todo, ReplayNext(entry)
  PROVE  Counted'
<1> DEFINE e == entry.event
           n == Confirmations(entry)
<1>1. /\ log' = log /\ todo' = todo \ {entry} /\ named' = named /\ asked' = asked
      /\ view' = ApplyModeration(view, e, n)
  BY DEF ReplayNext
<1>2. entry \in log /\ entry \in LogEntry /\ view \in View /\ IsFiniteSet(log)
  BY DEF IInv, TypeOK
<1>3. e \in ModerationEvent /\ e \in Events(log)
  BY <1>2 DEF LogEntry, Events
<1>4. Thresholds' = Thresholds
  BY <1>1 DEF Thresholds
<1>5. e.kind = "PolicyUpdated" /\ e.author \in view.moderators => e.flags \in Thresholds \cup {0}
  <2> SUFFICES ASSUME e.kind = "PolicyUpdated", e.author \in view.moderators, e.flags # 0
               PROVE  e.flags \in Thresholds
    OBVIOUS
  <2>1. e \in PolicyEvent
    BY <1>3 DEF ModerationEvent, RoleEvent, ObjectEvent, RoleKinds, VisibilityKinds, PinKinds
  <2>2. e.flags \in Nat /\ e.flags > 0
    BY <2>1 DEF PolicyEvent
  <2>3. [by |-> e.author, flags |-> e.flags] \in asked
    BY <1>3, <2>2 DEF IInv, TypeOK, Asked
  <2>4. e.author \in Seeds \cup named
    BY DEF IInv, TypeOK
  <2> QED
    BY <2>3, <2>4 DEF Thresholds
<1> HIDE DEF n, e
<1>6. Earned(view', Thresholds')
  BY <1>1, <1>2, <1>3, <1>4, <1>5, ThresholdsType, ApplyEarns DEF Counted
<1>7. ASSUME NEW x \in Objects PROVE view'.flags[x] <= Cardinality(FlagsOf(x, log' \ todo'))
  <2> DEFINE before == FlagsOf(x, log \ todo)
             after == FlagsOf(x, log' \ todo')
  <2>1. view.flags[x] \in Nat /\ view.flags[x] <= Cardinality(before)
    BY <1>2 DEF Counted, FlagsStored, View
  <2>2. IsFiniteSet(before) /\ IsFiniteSet(after)
    <3>1. before \subseteq log /\ after \subseteq log
      BY <1>1 DEF FlagsOf
    <3> QED
      BY <1>2, <3>1, FS_Subset
  <2>3. Cardinality(before) \in Nat /\ Cardinality(after) \in Nat
    BY <2>2, FS_CardinalityType
  <2>4. before \subseteq after
    BY <1>1 DEF FlagsOf
  <2>5. Cardinality(before) <= Cardinality(after)
    BY <2>2, <2>4, FS_Subset
  <2>6. CASE view'.flags[x] = view.flags[x]
    BY <2>1, <2>3, <2>5, <2>6
  <2>7. CASE e.kind = "ContentFlagged" /\ e.object = x /\ view'.flags[x] = view.flags[x] + 1
    <3>1. entry \notin before /\ after = before \cup {entry}
      BY <1>1, <1>2, <2>7 DEF FlagsOf, e
    <3>2. Cardinality(after) = Cardinality(before) + 1
      BY <2>2, <3>1, FS_AddElement
    <3> QED
      BY <2>1, <2>3, <2>7, <3>2
  <2> QED
    BY <1>1, <1>2, <1>3, <2>6, <2>7, ApplyFlags
<1>8. FlagsStored'
  BY <1>7 DEF FlagsStored
<1> QED
  BY <1>6, <1>8 DEF Counted

LEMMA InitCounted == Init => Counted
<1> SUFFICES ASSUME Init PROVE Counted
  OBVIOUS
<1>1. view = Cleared(ProfilePolicy) /\ log = {}
  BY DEF Init
<1>2. Earned(view, Thresholds)
  BY <1>1, ClearedEarned DEF Thresholds
<1>3. ASSUME NEW x \in Objects PROVE view.flags[x] <= Cardinality(FlagsOf(x, log \ todo))
  <2>1. view.flags[x] = 0 /\ FlagsOf(x, log \ todo) = {}
    BY <1>1 DEF Cleared, FlagsOf
  <2> QED
    BY <2>1, FS_EmptySet
<1> QED
  BY <1>2, <1>3 DEF Counted, FlagsStored

\* The thresholds only grow, but at a restart, which returns to the profile's.
LEMMA NextCounted ==
  ASSUME IInv, Counted, [Next]_vars
  PROVE  Counted'
<1>1. view.policy.flags \in Thresholds /\ ProfilePolicy.flags \in Thresholds'
  BY DEF Counted, Earned, Thresholds
<1>2. ASSUME named \subseteq named', asked \subseteq asked' PROVE Thresholds \subseteq Thresholds'
  BY <1>2 DEF Thresholds
<1>3. ASSUME NEW e \in Offered, NEW b \in 0..(MaxTip + 1), NEW t \in Moments, AppendModeration(e, b, t)
      PROVE  Counted'
  <2>1. /\ view' = Cleared(view.policy) /\ todo' = log'
        /\ named \subseteq named' /\ asked \subseteq asked'
    BY <1>3 DEF AppendModeration, StartReplay
  <2>2. view.policy.flags \in Thresholds'
    BY <1>1, <1>2, <2>1
  <2> QED
    BY <2>1, <2>2, StartCounts
<1>4. ASSUME NEW checkpoint, AppendOther \/ RollbackToLastCheckpoint(checkpoint) \/ Quarantine \/ BlocksLoaded
      PROVE  Counted'
  <2>1. /\ view' = Cleared(view.policy) /\ todo' = log'
        /\ named' = named /\ asked' = asked
    BY <1>4 DEF AppendOther, RollbackToLastCheckpoint, Quarantine, BlocksLoaded, StartReplay
  <2>2. view.policy.flags \in Thresholds'
    BY <1>1, <1>2, <2>1
  <2> QED
    BY <2>1, <2>2, StartCounts
<1>5. CASE Restart
  <2>1. view' = Cleared(ProfilePolicy) /\ todo' = log'
    BY <1>5 DEF Restart, StartReplay
  <2> QED
    BY <1>1, <2>1, StartCounts
<1>6. ASSUME UNCHANGED <<log, view, todo, named, asked>> PROVE Counted'
  <2>1. Thresholds' = Thresholds
    BY <1>6 DEF Thresholds
  <2>2. Earned(view', Thresholds')
    BY <1>6, <2>1 DEF Counted
  <2>3. FlagsStored'
    BY <1>6 DEF Counted, FlagsStored
  <2> QED
    BY <2>2, <2>3 DEF Counted
<1>7. CASE (\E b \in 0..MaxTip : RoutineBlockCheck(b)) \/ UNCHANGED vars
  BY <1>6, <1>7 DEF RoutineBlockCheck, vars
<1>8. ASSUME NEW entry \in todo, ReplayNext(entry) PROVE Counted'
  BY <1>8, ReplayCounts
<1> QED
  BY <1>3, <1>4, <1>5, <1>7, <1>8 DEF Next

\* An object counts as auto-hidden only with as many flags stored as a threshold asks for.
LEMMA CountedEarned == IInv /\ Counted => AutoHideEarned
<1> SUFFICES ASSUME IInv, Counted PROVE AutoHideEarned
  OBVIOUS
<1>1. view.auto_hidden \subseteq view.hidden /\ view.auto_hidden \subseteq Objects
      /\ view.flags \in [Objects -> Nat]
  BY DEF IInv, TypeOK, View, Counted, Earned
<1>2. ASSUME NEW x \in view.auto_hidden
      PROVE  \E n \in Thresholds : Cardinality(FlagsOf(x, log)) >= n
  <2>1. PICK n \in Thresholds : view.flags[x] >= n
    BY DEF Counted, Earned
  <2>2. n \in Nat /\ view.flags[x] \in Nat
    BY <1>1, ThresholdsType
  <2>3. view.flags[x] <= Cardinality(FlagsOf(x, log \ todo))
    BY <1>1 DEF Counted, FlagsStored
  <2>4. FlagsOf(x, log \ todo) \subseteq FlagsOf(x, log) /\ IsFiniteSet(FlagsOf(x, log))
    <3>1. FlagsOf(x, log) \subseteq log
      BY DEF FlagsOf
    <3>2. IsFiniteSet(FlagsOf(x, log))
      BY <3>1, FS_Subset DEF IInv
    <3> QED
      BY <3>2 DEF FlagsOf
  <2>5. /\ Cardinality(FlagsOf(x, log \ todo)) <= Cardinality(FlagsOf(x, log))
        /\ IsFiniteSet(FlagsOf(x, log \ todo))
    BY <2>4, FS_Subset
  <2>6. Cardinality(FlagsOf(x, log \ todo)) \in Nat /\ Cardinality(FlagsOf(x, log)) \in Nat
    BY <2>4, <2>5, FS_CardinalityType
  <2> QED
    BY <2>1, <2>2, <2>3, <2>5, <2>6
<1> QED
  BY <1>1, <1>2 DEF AutoHideEarned, FlagsOf

-----------------------------------------------------------------------------
(* The theorems.                                                           *)

\* Replay keeps the view, the policy and what is still to come in their types.
THEOREM ModerationTyped == Spec => []TypeOK
<1>1. IInv => TypeOK
  BY DEF IInv
<1> QED
  BY <1>1, InitIInv, NextIInv, PTL DEF Spec

\* The guard on ModeratorRemoved keeps a moderator through every replay, at
\* every point of the loop.
THEOREM AlwaysAModerator == Spec => []ModeratorsRemain
<1>1. IInv => ModeratorsRemain
  BY DEF IInv
<1> QED
  BY <1>1, InitIInv, NextIInv, PTL DEF Spec

\* Cids that no ModeratorAdded event names cannot influence roles, visibility
\* decisions, pins or the policy, through any chain of events and replays.
THEOREM OutsidersStayPowerless == Spec => []OutsidersPowerless
<1>1. IInv => OutsidersPowerless
  BY DEF IInv
<1> QED
  BY <1>1, InitIInv, NextIInv, PTL DEF Spec

\* Auto-hiding stays earned through every interleaving of flags, hides, unhides, role
\* changes, policy updates, late events, rollbacks and quarantines: an object counts as
\* auto-hidden only while it is hidden, and only if the stored events flag it as often
\* as the profile asked for or somebody with authority did since the profile was read
\* (the ContentFlagged branch of materialize_views; the rollback that keeps
\* moderation_policy_).
THEOREM AutoHideAlwaysEarned == Spec => []AutoHideEarned
<1>1. Init => IInv /\ Counted
  BY InitIInv, InitCounted
<1>2. (IInv /\ Counted) /\ [Next]_vars => (IInv /\ Counted)'
  BY NextIInv, NextCounted
<1> QED
  BY <1>1, <1>2, CountedEarned, PTL DEF Spec
=============================================================================
