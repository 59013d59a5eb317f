------------------------------ MODULE Startup ------------------------------
(***************************************************************************)
(* What AlphaService::init makes of the data directory, and what resets    *)
(* and community switches leave there.  A new release tag makes a start    *)
(* write a new genesis marker, move the old state away and record the      *)
(* tag, in this order; the user can prepare the same reset while the       *)
(* service runs.  The process may stop between and inside these steps.     *)
(*                                                                         *)
(* A chain is told by its tag: Mainnet's is fixed, the testnet's is the    *)
(* second of the marker that defines it.  A store carries its tag in the   *)
(* genesis block (psz_timestamp), in the header of its block log and in    *)
(* the payload of each event.  A genesis block that holds an event has     *)
(* another merkle root and hash than the release's.  What else a store     *)
(* holds is in module StoreDisk; what a vault holds is in module Wallet;   *)
(* what peers send is in module Community; peers files, assets and the     *)
(* profile state move with the rest and decide nothing here.               *)
(***************************************************************************)
EXTENDS Integers, FiniteSets

CONSTANTS
  Communities, HomeCommunity,  \* community ids; the one of the shells' config
  Environments,                \* the kinds of fault to look at
  MaxIdentity,                 \* bounds on the generated identities, the clock,
  MaxTime,                     \* the releases installed, the faults and the stores
  MaxUpgrades, MaxFaults,      \* with events
  MaxFilled

ASSUME StartupConstants ==
  /\ HomeCommunity \in Communities
  /\ Environments \subseteq {"crash", "refused"}
  /\ {MaxIdentity, MaxUpgrades, MaxFaults, MaxFilled} \subseteq Nat /\ MaxTime \in Nat \ {0}

VARIABLES
  now,       \* util::unix_timestamp_now()
  phase,     \* "down", the steps of a start: "reset", "keyed", or "up"
  dir,       \* the data directory
  memory,    \* the running service
  made,      \* the number of identities generated
  kind,      \* the kind of fault that this behaviour meets
  left,      \* how many of them are still to come
  upgrades,  \* the releases still to be installed
  history    \* what the properties need of the past

vars == <<now, phase, dir, memory, made, kind, left, upgrades, history>>

None == -2
Unreadable == -1
Mainnet == 0

Networks == {"mainnet", "testnet"}
Tags == Unreadable..MaxTime

NoStore == [here    |-> FALSE,
            genesis |-> None,    \* psz_timestamp of block 0, None if it is lost
            header  |-> None,    \* the tag in the first line of the block log
            stamps  |-> {},      \* the tags of the stored events
            early   |-> FALSE]   \* an event is in the genesis block

EmptyDir ==
  [release |-> FALSE,                                      \* it holds the binary's release tag
   marker  |-> None,                                       \* fresh-genesis.state: the testnet's tag
   vault   |-> None,
   profiles |-> [c \in Communities |-> None],              \* their genesis_psz_timestamp
   stores  |-> [c \in Communities |-> [n \in Networks |-> NoStore]]]

NoMemory == [testnet |-> None, identity |-> None, community |-> HomeCommunity,
             network |-> "mainnet", store |-> NoStore]

TagOf(n, testnet) == IF n = "mainnet" THEN Mainnet ELSE testnet

-----------------------------------------------------------------------------
(* Faults.                                                                 *)

Fault == [kind : {"crash", "refused"},
          at : {"marker", "move", "release", "vault", "profile", "header"}]
NoFault == [kind |-> "none", at |-> "none"]

Meets(f) ==
  /\ f # NoFault => f.kind = kind /\ left > 0
  /\ left' = IF f = NoFault THEN left ELSE left - 1

\* Those that Meets lets through.
FaultsToCome == {f \in Fault : f.kind = kind /\ left > 0} \cup {NoFault}

Fails(f, at) == f.at = at

\* What a write leaves: `cut` is what a text that was cut short reads as.  A stop
\* leaves nothing of a text that is written in one piece.
Written(f, at, old, new, cut) ==
  IF f.at # at THEN {new}
  ELSE IF f.kind = "refused" THEN {old} ELSE {old, cut, new}

Stopped == phase' = "down" /\ memory' = NoMemory

-----------------------------------------------------------------------------
(* The reset.                                                              *)

\* Mutant: the vault stays.
MovedButVault(d, m) ==
  [d EXCEPT !.profiles = IF m.communities THEN EmptyDir.profiles ELSE @,
            !.stores = [c \in Communities |-> [n \in Networks |->
                          IF <<c, n>> \in m.stores THEN NoStore ELSE @[c][n]]]]

\* quarantine_legacy_runtime_state: what is moved, one rename at a time.
Moved(d, m) ==
  [d EXCEPT !.vault = IF m.vault THEN None ELSE @,
            !.profiles = IF m.communities THEN EmptyDir.profiles ELSE @,
            !.stores = [c \in Communities |-> [n \in Networks |->
                          IF <<c, n>> \in m.stores THEN NoStore ELSE @[c][n]]]]

Everything == [vault |-> TRUE, communities |-> TRUE, stores |-> Communities \X Networks]
Moves == [vault : BOOLEAN, communities : BOOLEAN, stores : SUBSET (Communities \X Networks)]

\* Mutant: the tag is recorded before the rest is done.
ResetTagFirst(d, f) ==
  LET marked == {[d EXCEPT !.marker = t, !.release = TRUE] : t \in Written(f, "marker", d.marker, now, Unreadable)}
  IN  IF Fails(f, "marker") THEN marked
      ELSE {Moved(e, m) : e \in marked, m \in (IF f.at = "move" THEN Moves ELSE {Everything})}

\* apply_release_reset_if_needed, prepare_genesis_reset: marker, moves, release tag.
Reset(d, f) ==
  LET marked == {[d EXCEPT !.marker = t] : t \in Written(f, "marker", d.marker, now, Unreadable)}
      moved == {Moved(e, m) : e \in marked, m \in (IF f.at = "move" THEN Moves ELSE {Everything})}
  IN  IF Fails(f, "marker") THEN marked
      ELSE IF f.at = "move" THEN moved
      ELSE {[e EXCEPT !.release = r] : e \in moved, r \in Written(f, "release", d.release, TRUE, FALSE)}

Interrupted(f) == Fails(f, "marker") \/ f.at = "move" \/ Fails(f, "release")

\* A start with another release tag than the directory's.
StartWithReset(f) ==
  /\ phase = "down" /\ ~dir.release
  /\ f.at \in {"none", "marker", "move", "release"} /\ Meets(f)
  /\ dir' \in Reset(dir, f)
  /\ phase' = IF Interrupted(f) THEN "down" ELSE "reset"
  /\ history' = IF Interrupted(f) THEN history
                ELSE [mixed |-> FALSE, pending |-> FALSE, fence |-> made]
  /\ UNCHANGED <<now, memory, made, kind, upgrades>>

Start ==
  /\ phase = "down" /\ dir.release
  /\ phase' = "reset"
  /\ history' = [history EXCEPT !.pending = FALSE]
  /\ UNCHANGED <<now, dir, memory, made, kind, left, upgrades>>

\* The binary of another release is installed.
Upgrade ==
  /\ phase = "down" /\ dir.release /\ upgrades > 0
  /\ upgrades' = upgrades - 1
  /\ dir' = [dir EXCEPT !.release = FALSE]
  /\ UNCHANGED <<now, phase, memory, made, kind, left, history>>

\* prepare_genesis_reset, while the service runs on.
PrepareGenesisReset(f) ==
  /\ phase = "up"
  /\ f.at \in {"none", "marker", "move", "release"} /\ Meets(f)
  /\ dir' \in Reset(dir, f)
  /\ IF f.kind = "crash" THEN Stopped ELSE UNCHANGED <<phase, memory>>
  /\ history' = [history EXCEPT !.pending = TRUE, !.fence = made, !.mixed = @ \/ Interrupted(f)]
  /\ UNCHANGED <<now, made, kind, upgrades>>

-----------------------------------------------------------------------------
(* The rest of a start.                                                    *)

\* load_fresh_genesis_marker, and CryptoEngine::initialize.
LoadMarkerAndKey(f) ==
  /\ phase = "reset" /\ f.at \in {"none", "vault"} /\ Meets(f)
  /\ \/ /\ dir.marker \in {None, Unreadable} \/ dir.vault = Unreadable
        /\ f = NoFault /\ Stopped /\ UNCHANGED <<dir, made>>
     \/ /\ dir.marker \notin {None, Unreadable} /\ dir.vault \notin {None, Unreadable}
        /\ f = NoFault /\ phase' = "keyed"
        /\ memory' = [memory EXCEPT !.testnet = dir.marker, !.identity = dir.vault]
        /\ UNCHANGED <<dir, made>>
     \/ /\ dir.marker \notin {None, Unreadable} /\ dir.vault = None
        /\ made < MaxIdentity /\ made' = made + 1
        /\ \E v \in Written(f, "vault", None, made', Unreadable) : dir' = [dir EXCEPT !.vault = v]
        /\ IF Fails(f, "vault") THEN Stopped
           ELSE phase' = "keyed" /\ memory' = [memory EXCEPT !.testnet = dir.marker, !.identity = made']
  /\ UNCHANGED <<now, kind, upgrades, history>>

\* load_or_create_community_profile, and the psz_timestamp of the network.
ProfileOutcomes(c, tag, f) ==
  IF dir.profiles[c] = tag THEN {tag}
  ELSE Written(f, "profile", dir.profiles[c], tag, Unreadable)

\* Mutant: the genesis block is compared with Mainnet's on either network.
ForeignToMainnet(s, tag) ==
  \/ s.genesis = None /\ s.stamps # {}
  \/ s.genesis \notin {None, Mainnet} \/ s.early
  \/ \E t \in s.stamps : t # (IF s.header = None THEN tag ELSE s.header)

\* A start finds the store unusable: the genesis block names another chain or holds an
\* event (as it does when the block log was lost, since a new genesis block then takes
\* the stored events), or an event is of another chain than the block log's header.
Foreign(s, tag) ==
  \/ s.genesis = None /\ s.stamps # {}
  \/ s.genesis \notin {None, tag} \/ s.early
  \/ \E t \in s.stamps : t # (IF s.header = None THEN tag ELSE s.header)

\* open, and quarantine and open again of a foreign store.  The header of the block log
\* replaces the chain id that was set, and outlives the quarantine.
Opened(s, tag) ==
  [here |-> TRUE, genesis |-> tag, header |-> IF s.header = None THEN tag ELSE s.header,
   stamps |-> IF Foreign(s, tag) THEN {} ELSE s.stamps, early |-> FALSE]

\* A block log cut short before its first block, or before its header.  What else a cut
\* may leave is in module StoreDisk.
CutShort(s) == {[s EXCEPT !.genesis = None], [s EXCEPT !.genesis = None, !.header = None]}

\* What the writes of an opening store leave: the block log is rewritten as it is, and
\* again in the empty directory if the store was moved away.
OpenOutcomes(s, tag, f) ==
  LET store == Opened(s, tag)
  IN  IF f.at # "header" THEN {store}
      ELSE {s} \cup (IF Foreign(s, tag) THEN {NoStore} ELSE {})
           \cup (IF f.kind = "refused" THEN {} ELSE {store} \cup CutShort([s EXCEPT !.here = TRUE]) \cup CutShort(store))

\* use_community_profile, at the end of a start or for a running service.
UseCommunityProfile(c, n, testnet, f) ==
  LET tag == TagOf(n, testnet)
      store == Opened(dir.stores[c][n], tag)
  IN  /\ dir.profiles[c] # Unreadable
      /\ f.at \in {"none", "profile", "header"} /\ Meets(f)
      /\ f.at = "profile" => dir.profiles[c] # tag
      /\ \E p \in ProfileOutcomes(c, tag, f) :
           IF Fails(f, "profile") THEN dir' = [dir EXCEPT !.profiles[c] = p]
           ELSE \E s \in OpenOutcomes(dir.stores[c][n], tag, f) :
                  dir' = [dir EXCEPT !.profiles[c] = p, !.stores[c][n] = s]
      /\ \/ f.kind = "crash" /\ Stopped
         \/ f.kind = "refused" /\ (IF phase = "up" THEN phase' = "up" /\ memory' = [memory EXCEPT !.network = n]
                                                   ELSE Stopped)
         \/ /\ f = NoFault
            /\ phase' = "up"
            /\ memory' = [memory EXCEPT !.community = c, !.network = n, !.store = store]

FinishStart(n, f) ==
  /\ phase = "keyed"
  /\ \/ UseCommunityProfile(HomeCommunity, n, memory.testnet, f)
     \/ /\ dir.profiles[HomeCommunity] = Unreadable /\ f = NoFault
        /\ Stopped /\ UNCHANGED <<dir, left>>
  /\ UNCHANGED <<now, made, kind, upgrades, history>>

-----------------------------------------------------------------------------
(* The running service.                                                    *)

Init ==
  /\ now = 1 /\ phase = "down" /\ dir = EmptyDir /\ memory = NoMemory /\ made = 0
  /\ kind \in Environments /\ left = MaxFaults /\ upgrades = MaxUpgrades
  /\ history = [mixed   |-> FALSE,   \* old and new state may stand side by side
                pending |-> FALSE,   \* a reset was prepared and waits for a start
                fence   |-> 0]       \* the identities made before the last reset

Tick ==
  /\ now < MaxTime /\ now' = now + 1
  /\ UNCHANGED <<phase, dir, memory, made, kind, left, upgrades, history>>

\* A stop at any time.
Stop ==
  /\ phase # "down" /\ Stopped
  /\ UNCHANGED <<now, dir, made, kind, left, upgrades, history>>

\* use_community, set_active_transport, set_alpha_test_mode.
Switch(c, n, f) ==
  /\ phase = "up" /\ <<c, n>> # <<memory.community, memory.network>>
  /\ UseCommunityProfile(c, n, memory.testnet, f)
  /\ history' = [history EXCEPT !.mixed = @ \/ history.pending]
  /\ UNCHANGED <<now, made, kind, upgrades>>

MayFill ==
  \/ memory.store.stamps # {}
  \/ Cardinality({cn \in Communities \X Networks : dir.stores[cn[1]][cn[2]].stamps # {}}) < MaxFilled

\* append_event: the first event goes into the genesis block, unless that is confirmed by
\* then, and so do others until it is.  Nothing is written to a directory that was
\* moved away.
LocalEvent(confirmed) ==
  LET tag == TagOf(memory.network, memory.testnet)
      store == [memory.store EXCEPT !.stamps = @ \cup {tag},
                                    !.early = @ \/ (memory.store.stamps = {} /\ ~confirmed)]
  IN  /\ phase = "up" /\ MayFill /\ memory' = [memory EXCEPT !.store = store]
      /\ IF dir.stores[memory.community][memory.network].here
         THEN dir' = [dir EXCEPT !.stores[memory.community][memory.network] = store]
         ELSE UNCHANGED dir
      /\ UNCHANGED <<now, phase, made, kind, left, upgrades, history>>

\* nuke_key, import_key_backup, recover_wallet: the vault is written anew.
ReplaceKey ==
  /\ phase = "up" /\ made < MaxIdentity /\ made' = made + 1
  /\ dir' = [dir EXCEPT !.vault = made']
  /\ memory' = [memory EXCEPT !.identity = made']
  /\ history' = [history EXCEPT !.mixed = @ \/ history.pending]
  /\ UNCHANGED <<now, phase, kind, left, upgrades>>

Next ==
  \/ Tick \/ Stop \/ Start \/ Upgrade \/ ReplaceKey
  \/ \E confirmed \in BOOLEAN : LocalEvent(confirmed)
  \/ \E f \in FaultsToCome :
       \/ StartWithReset(f) \/ PrepareGenesisReset(f) \/ LoadMarkerAndKey(f)
       \/ \E n \in Networks : FinishStart(n, f) \/ \E c \in Communities : Switch(c, n, f)

Spec == Init /\ [][Next]_vars

-----------------------------------------------------------------------------
(* Properties.                                                             *)

\* The variables hold values of their types, and a running service has a key and an
\* open store.
TypeOK ==
  /\ now \in 1..MaxTime /\ phase \in {"down", "reset", "keyed", "up"}
  /\ dir.release \in BOOLEAN /\ dir.marker \in Tags \cup {None}
  /\ dir.vault \in {None} \cup Unreadable..MaxIdentity
  /\ dir.profiles \in [Communities -> Tags \cup {None}]
  /\ \A c \in Communities, n \in Networks :
       dir.stores[c][n] \in [here : BOOLEAN, genesis : Tags \cup {None}, header : Tags \cup {None},
                             stamps : SUBSET (0..MaxTime), early : BOOLEAN]
  /\ phase = "up" => memory.identity \in 1..MaxIdentity /\ memory.store.here
  /\ made \in 0..MaxIdentity /\ left \in 0..MaxFaults /\ upgrades \in 0..MaxUpgrades

\* As long as resets are not mixed up with a service that runs on, and nothing worse
\* than a stop happens ...
Orderly == kind = "crash" /\ ~history.mixed

\* ... the open store is of the chain the service is configured for, whatever step of
\* a reset a stop interrupted;
StoreOnItsChain ==
  Orderly /\ phase = "up" =>
    LET tag == TagOf(memory.network, memory.testnet)
    IN  memory.store.genesis = tag /\ memory.store.header = tag /\ memory.store.stamps \subseteq {tag}

\* ... no identity of before a reset is used after the start that follows it;
ResetRenewsIdentity ==
  Orderly /\ phase = "up" /\ ~history.pending => memory.identity > history.fence

\* ... a start fails on the marker only if the user's reset was interrupted, never
\* because a release's was;
MarkerReadable ==
  Orderly /\ phase \in {"reset", "keyed", "up"} => dir.marker \notin {None, Unreadable}

\* ... and events are lost in a reset only, or with a store whose genesis block holds an
\* event or whose block log a stop cut short.
EventsKept ==
  [][Orderly /\ dir'.marker = dir.marker =>
       \A c \in Communities, n \in Networks :
         LET s == dir.stores[c][n]
         IN  \/ s.stamps \subseteq dir'.stores[c][n].stamps
             \/ ~dir.release \/ history'.pending
             \/ s.early \/ s.genesis = None]_vars
=============================================================================
