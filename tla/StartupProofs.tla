--------------------------- MODULE StartupProofs ---------------------------
(***************************************************************************)
(* Proofs about start-up: whatever step of a reset a stop interrupts, for  *)
(* any number of communities, identities, releases and faults.             *)
(***************************************************************************)
EXTENDS Startup, TLAPS

-----------------------------------------------------------------------------
(* The inductive invariant.                                                *)

Stores == [here : BOOLEAN, genesis : Tags \cup {None}, header : Tags \cup {None},
           stamps : SUBSET (0..MaxTime), early : BOOLEAN]

\* The data directories, when n identities have been generated.
Dirs(n) == [release : BOOLEAN, marker : Tags \cup {None}, vault : {None, Unreadable} \cup 1..n,
            profiles : [Communities -> Tags \cup {None}],
            stores : [Communities -> [Networks -> Stores]]]

Memories(n) == [testnet : Tags \cup {None}, identity : {None} \cup 1..n, community : Communities,
                network : Networks, store : Stores]

\* The types.  A service that has its key has a readable marker, too.
Typed ==
  /\ now \in 1..MaxTime /\ phase \in {"down", "reset", "keyed", "up"}
  /\ dir \in Dirs(made) /\ memory \in Memories(made)
  /\ made \in 0..MaxIdentity /\ left \in 0..MaxFaults /\ upgrades \in 0..MaxUpgrades
  /\ history \in [mixed : BOOLEAN, pending : BOOLEAN, fence : 0..made]
  /\ phase \in {"keyed", "up"} => memory.testnet \in 0..MaxTime /\ memory.identity \in 1..made
  /\ phase = "up" => memory.store.here

\* Before a start has its key nothing is in memory, and a prepared reset waits for a
\* start.
Idle ==
  /\ phase \in {"down", "reset"} => memory = NoMemory
  /\ history.pending => phase \in {"down", "up"}

\* A directory of the release on disk: its marker can be read, its key is of after the
\* last reset, and its stores are of the chains the marker defines.
OfItsRelease(d) ==
  /\ d.marker \notin {None, Unreadable}
  /\ d.vault > 0 => d.vault > history.fence
  /\ \A c \in Communities, n \in Networks :
       /\ d.stores[c][n].genesis \in {None, TagOf(n, d.marker)}
       /\ d.stores[c][n].header \in {None, TagOf(n, d.marker)}
       /\ d.stores[c][n].stamps \subseteq {TagOf(n, d.marker)}

MovedAway(d) == \A c \in Communities, n \in Networks : d.stores[c][n] = NoStore

\* What a running service has in memory is what the directory holds, unless a prepared
\* reset has moved it away.
InStep ==
  /\ phase # "down" => dir.release
  /\ phase \in {"keyed", "up"} /\ ~history.pending =>
       memory.testnet = dir.marker /\ memory.identity > history.fence
  /\ phase = "up" =>
       LET tag == TagOf(memory.network, memory.testnet)
           stored == dir.stores[memory.community][memory.network]
       IN  /\ memory.store.genesis = tag /\ memory.store.header = tag
           /\ memory.store.stamps \subseteq {tag}
           /\ stored.here => stored = memory.store

StartupInv ==
  /\ Typed /\ Idle
  /\ Orderly => /\ dir.release => OfItsRelease(dir)
                /\ history.pending => MovedAway(dir)
                /\ InStep

-----------------------------------------------------------------------------
(* The data directory and its parts.                                       *)

Faults == Fault \cup {NoFault}

LEMMA FaultTypes ==
  ASSUME NEW f \in FaultsToCome, Meets(f), left \in 0..MaxFaults
  PROVE  /\ f \in Faults /\ left' \in 0..MaxFaults
         /\ f = NoFault \/ (f \in Fault /\ f.kind = kind)
  BY StartupConstants DEF Meets, FaultsToCome, Faults

LEMMA TagTypes ==
  ASSUME now \in 1..MaxTime
  PROVE  /\ now \in Tags /\ now \in 0..MaxTime /\ Unreadable \in Tags
         /\ \A t \in 0..MaxTime : t \in Tags /\ t \notin {None, Unreadable}
         /\ \A n \in Networks, t \in 0..MaxTime : TagOf(n, t) \in 0..MaxTime
  BY StartupConstants DEF Tags, Unreadable, None, TagOf, Mainnet

LEMMA NoStoreType == NoStore \in Stores /\ ~NoStore.here
  BY DEF NoStore, Stores

LEMMA NoMemoryType == ASSUME NEW n \in Nat PROVE NoMemory \in Memories(n)
  BY NoStoreType, StartupConstants DEF NoMemory, Memories, Networks

LEMMA EmptyDirType == EmptyDir \in Dirs(0) /\ ~EmptyDir.release
  BY NoStoreType DEF EmptyDir, Dirs

\* What was generated earlier has still been generated later.
LEMMA LaterTypes ==
  ASSUME NEW n \in Nat
  PROVE  Dirs(n) \subseteq Dirs(n + 1) /\ Memories(n) \subseteq Memories(n + 1)
<1>1. 1..n \subseteq 1..(n + 1)
  OBVIOUS
<1> QED
  BY <1>1 DEF Dirs, Memories

\* Of the generated keys, the marker and the stores only one store differs.
OneStoreWritten(d, e, c, w, s, n) ==
  /\ e \in Dirs(n)
  /\ e.release = d.release /\ e.marker = d.marker /\ e.vault = d.vault
  /\ e.stores[c][w] = s
  /\ \A c1 \in Communities, w1 \in Networks :
       <<c1, w1>> # <<c, w>> => e.stores[c1][w1] = d.stores[c1][w1]

LEMMA StoreWritten ==
  ASSUME NEW n \in Nat, NEW d \in Dirs(n), NEW c \in Communities, NEW w \in Networks,
         NEW p \in Tags \cup {None}, NEW s \in Stores, NEW e,
         \/ e = [d EXCEPT !.profiles[c] = p, !.stores[c][w] = s]
         \/ e = [d EXCEPT !.stores[c][w] = s]
  PROVE  OneStoreWritten(d, e, c, w, s, n)
<1> DEFINE stores == [d.stores EXCEPT ![c][w] = s]
<1>1. /\ d.stores \in [Communities -> [Networks -> Stores]]
      /\ d.profiles \in [Communities -> Tags \cup {None}]
  BY DEF Dirs
<1>2. /\ stores \in [Communities -> [Networks -> Stores]]
      /\ stores[c][w] = s
      /\ \A c1 \in Communities, w1 \in Networks :
           <<c1, w1>> # <<c, w>> => stores[c1][w1] = d.stores[c1][w1]
  BY <1>1
<1>3. [d.profiles EXCEPT ![c] = p] \in [Communities -> Tags \cup {None}]
  BY <1>1
<1>4. /\ e.stores = stores /\ e.release = d.release /\ e.marker = d.marker /\ e.vault = d.vault
      /\ e \in Dirs(n)
  BY <1>1, <1>2, <1>3 DEF Dirs
<1> HIDE DEF stores
<1> QED
  BY <1>2, <1>4 DEF OneStoreWritten

-----------------------------------------------------------------------------
(* The reset.                                                              *)

\* A move takes stores and the vault or leaves them; the whole move takes all.
LEMMA MovedFacts ==
  ASSUME NEW n \in Nat, NEW d \in Dirs(n), NEW m \in Moves \cup {Everything}
  PROVE  /\ Moved(d, m) \in Dirs(n)
         /\ Moved(d, m).release = d.release /\ Moved(d, m).marker = d.marker
         /\ MovedAway(d) => MovedAway(Moved(d, m))
         /\ m = Everything => Moved(d, m).vault = None /\ MovedAway(Moved(d, m))
<1> DEFINE stores == [c \in Communities |-> [w \in Networks |->
                        IF <<c, w>> \in m.stores THEN NoStore ELSE d.stores[c][w]]]
           profiles == IF m.communities THEN EmptyDir.profiles ELSE d.profiles
           vault == IF m.vault THEN None ELSE d.vault
<1>1. /\ d.stores \in [Communities -> [Networks -> Stores]]
      /\ d.profiles \in [Communities -> Tags \cup {None}]
      /\ d.vault \in {None, Unreadable} \cup 1..n
  BY DEF Dirs
<1>2. stores \in [Communities -> [Networks -> Stores]]
  BY <1>1, NoStoreType
<1>3. profiles \in [Communities -> Tags \cup {None}]
  BY <1>1 DEF EmptyDir
<1>4. vault \in {None, Unreadable} \cup 1..n
  BY <1>1
<1>5. \A c \in Communities, w \in Networks :
        /\ d.stores[c][w] = NoStore => stores[c][w] = NoStore
        /\ m = Everything => stores[c][w] = NoStore
  BY DEF Everything
<1>6. m = Everything => vault = None
  BY DEF Everything
<1>7. Moved(d, m) = [d EXCEPT !.vault = vault, !.profiles = profiles, !.stores = stores]
  BY DEF Moved
<1> HIDE DEF stores, profiles, vault
<1>8. /\ Moved(d, m) \in Dirs(n)
      /\ Moved(d, m).release = d.release /\ Moved(d, m).marker = d.marker
      /\ Moved(d, m).stores = stores /\ Moved(d, m).vault = vault
  BY <1>2, <1>3, <1>4, <1>7 DEF Dirs
<1> QED
  BY <1>5, <1>6, <1>8 DEF MovedAway

\* What the directory may be during and after a reset.  The release is recorded last:
\* a directory that has come to be of the release holds nothing from before it.
LEMMA ResetFacts ==
  ASSUME NEW n \in Nat, NEW d \in Dirs(n), now \in 1..MaxTime, NEW f \in Faults,
         f.at \in {"none", "marker", "move", "release"}, NEW e \in Reset(d, f)
  PROVE  /\ e \in Dirs(n)
         /\ MovedAway(d) => MovedAway(e)
         /\ (~d.release /\ e.release) \/ ~Interrupted(f) =>
              e.release /\ e.marker = now /\ e.vault = None /\ MovedAway(e)
         /\ ~Interrupted(f) => f = NoFault
<1> DEFINE texts == Written(f, "marker", d.marker, now, Unreadable)
           marked == {[d EXCEPT !.marker = t] : t \in texts}
           moves == IF f.at = "move" THEN Moves ELSE {Everything}
           moved == {Moved(x, m) : x \in marked, m \in moves}
<1>1. /\ texts \subseteq {d.marker, now, Unreadable}
      /\ f.at # "marker" => texts = {now}
  BY DEF Written
<1>2. ASSUME NEW x \in marked
      PROVE  /\ x \in Dirs(n) /\ x.release = d.release
             /\ MovedAway(d) => MovedAway(x)
             /\ f.at # "marker" => x.marker = now
  <2>1. PICK t \in texts : x = [d EXCEPT !.marker = t]
    OBVIOUS
  <2>2. t \in Tags \cup {None} /\ (f.at # "marker" => t = now)
    <3> HIDE DEF texts
    <3> QED
      BY <1>1, TagTypes DEF Dirs
  <2> HIDE DEF texts
  <2>3. x \in Dirs(n) /\ x.release = d.release /\ x.stores = d.stores /\ x.marker = t
    BY <2>1, <2>2 DEF Dirs
  <2> QED
    BY <2>2, <2>3 DEF MovedAway
<1> HIDE DEF marked, texts
<1>3. ASSUME NEW y \in moved
      PROVE  /\ y \in Dirs(n) /\ y.release = d.release
             /\ MovedAway(d) => MovedAway(y)
             /\ f.at # "marker" => y.marker = now
             /\ f.at # "move" => y.vault = None /\ MovedAway(y)
  <2>1. PICK x \in marked, m \in moves : y = Moved(x, m)
    OBVIOUS
  <2>2. m \in Moves \cup {Everything} /\ (f.at # "move" => m = Everything)
    OBVIOUS
  <2> QED
    BY <1>2, <2>1, <2>2, MovedFacts
<1> HIDE DEF moved
<1>4. CASE f.at = "marker"
  <2>1. e \in marked
    BY <1>4 DEF Reset, Fails, marked, texts
  <2>2. Interrupted(f)
    BY <1>4 DEF Interrupted, Fails
  <2> QED
    BY <1>2, <2>1, <2>2
<1>5. CASE f.at = "move"
  <2>1. e \in moved
    BY <1>5 DEF Reset, Fails, moved, marked, texts
  <2>2. Interrupted(f)
    BY <1>5 DEF Interrupted
  <2> QED
    BY <1>3, <2>1, <2>2
<1>6. CASE f.at \in {"none", "release"}
  <2> DEFINE Recorded(y, r) == [y EXCEPT !.release = r]
             releases == Written(f, "release", d.release, TRUE, FALSE)
             recorded == {Recorded(y, r) : y \in moved, r \in releases}
  <2>1. PICK y \in moved, r \in releases : e = [y EXCEPT !.release = r]
    <3>1. Reset(d, f) = IF f.at = "marker" THEN marked ELSE IF f.at = "move" THEN moved ELSE recorded
      BY DEF Reset, Fails, moved, marked, texts
    <3>2. \A y, r : Recorded(y, r) = [y EXCEPT !.release = r]
      OBVIOUS
    <3> HIDE DEF Recorded, releases, recorded
    <3>3. e \in recorded
      BY <1>6, <3>1
    <3> QED
      BY <3>2, <3>3 DEF recorded
  <2> HIDE DEF releases
  <2>2. r \in BOOLEAN /\ (f.at = "none" => r = TRUE)
    BY <1>6, <2>1 DEF releases, Written, Dirs
  <2>3. e \in Dirs(n) /\ e.stores = y.stores /\ e.marker = y.marker /\ e.vault = y.vault /\ e.release = r
    BY <1>3, <2>1, <2>2 DEF Dirs
  <2>4. MovedAway(e)
    BY <1>3, <1>6, <2>3 DEF MovedAway
  <2>5. Interrupted(f) \/ f = NoFault
    BY <1>6 DEF Interrupted, Fails, Faults, Fault, NoFault
  <2>6. f = NoFault => f.at = "none"
    BY DEF NoFault
  <2> QED
    BY <1>3, <1>6, <2>2, <2>3, <2>4, <2>5, <2>6
<1> QED
  BY <1>4, <1>5, <1>6

-----------------------------------------------------------------------------
(* Each action preserves the invariant.                                    *)

\* The part of the invariant that an orderly history is needed for.
Kept ==
  /\ dir.release => OfItsRelease(dir)
  /\ history.pending => MovedAway(dir)
  /\ InStep

LEMMA StartupInvParts == StartupInv <=> Typed /\ Idle /\ (Orderly => Kept)
  BY DEF StartupInv, Kept

\* What a directory can hold is unchanged by what is not written.
LEMMA OfItsReleaseSame ==
  ASSUME NEW d, NEW e, OfItsRelease(d), e.marker = d.marker, e.vault = d.vault, e.stores = d.stores
  PROVE  OfItsRelease(e)
  BY DEF OfItsRelease

LEMMA InitStartup == Init => StartupInv
<1> SUFFICES ASSUME Init PROVE StartupInv
  OBVIOUS
<1>1. Typed
  <2>1. dir \in Dirs(made) /\ memory \in Memories(made)
    BY EmptyDirType, NoMemoryType DEF Init
  <2>2. history \in [mixed : BOOLEAN, pending : BOOLEAN, fence : 0..made]
    BY DEF Init
  <2> QED
    BY <2>1, <2>2, StartupConstants DEF Init, Typed
<1>2. Idle
  BY DEF Init, Idle
<1>3. Orderly => Kept
  BY EmptyDirType DEF Init, Kept, InStep
<1> QED
  BY <1>1, <1>2, <1>3, StartupInvParts

LEMMA StutterStartup == ASSUME StartupInv, UNCHANGED vars PROVE StartupInv'
  BY DEF StartupInv, Typed, Idle, Orderly, OfItsRelease, MovedAway, InStep, vars, Dirs, Memories

LEMMA TickStartup == ASSUME StartupInv, Tick PROVE StartupInv'
  BY StartupConstants
     DEF StartupInv, Typed, Idle, Orderly, OfItsRelease, MovedAway, InStep, Tick, Dirs, Memories

LEMMA StopStartup == ASSUME StartupInv, Stop PROVE StartupInv'
<1>1. NoMemory \in Memories(made)
  BY NoMemoryType DEF StartupInv, Typed
<1> QED
  BY <1>1 DEF StartupInv, Typed, Idle, Orderly, OfItsRelease, MovedAway, InStep, Stop, Stopped, Dirs, Memories

LEMMA StartStartup == ASSUME StartupInv, Start PROVE StartupInv'
<1>1. history' = [mixed |-> history.mixed, pending |-> FALSE, fence |-> history.fence]
  BY DEF StartupInv, Typed, Start
<1> QED
  BY <1>1 DEF StartupInv, Typed, Idle, Orderly, OfItsRelease, MovedAway, InStep, Start, Dirs, Memories

LEMMA UpgradeStartup == ASSUME StartupInv, Upgrade PROVE StartupInv'
<1>1. /\ dir' \in Dirs(made) /\ ~dir'.release
      /\ dir'.stores = dir.stores /\ dir'.marker = dir.marker /\ dir'.vault = dir.vault
  BY DEF StartupInv, Typed, Upgrade, Dirs
<1>2. upgrades' \in 0..MaxUpgrades
  BY StartupConstants DEF StartupInv, Typed, Upgrade
<1>3. UNCHANGED <<now, phase, memory, made, kind, left, history>> /\ phase = "down"
  BY DEF Upgrade
<1>4. Typed' /\ Idle'
  BY <1>1, <1>2, <1>3 DEF StartupInv, Typed, Idle, Dirs, Memories
<1>5. ASSUME Orderly' PROVE Kept'
  BY <1>1, <1>3, <1>5 DEF StartupInv, Orderly, MovedAway, InStep, Kept
<1> QED
  BY <1>4, <1>5 DEF StartupInv, Kept

\* A reset that a stop interrupts leaves a directory that is not of the release, or
\* one that holds nothing of before.
LEMMA StartWithResetStartup ==
  ASSUME StartupInv, NEW f \in FaultsToCome, StartWithReset(f)
  PROVE  StartupInv'
<1>1. /\ phase = "down" /\ ~dir.release /\ memory = NoMemory /\ made \in Nat /\ now \in 1..MaxTime
      /\ dir \in Dirs(made) /\ memory \in Memories(made)
      /\ f.at \in {"none", "marker", "move", "release"} /\ dir' \in Reset(dir, f)
      /\ UNCHANGED <<now, memory, made, kind, upgrades>>
  BY StartupConstants DEF StartWithReset, StartupInv, Typed, Idle
<1>2. f \in Faults /\ left' \in 0..MaxFaults
  BY FaultTypes DEF StartWithReset, StartupInv, Typed
<1>3. /\ dir' \in Dirs(made)
      /\ MovedAway(dir) => MovedAway(dir')
      /\ dir'.release \/ ~Interrupted(f) =>
           dir'.release /\ dir'.marker = now /\ dir'.vault = None /\ MovedAway(dir')
  BY <1>1, <1>2, ResetFacts
<1>4. now \notin {None, Unreadable}
  BY <1>1 DEF None, Unreadable
<1>5. dir'.release => OfItsRelease(dir)'
  BY <1>3, <1>4 DEF OfItsRelease, MovedAway, NoStore, None
<1>6. CASE Interrupted(f)
  <2>1. phase' = "down" /\ history' = history
    BY <1>6 DEF StartWithReset
  <2>2. Typed' /\ Idle'
    BY <1>1, <1>2, <1>3, <2>1 DEF StartupInv, Typed, Idle, Dirs, Memories
  <2>3. ASSUME Orderly' PROVE Kept'
    BY <1>1, <1>3, <1>5, <2>1, <2>3 DEF StartupInv, Orderly, Kept, MovedAway, InStep
  <2> QED
    BY <2>2, <2>3 DEF StartupInv, Kept
<1>7. CASE ~Interrupted(f)
  <2>1. phase' = "reset" /\ history' = [mixed |-> FALSE, pending |-> FALSE, fence |-> made]
    BY <1>7 DEF StartWithReset
  <2>2. Typed' /\ Idle'
    BY <1>1, <1>2, <1>3, <2>1 DEF StartupInv, Typed, Idle, Dirs, Memories
  <2>3. Kept'
    BY <1>1, <1>3, <1>5, <1>7, <2>1 DEF Kept, InStep
  <2> QED
    BY <2>2, <2>3 DEF StartupInv, Kept
<1> QED
  BY <1>6, <1>7

\* The user's reset under a running service: if nothing fails all is moved away, and
\* the service runs on with what it has in memory.
LEMMA PrepareGenesisResetStartup ==
  ASSUME StartupInv, NEW f \in FaultsToCome, PrepareGenesisReset(f)
  PROVE  StartupInv'
<1>1. /\ phase = "up" /\ made \in Nat /\ now \in 1..MaxTime
      /\ dir \in Dirs(made) /\ memory \in Memories(made)
      /\ f.at \in {"none", "marker", "move", "release"} /\ dir' \in Reset(dir, f)
      /\ UNCHANGED <<now, made, kind, upgrades>>
      /\ IF f.kind = "crash" THEN Stopped ELSE UNCHANGED <<phase, memory>>
  BY StartupConstants DEF PrepareGenesisReset, StartupInv, Typed
<1>2. f \in Faults /\ left' \in 0..MaxFaults
  BY FaultTypes DEF PrepareGenesisReset, StartupInv, Typed
<1>3. /\ dir' \in Dirs(made)
      /\ ~Interrupted(f) =>
           /\ dir'.release /\ dir'.marker = now /\ dir'.vault = None /\ MovedAway(dir')
           /\ f = NoFault
  BY <1>1, <1>2, ResetFacts
<1>4. history' = [mixed |-> history.mixed \/ Interrupted(f), pending |-> TRUE, fence |-> made]
  <2>1. history \in [mixed : BOOLEAN, pending : BOOLEAN, fence : 0..made]
    BY DEF StartupInv, Typed
  <2> QED
    BY <2>1 DEF PrepareGenesisReset
<1>5. Interrupted(f) \in BOOLEAN
  BY DEF Interrupted, Fails
<1>6. history' \in [mixed : BOOLEAN, pending : BOOLEAN, fence : 0..made]
  BY <1>1, <1>4, <1>5 DEF StartupInv, Typed
<1>7. memory' \in Memories(made) /\ ((phase' = "down" /\ memory' = NoMemory) \/ UNCHANGED <<phase, memory>>)
  BY <1>1, NoMemoryType DEF Stopped
<1>8. Typed' /\ Idle'
  BY <1>1, <1>2, <1>3, <1>4, <1>6, <1>7 DEF StartupInv, Typed, Idle, Dirs, Memories
<1>9. ASSUME Orderly' PROVE Kept'
  <2>1. ~Interrupted(f) /\ Orderly
    BY <1>1, <1>4, <1>5, <1>6, <1>9 DEF Orderly
  <2>2. f = NoFault /\ UNCHANGED <<phase, memory>>
    BY <1>1, <1>3, <2>1 DEF NoFault
  <2>3. OfItsRelease(dir)' /\ MovedAway(dir)'
    BY <1>1, <1>3, <2>1 DEF OfItsRelease, MovedAway, NoStore, None, Unreadable
  <2>4. /\ memory.store.genesis = TagOf(memory.network, memory.testnet)
        /\ memory.store.header = TagOf(memory.network, memory.testnet)
        /\ memory.store.stamps \subseteq {TagOf(memory.network, memory.testnet)}
    BY <1>1, <2>1 DEF StartupInv, InStep
  <2>5. ~dir'.stores[memory.community][memory.network].here
    BY <1>1, <1>3, <2>1, NoStoreType DEF MovedAway, Memories
  <2>6. InStep'
    BY <1>1, <1>3, <1>4, <2>1, <2>2, <2>4, <2>5 DEF InStep
  <2> QED
    BY <2>3, <2>6 DEF Kept
<1> QED
  BY <1>8, <1>9 DEF StartupInv, Kept

LEMMA LoadMarkerAndKeyStartup ==
  ASSUME StartupInv, NEW f \in FaultsToCome, LoadMarkerAndKey(f)
  PROVE  StartupInv'
<1>1. /\ phase = "reset" /\ made \in Nat /\ dir \in Dirs(made)
      /\ memory = NoMemory /\ memory \in Memories(made) /\ ~history.pending
      /\ history \in [mixed : BOOLEAN, pending : BOOLEAN, fence : 0..made]
      /\ UNCHANGED <<now, kind, upgrades, history>>
  BY StartupConstants DEF LoadMarkerAndKey, StartupInv, Typed, Idle
<1>2. left' \in 0..MaxFaults
  BY FaultTypes DEF LoadMarkerAndKey, StartupInv, Typed
<1>3. CASE Stopped /\ UNCHANGED <<dir, made>>
  <2>1. Typed' /\ Idle'
    BY <1>1, <1>2, <1>3 DEF StartupInv, Typed, Idle, Stopped, Dirs, Memories
  <2>2. ASSUME Orderly' PROVE Kept'
    BY <1>1, <1>3, <2>2 DEF StartupInv, Orderly, OfItsRelease, MovedAway, InStep, Kept, Stopped
  <2> QED
    BY <2>1, <2>2 DEF StartupInv, Kept
<1>4. CASE /\ dir.marker \notin {None, Unreadable} /\ dir.vault \notin {None, Unreadable}
           /\ phase' = "keyed"
           /\ memory' = [memory EXCEPT !.testnet = dir.marker, !.identity = dir.vault]
           /\ UNCHANGED <<dir, made>>
  <2>1. dir.marker \in 0..MaxTime /\ dir.marker \in Tags \cup {None} /\ dir.vault \in 1..made
    BY <1>1, <1>4, StartupConstants DEF Dirs, Tags, None, Unreadable
  <2>2. /\ memory' \in Memories(made)
        /\ memory'.testnet = dir.marker /\ memory'.identity = dir.vault
    BY <1>1, <1>4, <2>1 DEF Memories
  <2>3. Typed' /\ Idle'
    BY <1>1, <1>2, <1>4, <2>1, <2>2 DEF StartupInv, Typed, Idle, Dirs, Memories
  <2>4. ASSUME Orderly' PROVE Kept'
    BY <1>1, <1>4, <2>1, <2>2, <2>4 DEF StartupInv, Orderly, OfItsRelease, MovedAway, InStep, Kept
  <2> QED
    BY <2>3, <2>4 DEF StartupInv, Kept
<1>5. CASE /\ dir.marker \notin {None, Unreadable} /\ dir.vault = None
           /\ made < MaxIdentity /\ made' = made + 1
           /\ \E v \in Written(f, "vault", None, made', Unreadable) : dir' = [dir EXCEPT !.vault = v]
           /\ IF Fails(f, "vault") THEN Stopped
              ELSE phase' = "keyed" /\ memory' = [memory EXCEPT !.testnet = dir.marker, !.identity = made']
  <2>1. PICK v \in Written(f, "vault", None, made', Unreadable) : dir' = [dir EXCEPT !.vault = v]
    BY <1>5
  <2>2. v \in {None, made + 1, Unreadable}
    BY <1>5, <2>1 DEF Written
  <2>3. dir \in Dirs(made') /\ memory \in Memories(made') /\ made' \in Nat
    BY <1>1, <1>5, LaterTypes
  <2>4. /\ dir' \in Dirs(made') /\ dir'.vault = v /\ dir'.release = dir.release
        /\ dir'.stores = dir.stores /\ dir'.marker = dir.marker
    BY <1>1, <1>5, <2>1, <2>2, <2>3 DEF Dirs
  <2>5. dir.marker \in 0..MaxTime /\ dir.marker \in Tags \cup {None}
    BY <1>1, <1>5, StartupConstants DEF Dirs, Tags, None, Unreadable
  <2>6. \/ phase' = "down" /\ memory' = NoMemory
        \/ /\ phase' = "keyed" /\ memory' \in Memories(made')
           /\ memory'.testnet = dir.marker /\ memory'.identity = made'
    <3>1. CASE Fails(f, "vault")
      BY <1>5, <3>1 DEF Stopped
    <3>2. CASE ~Fails(f, "vault")
      <4>1. phase' = "keyed" /\ memory' = [memory EXCEPT !.testnet = dir.marker, !.identity = made']
        BY <1>5, <3>2
      <4>2. made' \in 1..made'
        BY <1>1, <1>5
      <4> QED
        BY <2>3, <2>5, <4>1, <4>2 DEF Memories
    <3> QED
      BY <3>1, <3>2
  <2>7. Typed' /\ Idle'
    <3>1. memory' \in Memories(made')
      BY <2>3, <2>6, NoMemoryType
    <3>2. made' \in 0..MaxIdentity /\ history' \in [mixed : BOOLEAN, pending : BOOLEAN, fence : 0..made']
      BY <1>1, <1>5, StartupConstants
    <3>3. phase' = "keyed" => memory'.testnet \in 0..MaxTime /\ memory'.identity \in 1..made'
      BY <1>1, <1>5, <2>5, <2>6
    <3>4. Typed'
      BY <1>1, <1>2, <2>4, <2>6, <3>1, <3>2, <3>3 DEF StartupInv, Typed, Dirs, Memories
    <3> QED
      BY <1>1, <2>6, <3>4 DEF Idle
  <2>8. ASSUME Orderly' PROVE Kept'
    <3>1. Orderly
      BY <1>1, <2>8 DEF Orderly
    <3>2. dir.release /\ OfItsRelease(dir)
      BY <1>1, <3>1 DEF StartupInv, InStep
    <3>3. v > 0 => v > history.fence
      BY <1>1, <2>2 DEF None, Unreadable
    <3>4. OfItsRelease(dir)'
      BY <1>1, <2>4, <3>2, <3>3 DEF OfItsRelease
    <3>5. InStep'
      BY <1>1, <1>5, <2>4, <2>6, <3>2 DEF InStep
    <3> QED
      BY <1>1, <3>4, <3>5 DEF Kept
  <2> QED
    BY <2>7, <2>8 DEF StartupInv, Kept
<1> QED
  BY <1>3, <1>4, <1>5 DEF LoadMarkerAndKey

-----------------------------------------------------------------------------
(* The switch to a community, at the end of a start or in a running        *)
(* service.                                                                *)

\* A store names no other chain.
OfChain(s, tag) == s.genesis \in {None, tag} /\ s.header \in {None, tag} /\ s.stamps \subseteq {tag}

\* No event is missing, unless the genesis block held one or the block log was lost.
KeptBy(s, t) == s.early \/ s.genesis = None \/ s.stamps \subseteq t.stamps

\* A store of the chain whose genesis block is empty is opened with all of its events.
LEMMA OpenedFacts ==
  ASSUME NEW s \in Stores, NEW tag \in 0..MaxTime
  PROVE  /\ Opened(s, tag) \in Stores /\ Opened(s, tag).here /\ Opened(s, tag).genesis = tag
         /\ OfChain(s, tag) => /\ OfChain(Opened(s, tag), tag) /\ Opened(s, tag).header = tag
                               /\ KeptBy(s, Opened(s, tag))
                               /\ Foreign(s, tag) => s.early \/ s.genesis = None
<1> DEFINE header == IF s.header = None THEN tag ELSE s.header
           stamps == IF Foreign(s, tag) THEN {} ELSE s.stamps
           early == FALSE
           here == TRUE
<1>1. tag \in Tags
  BY StartupConstants DEF Tags, Unreadable
<1>2. header \in Tags \cup {None} /\ stamps \in SUBSET (0..MaxTime) /\ stamps \subseteq s.stamps
  BY <1>1 DEF Stores
<1>3. Opened(s, tag) = [here |-> here, genesis |-> tag, header |-> header, stamps |-> stamps, early |-> early]
  BY DEF Opened
<1>4. OfChain(s, tag) => header = tag /\ (Foreign(s, tag) => s.early \/ s.genesis = None)
  BY DEF OfChain, Foreign
<1>5. early \in BOOLEAN /\ here \in BOOLEAN /\ here
  OBVIOUS
<1>6. ~Foreign(s, tag) => stamps = s.stamps
  OBVIOUS
<1> HIDE DEF header, stamps, early, here
<1>7. /\ Opened(s, tag) \in Stores /\ Opened(s, tag).here /\ Opened(s, tag).genesis = tag
      /\ Opened(s, tag).header = header /\ Opened(s, tag).stamps = stamps
  BY <1>1, <1>2, <1>3, <1>5 DEF Stores
<1> QED
  BY <1>2, <1>4, <1>6, <1>7 DEF OfChain, KeptBy

LEMMA CutShortFacts ==
  ASSUME NEW s \in Stores, NEW t \in CutShort(s)
  PROVE  t \in Stores /\ t.stamps = s.stamps /\ t.genesis = None /\ t.header \in {None, s.header}
<1>1. CASE t = [s EXCEPT !.genesis = None]
  BY <1>1 DEF Stores
<1>2. CASE t = [s EXCEPT !.genesis = None, !.header = None]
  BY <1>2 DEF Stores
<1> QED
  BY <1>1, <1>2 DEF CutShort

\* Wherever a stop cuts the opening, the store stays of its chain and keeps its events.
LEMMA OpenOutcomesFacts ==
  ASSUME NEW s \in Stores, NEW tag \in 0..MaxTime, NEW f \in Faults, NEW t \in OpenOutcomes(s, tag, f)
  PROVE  /\ t \in Stores
         /\ f = NoFault => t = Opened(s, tag)
         /\ OfChain(s, tag) => OfChain(t, tag) /\ KeptBy(s, t)
<1> DEFINE store == Opened(s, tag)
           here == TRUE
           old == [s EXCEPT !.here = here]
<1>1. \/ t = store
      \/ f # NoFault /\ t = s
      \/ f # NoFault /\ t = NoStore /\ Foreign(s, tag)
      \/ f # NoFault /\ t \in CutShort(old)
      \/ f # NoFault /\ t \in CutShort(store)
  <2>1. CASE f.at # "header"
    BY <2>1 DEF OpenOutcomes
  <2>2. CASE f.at = "header"
    <3>1. f # NoFault
      BY <2>2 DEF NoFault
    <3> QED
      BY <2>2, <3>1 DEF OpenOutcomes
  <2> QED
    BY <2>1, <2>2
<1>2. here \in BOOLEAN
  OBVIOUS
<1> HIDE DEF here
<1>3. old \in Stores /\ old.genesis = s.genesis /\ old.header = s.header /\ old.stamps = s.stamps
  BY <1>2 DEF Stores
<1>4. /\ store \in Stores
      /\ OfChain(s, tag) => /\ OfChain(store, tag) /\ KeptBy(s, store)
                            /\ Foreign(s, tag) => s.early \/ s.genesis = None
  BY OpenedFacts
<1> HIDE DEF old, store
<1>5. CASE t = store
  BY <1>4, <1>5 DEF store
<1>6. CASE f # NoFault /\ t = s
  BY <1>6 DEF KeptBy
<1>7. CASE f # NoFault /\ t = NoStore /\ Foreign(s, tag)
  <2>1. OfChain(NoStore, tag)
    BY DEF OfChain, NoStore
  <2> QED
    BY <1>4, <1>7, <2>1, NoStoreType DEF KeptBy
<1>8. CASE f # NoFault /\ t \in CutShort(old)
  <2>1. t \in Stores /\ t.stamps = s.stamps /\ t.genesis = None /\ t.header \in {None, s.header}
    BY <1>3, <1>8, CutShortFacts
  <2> QED
    BY <1>8, <2>1 DEF OfChain, KeptBy
<1>9. CASE f # NoFault /\ t \in CutShort(store)
  <2>1. t \in Stores /\ t.stamps = store.stamps /\ t.genesis = None /\ t.header \in {None, store.header}
    BY <1>4, <1>9, CutShortFacts
  <2> QED
    BY <1>4, <1>9, <2>1 DEF OfChain, KeptBy
<1> QED
  BY <1>1, <1>5, <1>6, <1>7, <1>8, <1>9

LEMMA UseCommunityProfileFacts ==
  ASSUME StartupInv, phase \in {"keyed", "up"}, NEW c \in Communities, NEW n \in Networks,
         NEW f \in FaultsToCome, UseCommunityProfile(c, n, memory.testnet, f)
  PROVE  /\ left' \in 0..MaxFaults
         /\ dir' \in Dirs(made) /\ memory' \in Memories(made)
         /\ \/ phase' = "down" /\ memory' = NoMemory
            \/ /\ phase' = "up" /\ memory'.store.here
               /\ memory'.testnet = memory.testnet /\ memory'.identity = memory.identity
         /\ Orderly /\ ~history.pending =>
              /\ dir'.release /\ dir'.marker = dir.marker /\ dir'.vault = dir.vault
              /\ \A c1 \in Communities, n1 \in Networks :
                   /\ dir'.stores[c1][n1].genesis \in {None, TagOf(n1, dir.marker)}
                   /\ dir'.stores[c1][n1].header \in {None, TagOf(n1, dir.marker)}
                   /\ dir'.stores[c1][n1].stamps \subseteq {TagOf(n1, dir.marker)}
                   /\ KeptBy(dir.stores[c1][n1], dir'.stores[c1][n1])
              /\ phase' = "up" =>
                   /\ memory'.community = c /\ memory'.network = n
                   /\ memory'.store = dir'.stores[c][n]
                   /\ memory'.store.genesis = TagOf(n, dir.marker)
                   /\ memory'.store.header = TagOf(n, dir.marker)
<1> DEFINE tag == TagOf(n, memory.testnet)
           old == dir.stores[c][n]
           store == Opened(old, tag)
<1>1. /\ made \in Nat /\ dir \in Dirs(made) /\ memory \in Memories(made)
      /\ memory.testnet \in 0..MaxTime
  BY StartupConstants DEF StartupInv, Typed
<1>2. old \in Stores /\ tag \in 0..MaxTime /\ tag \in Tags
  BY <1>1, TagTypes DEF Dirs, StartupInv, Typed
<1>3. store \in Stores /\ store.here /\ store.genesis = tag
  BY <1>2, OpenedFacts
<1>4. left' \in 0..MaxFaults /\ f \in Faults /\ (f = NoFault \/ (f \in Fault /\ f.kind = kind))
  BY FaultTypes DEF UseCommunityProfile, StartupInv, Typed
<1> HIDE DEF tag, old, store
<1>5. PICK p \in ProfileOutcomes(c, tag, f) :
           IF Fails(f, "profile") THEN dir' = [dir EXCEPT !.profiles[c] = p]
           ELSE \E s \in OpenOutcomes(old, tag, f) :
                  dir' = [dir EXCEPT !.profiles[c] = p, !.stores[c][n] = s]
  BY DEF UseCommunityProfile, tag, old, store
<1>6. p \in Tags \cup {None}
  <2>1. dir.profiles[c] \in Tags \cup {None} /\ Unreadable \in Tags
    BY <1>1, TagTypes DEF Dirs, StartupInv, Typed
  <2> QED
    BY <1>2, <2>1 DEF ProfileOutcomes, Written
\* One store is written, as it was, cut or complete.
<1>7. /\ dir' \in Dirs(made)
      /\ dir'.release = dir.release /\ dir'.marker = dir.marker /\ dir'.vault = dir.vault
      /\ \A c1 \in Communities, n1 \in Networks :
           <<c1, n1>> # <<c, n>> => dir'.stores[c1][n1] = dir.stores[c1][n1]
      /\ OfChain(old, tag) => OfChain(dir'.stores[c][n], tag) /\ KeptBy(old, dir'.stores[c][n])
      /\ f = NoFault => dir'.stores[c][n] = store
  <2>1. CASE Fails(f, "profile")
    <3>1. dir' = [dir EXCEPT !.profiles[c] = p]
      BY <1>5, <2>1
    <3>2. [dir.profiles EXCEPT ![c] = p] \in [Communities -> Tags \cup {None}]
      BY <1>1, <1>6 DEF Dirs
    <3>3. /\ dir' \in Dirs(made) /\ dir'.stores = dir.stores
          /\ dir'.release = dir.release /\ dir'.marker = dir.marker /\ dir'.vault = dir.vault
      BY <1>1, <3>1, <3>2 DEF Dirs
    <3>4. f # NoFault
      BY <2>1 DEF Fails, NoFault
    <3> QED
      BY <3>3, <3>4 DEF old, KeptBy
  <2>2. CASE ~Fails(f, "profile")
    <3>1. PICK s \in OpenOutcomes(old, tag, f) :
               dir' = [dir EXCEPT !.profiles[c] = p, !.stores[c][n] = s]
      BY <1>5, <2>2
    <3>2. /\ s \in Stores /\ (f = NoFault => s = store)
          /\ OfChain(old, tag) => OfChain(s, tag) /\ KeptBy(old, s)
      BY <1>2, <1>4, <3>1, OpenOutcomesFacts DEF store
    <3>3. s \in Stores
      BY <3>2
    <3>4. \/ dir' = [dir EXCEPT !.profiles[c] = p, !.stores[c][n] = s]
          \/ dir' = [dir EXCEPT !.stores[c][n] = s]
      BY <3>1
    <3>5. OneStoreWritten(dir, dir', c, n, s, made)
      BY <1>1, <1>6, <3>3, <3>4, StoreWritten
    <3> QED
      BY <3>2, <3>5 DEF OneStoreWritten
  <2> QED
    BY <2>1, <2>2
<1>8. \/ /\ f.kind = "crash" /\ phase' = "down" /\ memory' = NoMemory
      \/ f.kind = "refused" /\ phase' = "down" /\ memory' = NoMemory
      \/ f.kind = "refused" /\ phase = "up" /\ phase' = "up" /\ memory' = [memory EXCEPT !.network = n]
      \/ /\ f = NoFault /\ phase' = "up"
         /\ memory' = [memory EXCEPT !.community = c, !.network = n, !.store = store]
  BY DEF UseCommunityProfile, Stopped, tag, old, store
<1>9. /\ memory' \in Memories(made)
      /\ \/ phase' = "down" /\ memory' = NoMemory
         \/ /\ phase' = "up" /\ memory'.store.here
            /\ memory'.testnet = memory.testnet /\ memory'.identity = memory.identity
  <2>1. phase = "up" => memory.store.here
    BY DEF StartupInv, Typed
  <2> QED
    BY <1>1, <1>3, <1>8, <2>1, NoMemoryType DEF Memories
<1>10. ASSUME Orderly, ~history.pending
       PROVE  /\ dir'.release /\ dir'.marker = dir.marker /\ dir'.vault = dir.vault
              /\ \A c1 \in Communities, n1 \in Networks :
                   /\ dir'.stores[c1][n1].genesis \in {None, TagOf(n1, dir.marker)}
                   /\ dir'.stores[c1][n1].header \in {None, TagOf(n1, dir.marker)}
                   /\ dir'.stores[c1][n1].stamps \subseteq {TagOf(n1, dir.marker)}
                   /\ KeptBy(dir.stores[c1][n1], dir'.stores[c1][n1])
              /\ phase' = "up" =>
                   /\ memory'.community = c /\ memory'.network = n
                   /\ memory'.store = dir'.stores[c][n]
                   /\ memory'.store.genesis = TagOf(n, dir.marker)
                   /\ memory'.store.header = TagOf(n, dir.marker)
  <2>1. dir.release /\ OfItsRelease(dir) /\ memory.testnet = dir.marker
    BY <1>10 DEF StartupInv, InStep
  <2>2. OfChain(old, tag) /\ tag = TagOf(n, dir.marker)
    BY <2>1 DEF OfItsRelease, OfChain, old, tag
  <2>3. store.genesis = tag /\ store.header = tag
    BY <1>2, <2>2, OpenedFacts DEF store
  <2>5. /\ dir'.stores[c][n].genesis \in {None, tag} /\ dir'.stores[c][n].header \in {None, tag}
        /\ dir'.stores[c][n].stamps \subseteq {tag} /\ KeptBy(old, dir'.stores[c][n])
    BY <1>7, <2>2 DEF OfChain
  <2>6. f.kind # "refused"
    BY <1>4, <1>10 DEF Orderly, NoFault
  <2>7. phase' = "up" =>
          /\ memory'.community = c /\ memory'.network = n
          /\ memory'.store = store /\ dir'.stores[c][n] = store
    BY <1>1, <1>7, <1>8, <2>6 DEF Memories
  <2>8. \A c1 \in Communities, n1 \in Networks :
          /\ dir'.stores[c1][n1].genesis \in {None, TagOf(n1, dir.marker)}
          /\ dir'.stores[c1][n1].header \in {None, TagOf(n1, dir.marker)}
          /\ dir'.stores[c1][n1].stamps \subseteq {TagOf(n1, dir.marker)}
          /\ KeptBy(dir.stores[c1][n1], dir'.stores[c1][n1])
    <3> TAKE c1 \in Communities, n1 \in Networks
    <3>1. CASE <<c1, n1>> = <<c, n>>
      BY <2>2, <2>5, <3>1 DEF old
    <3>2. CASE <<c1, n1>> # <<c, n>>
      BY <1>7, <2>1, <3>2 DEF OfItsRelease, KeptBy
    <3> QED
      BY <3>1, <3>2
  <2> QED
    BY <1>7, <2>1, <2>2, <2>3, <2>7, <2>8
<1> QED
  BY <1>4, <1>7, <1>9, <1>10

\* What the two callers have in common: one of them does so with no reset prepared, the
\* other notes that a prepared reset has been mixed with new state.
LEMMA CommunityProfileStartup ==
  ASSUME StartupInv, phase \in {"keyed", "up"}, NEW c \in Communities, NEW n \in Networks,
         NEW f \in FaultsToCome, UseCommunityProfile(c, n, memory.testnet, f),
         UNCHANGED <<now, made, kind, upgrades>>,
         history' = [history EXCEPT !.mixed = @ \/ history.pending],
         phase = "keyed" => ~history.pending
  PROVE  StartupInv'
<1>1. /\ made \in Nat /\ dir \in Dirs(made) /\ memory \in Memories(made)
      /\ history \in [mixed : BOOLEAN, pending : BOOLEAN, fence : 0..made]
      /\ memory.testnet \in 0..MaxTime /\ memory.identity \in 1..made
  BY StartupConstants DEF StartupInv, Typed
<1>2. history' = [mixed |-> history.mixed \/ history.pending, pending |-> history.pending, fence |-> history.fence]
  BY <1>1
<1>3. history' \in [mixed : BOOLEAN, pending : BOOLEAN, fence : 0..made]
  BY <1>1, <1>2
<1>4. /\ left' \in 0..MaxFaults /\ dir' \in Dirs(made) /\ memory' \in Memories(made)
      /\ \/ phase' = "down" /\ memory' = NoMemory
         \/ /\ phase' = "up" /\ memory'.store.here
            /\ memory'.testnet = memory.testnet /\ memory'.identity = memory.identity
  BY UseCommunityProfileFacts
<1>5. Typed' /\ Idle'
  BY <1>1, <1>2, <1>3, <1>4 DEF StartupInv, Typed, Idle, Dirs, Memories
<1>6. ASSUME Orderly' PROVE Kept'
  <2>1. Orderly /\ ~history.pending
    BY <1>1, <1>2, <1>6 DEF Orderly
  <2>2. /\ dir'.release /\ dir'.marker = dir.marker /\ dir'.vault = dir.vault
        /\ \A c1 \in Communities, n1 \in Networks :
             /\ dir'.stores[c1][n1].genesis \in {None, TagOf(n1, dir.marker)}
             /\ dir'.stores[c1][n1].header \in {None, TagOf(n1, dir.marker)}
             /\ dir'.stores[c1][n1].stamps \subseteq {TagOf(n1, dir.marker)}
             /\ KeptBy(dir.stores[c1][n1], dir'.stores[c1][n1])
        /\ phase' = "up" =>
             /\ memory'.community = c /\ memory'.network = n
             /\ memory'.store = dir'.stores[c][n]
             /\ memory'.store.genesis = TagOf(n, dir.marker)
             /\ memory'.store.header = TagOf(n, dir.marker)
    BY <2>1, UseCommunityProfileFacts
  <2>3. /\ OfItsRelease(dir) /\ memory.testnet = dir.marker /\ memory.identity > history.fence
    BY <2>1 DEF StartupInv, InStep
  <2>4. OfItsRelease(dir)'
    BY <1>2, <2>2, <2>3 DEF OfItsRelease
  <2>5. phase' = "up" => memory'.store.stamps \subseteq {TagOf(n, dir.marker)}
    BY <2>2, <2>3 DEF OfItsRelease
  <2>6. InStep'
    BY <1>2, <1>4, <2>2, <2>3, <2>5 DEF InStep
  <2> QED
    BY <1>2, <2>1, <2>4, <2>6 DEF Kept
<1> QED
  BY <1>5, <1>6 DEF StartupInv, Kept

LEMMA FinishStartStartup ==
  ASSUME StartupInv, NEW n \in Networks, NEW f \in FaultsToCome, FinishStart(n, f)
  PROVE  StartupInv'
<1>1. /\ phase = "keyed" /\ ~history.pending
      /\ history \in [mixed : BOOLEAN, pending : BOOLEAN, fence : 0..made]
      /\ UNCHANGED <<now, made, kind, upgrades, history>>
  BY DEF FinishStart, StartupInv, Typed, Idle
<1>2. CASE UseCommunityProfile(HomeCommunity, n, memory.testnet, f)
  <2>1. history' = [history EXCEPT !.mixed = @ \/ history.pending]
    BY <1>1
  <2> QED
    BY <1>1, <1>2, <2>1, CommunityProfileStartup, StartupConstants
<1>3. CASE Stopped /\ UNCHANGED <<dir, left>>
  <2>1. NoMemory \in Memories(made)
    BY NoMemoryType, StartupConstants DEF StartupInv, Typed
  <2> QED
    BY <1>1, <1>3, <2>1
       DEF StartupInv, Typed, Idle, Orderly, OfItsRelease, MovedAway, InStep, Stopped, Dirs, Memories
<1> QED
  BY <1>2, <1>3 DEF FinishStart

LEMMA SwitchStartup ==
  ASSUME StartupInv, NEW c \in Communities, NEW n \in Networks, NEW f \in FaultsToCome, Switch(c, n, f)
  PROVE  StartupInv'
  BY CommunityProfileStartup DEF Switch

\* An event of the open chain goes to the store that is open; a directory that was
\* moved away stays empty.
LEMMA LocalEventStartup ==
  ASSUME StartupInv, NEW confirmed \in BOOLEAN, LocalEvent(confirmed)
  PROVE  StartupInv'
<1> DEFINE c == memory.community
           n == memory.network
           tag == TagOf(n, memory.testnet)
           stamps == memory.store.stamps \cup {tag}
           early == memory.store.early \/ (memory.store.stamps = {} /\ ~confirmed)
           store == [memory.store EXCEPT !.stamps = stamps, !.early = early]
<1>1. /\ phase = "up" /\ made \in Nat /\ dir \in Dirs(made) /\ memory \in Memories(made)
      /\ memory.testnet \in 0..MaxTime /\ memory.identity \in 1..made /\ memory.store.here
      /\ UNCHANGED <<now, phase, made, kind, left, upgrades, history>>
  BY StartupConstants DEF LocalEvent, StartupInv, Typed
<1>2. c \in Communities /\ n \in Networks /\ memory.store \in Stores /\ tag \in 0..MaxTime
  BY <1>1, TagTypes DEF Memories, StartupInv, Typed
<1> HIDE DEF c, n, tag
<1>3. early \in BOOLEAN
  BY <1>2 DEF Stores
<1>4. store = [memory.store EXCEPT !.stamps = @ \cup {tag},
                                  !.early = @ \/ (memory.store.stamps = {} /\ ~confirmed)]
  OBVIOUS
<1>5. /\ memory' = [memory EXCEPT !.store = store]
      /\ IF dir.stores[c][n].here THEN dir' = [dir EXCEPT !.stores[c][n] = store] ELSE dir' = dir
  <2> HIDE DEF early, stamps, store
  <2> QED
    BY <1>4 DEF LocalEvent, c, n, tag
<1> HIDE DEF early
<1>6. /\ store \in Stores /\ store.here /\ store.genesis = memory.store.genesis
      /\ store.header = memory.store.header /\ store.stamps = stamps
  BY <1>1, <1>2, <1>3 DEF Stores
<1> HIDE DEF store, stamps
<1>7. /\ memory' \in Memories(made) /\ memory'.store = store
      /\ memory'.community = c /\ memory'.network = n
      /\ memory'.testnet = memory.testnet /\ memory'.identity = memory.identity
  BY <1>1, <1>6, <1>5 DEF Memories, c, n
<1>8. CASE ~dir.stores[c][n].here
  <2>1. dir' = dir
    BY <1>5, <1>8
  <2>2. Typed' /\ Idle'
    BY <1>1, <1>6, <1>7, <2>1 DEF StartupInv, Typed, Idle, Dirs, Memories
  <2>3. ASSUME Orderly' PROVE Kept'
    <3>1. Orderly /\ Kept
      BY <1>1, <2>3 DEF StartupInv, Orderly, Kept
    <3>2. stamps \subseteq {tag} /\ store.genesis = tag /\ store.header = tag
      BY <1>1, <1>6, <3>1 DEF Kept, InStep, stamps, tag, n
    <3>3. InStep'
      BY <1>1, <1>6, <1>7, <1>8, <2>1, <3>1, <3>2 DEF Kept, InStep, tag
    <3> QED
      BY <1>1, <2>1, <3>1, <3>3 DEF Kept, OfItsRelease, MovedAway
  <2> QED
    BY <2>2, <2>3 DEF StartupInv, Kept
<1>9. CASE dir.stores[c][n].here
  <2>1. OneStoreWritten(dir, dir', c, n, store, made)
    <3>1. dir' = [dir EXCEPT !.stores[c][n] = store]
      BY <1>5, <1>9
    <3>2. None \in Tags \cup {None}
      OBVIOUS
    <3> QED
      BY <1>1, <1>2, <1>6, <3>1, <3>2, StoreWritten
  <2>2. Typed' /\ Idle'
    BY <1>1, <1>6, <1>7, <2>1 DEF StartupInv, Typed, Idle, Dirs, Memories, OneStoreWritten
  <2>3. ASSUME Orderly' PROVE Kept'
    <3>1. Orderly /\ Kept
      BY <1>1, <2>3 DEF StartupInv, Orderly, Kept
    <3>2. stamps \subseteq {tag} /\ store.genesis = tag /\ store.header = tag
      BY <1>1, <1>6, <3>1 DEF Kept, InStep, stamps, tag, n
    <3>3. ~history.pending
      BY <1>2, <1>9, <3>1, NoStoreType DEF Kept, MovedAway
    <3>4. dir.release /\ OfItsRelease(dir) /\ memory.testnet = dir.marker
      BY <1>1, <3>1, <3>3 DEF Kept, InStep
    <3>5. \A c1 \in Communities, n1 \in Networks :
            /\ dir'.stores[c1][n1].genesis \in {None, TagOf(n1, dir.marker)}
            /\ dir'.stores[c1][n1].header \in {None, TagOf(n1, dir.marker)}
            /\ dir'.stores[c1][n1].stamps \subseteq {TagOf(n1, dir.marker)}
      <4> TAKE c1 \in Communities, n1 \in Networks
      <4>1. CASE <<c1, n1>> = <<c, n>>
        BY <1>6, <2>1, <3>2, <3>4, <4>1 DEF OneStoreWritten, tag
      <4>2. CASE <<c1, n1>> # <<c, n>>
        BY <2>1, <3>4, <4>2 DEF OneStoreWritten, OfItsRelease
      <4> QED
        BY <4>1, <4>2
    <3>6. OfItsRelease(dir)'
      BY <1>1, <2>1, <3>4, <3>5 DEF OneStoreWritten, OfItsRelease
    <3>7. InStep'
      BY <1>1, <1>6, <1>7, <2>1, <3>1, <3>2 DEF Kept, InStep, tag, OneStoreWritten
    <3> QED
      BY <1>1, <3>3, <3>6, <3>7 DEF Kept
  <2> QED
    BY <2>2, <2>3 DEF StartupInv, Kept
<1> QED
  BY <1>8, <1>9

LEMMA ReplaceKeyStartup == ASSUME StartupInv, ReplaceKey PROVE StartupInv'
<1>1. /\ phase = "up" /\ made \in Nat /\ made' = made + 1 /\ made' \in 0..MaxIdentity
      /\ history \in [mixed : BOOLEAN, pending : BOOLEAN, fence : 0..made]
      /\ UNCHANGED <<now, phase, kind, left, upgrades>>
  BY StartupConstants DEF ReplaceKey, StartupInv, Typed
<1>2. dir \in Dirs(made') /\ memory \in Memories(made')
  BY <1>1, LaterTypes DEF StartupInv, Typed
<1>3. /\ dir' \in Dirs(made') /\ dir'.vault = made' /\ dir'.release = dir.release
      /\ dir'.stores = dir.stores /\ dir'.marker = dir.marker
  BY <1>1, <1>2 DEF ReplaceKey, Dirs
<1>4. /\ memory' \in Memories(made') /\ memory'.identity = made'
      /\ memory'.testnet = memory.testnet /\ memory'.store = memory.store
      /\ memory'.community = memory.community /\ memory'.network = memory.network
  BY <1>1, <1>2 DEF ReplaceKey, Memories
<1>5. history' = [mixed |-> history.mixed \/ history.pending, pending |-> history.pending, fence |-> history.fence]
  BY <1>1 DEF ReplaceKey
<1>6. history' \in [mixed : BOOLEAN, pending : BOOLEAN, fence : 0..made']
  BY <1>1, <1>5
<1>7. Typed' /\ Idle'
  BY <1>1, <1>3, <1>4, <1>5, <1>6 DEF StartupInv, Typed, Idle, Dirs, Memories
<1>8. ASSUME Orderly' PROVE Kept'
  <2>1. Orderly /\ ~history.pending
    BY <1>1, <1>5, <1>8 DEF Orderly
  <2>2. dir.release /\ OfItsRelease(dir) /\ InStep
    BY <1>1, <2>1 DEF StartupInv, InStep
  <2>3. made' > history.fence
    BY <1>1
  <2>4. OfItsRelease(dir)'
    BY <1>3, <1>5, <2>2, <2>3 DEF OfItsRelease
  <2>5. InStep'
    BY <1>1, <1>3, <1>4, <1>5, <2>1, <2>2, <2>3 DEF InStep
  <2> QED
    BY <1>5, <2>1, <2>4, <2>5 DEF Kept
<1> QED
  BY <1>7, <1>8 DEF StartupInv, Kept

-----------------------------------------------------------------------------
(* The theorems.                                                           *)

LEMMA NextStartup == ASSUME StartupInv, [Next]_vars PROVE StartupInv'
<1>1. ASSUME NEW f \in FaultsToCome,
             \/ StartWithReset(f) \/ PrepareGenesisReset(f) \/ LoadMarkerAndKey(f)
             \/ \E n \in Networks : FinishStart(n, f) \/ \E c \in Communities : Switch(c, n, f)
      PROVE  StartupInv'
  BY <1>1, StartWithResetStartup, PrepareGenesisResetStartup, LoadMarkerAndKeyStartup,
     FinishStartStartup, SwitchStartup
<1>2. CASE Tick \/ Stop \/ Start \/ Upgrade \/ ReplaceKey \/ \E confirmed \in BOOLEAN : LocalEvent(confirmed)
  BY <1>2, TickStartup, StopStartup, StartStartup, UpgradeStartup, LocalEventStartup, ReplaceKeyStartup
<1>3. CASE UNCHANGED vars
  BY <1>3, StutterStartup
<1> QED
  BY <1>1, <1>2, <1>3 DEF Next

LEMMA StartupInvariant == Spec => []StartupInv
<1>1. Init => StartupInv
  BY InitStartup
<1>2. StartupInv /\ [Next]_vars => StartupInv'
  BY NextStartup
<1> QED
  BY <1>1, <1>2, PTL DEF Spec

\* Every value stays in its type, and a service that runs has a key and an open store:
\* AlphaService::init ends only with both.
THEOREM StartupTyped == Spec => []TypeOK
<1>1. StartupInv => TypeOK
  <2> SUFFICES ASSUME StartupInv PROVE TypeOK
    OBVIOUS
  <2>1. made \in 0..MaxIdentity /\ dir \in Dirs(made)
    BY DEF StartupInv, Typed
  <2>2. {None, Unreadable} \cup 1..made \subseteq {None} \cup Unreadable..MaxIdentity
    BY <2>1, StartupConstants DEF None, Unreadable
  <2>3. /\ dir.vault \in {None} \cup Unreadable..MaxIdentity
        /\ \A c \in Communities, n \in Networks :
             dir.stores[c][n] \in [here : BOOLEAN, genesis : Tags \cup {None}, header : Tags \cup {None},
                                   stamps : SUBSET (0..MaxTime), early : BOOLEAN]
    BY <2>1, <2>2 DEF Dirs, Stores
  <2>4. phase = "up" => memory.identity \in 1..MaxIdentity /\ memory.store.here
    BY <2>1, StartupConstants DEF StartupInv, Typed
  <2> QED
    BY <2>1, <2>3, <2>4 DEF StartupInv, Typed, TypeOK, Dirs
<1> QED
  BY <1>1, StartupInvariant, PTL

\* Wherever a stop cuts a reset or a start, the service that runs afterwards has a
\* store of the chain that its marker and its network name.
THEOREM StoreStaysOnItsChain == Spec => []StoreOnItsChain
<1>1. StartupInv => StoreOnItsChain
  BY DEF StartupInv, InStep, StoreOnItsChain
<1> QED
  BY <1>1, StartupInvariant, PTL

\* The service that runs after a reset has a key made since, because the release tag is
\* recorded when the old vault has been moved away.
THEOREM ResetsRenewTheIdentity == Spec => []ResetRenewsIdentity
<1>1. StartupInv => ResetRenewsIdentity
  BY DEF StartupInv, InStep, ResetRenewsIdentity
<1> QED
  BY <1>1, StartupInvariant, PTL

\* A directory that carries the release's tag has a marker that can be read, because
\* the tag is recorded when the marker has been written.
THEOREM MarkerStaysReadable == Spec => []MarkerReadable
<1>1. StartupInv => MarkerReadable
  BY DEF StartupInv, InStep, OfItsRelease, MarkerReadable
<1> QED
  BY <1>1, StartupInvariant, PTL

LEMMA StepKeepsEvents ==
  ASSUME StartupInv, [Next]_vars, Orderly, dir.release, ~history'.pending,
         NEW c \in Communities, NEW n \in Networks
  PROVE  KeptBy(dir.stores[c][n], dir'.stores[c][n])
<1>0. /\ history \in [mixed : BOOLEAN, pending : BOOLEAN, fence : 0..made]
      /\ dir \in Dirs(made) /\ memory \in Memories(made) /\ made \in Nat
  BY StartupConstants DEF StartupInv, Typed
<1>1. ASSUME NEW f \in FaultsToCome, StartWithReset(f) \/ PrepareGenesisReset(f) PROVE FALSE
  BY <1>0, <1>1 DEF StartWithReset, PrepareGenesisReset
<1>2. ASSUME NEW f \in FaultsToCome, LoadMarkerAndKey(f) PROVE dir'.stores = dir.stores
  BY <1>0, <1>2 DEF LoadMarkerAndKey, Dirs
<1>3. ASSUME NEW f \in FaultsToCome, NEW n1 \in Networks, NEW c1 \in Communities,
             FinishStart(n1, f) \/ Switch(c1, n1, f)
      PROVE  KeptBy(dir.stores[c][n], dir'.stores[c][n])
  <2>1. ~history.pending /\ phase \in {"keyed", "up"}
    BY <1>0, <1>3 DEF FinishStart, Switch
  <2>2. CASE \E c2 \in Communities : UseCommunityProfile(c2, n1, memory.testnet, f)
    BY <2>1, <2>2, UseCommunityProfileFacts
  <2>3. CASE UNCHANGED dir
    BY <2>3 DEF KeptBy
  <2> QED
    BY <1>3, <2>2, <2>3, StartupConstants DEF FinishStart, Switch
<1>4. ASSUME NEW confirmed \in BOOLEAN, LocalEvent(confirmed)
      PROVE  KeptBy(dir.stores[c][n], dir'.stores[c][n])
  <2> DEFINE c1 == memory.community
             n1 == memory.network
             store == [memory.store EXCEPT !.stamps = @ \cup {TagOf(memory.network, memory.testnet)},
                                           !.early = @ \/ (memory.store.stamps = {} /\ ~confirmed)]
  <2>1. /\ c1 \in Communities /\ n1 \in Networks /\ memory.store \in Stores
        /\ store.stamps = memory.store.stamps \cup {TagOf(n1, memory.testnet)}
    BY <1>0 DEF Memories, Stores
  <2>2. IF dir.stores[c1][n1].here THEN dir' = [dir EXCEPT !.stores[c1][n1] = store] ELSE dir' = dir
    BY <1>4 DEF LocalEvent
  <2>3. dir.stores[c1][n1].here => dir.stores[c1][n1] = memory.store
    BY <1>4 DEF StartupInv, InStep, LocalEvent
  <2> HIDE DEF c1, n1, store
  <2>4. CASE dir.stores[c1][n1].here
    <3>1. dir'.stores[c][n] = IF c = c1 /\ n = n1 THEN store ELSE dir.stores[c][n]
      BY <1>0, <2>1, <2>2, <2>4 DEF Dirs
    <3> QED
      BY <2>1, <2>3, <2>4, <3>1 DEF KeptBy
  <2> QED
    BY <2>2, <2>4 DEF KeptBy
<1>5. CASE Upgrade
  BY <1>0, <1>5 DEF Upgrade, Dirs, KeptBy
<1>6. CASE ReplaceKey
  BY <1>0, <1>6 DEF ReplaceKey, Dirs, KeptBy
<1>7. CASE Tick \/ Stop \/ Start \/ UNCHANGED vars
  BY <1>7 DEF Tick, Stop, Start, vars, KeptBy
<1> QED
  BY <1>1, <1>2, <1>3, <1>4, <1>5, <1>6, <1>7, StartupConstants DEF Next, KeptBy

\* No start, no switch of the community and no stop within either takes events out of a
\* store of the release, as long as its genesis block is empty and its block log is
\* there: only then are its merkle root and hash the release's.
THEOREM StartsKeepEvents == Spec => EventsKept
<1> DEFINE Keeps ==
      Orderly /\ dir'.marker = dir.marker =>
        \A c \in Communities, n \in Networks :
          LET s == dir.stores[c][n]
          IN  \/ s.stamps \subseteq dir'.stores[c][n].stamps
              \/ ~dir.release \/ history'.pending
              \/ s.early \/ s.genesis = None
<1>1. StartupInv /\ [Next]_vars => Keeps
  BY StepKeepsEvents DEF KeptBy
<1>2. StartupInv /\ [Next]_vars => [Keeps]_vars
  BY <1>1
<1> HIDE DEF Keeps
<1>3. Spec => [][Keeps]_vars
  BY <1>2, StartupInvariant, PTL DEF Spec
<1> QED
  BY <1>3 DEF EventsKept, Keeps
=============================================================================
