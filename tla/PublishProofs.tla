---------------------------- MODULE PublishProofs ----------------------------
(***************************************************************************)
(* Proofs about the publish path, for any events and any order of          *)
(* switches: the implementation of Outbox whether or not switches fail,    *)
(* and, when they do not fail, that no event leaves on another chain's     *)
(* network.  The second half is about the events that a node makes itself  *)
(* (SyncTick), for any number of blocks, operations and restarts, any      *)
(* drift the store accepts and any clock.  The two specifications share no *)
(* variable: Spec is that of Publish, SyncSpec that of SyncTick.           *)
(***************************************************************************)
EXTENDS Publish, SyncTick, TLAPS

\* What is queued was made by this node, and a node that is stopped holds nothing.
QueueOfMadeEvents ==
  /\ \A e \in node.queue : carries[e] # NoChain
  /\ ~node.running => node.queue = {}

\* What is queued waits on its own chain's network.
QueueOnOwnChain == \A e \in node.queue : carries[e] = node.network

\* The open store, the chain validation compares with and the settings agree.
SettingsAgree == open = ChainFor(mode, test_mode) /\ chain_id = open

-----------------------------------------------------------------------------
(* The operators of the node and of a switch.                              *)

Nodes == [running : BOOLEAN, network : Chains, queue : SUBSET LocalEvents, seen : SUBSET Events]

LEMMA ChainForType == \A m, t : ChainFor(m, t) \in Chains
  BY DEF ChainFor, Chains

\* A switch replaces the node by one without a queue on the new network, which
\* runs only if a transport is on.
LEMMA NodeAfterSwitchFacts ==
  ASSUME NEW enabled, NEW network \in Chains
  PROVE  /\ NodeAfterSwitch(enabled, network) \in Nodes
         /\ NodeAfterSwitch(enabled, network).queue = {}
         /\ NodeAfterSwitch(enabled, network).running =>
              NodeAfterSwitch(enabled, network).network = network
  BY DEF NodeAfterSwitch, RestartedNode, Started, Stopped, StoppedNode, Nodes, Chains

\* A restart empties the queue and puts a running node on the network asked for.
LEMMA RestartedNodeFacts ==
  ASSUME NEW n \in Nodes, NEW enabled, NEW network \in Chains
  PROVE  /\ RestartedNode(n, enabled, network) \in Nodes
         /\ RestartedNode(n, enabled, network).queue = {}
         /\ RestartedNode(n, enabled, network).running =>
              RestartedNode(n, enabled, network).network = network
  BY DEF RestartedNode, Started, Stopped, Nodes

LEMMA StoppedFacts ==
  ASSUME NEW n \in Nodes
  PROVE  /\ Stopped(n) \in Nodes
         /\ Stopped(n).queue = {}
         /\ ~Stopped(n).running
  BY DEF Stopped, Nodes

LEMMA QueuedFacts ==
  ASSUME NEW n \in Nodes, NEW e \in LocalEvents
  PROVE  /\ Queued(n, e) \in Nodes
         /\ Queued(n, e).queue \in {n.queue, n.queue \cup {e}}
         /\ Queued(n, e).running = n.running
         /\ Queued(n, e).network = n.network
         /\ ~n.running => Queued(n, e) = n
  BY DEF Queued, Nodes, Events

LEMMA HandedOutFacts ==
  ASSUME NEW n \in Nodes
  PROVE  /\ HandedOut(n) \in Nodes
         /\ n.running => HandedOut(n).queue = {}
         /\ ~n.running => HandedOut(n) = n
         /\ HandedOut(n).running = n.running
         /\ HandedOut(n).network = n.network
  BY DEF HandedOut, Nodes

\* Whatever becomes of a switch, the stores stay typed and the node is the old
\* one or a new one on the new network.
LEMMA SwitchFacts ==
  ASSUME TypeOK, NEW enabled, NEW network \in Chains,
         UseCommunityProfile(enabled, network)
  PROVE  /\ open' \in Chains /\ chain_id' \in Chains
         /\ stores' \in [Chains -> SUBSET Events]
         /\ node' \in {node, NodeAfterSwitch(enabled, network)}
         /\ ~SwitchMayFail =>
              /\ open' = network /\ chain_id' = network
              /\ node' = NodeAfterSwitch(enabled, network)
<1>1. \A kept \in RecoveredStore(stores[network], network) : kept \subseteq Events
  BY DEF RecoveredStore, TypeOK
<1>2. ASSUME NEW kept \in SUBSET Events
      PROVE  [stores EXCEPT ![network] = kept] \in [Chains -> SUBSET Events]
  BY DEF TypeOK
<1>3. stores[network] \subseteq Events
  BY DEF TypeOK
<1> QED
  BY <1>1, <1>2, <1>3 DEF UseCommunityProfile, TypeOK

-----------------------------------------------------------------------------
(* Types, and the queue: these hold even if switches fail.                 *)

QueueInv == TypeOK /\ QueueOfMadeEvents

\* Every step keeps the types and the queue's relation to what was made.
LEMMA QueueInvStep == QueueInv /\ [Next]_vars => QueueInv'
<1> SUFFICES ASSUME QueueInv, [Next]_vars PROVE QueueInv'
  OBVIOUS
<1> USE PublishConstants DEF QueueInv
<1>n. node \in Nodes /\ node.queue \subseteq LocalEvents
  BY DEF TypeOK, Nodes
<1>s. ASSUME NEW enabled, NEW network \in Chains, UseCommunityProfile(enabled, network),
             UNCHANGED carries
      PROVE  /\ node' \in Nodes /\ QueueOfMadeEvents'
             /\ open' \in Chains /\ chain_id' \in Chains
             /\ stores' \in [Chains -> SUBSET Events]
  BY <1>n, <1>s, SwitchFacts, NodeAfterSwitchFacts DEF QueueOfMadeEvents
<1>1. ASSUME NEW m \in {"Tor", "I2P"}, NEW enabled \in BOOLEAN, SetTransportEnabled(m, enabled)
      PROVE  QueueInv'
  <2>1. transports' \subseteq {"Tor", "I2P"} /\ UNCHANGED <<test_mode, carries, published>>
    BY <1>1 DEF SetTransportEnabled, TypeOK
  <2>2. CASE transports' = {}
    BY <1>1, <1>n, <2>1, <2>2, StoppedFacts DEF SetTransportEnabled, TypeOK, QueueOfMadeEvents, Nodes
  <2>3. CASE transports' # {}
    <3>1. mode' \in {"Tor", "I2P"}
      BY <1>1, <2>1, <2>3 DEF SetTransportEnabled, ModeAfterToggle, TypeOK
    <3>2. UseCommunityProfile(transports', ChainFor(mode', test_mode))
      BY <1>1, <2>3 DEF SetTransportEnabled
    <3> QED
      BY <1>s, <2>1, <3>1, <3>2, ChainForType DEF TypeOK, Nodes
  <2> QED
    BY <2>2, <2>3
<1>2. ASSUME NEW m \in {"Tor", "I2P"}, SetActiveTransport(m)
      PROVE  QueueInv'
  BY <1>2, <1>s, ChainForType DEF SetActiveTransport, TypeOK, Nodes
<1>3. ASSUME NEW t \in BOOLEAN, SetAlphaTestMode(t)
      PROVE  QueueInv'
  BY <1>3, <1>s, ChainForType DEF SetAlphaTestMode, TypeOK, Nodes
<1>4. ASSUME NEW m \in {"Tor", "I2P"}, NEW t \in BOOLEAN, Restart(m, t)
      PROVE  QueueInv'
  <2>1. open' \in Chains /\ chain_id' \in Chains
    BY <1>4, ChainForType DEF Restart
  <2>2. stores' \in [Chains -> SUBSET Events]
    BY <1>4, <2>1 DEF Restart, RecoveredStore, TypeOK
  <2>3. node' \in Nodes /\ node'.queue = {}
    BY <1>4, <2>1 DEF Restart, Started, StoppedNode, Nodes
  <2> QED
    BY <1>4, <2>1, <2>2, <2>3 DEF Restart, TypeOK, QueueOfMadeEvents, Nodes
<1>m. ASSUME NEW e \in LocalEvents, carries[e] = NoChain, Made(e)
      PROVE  /\ carries' \in [Events -> Chains \cup {NoChain}]
             /\ carries'[e] \in Chains
             /\ \A x \in Events : x # e => carries'[x] = carries[x]
  BY <1>m, ChainForType DEF Made, TypeOK, Events
<1>a. ASSUME NEW e \in Events, Appended(e)
      PROVE  stores' \in [Chains -> SUBSET Events]
  BY <1>a DEF Appended, TypeOK
<1>5. ASSUME NEW e \in LocalEvents, LocalEvent(e)
      PROVE  QueueInv'
  <2>1. e \in Events /\ carries[e] = NoChain /\ Made(e)
    BY <1>5 DEF LocalEvent, Events
  <2>2. stores' \in [Chains -> SUBSET Events]
    BY <1>5, <1>a, <2>1 DEF LocalEvent, TypeOK
  <2>3. node' \in {node, Queued(node, e)}
    BY <1>5 DEF LocalEvent
  <2>4. node' \in Nodes /\ QueueOfMadeEvents'
    BY <1>n, <1>m, <2>1, <2>3, QueuedFacts DEF QueueOfMadeEvents, Events
  <2> QED
    BY <1>5, <1>m, <2>1, <2>2, <2>4 DEF LocalEvent, settings, TypeOK, Nodes
<1>6. ASSUME NEW e \in LocalEvents, SyncTickWithClaim(e)
      PROVE  QueueInv'
  <2>1. e \in Events /\ carries[e] = NoChain /\ Made(e)
    BY <1>6 DEF SyncTickWithClaim, Events
  <2>2. stores' \in [Chains -> SUBSET Events]
    BY <1>6, <1>a, <2>1 DEF SyncTickWithClaim, TypeOK
  <2>3. node' \in {node, Queued(node, e), HandedOut(Queued(node, e))}
    BY <1>6 DEF SyncTickWithClaim, Flush
  <2>4. node' \in Nodes /\ QueueOfMadeEvents'
    <3>1. CASE node' \in {node, Queued(node, e)}
      BY <1>n, <1>m, <2>1, <3>1, QueuedFacts DEF QueueOfMadeEvents, Events
    <3>2. CASE node' = HandedOut(Queued(node, e))
      <4>1. Queued(node, e) \in Nodes
        BY <1>n, QueuedFacts
      <4>2. node' \in Nodes /\ node'.queue = {}
        BY <1>n, <3>2, <4>1, QueuedFacts, HandedOutFacts DEF QueueOfMadeEvents
      <4> QED
        BY <4>2 DEF QueueOfMadeEvents
    <3> QED
      BY <2>3, <3>1, <3>2
  <2>5. published' \subseteq LocalEvents \X Chains
    <3>1. Queued(node, e) \in Nodes
      BY <1>n, QueuedFacts
    <3> QED
      BY <1>6, <3>1 DEF SyncTickWithClaim, Flush, TypeOK, Nodes
  <2> QED
    BY <1>6, <1>m, <2>1, <2>2, <2>4, <2>5 DEF SyncTickWithClaim, settings, TypeOK, Nodes
<1>7. CASE SyncTick
  <2>1. node' \in Nodes /\ QueueOfMadeEvents'
    BY <1>7, <1>n, HandedOutFacts DEF SyncTick, Flush, QueueOfMadeEvents
  <2>2. published' \subseteq LocalEvents \X Chains
    BY <1>7, <1>n DEF SyncTick, Flush, TypeOK, Nodes
  <2> QED
    BY <1>7, <2>1, <2>2 DEF SyncTick, settings, TypeOK, Nodes
<1>8. ASSUME NEW e \in RemoteEvents, NEW chain \in Chains, IngestRemoteEvent(e, chain)
      PROVE  QueueInv'
  <2>1. e \in Events /\ e \notin LocalEvents
    BY DEF Events
  <2>2. stores' \in [Chains -> SUBSET Events]
    BY <1>8, <1>a, <2>1 DEF IngestRemoteEvent, TypeOK
  <2>3. /\ node' \in Nodes
        /\ node'.queue = node.queue /\ node'.running = node.running
    BY <1>8, <1>n, <2>1 DEF IngestRemoteEvent, Nodes
  <2>4. /\ carries' \in [Events -> Chains \cup {NoChain}]
        /\ \A x \in LocalEvents : carries'[x] = carries[x]
    BY <1>8, <2>1 DEF IngestRemoteEvent, TypeOK, Events
  <2>5. QueueOfMadeEvents'
    BY <1>n, <2>3, <2>4 DEF QueueOfMadeEvents
  <2> QED
    BY <1>8, <2>2, <2>3, <2>4, <2>5 DEF IngestRemoteEvent, settings, TypeOK, Nodes
<1>9. CASE RestartNetwork
  BY <1>9, <1>n, ChainForType, RestartedNodeFacts
  DEF RestartNetwork, settings, TypeOK, QueueOfMadeEvents, Nodes
<1>10. CASE UNCHANGED vars
  BY <1>10 DEF vars, settings, TypeOK, QueueOfMadeEvents
<1> QED
  BY <1>1, <1>2, <1>3, <1>4, <1>5, <1>6, <1>7, <1>8, <1>9, <1>10 DEF Next

LEMMA QueueInvInit == Init => QueueInv
<1> SUFFICES ASSUME Init PROVE QueueInv
  OBVIOUS
<1>1. node \in Nodes /\ node.queue = {} /\ open \in Chains
  BY ChainForType DEF Init, Started, StoppedNode, Nodes
<1> QED
  BY <1>1 DEF Init, QueueInv, TypeOK, QueueOfMadeEvents, Nodes

\* Every variable keeps its type, whatever switches and failures happen
\* (AlphaService, P2PNode).
THEOREM PublishTyped == Spec => []TypeOK
<1>1. QueueInv => TypeOK
  BY DEF QueueInv
<1> QED
  BY <1>1, QueueInvInit, QueueInvStep, PTL DEF Spec

-----------------------------------------------------------------------------
(* Chains: what holds as long as no switch is cut short.                   *)

ChainInv ==
  /\ QueueInv
  /\ SettingsAgree
  /\ NodeOnOpenChain
  /\ QueueOnOwnChain
  /\ PublishedOnOwnChain
  /\ OwnEventsInOwnStore

\* A switch that is not cut short moves store, settings and node together and
\* brings no event into the store it opens.
LEMMA WholeSwitch ==
  ASSUME ~SwitchMayFail, ChainInv, NEW enabled,
         UNCHANGED <<carries, published>>,
         UseCommunityProfile(enabled, ChainFor(mode', test_mode'))
  PROVE  /\ SettingsAgree' /\ NodeOnOpenChain' /\ QueueOnOwnChain'
         /\ PublishedOnOwnChain' /\ OwnEventsInOwnStore'
<1> DEFINE network == ChainFor(mode', test_mode')
<1>1. network \in Chains
  BY ChainForType
<1>2. open' = network /\ chain_id' = network /\ node' = NodeAfterSwitch(enabled, network)
  BY <1>1, SwitchFacts DEF ChainInv, QueueInv
<1>3. SettingsAgree' /\ NodeOnOpenChain' /\ QueueOnOwnChain'
  BY <1>1, <1>2, NodeAfterSwitchFacts DEF SettingsAgree, NodeOnOpenChain, QueueOnOwnChain
<1>4. PublishedOnOwnChain'
  BY DEF ChainInv, PublishedOnOwnChain
<1>5. \A c \in Chains : stores'[c] \subseteq stores[c]
  BY <1>1 DEF UseCommunityProfile, RecoveredStore, ChainInv, QueueInv, TypeOK
<1> QED
  BY <1>3, <1>4, <1>5 DEF ChainInv, OwnEventsInOwnStore

\* An event this node makes carries the chain of the open store, and no event
\* made before changes its own.
LEMMA MadeFacts ==
  ASSUME ChainInv, NEW e \in LocalEvents, carries[e] = NoChain, Made(e)
  PROVE  /\ carries'[e] = open /\ open \in Chains
         /\ \A x \in Events : x # e => carries'[x] = carries[x]
         /\ e \notin node.queue
         /\ \A p \in published : p[1] # e /\ p[1] \in LocalEvents
         /\ \A c \in Chains : e \notin stores[c]
<1> USE PublishConstants DEF ChainInv, QueueInv
<1>1. e \in Events /\ open \in Chains /\ open = ChainFor(mode, test_mode)
  BY DEF Events, TypeOK, SettingsAgree
<1>2. carries'[e] = open /\ \A x \in Events : x # e => carries'[x] = carries[x]
  BY <1>1 DEF Made, TypeOK
<1>3. e \notin node.queue
  BY DEF QueueOfMadeEvents
<1>4. \A p \in published : p[1] \in LocalEvents /\ p[2] \in Chains /\ p[2] = carries[p[1]]
  BY DEF TypeOK, PublishedOnOwnChain
<1>5. \A c \in Chains : e \notin stores[c]
  BY DEF OwnEventsInOwnStore
<1> QED
  BY <1>1, <1>2, <1>3, <1>4, <1>5

\* Appending the event just made keeps the node's own events in their stores.
LEMMA OwnEventAppended ==
  ASSUME ChainInv, NEW e \in LocalEvents, carries[e] = NoChain, Made(e),
         Appended(e) \/ UNCHANGED stores
  PROVE  OwnEventsInOwnStore'
<1>1. \A c \in Chains : stores'[c] \subseteq (IF c = open THEN stores[c] \cup {e} ELSE stores[c])
  BY DEF Appended, ChainInv, QueueInv, TypeOK
<1>2. LocalEvents \subseteq Events
  BY DEF Events
<1> QED
  BY <1>1, <1>2, MadeFacts DEF ChainInv, OwnEventsInOwnStore

\* As long as no switch is cut short, every step keeps events, stores, queue and
\* network on the same chain.
LEMMA ChainInvStep ==
  ASSUME ~SwitchMayFail
  PROVE  ChainInv /\ [Next]_vars => ChainInv'
<1> SUFFICES ASSUME ChainInv, [Next]_vars PROVE ChainInv'
  OBVIOUS
<1> USE PublishConstants
<1>q. QueueInv'
  BY QueueInvStep DEF ChainInv
<1>n. node \in Nodes /\ node.queue \subseteq LocalEvents /\ LocalEvents \subseteq Events
  BY DEF ChainInv, QueueInv, TypeOK, Nodes, Events
<1>1. ASSUME NEW m \in {"Tor", "I2P"}, NEW enabled \in BOOLEAN, SetTransportEnabled(m, enabled)
      PROVE  ChainInv'
  <2>1. CASE transports' = {}
    <3>1. /\ UNCHANGED <<mode, test_mode, open, chain_id, stores, carries, published>>
          /\ node'.queue = {} /\ ~node'.running
      BY <1>1, <1>n, <2>1, StoppedFacts DEF SetTransportEnabled
    <3> QED
      BY <1>q, <3>1 DEF ChainInv, SettingsAgree, NodeOnOpenChain, QueueOnOwnChain,
                        PublishedOnOwnChain, OwnEventsInOwnStore
  <2>2. CASE transports' # {}
    BY <1>1, <1>q, <2>2, WholeSwitch DEF SetTransportEnabled, ChainInv
  <2> QED
    BY <2>1, <2>2
<1>2. ASSUME NEW m \in {"Tor", "I2P"}, SetActiveTransport(m)
      PROVE  ChainInv'
  BY <1>2, <1>q, WholeSwitch DEF SetActiveTransport, ChainInv
<1>3. ASSUME NEW t \in BOOLEAN, SetAlphaTestMode(t)
      PROVE  ChainInv'
  BY <1>3, <1>q, WholeSwitch DEF SetAlphaTestMode, ChainInv
<1>4. ASSUME NEW m \in {"Tor", "I2P"}, NEW t \in BOOLEAN, Restart(m, t)
      PROVE  ChainInv'
  <2>1. open' \in Chains /\ SettingsAgree'
    BY <1>4, ChainForType DEF Restart, SettingsAgree
  <2>2. NodeOnOpenChain' /\ QueueOnOwnChain'
    BY <1>4 DEF Restart, Started, StoppedNode, NodeOnOpenChain, QueueOnOwnChain
  <2>3. \A c \in Chains : stores'[c] \subseteq stores[c]
    BY <1>4, <2>1 DEF Restart, RecoveredStore, ChainInv, QueueInv, TypeOK
  <2>4. PublishedOnOwnChain' /\ OwnEventsInOwnStore'
    BY <1>4, <2>3 DEF Restart, ChainInv, PublishedOnOwnChain, OwnEventsInOwnStore
  <2> QED
    BY <1>q, <2>1, <2>2, <2>4 DEF ChainInv
<1>5. ASSUME NEW e \in LocalEvents, LocalEvent(e)
      PROVE  ChainInv'
  <2>1. carries[e] = NoChain /\ Made(e) /\ UNCHANGED <<settings, open, chain_id, published>>
    BY <1>5 DEF LocalEvent
  <2>2. OwnEventsInOwnStore'
    BY <1>5, <2>1, OwnEventAppended DEF LocalEvent
  <2>3. SettingsAgree'
    BY <2>1 DEF ChainInv, SettingsAgree, settings
  <2>4. node' \in {node, Queued(node, e)}
    BY <1>5 DEF LocalEvent
  <2>5. NodeOnOpenChain' /\ QueueOnOwnChain'
    BY <1>n, <2>1, <2>4, MadeFacts, QueuedFacts DEF ChainInv, NodeOnOpenChain, QueueOnOwnChain
  <2>6. PublishedOnOwnChain'
    BY <1>n, <2>1, MadeFacts DEF ChainInv, PublishedOnOwnChain
  <2> QED
    BY <1>q, <2>2, <2>3, <2>5, <2>6 DEF ChainInv
<1>6. ASSUME NEW e \in LocalEvents, SyncTickWithClaim(e)
      PROVE  ChainInv'
  <2>1. carries[e] = NoChain /\ Made(e) /\ UNCHANGED <<settings, open, chain_id>>
    BY <1>6 DEF SyncTickWithClaim
  <2>2. OwnEventsInOwnStore'
    BY <1>6, <2>1, OwnEventAppended DEF SyncTickWithClaim
  <2>3. SettingsAgree'
    BY <2>1 DEF ChainInv, SettingsAgree, settings
  <2> DEFINE q == Queued(node, e)
  <2>4. /\ q \in Nodes /\ q.queue \subseteq node.queue \cup {e}
        /\ q.running = node.running /\ q.network = node.network
        /\ ~q.running => q.queue = {}
    BY <1>n, QueuedFacts DEF ChainInv, QueueInv, QueueOfMadeEvents
  <2>5. \A x \in q.queue : q.running /\ carries'[x] = q.network
    BY <1>n, <2>1, <2>4, MadeFacts DEF ChainInv, QueueInv, NodeOnOpenChain, QueueOnOwnChain
  <2>6. node' \in {node, q, HandedOut(q)}
    BY <1>6 DEF SyncTickWithClaim, Flush
  <2>7. NodeOnOpenChain'
    BY <1>n, <2>1, <2>4, <2>6, HandedOutFacts DEF ChainInv, NodeOnOpenChain
  <2>8. QueueOnOwnChain'
    <3>1. CASE node' = node
      BY <1>n, <2>1, <3>1, MadeFacts DEF ChainInv, QueueOnOwnChain
    <3>2. CASE node' = q
      BY <2>5, <3>2 DEF QueueOnOwnChain
    <3>3. CASE node' = HandedOut(q)
      BY <2>4, <2>5, <3>3, HandedOutFacts DEF QueueOnOwnChain
    <3> QED
      BY <2>6, <3>1, <3>2, <3>3
  <2>9. PublishedOnOwnChain'
    <3>1. published' \subseteq published \cup {<<x, q.network>> : x \in q.queue}
      BY <1>6 DEF SyncTickWithClaim, Flush
    <3> QED
      BY <1>n, <2>1, <2>5, <3>1, MadeFacts DEF ChainInv, PublishedOnOwnChain
  <2> QED
    BY <1>q, <2>2, <2>3, <2>7, <2>8, <2>9 DEF ChainInv
<1>7. CASE SyncTick
  <2>1. UNCHANGED <<settings, open, chain_id, stores, carries>> /\ Flush(node)
    BY <1>7 DEF SyncTick
  <2>2. NodeOnOpenChain' /\ QueueOnOwnChain'
    BY <1>n, <2>1, HandedOutFacts DEF Flush, ChainInv, NodeOnOpenChain, QueueOnOwnChain
  <2>3. PublishedOnOwnChain'
    BY <2>1 DEF Flush, ChainInv, PublishedOnOwnChain, QueueOnOwnChain
  <2> QED
    BY <1>q, <2>1, <2>2, <2>3 DEF ChainInv, settings, SettingsAgree, OwnEventsInOwnStore
<1>8. ASSUME NEW e \in RemoteEvents, NEW chain \in Chains, IngestRemoteEvent(e, chain)
      PROVE  ChainInv'
  <2>1. e \in Events /\ e \notin LocalEvents
    BY DEF Events
  <2>2. \A x \in LocalEvents : carries'[x] = carries[x]
    BY <1>8, <1>n, <2>1 DEF IngestRemoteEvent, ChainInv, QueueInv, TypeOK
  <2>3. node'.queue = node.queue /\ node'.running = node.running /\ node'.network = node.network
    BY <1>8, <1>n DEF IngestRemoteEvent, Nodes
  <2>4. \A c \in Chains : stores'[c] \subseteq stores[c] \cup {e}
    BY <1>8 DEF IngestRemoteEvent, Appended, ChainInv, QueueInv, TypeOK
  <2>5. UNCHANGED <<settings, open, chain_id, published>>
    BY <1>8 DEF IngestRemoteEvent
  <2>6. SettingsAgree' /\ NodeOnOpenChain' /\ QueueOnOwnChain'
    BY <1>n, <2>2, <2>3, <2>5 DEF ChainInv, settings, SettingsAgree, NodeOnOpenChain, QueueOnOwnChain
  <2>7. OwnEventsInOwnStore'
    BY <2>1, <2>2, <2>4 DEF ChainInv, OwnEventsInOwnStore
  <2>8. PublishedOnOwnChain'
    BY <2>2, <2>5 DEF ChainInv, QueueInv, TypeOK, PublishedOnOwnChain
  <2> QED
    BY <1>q, <2>6, <2>7, <2>8 DEF ChainInv
<1>9. CASE RestartNetwork
  BY <1>9, <1>q, <1>n, ChainForType, RestartedNodeFacts
  DEF RestartNetwork, settings, ChainInv, SettingsAgree, NodeOnOpenChain, QueueOnOwnChain,
      PublishedOnOwnChain, OwnEventsInOwnStore
<1>10. CASE UNCHANGED vars
  BY <1>10, <1>q DEF vars, settings, ChainInv, SettingsAgree, NodeOnOpenChain, QueueOnOwnChain,
                    PublishedOnOwnChain, OwnEventsInOwnStore
<1> QED
  BY <1>1, <1>2, <1>3, <1>4, <1>5, <1>6, <1>7, <1>8, <1>9, <1>10 DEF Next

LEMMA ChainInvInit == Init => ChainInv
<1> SUFFICES ASSUME Init PROVE ChainInv
  OBVIOUS
<1>1. node.queue = {} /\ node.network = open
  BY DEF Init, Started, StoppedNode
<1>2. \A c \in Chains : stores[c] = {}
  BY DEF Init
<1> QED
  BY <1>1, <1>2, QueueInvInit
  DEF Init, ChainInv, SettingsAgree, NodeOnOpenChain, QueueOnOwnChain, PublishedOnOwnChain,
      OwnEventsInOwnStore

\* As long as no switch is cut short, an event leaves only on the network of its
\* own chain, however the transports are switched before the tick that flushes it
\* (make_event, use_community_profile, P2PNode::sync_tick).
THEOREM PublishedOnlyOnOwnChain ==
  ASSUME ~SwitchMayFail
  PROVE  Spec => []PublishedOnOwnChain
<1>1. ChainInv => PublishedOnOwnChain
  BY DEF ChainInv
<1>2. ChainInv /\ [Next]_vars => ChainInv'
  BY ChainInvStep
<1> QED
  BY <1>1, <1>2, ChainInvInit, PTL DEF Spec

\* As long as no switch is cut short, an event this node makes is stored with its
\* own chain only, so no start resets a store for it.
THEOREM OwnEventsStayHome ==
  ASSUME ~SwitchMayFail
  PROVE  Spec => []OwnEventsInOwnStore
<1>1. ChainInv => OwnEventsInOwnStore
  BY DEF ChainInv
<1>2. ChainInv /\ [Next]_vars => ChainInv'
  BY ChainInvStep
<1> QED
  BY <1>1, <1>2, ChainInvInit, PTL DEF Spec

-----------------------------------------------------------------------------
(* The abstract outbox, whether or not switches are cut short.             *)

MadeEvents == {e \in LocalEvents : carries[e] # NoChain}
SentEvents == {p[1] : p \in published}

\* A flush empties the queue and sends just what was in it.
LEMMA FlushSends ==
  ASSUME NEW n \in Nodes, ~n.running => n.queue = {}, Flush(n)
  PROVE  node'.queue = {} /\ SentEvents' = SentEvents \cup n.queue
<1>1. node'.queue = {}
  BY HandedOutFacts DEF Flush
<1>2. published' = published \cup {<<e, n.network>> : e \in n.queue}
  BY DEF Flush
<1>3. {p[1] : p \in {<<e, n.network>> : e \in n.queue}} = n.queue
  <2>1. ASSUME NEW p \in {<<e, n.network>> : e \in n.queue} PROVE p[1] \in n.queue
    OBVIOUS
  <2>2. ASSUME NEW e \in n.queue
        PROVE  e \in {p[1] : p \in {<<x, n.network>> : x \in n.queue}}
    <3>1. <<e, n.network>> \in {<<x, n.network>> : x \in n.queue} /\ <<e, n.network>>[1] = e
      OBVIOUS
    <3> QED
      BY <3>1
  <2> QED
    BY <2>1, <2>2
<1> DEFINE fresh == {<<e, n.network>> : e \in n.queue}
<1>4. {p[1] : p \in fresh} = n.queue
  BY <1>3
<1>5. published' = published \cup fresh
  BY <1>2
<1> HIDE DEF fresh
<1>6. {p[1] : p \in published \cup fresh} = {p[1] : p \in published} \cup {p[1] : p \in fresh}
  OBVIOUS
<1> QED
  BY <1>1, <1>4, <1>5, <1>6 DEF SentEvents

\* Every step of the publish path is a step of the outbox or leaves it alone.
LEMMA OutboxStep == QueueInv /\ [Next]_vars => [Published!Next]_(Published!vars)
<1> SUFFICES ASSUME QueueInv, [Next]_vars
             PROVE  Published!Next \/ UNCHANGED <<MadeEvents, node.queue, SentEvents>>
  BY DEF Published!vars, MadeEvents, SentEvents
<1> USE PublishConstants DEF QueueInv
<1>n. node \in Nodes /\ node.queue \subseteq LocalEvents /\ LocalEvents \subseteq Events
  BY DEF TypeOK, Nodes, Events
<1>l. ASSUME UNCHANGED <<carries, published>>, node'.queue \in {node.queue, {}}
      PROVE  Published!Lose \/ UNCHANGED <<MadeEvents, node.queue, SentEvents>>
  BY <1>l DEF Published!Lose, MadeEvents, SentEvents
<1>s. ASSUME NEW enabled, NEW network \in Chains, UseCommunityProfile(enabled, network)
      PROVE  node'.queue \in {node.queue, {}}
  BY <1>s, SwitchFacts, NodeAfterSwitchFacts
<1>1. ASSUME NEW m \in {"Tor", "I2P"}, NEW enabled \in BOOLEAN, SetTransportEnabled(m, enabled)
      PROVE  node'.queue \in {node.queue, {}} /\ UNCHANGED <<carries, published>>
  BY <1>1, <1>n, <1>s, StoppedFacts, ChainForType DEF SetTransportEnabled
<1>2. ASSUME NEW m \in {"Tor", "I2P"}, SetActiveTransport(m)
      PROVE  node'.queue \in {node.queue, {}} /\ UNCHANGED <<carries, published>>
  BY <1>2, <1>s, ChainForType DEF SetActiveTransport
<1>3. ASSUME NEW t \in BOOLEAN, SetAlphaTestMode(t)
      PROVE  node'.queue \in {node.queue, {}} /\ UNCHANGED <<carries, published>>
  BY <1>3, <1>s, ChainForType DEF SetAlphaTestMode
<1>4. ASSUME NEW m \in {"Tor", "I2P"}, NEW t \in BOOLEAN, Restart(m, t)
      PROVE  node'.queue \in {node.queue, {}} /\ UNCHANGED <<carries, published>>
  BY <1>4 DEF Restart, Started, StoppedNode
<1>m. ASSUME NEW e \in LocalEvents, carries[e] = NoChain, Made(e)
      PROVE  MadeEvents' = MadeEvents \cup {e} /\ e \notin MadeEvents
  BY <1>m, <1>n, ChainForType DEF Made, MadeEvents, TypeOK
<1>5. ASSUME NEW e \in LocalEvents, LocalEvent(e)
      PROVE  Published!Next
  <2>1. /\ carries[e] = NoChain /\ Made(e) /\ UNCHANGED published
        /\ node'.queue \in {node.queue, node.queue \cup {e}}
    BY <1>5, <1>n, QueuedFacts DEF LocalEvent
  <2>2. Published!Make(e)
    BY <1>m, <2>1 DEF Published!Make, MadeEvents
  <2> QED
    BY <2>2 DEF Published!Next
<1>6. ASSUME NEW e \in LocalEvents, SyncTickWithClaim(e)
      PROVE  Published!Next
  <2>1. carries[e] = NoChain /\ Made(e)
    BY <1>6 DEF SyncTickWithClaim
  <2>2. CASE node' \in {node, Queued(node, e)} /\ UNCHANGED published
    <3>1. node'.queue \in {node.queue, node.queue \cup {e}}
      BY <1>n, <2>2, QueuedFacts
    <3>2. Published!Make(e)
      BY <1>m, <2>1, <2>2, <3>1 DEF Published!Make, MadeEvents
    <3> QED
      BY <3>2 DEF Published!Next
  <2>3. CASE Flush(Queued(node, e))
    <3> DEFINE q == Queued(node, e)
    <3>1. /\ q \in Nodes /\ q.queue \in {node.queue, node.queue \cup {e}}
          /\ ~q.running => q.queue = {} /\ node.queue = {}
      BY <1>n, QueuedFacts DEF QueueOfMadeEvents
    <3>2. node'.queue = {}
      BY <2>3, <3>1, FlushSends
    <3>3. SentEvents' = SentEvents \cup q.queue
      BY <2>3, <3>1, FlushSends
    <3>4. Published!Send
      <4> DEFINE fresh == {e}
      <4>1. fresh \in SUBSET (LocalEvents \ MadeEvents) /\ MadeEvents' = MadeEvents \cup fresh
        BY <1>m, <2>1
      <4>2. SentEvents' \in {SentEvents \cup node.queue, SentEvents \cup node.queue \cup fresh}
        BY <3>1, <3>3
      <4> HIDE DEF fresh
      <4> QED
        BY <3>2, <4>1, <4>2 DEF Published!Send, MadeEvents, SentEvents
    <3> QED
      BY <3>4 DEF Published!Next
  <2> QED
    BY <1>6, <2>2, <2>3 DEF SyncTickWithClaim
<1>7. CASE SyncTick
  <2>1. UNCHANGED MadeEvents
    BY <1>7 DEF SyncTick, MadeEvents
  <2>2. node'.queue = {} /\ SentEvents' = SentEvents \cup node.queue
    BY <1>7, <1>n, FlushSends DEF SyncTick, QueueOfMadeEvents
  <2>3. Published!Send
    <3>1. {} \in SUBSET (LocalEvents \ MadeEvents) /\ MadeEvents' = MadeEvents \cup {}
      BY <2>1
    <3>2. SentEvents' \in {SentEvents \cup node.queue, SentEvents \cup node.queue \cup {}}
      BY <2>2
    <3> QED
      BY <2>2, <3>1, <3>2 DEF Published!Send, MadeEvents, SentEvents
  <2> QED
    BY <2>3 DEF Published!Next
<1>8. ASSUME NEW e \in RemoteEvents, NEW chain \in Chains, IngestRemoteEvent(e, chain)
      PROVE  UNCHANGED <<MadeEvents, node.queue, SentEvents>>
  <2>1. \A x \in LocalEvents : carries'[x] = carries[x]
    BY <1>8, <1>n DEF IngestRemoteEvent, TypeOK
  <2>2. node'.queue = node.queue
    BY <1>8, <1>n DEF IngestRemoteEvent, Nodes
  <2> QED
    BY <1>8, <2>1, <2>2 DEF IngestRemoteEvent, MadeEvents, SentEvents
<1>9. CASE RestartNetwork
  <2>1. node'.queue = {} /\ UNCHANGED <<carries, published>>
    BY <1>9, <1>n, ChainForType, RestartedNodeFacts DEF RestartNetwork
  <2>2. node'.queue \in {node.queue, {}}
    BY <2>1
  <2> QED
    BY <1>l, <2>1, <2>2 DEF Published!Next
<1>10. CASE UNCHANGED vars
  BY <1>10 DEF vars, MadeEvents, SentEvents
<1> QED
  BY <1>l, <1>1, <1>2, <1>3, <1>4, <1>5, <1>6, <1>7, <1>8, <1>9, <1>10 DEF Next, Published!Next

\* The publish path implements the abstract outbox: an event is made once, leaves
\* at most once, and waiting events leave or are lost together, even if switches
\* are cut short (append_locally_and_queue, sync_tick, P2PNode).
THEOREM PublishImplementsOutbox == Spec => OutboxSpec
<1>1. Init => Published!Init
  BY PublishConstants DEF Init, Started, StoppedNode, Published!Init, Events
<1> QED
  BY <1>1, QueueInvInit, QueueInvStep, OutboxStep, PTL DEF Spec, OutboxSpec, Published!Spec

-----------------------------------------------------------------------------
(* Sequences without repetitions.                                          *)

Once(s) == \A p, q \in DOMAIN s : s[p] = s[q] => p = q

LEMMA EmptyFacts == ASSUME NEW S PROVE <<>> \in Seq(S) /\ Once(<<>>) /\ Range(<<>>) = {}
  BY DEF Once, Range

LEMMA AppendFacts ==
  ASSUME NEW S, NEW s \in Seq(S), NEW e \in S
  PROVE  /\ Append(s, e) \in Seq(S)
         /\ Range(Append(s, e)) = Range(s) \cup {e}
         /\ Once(s) /\ e \notin Range(s) => Once(Append(s, e))
<1> DEFINE t == Append(s, e)
<1>1. /\ t \in Seq(S) /\ DOMAIN s = 1..Len(s) /\ Len(s) \in Nat /\ DOMAIN t = 1..(Len(s) + 1)
      /\ \A i \in 1..Len(s) : t[i] = s[i]
      /\ t[Len(s) + 1] = e
  OBVIOUS
<1> HIDE DEF t
<1>2. \A i \in DOMAIN t : i \in DOMAIN s \/ i = Len(s) + 1
  BY <1>1
<1>3. Range(t) = Range(s) \cup {e}
  BY <1>1, <1>2 DEF Range
<1>4. ASSUME Once(s), e \notin Range(s) PROVE Once(t)
  BY <1>1, <1>2, <1>4 DEF Once, Range
<1> QED
  BY <1>1, <1>3, <1>4 DEF t

LEMMA ConcatFacts ==
  ASSUME NEW S, NEW s \in Seq(S), NEW t \in Seq(S)
  PROVE  /\ s \o t \in Seq(S)
         /\ Range(s \o t) = Range(s) \cup Range(t)
         /\ Once(s) /\ Once(t) /\ Range(s) \cap Range(t) = {} => Once(s \o t)
<1> DEFINE u == s \o t
<1>1. /\ u \in Seq(S) /\ DOMAIN s = 1..Len(s) /\ DOMAIN t = 1..Len(t) /\ Len(s) \in Nat /\ Len(t) \in Nat
      /\ DOMAIN u = 1..(Len(s) + Len(t))
      /\ \A i \in 1..Len(s) : u[i] = s[i]
      /\ \A i \in 1..Len(t) : u[Len(s) + i] = t[i]
  OBVIOUS
<1> HIDE DEF u
<1>2. \A i \in DOMAIN u : \/ i \in DOMAIN s /\ u[i] = s[i]
                          \/ i > Len(s) /\ i - Len(s) \in DOMAIN t /\ u[i] = t[i - Len(s)]
  <2> TAKE i \in DOMAIN u
  <2>1. CASE i <= Len(s)
    BY <1>1, <2>1
  <2>2. CASE i > Len(s)
    <3>1. i - Len(s) \in 1..Len(t) /\ Len(s) + (i - Len(s)) = i
      BY <1>1, <2>2
    <3> QED
      BY <1>1, <2>2, <3>1
  <2> QED
    BY <1>1, <2>1, <2>2
<1>3. Range(u) = Range(s) \cup Range(t)
  <2>1. Range(u) \subseteq Range(s) \cup Range(t)
    BY <1>2 DEF Range
  <2>2. Range(s) \subseteq Range(u)
    BY <1>1 DEF Range
  <2>3. ASSUME NEW i \in DOMAIN t PROVE t[i] \in Range(u)
    <3>1. Len(s) + i \in DOMAIN u /\ u[Len(s) + i] = t[i]
      BY <1>1, <2>3
    <3> QED
      BY <3>1 DEF Range
  <2> QED
    BY <2>1, <2>2, <2>3 DEF Range
<1>4. ASSUME Once(s), Once(t), Range(s) \cap Range(t) = {} PROVE Once(u)
  <2> SUFFICES ASSUME NEW p \in DOMAIN u, NEW q \in DOMAIN u, u[p] = u[q] PROVE p = q
    BY DEF Once
  <2>1. p \in Int /\ q \in Int /\ Len(s) \in Int
    BY <1>1
  <2>2. \A i \in DOMAIN s, j \in DOMAIN t : s[i] # t[j]
    BY <1>4 DEF Range
  <2>3. CASE p \in DOMAIN s /\ u[p] = s[p]
    BY <1>2, <1>4, <2>2, <2>3 DEF Once
  <2>4. CASE p > Len(s) /\ p - Len(s) \in DOMAIN t /\ u[p] = t[p - Len(s)]
    <3>1. q > Len(s) /\ q - Len(s) \in DOMAIN t /\ u[q] = t[q - Len(s)]
      BY <1>2, <2>2, <2>4
    <3>2. p - Len(s) = q - Len(s)
      BY <1>4, <2>4, <3>1 DEF Once
    <3> QED
      BY <2>1, <3>2
  <2> QED
    BY <1>2, <2>3, <2>4
<1> QED
  BY <1>1, <1>3, <1>4 DEF u

-----------------------------------------------------------------------------
(* The inductive invariant.                                                *)

Typed ==
  /\ confirmed \in 0..MaxBlocks /\ claimed \subseteq 1..MaxBlocks
  /\ made \in Seq(OwnEvents) /\ queue \in Seq(OwnEvents) /\ handed_out \in Seq(OwnEvents)
  /\ attempts \in 0..MaxAttempts

\* The blocks still to claim were unclaimed when the tick listed them, and are so now:
\* the process does nothing else during a tick.
ListedUnclaimed ==
  /\ todo \subseteq (1..MaxBlocks) \ claimed
  /\ ~ticking => todo = {}

\* A block claimed here is on record as claimed, and operations are numbered.
Recorded ==
  /\ \A e \in Range(made) : e.kind = "claim" => e.number \in claimed
  /\ \A e \in Range(made) : e.kind = "user" => e.number <= attempts

\* An event is made once; it is queued or handed out, once and not both.
Apart ==
  /\ Once(made) /\ Once(queue) /\ Once(handed_out)
  /\ Range(queue) \cap Range(handed_out) = {}
  /\ Range(queue) \cup Range(handed_out) \subseteq Range(made)

SyncInv == Typed /\ ListedUnclaimed /\ Recorded /\ Apart

-----------------------------------------------------------------------------
(* Each action preserves the invariant.                                    *)

LEMMA InitSync == SyncInit => SyncInv
<1> SUFFICES ASSUME SyncInit PROVE SyncInv
  OBVIOUS
<1>1. <<>> \in Seq(OwnEvents) /\ Once(<<>>) /\ Range(<<>>) = {}
  BY EmptyFacts
<1> QED
  BY <1>1, SyncTickConstants DEF SyncInit, SyncInv, Typed, ListedUnclaimed, Recorded, Apart

\* An event that was not made before joins the log, and the queue or not.
LEMMA MadeFresh ==
  ASSUME Typed, Apart, NEW e \in OwnEvents, e \notin Range(made),
         made' = Append(made, e), queue' = queue \/ queue' = Append(queue, e), handed_out' = handed_out
  PROVE  /\ made' \in Seq(OwnEvents) /\ queue' \in Seq(OwnEvents) /\ handed_out' \in Seq(OwnEvents)
         /\ Range(made') = Range(made) \cup {e}
         /\ Apart'
<1>1. /\ made' \in Seq(OwnEvents) /\ Range(made') = Range(made) \cup {e} /\ Once(made')
  BY AppendFacts DEF Typed, Apart
<1>2. e \notin Range(queue) /\ e \notin Range(handed_out)
  BY DEF Apart
<1>3. /\ Append(queue, e) \in Seq(OwnEvents) /\ Range(Append(queue, e)) = Range(queue) \cup {e}
      /\ Once(Append(queue, e))
  BY <1>2, AppendFacts DEF Typed, Apart
<1>4. queue' \in Seq(OwnEvents) /\ Once(queue') /\ Range(queue') \subseteq Range(queue) \cup {e}
  BY <1>3 DEF Typed, Apart
<1> QED
  BY <1>1, <1>2, <1>4 DEF Typed, Apart

LEMMA ClaimNextSync == ASSUME SyncInv, ClaimNext PROVE SyncInv'
<1>1. PICK block \in todo :
        \/ /\ made' = Append(made, Claim(block))
           /\ claimed' = claimed \cup {block}
           /\ queue' = Append(queue, Claim(block))
           /\ todo' = todo \ {block}
           /\ UNCHANGED ticking
        \/ /\ ticking' = FALSE /\ todo' = {}
           /\ UNCHANGED <<made, claimed, queue>>
  BY DEF ClaimNext
<1>2. UNCHANGED <<confirmed, handed_out, attempts>>
  BY DEF ClaimNext, bounds
<1>3. CASE ticking' = FALSE /\ todo' = {} /\ UNCHANGED <<made, claimed, queue>>
  BY <1>2, <1>3 DEF SyncInv, Typed, ListedUnclaimed, Recorded, Apart
<1>4. CASE /\ made' = Append(made, Claim(block)) /\ claimed' = claimed \cup {block}
           /\ queue' = Append(queue, Claim(block)) /\ todo' = todo \ {block}
           /\ UNCHANGED ticking
  <2>1. block \in 1..MaxBlocks /\ block \notin claimed /\ ticking
    BY DEF SyncInv, ListedUnclaimed, ClaimNext
  <2>2. Claim(block) \in OwnEvents /\ Claim(block).kind = "claim" /\ Claim(block).number = block
    BY <2>1 DEF OwnEvents, Claim
  <2>3. Claim(block) \notin Range(made)
    BY <2>1, <2>2 DEF SyncInv, Recorded
  <2>4. /\ made' \in Seq(OwnEvents) /\ queue' \in Seq(OwnEvents) /\ handed_out' \in Seq(OwnEvents)
        /\ Range(made') = Range(made) \cup {Claim(block)} /\ Apart'
    BY <1>2, <1>4, <2>2, <2>3, MadeFresh DEF SyncInv
  <2>5. Recorded'
    BY <1>2, <1>4, <2>2, <2>4 DEF SyncInv, Recorded
  <2> QED
    BY <1>2, <1>4, <2>1, <2>4, <2>5 DEF SyncInv, Typed, ListedUnclaimed
<1> QED
  BY <1>1, <1>3, <1>4

LEMMA UserOperationSync == ASSUME SyncInv, UserOperation PROVE SyncInv'
<1>1. /\ attempts < MaxAttempts /\ attempts' = attempts + 1 /\ ~ticking
      /\ UNCHANGED <<confirmed, claimed, todo, ticking, handed_out>>
  BY DEF UserOperation, tick
<1>2. attempts \in Nat /\ attempts' \in 0..MaxAttempts /\ attempts' \in 1..MaxAttempts
  BY <1>1, SyncTickConstants DEF SyncInv, Typed
<1> DEFINE e == UserEvent(attempts')
<1>3. e \in OwnEvents /\ e.kind = "user" /\ e.number = attempts'
  BY <1>2 DEF OwnEvents, UserEvent
<1>4. e \notin Range(made)
  BY <1>1, <1>2, <1>3 DEF SyncInv, Recorded
<1>5. \A x \in Range(made) : x \in OwnEvents
  BY DEF SyncInv, Typed, Range
<1>6. \A x \in OwnEvents : x.kind \in {"claim", "user"} /\ x.number \in Int
  BY SyncTickConstants DEF OwnEvents, Claim, UserEvent
<1> HIDE DEF e
<1>7. CASE UNCHANGED <<made, queue>>
  BY <1>1, <1>2, <1>5, <1>6, <1>7 DEF SyncInv, Typed, ListedUnclaimed, Recorded, Apart
<1>8. CASE made' = Append(made, e) /\ (queue' = queue \/ queue' = Append(queue, e))
  <2>1. /\ made' \in Seq(OwnEvents) /\ queue' \in Seq(OwnEvents) /\ handed_out' \in Seq(OwnEvents)
        /\ Range(made') = Range(made) \cup {e} /\ Apart'
    BY <1>1, <1>3, <1>4, <1>8, MadeFresh DEF SyncInv
  <2>2. Recorded'
    BY <1>1, <1>2, <1>3, <1>5, <1>6, <2>1 DEF SyncInv, Recorded
  <2> QED
    BY <1>1, <1>2, <2>1, <2>2 DEF SyncInv, Typed, ListedUnclaimed
<1> QED
  BY <1>7, <1>8 DEF UserOperation, e

LEMMA TickEndSync == ASSUME SyncInv, TickEnd PROVE SyncInv'
<1>1. /\ todo = {} /\ ticking' = FALSE /\ UNCHANGED <<confirmed, claimed, made, todo, attempts>>
  BY DEF TickEnd, store, bounds
<1>2. CASE UNCHANGED <<queue, handed_out>>
  BY <1>1, <1>2 DEF SyncInv, Typed, ListedUnclaimed, Recorded, Apart
<1>3. CASE handed_out' = handed_out \o queue /\ queue' = <<>>
  <2>1. /\ handed_out' \in Seq(OwnEvents) /\ Range(handed_out') = Range(handed_out) \cup Range(queue)
        /\ Once(handed_out')
    BY <1>3, ConcatFacts DEF SyncInv, Typed, Apart
  <2>2. queue' \in Seq(OwnEvents) /\ Once(queue') /\ Range(queue') = {}
    BY <1>3, EmptyFacts
  <2> QED
    BY <1>1, <2>1, <2>2 DEF SyncInv, Typed, ListedUnclaimed, Recorded, Apart
<1> QED
  BY <1>2, <1>3 DEF TickEnd, Flushed

LEMMA OthersSync ==
  ASSUME SyncInv,
         \/ Clock \/ TickStart \/ Lock \/ NetworkRestart \/ ProcessRestart \/ UNCHANGED sync_vars
         \/ \E b \in 1..MaxBlocks : RemoteClaim(b)
  PROVE  SyncInv'
<1>1. CASE Clock \/ Lock \/ UNCHANGED sync_vars
  <2>1. UNCHANGED <<confirmed, claimed, made, todo, ticking, queue, handed_out, attempts>>
    BY <1>1 DEF Clock, Lock, sync_vars, store, tick, bounds
  <2> QED
    BY <2>1 DEF SyncInv, Typed, ListedUnclaimed, Recorded, Apart
<1>2. CASE TickStart
  <2>1. /\ confirmed' \in 0..MaxBlocks /\ ticking' = TRUE
        /\ todo' \subseteq (1..MaxBlocks) \ claimed
        /\ UNCHANGED <<claimed, made, queue, handed_out, attempts>>
    BY <1>2, SyncTickConstants DEF TickStart, Claimable, bounds, SyncInv, Typed
  <2> QED
    BY <2>1 DEF SyncInv, Typed, ListedUnclaimed, Recorded, Apart
<1>3. CASE NetworkRestart \/ ProcessRestart
  <2>1. /\ queue' = <<>> /\ UNCHANGED <<confirmed, claimed, made, handed_out, attempts>>
        /\ UNCHANGED <<todo, ticking>> \/ (todo' = {} /\ ticking' = FALSE)
    BY <1>3 DEF NetworkRestart, ProcessRestart, store, tick, bounds
  <2>2. queue' \in Seq(OwnEvents) /\ Once(queue') /\ Range(queue') = {}
    BY <2>1, EmptyFacts
  <2> QED
    BY <2>1, <2>2 DEF SyncInv, Typed, ListedUnclaimed, Recorded, Apart
<1>4. ASSUME NEW b \in 1..MaxBlocks, RemoteClaim(b) PROVE SyncInv'
  <2>1. /\ todo = {} /\ claimed' = claimed \cup {b}
        /\ UNCHANGED <<confirmed, made, todo, ticking, queue, handed_out, attempts>>
    BY <1>4 DEF RemoteClaim, tick, bounds, SyncInv, ListedUnclaimed
  <2> QED
    BY <2>1 DEF SyncInv, Typed, ListedUnclaimed, Recorded, Apart
<1> QED
  BY <1>1, <1>2, <1>3, <1>4

LEMMA SyncInvariant == SyncSpec => []SyncInv
<1>1. SyncInit => SyncInv
  BY InitSync
<1>2. SyncInv /\ [SyncNext]_sync_vars => SyncInv'
  BY ClaimNextSync, UserOperationSync, TickEndSync, OthersSync DEF SyncNext
<1> QED
  BY <1>1, <1>2, PTL DEF SyncSpec

-----------------------------------------------------------------------------
(* The theorems about SyncTick.                                            *)

\* However ticks are cut by restarts and rejected timestamps, and whatever claims
\* arrive from other nodes, no block is claimed twice here.
THEOREM NodeClaimsOnce == SyncSpec => []ClaimedOnceByNode
<1>1. SyncInv => ClaimedOnceByNode
  BY DEF SyncInv, Apart, Once, ClaimedOnceByNode
<1> QED
  BY <1>1, SyncInvariant, PTL

\* Whatever is queued, flushed or dropped, the network is handed no event twice, and
\* only events that the store accepted.
THEOREM HandedOutOnce == SyncSpec => []PublishedOnce
<1>1. SyncInv => PublishedOnce
  BY DEF SyncInv, Apart, Once, Range, PublishedOnce
<1> QED
  BY <1>1, SyncInvariant, PTL
=============================================================================
