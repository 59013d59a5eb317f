------------------------------- MODULE Publish -------------------------------
(***************************************************************************)
(* How AlphaService publishes events through the P2P node while the user   *)
(* switches transports: each switch changes the chain, and with it the     *)
(* store that is open and the node.                                        *)
(*                                                                         *)
(* Tor is the mainnet, I2P and the alpha test mode are the testnet.  The   *)
(* stores of the two chains lie in different directories.  What replay     *)
(* makes of an event is not modelled: a validation fails if the store      *)
(* holds an event of another chain, and may fail for any other reason.     *)
(* One community; its stores and the node are switched by                  *)
(* use_community_profile.                                                  *)
(***************************************************************************)
EXTENDS Integers

CONSTANTS
  LocalEvents,     \* events this node may make
  RemoteEvents,    \* events other nodes may send
  NoChain,
  SwitchMayFail    \* whether a file operation may fail during a switch

Chains == {"mainnet", "testnet"}
Events == LocalEvents \cup RemoteEvents

ASSUME PublishConstants ==
  /\ LocalEvents \cap RemoteEvents = {}
  /\ NoChain \notin Chains
  /\ SwitchMayFail \in BOOLEAN

VARIABLES
  transports, \* the enabled ones: tor_enabled_, i2p_enabled_
  mode,       \* active_mode_
  test_mode,  \* alpha_test_mode_
  open,       \* the chain whose store is open
  chain_id,   \* the store's chain_id_, which validation compares
  stores,     \* the events in the store of each chain
  carries,    \* the chain an event was made for, NoChain before
  node,       \* the P2P node: running, network, outbound queue, seen ids
  published   \* pairs of an event and the network it was handed out on

settings == <<transports, mode, test_mode>>
vars == <<settings, open, chain_id, stores, carries, node, published>>

ChainFor(m, t) == IF t \/ m = "I2P" THEN "testnet" ELSE "mainnet"

-----------------------------------------------------------------------------
(* The P2P node.                                                           *)

StoppedNode == [running |-> FALSE, network |-> "mainnet", queue |-> {}, seen |-> {}]

Started(n, network) == [n EXCEPT !.running = TRUE, !.network = network]

Stopped(n) == [n EXCEPT !.running = FALSE, !.queue = {}]

Queued(n, e) ==
  IF n.running /\ e \notin n.seen
  THEN [n EXCEPT !.queue = @ \cup {e}, !.seen = @ \cup {e}]
  ELSE n

\* Mutant: the node's queue is handed out and kept.
HandedOutOnly(n) == n

\* The node's share of sync_tick; nothing if it does not run.
HandedOut(n) == IF n.running THEN [n EXCEPT !.queue = {}] ELSE n

-----------------------------------------------------------------------------
(* Switching.  restart_network starts the node only if a transport is on.  *)

RestartedNode(n, enabled, network) ==
  IF enabled = {} THEN Stopped(n) ELSE Started(Stopped(n), network)

\* Mutant: the peer state is not reset, the node only restarted.
NodeAfterSwitchKept(enabled, network) == [node EXCEPT !.running = enabled # {}, !.network = network]

NodeAfterSwitch(enabled, network) == RestartedNode(StoppedNode, enabled, network)

ForeignIn(events, chain) == \E e \in events : carries[e] # chain

\* A validation that fails at the end of a switch may roll the store back or
\* reset it; a store with foreign events is always reset.
RecoveredStore(events, chain) ==
  IF ForeignIn(events, chain) THEN {{}} ELSE SUBSET events

\* use_community_profile, whole or cut short by a failing file operation: the
\* profile, the new store's directory, anything after the new store was loaded
\* and perhaps reset, or the peers file, which is saved last.
UseCommunityProfile(enabled, network) ==
  \/ /\ open' = network /\ chain_id' = network
     /\ \E kept \in RecoveredStore(stores[network], network) :
          stores' = [stores EXCEPT ![network] = kept]
     /\ node' = NodeAfterSwitch(enabled, network)
  \/ /\ SwitchMayFail
     /\ chain_id' \in {chain_id, network}
     /\ UNCHANGED <<open, stores, node>>
  \/ /\ SwitchMayFail
     /\ chain_id' = network /\ open' = network
     /\ \E kept \in {stores[network], {}} :
          stores' = [stores EXCEPT ![network] = kept]
     /\ node' \in {node, NodeAfterSwitch(enabled, network)}

ModeAfterToggle(m, enabled) ==
  IF m \in enabled \/ enabled = {} THEN m ELSE CHOOSE other \in enabled : TRUE

SetTransportEnabled(m, enabled) ==
  /\ transports' = IF enabled THEN transports \cup {m} ELSE transports \ {m}
  /\ IF transports' = {}
     THEN /\ node' = Stopped(node)
          /\ UNCHANGED <<mode, open, chain_id, stores>>
     ELSE /\ mode' = ModeAfterToggle(mode, transports')
          /\ UseCommunityProfile(transports', ChainFor(mode', test_mode))
  /\ UNCHANGED <<test_mode, carries, published>>

SetActiveTransport(m) ==
  /\ m \in transports
  /\ mode' = m
  /\ UseCommunityProfile(transports, ChainFor(m, test_mode))
  /\ UNCHANGED <<transports, test_mode, carries, published>>

\* Mutant: the test mode restarts the network and leaves the store open.
SetAlphaTestModeOnNodeOnly(t) ==
  /\ test_mode' = t
  /\ node' = RestartedNode(node, transports, ChainFor(mode, t))
  /\ UNCHANGED <<transports, mode, open, chain_id, stores, carries, published>>

SetAlphaTestMode(t) ==
  /\ test_mode' = t
  /\ UseCommunityProfile(transports, ChainFor(mode, t))
  /\ UNCHANGED <<transports, mode, carries, published>>

\* Unlocking the wallet, taking a key from a backup and reading the peers file again
\* restart the node, which drops the queue and keeps the seen ids.
RestartNetwork ==
  /\ node' = RestartedNode(node, transports, ChainFor(mode, test_mode))
  /\ UNCHANGED <<settings, open, chain_id, stores, carries, published>>

\* A new process: both transports are on, the node is new, the stores remain.
Restart(m, t) ==
  /\ transports' = {"Tor", "I2P"} /\ mode' = m /\ test_mode' = t
  /\ open' = ChainFor(m, t) /\ chain_id' = open'
  /\ \E kept \in RecoveredStore(stores[open'], open') :
       stores' = [stores EXCEPT ![open'] = kept]
  /\ node' = Started(StoppedNode, open')
  /\ UNCHANGED <<carries, published>>

-----------------------------------------------------------------------------
(* Events.                                                                 *)

\* make_event stamps the chain of the active mode, whichever store is open.
Made(e) == carries' = [carries EXCEPT ![e] = ChainFor(mode, test_mode)]

Appended(e) == stores' = [stores EXCEPT ![open] = @ \cup {e}]

\* append_locally_and_queue: an event that is rejected is never made again, and
\* only one that passed validation is queued.
LocalEvent(e) ==
  /\ carries[e] = NoChain
  /\ Made(e)
  /\ \/ UNCHANGED <<stores, node>>
     \/ Appended(e) /\ UNCHANGED node
     \/ /\ Appended(e)
        /\ \A x \in stores'[open] : carries'[x] = chain_id
        /\ node' = Queued(node, e)
  /\ UNCHANGED <<settings, open, chain_id, published>>

Flush(n) ==
  /\ node' = HandedOut(n)
  /\ published' = published \cup
       {<<e, n.network>> : e \in (IF n.running THEN n.queue ELSE {})}

\* sync_tick without claims: the periodic validation's result is not used.
SyncTick ==
  /\ Flush(node)
  /\ UNCHANGED <<settings, open, chain_id, stores, carries>>

\* sync_tick with a claim, which is queued before it is validated; the queue is
\* flushed only after a successful validation.
SyncTickWithClaim(e) ==
  /\ carries[e] = NoChain
  /\ Made(e)
  /\ \/ UNCHANGED <<stores, node, published>>
     \/ Appended(e) /\ node' = Queued(node, e) /\ UNCHANGED published
     \/ /\ Appended(e)
        /\ \A x \in stores'[open] : carries'[x] = chain_id
        /\ Flush(Queued(node, e))
  /\ UNCHANGED <<settings, open, chain_id>>

\* ingest_remote_event: seen first, then appended or rejected.
IngestRemoteEvent(e, chain) ==
  /\ node.running /\ e \notin node.seen
  /\ carries[e] \in {NoChain, chain}
  /\ carries' = [carries EXCEPT ![e] = chain]
  /\ node' = [node EXCEPT !.seen = @ \cup {e}]
  /\ Appended(e) \/ UNCHANGED stores
  /\ UNCHANGED <<settings, open, chain_id, published>>

Init ==
  /\ transports = {"Tor", "I2P"}
  /\ mode \in {"Tor", "I2P"} /\ test_mode \in BOOLEAN
  /\ open = ChainFor(mode, test_mode) /\ chain_id = open
  /\ stores = [c \in Chains |-> {}]
  /\ carries = [e \in Events |-> NoChain]
  /\ node = Started(StoppedNode, open)
  /\ published = {}

Next ==
  \/ \E m \in {"Tor", "I2P"} : \E enabled \in BOOLEAN : SetTransportEnabled(m, enabled)
  \/ \E m \in {"Tor", "I2P"} : SetActiveTransport(m)
  \/ \E t \in BOOLEAN : SetAlphaTestMode(t)
  \/ \E m \in {"Tor", "I2P"} : \E t \in BOOLEAN : Restart(m, t)
  \/ \E e \in LocalEvents : LocalEvent(e) \/ SyncTickWithClaim(e)
  \/ SyncTick \/ RestartNetwork
  \/ \E e \in RemoteEvents : \E chain \in Chains : IngestRemoteEvent(e, chain)

Spec == Init /\ [][Next]_vars

-----------------------------------------------------------------------------
(* Properties.                                                             *)

\* Every variable holds a value of its type.
TypeOK ==
  /\ transports \subseteq {"Tor", "I2P"}
  /\ mode \in {"Tor", "I2P"} /\ test_mode \in BOOLEAN
  /\ open \in Chains /\ chain_id \in Chains
  /\ stores \in [Chains -> SUBSET Events]
  /\ carries \in [Events -> Chains \cup {NoChain}]
  /\ node \in [running : BOOLEAN, network : Chains, queue : SUBSET LocalEvents,
               seen : SUBSET Events]
  /\ published \subseteq LocalEvents \X Chains

\* However transports are switched between making an event and the tick that
\* flushes it, an event never leaves on the network of another chain.
PublishedOnOwnChain == \A p \in published : p[2] = carries[p[1]]

\* The node's own events never end up in the store of another chain, which the
\* next start would reset for it.
OwnEventsInOwnStore ==
  \A c \in Chains : \A e \in stores[c] \cap LocalEvents : carries[e] = c

\* The node runs on the network of the store that is open ("Reset peer state when
\* switching communities, then load external peers file.", alpha_service.cpp:1787).
NodeOnOpenChain == node.running => node.network = open

\* An event leaves at most once, only after it was made, and a switch or a
\* restart loses the waiting ones together (module Outbox).
Published == INSTANCE Outbox WITH
  Events <- LocalEvents,
  made <- {e \in LocalEvents : carries[e] # NoChain},
  waiting <- node.queue,
  sent <- {p[1] : p \in published}

OutboxSpec == Published!Spec
=============================================================================
