------------------------------ MODULE SyncTick ------------------------------
(***************************************************************************)
(* AlphaService::sync_tick and the events a node makes itself: reward      *)
(* claims for confirmed blocks, the operations of the user, and the        *)
(* outbound queue that a tick flushes.                                     *)
(*                                                                         *)
(* make_event gives each local event a timestamp of its own, later than    *)
(* the one before it, and the store rejects timestamps too far in the      *)
(* future.  Only the distance between the two clocks matters, so the state *)
(* is ahead == last_local_event_unix_ts_ - now, and -1 stands for every    *)
(* value that the clock has caught up with.  The clock may advance between *)
(* two claims of one tick (each takes a proof of work), nothing else may:  *)
(* the process has one thread.                                             *)
(*                                                                         *)
(* Assumed here: block rewards are left in the supply, the proof of work   *)
(* is found, and the store accepts writes.  A restart after a failed       *)
(* validation rolls the store back and is not part of this module.         *)
(***************************************************************************)
EXTENDS Integers, Sequences, Functions

CONSTANTS
  MaxFutureDrift,   \* validation_limits_.max_future_drift_seconds
  BeatsPerSecond,   \* resolution of the clock
  BeatsPerTick,     \* period of the shells' timer, 1.5 seconds
  MaxBlocks,        \* bound on the confirmed blocks, after genesis
  MaxAttempts,      \* bound on the operations of the user
  MaxRestarts       \* bound on the restarts

ASSUME SyncTickConstants ==
  /\ MaxFutureDrift \in Nat
  /\ BeatsPerSecond \in Nat \ {0} /\ BeatsPerTick \in Nat \ {0}
  /\ MaxBlocks \in Nat /\ MaxAttempts \in Nat /\ MaxRestarts \in Nat

VARIABLES
  ahead,       \* how far the last local timestamp is ahead of the clock
  beat,        \* beats into the current second
  elapsed,     \* beats since the timer fired, at most BeatsPerTick
  locked,      \* wallet_locked()
  confirmed,   \* number of blocks after genesis with enough confirmations
  claimed,     \* blocks with a valid claim in the store
  made,        \* local events in the store, in the order they were made
  todo,        \* blocks the running tick has still to claim, the oldest first
  ticking,     \* a tick is running
  claimed_any, \* the running tick has claimed a block
  poisoned,    \* the store holds an event that fails validation
  queue,       \* outbound_queue_
  handed_out,  \* events handed out by ticks, in order
  attempts, restarts

store == <<confirmed, claimed, made, poisoned>>
tick == <<todo, ticking, claimed_any>>
clock == <<beat, elapsed>>
bounds == <<attempts, restarts>>
sync_vars == <<ahead, clock, locked, store, tick, queue, handed_out, bounds>>

Claim(b) == [kind |-> "claim", number |-> b]
UserEvent(n) == [kind |-> "user", number |-> n]
OwnEvents == {Claim(b) : b \in 1..MaxBlocks} \cup {UserEvent(n) : n \in 1..MaxAttempts}

Greater(a, b) == IF a > b THEN a ELSE b

-----------------------------------------------------------------------------
\* make_event: max(now, last + 1), as seen from now.
NextAhead(a) == Greater(0, a + 1)

AcceptedByStore(a) == a <= MaxFutureDrift

\* Mutant: blocks stay claimable after they were claimed.
ClaimableAgain(n, done) == 1..n

\* Mutant: the latest confirmed block is left out.
ClaimableBelowTip(n, done) == (1..(n - 1)) \ done

\* Genesis is never claimable and pays nothing.
Claimable(n, done) == (1..n) \ done

\* Mutant: no tick flushes while the store fails validation.
FlushesOnlyIfValid(any, bad) == ~bad

\* A failed validation after claims ends the tick before the network's turn;
\* the periodic validation's result is not used.
Flushes(any, bad) == ~(any /\ bad)

\* Mutant: the queue is handed out but not cleared.
FlushedCopy(q) == [out |-> q, left |-> q]

Flushed(q) == [out |-> q, left |-> <<>>]

SyncInit ==
  /\ ahead = -1 /\ beat = 0 /\ elapsed = BeatsPerTick
  /\ locked = FALSE
  /\ confirmed = 0 /\ claimed = {} /\ made = <<>> /\ poisoned = FALSE
  /\ todo = {} /\ ticking = FALSE /\ claimed_any = FALSE
  /\ queue = <<>> /\ handed_out = <<>>
  /\ attempts = 0 /\ restarts = 0

Clock ==
  /\ beat' = (beat + 1) % BeatsPerSecond
  /\ ahead' = IF beat' = 0 THEN Greater(-1, ahead - 1) ELSE ahead
  /\ elapsed' = IF elapsed < BeatsPerTick THEN elapsed + 1 ELSE elapsed
  /\ UNCHANGED <<locked, store, tick, queue, handed_out, bounds>>

\* routine_block_check confirms blocks; the blocks to claim are listed once.
TickStart ==
  /\ ~ticking /\ elapsed = BeatsPerTick
  /\ confirmed' \in confirmed..MaxBlocks
  /\ todo' = IF locked THEN {} ELSE Claimable(confirmed', claimed)
  /\ ticking' = TRUE /\ claimed_any' = FALSE
  /\ elapsed' = 0
  /\ UNCHANGED <<ahead, beat, locked, claimed, made, poisoned, queue, handed_out, bounds>>

\* One round of the claim loop.  A claim the store rejects ends the tick, and
\* its timestamp is used up all the same.
ClaimNext ==
  /\ ticking
  /\ ahead' = NextAhead(ahead)
  /\ \E block \in todo :
       /\ \A other \in todo : block <= other
       /\ \/ /\ AcceptedByStore(ahead')
             /\ made' = Append(made, Claim(block))
             /\ claimed' = claimed \cup {block}
             /\ queue' = Append(queue, Claim(block))
             /\ todo' = todo \ {block} /\ claimed_any' = TRUE
             /\ UNCHANGED ticking
          \/ /\ ~AcceptedByStore(ahead')
             /\ ticking' = FALSE /\ todo' = {}
             /\ UNCHANGED <<claimed_any, made, claimed, queue>>
  /\ UNCHANGED <<clock, locked, confirmed, poisoned, handed_out, bounds>>

TickEnd ==
  /\ ticking /\ todo = {}
  /\ ticking' = FALSE
  /\ IF Flushes(claimed_any, poisoned)
     THEN handed_out' = handed_out \o Flushed(queue).out /\ queue' = Flushed(queue).left
     ELSE UNCHANGED <<queue, handed_out>>
  /\ UNCHANGED <<ahead, clock, locked, store, todo, claimed_any, bounds>>

\* An operation that makes an event: appended, validated, then queued.  An event
\* that replay finds invalid stays in the store.
UserOperation ==
  /\ ~ticking /\ ~locked
  /\ attempts < MaxAttempts
  /\ attempts' = attempts + 1
  /\ ahead' = NextAhead(ahead)
  /\ \/ /\ ~AcceptedByStore(ahead')
        /\ UNCHANGED <<made, poisoned, queue>>
     \/ /\ AcceptedByStore(ahead')
        /\ made' = Append(made, UserEvent(attempts'))
        /\ \E invalid \in BOOLEAN : poisoned' = (poisoned \/ invalid)
        /\ queue' = IF poisoned' THEN queue ELSE Append(queue, UserEvent(attempts'))
  /\ UNCHANGED <<clock, locked, confirmed, claimed, tick, handed_out, restarts>>

\* Another node's claim arrives; for a block already claimed it is a duplicate,
\* and whichever of the two replays second fails validation.
RemoteClaim(b) ==
  /\ ~ticking /\ b <= confirmed
  /\ claimed' = claimed \cup {b}
  /\ poisoned' = (poisoned \/ b \in claimed)
  /\ UNCHANGED <<ahead, clock, locked, confirmed, made, tick, queue, handed_out, bounds>>

Lock ==
  /\ ~ticking
  /\ locked' = TRUE
  /\ UNCHANGED <<ahead, clock, store, tick, queue, handed_out, bounds>>

\* restart_network, called when the wallet is unlocked and when the peers file is
\* read again: the node is stopped and started, and its queue dropped.
NetworkRestart ==
  /\ ~ticking
  /\ locked' \in {locked, FALSE}
  /\ queue' = <<>>
  /\ UNCHANGED <<ahead, clock, store, tick, handed_out, bounds>>

\* The process stops, between any two steps, and starts again: the last local
\* timestamp and the queue were only in memory.
ProcessRestart ==
  /\ ~poisoned
  /\ restarts < MaxRestarts
  /\ restarts' = restarts + 1
  /\ ahead' = -1 /\ queue' = <<>> /\ locked' = FALSE
  /\ todo' = {} /\ ticking' = FALSE /\ claimed_any' = FALSE
  /\ UNCHANGED <<clock, store, handed_out, attempts>>

SyncNext ==
  \/ Clock \/ TickStart \/ ClaimNext \/ TickEnd
  \/ UserOperation \/ Lock \/ NetworkRestart \/ ProcessRestart
  \/ \E b \in 1..MaxBlocks : RemoteClaim(b)

SyncSpec == SyncInit /\ [][SyncNext]_sync_vars

\* Time passes, the shells' timer fires, and a tick runs to its end.
FairSpec == /\ SyncSpec
            /\ WF_sync_vars(Clock)
            /\ WF_sync_vars(TickStart)
            /\ WF_sync_vars(ClaimNext)
            /\ WF_sync_vars(TickEnd)

-----------------------------------------------------------------------------
(* Properties.                                                             *)

\* A node claims a block once, although the list of blocks to claim is read
\* before the loop, another node may claim too, and a crash may cut the loop.
ClaimedOnceByNode ==
  \A p, q \in DOMAIN made :
    made[p] = made[q] /\ made[p].kind = "claim" => p = q

\* No event is handed out twice, and none that the store does not hold.
PublishedOnce ==
  /\ \A p, q \in DOMAIN handed_out : handed_out[p] = handed_out[q] => p = q
  /\ \A p \in DOMAIN handed_out : handed_out[p] \in Range(made)

\* A confirmed block is claimed in the end, a backlog longer than the drift
\* allows included, unless the wallet is locked.
BacklogDrains ==
  \A b \in 1..MaxBlocks : (b <= confirmed) ~> (b \in claimed \/ locked)

\* A queued event is handed out in the end, or lost in a restart of the network
\* or the process, even if the store fails validation.
QueueDrains == (queue # <<>>) ~> (queue = <<>>)
=============================================================================
