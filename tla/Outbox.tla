------------------------------- MODULE Outbox -------------------------------
(***************************************************************************)
(* What the publish path promises: an event is made once, waits at most    *)
(* once, and leaves at most once.  Waiting events leave together, or are   *)
(* lost together.                                                          *)
(***************************************************************************)
CONSTANT Events

VARIABLES made, waiting, sent

vars == <<made, waiting, sent>>

Init == made = {} /\ waiting = {} /\ sent = {}

Make(e) ==
  /\ e \notin made
  /\ made' = made \cup {e}
  /\ waiting' \in {waiting, waiting \cup {e}}
  /\ UNCHANGED sent

\* A tick may make an event of its own just before it sends.
Send ==
  /\ \E fresh \in SUBSET (Events \ made) :
       /\ made' = made \cup fresh
       /\ sent' \in {sent \cup waiting, sent \cup waiting \cup fresh}
  /\ waiting' = {}

Lose == waiting' = {} /\ UNCHANGED <<made, sent>>

Next == (\E e \in Events : Make(e)) \/ Send \/ Lose

Spec == Init /\ [][Next]_vars
=============================================================================
