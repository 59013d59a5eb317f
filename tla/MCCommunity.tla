---------------------------- MODULE MCCommunity ----------------------------
EXTENDS Community

CONSTANTS me, peer

MCSubsidy == [b \in BlockIndices |-> IF b = 1 THEN 4 ELSE 2]

MCPolicy(finality) == [enabled |-> TRUE, finality |-> finality, confirmations |-> 1, flags |-> 2]

MCSetting(kinds, authors, values, ids, horizon) ==
  [kinds |-> kinds, authors |-> authors, minimum_post_value |-> 0, values |-> values,
   confirmation_threshold |-> 9, policy |-> MCPolicy(TRUE),
   ids |-> ids, about |-> ids \ {Max(ids)}, ties |-> FALSE, sizes |-> {1},
   lags |-> {0, 1}, aliens |-> {FALSE}, stops |-> FALSE, age |-> BlockInterval, horizon |-> horizon]

Paying(S) == [S EXCEPT !.confirmation_threshold = 1, !.minimum_post_value = 1, !.stops = TRUE]

\* Aliens, in a store that is new.
MCAliens(S) == [Paying(S) EXCEPT !.aliens = BOOLEAN, !.age = 0, !.lags = {0}]

\* Claims and what they pay for, with one size and with two; claim conflicts; the own
\* economy, with one size and with two; aliens; what hangs on a recipe; what its readers
\* add; flags and hides; who moderates.
MCSettings ==
  {[Paying(MCSetting({"claim", "transfer", "RecipeCreated"}, {me, peer}, {3}, 1..3, 2))
      EXCEPT !.ties = TRUE, !.stops = FALSE],
   [Paying(MCSetting({"claim", "transfer", "RecipeCreated"}, {me, peer}, {1}, 1..3, 2))
      EXCEPT !.sizes = {1, 2}, !.lags = {1}, !.stops = FALSE],
   [Paying(MCSetting({"claim"}, {me, peer}, {1}, 1..3, 3)) EXCEPT !.lags = {1}],
   Paying(MCSetting({"claim", "transfer", "RecipeCreated", "ProfileUpdated"}, {me}, {0, 1}, 1..4, 2)),
   [Paying(MCSetting({"claim", "transfer", "RecipeCreated"}, {me}, {1}, 1..4, 2)) EXCEPT !.sizes = {1, 2}],
   MCAliens(MCSetting({"claim"}, {me, peer}, {1}, 1..3, 2)),
   MCAliens(MCSetting({"claim", "ProfileUpdated"}, {me, peer}, {1}, 1..2, 2)),
   [MCSetting({"RecipeCreated", "ThreadCreated", "ReplyCreated", "ContentHidden"}, {me}, {0}, 1..4, 1)
      EXCEPT !.policy = MCPolicy(FALSE), !.about = {1, 2}],
   MCSetting({"RecipeCreated", "ReviewAdded", "ThumbsUpAdded"}, {me, peer}, {0}, 1..3, 1),
   [MCSetting({"ContentFlagged", "ContentHidden", "RecipeCreated"}, {me, peer}, {0}, 1..3, 2)
      EXCEPT !.about = {1}, !.lags = {0}],
   [MCSetting({"ModeratorAdded", "ModeratorRemoved", "CoreTopicPinned"}, {me, peer}, {0}, 1..2, 2) EXCEPT !.stops = TRUE]}
=============================================================================
