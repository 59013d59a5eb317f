------------------------------ MODULE Content ------------------------------
(***************************************************************************)
(* The forum views of Store::materialize_views as operators: what one post *)
(* adds to the recipes, threads and replies that replay rebuilds, and what *)
(* the passes after the loop make of them.                                 *)
(*                                                                         *)
(* A post is named by the id of its event: recipe_id, thread_id and        *)
(* reply_id are hashes of the post's text and time.  The parent of a       *)
(* thread, a review or a thumb is a recipe, of a reply a thread; it is     *)
(* NoObject when the payload has none, and may be an id that is not (yet)  *)
(* stored.  Titles, categories and texts are left out, and so is the sort  *)
(* order of the queries.                                                   *)
(***************************************************************************)
EXTENDS Integers, FiniteSets

CONSTANTS
  Ids,       \* ids a post may have
  NoObject   \* the empty id

PostKinds == {"RecipeCreated", "ThreadCreated", "ReplyCreated", "ReviewAdded", "ThumbsUpAdded"}

Post == [kind : PostKinds, parent : Ids \cup {NoObject}, rating : 0..5, core : BOOLEAN]

\* recipes_, threads_, replies_by_thread_, review_totals_ and thumbs_up_totals_,
\* while the second loop of materialize_views fills them.
Collection == [recipes : SUBSET Ids, core : SUBSET Ids,
               threads : SUBSET (Ids \X (Ids \cup {NoObject})),
               replies : SUBSET (Ids \X Ids),
               ratings : [Ids -> Nat], reviews : [Ids -> Nat], thumbs : [Ids -> Nat]]

NoPosts == [recipes |-> {}, core |-> {}, threads |-> {}, replies |-> {},
            ratings |-> [x \in Ids |-> 0], reviews |-> [x \in Ids |-> 0], thumbs |-> [x \in Ids |-> 0]]

AddTo(totals, x, n) == [totals EXCEPT ![x] = @ + n]

\* Mutant: a review counts only if its recipe came first in the replay.
AddReviewOfKnown(C, p) ==
  IF p.parent \notin C.recipes THEN C
  ELSE [C EXCEPT !.ratings = AddTo(@, p.parent, p.rating), !.reviews = AddTo(@, p.parent, 1)]

AddReview(C, p) ==
  IF p.parent = NoObject THEN C
  ELSE [C EXCEPT !.ratings = AddTo(@, p.parent, p.rating), !.reviews = AddTo(@, p.parent, 1)]

\* One post in the second loop.
AddPost(C, id, p) ==
  CASE p.kind = "RecipeCreated" ->
         [C EXCEPT !.recipes = @ \cup {id}, !.core = IF p.core THEN @ \cup {id} ELSE @]
    [] p.kind = "ThreadCreated" -> [C EXCEPT !.threads = @ \cup {<<id, p.parent>>}]
    [] p.kind = "ReplyCreated" ->
         IF p.parent = NoObject THEN C ELSE [C EXCEPT !.replies = @ \cup {<<id, p.parent>>}]
    [] p.kind = "ReviewAdded" -> AddReview(C, p)
    [] p.kind = "ThumbsUpAdded" ->
         IF p.parent = NoObject THEN C ELSE [C EXCEPT !.thumbs = AddTo(@, p.parent, 1)]

\* What is served: by recipe, by thread, and the replies.
Board == [recipes : UNION {[S -> [core : BOOLEAN, ratings : Nat, reviews : Nat, thumbs : Nat]] : S \in SUBSET Ids},
          threads : UNION {[S -> [recipe : Ids \cup {NoObject}, reply_count : Nat]] : S \in SUBSET Ids},
          replies : SUBSET (Ids \X Ids)]

Pinned(C, pins) == {x \in C.recipes : pins[x] = "pinned" \/ (pins[x] = "none" /\ x \in C.core)}

RepliesOf(replies, t) == {r \in replies : r[2] = t}

\* Mutant: the replies of a thread that goes with its recipe stay.
ServedReplies(replies, gone, hidden) == {r \in replies : r[1] \notin hidden /\ r[2] \notin hidden}

\* A hidden thread, or one of a hidden recipe, goes with all its replies; a reply
\* whose thread is unknown stays.
VisibleReplies(replies, gone, hidden) ==
  {r \in replies : r[2] \notin gone /\ r[1] \notin hidden /\ r[2] \notin hidden}

ReplyCount(visible, t) == Cardinality(RepliesOf(visible, t))

\* The passes after the loop: totals, pins, hidden objects, reply counts.
Served(C, pins, hidden) ==
  LET gone == {t[1] : t \in {u \in C.threads : u[1] \in hidden \/ u[2] \in hidden}}
      visible == VisibleReplies(C.replies, gone, hidden)
  IN  [recipes |-> [x \in C.recipes \ hidden |->
                      [core |-> x \in Pinned(C, pins), ratings |-> C.ratings[x],
                       reviews |-> C.reviews[x], thumbs |-> C.thumbs[x]]],
       threads |-> [t \in {u[1] : u \in C.threads} \ gone |->
                      [recipe |-> (CHOOSE u \in C.threads : u[1] = t)[2],
                       reply_count |-> ReplyCount(visible, t)]],
       replies |-> visible]

EmptyBoard == Served(NoPosts, [x \in Ids |-> "none"], {})

\* query_recipes (with an empty query), query_threads and query_replies.
QueryRecipes(B) == DOMAIN B.recipes
QueryThreads(B, x) == {t \in DOMAIN B.threads : x = NoObject \/ B.threads[t].recipe = x}
QueryReplies(B, t) == {r[1] : r \in RepliesOf(B.replies, t)}

\* The posts that are served, by the ids of their events.
ServedPosts(B) == DOMAIN B.recipes \cup DOMAIN B.threads \cup {r[1] : r \in B.replies}
=============================================================================
