------------------------------ MODULE JobPosts ------------------------------
(***************************************************************************)
(* POST /backtest-jobs with an Idempotency-Key: create_*_job looks the key  *)
(* up (_resolve_idempotent) and inserts a row when there is none            *)
(* (_create_job).  The row commits only after the handler is through, and   *)
(* no unique index stands behind the lookup, so two POSTs that overlap may  *)
(* both insert.                                                             *)
(***************************************************************************)
EXTENDS Naturals

CONSTANTS Post,      \* POST requests; each inserts at most one row, named after it
          NoPost,
          PostUser,  \* user_id of each, possibly the NULL of anonymous POSTs
          PostKey,   \* its Idempotency-Key
          NoKey,     \* the header is absent
          PostBody   \* its canonical body, by its fingerprint

ASSUME NoPostAssumption == NoPost \notin Post
ASSUME PostAssumption == DOMAIN PostUser = Post /\ DOMAIN PostKey = Post /\ DOMAIN PostBody = Post

VARIABLES
  posts,     \* where each request is
  found,     \* the row its lookup returned, or NoPost
  made,      \* rows inserted and committed, by the request that made them
  madeAt,    \* created_at of each: its transaction's start, as a count
  clock,     \* transactions begun
  raced      \* history: requests that were in progress while another one with the
             \* same user and key was

postsVars == << posts, found, made, madeAt, clock, raced >>

InProgress == {"open", "looked", "inserted"}

PostsTypeOK ==
  /\ posts \in [Post -> {"new", "created", "existing", "conflict", "failed"} \cup InProgress]
  /\ found \in [Post -> Post \cup {NoPost}]
  /\ made \subseteq Post
  /\ madeAt \in [Post -> Nat]
  /\ clock \in Nat
  /\ raced \subseteq Post

PostsInit ==
  /\ posts = [p \in Post |-> "new"]
  /\ found = [p \in Post |-> NoPost]
  /\ made = {}
  /\ madeAt = [p \in Post |-> 0]
  /\ clock = 0
  /\ raced = {}
-----------------------------------------------------------------------------
SameKey(p, q) == PostUser[p] = PostUser[q] /\ PostKey[p] = PostKey[q]

\* Variant for the checks: the lookup is not scoped to the user.
MatchingRowsOfAll(p) == {q \in made : PostKey[q] = PostKey[p]}

\* The WHERE clause of _SELECT_BY_IDEMPOTENCY_KEY_SQL; NULL user ids match each other.
MatchingRows(p) == {q \in made : SameKey(p, q)}

\* get_db opens the request's transaction.
Begin(p) ==
  /\ posts[p] = "new"
  /\ posts' = [posts EXCEPT ![p] = "open"]
  /\ clock' = clock + 1
  /\ madeAt' = [madeAt EXCEPT ![p] = clock + 1]
  /\ LET others == {q \in Post \ {p} : posts[q] \in InProgress /\ SameKey(p, q)}
     IN  raced' = IF others = {} THEN raced ELSE raced \cup others \cup {p}
  /\ UNCHANGED << found, made >>

\* Variant for the checks: a hit is answered without comparing request_hash.
AnswerAnyBody(p, q) == "existing"

\* A stored request_hash that differs is a Conflict.
Answer(p, q) == IF PostBody[q] = PostBody[p] THEN "existing" ELSE "conflict"

\* _resolve_idempotent: the newest committed row with the key.
Lookup(p) ==
  /\ posts[p] = "open"
  /\ IF PostKey[p] = NoKey \/ MatchingRows(p) = {}
     THEN posts' = [posts EXCEPT ![p] = "looked"] /\ UNCHANGED found
     ELSE \E q \in MatchingRows(p) :
            /\ \A r \in MatchingRows(p) : madeAt[r] <= madeAt[q]
            /\ posts' = [posts EXCEPT ![p] = Answer(p, q)]
            /\ found' = [found EXCEPT ![p] = q]
  /\ UNCHANGED << made, madeAt, clock, raced >>

\* _create_job and _enqueue.
Insert(p) ==
  /\ posts[p] = "looked"
  /\ posts' = [posts EXCEPT ![p] = "inserted"]
  /\ found' = [found EXCEPT ![p] = p]
  /\ UNCHANGED << made, madeAt, clock, raced >>

\* get_db commits.
CommitPost(p) ==
  /\ posts[p] = "inserted"
  /\ posts' = [posts EXCEPT ![p] = "created"]
  /\ made' = made \cup {p}
  /\ UNCHANGED << found, madeAt, clock, raced >>

\* The transaction fails: BacktestJobError, or a lost connection.
PostFails(p) ==
  /\ posts[p] \in InProgress
  /\ posts' = [posts EXCEPT ![p] = "failed"]
  /\ UNCHANGED << found, made, madeAt, clock, raced >>
-----------------------------------------------------------------------------
PostsNext == \E p \in Post : Begin(p) \/ Lookup(p) \/ Insert(p) \/ CommitPost(p) \/ PostFails(p)

PostsSpec == PostsInit /\ [][PostsNext]_postsVars
-----------------------------------------------------------------------------
(***************************************************************************)
(* Properties                                                               *)
(***************************************************************************)

\* However POSTs overlap, a request answered with a job gets a job of its own user
\* that was made from the same body.
AnswersFit ==
  \A p \in Post : posts[p] \in {"created", "existing"} =>
    /\ found[p] \in made
    /\ PostUser[found[p]] = PostUser[p]
    /\ PostBody[found[p]] = PostBody[p]

\* Requests with one key that never overlapped have one job between them; the lookup
\* alone does not keep those apart that did.
OneJobPerKey ==
  \A p, q \in made \ raced : PostKey[p] # NoKey /\ SameKey(p, q) => p = q

\* An Idempotency-Key is kept: its answers fit, and it makes one job where it can.
KeysKept == AnswersFit /\ OneJobPerKey
=============================================================================
