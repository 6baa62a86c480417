------------------------------- MODULE Board -------------------------------
(***************************************************************************)
(* The Pulse board: posts, replies, reactions, reports and follows made by *)
(* concurrent requests, the feed, profile and detail queries, and a client *)
(* that keeps its copy of the feed's first page in step.                   *)
(*                                                                         *)
(* Source: indexer/src/api/board.rs and indexer-db/src/messages/board.rs.  *)
(* Each request runs on a blocking thread.  It reads in a transaction of   *)
(* its own, builds its writes, and commits them.  The write transactions   *)
(* read nothing, so no commit conflicts.  A post is named after the        *)
(* request that makes it, a revision is the stored record itself, and an   *)
(* address is in lower case already.                                       *)
(***************************************************************************)
EXTENDS Naturals, FiniteSets, FiniteSetsExt

CONSTANTS
  Requests,     \* request names, which are also the names of the posts they make
  Request,      \* the request of each name
  Uuid,         \* order of the ids given to posts
  Seed,         \* posts that are there in the beginning
  Scenarios,    \* sets of requests that run together
  NoPost,       \* no post
  Unparsed,     \* a creation time that is not RFC 3339
  Limit,        \* items of a feed page
  StartTime,    \* the present in the beginning
  MaxTime       \* bound: milliseconds

Creates == {r \in Requests : Request[r].op \in {"post", "reply"}}
Actors == {Request[r].actor : r \in Requests}
ClientIds == {Request[r].clientId : r \in Requests}

\* A post, as it is stored: BoardPostResponse.
Posts ==
  [author : Actors, parent : Creates \union {NoPost}, created : Nat, replies : Nat,
   reactions : Nat, moderation : {"none", "reported"}, updated : Nat]

\* A revision of the feed: feed_revision_value.
Revisions == [cutoff : Nat, digest : SUBSET (Creates \X Posts)]

ASSUME BoardAssumption ==
  /\ Scenarios \subseteq SUBSET (Requests \ Seed)
  /\ Seed \subseteq Creates /\ IsFiniteSet(Seed)
  /\ \A p \in Seed : Request[p].op = "post" /\ Request[p].created \in Nat
  /\ NoPost \notin Requests \union Posts \union Revisions /\ Limit \in Nat \ {0}
  /\ StartTime \in Nat /\ MaxTime \in Nat
  /\ \A p \in Creates : Uuid[p] \in Nat
  /\ \A p, q \in Creates : p # q => Uuid[p] # Uuid[q]
  /\ \A r \in Requests :
       /\ Request[r].op \in {"post", "reply", "react", "report", "follow", "unfollow"}
       /\ Request[r].op \in {"reply", "react", "report"} => Request[r].post \in Creates
       /\ Request[r].created \in Nat \union {Unparsed}

VARIABLES
  clock,
  pc,           \* where each request is
  local,        \* what each request has read
  by_id,        \* board_post_by_id
  by_created_at,\* board_post_by_created_at, under the time and the id of the post
  client_ids,   \* board_client_generated_id_to_post_id
  replies,      \* board_reply_by_parent_created_at
  reactions,    \* board_reaction_by_post_actor_emoji
  reports,      \* board_report_by_post_actor
  following,    \* board_follow_by_follower_target: record under <<follower, target>>
  followers,    \* board_follow_by_target_follower: record under <<target, follower>>
  client,       \* a reader's copy of the first page, and its revision
  walk,         \* a reader's way through the pages
  \* history
  answer,       \* the post a create request was answered with; itself for a committed one
  pushed,       \* pulse reply events handed to the push service
  dropped,      \* requests whose client went away before the push
  raced,        \* posts written back over a change made since they were read
  doubled,      \* client ids used by two requests at once
  quiet         \* posts written with a time no later than the client's revision

tables == <<by_id, by_created_at, client_ids, replies, reactions, reports, following, followers>>
readers == <<client, walk>>
history == <<answer, pushed, dropped, raced, doubled>>
vars == <<clock, pc, local, tables, readers, history, quiet>>

-----------------------------------------------------------------------------
(* Requests *)

validate_create_post_request(q) ==
  /\ q.valid
  /\ q.op = "post" => q.replyTo = NoPost
  /\ q.op = "reply" => q.replyTo \in {NoPost, q.post}

validate_create_reaction_request(q) == q.valid /\ q.emoji # ""

validate_create_report_request(q) == q.valid

validate_create_follow_request(q) == q.valid /\ q.target = q.path /\ q.actor # q.target

validate(q) ==
  CASE q.op \in {"post", "reply"} -> validate_create_post_request(q)
    [] q.op = "react" -> validate_create_reaction_request(q)
    [] q.op = "report" -> validate_create_report_request(q)
    [] OTHER -> validate_create_follow_request(q)

\* A time that cannot be read becomes the present.
parse_requested_created_at(t) == IF t = Unparsed THEN clock ELSE t

NewPost(q, created) ==
  [author |-> q.actor, parent |-> IF q.op = "reply" THEN q.post ELSE NoPost,
   created |-> created, replies |-> 0, reactions |-> 0, moderation |-> "none",
   updated |-> created]

Having(post, rows, had) ==
  [post |-> post, rows |-> rows, had |-> had, created |-> 0, now |-> 0]
Nothing == Having(NoPost, {}, FALSE)
NoPage == [rev |-> NoPost, items |-> {}, copy |-> [p \in Creates |-> NoPost]]
NoWalk == [on |-> FALSE, cursor |-> 0, start |-> {}, seen |-> {}, ties |-> {}, ended |-> FALSE]

Init ==
  /\ clock = StartTime
  /\ \E arriving \in Scenarios : pc = [r \in Requests |-> IF r \in arriving THEN "new" ELSE "done"]
  /\ local = [r \in Requests |-> Nothing]
  /\ by_id = [p \in Creates |-> IF p \in Seed THEN NewPost(Request[p], Request[p].created)
                                               ELSE NoPost]
  /\ by_created_at = by_id
  /\ client_ids = [c \in ClientIds |->
       IF \E p \in Seed : Request[p].clientId = c
       THEN CHOOSE p \in Seed : Request[p].clientId = c ELSE NoPost]
  /\ replies = {} /\ reactions = {} /\ reports = {}
  /\ following = [e \in Actors \X Actors |-> NoPost]
  /\ followers = [e \in Actors \X Actors |-> NoPost]
  /\ client = NoPage /\ walk = NoWalk
  /\ answer = [r \in Requests |-> NoPost]
  /\ pushed = {} /\ dropped = {} /\ raced = {} /\ doubled = {} /\ quiet = {}

ReactionsOf(p) == {x \in reactions : x[1] = p}
ReportsOf(p) == {x \in reports : x[1] = p}

\* Mutant: the author of the parent is told of their own reply.
MutPushEvent(parent, reply) == {<<parent, reply>>}

\* The event for the author of the parent, unless it is the author of the reply.
build_pulse_reply_push_event(parent, reply) ==
  IF by_id[parent].author = by_id'[reply].author THEN {} ELSE {<<parent, reply>>}

\* create_board_reply pushes the event of its answer once the post is stored, unless its
\* client has gone by then: the blocking task goes on, the handler does not.
Push(r) ==
  LET q == Request[r] IN
  IF q.op # "reply" THEN UNCHANGED <<pushed, dropped>>
  ELSE \/ /\ pushed' = pushed \union build_pulse_reply_push_event(q.post, answer'[r])
          /\ UNCHANGED dropped
       \/ /\ dropped' = dropped \union {r}
          /\ UNCHANGED pushed

-----------------------------------------------------------------------------
(* Changes *)

Reject(r) ==
  /\ pc' = [pc EXCEPT ![r] = "failed"]
  /\ UNCHANGED <<clock, local, tables, readers, history, quiet>>

\* A request that does not pass validation.
RejectRequest(r) == pc[r] = "new" /\ ~validate(Request[r]) /\ Reject(r)

\* create_post_record, toggle_reaction_record, submit_report_record: the read transaction
\* finds no post to reply to, react to or report.
PostNotFound(r) ==
  LET q == Request[r] IN
  /\ pc[r] = "new" /\ validate(q) /\ q.op \in {"reply", "react", "report"}
  /\ by_id[q.post] = NoPost
  /\ Reject(r)

\* The client id is known: the post it stands for is the answer.  A reply needs its parent
\* even so, since create_board_reply loads it first.
ExistingPost(r) ==
  LET q == Request[r] IN
  /\ r \in Creates /\ pc[r] = "new" /\ validate(q)
  /\ q.op = "reply" => by_id[q.post] # NoPost
  /\ client_ids[q.clientId] # NoPost
  /\ answer' = [answer EXCEPT ![r] = client_ids[q.clientId]]
  /\ pc' = [pc EXCEPT ![r] = "done"]
  /\ UNCHANGED <<clock, local, tables, readers, raced, doubled, quiet>>
  /\ Push(r)

\* Mutant: the client id is not looked up.
MutReadRequest(r) ==
  LET q == Request[r] IN
  /\ pc[r] = "new" /\ validate(q) /\ q.op \notin {"follow", "unfollow"}
  /\ q.op \in {"reply", "react", "report"} => by_id[q.post] # NoPost
  /\ local' = [local EXCEPT ![r] =
       CASE q.op = "react" -> Having(NoPost, ReactionsOf(q.post),
                                     <<q.post, q.actor, q.emoji>> \in reactions)
         [] q.op = "report" -> Having(by_id[q.post], {}, FALSE)
         [] OTHER -> Nothing]
  /\ pc' = [pc EXCEPT ![r] = "read"]
  /\ doubled' = doubled \union {q.clientId : o \in {c \in Creates \ {r} : /\ r \in Creates
                     /\ Request[c].clientId = q.clientId /\ pc[c] \in {"read", "built"}}}
  /\ UNCHANGED <<clock, tables, readers, answer, pushed, dropped, raced, quiet>>

\* The read transaction of a request that goes on.
ReadRequest(r) ==
  LET q == Request[r] IN
  /\ pc[r] = "new" /\ validate(q) /\ q.op \notin {"follow", "unfollow"}
  /\ q.op \in {"reply", "react", "report"} => by_id[q.post] # NoPost
  /\ r \in Creates => client_ids[q.clientId] = NoPost
  /\ local' = [local EXCEPT ![r] =
       CASE q.op = "react" -> Having(NoPost, ReactionsOf(q.post),
                                     <<q.post, q.actor, q.emoji>> \in reactions)
         [] q.op = "report" -> Having(by_id[q.post], {}, FALSE)
         [] OTHER -> Nothing]
  /\ pc' = [pc EXCEPT ![r] = "read"]
  /\ doubled' = doubled \union {q.clientId : o \in {c \in Creates \ {r} : /\ r \in Creates
                     /\ Request[c].clientId = q.clientId /\ pc[c] \in {"read", "built"}}}
  /\ UNCHANGED <<clock, tables, readers, answer, pushed, dropped, raced, quiet>>

\* The writes are built, with the time of this moment.  update_post_reply_count and
\* update_post_reaction_count load the post anew; a report writes the one it read first.
BuildWrites(r) ==
  LET q == Request[r] IN
  /\ pc[r] = "read"
  /\ local' = [local EXCEPT ![r] =
       [post |-> IF q.op \in {"reply", "react"} THEN by_id[q.post] ELSE @.post,
        rows |-> @.rows, had |-> @.had,
        created |-> parse_requested_created_at(q.created), now |-> clock]]
  /\ pc' = [pc EXCEPT ![r] = "built"]
  /\ UNCHANGED <<clock, tables, readers, history, quiet>>

\* A post is written back whole, with the time and the change of its request.
Touched(r) == [local[r].post EXCEPT !.updated = local[r].now]

\* Mutant: a reply does not count.
MutUpdateReplyCount(r) == Touched(r)

update_post_reply_count(r) == [Touched(r) EXCEPT !.replies = @ + 1]

update_post_reaction_count(r) ==
  LET n == Cardinality(local[r].rows)
  IN [Touched(r) EXCEPT !.reactions = IF local[r].had THEN n - 1 ELSE n + 1]

\* Mutant: only a new post goes to by_created_at.
MutWritePost(writes) ==
  /\ by_id' = [p \in Creates |->
       IF \E w \in writes : w[1] = p THEN (CHOOSE w \in writes : w[1] = p)[2] ELSE by_id[p]]
  /\ by_created_at' = [p \in Creates |->
       IF by_id[p] = NoPost /\ by_id'[p] # NoPost /\ by_id'[p].parent = NoPost
       THEN by_id'[p] ELSE by_created_at[p]]

\* Every write goes to by_id, that of a top-level post to by_created_at as well.
write_post_response_with_touch(writes) ==
  /\ by_id' = [p \in Creates |->
       IF \E w \in writes : w[1] = p THEN (CHOOSE w \in writes : w[1] = p)[2] ELSE by_id[p]]
  /\ by_created_at' = [p \in Creates |->
       IF by_id'[p] # NoPost /\ by_id'[p].parent = NoPost /\ \E w \in writes : w[1] = p
       THEN by_id'[p] ELSE by_created_at[p]]

\* A request writes posts and is answered; its rows go with them, in one transaction.
Commit(r, writes) ==
  LET q == Request[r] IN
  /\ pc[r] = "built"
  /\ write_post_response_with_touch(writes)
  /\ answer' = [answer EXCEPT ![r] = r]
  /\ raced' = IF \/ q.op # "post" /\ local[r].post # by_id[q.post]
                 \/ q.op = "react" /\ local[r].rows # ReactionsOf(q.post)
              THEN raced \union {q.post} ELSE raced
  /\ quiet' = {p \in Creates :
       IF by_created_at'[p] = by_created_at[p] THEN p \in quiet
       ELSE client.rev # NoPost /\ by_created_at'[p].updated <= client.rev.cutoff}
  /\ Push(r)
  /\ pc' = [pc EXCEPT ![r] = "done"]
  /\ local' = [local EXCEPT ![r] = Nothing]
  /\ UNCHANGED <<clock, following, followers, readers, doubled>>

\* create_post_record: the post, its client id and, for a reply, the row under its parent
\* and the parent with its count.
create_post_record(r) ==
  LET q == Request[r]
      new == {<<r, NewPost(q, local[r].created)>>}
  IN /\ r \in Creates
     /\ IF q.op = "reply"
        THEN /\ Commit(r, new \union {<<q.post, update_post_reply_count(r)>>})
             /\ replies' = replies \union {<<q.post, local[r].created, r>>}
        ELSE Commit(r, new) /\ UNCHANGED replies
     /\ client_ids' = [client_ids EXCEPT ![q.clientId] = r]
     /\ UNCHANGED <<reactions, reports>>

\* The reaction's row is added or removed, as the read transaction found it.
toggle_reaction_record(r) ==
  LET q == Request[r]
      row == {<<q.post, q.actor, q.emoji>>}
  IN /\ q.op = "react"
     /\ Commit(r, {<<q.post, update_post_reaction_count(r)>>})
     /\ reactions' = IF local[r].had THEN reactions \ row ELSE reactions \union row
     /\ UNCHANGED <<client_ids, replies, reports>>

\* A report overwrites an earlier one of the same actor.
submit_report_record(r) ==
  LET q == Request[r] IN
  /\ q.op = "report"
  /\ Commit(r, {<<q.post, [Touched(r) EXCEPT !.moderation = "reported"]>>})
  /\ reports' = reports \union {<<q.post, q.actor>>}
  /\ UNCHANGED <<client_ids, replies, reactions>>

\* apply_follow_state writes or removes both rows in one transaction, and reads nothing.
apply_follow_state(r) ==
  LET q == Request[r]
      record == IF q.op = "follow" THEN r ELSE NoPost
  IN /\ q.op \in {"follow", "unfollow"} /\ pc[r] = "new" /\ validate(q)
     /\ following' = [following EXCEPT ![<<q.actor, q.target>>] = record]
     /\ followers' = [followers EXCEPT ![<<q.target, q.actor>>] = record]
     /\ pc' = [pc EXCEPT ![r] = "done"]
     /\ UNCHANGED <<clock, local, by_id, by_created_at, client_ids, replies, reactions, reports,
                    readers, history, quiet>>

Tick ==
  /\ clock < MaxTime
  /\ clock' = clock + 1
  /\ UNCHANGED <<pc, local, tables, readers, history, quiet>>

-----------------------------------------------------------------------------
(* Queries *)

\* The feed is read from the newest time and the highest id on.
Precedes(p, q) ==
  \/ by_created_at[p].created > by_created_at[q].created
  \/ by_created_at[p].created = by_created_at[q].created /\ Uuid[p] > Uuid[q]

FirstOf(posts, limit) ==
  {p \in posts : Cardinality({q \in posts : Precedes(q, p)}) < limit}

TopLevel == {p \in Creates : by_created_at[p] # NoPost}
PageItems == FirstOf(TopLevel, Limit)
\* Mutant: the cursor is one too low.
MutPageAfter(cursor) == FirstOf({p \in TopLevel : by_created_at[p].created + 1 < cursor}, Limit)

PageAfter(cursor) == FirstOf({p \in TopLevel : by_created_at[p].created < cursor}, Limit)
next_cursor(items) == Min({by_created_at[p].created : p \in items})

\* The greatest time of an update, and the digest over the items' revisions.
feed_revision_value(items) ==
  [cutoff |-> Max({by_created_at[p].updated : p \in items} \union {0}),
   digest |-> {<<p, by_created_at[p]>> : p \in items}]

get_board_profile_feed(author, limit) ==
  FirstOf({p \in TopLevel : by_created_at[p].author = author}, limit)

\* Reactions by emoji: how many, and whether the viewer's is among them.
build_reaction_summary(p, viewer) ==
  [e \in {x[3] : x \in ReactionsOf(p)} |->
     [count |-> Cardinality({x \in ReactionsOf(p) : x[3] = e}),
      mine |-> <<p, viewer, e>> \in reactions]]

RepliesTo(p) == {x[3] : x \in {y \in replies : y[1] = p}}

build_post_detail_response(p, viewer) ==
  [post |-> by_id[p],
   replies |-> {x \in RepliesTo(p) : by_id[x] # NoPost},
   reactions |-> build_reaction_summary(p, viewer)]

FollowedBy(a) == {b \in Actors : following[<<a, b>>] # NoPost}
FollowersOf(a) == {b \in Actors : followers[<<a, b>>] # NoPost}

build_profile_connections_response(a, viewer) ==
  [following |-> FollowedBy(a),
   followers |-> FollowersOf(a),
   viewer_follows |-> viewer # a /\ a \in FollowedBy(viewer)]

-----------------------------------------------------------------------------
(* Readers *)

\* get_board_feed with the revision the client has: not modified, or the page.
LoadFeed ==
  LET page == PageItems
      rev == feed_revision_value(page)
  IN /\ client.rev # rev
     /\ client' = [rev |-> rev, items |-> page,
                   copy |-> [p \in Creates |-> IF p \in page THEN by_created_at[p] ELSE NoPost]]
     /\ quiet' = {}
     /\ UNCHANGED <<clock, pc, local, tables, walk, history>>

\* Mutant: only new posts are changes.
MutFeedChanges(rev) == {p \in PageItems : by_created_at[p].created > rev.cutoff}

\* The posts of the page with a later time than the revision.
build_feed_changes_response(rev) == {p \in PageItems : by_created_at[p].updated > rev.cutoff}

\* get_board_feed_changes: the client takes the changes over; if there are none, though
\* the revision is another, it has to load the page.
SyncFeed ==
  LET rev == feed_revision_value(PageItems)
      changes == build_feed_changes_response(client.rev)
  IN /\ client.rev \notin {NoPost, rev}
     /\ \/ /\ changes # {}
           /\ client' = [rev |-> rev, items |-> client.items \union changes,
                         copy |-> [p \in Creates |-> IF p \in changes THEN by_created_at[p]
                                                      ELSE client.copy[p]]]
        \/ /\ changes = {}
           /\ client' = [client EXCEPT !.rev = NoPost]
     /\ UNCHANGED <<clock, pc, local, tables, walk, history, quiet>>

\* A reader asks for the first page ...
FirstPage ==
  LET page == PageItems
      last == next_cursor(page)
  IN /\ ~walk.on /\ TopLevel # {}
     /\ walk' = [on |-> TRUE, cursor |-> last, start |-> TopLevel, seen |-> page, ended |-> FALSE,
                 ties |-> {p \in TopLevel : by_created_at[p].created = last}]
     /\ UNCHANGED <<clock, pc, local, tables, client, history, quiet>>

\* ... and then, with the cursor of the last page, for the next, until one is empty.
NextPage ==
  LET items == PageAfter(walk.cursor)
      tied == {p \in TopLevel : by_created_at[p].created = next_cursor(items)}
  IN /\ walk.on /\ ~walk.ended
     /\ walk' = IF items = {} THEN [walk EXCEPT !.ended = TRUE]
                ELSE [on |-> TRUE, cursor |-> next_cursor(items), start |-> walk.start,
                      seen |-> walk.seen \union items, ties |-> walk.ties \union tied,
                      ended |-> FALSE]
     /\ UNCHANGED <<clock, pc, local, tables, client, history, quiet>>

Next ==
  \/ \E r \in Requests :
       RejectRequest(r) \/ PostNotFound(r) \/ ExistingPost(r) \/ ReadRequest(r)
       \/ BuildWrites(r) \/ create_post_record(r) \/ toggle_reaction_record(r)
       \/ submit_report_record(r) \/ apply_follow_state(r)
  \/ Tick \/ LoadFeed \/ SyncFeed \/ FirstPage \/ NextPage

Spec == Init /\ [][Next]_vars

-----------------------------------------------------------------------------
(* Properties *)

\* Posts are whole records, rows refer to posts that exist, and readers hold posts that are
\* in the feed.
TypeOK ==
  /\ pc \in [Requests -> {"new", "read", "built", "done", "failed"}]
  /\ by_id \in [Creates -> Posts \union {NoPost}]
  /\ \A x \in replies : by_id[x[1]] # NoPost
  /\ \A x \in reactions : by_id[x[1]] # NoPost
  /\ \A x \in reports : by_id[x[1]] # NoPost
  /\ walk.seen \subseteq TopLevel /\ client.items \subseteq TopLevel

\* The two copies of a post agree after any interleaving of replies, reactions and
\* reports to it: the feed shows what the detail shows.  A reply has one copy, and a row
\* under a parent that exists.  The two rows of a follow agree as well: whom a profile lists
\* as a follower lists it as followed, and is told so as a viewer.
\* (And every variable has its type.)
CopiesAgree ==
  /\ TypeOK
  /\ \A p \in Creates : by_id[p] # NoPost =>
       IF by_id[p].parent = NoPost THEN by_created_at[p] = by_id[p]
       ELSE /\ by_created_at[p] = NoPost
            /\ \E x \in replies : x[1] = by_id[p].parent /\ x[3] = p
            /\ by_id[by_id[p].parent] # NoPost
  /\ \A a, b \in Actors :
       /\ following[<<a, b>>] = followers[<<b, a>>]
       /\ b \in build_profile_connections_response(a, b).followers
            <=> build_profile_connections_response(a, b).viewer_follows

\* The counts stored with a post are those of its rows, and it is marked as reported if
\* it was; except for a post that a request wrote back over a change made since it had
\* read it.
CountsRight ==
  \A p \in Creates : by_id[p] # NoPost /\ p \notin raced =>
    LET detail == build_post_detail_response(p, "") IN
    /\ detail.post.replies = Cardinality(detail.replies)
    /\ detail.post.reactions =
         MapThenSumSet(LAMBDA e : detail.reactions[e].count, DOMAIN detail.reactions)
    /\ detail.post.moderation = "reported" <=> ReportsOf(p) # {}

\* Two requests with one client id make one post, and both are answered with it; except
\* when each looked the id up before the other had stored it.
OnePost ==
  LET answered == {r \in Creates : answer[r] # NoPost} IN
  \A r, o \in answered :
    Request[r].clientId = Request[o].clientId /\ Request[r].clientId \notin doubled
      => answer[r] = answer[o]

\* Every stored reply to another author's post is pushed to that author, unless the
\* client of the request went away; an author is never told of a reply of their own.
RepliesPushed ==
  /\ \A p \in Creates : by_id[p] # NoPost /\ by_id[p].parent # NoPost =>
       \/ <<by_id[p].parent, p>> \in pushed \/ p \in dropped
       \/ by_id[by_id[p].parent].author = by_id[p].author
  /\ \A x \in pushed : by_id[x[1]].author # by_id[x[2]].author

\* A client whose revision is the feed's has every post of the page as it is, however it
\* mixed loading and synchronising; except for posts whose last change carries a time no
\* later than the revision the client had then.
FeedSynced ==
  LET page == PageItems IN
  client.rev = feed_revision_value(page) =>
    \A p \in page : p \in quiet \/ client.copy[p] = by_created_at[p]

\* A reader who follows the cursors to the end has seen every post there was at the
\* beginning, whatever was posted or changed meanwhile; except for posts of the same
\* millisecond as the last one of a page.
WalkComplete == walk.ended => walk.start \subseteq walk.seen \union walk.ties
=============================================================================
