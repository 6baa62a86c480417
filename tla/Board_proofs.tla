---------------------------- MODULE Board_proofs ----------------------------
(***************************************************************************)
(* Proofs about the board, for any posts, requests, clients and times: the *)
(* copies of a post and of a follow agree, a client id makes one post,     *)
(* authors are told of replies, a client that follows the feed by its      *)
(* revision keeps up with it, one that walks its pages misses nothing, and *)
(* the counts of a post are those of its rows.                             *)
(***************************************************************************)
EXTENDS Board, FiniteSetTheorems, TLAPS

\* Most steps need no arithmetic: Zenon is tried before the SMT solver.
USE ZenonT(2), SMTT(15)

-----------------------------------------------------------------------------
(* The inductive invariant *)

OnPost == {"reply", "react", "report"}
States == {"new", "read", "built", "done", "failed"}
Open == {"read", "built"}
ParentOf(p) == IF Request[p].op = "reply" THEN Request[p].post ELSE NoPost

\* A record that stands for post p: author and parent never change.
Stands(p, post) ==
  post \in Posts /\ post.author = Request[p].actor /\ post.parent = ParentOf(p)

Tables ==
  /\ clock \in Nat
  /\ pc \in [Requests -> States]
  /\ by_id = [p \in Creates |-> by_id[p]]
  /\ by_created_at = [p \in Creates |-> by_created_at[p]]
  /\ \A p \in Creates : by_id[p] # NoPost => Stands(p, by_id[p])

\* A record is copied to the feed unless it is a reply, which has a row under its parent.
Copied ==
  \A p \in Creates :
    /\ by_created_at[p] = IF ParentOf(p) = NoPost THEN by_id[p] ELSE NoPost
    /\ by_id[p] # NoPost /\ ParentOf(p) # NoPost =>
         (\E x \in replies : x[1] = ParentOf(p) /\ x[3] = p) /\ by_id[ParentOf(p)] # NoPost

Rows ==
  /\ IsFiniteSet(reactions)
  /\ \A x \in replies \union reactions \union reports : x[1] \in Creates /\ by_id[x[1]] # NoPost

\* What request r has read: the post it will write back is a record of that post, and a
\* reaction to be removed was among those counted.
Read(r, l) ==
  /\ l.created \in Nat /\ l.now \in Nat /\ IsFiniteSet(l.rows)
  /\ l.had => l.rows # {}
  /\ pc[r] \in Open => Request[r].op \in OnPost \union {"post"}
  /\ pc[r] \in Open /\ Request[r].op \in OnPost => by_id[Request[r].post] # NoPost
  /\ pc[r] = "built" /\ Request[r].op \in OnPost => Stands(Request[r].post, l.post)
  /\ pc[r] = "read" /\ Request[r].op = "report" => Stands(Request[r].post, l.post)

\* A request that has not committed has not stored its post.
Handlers ==
  /\ local = [r \in Requests |-> local[r]]
  /\ \A r \in Requests : Read(r, local[r])
  /\ \A r \in Creates : pc[r] \in Open \union {"new"} => by_id[r] = NoPost

\* Nobody follows themselves, and the two rows of a follow agree.
Follows ==
  /\ following = [e \in Actors \X Actors |-> following[e]]
  /\ followers = [e \in Actors \X Actors |-> followers[e]]
  /\ \A a, b \in Actors : following[<<a, b>>] = followers[<<b, a>>]
  /\ \A a \in Actors : following[<<a, a>>] = NoPost

Readers ==
  /\ client = [rev |-> client.rev, items |-> client.items, copy |-> client.copy]
  /\ walk.seen \subseteq TopLevel /\ client.items \subseteq TopLevel

BoardInv == Tables /\ Copied /\ Rows /\ Handlers /\ Follows /\ Readers

LEMMA Replying ==
  /\ \A p \in Creates : ParentOf(p) = NoPost <=> Request[p].op # "reply"
  /\ \A p \in Creates : p \in Requests /\ Request[p].actor \in Actors
                        /\ ParentOf(p) \in Creates \union {NoPost} /\ p # NoPost
  /\ \A r \in Requests : Request[r].op \in OnPost => Request[r].post \in Creates
  BY BoardAssumption DEF ParentOf, OnPost, Creates, Actors

LEMMA Fresh ==
  ASSUME NEW r \in Creates, NEW created \in Nat
  PROVE  Stands(r, NewPost(Request[r], created))
  BY Replying DEF Stands, NewPost, Posts, ParentOf

LEMMA InvAgree == BoardInv => CopiesAgree
<1> SUFFICES ASSUME BoardInv PROVE CopiesAgree
  OBVIOUS
<1>1. by_id \in [Creates -> Posts \union {NoPost}]
  BY DEF BoardInv, Tables, Stands
<1>2. TypeOK
  BY <1>1 DEF BoardInv, Tables, States, Rows, Readers, TypeOK
<1>3. ASSUME NEW p \in Creates, by_id[p] # NoPost
      PROVE  IF by_id[p].parent = NoPost THEN by_created_at[p] = by_id[p]
             ELSE /\ by_created_at[p] = NoPost
                  /\ \E x \in replies : x[1] = by_id[p].parent /\ x[3] = p
                  /\ by_id[by_id[p].parent] # NoPost
  <2>1. by_id[p].parent = ParentOf(p)
    BY <1>3 DEF BoardInv, Tables, Stands
  <2>2. QED BY <1>3, <2>1, ZenonT(30) DEF BoardInv, Copied
<1>4. ASSUME NEW a \in Actors, NEW b \in Actors
      PROVE  /\ following[<<a, b>>] = followers[<<b, a>>]
             /\ b \in build_profile_connections_response(a, b).followers
                  <=> build_profile_connections_response(a, b).viewer_follows
  BY DEF BoardInv, Follows, build_profile_connections_response, FollowersOf, FollowedBy
<1>5. QED BY <1>2, <1>3, <1>4 DEF CopiesAgree

LEMMA InitBoard == Init => BoardInv
<1> SUFFICES ASSUME Init PROVE BoardInv
  OBVIOUS
<1>1. \A p \in Creates : by_id[p] # NoPost => p \in Seed /\ Stands(p, by_id[p])
  BY Fresh, BoardAssumption DEF Init
<1>2. Tables
  BY <1>1, BoardAssumption DEF Init, Tables, States
<1>3. \A p \in Creates : by_id[p] # NoPost => ParentOf(p) = NoPost
  BY <1>1, BoardAssumption DEF ParentOf
<1>4. Copied
  BY <1>3 DEF Init, Copied
<1>5. Rows
  BY FS_EmptySet DEF Init, Rows
<1>6. ASSUME NEW r \in Requests PROVE pc[r] \in {"new", "done"} /\ local[r] = Nothing
  BY DEF Init
<1>7. \A r \in Requests : Read(r, local[r])
  BY <1>6, FS_EmptySet DEF Read, Nothing, Having, Open
<1>8. \A r \in Creates : pc[r] \in Open \union {"new"} => by_id[r] = NoPost
  <2> SUFFICES ASSUME NEW r \in Creates, by_id[r] # NoPost PROVE pc[r] = "done"
    BY <1>6 DEF Open, Creates
  <2>1. r \in Seed /\ r \in Requests
    BY <1>1, Replying
  <2>2. PICK arriving \in Scenarios :
          pc = [h \in Requests |-> IF h \in arriving THEN "new" ELSE "done"]
    BY DEF Init
  <2>3. QED BY <2>1, <2>2, BoardAssumption
<1>9. Handlers
  BY <1>7, <1>8 DEF Init, Handlers
<1>10. Follows
  BY DEF Init, Follows
<1>11. Readers
  BY DEF Init, Readers, NoPage, NoWalk
<1>12. QED BY <1>2, <1>4, <1>5, <1>9, <1>10, <1>11 DEF BoardInv

-----------------------------------------------------------------------------
(* Requests up to their commit *)

LEMMA Still ==
  ASSUME BoardInv, NEW r, NEW s \in States, pc' = [pc EXCEPT ![r] = s],
         UNCHANGED <<clock, by_id, by_created_at, replies, reactions, reports,
                     following, followers, client, walk>>
  PROVE  Tables' /\ Copied' /\ Rows' /\ Follows' /\ Readers'
<1>1. Tables'
  BY DEF BoardInv, Tables, States
<1>2. Copied' /\ Rows'
  BY DEF BoardInv, Copied, Rows
<1>3. Follows' /\ Readers'
  BY DEF BoardInv, Follows, Readers, TopLevel
<1>4. QED BY <1>1, <1>2, <1>3

LEMMA RejectBoard ==
  ASSUME BoardInv, NEW r \in Requests, pc[r] = "new", Reject(r)
  PROVE  BoardInv'
<1>1. /\ pc' = [pc EXCEPT ![r] = "failed"]
      /\ UNCHANGED <<clock, local, by_id, by_created_at, replies, reactions, reports,
                     following, followers, client, walk>>
  BY DEF Reject, tables, readers
<1>2. Tables' /\ Copied' /\ Rows' /\ Follows' /\ Readers'
  BY <1>1, Still DEF States
<1>3. Handlers'
  BY <1>1 DEF BoardInv, Tables, Handlers, Read, Open
<1>4. QED BY <1>2, <1>3 DEF BoardInv

LEMMA ExistingBoard ==
  ASSUME BoardInv, NEW r \in Requests, ExistingPost(r)
  PROVE  BoardInv'
<1>1. /\ pc' = [pc EXCEPT ![r] = "done"]
      /\ UNCHANGED <<clock, local, by_id, by_created_at, replies, reactions, reports,
                     following, followers, client, walk>>
  BY DEF ExistingPost, tables, readers
<1>2. Tables' /\ Copied' /\ Rows' /\ Follows' /\ Readers'
  BY <1>1, Still DEF States
<1>3. Handlers'
  BY <1>1 DEF BoardInv, Tables, Handlers, Read, Open
<1>4. QED BY <1>2, <1>3 DEF BoardInv

LEMMA ReadBoard ==
  ASSUME BoardInv, NEW r \in Requests, ReadRequest(r)
  PROVE  BoardInv'
<1> DEFINE q == Request[r]
<1>1. /\ pc' = [pc EXCEPT ![r] = "read"]
      /\ UNCHANGED <<clock, by_id, by_created_at, replies, reactions, reports,
                     following, followers, client, walk>>
  BY DEF ReadRequest, tables, readers
<1>2. Tables' /\ Copied' /\ Rows' /\ Follows' /\ Readers'
  BY <1>1, Still DEF States
<1>3. /\ pc[r] = "new" /\ q.op \in OnPost \union {"post"}
      /\ q.op \in OnPost => by_id[q.post] # NoPost
  BY BoardAssumption DEF ReadRequest, OnPost
<1>4. PICK l : /\ local' = [local EXCEPT ![r] = l]
               /\ l = CASE q.op = "react" -> Having(NoPost, ReactionsOf(q.post),
                                                    <<q.post, q.actor, q.emoji>> \in reactions)
                        [] q.op = "report" -> Having(by_id[q.post], {}, FALSE)
                        [] OTHER -> Nothing
  BY DEF ReadRequest
<1>5. Read(r, l)'
  <2>1. l.created = 0 /\ l.now = 0
    BY <1>4 DEF Having, Nothing
  <2>2. IsFiniteSet(l.rows)
    <3>1. l.rows = {} \/ l.rows = ReactionsOf(q.post)
      BY <1>4 DEF Having, Nothing
    <3>2. l.rows \subseteq reactions
      BY <3>1 DEF ReactionsOf
    <3>3. QED BY <3>2, FS_Subset DEF BoardInv, Rows
  <2>3. l.had => l.rows # {}
    <3>1. CASE q.op = "react"
      <4>1. l.had <=> <<q.post, q.actor, q.emoji>> \in reactions
        BY <1>4, <3>1 DEF Having
      <4>2. l.rows = ReactionsOf(q.post)
        BY <1>4, <3>1 DEF Having
      <4>3. QED BY <4>1, <4>2 DEF ReactionsOf
    <3>2. CASE q.op # "react"
      BY <1>4, <3>2 DEF Having, Nothing
    <3>3. QED BY <3>1, <3>2
  <2>4. q.op = "report" => Stands(q.post, l.post)
    BY <1>3, <1>4, Replying DEF BoardInv, Tables, Having, OnPost
  <2>5. pc'[r] = "read"
    BY <1>1 DEF BoardInv, Tables
  <2>6. QED BY <1>1, <1>3, <2>1, <2>2, <2>3, <2>4, <2>5 DEF Read, Open
<1>6. \A s \in Requests : Read(s, local[s])'
  BY <1>1, <1>4, <1>5, ZenonT(30) DEF BoardInv, Tables, Handlers, Read
<1>7. \A s \in Creates : pc'[s] \in Open \union {"new"} => by_id'[s] = NoPost
  BY <1>1, <1>3, Replying DEF BoardInv, Tables, Handlers, Open
<1>8. Handlers'
  BY <1>4, <1>6, <1>7 DEF BoardInv, Handlers
<1>9. QED BY <1>2, <1>8 DEF BoardInv

LEMMA BuildBoard ==
  ASSUME BoardInv, NEW r \in Requests, BuildWrites(r)
  PROVE  BoardInv'
<1> DEFINE q == Request[r]
<1>1. /\ pc[r] = "read" /\ pc' = [pc EXCEPT ![r] = "built"]
      /\ UNCHANGED <<clock, by_id, by_created_at, replies, reactions, reports,
                     following, followers, client, walk>>
  BY DEF BuildWrites, tables, readers
<1>2. Tables' /\ Copied' /\ Rows' /\ Follows' /\ Readers'
  BY <1>1, Still DEF States
<1>3. PICK l : /\ local' = [local EXCEPT ![r] = l]
               /\ l = [post |-> IF q.op \in {"reply", "react"} THEN by_id[q.post]
                                ELSE local[r].post,
                       rows |-> local[r].rows, had |-> local[r].had,
                       created |-> parse_requested_created_at(q.created), now |-> clock]
  BY DEF BuildWrites, BoardInv, Handlers
<1>4. Read(r, l)'
  <2>1. Read(r, local[r])
    BY DEF BoardInv, Handlers
  <2>2. l.created \in Nat /\ l.now \in Nat
    BY <1>3, BoardAssumption DEF parse_requested_created_at, BoardInv, Tables
  <2>3. q.op \in OnPost => Stands(q.post, l.post)
    BY <1>1, <1>3, <2>1, Replying DEF Read, Open, OnPost, BoardInv, Tables
  <2>4. pc'[r] = "built"
    BY <1>1 DEF BoardInv, Tables
  <2>5. QED BY <1>1, <1>3, <2>1, <2>2, <2>3, <2>4 DEF Read, Open
<1>5. ASSUME NEW s \in Requests PROVE Read(s, local[s])'
  <2>1. CASE s = r
    BY <1>3, <1>4, <2>1 DEF BoardInv, Handlers, Read
  <2>2. CASE s # r
    <3>1. pc'[s] = pc[s] /\ local'[s] = local[s] /\ by_id' = by_id
      BY <1>1, <1>3, <2>2 DEF BoardInv, Tables, Handlers
    <3>2. Read(s, local[s])
      BY DEF BoardInv, Handlers
    <3>3. QED BY <3>1, <3>2 DEF Read
  <2>3. QED BY <2>1, <2>2
<1>6. Handlers'
  <2>1. local' = [local EXCEPT ![r] = l] /\ local = [s \in Requests |-> local[s]]
    BY <1>3 DEF BoardInv, Handlers
  <2>2. local' = [s \in Requests |-> local'[s]]
    BY <2>1
  <2>3. ASSUME NEW s \in Creates, pc'[s] \in Open \union {"new"} PROVE by_id'[s] = NoPost
    <3>1. s \in Requests
      BY Replying
    <3>2. pc[s] \in Open \union {"new"}
      BY <1>1, <2>3, <3>1 DEF BoardInv, Tables, Open
    <3>3. QED BY <1>1, <3>2 DEF BoardInv, Handlers
  <2>4. QED BY <1>5, <2>2, <2>3 DEF Handlers
<1>7. QED BY <1>2, <1>6 DEF BoardInv

-----------------------------------------------------------------------------
(* Commits *)

\* Both tables hold what was written, each post under its own name.
LEMMA Stored ==
  ASSUME BoardInv, NEW writes, write_post_response_with_touch(writes),
         \A w \in writes : w[1] \in Creates /\ Stands(w[1], w[2])
  PROVE  /\ by_id' = [p \in Creates |-> by_id'[p]]
         /\ by_created_at' = [p \in Creates |-> by_created_at'[p]]
         /\ \A p \in Creates : (\E w \in writes : w[1] = p) => by_id'[p] # NoPost
         /\ \A p \in Creates : by_id'[p] # NoPost => Stands(p, by_id'[p])
         /\ \A p \in Creates : by_id[p] # NoPost => by_id'[p] # NoPost
         /\ \A p \in Creates : (\E w \in writes : w[1] = p) \/ by_id'[p] = by_id[p]
         /\ \A p \in Creates :
              by_created_at'[p] = IF ParentOf(p) = NoPost THEN by_id'[p] ELSE NoPost
<1> DEFINE written(p) == \E w \in writes : w[1] = p
           last(p) == CHOOSE w \in writes : w[1] = p
<1>1. /\ by_id' = [p \in Creates |-> IF written(p) THEN last(p)[2] ELSE by_id[p]]
      /\ by_created_at' = [p \in Creates |->
           IF by_id'[p] # NoPost /\ by_id'[p].parent = NoPost /\ written(p)
           THEN by_id'[p] ELSE by_created_at[p]]
  BY DEF write_post_response_with_touch
<1>2. ASSUME NEW p \in Creates, written(p) PROVE Stands(p, by_id'[p]) /\ by_id'[p] # NoPost
  <2>1. last(p) \in writes /\ last(p)[1] = p
    BY <1>2
  <2>2. by_id'[p] = last(p)[2]
    BY <1>1, <1>2
  <2>3. Stands(p, by_id'[p])
    BY <2>1, <2>2
  <2>4. QED BY <2>3, BoardAssumption DEF Stands
<1>3. ASSUME NEW p \in Creates, ~written(p)
      PROVE  by_id'[p] = by_id[p] /\ by_created_at'[p] = by_created_at[p]
  BY <1>1, <1>3
<1> HIDE DEF written, last
<1>4. ASSUME NEW p \in Creates
      PROVE  by_created_at'[p] = IF ParentOf(p) = NoPost THEN by_id'[p] ELSE NoPost
  <2>1. CASE written(p)
    <3>1. by_id'[p] # NoPost /\ by_id'[p].parent = ParentOf(p)
      BY <1>2, <2>1 DEF Stands
    <3>2. ParentOf(p) # NoPost => by_created_at[p] = NoPost
      BY DEF BoardInv, Copied
    <3>3. QED BY <1>1, <2>1, <3>1, <3>2
  <2>2. CASE ~written(p)
    BY <1>3, <2>2 DEF BoardInv, Copied
  <2>3. QED BY <2>1, <2>2, ZenonT(30)
<1>5. \A p \in Creates : by_id'[p] # NoPost => Stands(p, by_id'[p])
  BY <1>2, <1>3 DEF BoardInv, Tables
<1>6. \A p \in Creates : by_id[p] # NoPost => by_id'[p] # NoPost
  BY <1>2, <1>3
<1>7. \A p \in Creates : written(p) \/ by_id'[p] = by_id[p]
  BY <1>3
<1>8. /\ by_id' = [p \in Creates |-> by_id'[p]]
      /\ by_created_at' = [p \in Creates |-> by_created_at'[p]]
  BY <1>1
<1>9. \A p \in Creates : written(p) => by_id'[p] # NoPost
  BY <1>2
<1>10. QED BY <1>4, <1>5, <1>6, <1>7, <1>8, <1>9 DEF written

\* A request writes its own post and posts that exist.
Proper(r, writes) ==
  \A w \in writes : /\ w[1] \in Creates /\ Stands(w[1], w[2])
                    /\ w[1] = r \/ by_id[w[1]] # NoPost

LEMMA CommitBoard ==
  ASSUME BoardInv, NEW r \in Requests, NEW writes, Commit(r, writes), Proper(r, writes)
  PROVE  /\ Tables' /\ Handlers' /\ Follows' /\ Readers'
         /\ \A p \in Creates : by_id[p] # NoPost => by_id'[p] # NoPost
         /\ \A p \in Creates : p # r /\ by_id'[p] # NoPost => by_id[p] # NoPost
         /\ \A w \in writes : by_id'[w[1]] # NoPost
         /\ \A p \in Creates :
              by_created_at'[p] = IF ParentOf(p) = NoPost THEN by_id'[p] ELSE NoPost
<1>1. /\ pc' = [pc EXCEPT ![r] = "done"]
      /\ local' = [local EXCEPT ![r] = Nothing]
      /\ write_post_response_with_touch(writes)
      /\ UNCHANGED <<clock, following, followers, client, walk>>
  BY DEF Commit, readers
<1>2. /\ by_id' = [p \in Creates |-> by_id'[p]]
      /\ by_created_at' = [p \in Creates |-> by_created_at'[p]]
      /\ \A p \in Creates : (\E w \in writes : w[1] = p) => by_id'[p] # NoPost
      /\ \A p \in Creates : by_id'[p] # NoPost => Stands(p, by_id'[p])
      /\ \A p \in Creates : by_id[p] # NoPost => by_id'[p] # NoPost
      /\ \A p \in Creates : (\E w \in writes : w[1] = p) \/ by_id'[p] = by_id[p]
      /\ \A p \in Creates :
           by_created_at'[p] = IF ParentOf(p) = NoPost THEN by_id'[p] ELSE NoPost
  BY <1>1, Stored DEF Proper
<1>3. Tables'
  BY <1>1, <1>2 DEF BoardInv, Tables, States, Stands
<1>4. \A p \in Creates : p # r /\ by_id'[p] # NoPost => by_id[p] # NoPost
  BY <1>2 DEF Proper
<1>5. Handlers'
  <2>1. ASSUME NEW s \in Requests PROVE Read(s, local[s])'
    <3>1. CASE s = r
      <4>1. local'[s] = Nothing /\ pc'[s] = "done"
        BY <1>1, <3>1 DEF BoardInv, Tables, Handlers
      <4>2. QED BY <4>1, FS_EmptySet DEF Read, Nothing, Having, Open
    <3>2. CASE s # r
      <4>1. local'[s] = local[s] /\ pc'[s] = pc[s] /\ Read(s, local[s])
        BY <1>1, <3>2 DEF BoardInv, Tables, Handlers
      <4>2. Request[s].op \in OnPost /\ by_id[Request[s].post] # NoPost
              => by_id'[Request[s].post] # NoPost
        BY <1>2, Replying
      <4>3. QED BY <4>1, <4>2 DEF Read, Stands, ParentOf
    <3>3. QED BY <3>1, <3>2
  <2>2. \A s \in Creates : pc'[s] \in Open \union {"new"} => by_id'[s] = NoPost
    <3> SUFFICES ASSUME NEW s \in Creates, pc'[s] \in Open \union {"new"}
                 PROVE  by_id'[s] = NoPost
      OBVIOUS
    <3>1. s # r /\ pc'[s] = pc[s]
      BY <1>1, Replying DEF BoardInv, Tables, Open
    <3>2. QED BY <1>4, <3>1 DEF BoardInv, Handlers
  <2>3. QED BY <1>1, <2>1, <2>2 DEF BoardInv, Handlers
<1>6. Follows'
  BY <1>1 DEF BoardInv, Follows
<1>7. Readers'
  <2>1. TopLevel \subseteq TopLevel'
    BY <1>2 DEF BoardInv, Copied, TopLevel
  <2>2. QED BY <1>1, <2>1 DEF BoardInv, Readers
<1>8. \A w \in writes : by_id'[w[1]] # NoPost
  BY <1>2 DEF Proper
<1>9. QED BY <1>2, <1>3, <1>4, <1>5, <1>6, <1>7, <1>8, ZenonT(30)

\* What a built request writes back stands for the post it read.
LEMMA WrittenBack ==
  ASSUME BoardInv, NEW r \in Requests, pc[r] = "built", Request[r].op \in OnPost
  PROVE  /\ Request[r].post \in Creates /\ by_id[Request[r].post] # NoPost
         /\ Stands(Request[r].post, update_post_reply_count(r))
         /\ Stands(Request[r].post, update_post_reaction_count(r))
         /\ Stands(Request[r].post, [Touched(r) EXCEPT !.moderation = "reported"])
<1> DEFINE p == Request[r].post
           l == local[r]
<1>1. p \in Creates /\ by_id[p] # NoPost /\ Stands(p, l.post) /\ l.now \in Nat
  <2>1. Read(r, l)
    BY DEF BoardInv, Handlers
  <2>2. QED BY <2>1, Replying DEF Read, Open
<1>2. Stands(p, Touched(r))
  BY <1>1 DEF Stands, Posts, Touched
<1> HIDE DEF p
<1>3. Stands(p, update_post_reply_count(r))
  BY <1>2 DEF Stands, Posts, update_post_reply_count
<1>4. Stands(p, [Touched(r) EXCEPT !.moderation = "reported"])
  BY <1>2 DEF Stands, Posts
<1>5. IsFiniteSet(l.rows) /\ (l.had => l.rows # {})
  BY DEF BoardInv, Handlers, Read
<1>6. Cardinality(l.rows) \in Nat /\ (l.had => Cardinality(l.rows) # 0)
  BY <1>5, FS_CardinalityType, FS_EmptySet
<1>7. PICK n \in Nat : update_post_reaction_count(r) = [Touched(r) EXCEPT !.reactions = n]
  <2>1. CASE l.had
    <3>1. Cardinality(l.rows) - 1 \in Nat
      BY <1>6, <2>1
    <3>2. QED BY <2>1, <3>1 DEF update_post_reaction_count
  <2>2. CASE ~l.had
    <3>1. Cardinality(l.rows) + 1 \in Nat
      BY <1>6
    <3>2. QED BY <2>2, <3>1 DEF update_post_reaction_count
  <2>3. QED BY <2>1, <2>2
<1>8. Stands(p, update_post_reaction_count(r))
  BY <1>2, <1>7 DEF Stands, Posts
<1>9. QED BY <1>1, <1>3, <1>4, <1>8 DEF p

\* The posts a commit of create_post_record writes.
CreateWrites(r) ==
  {<<r, NewPost(Request[r], local[r].created)>>}
    \union IF Request[r].op = "reply" THEN {<<Request[r].post, update_post_reply_count(r)>>}
           ELSE {}

LEMMA CreateCommits ==
  ASSUME BoardInv, NEW r \in Requests, create_post_record(r)
  PROVE  /\ r \in Creates /\ pc[r] = "built" /\ by_id[r] = NoPost
         /\ Commit(r, CreateWrites(r)) /\ Proper(r, CreateWrites(r))
<1>1. r \in Creates /\ Commit(r, CreateWrites(r))
  <2>1. CASE Request[r].op = "reply"
    BY <2>1 DEF create_post_record, CreateWrites
  <2>2. CASE Request[r].op # "reply"
    <3>1. CreateWrites(r) = {<<r, NewPost(Request[r], local[r].created)>>}
      BY <2>2 DEF CreateWrites
    <3>2. QED BY <2>2, <3>1 DEF create_post_record
  <2>3. QED BY <2>1, <2>2
<1>2. pc[r] = "built" /\ by_id[r] = NoPost
  BY <1>1 DEF Commit, BoardInv, Handlers, Open
<1>3. Stands(r, NewPost(Request[r], local[r].created))
  BY <1>1, Fresh DEF BoardInv, Handlers, Read
<1>4. Proper(r, CreateWrites(r))
  <2> SUFFICES ASSUME NEW w \in CreateWrites(r)
               PROVE  /\ w[1] \in Creates /\ Stands(w[1], w[2])
                      /\ w[1] = r \/ by_id[w[1]] # NoPost
    BY DEF Proper
  <2>1. CASE w = <<r, NewPost(Request[r], local[r].created)>>
    BY <1>1, <1>3, <2>1
  <2>2. CASE w = <<Request[r].post, update_post_reply_count(r)>> /\ Request[r].op = "reply"
    BY <1>2, <2>2, WrittenBack DEF OnPost
  <2>3. QED BY <2>1, <2>2 DEF CreateWrites
<1>5. QED BY <1>1, <1>2, <1>4

LEMMA CreateBoard ==
  ASSUME BoardInv, NEW r \in Requests, create_post_record(r)
  PROVE  BoardInv'
<1> DEFINE q == Request[r]
<1>1. r \in Creates /\ pc[r] = "built" /\ Commit(r, CreateWrites(r)) /\ Proper(r, CreateWrites(r))
  BY CreateCommits
<1>2. /\ Tables' /\ Handlers' /\ Follows' /\ Readers'
      /\ \A p \in Creates : by_id[p] # NoPost => by_id'[p] # NoPost
      /\ \A p \in Creates : p # r /\ by_id'[p] # NoPost => by_id[p] # NoPost
      /\ \A p \in Creates :
           by_created_at'[p] = IF ParentOf(p) = NoPost THEN by_id'[p] ELSE NoPost
  BY <1>1, CommitBoard
<1>3. /\ UNCHANGED <<reactions, reports>> /\ replies \subseteq replies'
      /\ q.op = "reply" => replies' = replies \union {<<q.post, local[r].created, r>>}
      /\ q.op # "reply" => replies' = replies
  BY DEF create_post_record
<1>4. q.op = "reply" => q.post \in Creates /\ by_id[q.post] # NoPost
  BY <1>1, WrittenBack DEF OnPost
<1>5. Rows'
  <2>1. ASSUME NEW x \in replies', x \notin replies PROVE x[1] = q.post /\ q.op = "reply"
    <3>1. q.op = "reply" /\ x = <<q.post, local[r].created, r>>
      BY <1>3, <2>1
    <3>2. QED BY <3>1
  <2>2. QED BY <1>2, <1>3, <1>4, <2>1 DEF BoardInv, Rows
<1>6. Copied'
  <2> SUFFICES ASSUME NEW p \in Creates, by_id'[p] # NoPost, ParentOf(p) # NoPost
               PROVE  /\ \E x \in replies' : x[1] = ParentOf(p) /\ x[3] = p
                      /\ by_id'[ParentOf(p)] # NoPost
    BY <1>2 DEF Copied, ParentOf
  <2>1. CASE p = r
    <3>1. ParentOf(p) = q.post /\ q.op = "reply"
      BY <2>1 DEF ParentOf
    <3>2. <<q.post, local[r].created, r>> \in replies'
      BY <1>3, <3>1
    <3>3. QED BY <1>2, <1>4, <2>1, <3>1, <3>2
  <2>2. CASE p # r
    <3>1. /\ \E x \in replies : x[1] = ParentOf(p) /\ x[3] = p
          /\ by_id[ParentOf(p)] # NoPost
      BY <1>2, <2>2 DEF BoardInv, Copied
    <3>2. ParentOf(p) \in Creates
      BY Replying
    <3>3. QED BY <1>2, <1>3, <3>1, <3>2
  <2>3. QED BY <2>1, <2>2
<1>7. QED BY <1>2, <1>5, <1>6 DEF BoardInv

\* toggle_reaction_record and submit_report_record write one post that exists, and rows of it.
LEMMA AmendBoard ==
  ASSUME BoardInv, NEW r \in Requests, toggle_reaction_record(r) \/ submit_report_record(r)
  PROVE  BoardInv'
<1> DEFINE p == Request[r].post
<1>1. pc[r] = "built" /\ Request[r].op \in {"react", "report"}
  BY DEF toggle_reaction_record, submit_report_record, Commit
<1>2. p \in Creates /\ by_id[p] # NoPost /\ r \notin Creates
  BY <1>1, WrittenBack DEF OnPost, Creates
<1>3. PICK post : Commit(r, {<<p, post>>}) /\ Stands(p, post)
  BY <1>1, WrittenBack DEF OnPost, toggle_reaction_record, submit_report_record
<1>4. Proper(r, {<<p, post>>})
  BY <1>2, <1>3 DEF Proper
<1>5. /\ Tables' /\ Handlers' /\ Follows' /\ Readers'
      /\ \A o \in Creates : by_id[o] # NoPost => by_id'[o] # NoPost
      /\ \A o \in Creates : o # r /\ by_id'[o] # NoPost => by_id[o] # NoPost
      /\ \A o \in Creates :
           by_created_at'[o] = IF ParentOf(o) = NoPost THEN by_id'[o] ELSE NoPost
  BY <1>3, <1>4, CommitBoard
<1>6. /\ replies' = replies
      /\ \/ reactions' = reactions
         \/ reactions' = reactions \ {<<p, Request[r].actor, Request[r].emoji>>}
         \/ reactions' = reactions \union {<<p, Request[r].actor, Request[r].emoji>>}
      /\ reports' = reports \/ reports' = reports \union {<<p, Request[r].actor>>}
  BY DEF toggle_reaction_record, submit_report_record
<1>7. Rows'
  <2>1. IsFiniteSet(reactions')
    <3>1. PICK row : row = <<p, Request[r].actor, Request[r].emoji>>
      OBVIOUS
    <3>2. IsFiniteSet(reactions)
      BY DEF BoardInv, Rows
    <3>3. IsFiniteSet(reactions \ {row}) /\ IsFiniteSet(reactions \union {row})
      BY <3>2, FS_AddElement, FS_RemoveElement
    <3>4. QED BY <1>6, <3>1, <3>2, <3>3
  <2>2. \A x \in reactions' \union reports' :
          x \in reactions \union reports \/ x[1] = p
    BY <1>6
  <2>3. QED BY <1>2, <1>5, <1>6, <2>1, <2>2 DEF BoardInv, Rows
<1>8. Copied'
  <2>1. ASSUME NEW o \in Creates, by_id'[o] # NoPost, ParentOf(o) # NoPost
        PROVE  /\ \E x \in replies' : x[1] = ParentOf(o) /\ x[3] = o
               /\ by_id'[ParentOf(o)] # NoPost
    BY <1>2, <1>5, <1>6, <2>1, Replying DEF BoardInv, Copied
  <2>2. QED BY <1>5, <2>1 DEF Copied, ParentOf
<1>9. QED BY <1>5, <1>7, <1>8 DEF BoardInv

-----------------------------------------------------------------------------
(* Follows and readers *)

LEMMA FollowBoard ==
  ASSUME BoardInv, NEW r \in Requests, apply_follow_state(r)
  PROVE  BoardInv'
<1> DEFINE q == Request[r]
           record == IF q.op = "follow" THEN r ELSE NoPost
<1>1. /\ pc' = [pc EXCEPT ![r] = "done"]
      /\ UNCHANGED <<clock, local, by_id, by_created_at, replies, reactions, reports,
                     client, walk>>
      /\ following' = [following EXCEPT ![<<q.actor, q.target>>] = record]
      /\ followers' = [followers EXCEPT ![<<q.target, q.actor>>] = record]
      /\ q.actor # q.target
  BY DEF apply_follow_state, readers, validate, validate_create_follow_request
<1> HIDE DEF record
<1>2. Tables' /\ Copied' /\ Rows' /\ Readers'
  <2>1. Tables'
    BY <1>1 DEF BoardInv, Tables, States
  <2>2. Copied' /\ Rows' /\ Readers'
    BY <1>1 DEF BoardInv, Copied, Rows, Readers, TopLevel
  <2>3. QED BY <2>1, <2>2
<1>3. Handlers'
  <2>1. \A s \in Requests : pc'[s] = pc[s] \/ pc'[s] = "done"
    BY <1>1 DEF BoardInv, Tables
  <2>2. ASSUME NEW s \in Requests PROVE Read(s, local[s])'
    <3>1. Read(s, local[s])
      BY DEF BoardInv, Handlers
    <3>2. QED BY <1>1, <2>1, <3>1 DEF Read, Open
  <2>3. \A s \in Creates : pc'[s] \in Open \union {"new"} => by_id'[s] = NoPost
    BY <1>1, <2>1, Replying DEF BoardInv, Handlers, Open
  <2>4. local' = [s \in Requests |-> local'[s]]
    BY <1>1 DEF BoardInv, Handlers
  <2>5. QED BY <2>2, <2>3, <2>4 DEF Handlers
<1>4. Follows'
  <2>1. /\ following' = [e \in Actors \X Actors |-> following'[e]]
        /\ followers' = [e \in Actors \X Actors |-> followers'[e]]
    BY <1>1 DEF BoardInv, Follows
  <2>2. ASSUME NEW a \in Actors, NEW b \in Actors
        PROVE  /\ following'[<<a, b>>] = IF a = q.actor /\ b = q.target THEN record
                                         ELSE following[<<a, b>>]
               /\ followers'[<<a, b>>] = IF b = q.actor /\ a = q.target THEN record
                                         ELSE followers[<<a, b>>]
    BY <1>1 DEF BoardInv, Follows
  <2>3. \A a, b \in Actors : following'[<<a, b>>] = followers'[<<b, a>>]
    <3> SUFFICES ASSUME NEW a \in Actors, NEW b \in Actors
                 PROVE  following'[<<a, b>>] = followers'[<<b, a>>]
      OBVIOUS
    <3>1. following[<<a, b>>] = followers[<<b, a>>]
      BY DEF BoardInv, Follows
    <3>2. QED BY <2>2, <3>1
  <2>4. \A a \in Actors : following'[<<a, a>>] = NoPost
    BY <1>1, <2>2 DEF BoardInv, Follows
  <2>5. QED BY <2>1, <2>3, <2>4 DEF Follows
<1>5. QED BY <1>2, <1>3, <1>4 DEF BoardInv

LEMMA PagesInFeed == PageItems \subseteq TopLevel /\ \A c : PageAfter(c) \subseteq TopLevel
  BY DEF PageItems, PageAfter, FirstOf

LEMMA ReaderBoard ==
  ASSUME BoardInv, Tick \/ LoadFeed \/ SyncFeed \/ FirstPage \/ NextPage
  PROVE  BoardInv'
<1>1. UNCHANGED <<pc, local, by_id, by_created_at, replies, reactions, reports,
                  following, followers>>
  BY DEF Tick, LoadFeed, SyncFeed, FirstPage, NextPage, tables
<1>2. clock' \in Nat
  BY DEF Tick, LoadFeed, SyncFeed, FirstPage, NextPage, BoardInv, Tables
<1>3. Tables' /\ Copied' /\ Rows'
  BY <1>1, <1>2 DEF BoardInv, Tables, Copied, Rows
<1>4. Handlers' /\ Follows'
  BY <1>1 DEF BoardInv, Handlers, Read, Follows
<1>5. client'.items \subseteq TopLevel
  <2>1. CASE LoadFeed
    BY <2>1, PagesInFeed DEF LoadFeed
  <2>2. CASE SyncFeed
    <3>1. build_feed_changes_response(client.rev) \subseteq TopLevel
      BY PagesInFeed DEF build_feed_changes_response
    <3>2. client'.items \subseteq client.items \union build_feed_changes_response(client.rev)
      <4>1. CASE client' = [client EXCEPT !.rev = NoPost]
        BY <4>1 DEF BoardInv, Readers
      <4>2. CASE client'.items = client.items \union build_feed_changes_response(client.rev)
        BY <4>2
      <4>3. QED BY <2>2, <4>1, <4>2 DEF SyncFeed
    <3>3. QED BY <3>1, <3>2 DEF BoardInv, Readers
  <2>3. CASE Tick \/ FirstPage \/ NextPage
    BY <2>3 DEF Tick, FirstPage, NextPage, readers, BoardInv, Readers
  <2>4. QED BY <2>1, <2>2, <2>3
<1>6. walk'.seen \subseteq TopLevel
  <2>1. CASE FirstPage
    BY <2>1, PagesInFeed DEF FirstPage
  <2>2. CASE NextPage
    <3>1. walk'.seen \subseteq walk.seen \union PageAfter(walk.cursor)
      BY <2>2 DEF NextPage
    <3>2. QED BY <3>1, PagesInFeed DEF BoardInv, Readers
  <2>3. CASE Tick \/ LoadFeed \/ SyncFeed
    BY <2>3 DEF Tick, LoadFeed, SyncFeed, readers, BoardInv, Readers
  <2>4. QED BY <2>1, <2>2, <2>3
<1>7. Readers'
  <2>1. client' = [rev |-> client'.rev, items |-> client'.items, copy |-> client'.copy]
    BY DEF BoardInv, Readers, Tick, LoadFeed, SyncFeed, FirstPage, NextPage, readers
  <2>2. QED BY <1>1, <1>5, <1>6, <2>1 DEF Readers, TopLevel
<1>8. QED BY <1>3, <1>4, <1>7 DEF BoardInv

LEMMA StutterBoard == BoardInv /\ UNCHANGED vars => BoardInv'
<1> SUFFICES ASSUME BoardInv, UNCHANGED vars PROVE BoardInv'
  OBVIOUS
<1> USE DEF vars, tables, readers
<1>1. Tables' /\ Copied' /\ Rows'
  BY DEF BoardInv, Tables, Copied, Rows
<1>2. Handlers' /\ Follows' /\ Readers'
  BY ZenonT(30) DEF BoardInv, Handlers, Read, Follows, Readers, TopLevel
<1>3. QED BY <1>1, <1>2 DEF BoardInv

\* BoardInv holds in every state, through all interleavings of reads and commits.
THEOREM BoardInductive == Spec => []BoardInv
<1>1. BoardInv /\ [Next]_vars => BoardInv'
  <2> SUFFICES ASSUME BoardInv, Next PROVE BoardInv'
    BY StutterBoard
  <2>1. ASSUME NEW r \in Requests,
               RejectRequest(r) \/ PostNotFound(r) \/ ExistingPost(r) \/ ReadRequest(r)
               \/ BuildWrites(r)
        PROVE  BoardInv'
    BY <2>1, RejectBoard, ExistingBoard, ReadBoard, BuildBoard DEF RejectRequest, PostNotFound
  <2>2. ASSUME NEW r \in Requests,
               create_post_record(r) \/ toggle_reaction_record(r) \/ submit_report_record(r)
               \/ apply_follow_state(r)
        PROVE  BoardInv'
    BY <2>2, CreateBoard, AmendBoard, FollowBoard
  <2>3. QED BY <2>1, <2>2, ReaderBoard DEF Next
<1>2. QED BY <1>1, InitBoard, PTL DEF Spec

\* The copies of a post and of a follow agree (CopiesAgree): write_post_response_with_touch
\* and apply_follow_state write both, and author and parent of a post never change.
THEOREM CopiesOfPostsAgree == Spec => []CopiesAgree
  BY BoardInductive, InvAgree, PTL

-----------------------------------------------------------------------------
(* Client ids *)

Cid(r) == Request[r].clientId

\* A client id that is not doubled stands for the post of every answer to it; while a
\* request that did not find it is open, it stands for none, and no other request is open.
OnceInv ==
  /\ answer = [r \in Requests |-> answer[r]] /\ client_ids = [c \in ClientIds |-> client_ids[c]]
  /\ \A r \in Creates : answer[r] # NoPost /\ Cid(r) \notin doubled
                          => answer[r] = client_ids[Cid(r)]
  /\ \A r \in Creates : pc[r] \in Open /\ Cid(r) \notin doubled => client_ids[Cid(r)] = NoPost
  /\ \A r, o \in Creates : /\ r # o /\ pc[r] \in Open /\ pc[o] \in Open
                           /\ Cid(r) = Cid(o)
                           => Cid(r) \in doubled

LEMMA InitOnce == Init => OnceInv
  BY Replying DEF Init, OnceInv, Open

LEMMA QuietOnce ==
  ASSUME OnceInv, UNCHANGED <<client_ids, answer, doubled>>,
         \A r \in Creates : pc'[r] \in Open => pc[r] \in Open
  PROVE  OnceInv'
  BY DEF OnceInv, Cid

LEMMA ReadOnce ==
  ASSUME BoardInv, OnceInv, NEW r \in Requests, ReadRequest(r)
  PROVE  OnceInv'
<1>1. /\ pc' = [pc EXCEPT ![r] = "read"] /\ UNCHANGED <<client_ids, answer>>
      /\ r \in Creates => client_ids[Cid(r)] = NoPost
  BY DEF ReadRequest, tables, Cid
<1>2. doubled \subseteq doubled'
  BY DEF ReadRequest
<1>3. ASSUME NEW o \in Creates, o # r, r \in Creates, pc[o] \in Open, Cid(o) = Cid(r)
      PROVE  Cid(r) \in doubled'
  BY <1>3 DEF ReadRequest, Cid, Open
<1>4. \A o \in Creates : o # r => pc'[o] = pc[o]
  BY <1>1, Replying DEF BoardInv, Tables
<1>5. ASSUME NEW s \in Creates, pc'[s] \in Open, Cid(s) \notin doubled'
      PROVE  client_ids'[Cid(s)] = NoPost
  BY <1>1, <1>2, <1>4, <1>5 DEF OnceInv
<1>6. ASSUME NEW s \in Creates, NEW o \in Creates, s # o, pc'[s] \in Open, pc'[o] \in Open,
             Cid(s) = Cid(o)
      PROVE  Cid(s) \in doubled'
  <2>1. CASE s = r
    BY <1>3, <1>4, <1>6, <2>1
  <2>2. CASE o = r
    BY <1>3, <1>4, <1>6, <2>2
  <2>3. CASE s # r /\ o # r
    BY <1>2, <1>4, <1>6, <2>3 DEF OnceInv
  <2>4. QED BY <2>1, <2>2, <2>3
<1>7. ASSUME NEW s \in Creates, answer'[s] # NoPost, Cid(s) \notin doubled'
      PROVE  answer'[s] = client_ids'[Cid(s)]
  BY <1>1, <1>2, <1>7 DEF OnceInv
<1>8. QED BY <1>1, <1>5, <1>6, <1>7 DEF OnceInv, Cid

LEMMA ExistingOnce ==
  ASSUME BoardInv, OnceInv, NEW r \in Requests, ExistingPost(r)
  PROVE  OnceInv'
<1>1. /\ pc' = [pc EXCEPT ![r] = "done"] /\ UNCHANGED <<client_ids, doubled>>
      /\ answer' = [answer EXCEPT ![r] = client_ids[Cid(r)]]
  BY DEF ExistingPost, tables, Cid
<1>2. \A o \in Creates : pc'[o] \in Open => pc[o] \in Open
  BY <1>1, Replying DEF BoardInv, Tables, Open
<1>3. ASSUME NEW s \in Creates, answer'[s] # NoPost, Cid(s) \notin doubled'
      PROVE  answer'[s] = client_ids'[Cid(s)]
  BY <1>1, <1>3, Replying DEF OnceInv
<1>4. answer' = [s \in Requests |-> answer'[s]]
  BY <1>1 DEF OnceInv
<1>5. QED BY <1>1, <1>2, <1>3, <1>4 DEF OnceInv, Cid

LEMMA CreateOnce ==
  ASSUME BoardInv, OnceInv, NEW r \in Requests, create_post_record(r)
  PROVE  OnceInv'
<1>1. r \in Creates /\ pc[r] = "built" /\ Commit(r, CreateWrites(r))
  BY CreateCommits
<1>2. /\ pc' = [pc EXCEPT ![r] = "done"] /\ UNCHANGED doubled
      /\ answer' = [answer EXCEPT ![r] = r]
  BY <1>1 DEF Commit
<1>3. client_ids' = [client_ids EXCEPT ![Cid(r)] = r] /\ Cid(r) \in ClientIds
  BY DEF create_post_record, Cid, ClientIds
<1>4. \A o \in Creates : pc'[o] \in Open => pc[o] \in Open /\ o # r
  BY <1>2, Replying DEF BoardInv, Tables, Open
<1>5. ASSUME NEW s \in Creates, answer'[s] # NoPost, Cid(s) \notin doubled'
      PROVE  answer'[s] = client_ids'[Cid(s)]
  <2>1. CASE s = r
    BY <1>2, <1>3, <2>1 DEF OnceInv
  <2>2. CASE s # r
    <3>1. answer[s] # NoPost /\ answer'[s] = answer[s] /\ answer[s] = client_ids[Cid(s)]
      BY <1>2, <1>5, <2>2 DEF OnceInv
    <3>2. Cid(s) # Cid(r)
      BY <1>1, <1>2, <1>5, <3>1 DEF OnceInv, Open
    <3>3. QED BY <1>3, <3>1, <3>2 DEF OnceInv
  <2>3. QED BY <2>1, <2>2
<1>6. ASSUME NEW s \in Creates, pc'[s] \in Open, Cid(s) \notin doubled'
      PROVE  client_ids'[Cid(s)] = NoPost
  <2>1. Cid(s) # Cid(r)
    BY <1>1, <1>2, <1>4, <1>6 DEF OnceInv, Open
  <2>2. QED BY <1>2, <1>3, <1>4, <1>6, <2>1 DEF OnceInv
<1>7. /\ answer' = [s \in Requests |-> answer'[s]]
      /\ client_ids' = [c \in ClientIds |-> client_ids'[c]]
  BY <1>2, <1>3 DEF OnceInv
<1>8. QED BY <1>2, <1>4, <1>5, <1>6, <1>7 DEF OnceInv, Cid

LEMMA AmendOnce ==
  ASSUME BoardInv, OnceInv, NEW r \in Requests,
         toggle_reaction_record(r) \/ submit_report_record(r)
  PROVE  OnceInv'
<1>1. r \notin Creates
  BY DEF toggle_reaction_record, submit_report_record, Creates
<1>2. /\ pc' = [pc EXCEPT ![r] = "done"] /\ UNCHANGED <<client_ids, doubled>>
      /\ answer' = [answer EXCEPT ![r] = r]
  BY DEF toggle_reaction_record, submit_report_record, Commit
<1>3. \A s \in Creates : answer'[s] = answer[s] /\ pc'[s] = pc[s]
  BY <1>1, <1>2, Replying DEF OnceInv, BoardInv, Tables
<1>4. answer' = [s \in Requests |-> answer'[s]]
  BY <1>2 DEF OnceInv
<1>5. QED BY <1>2, <1>3, <1>4 DEF OnceInv, Cid

\* Steps that store and answer nothing, and open no request.
Aside(r) == RejectRequest(r) \/ PostNotFound(r) \/ BuildWrites(r) \/ apply_follow_state(r)

LEMMA AsideKeeps ==
  ASSUME BoardInv, \/ \E r \in Requests : Aside(r)
                   \/ Tick \/ LoadFeed \/ SyncFeed \/ FirstPage \/ NextPage
                   \/ UNCHANGED vars
  PROVE  /\ UNCHANGED <<by_id, client_ids, answer, pushed, dropped, doubled>>
         /\ \A r \in Creates : pc'[r] \in Open => pc[r] \in Open
<1>1. ASSUME NEW r \in Requests, Aside(r)
      PROVE  /\ UNCHANGED <<by_id, client_ids, answer, pushed, dropped, doubled>>
             /\ \E s \in {"failed", "done", "built"} :
                  pc' = [pc EXCEPT ![r] = s] /\ (s = "built" => pc[r] = "read")
  BY <1>1 DEF Aside, RejectRequest, PostNotFound, Reject, BuildWrites,
                          apply_follow_state, tables, history
<1>2. CASE \E r \in Requests : Aside(r)
  BY <1>1, <1>2, Replying DEF BoardInv, Tables, Open
<1>3. CASE Tick \/ LoadFeed \/ SyncFeed \/ FirstPage \/ NextPage \/ UNCHANGED vars
  BY <1>3 DEF Tick, LoadFeed, SyncFeed, FirstPage, NextPage, vars, tables, history
<1>4. QED BY <1>2, <1>3

\* OnceInv holds in every state: an answered client id that is not doubled has one post.
LEMMA OnceInductive == Spec => []OnceInv
<1>1. BoardInv /\ OnceInv /\ [Next]_vars => OnceInv'
  <2> SUFFICES ASSUME BoardInv, OnceInv, [Next]_vars PROVE OnceInv'
    OBVIOUS
  <2>1. CASE \E r \in Requests : ExistingPost(r) \/ ReadRequest(r) \/ create_post_record(r)
                                 \/ toggle_reaction_record(r) \/ submit_report_record(r)
    BY <2>1, ExistingOnce, ReadOnce, CreateOnce, AmendOnce
  <2>2. CASE \/ \E r \in Requests : Aside(r)
             \/ Tick \/ LoadFeed \/ SyncFeed \/ FirstPage \/ NextPage \/ UNCHANGED vars
    BY <2>2, AsideKeeps, QuietOnce
  <2>3. QED BY <2>1, <2>2 DEF Next, Aside
<1>2. QED BY <1>1, BoardInductive, InitOnce, PTL DEF Spec

\* Two requests with one client id make one post (OnePost), unless create_post_record looked
\* the id up for both before it had stored it for one.
THEOREM ClientIdMakesOnePost == Spec => []OnePost
<1>1. OnceInv => OnePost
  BY DEF OnceInv, OnePost, Cid
<1>2. QED BY <1>1, OnceInductive, PTL

-----------------------------------------------------------------------------
(* Pushes *)

Author(p) == Request[p].actor

\* A client id stands for a stored post.  A stored reply was pushed, unless its client went
\* away or it is the author's own; what was pushed is of two authors.
PushInv ==
  /\ client_ids = [c \in ClientIds |-> client_ids[c]]
  /\ \A c \in ClientIds : client_ids[c] # NoPost =>
       client_ids[c] \in Creates /\ by_id[client_ids[c]] # NoPost
  /\ \A p \in Creates : by_id[p] # NoPost /\ ParentOf(p) # NoPost =>
       \/ <<ParentOf(p), p>> \in pushed \/ p \in dropped \/ Author(ParentOf(p)) = Author(p)
  /\ \A x \in pushed : /\ x[1] \in Creates /\ x[2] \in Creates
                       /\ by_id[x[1]] # NoPost /\ by_id[x[2]] # NoPost
                       /\ Author(x[1]) # Author(x[2])

LEMMA InvPushed == BoardInv /\ PushInv => RepliesPushed
<1> SUFFICES ASSUME BoardInv, PushInv PROVE RepliesPushed
  OBVIOUS
<1>1. \A p \in Creates : by_id[p] # NoPost =>
        by_id[p].author = Author(p) /\ by_id[p].parent = ParentOf(p)
  BY DEF BoardInv, Tables, Stands, Author
<1>2. ASSUME NEW p \in Creates, by_id[p] # NoPost, by_id[p].parent # NoPost
      PROVE  \/ <<by_id[p].parent, p>> \in pushed \/ p \in dropped
             \/ by_id[by_id[p].parent].author = by_id[p].author
  <2>1. ParentOf(p) \in Creates /\ by_id[ParentOf(p)] # NoPost
    BY <1>1, <1>2, Replying DEF BoardInv, Copied
  <2>2. QED BY <1>1, <1>2, <2>1 DEF PushInv
<1>3. \A x \in pushed : by_id[x[1]].author # by_id[x[2]].author
  BY <1>1 DEF PushInv
<1>4. QED BY <1>2, <1>3 DEF RepliesPushed

LEMMA InitPush == Init => PushInv
<1> SUFFICES ASSUME Init PROVE PushInv
  OBVIOUS
<1>1. \A p \in Creates : by_id[p] # NoPost => ParentOf(p) = NoPost
  BY BoardAssumption DEF Init, ParentOf
<1>2. ASSUME NEW c \in ClientIds, client_ids[c] # NoPost PROVE client_ids[c] \in Seed
  BY <1>2 DEF Init
<1>3. \A p \in Seed : p \in Creates /\ by_id[p] # NoPost
  BY Fresh, BoardAssumption DEF Init, Stands
<1>4. QED BY <1>1, <1>2, <1>3 DEF Init, PushInv

\* What Push(r) adds for an answer that is stored.
LEMMA PushAdds ==
  ASSUME BoardInv, BoardInv', NEW r \in Requests, NEW a \in Creates, Push(r), answer'[r] = a,
         by_id'[a] # NoPost, Request[r].op = "reply", by_id[Request[r].post] # NoPost
  PROVE  \/ /\ dropped' = dropped \union {r} /\ pushed' = pushed
         \/ /\ dropped' = dropped
            /\ pushed' = pushed \union IF Author(Request[r].post) = Author(a) THEN {}
                                       ELSE {<<Request[r].post, a>>}
<1>1. Request[r].post \in Creates
  BY Replying DEF OnPost
<1>2. by_id[Request[r].post].author = Author(Request[r].post) /\ by_id'[a].author = Author(a)
  BY <1>1 DEF BoardInv, Tables, Stands, Author
<1>3. QED BY <1>2 DEF Push, build_pulse_reply_push_event

LEMMA ExistingPush ==
  ASSUME BoardInv, BoardInv', PushInv, NEW r \in Requests, ExistingPost(r),
         answer = [s \in Requests |-> answer[s]]
  PROVE  PushInv'
<1> DEFINE a == client_ids[Cid(r)]
<1>1. /\ UNCHANGED <<by_id, client_ids>> /\ a # NoPost /\ answer'[r] = a /\ Push(r)
      /\ Request[r].op = "reply" => by_id[Request[r].post] # NoPost
  BY DEF ExistingPost, tables, Cid
<1>2. Cid(r) \in ClientIds
  BY DEF Cid, ClientIds
<1>3. a \in Creates /\ by_id'[a] # NoPost
  BY <1>1, <1>2 DEF PushInv
<1> HIDE DEF a
<1>4. /\ dropped \subseteq dropped' /\ pushed \subseteq pushed'
      /\ \A x \in pushed' \ pushed : /\ x = <<Request[r].post, a>>
                                     /\ Author(Request[r].post) # Author(a)
                                     /\ Request[r].op = "reply"
  <2>1. CASE Request[r].op = "reply"
    BY <1>1, <1>3, <2>1, PushAdds, ZenonT(30)
  <2>2. CASE Request[r].op # "reply"
    BY <1>1, <2>2 DEF Push
  <2>3. QED BY <2>1, <2>2
<1>5. ASSUME NEW x \in pushed'
      PROVE  /\ x[1] \in Creates /\ x[2] \in Creates
             /\ by_id'[x[1]] # NoPost /\ by_id'[x[2]] # NoPost
             /\ Author(x[1]) # Author(x[2])
  <2>1. CASE x \in pushed
    BY <1>1, <2>1 DEF PushInv
  <2>2. CASE x \notin pushed
    BY <1>1, <1>3, <1>4, <2>2, Replying DEF OnPost
  <2>3. QED BY <2>1, <2>2
<1>6. QED BY <1>1, <1>4, <1>5 DEF PushInv, Author, ParentOf

LEMMA CreatePush ==
  ASSUME BoardInv, BoardInv', PushInv, NEW r \in Requests, create_post_record(r),
         answer = [s \in Requests |-> answer[s]]
  PROVE  PushInv'
<1> DEFINE p == Request[r].post
<1>1. r \in Creates /\ pc[r] = "built" /\ Commit(r, CreateWrites(r)) /\ Proper(r, CreateWrites(r))
  BY CreateCommits
<1>2. /\ \A o \in Creates : by_id[o] # NoPost => by_id'[o] # NoPost
      /\ \A o \in Creates : o # r /\ by_id'[o] # NoPost => by_id[o] # NoPost
      /\ \A w \in CreateWrites(r) : by_id'[w[1]] # NoPost
  BY <1>1, CommitBoard
<1>3. by_id'[r] # NoPost
  <2>1. <<r, NewPost(Request[r], local[r].created)>> \in CreateWrites(r)
    BY DEF CreateWrites
  <2>2. QED BY <1>2, <2>1
<1>4. answer'[r] = r /\ Push(r)
  BY <1>1 DEF Commit
<1>5. Request[r].op = "reply" => p \in Creates /\ by_id[p] # NoPost
  BY <1>1, WrittenBack DEF OnPost
<1>6. /\ dropped \subseteq dropped' /\ pushed \subseteq pushed'
      /\ \A x \in pushed' \ pushed :
           x = <<p, r>> /\ Author(p) # Author(r) /\ Request[r].op = "reply"
      /\ Request[r].op = "reply" => \/ <<p, r>> \in pushed' \/ r \in dropped'
                                    \/ Author(p) = Author(r)
  <2>1. CASE Request[r].op = "reply"
    BY <1>1, <1>3, <1>4, <1>5, <2>1, PushAdds
  <2>2. CASE Request[r].op # "reply"
    BY <1>4, <2>2 DEF Push
  <2>3. QED BY <2>1, <2>2
<1>7. client_ids' = [client_ids EXCEPT ![Cid(r)] = r]
  BY DEF create_post_record, Cid
<1>8. ASSUME NEW c \in ClientIds, client_ids'[c] # NoPost
      PROVE  client_ids'[c] \in Creates /\ by_id'[client_ids'[c]] # NoPost
  BY <1>1, <1>2, <1>3, <1>7, <1>8 DEF PushInv
<1>9. ASSUME NEW o \in Creates, by_id'[o] # NoPost, ParentOf(o) # NoPost
      PROVE  \/ <<ParentOf(o), o>> \in pushed' \/ o \in dropped'
             \/ Author(ParentOf(o)) = Author(o)
  <2>1. CASE o = r
    BY <1>6, <1>9, <2>1 DEF ParentOf
  <2>2. CASE o # r
    BY <1>2, <1>6, <1>9, <2>2 DEF PushInv
  <2>3. QED BY <2>1, <2>2
<1>10. ASSUME NEW x \in pushed'
       PROVE  /\ x[1] \in Creates /\ x[2] \in Creates
              /\ by_id'[x[1]] # NoPost /\ by_id'[x[2]] # NoPost
              /\ Author(x[1]) # Author(x[2])
  <2>1. CASE x \in pushed
    BY <1>2, <2>1 DEF PushInv
  <2>2. CASE x \notin pushed
    BY <1>1, <1>2, <1>3, <1>5, <1>6, <2>2
  <2>3. QED BY <2>1, <2>2
<1>11. client_ids' = [c \in ClientIds |-> client_ids'[c]]
  BY <1>7 DEF PushInv
<1>12. QED BY <1>8, <1>9, <1>10, <1>11 DEF PushInv, Author, ParentOf

LEMMA AmendPush ==
  ASSUME BoardInv, PushInv, NEW r \in Requests,
         toggle_reaction_record(r) \/ submit_report_record(r)
  PROVE  PushInv'
<1>1. pc[r] = "built" /\ Request[r].op \in {"react", "report"} /\ r \notin Creates
  BY DEF toggle_reaction_record, submit_report_record, Commit, Creates
<1>2. UNCHANGED <<client_ids, pushed, dropped>>
  BY <1>1 DEF toggle_reaction_record, submit_report_record, Commit, Push
<1>3. PICK post : Commit(r, {<<Request[r].post, post>>}) /\ Stands(Request[r].post, post)
  BY <1>1, WrittenBack DEF OnPost, toggle_reaction_record, submit_report_record
<1>4. Proper(r, {<<Request[r].post, post>>})
  <2>1. Request[r].post \in Creates /\ by_id[Request[r].post] # NoPost
    BY <1>1, WrittenBack DEF OnPost
  <2>2. QED BY <1>3, <2>1 DEF Proper
<1>5. \A o \in Creates : by_id[o] # NoPost <=> by_id'[o] # NoPost
  BY <1>1, <1>3, <1>4, CommitBoard
<1>6. QED BY <1>2, <1>5 DEF PushInv, Author, ParentOf

LEMMA QuietPush ==
  ASSUME PushInv, UNCHANGED <<by_id, client_ids, pushed, dropped>>
  PROVE  PushInv'
  BY ZenonT(30) DEF PushInv, Author, ParentOf

\* Every stored reply to another author's post is pushed to that author, and no author is
\* told of their own (RepliesPushed): create_board_reply pushes what it has stored, and
\* nothing written later changes who wrote the reply or its parent.
THEOREM AuthorsToldOfReplies == Spec => []RepliesPushed
<1>1. BoardInv /\ BoardInv' /\ OnceInv /\ PushInv /\ [Next]_vars => PushInv'
  <2> SUFFICES ASSUME BoardInv, BoardInv', OnceInv, PushInv, [Next]_vars PROVE PushInv'
    OBVIOUS
  <2>1. answer = [s \in Requests |-> answer[s]]
    BY DEF OnceInv
  <2>2. CASE \E r \in Requests : ExistingPost(r) \/ create_post_record(r)
                                 \/ toggle_reaction_record(r) \/ submit_report_record(r)
    BY <2>1, <2>2, ExistingPush, CreatePush, AmendPush, ZenonT(30)
  <2>3. CASE \E r \in Requests : ReadRequest(r)
    BY <2>3, QuietPush DEF ReadRequest, tables
  <2>4. CASE \/ \E r \in Requests : Aside(r)
             \/ Tick \/ LoadFeed \/ SyncFeed \/ FirstPage \/ NextPage \/ UNCHANGED vars
    BY <2>4, AsideKeeps, QuietPush
  <2>5. QED BY <2>2, <2>3, <2>4 DEF Next, Aside
<1>2. QED BY <1>1, BoardInductive, OnceInductive, InitPush, InvPushed, PTL DEF Spec

-----------------------------------------------------------------------------
(* Pages *)

LEMMA Least ==
  ASSUME NEW S, S \subseteq Nat, S # {}
  PROVE  \E n \in S : \A m \in S : n <= m
<1> DEFINE R == {ss \in Nat \X Nat : ss[1] < ss[2]}
<1>1. IsWellFoundedOn(R, Nat)
  BY NatLessThanWellFounded DEF OpToRel
<1>2. PICK n \in S : \A y \in S : ~(<<y, n>> \in R)
  BY <1>1, WFMin, ZenonT(30)
<1>3. ASSUME NEW m \in S PROVE n <= m
  <2>1. <<m, n>> \in Nat \X Nat /\ <<m, n>>[1] = m /\ <<m, n>>[2] = n
    OBVIOUS
  <2>2. ~(m < n)
    BY <1>2, <2>1
  <2>3. QED BY <2>2
<1>4. QED BY <1>3

\* The number with the fewest above it has none above it.
LEMMA Greatest ==
  ASSUME NEW S, S \subseteq Nat, S # {}, IsFiniteSet(S)
  PROVE  Max(S) \in S /\ \A n \in S : n <= Max(S)
<1> DEFINE above(n) == {m \in S : m > n}
           counts == {Cardinality(above(n)) : n \in S}
<1>1. \A n \in S : IsFiniteSet(above(n)) /\ Cardinality(above(n)) \in Nat
  BY FS_Subset, FS_CardinalityType
<1>2. counts \subseteq Nat /\ counts # {}
  BY <1>1
<1>3. PICK n \in S : \A m \in S : Cardinality(above(n)) <= Cardinality(above(m))
  <2> HIDE DEF above
  <2>1. PICK c \in counts : \A k \in counts : c <= k
    BY <1>2, Least
  <2>2. QED BY <2>1
<1>4. ASSUME NEW m \in S, m > n PROVE FALSE
  <2>1. PICK A, B : A = above(m) /\ B = above(n)
    OBVIOUS
  <2>2. A \subseteq B /\ m \in B /\ m \notin A
    <3>1. m \in Nat /\ n \in Nat /\ m > n /\ ~(m > m)
      BY <1>4
    <3>2. \A k \in S : k > m => k > n
      BY <3>1
    <3>3. QED BY <2>1, <3>1, <3>2
  <2>3. /\ IsFiniteSet(B) /\ Cardinality(A) \in Nat /\ Cardinality(B) \in Nat
        /\ Cardinality(B) <= Cardinality(A)
    <3> HIDE DEF above
    <3>1. QED BY <1>1, <1>3, <1>4, <2>1
  <2>4. Cardinality(A) <= Cardinality(B) /\ (Cardinality(B) = Cardinality(A) => B = A)
    BY <2>2, <2>3, FS_Subset
  <2>5. QED BY <2>2, <2>3, <2>4
<1>5. \A m \in S : n >= m
  BY <1>4
<1>6. QED BY <1>5 DEF Max

\* The times and the ids of the posts in the feed.
LEMMA Times ==
  ASSUME BoardInv
  PROVE  \A p \in TopLevel : /\ p \in Creates /\ by_id[p] # NoPost
                             /\ by_created_at[p] = by_id[p] /\ by_created_at[p] \in Posts
                             /\ by_created_at[p].created \in Nat
                             /\ by_created_at[p].updated \in Nat /\ Uuid[p] \in Nat
<1> SUFFICES ASSUME NEW p \in TopLevel
             PROVE  /\ p \in Creates /\ by_id[p] # NoPost
                    /\ by_created_at[p] = by_id[p] /\ by_created_at[p] \in Posts
                    /\ by_created_at[p].created \in Nat
                    /\ by_created_at[p].updated \in Nat /\ Uuid[p] \in Nat
  OBVIOUS
<1>1. p \in Creates /\ by_created_at[p] # NoPost
  BY DEF TopLevel
<1>2. by_id[p] # NoPost /\ by_created_at[p] = by_id[p]
  BY <1>1 DEF BoardInv, Copied
<1>3. by_created_at[p] \in Posts
  BY <1>1, <1>2 DEF BoardInv, Tables, Stands
<1>4. by_created_at[p].created \in Nat /\ by_created_at[p].updated \in Nat
  BY <1>3 DEF Posts
<1>5. QED BY <1>1, <1>2, <1>3, <1>4, BoardAssumption

\* A post that a page leaves out is not newer than any post of the page.
LEMMA PageRest ==
  ASSUME BoardInv, IsFiniteSet(TopLevel), NEW S, S \subseteq TopLevel, NEW p \in S,
         NEW m \in FirstOf(S, Limit), p \notin FirstOf(S, Limit)
  PROVE  by_created_at[p].created <= by_created_at[m].created
<1> DEFINE before(x) == {q \in S : Precedes(q, x)}
<1>1. m \in S /\ Cardinality(before(m)) < Limit /\ ~(Cardinality(before(p)) < Limit)
  BY DEF FirstOf
<1>2. by_created_at[p].created \in Nat /\ by_created_at[m].created \in Nat
  BY <1>1, Times
<1>3. SUFFICES ASSUME by_created_at[p].created > by_created_at[m].created PROVE FALSE
  BY <1>2
<1>4. ASSUME NEW q \in S, Precedes(q, p) PROVE Precedes(q, m)
  <2>1. by_created_at[q].created \in Nat
    BY Times
  <2>2. by_created_at[q].created > by_created_at[m].created
    BY <1>2, <1>3, <1>4, <2>1, SMT DEF Precedes
  <2>3. QED BY <2>2 DEF Precedes
<1>5. PICK A, B : A = before(p) /\ B = before(m)
  OBVIOUS
<1>6. A \subseteq B /\ IsFiniteSet(B)
  <2>1. A \subseteq B /\ B \subseteq TopLevel
    BY <1>4, <1>5
  <2>2. QED BY <2>1, FS_Subset
<1>7. Cardinality(A) \in Nat /\ Cardinality(B) \in Nat /\ Cardinality(A) <= Cardinality(B)
  BY <1>6, FS_Subset, FS_CardinalityType
<1>8. Cardinality(B) < Limit /\ ~(Cardinality(A) < Limit) /\ Limit \in Nat
  BY <1>1, <1>5, BoardAssumption
<1>9. QED BY <1>7, <1>8, SMT

\* A page is empty only when there is nothing to show.
LEMMA PageBegins ==
  ASSUME BoardInv, IsFiniteSet(TopLevel), NEW S, S \subseteq TopLevel, S # {}
  PROVE  FirstOf(S, Limit) # {}
<1> DEFINE before(x) == {q \in S : Precedes(q, x)}
           counts == {Cardinality(before(x)) : x \in S}
<1>1. \A x \in S : IsFiniteSet(before(x)) /\ Cardinality(before(x)) \in Nat
  <2>1. IsFiniteSet(S)
    BY FS_Subset
  <2>2. \A x \in S : before(x) \subseteq S
    OBVIOUS
  <2> HIDE DEF before
  <2>3. QED BY <2>1, <2>2, FS_Subset, FS_CardinalityType
<1>2. counts \subseteq Nat /\ counts # {}
  BY <1>1
<1>3. PICK p \in S : \A x \in S : Cardinality(before(p)) <= Cardinality(before(x))
  <2> HIDE DEF before
  <2>1. PICK c \in counts : \A k \in counts : c <= k
    BY <1>2, Least
  <2>2. QED BY <2>1
<1>4. ASSUME NEW q \in S, Precedes(q, p) PROVE FALSE
  <2>1. /\ by_created_at[q].created \in Nat /\ Uuid[q] \in Nat
        /\ by_created_at[p].created \in Nat /\ Uuid[p] \in Nat
    BY Times
  <2>2. ~Precedes(q, q)
    BY <2>1, SMT DEF Precedes
  <2>3. ASSUME NEW o \in S, Precedes(o, q) PROVE Precedes(o, p)
    <3>1. by_created_at[o].created \in Nat /\ Uuid[o] \in Nat
      BY Times
    <3>2. QED BY <1>4, <2>1, <2>3, <3>1, SMT DEF Precedes
  <2>4. PICK A, B : A = before(q) /\ B = before(p)
    OBVIOUS
  <2>5. A \subseteq B /\ q \in B /\ q \notin A
    BY <1>4, <2>2, <2>3, <2>4
  <2>6. /\ IsFiniteSet(B) /\ Cardinality(A) \in Nat /\ Cardinality(B) \in Nat
        /\ Cardinality(B) <= Cardinality(A)
    <3> HIDE DEF before
    <3>1. QED BY <1>1, <1>3, <2>4
  <2>7. Cardinality(A) <= Cardinality(B) /\ (Cardinality(B) = Cardinality(A) => B = A)
    BY <2>5, <2>6, FS_Subset
  <2>8. QED BY <2>5, <2>6, <2>7
<1>5. before(p) = {}
  BY <1>4
<1>6. Cardinality(before(p)) < Limit
  <2>1. Cardinality(before(p)) = 0
    BY <1>5, FS_EmptySet
  <2>2. Limit \in Nat \ {0}
    BY BoardAssumption
  <2> HIDE DEF before
  <2>3. QED BY <2>1, <2>2
<1>7. QED BY <1>6 DEF FirstOf

\* A page and its cursor: what the page leaves out is as old as the cursor, or older.
LEMMA PageSplits ==
  ASSUME BoardInv, IsFiniteSet(TopLevel), NEW S, S \subseteq TopLevel, S # {},
         NEW items, items = FirstOf(S, Limit)
  PROVE  /\ items # {} /\ next_cursor(items) \in Nat
         /\ \A p \in S : \/ p \in items \/ by_created_at[p].created = next_cursor(items)
                         \/ by_created_at[p].created < next_cursor(items)
<1> DEFINE dates == {by_created_at[p].created : p \in items}
<1>1. items # {} /\ items \subseteq S
  BY PageBegins DEF FirstOf
<1>2. dates \subseteq Nat /\ dates # {}
  BY <1>1, Times
<1>3. next_cursor(items) \in dates
  <2>1. PICK n \in dates : \A k \in dates : n <= k
    BY <1>2, Least
  <2>2. next_cursor(items) = Min(dates)
    BY DEF next_cursor
  <2> HIDE DEF dates
  <2>3. QED BY <2>1, <2>2 DEF Min
<1>4. PICK m \in items : next_cursor(items) = by_created_at[m].created
  BY <1>3
<1>5. ASSUME NEW p \in S, p \notin items
      PROVE  by_created_at[p].created <= next_cursor(items) /\ by_created_at[p].created \in Nat
  BY <1>4, <1>5, PageRest, Times
<1>6. next_cursor(items) \in Nat
  BY <1>2, <1>3
<1>7. QED BY <1>1, <1>5, <1>6

-----------------------------------------------------------------------------
(* Readers of the feed *)

\* A request writes a post back with the creation time it has.
Dated ==
  \A r \in Requests :
    (pc[r] = "built" /\ Request[r].op \in OnPost) \/ (pc[r] = "read" /\ Request[r].op = "report")
      => local[r].post.created = by_id[Request[r].post].created

\* The client has every post of the page as it is, or its next changes will bring it.
Followed ==
  client.rev # NoPost =>
    /\ client.rev.cutoff \in Nat
    /\ \A p \in PageItems : \/ p \in quiet \/ client.copy[p] = by_created_at[p]
                            \/ by_created_at[p].updated > client.rev.cutoff

\* The reader has seen every post of the start that is not older than the cursor.
Walked ==
  /\ walk.on => /\ walk.start \subseteq TopLevel /\ walk.cursor \in Nat
                /\ \A p \in walk.start : \/ p \in walk.seen \union walk.ties
                                         \/ by_created_at[p].created < walk.cursor
  /\ walk.ended => walk.start \subseteq walk.seen \union walk.ties

FeedInv == IsFiniteSet(TopLevel) /\ Dated /\ Followed /\ Walked

\* The revision of the page: no update of the page is later than its cutoff.
LEMMA Revision ==
  ASSUME BoardInv, IsFiniteSet(TopLevel), NEW rev, rev = feed_revision_value(PageItems)
  PROVE  /\ rev # NoPost /\ rev.cutoff \in Nat
         /\ \A p \in PageItems : by_created_at[p].updated <= rev.cutoff
<1> DEFINE f == [p \in PageItems |-> by_created_at[p].updated]
           updates == {by_created_at[p].updated : p \in PageItems}
           times == updates \union {0}
<1>1. PageItems \subseteq TopLevel /\ IsFiniteSet(PageItems)
  BY PagesInFeed, FS_Subset
<1>2. updates \subseteq Nat
  BY <1>1, Times
<1>3. IsFiniteSet(updates)
  <2>1. f \in Surjection(PageItems, updates)
    BY DEF Surjection
  <2> HIDE DEF f
  <2>2. QED BY <1>1, <2>1, FS_Surjection
<1>4. times \subseteq Nat /\ times # {} /\ IsFiniteSet(times)
  <2> HIDE DEF updates
  <2>1. QED BY <1>2, <1>3, FS_AddElement
<1>5. rev.cutoff = Max(times) /\ rev.digest = {<<p, by_created_at[p]>> : p \in PageItems}
      /\ rev = [cutoff |-> rev.cutoff, digest |-> rev.digest]
  BY DEF feed_revision_value
<1>6. rev.cutoff \in Nat /\ \A n \in times : n <= rev.cutoff
  <2> HIDE DEF times
  <2>1. QED BY <1>4, <1>5, Greatest
<1>7. rev.digest \in SUBSET (Creates \X Posts)
  BY <1>1, <1>5, Times
<1>8. rev \in Revisions
  BY <1>5, <1>6, <1>7 DEF Revisions
<1>9. QED BY <1>6, <1>8, BoardAssumption

LEMMA InitFeed == Init => FeedInv
<1> SUFFICES ASSUME Init PROVE FeedInv
  OBVIOUS
<1>1. IsFiniteSet(TopLevel)
  <2>1. TopLevel \subseteq Seed
    BY DEF Init, TopLevel
  <2>2. QED BY <2>1, FS_Subset, BoardAssumption
<1>2. Dated
  BY DEF Init, Dated
<1>3. Followed /\ Walked
  BY DEF Init, Followed, Walked, NoPage, NoWalk
<1>4. QED BY <1>1, <1>2, <1>3 DEF FeedInv

\* Steps that leave feed and readers alone.
LEMMA AsideFeed ==
  ASSUME FeedInv, Dated', UNCHANGED <<by_created_at, client, walk, quiet>>
  PROVE  FeedInv'
  BY DEF FeedInv, Followed, Walked, TopLevel, PageItems, FirstOf, Precedes

LEMMA RequestFeed ==
  ASSUME BoardInv, FeedInv, NEW r \in Requests,
         ExistingPost(r) \/ ReadRequest(r) \/ Aside(r)
  PROVE  FeedInv'
<1>1. UNCHANGED <<by_id, by_created_at, client, walk, quiet>>
  BY DEF ExistingPost, ReadRequest, Aside, RejectRequest, PostNotFound, Reject, BuildWrites,
         apply_follow_state, tables, readers
<1>2. CASE ReadRequest(r)
  <2>1. /\ pc' = [pc EXCEPT ![r] = "read"]
        /\ \E l : /\ local' = [local EXCEPT ![r] = l]
                  /\ Request[r].op = "report" => l = Having(by_id[Request[r].post], {}, FALSE)
    BY <1>2 DEF ReadRequest
  <2>2. Dated'
    <3>1. \A s \in Requests : s # r => pc'[s] = pc[s] /\ local'[s] = local[s]
      BY <2>1 DEF BoardInv, Tables, Handlers
    <3>2. pc'[r] = "read" /\ (Request[r].op = "report" => local'[r].post = by_id[Request[r].post])
      BY <2>1 DEF BoardInv, Tables, Handlers, Having
    <3>3. Dated
      BY DEF FeedInv
    <3>4. QED BY <1>1, <3>1, <3>2, <3>3 DEF Dated
  <2>3. QED BY <1>1, <2>2, AsideFeed
<1>3. CASE BuildWrites(r)
  <2>1. pc[r] = "read" /\ pc' = [pc EXCEPT ![r] = "built"]
    BY <1>3 DEF BuildWrites
  <2>2. PICK l : /\ local' = [local EXCEPT ![r] = l]
                 /\ l = [post |-> IF Request[r].op \in {"reply", "react"}
                                  THEN by_id[Request[r].post] ELSE local[r].post,
                         rows |-> local[r].rows, had |-> local[r].had,
                         created |-> parse_requested_created_at(Request[r].created),
                         now |-> clock]
    BY <1>3 DEF BuildWrites, BoardInv, Handlers
  <2>3. l.post = IF Request[r].op \in {"reply", "react"} THEN by_id[Request[r].post]
                 ELSE local[r].post
    BY <2>2
  <2>4. Dated'
    BY <1>1, <2>1, <2>2, <2>3, ZenonT(20) DEF BoardInv, Tables, Handlers, FeedInv, Dated, OnPost
  <2>5. QED BY <1>1, <2>4, AsideFeed
<1>4. CASE ~ReadRequest(r) /\ ~BuildWrites(r)
  <2>1. /\ pc' = [pc EXCEPT ![r] = "failed"] \/ pc' = [pc EXCEPT ![r] = "done"]
        /\ local' = local
    BY <1>4 DEF ExistingPost, Aside, RejectRequest, PostNotFound, Reject, apply_follow_state
  <2>2. Dated'
    BY <1>1, <2>1 DEF BoardInv, Tables, FeedInv, Dated
  <2>3. QED BY <1>1, <2>2, AsideFeed
<1>5. QED BY <1>2, <1>3, <1>4

\* A commit keeps the creation times, so that posts only move down in the feed.
LEMMA CommitFeed ==
  ASSUME BoardInv, BoardInv', FeedInv, NEW r \in Requests, NEW writes, Commit(r, writes),
         Proper(r, writes),
         \A w \in writes : by_id[w[1]] # NoPost => w[2].created = by_id[w[1]].created
  PROVE  FeedInv'
<1>1. /\ pc' = [pc EXCEPT ![r] = "done"] /\ local' = [local EXCEPT ![r] = Nothing]
      /\ write_post_response_with_touch(writes) /\ UNCHANGED <<client, walk>>
      /\ quiet' = {p \in Creates :
           IF by_created_at'[p] = by_created_at[p] THEN p \in quiet
           ELSE client.rev # NoPost /\ by_created_at'[p].updated <= client.rev.cutoff}
  BY DEF Commit, readers
<1>2. /\ \A p \in Creates : by_id[p] # NoPost => by_id'[p] # NoPost
      /\ \A p \in Creates : p # r /\ by_id'[p] # NoPost => by_id[p] # NoPost
  BY CommitBoard
<1>3. ASSUME NEW p \in Creates, by_id[p] # NoPost
      PROVE  by_id'[p].created = by_id[p].created
  <2> DEFINE last == CHOOSE w \in writes : w[1] = p
  <2>1. by_id'[p] = IF \E w \in writes : w[1] = p THEN last[2] ELSE by_id[p]
    BY <1>1 DEF write_post_response_with_touch
  <2>2. CASE \E w \in writes : w[1] = p
    <3>1. last \in writes /\ last[1] = p
      BY <2>2
    <3> HIDE DEF last
    <3>2. QED BY <1>3, <2>1, <2>2, <3>1
  <2>3. QED BY <2>1, <2>2
<1>4. TopLevel \subseteq TopLevel' /\ TopLevel' \subseteq TopLevel \union {r}
  BY <1>2 DEF BoardInv, Copied, TopLevel
<1>5. \A p \in TopLevel : by_created_at'[p].created = by_created_at[p].created
  <2>1. ASSUME NEW p \in TopLevel PROVE by_created_at'[p].created = by_created_at[p].created
    <3>1. p \in Creates /\ by_id[p] # NoPost /\ by_created_at[p] = by_id[p]
      BY Times
    <3>2. p \in TopLevel'
      BY <1>4
    <3>3. by_created_at'[p] = by_id'[p]
      BY <3>2 DEF BoardInv, Copied, TopLevel
    <3>4. QED BY <1>3, <3>1, <3>3
  <2>2. QED BY <2>1
<1>6. IsFiniteSet(TopLevel')
  <2>1. IsFiniteSet(TopLevel \union {r})
    BY FS_AddElement DEF FeedInv
  <2>2. QED BY <1>4, <2>1, FS_Subset
<1>7. Dated'
  <2> SUFFICES ASSUME NEW s \in Requests,
                      \/ pc'[s] = "built" /\ Request[s].op \in OnPost
                      \/ pc'[s] = "read" /\ Request[s].op = "report"
               PROVE  local'[s].post.created = by_id'[Request[s].post].created
    BY DEF Dated
  <2>1. s # r /\ pc'[s] = pc[s] /\ local'[s] = local[s]
    BY <1>1 DEF BoardInv, Tables, Handlers
  <2>2. Request[s].post \in Creates /\ by_id[Request[s].post] # NoPost
    <3>1. Read(s, local[s]) /\ Request[s].op \in OnPost /\ pc[s] \in Open
      BY <2>1 DEF BoardInv, Handlers, OnPost, Open
    <3>2. QED BY <3>1, Replying DEF Read
  <2>3. local[s].post.created = by_id[Request[s].post].created
    BY <2>1 DEF FeedInv, Dated
  <2>4. QED BY <1>3, <2>1, <2>2, <2>3
<1>8. ASSUME NEW p \in PageItems', p \in TopLevel PROVE p \in PageItems
  <2>1. PICK A, B : /\ A = {q \in TopLevel : Precedes(q, p)}
                    /\ B = {q \in TopLevel' : Precedes(q, p)'}
    OBVIOUS
  <2>2. \A q \in TopLevel : Precedes(q, p) => Precedes(q, p)'
    BY <1>5, <1>8 DEF Precedes
  <2>3. A \subseteq B /\ B \subseteq TopLevel'
    BY <1>4, <2>1, <2>2
  <2>4. IsFiniteSet(B)
    BY <1>6, <2>3, FS_Subset
  <2>5. Cardinality(A) <= Cardinality(B) /\ Cardinality(A) \in Nat /\ Cardinality(B) \in Nat
    BY <2>3, <2>4, FS_Subset, FS_CardinalityType
  <2>6. Cardinality(B) < Limit
    BY <2>1, <1>8 DEF PageItems, FirstOf
  <2>7. Cardinality(A) < Limit
    BY <2>5, <2>6, BoardAssumption, SMT
  <2>8. QED BY <1>8, <2>1, <2>7 DEF PageItems, FirstOf
<1>9. Followed'
  <2> SUFFICES ASSUME client.rev # NoPost
               PROVE  /\ client.rev.cutoff \in Nat
                      /\ \A p \in PageItems' :
                           \/ p \in quiet' \/ client.copy[p] = by_created_at'[p]
                           \/ by_created_at'[p].updated > client.rev.cutoff
    BY <1>1 DEF Followed
  <2>1. client.rev.cutoff \in Nat
    BY DEF FeedInv, Followed
  <2>2. ASSUME NEW p \in PageItems'
        PROVE  \/ p \in quiet' \/ client.copy[p] = by_created_at'[p]
               \/ by_created_at'[p].updated > client.rev.cutoff
    <3>1. p \in Creates /\ by_created_at'[p] # NoPost
      BY DEF PageItems, FirstOf, TopLevel
    <3>2. CASE by_created_at'[p] = by_created_at[p]
      <4>1. p \in TopLevel
        BY <3>1, <3>2 DEF TopLevel
      <4>2. p \in PageItems
        BY <1>8, <4>1
      <4>3. \/ p \in quiet \/ client.copy[p] = by_created_at[p]
            \/ by_created_at[p].updated > client.rev.cutoff
        BY <4>2 DEF FeedInv, Followed
      <4>4. QED BY <1>1, <3>1, <3>2, <4>3
    <3>3. CASE by_created_at'[p] # by_created_at[p]
      <4>1. by_created_at'[p] = by_id'[p] /\ by_id'[p] \in Posts
        BY <3>1 DEF BoardInv, Tables, Copied, Stands
      <4>2. by_created_at'[p].updated \in Nat
        BY <4>1 DEF Posts
      <4>3. by_created_at'[p].updated <= client.rev.cutoff => p \in quiet'
        BY <1>1, <3>1, <3>3
      <4>4. QED BY <2>1, <4>2, <4>3, SMT
    <3>4. QED BY <3>2, <3>3
  <2>3. QED BY <2>1, <2>2
<1>10. Walked'
  BY <1>1, <1>4, <1>5 DEF FeedInv, Walked
<1>11. QED BY <1>6, <1>7, <1>9, <1>10 DEF FeedInv

\* What the three commits write back has the creation time of the post.
LEMMA WritesFeed ==
  ASSUME BoardInv, BoardInv', FeedInv, NEW r \in Requests,
         create_post_record(r) \/ toggle_reaction_record(r) \/ submit_report_record(r)
  PROVE  FeedInv'
<1> DEFINE p == Request[r].post
<1>1. ASSUME Request[r].op \in OnPost, pc[r] = "built"
      PROVE  /\ update_post_reply_count(r).created = by_id[p].created
             /\ update_post_reaction_count(r).created = by_id[p].created
             /\ [Touched(r) EXCEPT !.moderation = "reported"].created = by_id[p].created
  <2>1. local[r].post.created = by_id[p].created /\ local[r].post \in Posts
    BY <1>1 DEF FeedInv, Dated, BoardInv, Handlers, Read, Stands
  <2>2. Touched(r).created = by_id[p].created
    BY <2>1 DEF Touched, Posts
  <2>3. PICK t : t = Touched(r)
    OBVIOUS
  <2>4. \A n : /\ [t EXCEPT !.replies = n].created = t.created
               /\ [t EXCEPT !.reactions = n].created = t.created
               /\ [t EXCEPT !.moderation = n].created = t.created
    BY <2>1, <2>3 DEF Touched, Posts
  <2>5. QED BY <2>2, <2>3, <2>4 DEF update_post_reply_count, update_post_reaction_count
<1>2. CASE create_post_record(r)
  <2>1. /\ r \in Creates /\ pc[r] = "built" /\ by_id[r] = NoPost
        /\ Commit(r, CreateWrites(r)) /\ Proper(r, CreateWrites(r))
    BY <1>2, CreateCommits
  <2>2. ASSUME NEW w \in CreateWrites(r), by_id[w[1]] # NoPost
        PROVE  w[2].created = by_id[w[1]].created
    <3>1. w # <<r, NewPost(Request[r], local[r].created)>>
      BY <2>1, <2>2
    <3>2. Request[r].op = "reply" /\ w = <<p, update_post_reply_count(r)>>
      BY <3>1 DEF CreateWrites
    <3>3. QED BY <1>1, <2>1, <3>2 DEF OnPost
  <2>3. QED BY <2>1, <2>2, CommitFeed
<1>3. CASE toggle_reaction_record(r) \/ submit_report_record(r)
  <2>1. pc[r] = "built" /\ Request[r].op \in OnPost
    BY <1>3 DEF toggle_reaction_record, submit_report_record, Commit, OnPost
  <2>2. PICK post : /\ Commit(r, {<<p, post>>}) /\ Stands(p, post)
                    /\ post.created = by_id[p].created
    BY <1>1, <1>3, <2>1, WrittenBack DEF toggle_reaction_record, submit_report_record
  <2>3. Proper(r, {<<p, post>>})
    <3>1. p \in Creates /\ by_id[p] # NoPost
      BY <2>1, WrittenBack
    <3>2. QED BY <2>2, <3>1 DEF Proper
  <2>4. QED BY <2>2, <2>3, CommitFeed
<1>4. QED BY <1>2, <1>3

\* A page that is loaded is complete; the changes bring what was missing.
LEMMA ClientFeed ==
  ASSUME BoardInv, FeedInv, LoadFeed \/ SyncFeed
  PROVE  FeedInv'
<1>1. UNCHANGED <<pc, local, by_id, by_created_at, walk>>
  BY DEF LoadFeed, SyncFeed, tables
<1>2. IsFiniteSet(TopLevel') /\ Dated' /\ Walked' /\ PageItems' = PageItems
  BY <1>1 DEF FeedInv, TopLevel, Dated, Walked, PageItems, FirstOf, Precedes
<1>3. PICK rev : rev = feed_revision_value(PageItems)
  OBVIOUS
<1>4. rev.cutoff \in Nat
  BY <1>3, Revision DEF FeedInv
<1>5. PageItems \subseteq Creates
  BY PagesInFeed DEF TopLevel
<1>6. CASE LoadFeed
  <2>1. client'.rev = rev /\ \A p \in PageItems : client'.copy[p] = by_created_at[p]
    BY <1>3, <1>5, <1>6 DEF LoadFeed
  <2>2. QED BY <1>1, <1>2, <1>4, <2>1 DEF FeedInv, Followed
<1>7. CASE SyncFeed
  <2> DEFINE changes == build_feed_changes_response(client.rev)
  <2>1. CASE client' = [client EXCEPT !.rev = NoPost]
    <3>1. client'.rev = NoPost
      BY <2>1 DEF BoardInv, Readers
    <3>2. QED BY <1>2, <3>1 DEF FeedInv, Followed
  <2>2. CASE client' = [rev |-> rev, items |-> client.items \union changes,
                        copy |-> [p \in Creates |-> IF p \in changes THEN by_created_at[p]
                                                     ELSE client.copy[p]]]
    <3>1. quiet' = quiet /\ client.rev # NoPost
      BY <1>7 DEF SyncFeed
    <3>2. ASSUME NEW p \in PageItems PROVE p \in quiet \/ client'.copy[p] = by_created_at[p]
      <4>1. client'.copy[p] = IF p \in changes THEN by_created_at[p] ELSE client.copy[p]
        BY <1>5, <2>2
      <4>2. p \in changes \/ ~(by_created_at[p].updated > client.rev.cutoff)
        BY DEF build_feed_changes_response
      <4>3. \/ p \in quiet \/ client.copy[p] = by_created_at[p]
            \/ by_created_at[p].updated > client.rev.cutoff
        BY <3>1 DEF FeedInv, Followed
      <4>4. QED BY <4>1, <4>2, <4>3
    <3>3. client'.rev = rev
      BY <2>2
    <3>4. QED BY <1>1, <1>2, <1>4, <3>1, <3>2, <3>3 DEF FeedInv, Followed
  <2>3. QED BY <1>3, <1>7, <2>1, <2>2 DEF SyncFeed
<1>8. QED BY <1>6, <1>7

LEMMA WalkFeed ==
  ASSUME BoardInv, FeedInv, FirstPage \/ NextPage
  PROVE  FeedInv'
<1>1. UNCHANGED <<pc, local, by_id, by_created_at, client, quiet>>
  BY DEF FirstPage, NextPage, tables
<1>2. IsFiniteSet(TopLevel') /\ Dated' /\ Followed' /\ TopLevel' = TopLevel
  BY <1>1 DEF FeedInv, TopLevel, Dated, Followed, PageItems, FirstOf, Precedes
<1>3. CASE FirstPage
  <2>1. PICK items : items = FirstOf(TopLevel, Limit)
    OBVIOUS
  <2>2. /\ TopLevel # {} /\ walk'.cursor = next_cursor(items) /\ walk'.start = TopLevel
        /\ walk'.seen = items /\ ~walk'.ended
        /\ walk'.ties = {p \in TopLevel : by_created_at[p].created = next_cursor(items)}
    BY <1>3, <2>1 DEF FirstPage, PageItems
  <2>3. /\ next_cursor(items) \in Nat
        /\ \A p \in TopLevel : \/ p \in items \/ by_created_at[p].created = next_cursor(items)
                               \/ by_created_at[p].created < next_cursor(items)
    BY <2>1, <2>2, PageSplits DEF FeedInv
  <2>4. Walked'
    BY <1>1, <1>2, <2>2, <2>3 DEF Walked
  <2>5. QED BY <1>2, <2>4 DEF FeedInv
<1>4. CASE NextPage
  <2>1. PICK S, items : /\ S = {p \in TopLevel : by_created_at[p].created < walk.cursor}
                        /\ items = FirstOf(S, Limit)
    OBVIOUS
  <2>2. items = PageAfter(walk.cursor) /\ S \subseteq TopLevel
    BY <2>1 DEF PageAfter
  <2>3. /\ walk.on /\ walk.start \subseteq TopLevel /\ walk.cursor \in Nat
        /\ \A p \in walk.start : p \in walk.seen \union walk.ties \/ p \in S
    BY <1>4, <2>1 DEF NextPage, FeedInv, Walked
  <2>4. CASE items = {}
    <3>1. S = {}
      BY <2>1, <2>2, <2>4, PageBegins DEF FeedInv
    <3>2. walk' = [walk EXCEPT !.ended = TRUE]
      BY <1>4, <2>2, <2>4 DEF NextPage
    <3>3. /\ walk'.start = walk.start /\ walk'.seen = walk.seen /\ walk'.ties = walk.ties
          /\ walk'.cursor = walk.cursor
      BY <3>2
    <3>4. Walked'
      BY <1>2, <2>3, <3>1, <3>3 DEF Walked
    <3>5. QED BY <1>2, <3>4 DEF FeedInv
  <2>5. CASE items # {}
    <3>1. S # {}
      BY <2>1, <2>5 DEF FirstOf
    <3>2. /\ next_cursor(items) \in Nat
          /\ \A p \in S : \/ p \in items \/ by_created_at[p].created = next_cursor(items)
                          \/ by_created_at[p].created < next_cursor(items)
      BY <2>1, <2>2, <3>1, PageSplits DEF FeedInv
    <3>3. PICK tied : tied = {p \in TopLevel : by_created_at[p].created = next_cursor(items)}
      OBVIOUS
    <3>4. /\ walk'.cursor = next_cursor(items) /\ walk'.start = walk.start /\ ~walk'.ended
          /\ walk'.seen = walk.seen \union items /\ walk'.ties = walk.ties \union tied
      BY <1>4, <2>2, <2>5, <3>3 DEF NextPage
    <3>5. Walked'
      BY <1>1, <1>2, <2>3, <3>2, <3>3, <3>4 DEF Walked
    <3>6. QED BY <1>2, <3>5 DEF FeedInv
  <2>6. QED BY <2>4, <2>5
<1>5. QED BY <1>3, <1>4

\* FeedInv holds in every state: readers have what they were shown, or will be shown it.
LEMMA FeedInductive == Spec => []FeedInv
<1>1. BoardInv /\ BoardInv' /\ FeedInv /\ [Next]_vars => FeedInv'
  <2> SUFFICES ASSUME BoardInv, BoardInv', FeedInv, [Next]_vars PROVE FeedInv'
    OBVIOUS
  <2>1. CASE \E r \in Requests : ExistingPost(r) \/ ReadRequest(r) \/ Aside(r)
    BY <2>1, RequestFeed
  <2>2. CASE \E r \in Requests : create_post_record(r) \/ toggle_reaction_record(r)
                                 \/ submit_report_record(r)
    BY <2>2, WritesFeed
  <2>3. CASE LoadFeed \/ SyncFeed \/ FirstPage \/ NextPage
    BY <2>3, ClientFeed, WalkFeed
  <2>4. CASE Tick \/ UNCHANGED vars
    <3>1. UNCHANGED <<pc, local, by_id, by_created_at, client, walk, quiet>>
      BY <2>4 DEF Tick, vars, tables, readers
    <3>2. Dated'
      BY <3>1 DEF FeedInv, Dated
    <3>3. QED BY <3>1, <3>2, AsideFeed
  <2>5. QED BY <2>1, <2>2, <2>3, <2>4 DEF Next, Aside
<1>2. QED BY <1>1, BoardInductive, InitFeed, PTL DEF Spec

\* A client whose revision is that of the feed has the page as it is, but for quiet posts
\* (get_board_feed, get_board_feed_changes, feed_revision_value), for any number of posts,
\* any page size, and any mix of loading, synchronising and writing.
THEOREM ClientsKeepInStep == Spec => []FeedSynced
<1>1. BoardInv /\ FeedInv => FeedSynced
  <2> SUFFICES ASSUME BoardInv, FeedInv, client.rev = feed_revision_value(PageItems),
                      NEW p \in PageItems
               PROVE  p \in quiet \/ client.copy[p] = by_created_at[p]
    BY DEF FeedSynced
  <2>1. /\ client.rev # NoPost /\ client.rev.cutoff \in Nat
        /\ by_created_at[p].updated <= client.rev.cutoff
    BY Revision DEF FeedInv
  <2>2. by_created_at[p].updated \in Nat
    BY PagesInFeed, Times
  <2>3. ~(by_created_at[p].updated > client.rev.cutoff)
    BY <2>1, <2>2, SMT
  <2>4. QED BY <2>1, <2>3 DEF FeedInv, Followed
<1>2. QED BY <1>1, BoardInductive, FeedInductive, PTL

\* A reader who follows the cursors of get_board_feed to the end has seen every post that was
\* there at the beginning, but for posts of the millisecond a page ended in, for any number
\* of posts and any page size, whatever is written meanwhile.
THEOREM WalksAreComplete == Spec => []WalkComplete
<1>1. FeedInv => WalkComplete
  BY DEF FeedInv, Walked, WalkComplete
<1>2. QED BY <1>1, FeedInductive, PTL

-----------------------------------------------------------------------------
(* Counts *)

\* The counts of the reactions to a post, added up over the emojis.
Total(c) == MapThenSumSet(LAMBDA e : c[e].count, DOMAIN c)
Some(s) == CHOOSE x \in s : TRUE
\* What the fold behind Total computes for the sets of S.
Adds(c, S, f) ==
  f = [s \in S |-> IF s = {} THEN 0 ELSE c[Some(s)].count + f[s \ {Some(s)}]]

\* The fold is a recursive function over the subsets of its set ...
LEMMA TotalIs ==
  ASSUME NEW c
  PROVE  Total(c) = (CHOOSE f : Adds(c, SUBSET DOMAIN c, f))[DOMAIN c]
  BY DEF Total, MapThenSumSet, MapThenFoldSet, Adds, Some

\* ... which exists, since each call is for a smaller set.
LEMMA AddsExists ==
  ASSUME NEW c, NEW D, IsFiniteSet(D)
  PROVE  \E f : Adds(c, SUBSET D, f)
<1> DEFINE Small(n) == {s \in SUBSET D : Cardinality(s) <= n}
           Bad == {n \in Nat : ~\E f : Adds(c, Small(n), f)}
<1>1. ASSUME NEW s \in SUBSET D
      PROVE  /\ IsFiniteSet(s) /\ Cardinality(s) \in Nat /\ Cardinality(s) <= Cardinality(D)
             /\ s = {} <=> Cardinality(s) = 0
             /\ s # {} => /\ Some(s) \in s /\ s \ {Some(s)} \in SUBSET D
                          /\ Cardinality(s \ {Some(s)}) = Cardinality(s) - 1
  <2>1. IsFiniteSet(s) /\ Cardinality(s) <= Cardinality(D)
    BY FS_Subset
  <2>2. Cardinality(s) \in Nat /\ (s = {} <=> Cardinality(s) = 0)
    BY <2>1, FS_CardinalityType, FS_EmptySet
  <2>3. ASSUME s # {} PROVE Some(s) \in s
    BY <2>3 DEF Some
  <2>4. PICK x : x = Some(s)
    OBVIOUS
  <2>5. x \in s => Cardinality(s \ {x}) = Cardinality(s) - 1
    BY <2>1, FS_RemoveElement
  <2>6. QED BY <2>1, <2>2, <2>3, <2>4, <2>5
<1>2. \A n \in Nat : n \notin Bad
  <2> SUFFICES ASSUME Bad # {} PROVE FALSE
    OBVIOUS
  <2>1. PICK n \in Bad : \A m \in Bad : n <= m
    <3>1. Bad \subseteq Nat
      OBVIOUS
    <3> HIDE DEF Bad
    <3>2. QED BY <3>1, Least
  <2>2. PICK S : S = Small(n)
    OBVIOUS
  <2>3. CASE n = 0
    <3>1. \A s \in S : s = {}
      <4>1. ASSUME NEW s \in S PROVE s = {}
        <5>1. s \in SUBSET D /\ Cardinality(s) <= 0
          BY <2>2, <2>3
        <5>2. Cardinality(s) \in Nat /\ (s = {} <=> Cardinality(s) = 0)
          BY <1>1, <5>1
        <5>3. QED BY <5>1, <5>2
      <4>2. QED BY <4>1
    <3>2. PICK f : f = [s \in S |-> 0]
      OBVIOUS
    <3>3. Adds(c, S, f)
      BY <3>1, <3>2 DEF Adds
    <3>4. QED BY <2>2, <3>3
  <2>4. CASE n # 0
    <3>1. n - 1 \in Nat /\ n - 1 \notin Bad
      <4>1. n \in Nat
        OBVIOUS
      <4> HIDE DEF Bad
      <4>2. n - 1 \in Nat /\ ~(n <= n - 1)
        BY <2>4, <4>1
      <4>3. QED BY <2>1, <4>2
    <3>2. PICK T : T = Small(n - 1)
      OBVIOUS
    <3>3. PICK f : Adds(c, T, f)
      BY <3>1, <3>2
    <3>4. \A s \in S : s # {} => s \ {Some(s)} \in T
      <4>1. ASSUME NEW s \in S, s # {} PROVE s \ {Some(s)} \in T
        <5>1. s \in SUBSET D /\ Cardinality(s) <= n
          BY <2>2
        <5>2. PICK u : u = s \ {Some(s)}
          OBVIOUS
        <5>3. u \in SUBSET D /\ Cardinality(u) = Cardinality(s) - 1 /\ Cardinality(s) \in Nat
          BY <1>1, <4>1, <5>1, <5>2
        <5>4. Cardinality(u) <= n - 1
          BY <5>1, <5>3
        <5>5. QED BY <3>2, <5>2, <5>3, <5>4
      <4>2. QED BY <4>1
    <3>5. T \subseteq S
      <4>1. ASSUME NEW s \in T PROVE s \in S
        <5>1. s \in SUBSET D /\ Cardinality(s) <= n - 1 /\ Cardinality(s) \in Nat
          BY <1>1, <3>2
        <5>2. Cardinality(s) <= n
          BY <5>1
        <5>3. QED BY <2>2, <5>1, <5>2
      <4>2. QED BY <4>1
    <3>6. PICK h : h = [s \in S |-> IF s = {} THEN 0 ELSE c[Some(s)].count + f[s \ {Some(s)}]]
      OBVIOUS
    <3>7. \A s \in T : h[s] = f[s]
      BY <3>3, <3>5, <3>6 DEF Adds
    <3>8. \A s \in S : s # {} => h[s \ {Some(s)}] = f[s \ {Some(s)}]
      BY <3>4, <3>7
    <3>9. Adds(c, S, h)
      BY <3>6, <3>8 DEF Adds
    <3>10. QED BY <2>2, <3>9
  <2>5. QED BY <2>3, <2>4
<1>3. PICK n \in Nat : n = Cardinality(D)
  BY FS_CardinalityType
<1>4. Small(n) = SUBSET D
  BY <1>1, <1>3
<1>5. PICK f : Adds(c, Small(n), f)
  BY <1>2
<1>6. QED BY <1>4, <1>5

\* Rows are grouped by emoji and counted by group: the counts add up to the rows.
LEMMA GroupsAddUp ==
  ASSUME NEW R, IsFiniteSet(R), NEW c, DOMAIN c = {x[3] : x \in R},
         \A e \in DOMAIN c : c[e].count = Cardinality({x \in R : x[3] = e})
  PROVE  Total(c) = Cardinality(R)
<1> DEFINE In(s) == {x \in R : x[3] \in s}
<1>1. PICK D : D = DOMAIN c
  OBVIOUS
<1>2. IsFiniteSet(D)
  <2>1. PICK f : f = [x \in R |-> x[3]]
    OBVIOUS
  <2>2. f \in [R -> D] /\ \A e \in D : \E x \in R : f[x] = e
    BY <1>1, <2>1
  <2>3. f \in Surjection(R, D)
    BY <2>2 DEF Surjection
  <2>4. QED BY <2>3, FS_Surjection
<1>3. PICK f : f = CHOOSE g : Adds(c, SUBSET D, g)
  OBVIOUS
<1>4. Adds(c, SUBSET D, f)
  BY <1>2, <1>3, AddsExists
<1>5. \A s \in SUBSET D : f[s] = IF s = {} THEN 0 ELSE c[Some(s)].count + f[s \ {Some(s)}]
  BY <1>4 DEF Adds
<1> DEFINE Bad == {n \in Nat : \E s \in SUBSET D : n = Cardinality(s) /\ f[s] # Cardinality(In(s))}
<1>6. Bad = {}
  <2> SUFFICES ASSUME Bad # {} PROVE FALSE
    OBVIOUS
  <2>1. PICK n \in Bad : \A m \in Bad : n <= m
    <3>1. Bad \subseteq Nat
      OBVIOUS
    <3> HIDE DEF Bad
    <3>2. QED BY <3>1, Least
  <2>2. PICK s \in SUBSET D : n = Cardinality(s) /\ f[s] # Cardinality(In(s))
    OBVIOUS
  <2>3. IsFiniteSet(s) /\ n \in Nat
    BY <1>2, <2>1, FS_Subset
  <2>4. s # {}
    <3>1. ASSUME s = {} PROVE FALSE
      <4>1. In(s) = {} /\ f[s] = 0
        BY <1>5, <3>1
      <4>2. QED BY <2>2, <4>1, FS_EmptySet
    <3>2. QED BY <3>1
  <2>5. PICK e : e = Some(s)
    OBVIOUS
  <2>6. e \in s
    BY <2>4, <2>5 DEF Some
  <2>7. PICK u : u = s \ {e}
    OBVIOUS
  <2>8. u \in SUBSET D /\ Cardinality(u) = n - 1 /\ n - 1 \in Nat
    <3>1. Cardinality(u) = n - 1 /\ IsFiniteSet(u)
      BY <2>2, <2>3, <2>6, <2>7, FS_RemoveElement
    <3>2. Cardinality(u) \in Nat
      BY <3>1, FS_CardinalityType
    <3>3. QED BY <2>7, <3>1, <3>2
  <2>9. f[u] = Cardinality(In(u))
    <3>1. n - 1 \notin Bad
      <4> HIDE DEF Bad
      <4>1. ~(n <= n - 1)
        BY <2>3
      <4>2. QED BY <2>1, <4>1
    <3>2. QED BY <2>8, <3>1
  <2>10. PICK A, B : A = {x \in R : x[3] = e} /\ B = In(u)
    OBVIOUS
  <2>11. A \union B = In(s) /\ A \cap B = {} /\ A \in SUBSET R /\ B \in SUBSET R
    BY <2>6, <2>7, <2>10
  <2>12. IsFiniteSet(A) /\ IsFiniteSet(B)
    BY <2>11, FS_Subset
  <2>13. Cardinality(A \union B) = Cardinality(A) + Cardinality(B) - Cardinality(A \cap B)
    BY <2>12, FS_Union
  <2>14. Cardinality(A \cap B) = 0 /\ Cardinality(A) \in Nat /\ Cardinality(B) \in Nat
    BY <2>11, <2>12, FS_EmptySet, FS_CardinalityType
  <2>15. f[s] = c[e].count + f[u]
    BY <1>5, <2>4, <2>5, <2>7
  <2>16. c[e].count = Cardinality(A)
    BY <1>1, <2>6, <2>10
  <2> HIDE DEF In
  <2>17. Cardinality(In(s)) = Cardinality(A) + Cardinality(B)
    <3>1. Cardinality(A \union B) = Cardinality(A) + Cardinality(B)
      BY <2>13, <2>14
    <3>2. QED BY <2>11, <3>1
  <2>18. QED BY <2>2, <2>9, <2>10, <2>15, <2>16, <2>17
<1>7. Cardinality(D) \in Nat /\ D \in SUBSET D
  BY <1>2, FS_CardinalityType
<1>8. f[D] = Cardinality(In(D))
  BY <1>6, <1>7
<1>9. In(D) = R
  BY <1>1
<1>10. QED BY <1>1, <1>3, <1>8, <1>9, TotalIs

Toggled(r) == <<Request[r].post, Request[r].actor, Request[r].emoji>>

\* The record of a post agrees with the rows that belong to it.
Counted(p) ==
  /\ by_id[p].replies = Cardinality(RepliesTo(p))
  /\ by_id[p].reactions = Cardinality(ReactionsOf(p))
  /\ by_id[p].moderation = "reported" <=> ReportsOf(p) # {}

\* Replies that are listed are stored, the reactions a request has read tell whether its own
\* was among them, and a post that was never written back over a change has its counts.
CountInv ==
  /\ \A x \in replies : x[3] \in Creates /\ by_id[x[3]] # NoPost
  /\ \A p \in Creates : IsFiniteSet(RepliesTo(p))
  /\ \A r \in Requests : pc[r] \in Open /\ Request[r].op = "react" =>
       (local[r].had <=> Toggled(r) \in local[r].rows)
  /\ \A p \in Creates \ raced : by_id[p] # NoPost => Counted(p)

LEMMA InitCount == Init => CountInv
<1> SUFFICES ASSUME Init PROVE CountInv
  OBVIOUS
<1>1. \A p : RepliesTo(p) = {} /\ ReactionsOf(p) = {} /\ ReportsOf(p) = {}
  BY DEF Init, RepliesTo, ReactionsOf, ReportsOf
<1>2. \A p \in Creates : by_id[p] # NoPost => /\ by_id[p].replies = 0 /\ by_id[p].reactions = 0
                                              /\ by_id[p].moderation = "none"
  BY DEF Init, NewPost
<1>3. \A r \in Requests : pc[r] \notin Open
  BY DEF Init, Open
<1>4. \A p \in Creates : by_id[p] # NoPost => Counted(p)
  BY <1>1, <1>2, FS_EmptySet DEF Counted
<1>5. QED BY <1>1, <1>3, <1>4, FS_EmptySet DEF Init, CountInv

\* A step that leaves the rows and the records alone.
LEMMA AsideCount ==
  ASSUME CountInv, UNCHANGED <<by_id, replies, reactions, reports, raced>>,
         \A r \in Requests : pc'[r] \in Open /\ Request[r].op = "react" =>
           (local'[r].had <=> Toggled(r) \in local'[r].rows)
  PROVE  CountInv'
<1>1. \A p : RepliesTo(p)' = RepliesTo(p) /\ (Counted(p)' <=> Counted(p))
  BY DEF RepliesTo, ReactionsOf, ReportsOf, Counted
<1>2. QED BY <1>1 DEF CountInv, Toggled

\* A request counts what it has read.
LEMMA RequestCount ==
  ASSUME BoardInv, CountInv, NEW r \in Requests,
         ExistingPost(r) \/ ReadRequest(r) \/ Aside(r)
  PROVE  CountInv'
<1>1. UNCHANGED <<by_id, replies, reactions, reports, raced>>
  BY DEF ExistingPost, ReadRequest, Aside, RejectRequest, PostNotFound, Reject, BuildWrites,
         apply_follow_state, tables, history
<1>2. CASE ReadRequest(r)
  <2>1. PICK l : /\ local' = [local EXCEPT ![r] = l]
                 /\ Request[r].op = "react" =>
                      l = Having(NoPost, ReactionsOf(Request[r].post), Toggled(r) \in reactions)
    BY <1>2 DEF ReadRequest, Toggled
  <2>2. Toggled(r) \in reactions <=> Toggled(r) \in ReactionsOf(Request[r].post)
    BY DEF Toggled, ReactionsOf
  <2>3. ASSUME NEW s \in Requests, pc'[s] \in Open, Request[s].op = "react"
        PROVE  local'[s].had <=> Toggled(s) \in local'[s].rows
    <3>1. CASE s = r
      <4>1. local'[r] = l
        BY <2>1 DEF BoardInv, Handlers
      <4>2. l.had = (Toggled(r) \in reactions) /\ l.rows = ReactionsOf(Request[r].post)
        BY <2>1, <2>3, <3>1 DEF Having
      <4>3. QED BY <2>2, <3>1, <4>1, <4>2
    <3>2. CASE s # r
      <4>1. local'[s] = local[s] /\ pc'[s] = pc[s]
        BY <1>2, <2>1, <3>2 DEF BoardInv, Tables, Handlers, ReadRequest
      <4>2. QED BY <2>3, <4>1 DEF CountInv
    <3>3. QED BY <3>1, <3>2
  <2>4. QED BY <1>1, <2>3, AsideCount
<1>3. CASE BuildWrites(r)
  <2>1. pc[r] = "read" /\ pc' = [pc EXCEPT ![r] = "built"]
    BY <1>3 DEF BuildWrites
  <2>2. PICK l : /\ local' = [local EXCEPT ![r] = l]
                 /\ l = [post |-> IF Request[r].op \in {"reply", "react"}
                                  THEN by_id[Request[r].post] ELSE local[r].post,
                         rows |-> local[r].rows, had |-> local[r].had,
                         created |-> parse_requested_created_at(Request[r].created),
                         now |-> clock]
    BY <1>3 DEF BuildWrites, BoardInv, Handlers
  <2>3. l.rows = local[r].rows /\ l.had = local[r].had
    BY <2>2
  <2>4. ASSUME NEW s \in Requests, pc'[s] \in Open, Request[s].op = "react"
        PROVE  local'[s].had <=> Toggled(s) \in local'[s].rows
    BY <2>1, <2>2, <2>3, <2>4 DEF BoardInv, Tables, Handlers, CountInv, Open
  <2>5. QED BY <1>1, <2>4, AsideCount
<1>4. CASE ~ReadRequest(r) /\ ~BuildWrites(r)
  <2>1. /\ pc' = [pc EXCEPT ![r] = "failed"] \/ pc' = [pc EXCEPT ![r] = "done"]
        /\ local' = local
    BY <1>4 DEF ExistingPost, Aside, RejectRequest, PostNotFound, Reject, apply_follow_state
  <2>2. ASSUME NEW s \in Requests, pc'[s] \in Open, Request[s].op = "react"
        PROVE  local'[s].had <=> Toggled(s) \in local'[s].rows
    <3>1. pc[s] \in Open
      BY <2>1, <2>2 DEF BoardInv, Tables, Open
    <3>2. QED BY <2>1, <2>2, <3>1 DEF CountInv
  <2>3. QED BY <1>1, <2>2, AsideCount
<1>5. QED BY <1>2, <1>3, <1>4

\* A commit changes the records it writes; a post it writes without having been overtaken is
\* written as it was read, but for the change.
LEMMA CommitCount ==
  ASSUME BoardInv, CountInv, NEW r \in Requests, NEW writes, Commit(r, writes),
         Proper(r, writes)
  PROVE  /\ \A p \in Creates : (\E w \in writes : w[1] = p) \/ by_id'[p] = by_id[p]
         /\ \A p \in Creates : by_id[p] # NoPost => by_id'[p] # NoPost
         /\ \A p \in Creates : (\E w \in writes : w[1] = p) =>
              \E w \in writes : w[1] = p /\ w[2] = by_id'[p]
         /\ raced \subseteq raced'
         /\ Request[r].op \in OnPost /\ Request[r].post \notin raced' =>
              /\ Request[r].post \notin raced /\ local[r].post = by_id[Request[r].post]
              /\ Request[r].op = "react" => local[r].rows = ReactionsOf(Request[r].post)
         /\ \A s \in Requests : pc'[s] \in Open /\ Request[s].op = "react" =>
              (local'[s].had <=> Toggled(s) \in local'[s].rows)
<1>1. /\ pc' = [pc EXCEPT ![r] = "done"] /\ local' = [local EXCEPT ![r] = Nothing]
      /\ write_post_response_with_touch(writes)
      /\ raced' = IF \/ Request[r].op # "post" /\ local[r].post # by_id[Request[r].post]
                     \/ Request[r].op = "react" /\ local[r].rows # ReactionsOf(Request[r].post)
                  THEN raced \union {Request[r].post} ELSE raced
  BY DEF Commit
<1>2. /\ \A p \in Creates : by_id[p] # NoPost => by_id'[p] # NoPost
      /\ \A p \in Creates : (\E w \in writes : w[1] = p) \/ by_id'[p] = by_id[p]
  BY <1>1, Stored DEF Proper
<1>3. ASSUME NEW p \in Creates, \E w \in writes : w[1] = p
      PROVE  \E w \in writes : w[1] = p /\ w[2] = by_id'[p]
  <2>1. by_id'[p] = (CHOOSE w \in writes : w[1] = p)[2]
    BY <1>1, <1>3 DEF write_post_response_with_touch
  <2>2. PICK v : v = CHOOSE w \in writes : w[1] = p
    OBVIOUS
  <2>3. v \in writes /\ v[1] = p
    BY <1>3, <2>2
  <2>4. QED BY <2>1, <2>2, <2>3
<1>4. raced \subseteq raced'
  BY <1>1
<1>5. ASSUME Request[r].op \in OnPost, Request[r].post \notin raced'
      PROVE  /\ Request[r].post \notin raced /\ local[r].post = by_id[Request[r].post]
             /\ Request[r].op = "react" => local[r].rows = ReactionsOf(Request[r].post)
  BY <1>1, <1>5 DEF OnPost
<1>6. ASSUME NEW s \in Requests, pc'[s] \in Open, Request[s].op = "react"
      PROVE  local'[s].had <=> Toggled(s) \in local'[s].rows
  <2>1. s # r /\ pc[s] \in Open /\ local'[s] = local[s]
    BY <1>1, <1>6 DEF BoardInv, Tables, Handlers, Open
  <2>2. QED BY <1>6, <2>1 DEF CountInv
<1>7. QED BY <1>2, <1>3, <1>4, <1>5, <1>6

\* What is written back keeps every count but the one that the request changes.
LEMMA Changed ==
  ASSUME BoardInv, NEW r \in Requests, pc[r] = "built", Request[r].op \in OnPost,
         local[r].post = by_id[Request[r].post]
  PROVE  LET b == by_id[Request[r].post]
             n == Cardinality(local[r].rows)
             reply == update_post_reply_count(r)
             react == update_post_reaction_count(r)
             report == [Touched(r) EXCEPT !.moderation = "reported"]
         IN /\ reply.replies = b.replies + 1 /\ reply.reactions = b.reactions
            /\ reply.moderation = b.moderation
            /\ react.replies = b.replies /\ react.moderation = b.moderation
            /\ react.reactions = IF local[r].had THEN n - 1 ELSE n + 1
            /\ report.replies = b.replies /\ report.reactions = b.reactions
            /\ report.moderation = "reported"
            /\ b.replies \in Nat
<1>1. PICK b : b = by_id[Request[r].post]
  OBVIOUS
<1>2. b \in Posts
  BY <1>1 DEF BoardInv, Handlers, Read, Stands
<1>3. PICK t : t = Touched(r)
  OBVIOUS
<1>4. /\ t \in [DOMAIN b -> {t[i] : i \in DOMAIN b}]
      /\ DOMAIN b = {"author", "parent", "created", "replies", "reactions", "moderation", "updated"}
      /\ t.replies = b.replies /\ t.reactions = b.reactions /\ t.moderation = b.moderation
      /\ b.replies \in Nat
  BY <1>1, <1>2, <1>3 DEF Touched, Posts
<1>5. \A n : /\ [t EXCEPT !.replies = n].replies = n
             /\ [t EXCEPT !.replies = n].reactions = t.reactions
             /\ [t EXCEPT !.replies = n].moderation = t.moderation
             /\ [t EXCEPT !.reactions = n].replies = t.replies
             /\ [t EXCEPT !.reactions = n].reactions = n
             /\ [t EXCEPT !.reactions = n].moderation = t.moderation
             /\ [t EXCEPT !.moderation = n].replies = t.replies
             /\ [t EXCEPT !.moderation = n].reactions = t.reactions
             /\ [t EXCEPT !.moderation = n].moderation = n
  BY <1>4
<1>6. /\ update_post_reply_count(r) = [t EXCEPT !.replies = t.replies + 1]
      /\ update_post_reaction_count(r) =
           [t EXCEPT !.reactions = IF local[r].had THEN Cardinality(local[r].rows) - 1
                                   ELSE Cardinality(local[r].rows) + 1]
  BY <1>3, <1>4 DEF update_post_reply_count, update_post_reaction_count
<1>7. LET reply == update_post_reply_count(r)
      IN /\ reply.replies = b.replies + 1 /\ reply.reactions = b.reactions
         /\ reply.moderation = b.moderation
  BY <1>4, <1>5, <1>6
<1>8. LET react == update_post_reaction_count(r)
          n == Cardinality(local[r].rows)
      IN /\ react.replies = b.replies /\ react.moderation = b.moderation
         /\ react.reactions = IF local[r].had THEN n - 1 ELSE n + 1
  BY <1>4, <1>5, <1>6
<1>9. LET report == [Touched(r) EXCEPT !.moderation = "reported"]
      IN /\ report.replies = b.replies /\ report.reactions = b.reactions
         /\ report.moderation = "reported"
  BY <1>3, <1>4, <1>5
<1>10. QED BY <1>1, <1>4, <1>7, <1>8, <1>9

\* A new post has no rows and counts none; a reply adds one row and one to the count.
LEMMA CreateCount ==
  ASSUME BoardInv, CountInv, NEW r \in Requests, create_post_record(r)
  PROVE  CountInv'
<1> DEFINE q == Request[r]
           writes == CreateWrites(r)
<1>1. /\ r \in Creates /\ pc[r] = "built" /\ by_id[r] = NoPost
      /\ Commit(r, writes) /\ Proper(r, writes)
  BY CreateCommits
<1>2. /\ \A p \in Creates : (\E w \in writes : w[1] = p) \/ by_id'[p] = by_id[p]
      /\ \A p \in Creates : by_id[p] # NoPost => by_id'[p] # NoPost
      /\ \A p \in Creates : (\E w \in writes : w[1] = p) =>
           \E w \in writes : w[1] = p /\ w[2] = by_id'[p]
      /\ raced \subseteq raced'
      /\ q.op = "reply" /\ q.post \notin raced' =>
           q.post \notin raced /\ local[r].post = by_id[q.post]
      /\ \A s \in Requests : pc'[s] \in Open /\ Request[s].op = "react" =>
           (local'[s].had <=> Toggled(s) \in local'[s].rows)
  <2> HIDE DEF writes
  <2>1. QED BY <1>1, CommitCount DEF OnPost
<1>3. q.op = "reply" => q.post \in Creates /\ by_id[q.post] # NoPost /\ q.post # r
  BY <1>1, WrittenBack DEF OnPost
<1>4. by_id'[r] = NewPost(q, local[r].created)
  <2>1. <<r, NewPost(q, local[r].created)>> \in writes
    BY DEF CreateWrites
  <2>2. PICK w \in writes : w[1] = r /\ w[2] = by_id'[r]
    BY <1>1, <1>2, <2>1
  <2>3. w = <<r, NewPost(q, local[r].created)>>
    BY <1>3, <2>2 DEF CreateWrites
  <2>4. QED BY <2>2, <2>3
<1>5. ASSUME q.op = "reply" PROVE by_id'[q.post] = update_post_reply_count(r)
  <2>1. <<q.post, update_post_reply_count(r)>> \in writes
    BY <1>5 DEF CreateWrites
  <2>2. PICK w \in writes : w[1] = q.post /\ w[2] = by_id'[q.post]
    BY <1>2, <1>3, <1>5, <2>1
  <2>3. w = <<q.post, update_post_reply_count(r)>>
    BY <1>3, <1>5, <2>2 DEF CreateWrites
  <2>4. QED BY <2>2, <2>3
<1>6. ASSUME NEW p \in Creates, p # r, ~(q.op = "reply" /\ p = q.post)
      PROVE  by_id'[p] = by_id[p]
  <2>1. \A w \in writes : w[1] # p
    BY <1>6 DEF CreateWrites
  <2> HIDE DEF writes
  <2>2. QED BY <1>2, <1>6, <2>1
<1> HIDE DEF writes
<1>7. /\ UNCHANGED <<reactions, reports>>
      /\ q.op = "reply" => replies' = replies \union {<<q.post, local[r].created, r>>}
      /\ q.op # "reply" => replies' = replies
  BY DEF create_post_record
<1>8. /\ \A p : ReactionsOf(p)' = ReactionsOf(p) /\ ReportsOf(p)' = ReportsOf(p)
      /\ \A p : ~(q.op = "reply" /\ p = q.post) => RepliesTo(p)' = RepliesTo(p)
      /\ q.op = "reply" => RepliesTo(q.post)' = RepliesTo(q.post) \union {r}
  <2>1. \A p : ReactionsOf(p)' = ReactionsOf(p) /\ ReportsOf(p)' = ReportsOf(p)
    BY <1>7 DEF ReactionsOf, ReportsOf
  <2>2. ASSUME NEW p, ~(q.op = "reply" /\ p = q.post) PROVE RepliesTo(p)' = RepliesTo(p)
    <3>1. {y \in replies' : y[1] = p} = {y \in replies : y[1] = p}
      BY <1>7, <2>2
    <3>2. QED BY <3>1 DEF RepliesTo
  <2>3. ASSUME q.op = "reply" PROVE RepliesTo(q.post)' = RepliesTo(q.post) \union {r}
    <3>1. PICK row : row = <<q.post, local[r].created, r>>
      OBVIOUS
    <3>2. row[1] = q.post /\ row[3] = r
      BY <3>1
    <3>3. {y \in replies' : y[1] = q.post} = {y \in replies : y[1] = q.post} \union {row}
      BY <1>7, <2>3, <3>1, <3>2
    <3>4. QED BY <3>2, <3>3 DEF RepliesTo
  <2>4. QED BY <2>1, <2>2, <2>3
<1>9. RepliesTo(r) = {} /\ ReactionsOf(r) = {} /\ ReportsOf(r) = {} /\ r \notin RepliesTo(q.post)
  BY <1>1 DEF BoardInv, Rows, CountInv, RepliesTo, ReactionsOf, ReportsOf
<1>10. \A x \in replies' : x[3] \in Creates /\ by_id'[x[3]] # NoPost
  <2>1. by_id'[r] # NoPost
    <3>1. Stands(r, by_id'[r])
      BY <1>1, <1>4, Fresh DEF BoardInv, Handlers, Read
    <3>2. QED BY <3>1, BoardAssumption DEF Stands
  <2>2. ASSUME NEW x \in replies' PROVE x[3] \in Creates /\ by_id'[x[3]] # NoPost
    <3>1. CASE x \in replies
      BY <1>2, <3>1 DEF CountInv
    <3>2. CASE x \notin replies
      <4>1. x = <<q.post, local[r].created, r>>
        BY <1>7, <3>2
      <4>2. QED BY <1>1, <2>1, <4>1
    <3>3. QED BY <3>1, <3>2
  <2>3. QED BY <2>2
<1>11. \A p \in Creates : IsFiniteSet(RepliesTo(p)')
  <2>1. ASSUME NEW p \in Creates PROVE IsFiniteSet(RepliesTo(p)')
    <3>1. IsFiniteSet(RepliesTo(p))
      BY DEF CountInv
    <3>2. IsFiniteSet(RepliesTo(p) \union {r})
      BY <3>1, FS_AddElement
    <3>3. RepliesTo(p)' = RepliesTo(p) \/ RepliesTo(p)' = RepliesTo(p) \union {r}
      BY <1>8
    <3>4. QED BY <3>1, <3>2, <3>3
  <2>2. QED BY <2>1
<1>12. ASSUME NEW p \in Creates, p \notin raced', by_id'[p] # NoPost PROVE Counted(p)'
  <2>1. CASE p = r
    <3>1. by_id'[p].replies = 0 /\ by_id'[p].reactions = 0 /\ by_id'[p].moderation = "none"
      BY <1>4, <2>1 DEF NewPost
    <3>2. RepliesTo(p)' = {} /\ ReactionsOf(p)' = {} /\ ReportsOf(p)' = {}
      BY <1>3, <1>8, <1>9, <2>1
    <3>3. QED BY <3>1, <3>2, FS_EmptySet DEF Counted
  <2>2. CASE q.op = "reply" /\ p = q.post
    <3>1. p \notin raced /\ local[r].post = by_id[p] /\ Counted(p)
      BY <1>2, <1>3, <1>12, <2>2 DEF CountInv
    <3>2. /\ by_id'[p].replies = by_id[p].replies + 1
          /\ by_id'[p].reactions = by_id[p].reactions
          /\ by_id'[p].moderation = by_id[p].moderation
      BY <1>1, <1>5, <2>2, <3>1, Changed DEF OnPost
    <3>3. IsFiniteSet(RepliesTo(p)) /\ r \notin RepliesTo(p)
      BY <1>9, <2>2 DEF CountInv
    <3>4. Cardinality(RepliesTo(p) \union {r}) = Cardinality(RepliesTo(p)) + 1
      BY <3>3, FS_AddElement
    <3>5. QED BY <1>8, <2>2, <3>1, <3>2, <3>4 DEF Counted
  <2>3. CASE p # r /\ ~(q.op = "reply" /\ p = q.post)
    <3>1. by_id'[p] = by_id[p] /\ Counted(p)
      BY <1>2, <1>6, <1>12, <2>3 DEF CountInv
    <3>2. RepliesTo(p)' = RepliesTo(p)
      BY <1>8, <2>3
    <3>3. QED BY <1>8, <3>1, <3>2 DEF Counted
  <2>4. QED BY <2>1, <2>2, <2>3
<1>13. QED BY <1>2, <1>10, <1>11, <1>12 DEF CountInv, Toggled

\* A reaction adds or removes its row and writes the number of rows it leaves, if those
\* it read are those there are; a report leaves a row and marks the post.
LEMMA AmendCount ==
  ASSUME BoardInv, CountInv, NEW r \in Requests,
         toggle_reaction_record(r) \/ submit_report_record(r)
  PROVE  CountInv'
<1> DEFINE q == Request[r]
<1>1. pc[r] = "built" /\ q.op \in OnPost
  BY DEF toggle_reaction_record, submit_report_record, Commit, OnPost
<1>2. q.post \in Creates /\ by_id[q.post] # NoPost
  BY <1>1, WrittenBack
<1>3. PICK post : /\ Commit(r, {<<q.post, post>>}) /\ Stands(q.post, post)
                  /\ toggle_reaction_record(r) => post = update_post_reaction_count(r)
                  /\ submit_report_record(r) => post = [Touched(r) EXCEPT !.moderation = "reported"]
  <2>1. CASE toggle_reaction_record(r)
    <3>1. ~submit_report_record(r)
      BY <2>1 DEF toggle_reaction_record, submit_report_record
    <3>2. QED BY <1>1, <2>1, <3>1, WrittenBack DEF toggle_reaction_record
  <2>2. CASE submit_report_record(r)
    <3>1. ~toggle_reaction_record(r)
      BY <2>2 DEF toggle_reaction_record, submit_report_record
    <3>2. QED BY <1>1, <2>2, <3>1, WrittenBack DEF submit_report_record
  <2>3. QED BY <2>1, <2>2
<1>4. PICK writes : writes = {<<q.post, post>>}
  OBVIOUS
<1>5. \A w \in writes : w[1] = q.post /\ w[2] = post
  BY <1>4
<1>6. Commit(r, writes) /\ Proper(r, writes)
  BY <1>2, <1>3, <1>4, <1>5 DEF Proper
<1>7. /\ \A p \in Creates : (\E w \in writes : w[1] = p) \/ by_id'[p] = by_id[p]
      /\ \A p \in Creates : by_id[p] # NoPost => by_id'[p] # NoPost
      /\ \A p \in Creates : (\E w \in writes : w[1] = p) =>
           \E w \in writes : w[1] = p /\ w[2] = by_id'[p]
      /\ raced \subseteq raced'
      /\ q.post \notin raced' =>
           /\ q.post \notin raced /\ local[r].post = by_id[q.post]
           /\ q.op = "react" => local[r].rows = ReactionsOf(q.post)
      /\ \A s \in Requests : pc'[s] \in Open /\ Request[s].op = "react" =>
           (local'[s].had <=> Toggled(s) \in local'[s].rows)
  BY <1>1, <1>6, CommitCount
<1>8. by_id'[q.post] = post /\ \A p \in Creates : p # q.post => by_id'[p] = by_id[p]
  <2>1. <<q.post, post>> \in writes /\ <<q.post, post>>[1] = q.post
    BY <1>4
  <2>2. QED BY <1>2, <1>5, <1>7, <2>1
<1>9. replies' = replies /\ \A p : RepliesTo(p)' = RepliesTo(p)
  BY DEF toggle_reaction_record, submit_report_record, RepliesTo
<1>10. \A p : p # q.post => ReactionsOf(p)' = ReactionsOf(p) /\ ReportsOf(p)' = ReportsOf(p)
  BY DEF toggle_reaction_record, submit_report_record, ReactionsOf, ReportsOf
<1>11. ASSUME q.post \notin raced' PROVE Counted(q.post)'
  <2>1. PICK p \in Creates : p = q.post
    BY <1>2
  <2>2. p \notin raced /\ local[r].post = by_id[p] /\ Counted(p)
    BY <1>2, <1>7, <1>11, <2>1 DEF CountInv
  <2>3. CASE toggle_reaction_record(r)
    <3>1. q.op = "react" /\ reports' = reports
          /\ reactions' = IF local[r].had THEN reactions \ {Toggled(r)}
                          ELSE reactions \union {Toggled(r)}
      BY <2>3 DEF toggle_reaction_record, Toggled
    <3>2. PICK row, R : row = Toggled(r) /\ R = ReactionsOf(p)
      OBVIOUS
    <3>3. row[1] = p
      BY <2>1, <3>2 DEF Toggled
    <3>4. IsFiniteSet(R)
      BY <3>2, FS_Subset DEF ReactionsOf, BoardInv, Rows
    <3>5. local[r].rows = R /\ (local[r].had <=> row \in R)
      BY <1>1, <1>7, <1>11, <2>1, <3>1, <3>2, ZenonT(20) DEF CountInv, Open
    <3>6. ReactionsOf(p)' = IF local[r].had THEN R \ {row} ELSE R \union {row}
      BY <3>1, <3>2, <3>3 DEF ReactionsOf
    <3>7. /\ by_id'[p].replies = by_id[p].replies /\ by_id'[p].moderation = by_id[p].moderation
          /\ by_id'[p].reactions = IF local[r].had THEN Cardinality(R) - 1 ELSE Cardinality(R) + 1
      BY <1>1, <1>3, <1>8, <2>1, <2>2, <2>3, <3>5, Changed, ZenonT(20)
    <3>8. by_id'[p].reactions = Cardinality(ReactionsOf(p)')
      <4>1. CASE local[r].had
        <5>1. Cardinality(R \ {row}) = Cardinality(R) - 1
          BY <3>4, <3>5, <4>1, FS_RemoveElement
        <5>2. QED BY <3>6, <3>7, <4>1, <5>1
      <4>2. CASE ~local[r].had
        <5>1. Cardinality(R \union {row}) = Cardinality(R) + 1
          BY <3>4, <3>5, <4>2, FS_AddElement
        <5>2. QED BY <3>6, <3>7, <4>2, <5>1
      <4>3. QED BY <4>1, <4>2
    <3>9. ReportsOf(p)' = ReportsOf(p)
      BY <3>1 DEF ReportsOf
    <3>10. Counted(p)'
      BY <1>9, <2>2, <3>7, <3>8, <3>9 DEF Counted
    <3>11. QED BY <2>1, <3>10
  <2>4. CASE submit_report_record(r)
    <3>1. reactions' = reactions /\ reports' = reports \union {<<q.post, q.actor>>}
      BY <2>4 DEF submit_report_record
    <3>2. ReactionsOf(p)' = ReactionsOf(p)
      BY <3>1 DEF ReactionsOf
    <3>3. ReportsOf(p)' # {}
      <4>1. PICK row : row = <<q.post, q.actor>>
        OBVIOUS
      <4>2. row[1] = p /\ row \in reports'
        BY <2>1, <3>1, <4>1
      <4>3. QED BY <4>2 DEF ReportsOf
    <3>4. /\ by_id'[p].replies = by_id[p].replies /\ by_id'[p].reactions = by_id[p].reactions
          /\ by_id'[p].moderation = "reported"
      <4>1. by_id'[p] = [Touched(r) EXCEPT !.moderation = "reported"]
        BY <1>3, <1>8, <2>1, <2>4
      <4>2. local[r].post = by_id[q.post]
        BY <2>1, <2>2
      <4>3. /\ [Touched(r) EXCEPT !.moderation = "reported"].replies = by_id[q.post].replies
            /\ [Touched(r) EXCEPT !.moderation = "reported"].reactions = by_id[q.post].reactions
            /\ [Touched(r) EXCEPT !.moderation = "reported"].moderation = "reported"
        BY <1>1, <4>2, Changed
      <4>4. QED BY <2>1, <4>1, <4>3
    <3>5. Counted(p)'
      BY <1>9, <2>2, <3>2, <3>3, <3>4 DEF Counted
    <3>6. QED BY <2>1, <3>5
  <2>5. QED BY <2>3, <2>4
<1>12. ASSUME NEW p \in Creates, p \notin raced', by_id'[p] # NoPost PROVE Counted(p)'
  <2>1. CASE p = q.post
    BY <1>11, <1>12, <2>1
  <2>2. CASE p # q.post
    <3>1. by_id'[p] = by_id[p] /\ Counted(p)
      BY <1>7, <1>8, <1>12, <2>2 DEF CountInv
    <3>2. QED BY <1>9, <1>10, <2>2, <3>1 DEF Counted
  <2>3. QED BY <2>1, <2>2
<1>13. /\ \A x \in replies' : x[3] \in Creates /\ by_id'[x[3]] # NoPost
       /\ \A p \in Creates : IsFiniteSet(RepliesTo(p)')
  BY <1>7, <1>9 DEF CountInv
<1>14. QED BY <1>7, <1>12, <1>13 DEF CountInv, Toggled

\* CountInv holds in every state.
LEMMA CountInductive == Spec => []CountInv
<1>1. BoardInv /\ CountInv /\ [Next]_vars => CountInv'
  <2> SUFFICES ASSUME BoardInv, CountInv, [Next]_vars PROVE CountInv'
    OBVIOUS
  <2>1. CASE \E r \in Requests : ExistingPost(r) \/ ReadRequest(r) \/ Aside(r)
    BY <2>1, RequestCount
  <2>2. CASE \E r \in Requests : create_post_record(r) \/ toggle_reaction_record(r)
                                 \/ submit_report_record(r)
    BY <2>2, CreateCount, AmendCount
  <2>3. CASE LoadFeed \/ SyncFeed \/ FirstPage \/ NextPage \/ Tick \/ UNCHANGED vars
    <3>1. UNCHANGED <<pc, local, by_id, replies, reactions, reports, raced>>
      BY <2>3 DEF LoadFeed, SyncFeed, FirstPage, NextPage, Tick, vars, tables, history
    <3>2. \A r \in Requests : pc'[r] \in Open /\ Request[r].op = "react" =>
            (local'[r].had <=> Toggled(r) \in local'[r].rows)
      BY <3>1 DEF CountInv
    <3>3. QED BY <3>1, <3>2, AsideCount
  <2>4. QED BY <2>1, <2>2, <2>3 DEF Next, Aside
<1>2. QED BY <1>1, BoardInductive, InitCount, PTL DEF Spec

\* The counts update_post_reply_count and update_post_reaction_count store with a post are
\* those of the rows build_post_detail_response shows, added up over build_reaction_summary,
\* and it is marked as reported if submit_report_record stored a report, for any number of
\* rows and requests (CountsRight), unless it was written back over a change.
THEOREM CountsAreRight == Spec => []CountsRight
<1>1. BoardInv /\ CountInv => CountsRight
  <2> SUFFICES ASSUME BoardInv, CountInv, NEW p \in Creates, by_id[p] # NoPost, p \notin raced
               PROVE  LET detail == build_post_detail_response(p, "") IN
                      /\ detail.post.replies = Cardinality(detail.replies)
                      /\ detail.post.reactions =
                           MapThenSumSet(LAMBDA e : detail.reactions[e].count,
                                         DOMAIN detail.reactions)
                      /\ detail.post.moderation = "reported" <=> ReportsOf(p) # {}
    BY DEF CountsRight
  <2> DEFINE detail == build_post_detail_response(p, "")
  <2>1. Counted(p)
    BY DEF CountInv
  <2>2. /\ detail.post = by_id[p] /\ detail.reactions = build_reaction_summary(p, "")
        /\ detail.replies = {x \in RepliesTo(p) : by_id[x] # NoPost}
    BY DEF build_post_detail_response
  <2> HIDE DEF detail
  <2>3. detail.replies = RepliesTo(p)
    BY <2>2 DEF CountInv, RepliesTo
  <2>4. PICK R, c : R = ReactionsOf(p) /\ c = build_reaction_summary(p, "")
    OBVIOUS
  <2>5. IsFiniteSet(R)
    BY <2>4, FS_Subset DEF ReactionsOf, BoardInv, Rows
  <2>6. /\ DOMAIN c = {x[3] : x \in R}
        /\ \A e \in DOMAIN c : c[e].count = Cardinality({x \in R : x[3] = e})
    BY <2>4 DEF build_reaction_summary
  <2>7. Total(c) = Cardinality(R)
    BY <2>5, <2>6, GroupsAddUp
  <2>8. Total(detail.reactions) = Cardinality(ReactionsOf(p))
    BY <2>2, <2>4, <2>7
  <2>9. /\ detail.post.replies = Cardinality(detail.replies)
        /\ detail.post.reactions = Total(detail.reactions)
        /\ detail.post.moderation = "reported" <=> ReportsOf(p) # {}
    BY <2>1, <2>2, <2>3, <2>8 DEF Counted
  <2>10. QED BY <2>9 DEF detail, Total
<1>2. QED BY <1>1, BoardInductive, CountInductive, PTL
=============================================================================
