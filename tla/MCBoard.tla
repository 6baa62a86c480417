------------------------------ MODULE MCBoard ------------------------------
(***************************************************************************)
(* Two posts of one millisecond and an older one; requests that reply to,  *)
(* react to and report the same post, retry with the same client id, post  *)
(* with a time of their own, and follow and unfollow.                      *)
(***************************************************************************)
EXTENDS Board

MCBase ==
  [op |-> "post", actor |-> "a", post |-> NoPost, replyTo |-> NoPost, clientId |-> "x",
   created |-> 1, emoji |-> "", target |-> "", path |-> "", valid |-> TRUE]
MCPost(actor, id, created) ==
  [MCBase EXCEPT !.actor = actor, !.clientId = id, !.created = created]
MCOn(op, actor, post) == [MCBase EXCEPT !.op = op, !.actor = actor, !.post = post, !.emoji = "+"]
MCReply(actor, post, id) == [MCOn("reply", actor, post) EXCEPT !.clientId = id, !.created = 2]
MCFollow(op, actor, target) ==
  [MCBase EXCEPT !.op = op, !.actor = actor, !.target = target, !.path = target]
MCRequest ==
  [s1 |-> MCPost("a", "i1", 1), s2 |-> MCPost("b", "i2", 1), s3 |-> MCPost("a", "i3", 0),
   p1 |-> MCPost("b", "i4", Unparsed), p2 |-> MCPost("a", "i4", 0), p3 |-> MCPost("a", "i5", 2),
   r1 |-> MCReply("b", "s1", "i6"), r2 |-> MCReply("a", "s1", "i7"), r3 |-> MCReply("b", "s1", "i6"),
   r4 |-> MCReply("a", "r1", "i8"),
   e1 |-> MCOn("react", "a", "s1"), e2 |-> MCOn("react", "b", "s1"), e3 |-> MCOn("react", "b", "s1"),
   e4 |-> MCOn("react", "a", "s2"),
   t1 |-> MCOn("report", "b", "s1"), t2 |-> [MCOn("report", "b", "s1") EXCEPT !.valid = FALSE],
   f1 |-> MCFollow("follow", "a", "b"), f2 |-> MCFollow("unfollow", "a", "b"),
   f3 |-> MCFollow("follow", "b", "b"), f4 |-> MCFollow("follow", "a", "b")]
MCRequests == DOMAIN MCRequest
MCUuid == [s1 |-> 1, s2 |-> 2, s3 |-> 3, p1 |-> 4, p2 |-> 0, p3 |-> 5, r1 |-> 6, r2 |-> 7,
           r3 |-> 8, r4 |-> 9]
MCScenarios ==
  {{"p1", "p2"}, {"p1", "p3", "e4"}, {"r1", "r2", "e1"}, {"r1", "r3"}, {"r1", "r4"}, {"e1", "e2", "e3"},
   {"r1", "e1", "t1"}, {"t1", "t2"}, {"f1", "f2", "f3", "f4"}}
=============================================================================
