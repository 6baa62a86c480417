--------------------------- MODULE MCMessageIndex ---------------------------
(***************************************************************************)
(* Six transactions in four blocks, with a reorganization from block 1 to  *)
(* block 2.  A handshake (1) sits in both, a payment (2) spends it, a stash *)
(* (3), a contextual message (4) and one without its delimiter (5), which  *)
(* is no message, follow, and an old handshake (6) cannot be read.         *)
(***************************************************************************)
EXTENDS MessageIndex

MCTxs == 1 .. 6
MCPayload == <<<<"ciph_msg", "1", "handshake", "x">>,
               <<"ciph_msg", "1", "pay", "x">>,
               <<"ciph_msg", "1", "self_stash", "k", "x">>,
               <<"ciph_msg", "1", "comm", "k", "x">>,
               <<"ciph_msg", "1", "comm", "x">>,
               <<"ciph_msg", "x">>>>
MCSpends == <<0, 1, 0, 0, 1, 0>>
MCReceiver == <<"bob", "carol", "alice", "bob", "bob", "bob">>
MCOwner == <<"alice", "bob", "alice", "carol", "bob", "alice">>
MCParent == <<0, 0, 2, 3>>
MCPath[b \in 0 .. 4] == IF b = 0 THEN {} ELSE {b} \union MCPath[MCParent[b]]
MCBlockTime == <<2, 1, 3, 3>>
MCDaa == <<1, 1, 2, 3>>
MCBlockTxs == <<{1}, {1, 2}, {3, 4, 5}, {6}>>
MCAccepts == <<{1}, {1}, {2, 3}, {5}>>
=============================================================================
