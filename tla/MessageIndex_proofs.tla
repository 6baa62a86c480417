------------------------- MODULE MessageIndex_proofs ------------------------
(***************************************************************************)
(* Proofs about the message index, for any set of transactions, tree of    *)
(* blocks and number of chain changes and restarts.  The block processor,  *)
(* the node and a restart keep its inductive invariant; so does the        *)
(* virtual chain processor, when it reads and commits a change and when it *)
(* fills in a sender.  From it follow the theorems: rows and senders are   *)
(* complete, acceptance follows the chain, pending senders are served, the *)
(* queries of sender and receiver agree, and the index implements          *)
(* MessageView.                                                            *)
(***************************************************************************)
EXTENDS MessageIndex, FiniteSetTheorems, TLAPS

\* Most steps need no arithmetic: Zenon is tried before the SMT solver.
USE ZenonT(2), SMTT(15)

-----------------------------------------------------------------------------
(* The inductive invariant *)

ReceiverTables == {"handshake_by_receiver", "payment_by_receiver"}

\* What refers to a transaction refers to one that is stored, and what was written for a
\* block was written when it was indexed.
Grounded ==
  /\ \A r \in rows : r.tx \in stored /\ r.block \in indexed
  /\ \A t \in Txs : entries[t] # {} => t \in stored
  /\ \A t \in Txs : \A e \in entries[t] : e[2] \in indexed
  /\ \A b \in Blocks : /\ accepting[b] \subseteq stored \cap Accepts[b]
                       /\ accepting[b] # {} => b \in tracked

\* The block in hand is not indexed yet, and the senders it knows are those of stored
\* transactions.
BlockOpen ==
  /\ bp.block # 0 => bp.block \notin indexed /\ bp.block \in headers
  /\ \A t \in bp.known : Spends[t] \in stored

\* A request for the sender is on its way, answered or failed.
Served(daa, t) ==
  \/ <<daa, t>> \in failed
  \/ \E r \in requests \union answers : r.daa = daa /\ r.tx = t

\* What the change in hand has found is accepted by the blocks it adds; what it has not
\* found was stored too late; and, as long as no conflict is noted, the sender of each
\* transaction with rows waiting has been asked for.
ChangeOpen ==
  vcp.to # 0 =>
    /\ \A t \in vcp.found : \E b \in Added(vcp.to) : t \in Accepts[b]
    /\ \A b \in Added(vcp.to) : \A t \in Accepts[b] \cap stored :
         t \in vcp.found \/ <<t, b>> \in blind
    /\ ~vcp.dirty => \A b \in Added(vcp.to) : \A t \in vcp.found :
         t \in Accepts[b] /\ entries[t] # {} => Served(Daa[b], t)

\* The parts of RowOrEntry and PendingIsServed.
Complete ==
  \A b \in indexed : \A t \in BlockTxs[b] \cap Messages : \A table \in TablesOf[t] :
    Row(table, t, b, Owner[t]) \in rows <=> <<table, b>> \notin entries[t]
Attributed ==
  \A r \in rows : r.sender # Owner[r.tx] =>
    /\ r.sender = NoAddress /\ <<r.table, r.block>> \in entries[r.tx]
    /\ r.table \in ReceiverTables
Noted ==
  \A b \in Path[tip] : \A t \in Waiting(accepting[b]) :
    <<Daa[b], t>> \in pending \/ t \in latecomer
Asked == \A p \in pending : Served(p[1], p[2])

IInv ==
  /\ TypeOK /\ Grounded /\ BlockOpen /\ ChangeOpen
  /\ Complete /\ Attributed /\ AcceptanceKept /\ Noted /\ Asked

-----------------------------------------------------------------------------
(* Handlers *)

LEMMA OwnerKnown == \A t \in Txs : Owner[t] # NoAddress
  BY MessageAssumption DEF Addresses

\* Every kind of message has its tables, with the sender in the value or in the key.
LEMMA Shape ==
  ASSUME NEW t \in Messages
  PROVE  \E value, key :
           /\ value \subseteq ReceiverTables
           /\ \A b, sender : handle_transaction(t, b, sender) = Written(value, key, t, b, sender)
<1>1. Kind(t) \in {"HandshakeVNone", "HandshakeV2", "PaymentV1", "ContextualMessageV1",
                   "SelfStashV1"}
  BY DEF Messages, Kind, parse_sealed_operation
<1>2. CASE Kind(t) = "HandshakeVNone"
  BY <1>2 DEF handle_transaction, handle_handshake, ReceiverTables
<1>3. CASE Kind(t) = "HandshakeV2"
  BY <1>3 DEF handle_transaction, handle_handshake_v2, ReceiverTables
<1>4. CASE Kind(t) = "PaymentV1"
  BY <1>4 DEF handle_transaction, handle_payment, ReceiverTables
<1>5. CASE Kind(t) = "ContextualMessageV1"
  BY <1>5 DEF handle_transaction, handle_contextual_message
<1>6. CASE Kind(t) = "SelfStashV1"
  BY <1>6 DEF handle_transaction, handle_self_stash
<1>7. QED BY <1>1, <1>2, <1>3, <1>4, <1>5, <1>6

\* The tables of a message are those its handler names.
LEMMA TablesAre ==
  ASSUME NEW t \in Messages, NEW value, NEW key,
         \A b, sender : handle_transaction(t, b, sender) = Written(value, key, t, b, sender)
  PROVE  TablesOf[t] = value \union key
<1>1. t \in Txs
  BY DEF Messages
<1>2. Written(value, key, t, 1, Owner[t]).rows
        = {Row(table, t, 1, Owner[t]) : table \in value \union key}
  BY <1>1, OwnerKnown DEF Written
<1>3. TablesOf[t] = {r.table : r \in {Row(table, t, 1, Owner[t]) : table \in value \union key}}
  BY <1>2 DEF TablesOf
<1>4. \A x : x \in TablesOf[t] <=> \E table \in value \union key : x = Row(table, t, 1, Owner[t]).table
  BY <1>3
<1>5. \A table : Row(table, t, 1, Owner[t]).table = table
  BY DEF Row
<1>6. QED BY <1>4, <1>5

\* A handshake or payment the receiver finds has a table by sender as well, and a stash is
\* found by owner and by scope.
LEMMA TablesPaired ==
  ASSUME NEW t \in Messages
  PROVE  /\ "handshake_by_receiver" \in TablesOf[t] => "handshake_by_sender" \in TablesOf[t]
         /\ "payment_by_receiver" \in TablesOf[t] => "payment_by_sender" \in TablesOf[t]
         /\ "self_stash_by_owner" \in TablesOf[t] <=> "self_stash_by_scope" \in TablesOf[t]
<1>1. Kind(t) \in {"HandshakeVNone", "HandshakeV2", "PaymentV1", "ContextualMessageV1",
                   "SelfStashV1"}
  BY DEF Messages, Kind, parse_sealed_operation
<1>2. CASE Kind(t) \in {"HandshakeVNone", "HandshakeV2"}
  <2>1. PICK value, key : value = {"handshake_by_receiver"} /\ key = {"handshake_by_sender"}
    OBVIOUS
  <2>2. \A b, sender : handle_transaction(t, b, sender) = Written(value, key, t, b, sender)
    BY <1>2, <2>1 DEF handle_transaction, handle_handshake, handle_handshake_v2
  <2>3. TablesOf[t] = value \union key
    BY <2>2, TablesAre
  <2>4. QED BY <2>1, <2>3
<1>3. CASE Kind(t) = "PaymentV1"
  <2>1. PICK value, key : value = {"payment_by_receiver"} /\ key = {"payment_by_sender"}
    OBVIOUS
  <2>2. \A b, sender : handle_transaction(t, b, sender) = Written(value, key, t, b, sender)
    BY <1>3, <2>1 DEF handle_transaction, handle_payment
  <2>3. TablesOf[t] = value \union key
    BY <2>2, TablesAre
  <2>4. QED BY <2>1, <2>3
<1>4. CASE Kind(t) = "ContextualMessageV1"
  <2>1. PICK value, key : value = {} /\ key = {"contextual_message_by_sender"}
    OBVIOUS
  <2>2. \A b, sender : handle_transaction(t, b, sender) = Written(value, key, t, b, sender)
    BY <1>4, <2>1 DEF handle_transaction, handle_contextual_message
  <2>3. TablesOf[t] = value \union key
    BY <2>2, TablesAre
  <2>4. QED BY <2>1, <2>3
<1>5. CASE Kind(t) = "SelfStashV1"
  <2>1. PICK value, key : value = {} /\ key = {"self_stash_by_owner", "self_stash_by_scope"}
    OBVIOUS
  <2>2. \A b, sender : handle_transaction(t, b, sender) = Written(value, key, t, b, sender)
    BY <1>5, <2>1 DEF handle_transaction, handle_self_stash
  <2>3. TablesOf[t] = value \union key
    BY <2>2, TablesAre
  <2>4. QED BY <2>1, <2>3
<1>6. QED BY <1>1, <1>2, <1>3, <1>4, <1>5

\* What a handler writes: with a sender a row in each table of the message, without one an
\* entry for each of them, and rows without a sender in the receiver's tables only.
LEMMA Handled ==
  ASSUME NEW t \in Messages, NEW b, NEW sender
  PROVE  LET w == handle_transaction(t, b, sender) IN
         /\ sender # NoAddress => /\ w.rows = {Row(table, t, b, sender) : table \in TablesOf[t]}
                                  /\ w.entries = {}
         /\ sender = NoAddress => /\ w.entries = TablesOf[t] \X {b}
                                  /\ \A r \in w.rows : \E table \in TablesOf[t] \cap ReceiverTables :
                                       r = Row(table, t, b, NoAddress)
<1>1. PICK value, key :
        /\ value \subseteq ReceiverTables
        /\ \A c, s : handle_transaction(t, c, s) = Written(value, key, t, c, s)
  BY Shape
<1>2. TablesOf[t] = value \union key
  BY <1>1, TablesAre
<1>3. QED BY <1>1, <1>2 DEF Written

-----------------------------------------------------------------------------
(* Steps that leave rows and acceptances alone *)

LEMMA InitInv == Init => IInv
<1> SUFFICES ASSUME Init PROVE IInv
  OBVIOUS
<1> USE MessageAssumption DEF Init
<1>1. TypeOK
  BY DEF TypeOK, NoBlockOpen, NoChangeOpen, Blocks
<1>2. Grounded /\ BlockOpen /\ ChangeOpen
  BY DEF Grounded, BlockOpen, ChangeOpen, NoBlockOpen, NoChangeOpen
<1>3. Complete /\ Attributed
  BY DEF Complete, Attributed
<1>4. AcceptanceKept /\ Noted /\ Asked
  BY DEF AcceptanceKept, Noted, Asked
<1>5. QED BY <1>1, <1>2, <1>3, <1>4 DEF IInv

\* Nothing about rows, acceptances and pending senders changes while their tables and what
\* is noted about them do not.
LEMMA TablesStay ==
  ASSUME IInv,
         UNCHANGED <<rows, stored, header, entries, accepting, tracked, pending, tip,
                     indexed, blind, latecomer>>
  PROVE  /\ Grounded' /\ Complete' /\ Attributed' /\ AcceptanceKept' /\ Noted'
<1>1. Grounded'
  BY DEF IInv, Grounded
<1>2. Complete' /\ Attributed'
  BY DEF IInv, Complete, Attributed
<1>3. AcceptanceKept' /\ Noted'
  BY DEF IInv, AcceptanceKept, Noted, Waiting, acceptance_by_tx_id
<1>4. QED BY <1>1, <1>2, <1>3

\* The change in hand stays as it is while the requests do.
LEMMA ChangeStays ==
  ASSUME IInv,
         UNCHANGED <<stored, entries, tip, vcp, requests, answers, failed, blind>>
  PROVE  ChangeOpen'
  BY DEF IInv, ChangeOpen, Added, Served

LEMMA AskedStays ==
  ASSUME IInv, UNCHANGED <<pending, requests, answers, failed>>
  PROVE  Asked'
  BY DEF IInv, Asked, Served

LEMMA IndexBlockInv ==
  ASSUME IInv, NEW b \in Blocks, IndexBlock(b) \/ IndexFails(b)
  PROVE  IInv'
<1> USE DEF IndexBlock, IndexFails, node, bounds, history
<1>1. TypeOK'
  <2>1. bp' \in [block : 0 .. LastBlock, known : SUBSET Messages, dirty : BOOLEAN]
    <3>1. CASE IndexBlock(b)
      <4>1. {t \in BlockTxs[b] \cap Messages : key_by_tx_id(Spends[t])} \in SUBSET Messages
        OBVIOUS
      <4>2. b \in 0 .. LastBlock
        BY MessageAssumption DEF Blocks
      <4>3. QED BY <3>1, <4>1, <4>2
    <3>2. CASE IndexFails(b)
      BY <3>2, MessageAssumption DEF Stopped
    <3>3. QED BY <3>1, <3>2
  <2>2. headers' \subseteq Blocks /\ headers \subseteq headers'
    BY DEF IInv, TypeOK
  <2>3. QED BY <2>1, <2>2 DEF IInv, TypeOK
<1>2. BlockOpen'
  BY DEF IInv, TypeOK, BlockOpen, key_by_tx_id, Stopped, Blocks
<1>3. QED BY <1>1, <1>2, TablesStay, ChangeStays, AskedStays DEF IInv

LEMMA ConflictBlockInv ==
  ASSUME IInv, ConflictBlock
  PROVE  IInv'
<1> USE DEF ConflictBlock, tables, node, bounds, history
<1>1. TypeOK'
  <2>1. bp' \in [block : 0 .. LastBlock, known : SUBSET Messages, dirty : BOOLEAN]
    BY MessageAssumption DEF NoBlockOpen
  <2>2. announced' \subseteq headers
    BY DEF IInv, TypeOK, BlockOpen
  <2>3. QED BY <2>1, <2>2 DEF IInv, TypeOK
<1>2. BlockOpen'
  BY DEF BlockOpen, NoBlockOpen
<1>3. QED BY <1>1, <1>2, TablesStay, ChangeStays, AskedStays DEF IInv

LEMMA RequestInv ==
  ASSUME IInv, NEW r \in requests, AnswerSender(r) \/ FailSender(r)
  PROVE  IInv'
<1> USE DEF AnswerSender, FailSender, tables, bounds, history
<1>1. TypeOK'
  BY DEF IInv, TypeOK
<1>2. BlockOpen'
  BY DEF IInv, BlockOpen
<1>3. \A daa, t : Served(daa, t) => Served(daa, t)'
  BY DEF Served
<1>4. ChangeOpen'
  BY <1>3 DEF IInv, ChangeOpen, Added
<1>5. Asked'
  BY <1>3 DEF IInv, Asked
<1>6. QED BY <1>1, <1>2, <1>4, <1>5, TablesStay DEF IInv

LEMMA RestartInv ==
  ASSUME IInv, Restart
  PROVE  IInv'
<1> USE DEF Restart, tables, history
<1>1. TypeOK'
  <2>1. requests' \subseteq Requests
    BY DEF IInv, TypeOK, Requests
  <2>2. /\ bp' \in [block : 0 .. LastBlock, known : SUBSET Messages, dirty : BOOLEAN]
        /\ vcp' \in [to : 0 .. LastBlock, found : SUBSET stored, dirty : BOOLEAN]
    BY MessageAssumption DEF NoBlockOpen, NoChangeOpen
  <2>3. QED BY <2>1, <2>2, MessageAssumption DEF IInv, TypeOK
<1>2. BlockOpen' /\ ChangeOpen'
  BY DEF BlockOpen, ChangeOpen, NoBlockOpen, NoChangeOpen
<1>3. Asked'
  <2> SUFFICES ASSUME NEW p \in pending PROVE Served(p[1], p[2])'
    BY DEF Asked
  <2>1. [daa |-> p[1], tx |-> p[2], n |-> 0] \in requests'
    OBVIOUS
  <2>2. QED BY <2>1 DEF Served
<1>4. QED BY <1>1, <1>2, <1>3, TablesStay DEF IInv

-----------------------------------------------------------------------------
(* The commit of a block *)

Arriving == BlockTxs[bp.block] \cap Messages

\* A sender taken from the spent transaction is the owner.
LEMMA SenderIsOwner ==
  ASSUME IInv, NEW t \in Messages
  PROVE  SenderOf(t) \in {Owner[t], NoAddress}
<1>1. t \in Txs /\ (t \in bp.known => Spends[t] \in Txs)
  BY DEF IInv, TypeOK, BlockOpen, Messages
<1>2. QED BY <1>1, MessageAssumption DEF SenderOf

\* What a commit adds: for a transaction with a known sender the rows of all its tables,
\* for one without the entries of all of them, all of this block.
LEMMA CommitBlockAdds ==
  ASSUME IInv, CommitBlock
  PROVE  /\ bp.block \in Blocks /\ rows \subseteq rows' /\ Arriving \subseteq Txs
         /\ \A r \in rows' \ rows : \E t \in Arriving : \E table \in TablesOf[t] :
              /\ r = Row(table, t, bp.block, SenderOf(t))
              /\ SenderOf(t) = NoAddress => table \in ReceiverTables
         /\ \A t \in Arriving : \A table \in TablesOf[t] :
              SenderOf(t) # NoAddress => Row(table, t, bp.block, SenderOf(t)) \in rows'
         /\ entries' = [t \in Txs |->
              IF t \in Arriving /\ SenderOf(t) = NoAddress
              THEN entries[t] \union (TablesOf[t] \X {bp.block}) ELSE entries[t]]
<1> DEFINE written(t) == handle_transaction(t, bp.block, SenderOf(t))
<1>1. bp.block \in Blocks /\ Arriving \subseteq Txs
  BY DEF CommitBlock, IInv, BlockOpen, TypeOK, Arriving, Messages
<1>2. rows' = rows \union UNION {written(t).rows : t \in Arriving}
  BY DEF CommitBlock, Arriving
<1>3. entries' = [t \in Txs |->
        IF t \in Arriving THEN entries[t] \union written(t).entries ELSE entries[t]]
  BY DEF CommitBlock, Arriving, AddEntries
<1>4. \A t \in Arriving :
        /\ SenderOf(t) # NoAddress =>
             /\ written(t).rows = {Row(table, t, bp.block, SenderOf(t)) : table \in TablesOf[t]}
             /\ written(t).entries = {}
        /\ SenderOf(t) = NoAddress =>
             /\ written(t).entries = TablesOf[t] \X {bp.block}
             /\ \A r \in written(t).rows : \E table \in TablesOf[t] \cap ReceiverTables :
                  r = Row(table, t, bp.block, NoAddress)
  BY Handled DEF Arriving
<1> HIDE DEF written
<1>5. rows \subseteq rows'
  BY <1>2
<1>6. ASSUME NEW r \in rows' \ rows
      PROVE  \E t \in Arriving : \E table \in TablesOf[t] :
               /\ r = Row(table, t, bp.block, SenderOf(t))
               /\ SenderOf(t) = NoAddress => table \in ReceiverTables
  <2>1. PICK t \in Arriving : r \in written(t).rows
    BY <1>2
  <2>2. CASE SenderOf(t) = NoAddress
    BY <1>4, <2>1, <2>2
  <2>3. CASE SenderOf(t) # NoAddress
    BY <1>4, <2>1, <2>3
  <2>4. QED BY <2>2, <2>3
<1>7. ASSUME NEW t \in Arriving, NEW table \in TablesOf[t], SenderOf(t) # NoAddress
      PROVE  Row(table, t, bp.block, SenderOf(t)) \in rows'
  BY <1>2, <1>4, <1>7
<1>8. entries' = [t \in Txs |->
        IF t \in Arriving /\ SenderOf(t) = NoAddress
        THEN entries[t] \union (TablesOf[t] \X {bp.block}) ELSE entries[t]]
  BY <1>3, <1>4
<1>9. QED BY <1>1, <1>5, <1>6, <1>7, <1>8

\* Row is injective.
LEMMA RowFields ==
  \A table, t, b, sender :
    LET r == Row(table, t, b, sender)
    IN r.table = table /\ r.tx = t /\ r.block = b /\ r.sender = sender
  BY DEF Row

LEMMA CommitBlockType ==
  ASSUME IInv, CommitBlock
  PROVE  TypeOK'
<1>1. rows' \subseteq [table : Tables, tx : Messages, block : Blocks,
                      sender : Addresses \union {NoAddress}]
  <2> SUFFICES ASSUME NEW r \in rows' \ rows
               PROVE  r \in [table : Tables, tx : Messages, block : Blocks,
                             sender : Addresses \union {NoAddress}]
    BY DEF IInv, TypeOK
  <2>1. PICK t, table : /\ t \in Arriving /\ table \in TablesOf[t]
                       /\ r = Row(table, t, bp.block, SenderOf(t))
    BY CommitBlockAdds
  <2>2. t \in Messages /\ t \in Txs
    BY <2>1, CommitBlockAdds DEF Arriving
  <2>3. table \in Tables /\ Owner[t] \in Addresses
    BY <2>1, <2>2 DEF Tables, Addresses
  <2>4. QED BY <2>1, <2>2, <2>3, CommitBlockAdds, SenderIsOwner DEF Row
<1>2. entries' \in [Txs -> SUBSET (Tables \X Blocks)]
  <2>1. \A t \in Arriving : TablesOf[t] \subseteq Tables
    BY DEF Tables, Arriving
  <2>2. QED BY <2>1, CommitBlockAdds DEF IInv, TypeOK
<1>3. vcp' \in [to : 0 .. LastBlock, found : SUBSET stored', dirty : BOOLEAN]
  BY DEF CommitBlock, IInv, TypeOK
<1>4. /\ payloads' \subseteq Messages /\ stored' \subseteq Messages
      /\ announced' \subseteq headers /\ indexed' \subseteq headers
  BY DEF CommitBlock, IInv, TypeOK, BlockOpen
<1>5. bp' \in [block : 0 .. LastBlock, known : SUBSET Messages, dirty : BOOLEAN]
  BY MessageAssumption DEF CommitBlock, NoBlockOpen
<1>6. QED BY <1>1, <1>2, <1>3, <1>4, <1>5 DEF CommitBlock, node, bounds, IInv, TypeOK

LEMMA CommitBlockRows ==
  ASSUME IInv, CommitBlock
  PROVE  Grounded' /\ Complete' /\ Attributed'
<1>1. /\ stored' = stored \union Arriving
      /\ indexed' = indexed \union {bp.block}
      /\ bp.block \notin indexed
      /\ UNCHANGED <<accepting, tracked>>
  BY DEF CommitBlock, Arriving, IInv, BlockOpen
<1>2. Grounded'
  <2>1. \A r \in rows' : r.tx \in stored' /\ r.block \in indexed'
    BY <1>1, CommitBlockAdds, RowFields DEF IInv, Grounded
  <2>2. \A t \in Txs : entries'[t] # {} => t \in stored'
    BY <1>1, CommitBlockAdds DEF IInv, Grounded
  <2>3. ASSUME NEW t \in Txs, NEW e \in entries'[t] PROVE e[2] \in indexed'
    BY <1>1, CommitBlockAdds DEF IInv, Grounded
  <2>4. QED BY <1>1, <2>1, <2>2, <2>3 DEF IInv, Grounded
<1>3. Complete'
  <2> SUFFICES ASSUME NEW b \in indexed', NEW t \in BlockTxs[b] \cap Messages,
                      NEW table \in TablesOf[t]
               PROVE  Row(table, t, b, Owner[t]) \in rows' <=> <<table, b>> \notin entries'[t]
    BY DEF Complete
  <2>1. t \in Txs
    BY DEF Messages
  <2>2. CASE b = bp.block
    <3>1. t \in Arriving
      BY <2>2 DEF Arriving
    <3>2. <<table, b>> \notin entries[t]
      BY <1>1, <2>1, <2>2 DEF IInv, Grounded
    <3>3. Row(table, t, b, Owner[t]) \notin rows
      BY <1>1, <2>2, RowFields DEF IInv, Grounded
    <3>4. CASE SenderOf(t) = NoAddress
      <4>1. <<table, b>> \in entries'[t]
        BY <2>1, <2>2, <3>1, <3>4, CommitBlockAdds
      <4>2. Row(table, t, b, Owner[t]) \notin rows'
        BY <2>1, <3>3, <3>4, CommitBlockAdds, RowFields, OwnerKnown
      <4>3. QED BY <4>1, <4>2
    <3>5. CASE SenderOf(t) # NoAddress
      <4>1. Row(table, t, b, Owner[t]) \in rows'
        BY <2>2, <3>1, <3>5, CommitBlockAdds, SenderIsOwner
      <4>2. entries'[t] = entries[t]
        BY <2>1, <3>5, CommitBlockAdds
      <4>3. QED BY <3>2, <4>1, <4>2
    <3>6. QED BY <3>4, <3>5
  <2>3. CASE b # bp.block
    <3>1. b \in indexed
      BY <1>1, <2>3
    <3>2. <<table, b>> \in entries'[t] <=> <<table, b>> \in entries[t]
      BY <2>1, <2>3, CommitBlockAdds
    <3>3. Row(table, t, b, Owner[t]) \in rows' <=> Row(table, t, b, Owner[t]) \in rows
      BY <2>3, CommitBlockAdds, RowFields
    <3>4. QED BY <3>1, <3>2, <3>3 DEF IInv, Complete
  <2>4. QED BY <2>2, <2>3
<1>4. Attributed'
  <2> SUFFICES ASSUME NEW r \in rows', r.sender # Owner[r.tx]
               PROVE  /\ r.sender = NoAddress /\ <<r.table, r.block>> \in entries'[r.tx]
                      /\ r.table \in ReceiverTables
    BY DEF Attributed
  <2>1. CASE r \in rows
    <3>1. r.tx \in Txs
      BY <2>1 DEF IInv, TypeOK, Messages
    <3>2. entries[r.tx] \subseteq entries'[r.tx]
      BY <3>1, CommitBlockAdds
    <3>3. QED BY <2>1, <3>2 DEF IInv, Attributed
  <2>2. CASE r \notin rows
    <3>1. PICK t, table :
            /\ t \in Arriving /\ table \in TablesOf[t]
            /\ r = Row(table, t, bp.block, SenderOf(t))
            /\ SenderOf(t) = NoAddress => table \in ReceiverTables
      BY <2>2, CommitBlockAdds
    <3>2. r.table = table /\ r.tx = t /\ r.block = bp.block /\ r.sender = SenderOf(t)
      BY <3>1, RowFields
    <3>3. SenderOf(t) = NoAddress
      BY <3>1, <3>2, SenderIsOwner DEF Arriving
    <3>4. <<table, bp.block>> \in entries'[t]
      BY <3>1, <3>3, CommitBlockAdds
    <3>5. QED BY <3>1, <3>2, <3>3, <3>4
  <2>3. QED BY <2>1, <2>2
<1>5. QED BY <1>2, <1>3, <1>4

LEMMA CommitBlockChange ==
  ASSUME IInv, CommitBlock
  PROVE  ChangeOpen' /\ AcceptanceKept' /\ Noted'
<1>1. /\ stored' = stored \union Arriving
      /\ UNCHANGED <<header, accepting, tracked, pending, tip, requests, answers, failed>>
      /\ blind \subseteq blind' /\ latecomer \subseteq latecomer'
  BY DEF CommitBlock, Arriving, node
<1>2. /\ vcp'.to = vcp.to /\ vcp'.found = vcp.found
      /\ ~vcp'.dirty => ~vcp.dirty /\ Arriving \cap ReadByVcp = {}
  BY DEF CommitBlock, Arriving, IInv, TypeOK
<1>3. ASSUME NEW t \in Arriving \ stored, NEW b \in Path[tip] \union Path[vcp.to],
             t \in Accepts[b]
      PROVE  <<t, b>> \in blind'
  BY <1>3 DEF CommitBlock, Arriving
<1>4. ChangeOpen'
  <2> SUFFICES ASSUME vcp.to # 0
               PROVE  /\ \A t \in vcp.found : \E b \in Added(vcp.to) : t \in Accepts[b]
                      /\ \A b \in Added(vcp.to) : \A t \in Accepts[b] \cap stored' :
                           t \in vcp.found \/ <<t, b>> \in blind'
                      /\ ~vcp'.dirty => \A b \in Added(vcp.to) : \A t \in vcp.found :
                           t \in Accepts[b] /\ entries'[t] # {} => Served(Daa[b], t)
    BY <1>1, <1>2 DEF ChangeOpen, Added, Served
  <2>1. ASSUME NEW b \in Added(vcp.to), NEW t \in Accepts[b] \cap stored'
        PROVE  t \in vcp.found \/ <<t, b>> \in blind'
    BY <1>1, <1>3 DEF IInv, ChangeOpen, Added
  <2>2. ASSUME ~vcp'.dirty, NEW b \in Added(vcp.to), NEW t \in vcp.found,
               t \in Accepts[b], entries'[t] # {}
        PROVE  Served(Daa[b], t)
    <3>1. t \notin Arriving
      BY <1>2, <2>2 DEF ReadByVcp
    <3>2. t \in Txs
      BY DEF IInv, TypeOK, Messages
    <3>3. entries'[t] = entries[t]
      BY <3>1, <3>2, CommitBlockAdds
    <3>4. QED BY <1>2, <2>2, <3>3 DEF IInv, ChangeOpen
  <2>3. QED BY <2>1, <2>2 DEF IInv, ChangeOpen
<1>5. AcceptanceKept'
  BY <1>1, <1>3 DEF IInv, AcceptanceKept, acceptance_by_tx_id
<1>6. Noted'
  <2> SUFFICES ASSUME NEW b \in Path[tip], NEW t \in accepting[b], entries'[t] # {}
               PROVE  <<Daa[b], t>> \in pending \/ t \in latecomer'
    BY <1>1 DEF Noted, Waiting
  <2>1. b \in Blocks
    BY MessageAssumption DEF IInv, TypeOK
  <2>2. t \in Txs /\ b \in tracked
    <3>1. accepting[b] \subseteq Messages
      BY <2>1 DEF IInv, TypeOK
    <3>2. b \in tracked
      BY <2>1 DEF IInv, Grounded
    <3>3. QED BY <3>1, <3>2 DEF Messages
  <2>3. CASE entries[t] # {}
    BY <1>1, <2>3 DEF IInv, Noted, Waiting
  <2>4. CASE entries[t] = {}
    <3>1. t \in Arriving /\ SenderOf(t) = NoAddress
      BY <2>2, <2>4, CommitBlockAdds
    <3>2. t \notin bp.known
      <4>1. SUFFICES ASSUME t \in bp.known PROVE FALSE
        OBVIOUS
      <4>2. Spends[t] \in Txs
        BY <4>1 DEF IInv, BlockOpen, TypeOK, Messages
      <4>3. QED BY <3>1, <4>1, <4>2, MessageAssumption DEF SenderOf, Addresses
    <3>3. t \in latecomer'
      BY <2>2, <3>1, <3>2 DEF CommitBlock, Arriving
    <3>4. QED BY <3>3
  <2>5. QED BY <2>3, <2>4
<1>7. QED BY <1>4, <1>5, <1>6

LEMMA CommitBlockInv ==
  ASSUME IInv, CommitBlock
  PROVE  IInv'
<1>1. BlockOpen'
  BY DEF CommitBlock, BlockOpen, NoBlockOpen
<1>2. Asked'
  BY AskedStays DEF CommitBlock, node
<1>3. QED BY <1>1, <1>2, CommitBlockType, CommitBlockRows, CommitBlockChange DEF IInv


-----------------------------------------------------------------------------
(* Changes of the virtual chain *)

LEMMA PathsKnown ==
  ASSUME IInv
  PROVE  /\ Path[tip] \subseteq Blocks /\ Path[vcp.to] \subseteq Blocks
         /\ \A b \in Path[tip] : \A c \in Path[tip] : b # c => Accepts[b] \cap Accepts[c] = {}
         /\ \A b \in Path[vcp.to] : \A c \in Path[vcp.to] :
              b # c => Accepts[b] \cap Accepts[c] = {}
<1>1. tip \in 0 .. LastBlock /\ vcp.to \in 0 .. LastBlock
  BY DEF IInv, TypeOK
<1>2. \A e \in 0 .. LastBlock : \A b, c \in Path[e] : b # c => Accepts[b] \cap Accepts[c] = {}
  <2> TAKE e \in 0 .. LastBlock
  <2>1. LastBlock \in Nat /\ Path[0] = {}
    BY MessageAssumption, Zenon
  <2>2. e = 0 \/ e \in Blocks
    BY <2>1 DEF Blocks
  <2>3. CASE e = 0
    BY <2>1, <2>3
  <2>4. CASE e \in Blocks
    BY <2>4, MessageAssumption, Zenon
  <2>5. QED BY <2>2, <2>3, <2>4
<1>3. QED BY <1>1, <1>2, MessageAssumption

LEMMA ReadChangeInv ==
  ASSUME IInv, NEW to \in Blocks, ReadChange(to)
  PROVE  IInv'
<1> DEFINE found == {t \in UNION {Accepts[b] : b \in Added(to)} : key_by_tx_id(t)}
<1>1. /\ vcp' = [to |-> to, found |-> found, dirty |-> FALSE]
      /\ UNCHANGED <<tables, bp, announced, answers, failed, restarts, history>>
  BY DEF ReadChange
<1>2. \A x : x \in requests' <=> \/ x \in requests
        \/ \E b \in Added(to), t \in Waiting(found) :
             t \in Accepts[b] /\ x = [daa |-> Daa[b], tx |-> t, n |-> changes + 1]
  <2> DEFINE asked == {q \in Added(to) \X Waiting(found) : q[2] \in Accepts[q[1]]}
             request(p) == [daa |-> Daa[p[1]], tx |-> p[2], n |-> changes + 1]
  <2>1. requests' = requests \union {request(p) : p \in asked}
    BY DEF ReadChange
  <2>2. \A x : x \in requests' <=> x \in requests \/ \E p \in asked : x = request(p)
    <3> HIDE DEF asked, request
    <3>1. QED BY <2>1
  <2>3. ASSUME NEW x
        PROVE  (\E p \in asked : x = request(p)) <=>
                 \E b \in Added(to), t \in Waiting(found) :
                   t \in Accepts[b] /\ x = [daa |-> Daa[b], tx |-> t, n |-> changes + 1]
    <3> HIDE DEF found
    <3>1. ASSUME NEW p \in asked, x = request(p)
          PROVE  \E b \in Added(to), t \in Waiting(found) :
                   t \in Accepts[b] /\ x = [daa |-> Daa[b], tx |-> t, n |-> changes + 1]
      <4>1. p[1] \in Added(to) /\ p[2] \in Waiting(found) /\ p[2] \in Accepts[p[1]]
        OBVIOUS
      <4>2. QED BY <3>1, <4>1
    <3>2. ASSUME NEW b \in Added(to), NEW t \in Waiting(found), t \in Accepts[b],
                 x = [daa |-> Daa[b], tx |-> t, n |-> changes + 1]
          PROVE  \E p \in asked : x = request(p)
      <4>1. <<b, t>> \in asked
        BY <3>2
      <4>2. x = request(<<b, t>>)
        BY <3>2
      <4>3. QED BY <4>1, <4>2
    <3>3. QED BY <3>1, <3>2
  <2> HIDE DEF asked, request
  <2>4. QED BY <2>2, <2>3
<1>3. found \subseteq stored /\ Added(to) \subseteq Blocks
  BY MessageAssumption DEF key_by_tx_id, Added, Blocks
<1>4. TypeOK'
  <2>1. changes' \in Nat /\ changes + 1 \in Nat
    <3>1. changes \in Nat
      BY DEF IInv, TypeOK
    <3>2. changes' = changes + 1
      BY DEF ReadChange
    <3> HIDE DEF found
    <3>3. QED BY <3>1, <3>2
  <2>2. requests' \subseteq Requests
    <3>1. Waiting(found) \subseteq Messages
      BY <1>3 DEF Waiting, IInv, TypeOK
    <3>2. \A b \in Added(to) : Daa[b] \in Nat
      BY <1>3, MessageAssumption
    <3>3. requests \subseteq Requests
      BY DEF IInv, TypeOK
    <3> HIDE DEF found
    <3>4. QED BY <1>2, <2>1, <3>1, <3>2, <3>3 DEF Requests
  <2>3. vcp' \in [to : 0 .. LastBlock, found : SUBSET stored', dirty : BOOLEAN]
    BY <1>1, <1>3 DEF tables, Blocks
  <2>4. QED BY <1>1, <2>1, <2>2, <2>3 DEF IInv, TypeOK, tables, history
<1>5. BlockOpen'
  BY <1>1 DEF IInv, BlockOpen, tables, history
<1>6. \A daa, t : Served(daa, t) => Served(daa, t)'
  BY <1>1, <1>2 DEF Served
<1>7. ChangeOpen'
  <2>1. Added(to)' = Added(to) /\ vcp'.to = to /\ vcp'.found = found
    BY <1>1 DEF Added, tables
  <2>2. ASSUME NEW b \in Added(to), NEW t \in found, t \in Accepts[b], entries[t] # {}
        PROVE  Served(Daa[b], t)'
    <3>1. [daa |-> Daa[b], tx |-> t, n |-> changes + 1] \in requests'
      <4>1. t \in Waiting(found)
        BY <2>2 DEF Waiting
      <4> HIDE DEF found
      <4>2. QED BY <1>2, <2>2, <4>1
    <3>2. QED BY <3>1 DEF Served
  <2>3. \A t \in found : \E b \in Added(to) : t \in Accepts[b]
    OBVIOUS
  <2>4. \A b \in Added(to) : \A t \in Accepts[b] \cap stored : t \in found
    BY DEF key_by_tx_id
  <2>5. UNCHANGED <<stored, entries, blind>>
    BY <1>1 DEF tables, history
  <2> HIDE DEF found
  <2>6. QED BY <2>1, <2>2, <2>3, <2>4, <2>5 DEF ChangeOpen
<1>8. Asked'
  BY <1>1, <1>6 DEF IInv, Asked, tables
<1>9. QED BY <1>1, <1>4, <1>5, <1>7, <1>8, TablesStay DEF IInv, tables, history

\* Which blocks a commit names: one that is added for what was found, one that is removed
\* for what is undone.
LEMMA AcceptorsNamed ==
  ASSUME IInv, vcp.to # 0
  PROVE  /\ \A t \in vcp.found : /\ AcceptorIn(Added(vcp.to), t) \in Added(vcp.to)
                                  /\ t \in Accepts[AcceptorIn(Added(vcp.to), t)]
         /\ \A p \in Undone(vcp.to) :
              /\ p[1] \in Removed(vcp.to) /\ p[2] \in Accepts[p[1]]
              /\ AcceptorIn(Removed(vcp.to), p[2]) \in Removed(vcp.to)
<1>1. ASSUME NEW t \in vcp.found
      PROVE  /\ AcceptorIn(Added(vcp.to), t) \in Added(vcp.to)
             /\ t \in Accepts[AcceptorIn(Added(vcp.to), t)]
  <2>1. \E b \in Added(vcp.to) : t \in Accepts[b]
    BY DEF IInv, ChangeOpen
  <2>2. QED BY <2>1 DEF AcceptorIn
<1>2. ASSUME NEW p \in Undone(vcp.to)
      PROVE  /\ p[1] \in Removed(vcp.to) /\ p[2] \in Accepts[p[1]]
             /\ AcceptorIn(Removed(vcp.to), p[2]) \in Removed(vcp.to)
  <2>1. p[1] \in Removed(vcp.to) /\ p[2] \in accepting[p[1]]
    BY DEF Undone
  <2>2. p[1] \in Blocks
    BY <2>1, PathsKnown DEF Removed
  <2>3. p[2] \in Accepts[p[1]]
    BY <2>1, <2>2 DEF IInv, Grounded
  <2>4. QED BY <2>1, <2>3 DEF AcceptorIn
<1>3. QED BY <1>1, <1>2

\* The keys of pending senders, written without the pairs they come from.
LEMMA PendingKeysAre ==
  ASSUME NEW S, NEW x, x \in PendingKeys(S)
  PROVE  \E p \in S : entries[p[2]] # {} /\ x = <<Daa[p[1]], p[2]>>
  BY DEF PendingKeys

\* What a commit changes of the acceptances: a block that stays keeps its row, and a
\* transaction it accepts keeps its acceptor and its pending sender.
LEMMA ChangeKeeps ==
  ASSUME IInv, CommitChange, NEW b \in Path[tip] \cap Path[vcp.to], NEW t \in accepting[b]
  PROVE  /\ t \in Accepts[b] /\ t \in Txs
         /\ accepting'[b] = accepting[b] /\ header'[t] = header[t]
         /\ <<Daa[b], t>> \in pending => <<Daa[b], t>> \in pending'
<1>1. b \in Blocks /\ b \notin Added(vcp.to) /\ b \notin Removed(vcp.to) /\ vcp.to # 0
  BY PathsKnown DEF Added, Removed, CommitChange
<1>2. t \in Accepts[b] /\ t \in Txs
  BY <1>1 DEF IInv, Grounded, TypeOK, Messages
<1>3. accepting'[b] = accepting[b]
  BY <1>1 DEF CommitChange, AcceptingAfter
<1>4. ASSUME t \in vcp.found PROVE FALSE
  <2>1. PICK c : c = AcceptorIn(Added(vcp.to), t)
    OBVIOUS
  <2>2. c \in Added(vcp.to) /\ t \in Accepts[c]
    BY <1>1, <1>4, <2>1, AcceptorsNamed
  <2>3. c \in Path[vcp.to] /\ b # c
    BY <1>1, <2>2 DEF Added
  <2>4. QED BY <1>2, <2>2, <2>3, PathsKnown
<1>5. \A p \in Undone(vcp.to) : p[2] # t
  BY <1>1, <1>2, AcceptorsNamed, PathsKnown DEF Removed
<1>6. header'[t] = header[t]
  BY <1>2, <1>4, <1>5 DEF CommitChange, AcceptorAfter
<1>7. <<Daa[b], t>> \notin PendingKeys(Undone(vcp.to))
  BY <1>5, PendingKeysAre
<1>8. QED BY <1>2, <1>3, <1>6, <1>7 DEF CommitChange

LEMMA CommitChangeType ==
  ASSUME IInv, CommitChange
  PROVE  TypeOK' /\ Grounded'
<1>1. vcp.to # 0 /\ Added(vcp.to) \subseteq Blocks /\ Removed(vcp.to) \subseteq Blocks
  BY PathsKnown DEF CommitChange, Added, Removed
<1>2. header' \in [Txs -> 0 .. LastBlock]
  <2>1. ASSUME NEW t \in Txs PROVE AcceptorAfter(t, vcp.to) \in 0 .. LastBlock
    <3>1. CASE t \in vcp.found
      <4>1. AcceptorAfter(t, vcp.to) \in Added(vcp.to)
        BY <1>1, <3>1, AcceptorsNamed DEF AcceptorAfter
      <4>2. QED BY <1>1, <4>1 DEF Blocks
    <3>2. CASE t \notin vcp.found /\ \E p \in Undone(vcp.to) : p[2] = t
      <4>1. AcceptorAfter(t, vcp.to) = AcceptorIn(Removed(vcp.to), t)
        BY <3>2 DEF AcceptorAfter
      <4>2. AcceptorAfter(t, vcp.to) \in Removed(vcp.to)
        BY <1>1, <3>2, <4>1, AcceptorsNamed
      <4>3. QED BY <1>1, <4>2 DEF Blocks
    <3>3. CASE t \notin vcp.found /\ ~\E p \in Undone(vcp.to) : p[2] = t
      BY <3>3 DEF AcceptorAfter, IInv, TypeOK
    <3>4. QED BY <3>1, <3>2, <3>3
  <2>2. QED BY <2>1 DEF CommitChange
<1>3. accepting' \in [Blocks -> SUBSET Messages] /\ tracked' \subseteq Blocks
  BY <1>1 DEF CommitChange, AcceptingAfter, IInv, TypeOK
<1>4. pending' \subseteq Nat \X Messages
  <2> SUFFICES ASSUME NEW x \in PendingKeys(Done(vcp.to)) PROVE x \in Nat \X Messages
    BY DEF CommitChange, IInv, TypeOK
  <2>1. PICK p \in Done(vcp.to) : x = <<Daa[p[1]], p[2]>>
    BY PendingKeysAre
  <2>2. p[1] \in Blocks /\ p[2] \in Messages
    BY <1>1 DEF Done, IInv, TypeOK
  <2>3. QED BY <2>1, <2>2, MessageAssumption
<1>5. /\ tip' \in 0 .. LastBlock
      /\ bp' \in [block : 0 .. LastBlock, known : SUBSET Messages, dirty : BOOLEAN]
      /\ vcp' \in [to : 0 .. LastBlock, found : SUBSET stored, dirty : BOOLEAN]
  <2>1. tip' \in 0 .. LastBlock
    BY DEF CommitChange, IInv, TypeOK
  <2>2. bp' \in [block : 0 .. LastBlock, known : SUBSET Messages, dirty : BOOLEAN]
    BY DEF CommitChange, IInv, TypeOK
  <2>3. vcp' \in [to : 0 .. LastBlock, found : SUBSET stored, dirty : BOOLEAN]
    BY MessageAssumption DEF CommitChange, NoChangeOpen
  <2>4. QED BY <2>1, <2>2, <2>3
<1>6. TypeOK'
  BY <1>2, <1>3, <1>4, <1>5 DEF CommitChange, IInv, TypeOK, node, bounds, history
<1>7. ASSUME NEW b \in Blocks
      PROVE  /\ accepting'[b] \subseteq stored \cap Accepts[b]
             /\ accepting'[b] # {} => b \in tracked'
  <2>1. vcp.found \subseteq stored
    BY DEF IInv, TypeOK
  <2>2. CASE b \in Added(vcp.to)
    BY <2>1, <2>2 DEF CommitChange, AcceptingAfter
  <2>3. CASE b \notin Added(vcp.to)
    BY <2>3 DEF CommitChange, AcceptingAfter, IInv, Grounded
  <2>4. QED BY <2>2, <2>3
<1>8. Grounded'
  BY <1>7 DEF CommitChange, IInv, Grounded, history
<1>9. QED BY <1>6, <1>8

LEMMA CommitChangeInv ==
  ASSUME IInv, CommitChange
  PROVE  IInv'
<1>1. /\ UNCHANGED <<headers, rows, stored, entries, requests, answers, failed, indexed, blind,
                     latecomer>>
      /\ tip' = vcp.to /\ vcp.to # 0 /\ ~vcp.dirty
      /\ pending' = (pending \ PendingKeys(Undone(vcp.to))) \union PendingKeys(Done(vcp.to))
  BY DEF CommitChange, node, history
<1>2. \A b \in Added(vcp.to) : b \in Blocks /\ accepting'[b] = {t \in vcp.found : t \in Accepts[b]}
  BY PathsKnown DEF CommitChange, AcceptingAfter, Added
<1>3. BlockOpen'
  BY <1>1 DEF CommitChange, IInv, TypeOK, BlockOpen
<1>4. ChangeOpen'
  BY DEF CommitChange, ChangeOpen, NoChangeOpen
<1>5. Complete' /\ Attributed'
  BY <1>1 DEF IInv, Complete, Attributed
<1>6. AcceptanceKept'
  <2> SUFFICES ASSUME NEW b \in Path[vcp.to], NEW t \in Accepts[b] \cap stored,
                      <<t, b>> \notin blind
               PROVE  t \in accepting'[b] /\ header'[t] = b
    BY <1>1 DEF AcceptanceKept, acceptance_by_tx_id
  <2>1. CASE b \in Path[tip]
    <3>1. t \in accepting[b] /\ header[t] = b
      BY <2>1 DEF IInv, AcceptanceKept, acceptance_by_tx_id
    <3>2. QED BY <2>1, <3>1, ChangeKeeps
  <2>2. CASE b \notin Path[tip]
    <3>1. b \in Added(vcp.to)
      BY <2>2 DEF Added
    <3>2. t \in vcp.found
      BY <1>1, <3>1 DEF IInv, ChangeOpen
    <3>3. AcceptorIn(Added(vcp.to), t) = b
      BY <1>1, <3>1, <3>2, AcceptorsNamed, PathsKnown DEF Added
    <3>4. t \in Txs
      BY DEF IInv, TypeOK, Messages
    <3>5. header'[t] = b
      BY <3>2, <3>3, <3>4 DEF CommitChange, AcceptorAfter
    <3>6. QED BY <1>2, <3>1, <3>2, <3>5
  <2>3. QED BY <2>1, <2>2
<1>7. Noted'
  <2> SUFFICES ASSUME NEW b \in Path[vcp.to], NEW t \in accepting'[b], entries[t] # {}
               PROVE  <<Daa[b], t>> \in pending' \/ t \in latecomer
    BY <1>1 DEF Noted, Waiting
  <2>1. CASE b \in Path[tip]
    <3>1. b \in Blocks /\ b \notin Added(vcp.to) /\ b \notin Removed(vcp.to)
      BY <2>1, PathsKnown DEF Added, Removed
    <3>2. t \in accepting[b]
      BY <3>1 DEF CommitChange, AcceptingAfter
    <3>3. <<Daa[b], t>> \in pending \/ t \in latecomer
      BY <2>1, <3>2 DEF IInv, Noted, Waiting
    <3>4. QED BY <2>1, <3>2, <3>3, ChangeKeeps
  <2>2. CASE b \notin Path[tip]
    <3>1. b \in Added(vcp.to)
      BY <2>2 DEF Added
    <3>2. <<b, t>> \in Done(vcp.to)
      BY <1>2, <3>1 DEF Done
    <3>3. <<Daa[b], t>> \in PendingKeys(Done(vcp.to))
      BY <3>2 DEF PendingKeys
    <3>4. QED BY <1>1, <3>3
  <2>3. QED BY <2>1, <2>2
<1>8. Asked'
  <2> SUFFICES ASSUME NEW x \in PendingKeys(Done(vcp.to)) PROVE Served(x[1], x[2])
    BY <1>1 DEF IInv, Asked, Served
  <2>1. PICK p \in Done(vcp.to) : entries[p[2]] # {} /\ x = <<Daa[p[1]], p[2]>>
    BY PendingKeysAre
  <2>2. p[1] \in Added(vcp.to) /\ p[2] \in vcp.found /\ p[2] \in Accepts[p[1]]
    BY DEF Done
  <2>3. QED BY <1>1, <2>1, <2>2 DEF IInv, ChangeOpen
<1>9. QED BY <1>3, <1>4, <1>5, <1>6, <1>7, <1>8, CommitChangeType DEF IInv

-----------------------------------------------------------------------------
(* The sender *)

LEMMA HandleSenderAddressInv ==
  ASSUME IInv, NEW r \in answers, HandleSenderAddress(r)
  PROVE  IInv'
<1> DEFINE t == r.tx
<1>1. t \in Messages /\ t \in Txs /\ Owner[t] \in Addresses
  BY DEF IInv, TypeOK, Requests, Messages, Addresses
<1>2. \A q : q \in rows' <=>
        \/ q \in rows /\ (q.tx # t \/ <<q.table, q.block>> \notin entries[t])
        \/ \E e \in entries[t] : q = Row(e[1], t, e[2], Owner[t])
  BY DEF HandleSenderAddress, Filled
<1>3. /\ entries'[t] = {}
      /\ \A u \in Txs : u # t => entries'[u] = entries[u]
      /\ entries' \in [Txs -> SUBSET (Tables \X Blocks)]
  BY <1>1 DEF HandleSenderAddress, IInv, TypeOK
<1>4. /\ UNCHANGED <<headers, payloads, stored, header, accepting, tracked, tip, announced, vcp,
                     requests, failed, changes, restarts, indexed, blind, latecomer>>
      /\ vcp = NoChangeOpen
      /\ answers' = answers \ {r} /\ pending' = pending \ {<<r.daa, t>>}
  BY DEF HandleSenderAddress, bounds, history
<1>5. bp' \in [block : 0 .. LastBlock, known : SUBSET Messages, dirty : BOOLEAN]
  BY DEF HandleSenderAddress, IInv, TypeOK
<1>6. bp'.block = bp.block /\ bp'.known = bp.known
  BY DEF HandleSenderAddress, IInv, TypeOK
<1>7. \A e \in entries[t] : e = <<e[1], e[2]>> /\ e[1] \in Tables /\ e[2] \in Blocks
  BY <1>1 DEF IInv, TypeOK
<1> HIDE DEF t
<1>8. TypeOK'
  <2>1. rows' \subseteq [table : Tables, tx : Messages, block : Blocks,
                        sender : Addresses \union {NoAddress}]
    <3> SUFFICES ASSUME NEW q \in rows'
                 PROVE  q \in [table : Tables, tx : Messages, block : Blocks,
                               sender : Addresses \union {NoAddress}]
      OBVIOUS
    <3>1. CASE q \in rows
      BY <3>1 DEF IInv, TypeOK
    <3>2. CASE q \notin rows
      <4>1. PICK e \in entries[t] : q = Row(e[1], t, e[2], Owner[t])
        BY <1>2, <3>2
      <4>2. QED BY <1>1, <1>7, <4>1 DEF Row
    <3>3. QED BY <3>1, <3>2
  <2>2. QED BY <1>3, <1>4, <1>5, <2>1 DEF IInv, TypeOK
<1>9. Grounded'
  <2>1. \A q \in rows' : q.tx \in stored /\ q.block \in indexed
    <3> SUFFICES ASSUME NEW q \in rows' PROVE q.tx \in stored /\ q.block \in indexed
      OBVIOUS
    <3>1. CASE q \in rows
      BY <3>1 DEF IInv, Grounded
    <3>2. CASE q \notin rows
      <4>1. PICK e \in entries[t] : q = Row(e[1], t, e[2], Owner[t])
        BY <1>2, <3>2
      <4>2. t \in stored /\ e[2] \in indexed
        BY <1>1 DEF IInv, Grounded
      <4>3. QED BY <4>1, <4>2, RowFields
    <3>3. QED BY <3>1, <3>2
  <2>2. \A u \in Txs : entries'[u] \subseteq entries[u]
    BY <1>3
  <2>3. QED BY <1>4, <2>1, <2>2 DEF IInv, Grounded
<1>10. BlockOpen' /\ ChangeOpen'
  BY <1>4, <1>6 DEF IInv, BlockOpen, ChangeOpen, NoChangeOpen
<1>11. Complete'
  <2> SUFFICES ASSUME NEW b \in indexed, NEW u \in BlockTxs[b] \cap Messages,
                      NEW table \in TablesOf[u]
               PROVE  Row(table, u, b, Owner[u]) \in rows' <=> <<table, b>> \notin entries'[u]
    BY <1>4 DEF Complete
  <2>1. u \in Txs
    BY DEF Messages
  <2>2. Row(table, u, b, Owner[u]) \in rows <=> <<table, b>> \notin entries[u]
    BY DEF IInv, Complete
  <2>3. CASE u = t
    <3>1. CASE <<table, b>> \in entries[t]
      BY <1>2, <1>3, <2>3, <3>1
    <3>2. CASE <<table, b>> \notin entries[t]
      <4> DEFINE q == Row(table, u, b, Owner[u])
      <4>1. q \in rows
        BY <2>2, <2>3, <3>2
      <4>2. <<q.table, q.block>> \notin entries[t]
        BY <3>2, RowFields
      <4> HIDE DEF q
      <4>3. q \in rows'
        BY <1>2, <4>1, <4>2
      <4>4. QED BY <1>3, <2>3, <4>3 DEF q
    <3>3. QED BY <3>1, <3>2
  <2>4. CASE u # t
    <3> DEFINE q == Row(table, u, b, Owner[u])
    <3>1. q.tx # t /\ \A e \in entries[t] : q # Row(e[1], t, e[2], Owner[t])
      BY <2>4, RowFields
    <3> HIDE DEF q
    <3>2. q \in rows' <=> q \in rows
      BY <1>2, <3>1
    <3>3. entries'[u] = entries[u]
      BY <1>3, <2>1, <2>4
    <3>4. QED BY <2>2, <3>2, <3>3 DEF q
  <2>5. QED BY <2>3, <2>4
<1>12. Attributed'
  <2> SUFFICES ASSUME NEW q \in rows', q.sender # Owner[q.tx]
               PROVE  /\ q.sender = NoAddress /\ <<q.table, q.block>> \in entries'[q.tx]
                      /\ q.table \in ReceiverTables
    BY DEF Attributed
  <2>1. q \in rows /\ (q.tx # t \/ <<q.table, q.block>> \notin entries[t])
    BY <1>2, RowFields
  <2>2. /\ q.sender = NoAddress /\ <<q.table, q.block>> \in entries[q.tx]
        /\ q.table \in ReceiverTables
    BY <2>1 DEF IInv, Attributed
  <2>3. q.tx # t /\ q.tx \in Txs
    <3>1. q.tx \in Messages
      BY <2>1 DEF IInv, TypeOK
    <3>2. QED BY <2>1, <2>2, <3>1 DEF Messages
  <2>4. QED BY <1>3, <2>2, <2>3
<1>13. AcceptanceKept'
  BY <1>4 DEF IInv, AcceptanceKept, acceptance_by_tx_id
<1>14. Noted'
  <2> SUFFICES ASSUME NEW b \in Path[tip], NEW u \in accepting[b], entries'[u] # {}
               PROVE  <<Daa[b], u>> \in pending' \/ u \in latecomer
    BY <1>4 DEF Noted, Waiting
  <2>1. u \in Txs
    BY PathsKnown DEF IInv, TypeOK, Messages
  <2>2. u # t /\ entries[u] # {}
    BY <1>3, <2>1
  <2>3. QED BY <1>4, <2>2 DEF IInv, Noted, Waiting
<1>15. Asked'
  <2> SUFFICES ASSUME NEW p \in pending, p # <<r.daa, t>>
               PROVE  Served(p[1], p[2])'
    BY <1>4 DEF Asked
  <2>1. p = <<p[1], p[2]>>
    BY DEF IInv, TypeOK
  <2>2. Served(p[1], p[2])
    BY DEF IInv, Asked
  <2>3. QED BY <1>4, <2>1, <2>2 DEF Served, t
<1>16. QED BY <1>8, <1>9, <1>10, <1>11, <1>12, <1>13, <1>14, <1>15 DEF IInv


-----------------------------------------------------------------------------
(* The theorems *)

LEMMA StutterInv ==
  ASSUME IInv, UNCHANGED vars
  PROVE  IInv'
<1> USE DEF vars, tables, node, bounds, history
<1>1. TypeOK' /\ BlockOpen'
  BY DEF IInv, TypeOK, BlockOpen
<1>2. QED BY <1>1, TablesStay, ChangeStays, AskedStays DEF IInv

LEMMA NextInv ==
  ASSUME IInv, [Next]_vars
  PROVE  IInv'
<1>1. ASSUME NEW b \in Blocks, BeginChange(b)
      PROVE  IInv'
  BY <1>1, ReadChangeInv DEF BeginChange
<1>2. CASE RetryChange
  <2>1. vcp.to \in Blocks
    BY <1>2, MessageAssumption DEF RetryChange, IInv, TypeOK, Blocks
  <2>2. QED BY <1>2, <2>1, ReadChangeInv DEF RetryChange
<1>3. QED BY <1>1, <1>2, IndexBlockInv, CommitBlockInv, ConflictBlockInv, CommitChangeInv,
             RequestInv, HandleSenderAddressInv, RestartInv, StutterInv DEF Next

\* The inductive invariant holds in every state.
THEOREM Inductive == Spec => []IInv
  BY InitInv, NextInv, PTL DEF Spec

\* Every table of every indexed block has the row of each message with its sender, or the
\* acceptance value keeps the entry that will complete it (handle_transaction,
\* resolve_entries_wtx), for any number of blocks, messages, conflicts and restarts.
THEOREM RowsComplete == Spec => []RowOrEntry
<1>1. IInv => RowOrEntry
  BY DEF IInv, Complete, Attributed, RowOrEntry, ReceiverTables
<1>2. QED BY <1>1, Inductive, PTL

\* handle_vcc keeps the acceptances of the chain up to the cursor, except of transactions
\* stored after they were looked up.
THEOREM AcceptancesFollowChain == Spec => []AcceptanceKept
<1>1. IInv => AcceptanceKept
  BY DEF IInv
<1>2. QED BY <1>1, Inductive, PTL

\* No sender is left in pending_senders with nobody to serve it.
THEOREM PendingServed == Spec => []PendingIsServed
<1>1. IInv => PendingIsServed
  <2> SUFFICES ASSUME IInv PROVE PendingIsServed
    OBVIOUS
  <2>1. \A p \in pending : p = <<p[1], p[2]>>
    BY DEF IInv, TypeOK
  <2>2. QED BY <2>1 DEF IInv, Noted, Asked, Served, PendingIsServed
<1>2. QED BY <1>1, Inductive, PTL

-----------------------------------------------------------------------------
(* The queries *)

\* Rows and entries belong to tables of messages their block contains, with the payload
\* stored; and a block whose rows wait for the sender waits in all tables of the message.
ListedInv ==
  /\ \A r \in rows : /\ r.tx \in payloads /\ r.tx \in BlockTxs[r.block]
                     /\ r.table \in TablesOf[r.tx]
  /\ \A t \in Messages : \A e \in entries[t] :
       /\ t \in payloads /\ t \in BlockTxs[e[2]] /\ e[1] \in TablesOf[t]
       /\ \A table \in TablesOf[t] : <<table, e[2]>> \in entries[t]

LEMMA InitListed == Init => ListedInv
  BY DEF Init, ListedInv, Messages

LEMMA CommitBlockListed ==
  ASSUME IInv, ListedInv, CommitBlock
  PROVE  ListedInv'
<1>1. payloads' = payloads \union Arriving
  BY DEF CommitBlock, Arriving
<1>2. ASSUME NEW r \in rows'
      PROVE  /\ r.tx \in payloads' /\ r.tx \in BlockTxs[r.block]
             /\ r.table \in TablesOf[r.tx]
  <2>1. CASE r \in rows
    BY <1>1, <2>1 DEF ListedInv
  <2>2. CASE r \notin rows
    <3>1. PICK t, table : /\ t \in Arriving /\ table \in TablesOf[t]
                         /\ r = Row(table, t, bp.block, SenderOf(t))
      BY <2>2, CommitBlockAdds
    <3>2. r.table = table /\ r.tx = t /\ r.block = bp.block
      BY <3>1, RowFields
    <3>3. QED BY <1>1, <3>1, <3>2 DEF Arriving
  <2>3. QED BY <2>1, <2>2
<1>3. ASSUME NEW t \in Messages, NEW e \in entries'[t]
      PROVE  /\ t \in payloads' /\ t \in BlockTxs[e[2]] /\ e[1] \in TablesOf[t]
             /\ \A table \in TablesOf[t] : <<table, e[2]>> \in entries'[t]
  <2>1. t \in Txs
    BY DEF Messages
  <2>2. CASE e \in entries[t]
    <3>1. entries[t] \subseteq entries'[t]
      BY <2>1, CommitBlockAdds
    <3>2. QED BY <1>1, <2>2, <3>1 DEF ListedInv
  <2>3. CASE e \notin entries[t]
    <3>1. /\ t \in Arriving /\ e \in TablesOf[t] \X {bp.block}
          /\ TablesOf[t] \X {bp.block} \subseteq entries'[t]
      BY <2>1, <2>3, CommitBlockAdds
    <3>2. e[1] \in TablesOf[t] /\ e[2] = bp.block
      BY <3>1
    <3>3. QED BY <1>1, <3>1, <3>2 DEF Arriving
  <2>4. QED BY <2>2, <2>3
<1>4. QED BY <1>2, <1>3 DEF ListedInv

LEMMA HandleSenderAddressListed ==
  ASSUME IInv, ListedInv, NEW r \in answers, HandleSenderAddress(r)
  PROVE  ListedInv'
<1>1. PICK t : t = r.tx
  OBVIOUS
<1>2. t \in Messages /\ t \in Txs
  BY <1>1 DEF IInv, TypeOK, Requests, Messages
<1>3. \A q \in rows' : q \in rows \/ \E e \in entries[t] : q = Row(e[1], t, e[2], Owner[t])
  BY <1>1 DEF HandleSenderAddress, Filled
<1>4. payloads' = payloads /\ entries'[t] = {} /\ \A u \in Txs : u # t => entries'[u] = entries[u]
  BY <1>1, <1>2 DEF HandleSenderAddress, IInv, TypeOK
<1>5. ASSUME NEW q \in rows'
      PROVE  /\ q.tx \in payloads' /\ q.tx \in BlockTxs[q.block]
             /\ q.table \in TablesOf[q.tx]
  <2>1. CASE q \in rows
    BY <1>4, <2>1 DEF ListedInv
  <2>2. CASE q \notin rows
    <3>1. PICK e \in entries[t] : q = Row(e[1], t, e[2], Owner[t])
      BY <1>3, <2>2
    <3>2. q.table = e[1] /\ q.tx = t /\ q.block = e[2]
      BY <3>1, RowFields
    <3>3. QED BY <1>2, <1>4, <3>2 DEF ListedInv
  <2>3. QED BY <2>1, <2>2
<1>6. ASSUME NEW u \in Messages, NEW e \in entries'[u]
      PROVE  /\ u \in payloads' /\ u \in BlockTxs[e[2]] /\ e[1] \in TablesOf[u]
             /\ \A table \in TablesOf[u] : <<table, e[2]>> \in entries'[u]
  <2>1. u \in Txs
    BY DEF Messages
  <2>2. u # t /\ entries'[u] = entries[u]
    BY <1>4, <2>1
  <2>3. QED BY <1>4, <2>2 DEF ListedInv
<1>7. QED BY <1>5, <1>6 DEF ListedInv

LEMMA NextListed ==
  ASSUME IInv, ListedInv, [Next]_vars
  PROVE  ListedInv'
<1>1. CASE UNCHANGED <<rows, entries, payloads>>
  BY <1>1 DEF ListedInv
<1>2. ASSUME NEW b \in Blocks, IndexBlock(b) \/ IndexFails(b) \/ BeginChange(b)
      PROVE  UNCHANGED <<rows, entries, payloads>>
  BY <1>2 DEF IndexBlock, IndexFails, BeginChange, ReadChange, tables
<1>3. ASSUME NEW r \in requests, AnswerSender(r) \/ FailSender(r)
      PROVE  UNCHANGED <<rows, entries, payloads>>
  BY <1>3 DEF AnswerSender, FailSender, tables
<1>4. CASE ConflictBlock \/ RetryChange \/ CommitChange \/ Restart \/ UNCHANGED vars
  <2>1. UNCHANGED <<rows, entries, payloads>>
    BY <1>4 DEF ConflictBlock, RetryChange, ReadChange, CommitChange, Restart, vars, tables
  <2>2. QED BY <1>1, <2>1
<1>5. QED BY <1>1, <1>2, <1>3, <1>4, CommitBlockListed, HandleSenderAddressListed DEF Next

\* A row is determined by its table, transaction and block: it has its sender or waits.
LEMMA RowUnique ==
  ASSUME IInv, ListedInv, NEW r \in rows, NEW s \in rows,
         r.table = s.table, r.tx = s.tx, r.block = s.block
  PROVE  r = s
<1>1. \A q \in rows : q = Row(q.table, q.tx, q.block, q.sender)
  BY DEF IInv, TypeOK, Row
<1>2. \A q \in rows : /\ q.tx \in BlockTxs[q.block] \cap Messages /\ q.block \in indexed
                      /\ q.table \in TablesOf[q.tx]
  BY DEF IInv, TypeOK, Grounded, ListedInv
<1>3. \A q \in rows : q.sender = Owner[q.tx] =>
        <<q.table, q.block>> \notin entries[q.tx]
  <2> SUFFICES ASSUME NEW q \in rows, q.sender = Owner[q.tx]
               PROVE  <<q.table, q.block>> \notin entries[q.tx]
    OBVIOUS
  <2>1. Row(q.table, q.tx, q.block, Owner[q.tx]) \in rows
    BY <1>1
  <2>2. QED BY <1>2, <2>1 DEF IInv, Complete
<1>4. r.sender = s.sender
  BY <1>3 DEF IInv, Attributed
<1>5. QED BY <1>1, <1>4

\* A message one table lists with its sender is listed with it in all its tables.
LEMMA Counterpart ==
  ASSUME IInv, ListedInv, NEW r \in rows, r.sender # NoAddress, NEW table \in TablesOf[r.tx]
  PROVE  Row(table, r.tx, r.block, r.sender) \in rows
<1>1. /\ r.tx \in BlockTxs[r.block] \cap Messages /\ r.block \in indexed
      /\ r.table \in TablesOf[r.tx]
  BY DEF IInv, TypeOK, Grounded, ListedInv
<1>2. r.sender = Owner[r.tx]
  BY DEF IInv, Attributed
<1>3. r = Row(r.table, r.tx, r.block, Owner[r.tx])
  BY <1>2 DEF IInv, TypeOK, Row
<1>4. <<r.table, r.block>> \notin entries[r.tx]
  BY <1>1, <1>3 DEF IInv, Complete
<1>5. PICK e : e = <<table, r.block>>
  OBVIOUS
<1>6. e[2] = r.block
  BY <1>5
<1>7. e \notin entries[r.tx]
  BY <1>1, <1>4, <1>6 DEF ListedInv
<1>8. QED BY <1>1, <1>2, <1>5, <1>7 DEF IInv, Complete

\* A set of numbers that is not empty has a least one.
LEMMA Least ==
  ASSUME NEW S, S \subseteq Nat, S # {}
  PROVE  \E n \in S : \A m \in S : n <= m
<1> DEFINE R == {ss \in Nat \X Nat : ss[1] < ss[2]}
<1>1. IsWellFoundedOn(R, Nat)
  BY NatLessThanWellFounded DEF OpToRel
<1>2. PICK n \in S : \A y \in S : ~(<<y, n>> \in R)
  BY <1>1, WFMin, ZenonT(30)
<1>3. ASSUME NEW m \in S PROVE n <= m
  <2>1. <<m, n>> \in Nat \X Nat /\ <<m, n>>[1] = m /\ <<m, n>>[2] = n
    OBVIOUS
  <2>2. ~(m < n)
    BY <1>2, <2>1
  <2>3. QED BY <2>2
<1>4. QED BY <1>3

\* What Before compares are numbers.
LEMMA RowNumbers ==
  ASSUME IInv
  PROVE  \A r \in rows : BlockTime[r.block] \in Nat /\ r.block \in Nat /\ r.tx \in Nat
<1>1. \A r \in rows : r.block \in Blocks /\ r.tx \in Messages
  BY DEF IInv, TypeOK
<1>2. Blocks \subseteq Nat /\ Messages \subseteq Nat /\ BlockTime \in [Blocks -> Nat]
  <2>1. Messages \subseteq Txs
    BY DEF Messages
  <2>2. Blocks \subseteq Nat
    BY MessageAssumption DEF Blocks
  <2>3. QED BY <2>1, <2>2, MessageAssumption
<1>3. QED BY <1>1, <1>2

\* Before is a total order on the rows of one table.
LEMMA BeforeTotal ==
  ASSUME IInv
  PROVE  \A r, s \in rows :
           /\ ~Before(r, r)
           /\ ~Before(r, s) /\ ~Before(s, r) => r.block = s.block
<1>1. \A r \in rows : BlockTime[r.block] \in Nat /\ r.block \in Nat /\ r.tx \in Nat
  BY RowNumbers
<1>2. QED BY <1>1 DEF Before

\* The scan keeps one row of each transaction it meets.
LEMMA FirstRowExists ==
  ASSUME IInv, ListedInv, NEW table, NEW R, R \subseteq rows, \A r \in R : r.table = table,
         NEW s \in R
  PROVE  \E f \in FirstRows(R) : f.tx = s.tx
<1> DEFINE Same == {r \in R : r.tx = s.tx}
           TimesOf == {BlockTime[r.block] : r \in Same}
<1>1. \A r \in rows : BlockTime[r.block] \in Nat /\ r.block \in Nat /\ r.tx \in Nat
  BY RowNumbers
<1>2. TimesOf \subseteq Nat /\ TimesOf # {}
  BY <1>1
<1>3. PICK time \in TimesOf : \A m \in TimesOf : time <= m
  <2> HIDE DEF TimesOf
  <2>1. QED BY <1>2, Least
<1> DEFINE BlocksOf == {r.block : r \in {q \in Same : BlockTime[q.block] = time}}
<1>4. BlocksOf \subseteq Nat /\ BlocksOf # {}
  BY <1>1
<1>5. PICK block \in BlocksOf : \A m \in BlocksOf : block <= m
  <2> HIDE DEF BlocksOf
  <2>1. QED BY <1>4, Least
<1>6. PICK f \in Same : f.block = block /\ BlockTime[f.block] = time
  OBVIOUS
<1>7. ASSUME NEW g \in R, g.tx = f.tx PROVE ~Before(g, f)
  <2>1. g \in Same /\ time <= BlockTime[g.block]
    BY <1>3, <1>6, <1>7
  <2>2. BlockTime[g.block] = time => block <= g.block
    BY <1>5, <2>1
  <2>3. /\ BlockTime[g.block] \in Nat /\ g.block \in Nat /\ g.tx \in Nat
        /\ BlockTime[f.block] \in Nat /\ f.block \in Nat
    BY <1>1
  <2>4. QED BY <1>6, <1>7, <2>1, <2>2, <2>3 DEF Before
<1>8. QED BY <1>6, <1>7 DEF FirstRows

\* A page as long as there are transactions holds the first row of every one of them: the
\* rows before it are of other transactions.
LEMMA PageIsWhole ==
  ASSUME IInv, ListedInv, NEW table, NEW R, R \subseteq rows, \A r \in R : r.table = table,
         NEW f \in FirstRows(R)
  PROVE  Cardinality({s \in FirstRows(R) : Before(s, f)}) < Cardinality(Txs)
<1>1. PICK P : P = {s \in FirstRows(R) : Before(s, f)}
  OBVIOUS
<1>2. PICK g : g = [s \in P |-> s.tx]
  OBVIOUS
<1>3. /\ P \subseteq rows /\ f \in rows /\ f.tx \in Txs /\ P \subseteq R /\ f \in R
      /\ \A s \in P : s.tx \in Txs
  BY <1>1 DEF FirstRows, IInv, TypeOK, Messages
<1>4. \A s \in P : s.tx # f.tx
  BY <1>1, <1>3 DEF FirstRows
<1>5. ASSUME NEW s \in P, NEW q \in P, s.tx = q.tx PROVE s = q
  <2>1. ~Before(s, q) /\ ~Before(q, s)
    BY <1>1, <1>3, <1>5 DEF FirstRows
  <2>2. s.block = q.block
    BY <1>3, <2>1, BeforeTotal
  <2>3. s.table = q.table
    BY <1>3
  <2>4. QED BY <1>3, <1>5, <2>2, <2>3, RowUnique
<1>6. PICK T : T = Txs \ {f.tx}
  OBVIOUS
<1>7. g \in Injection(P, T)
  <2>1. \A s \in P : s.tx \in T
    BY <1>3, <1>4, <1>6
  <2>2. g \in [P -> T]
    BY <1>2, <2>1
  <2>3. \A s, q \in P : g[s] = g[q] => s = q
    BY <1>2, <1>5
  <2>4. QED BY <2>2, <2>3 DEF Injection, IsInjective
<1>8. IsFiniteSet(T) /\ Cardinality(T) = Cardinality(Txs) - 1
  <2>1. PICK x : x = f.tx
    OBVIOUS
  <2>2. IsFiniteSet(Txs) /\ x \in Txs
    BY <1>3, <2>1, MessageAssumption
  <2>3. QED BY <1>6, <2>1, <2>2, FS_RemoveElement
<1>9. IsFiniteSet(P) /\ Cardinality(P) <= Cardinality(T)
  BY <1>7, <1>8, FS_Injection
<1>10. Cardinality(P) \in Nat /\ Cardinality(Txs) \in Nat
  BY <1>9, MessageAssumption, FS_CardinalityType
<1>11. QED BY <1>1, <1>8, <1>9, <1>10

\* What a query answers has its payload ...
LEMMA AnswersOk ==
  ASSUME IInv, ListedInv, NEW R, R \subseteq rows, NEW limit
  PROVE  Answer(R, limit).ok /\ Answer(R, limit).rows \subseteq R
  BY DEF Answer, FirstRows, ListedInv

\* ... and a query for as many rows as there are transactions shows every one of its table.
LEMMA Shown ==
  ASSUME IInv, ListedInv, NEW table, NEW R, R \subseteq rows, \A r \in R : r.table = table,
         NEW s \in R
  PROVE  \E f \in Answer(R, Cardinality(Txs)).rows : f \in R /\ f.tx = s.tx
<1>1. PICK f \in FirstRows(R) : f.tx = s.tx
  BY FirstRowExists
<1>2. Cardinality({q \in FirstRows(R) : Before(q, f)}) < Cardinality(Txs)
  BY PageIsWhole
<1>3. f \in R
  BY DEF FirstRows
<1>4. f \in Answer(R, Cardinality(Txs)).rows
  BY <1>2 DEF Answer
<1>5. QED BY <1>1, <1>3, <1>4

\* A scan from the start finds every row of its table.
LEMMA ScanAll ==
  ASSUME IInv, NEW table
  PROVE  Scan(table, 0) = {r \in rows : r.table = table}
<1>1. \A r \in rows : BlockTime[r.block] >= 0
  BY RowNumbers
<1>2. QED BY <1>1 DEF Scan

\* What the receiver sees with a sender, that sender's own query shows.
LEMMA SenderSees ==
  ASSUME IInv, ListedInv, NEW r \in rows, r.sender # NoAddress,
         NEW table \in TablesOf[r.tx], NEW R, R = {q \in Scan(table, 0) : q.sender = r.sender}
  PROVE  LET sent == Answer(R, Cardinality(Txs))
         IN sent.ok /\ \E s \in sent.rows : s.tx = r.tx
<1>1. R \subseteq rows /\ \A q \in R : q.table = table
  BY ScanAll
<1>2. PICK s : s = Row(table, r.tx, r.block, r.sender)
  OBVIOUS
<1>3. s \in rows /\ s.table = table /\ s.tx = r.tx /\ s.sender = r.sender
  <2>1. s \in rows
    BY <1>2, Counterpart
  <2>2. PICK t, b, o : t = r.tx /\ b = r.block /\ o = r.sender
    OBVIOUS
  <2>3. s.table = table /\ s.tx = t /\ s.sender = o
    BY <1>2, <2>2, RowFields
  <2>4. QED BY <2>1, <2>2, <2>3
<1>4. s \in R
  BY <1>3, ScanAll
<1>5. PICK f \in Answer(R, Cardinality(Txs)).rows : f.tx = s.tx
  BY <1>1, <1>4, Shown, ZenonT(30)
<1>6. PICK limit : limit = Cardinality(Txs)
  OBVIOUS
<1>7. Answer(R, limit).ok
  BY <1>1, AnswersOk
<1>8. QED BY <1>3, <1>5, <1>6, <1>7

LEMMA HandshakesAgree ==
  ASSUME IInv, ListedInv, NEW a, NEW limit
  PROVE  LET got == get_handshakes_by_receiver(a, 0, limit) IN
         got.ok /\ \A r \in got.rows : r.sender # NoAddress =>
           LET sent == get_handshakes_by_sender(r.sender, 0, Cardinality(Txs))
           IN sent.ok /\ \E s \in sent.rows : s.tx = r.tx
<1>1. PICK R : R = HandshakeByReceiver(a, 0)
  OBVIOUS
<1>2. R \subseteq rows /\ \A r \in R : r.table = "handshake_by_receiver"
  BY <1>1, ScanAll DEF HandshakeByReceiver
<1>3. Answer(R, limit).ok /\ Answer(R, limit).rows \subseteq R
  BY <1>2, AnswersOk
<1>4. ASSUME NEW r \in Answer(R, limit).rows, r.sender # NoAddress
      PROVE  LET sent == get_handshakes_by_sender(r.sender, 0, Cardinality(Txs))
             IN sent.ok /\ \E s \in sent.rows : s.tx = r.tx
  <2>1. r \in rows /\ r.tx \in Messages /\ "handshake_by_receiver" \in TablesOf[r.tx]
    BY <1>2, <1>3 DEF IInv, TypeOK, ListedInv
  <2>2. PICK table : table = "handshake_by_sender"
    OBVIOUS
  <2>3. table \in TablesOf[r.tx]
    BY <2>1, <2>2, TablesPaired
  <2>4. PICK S : S = {q \in Scan(table, 0) : q.sender = r.sender}
    OBVIOUS
  <2>5. LET sent == Answer(S, Cardinality(Txs))
        IN sent.ok /\ \E s \in sent.rows : s.tx = r.tx
    BY <1>4, <2>1, <2>3, <2>4, SenderSees
  <2>6. QED BY <2>2, <2>4, <2>5 DEF get_handshakes_by_sender, HandshakeBySender
<1>5. QED BY <1>1, <1>3, <1>4 DEF get_handshakes_by_receiver

LEMMA PaymentsAgree ==
  ASSUME IInv, ListedInv, NEW a, NEW limit
  PROVE  LET got == get_payments_by_receiver(a, 0, limit) IN
         got.ok /\ \A r \in got.rows : r.sender # NoAddress =>
           LET sent == get_payments_by_sender(r.sender, 0, Cardinality(Txs))
           IN sent.ok /\ \E s \in sent.rows : s.tx = r.tx
<1>1. PICK R : R = PaymentByReceiver(a, 0)
  OBVIOUS
<1>2. R \subseteq rows /\ \A r \in R : r.table = "payment_by_receiver"
  BY <1>1, ScanAll DEF PaymentByReceiver
<1>3. Answer(R, limit).ok /\ Answer(R, limit).rows \subseteq R
  BY <1>2, AnswersOk
<1>4. ASSUME NEW r \in Answer(R, limit).rows, r.sender # NoAddress
      PROVE  LET sent == get_payments_by_sender(r.sender, 0, Cardinality(Txs))
             IN sent.ok /\ \E s \in sent.rows : s.tx = r.tx
  <2>1. r \in rows /\ r.tx \in Messages /\ "payment_by_receiver" \in TablesOf[r.tx]
    BY <1>2, <1>3 DEF IInv, TypeOK, ListedInv
  <2>2. PICK table : table = "payment_by_sender"
    OBVIOUS
  <2>3. table \in TablesOf[r.tx]
    BY <2>1, <2>2, TablesPaired
  <2>4. PICK S : S = {q \in Scan(table, 0) : q.sender = r.sender}
    OBVIOUS
  <2>5. LET sent == Answer(S, Cardinality(Txs))
        IN sent.ok /\ \E s \in sent.rows : s.tx = r.tx
    BY <1>4, <2>1, <2>3, <2>4, SenderSees
  <2>6. QED BY <2>2, <2>4, <2>5 DEF get_payments_by_sender, PaymentBySender
<1>5. QED BY <1>1, <1>3, <1>4 DEF get_payments_by_receiver

\* The two views of the stashes with one label: by their owner and by the scope.
LEMMA StashesAgree ==
  ASSUME IInv, ListedInv, NEW a \in Addresses, NEW t \in Messages, NEW l
  PROVE  LET owned == get_self_stash_by_owner(a, l, 0, Cardinality(Txs))
             scoped == get_self_stash_by_scope(l, Txs, 0, Cardinality(Txs))
         IN /\ owned.ok /\ scoped.ok
            /\ {r.tx : r \in owned.rows} = {r.tx : r \in {s \in scoped.rows : s.sender = a}}
<1>1. PICK All : All = Cardinality(Txs)
  OBVIOUS
<1>2. All # 0
  <2>1. Txs # {}
    BY DEF Messages
  <2>2. QED BY <1>1, <2>1, MessageAssumption, FS_EmptySet
<1>3. PICK own, scope : own = "self_stash_by_owner" /\ scope = "self_stash_by_scope"
  OBVIOUS
<1>4. PICK O : O = {r \in rows : r.table = own /\ r.sender = a /\ Label(Payload[r.tx]) = l}
  OBVIOUS
<1>5. PICK S : S = {r \in rows : r.table = scope /\ Label(Payload[r.tx]) = l}
  OBVIOUS
<1>6. \A r \in rows : r.tx \in Txs /\ r.tx \in Messages /\ r.table \in TablesOf[r.tx]
  BY DEF IInv, TypeOK, ListedInv, Messages
<1>7. O = SelfStashByOwner(a, l, 0)
  BY <1>3, <1>4, ScanAll DEF SelfStashByOwner
<1>8. S = {r \in SelfStashByScope(l, 0) : r.tx \in Txs}
  BY <1>3, <1>5, <1>6, ScanAll DEF SelfStashByScope
<1>9. PICK owned, scoped : owned = Answer(O, All) /\ scoped = Answer(S, All)
  OBVIOUS
<1>10. /\ get_self_stash_by_owner(a, l, 0, Cardinality(Txs)) = owned
       /\ get_self_stash_by_scope(l, Txs, 0, Cardinality(Txs)) = scoped
  BY <1>1, <1>2, <1>7, <1>8, <1>9 DEF get_self_stash_by_owner, get_self_stash_by_scope
<1>11. /\ O \subseteq rows /\ S \subseteq rows
       /\ \A r \in O : r.table = own
       /\ \A r \in S : r.table = scope
  BY <1>4, <1>5
<1>12. owned.ok /\ scoped.ok /\ owned.rows \subseteq O /\ scoped.rows \subseteq S
  BY <1>9, <1>11, AnswersOk
<1>13. \A r \in O \union S : r.sender = Owner[r.tx] /\ r.sender # NoAddress
  <2>1. \A r \in O \union S : r.table \notin ReceiverTables
    BY <1>3, <1>11 DEF ReceiverTables
  <2>2. \A r \in O \union S : r.sender = Owner[r.tx]
    BY <1>11, <2>1 DEF IInv, Attributed
  <2>3. QED BY <1>6, <1>11, <2>2, OwnerKnown
<1>14. ASSUME NEW r \in owned.rows
       PROVE  \E s \in scoped.rows : s.sender = a /\ s.tx = r.tx
  <2>1. r \in O /\ r \in rows /\ r.sender = a /\ r.sender # NoAddress
    BY <1>4, <1>12, <1>13
  <2>2. scope \in TablesOf[r.tx]
    BY <1>3, <1>6, <1>11, <2>1, TablesPaired
  <2>3. PICK s : s = Row(scope, r.tx, r.block, r.sender)
    OBVIOUS
  <2>4. s \in rows /\ s.table = scope /\ s.tx = r.tx
    BY <2>1, <2>2, <2>3, Counterpart, RowFields
  <2>5. s \in S
    BY <1>4, <1>5, <2>1, <2>4
  <2>6. PICK f \in Answer(S, Cardinality(Txs)).rows : f \in S /\ f.tx = s.tx
    BY <1>11, <2>5, Shown
  <2>7. f.sender = a
    BY <1>13, <2>1, <2>4, <2>6
  <2>8. QED BY <1>1, <1>9, <2>4, <2>6, <2>7
<1>15. ASSUME NEW s \in scoped.rows, s.sender = a
       PROVE  \E r \in owned.rows : r.tx = s.tx
  <2>1. s \in S /\ s \in rows /\ s.sender # NoAddress
    BY <1>11, <1>12, <1>13
  <2>2. own \in TablesOf[s.tx]
    BY <1>3, <1>6, <1>11, <2>1, TablesPaired
  <2>3. PICK r : r = Row(own, s.tx, s.block, s.sender)
    OBVIOUS
  <2>4. r \in rows /\ r.table = own /\ r.tx = s.tx /\ r.sender = a
    BY <1>15, <2>1, <2>2, <2>3, Counterpart, RowFields
  <2>5. r \in O
    BY <1>4, <1>5, <2>1, <2>4
  <2>6. PICK f \in Answer(O, Cardinality(Txs)).rows : f.tx = r.tx
    BY <1>11, <2>5, Shown
  <2>7. QED BY <1>1, <1>9, <2>4, <2>6
<1>16. {r.tx : r \in owned.rows} = {r.tx : r \in {s \in scoped.rows : s.sender = a}}
  BY <1>14, <1>15
<1>17. QED BY <1>10, <1>12, <1>16

\* The queries of api/v1 never fail on a missing payload; what a receiver sees with its
\* sender that sender sees, and a stash is found by owner and by scope alike, whatever
\* order blocks, chain changes, conflicts and senders came in.
THEOREM QueriesAlwaysAgree == Spec => []QueriesAgree
<1>1. Spec => []ListedInv
  BY InitListed, NextListed, Inductive, PTL DEF Spec
<1>2. IInv /\ ListedInv => QueriesAgree
  <2> SUFFICES ASSUME IInv, ListedInv PROVE QueriesAgree
    OBVIOUS
  <2>1. PICK All : All = Cardinality(Txs)
    OBVIOUS
  <2>2. ASSUME NEW a, NEW l
        PROVE  get_contextual_messages_by_sender(a, l, 0, All).ok
    <3>1. PICK R : R = ContextualMessageBySender(a, l, 0)
      OBVIOUS
    <3>2. R \subseteq rows
      BY <3>1 DEF ContextualMessageBySender, Scan
    <3>3. Answer(R, All).ok
      BY <3>2, AnswersOk
    <3>4. QED BY <3>1, <3>3 DEF get_contextual_messages_by_sender
  <2>3. QED BY <2>1, <2>2, HandshakesAgree, PaymentsAgree, StashesAgree DEF QueriesAgree
<1>3. QED BY <1>1, <1>2, Inductive, PTL

-----------------------------------------------------------------------------
(* The refinement *)

Attribution == {r.tx : r \in {s \in rows : s.sender # NoAddress}}

LEMMA AttributionHas ==
  \A t : t \in Attribution <=> \E r \in rows : r.sender # NoAddress /\ r.tx = t
  BY DEF Attribution

\* A step that adds rows or completes them, and leaves the acceptances alone, publishes.
LEMMA PublishStep ==
  ASSUME IInv, IInv', stored \subseteq stored', UNCHANGED header,
         \A r \in rows : r.sender # NoAddress =>
           \E q \in rows' : q.sender # NoAddress /\ q.tx = r.tx
  PROVE  View!Publish
<1>1. Attribution \subseteq Attribution'
  <2>1. \A t : t \in Attribution' <=> \E r \in rows' : r.sender # NoAddress /\ r.tx = t
    BY DEF Attribution
  <2>2. QED BY <2>1, AttributionHas
<1>2. Attribution' \subseteq stored'
  BY DEF Attribution, IInv, Grounded
<1>3. stored' \subseteq Messages
  BY DEF IInv, TypeOK
<1>4. QED BY <1>1, <1>2, <1>3 DEF View!Publish, Attribution

LEMMA ViewStep ==
  ASSUME IInv, IInv', [Next]_vars
  PROVE  [View!ViewNext]_(View!viewVars)
<1>1. CASE CommitBlock
  <2>1. stored \subseteq stored' /\ UNCHANGED header
    BY <1>1 DEF CommitBlock
  <2>2. rows \subseteq rows'
    BY <1>1, CommitBlockAdds
  <2>3. QED BY <2>1, <2>2, PublishStep DEF View!ViewNext
<1>2. ASSUME NEW r \in answers, HandleSenderAddress(r)
      PROVE  View!Publish
  <2>1. UNCHANGED <<stored, header>>
    BY <1>2 DEF HandleSenderAddress
  <2>2. r.tx \in Txs
    BY DEF IInv, TypeOK, Requests, Messages
  <2>3. ASSUME NEW q \in rows, q.sender # NoAddress
        PROVE  \E s \in rows' : s.sender # NoAddress /\ s.tx = q.tx
    <3>1. CASE q.tx # r.tx \/ <<q.table, q.block>> \notin entries[r.tx]
      <4>1. q \in rows'
        BY <1>2, <3>1 DEF HandleSenderAddress, Filled
      <4>2. QED BY <2>3, <4>1
    <3>2. CASE q.tx = r.tx /\ <<q.table, q.block>> \in entries[r.tx]
      <4>1. Row(<<q.table, q.block>>[1], r.tx, <<q.table, q.block>>[2], Owner[r.tx]) \in rows'
        BY <1>2, <3>2 DEF HandleSenderAddress, Filled
      <4>2. PICK s : s = Row(<<q.table, q.block>>[1], r.tx, <<q.table, q.block>>[2], Owner[r.tx])
        OBVIOUS
      <4>3. s.tx = r.tx /\ s.sender = Owner[r.tx]
        BY <4>2, RowFields
      <4>4. s \in rows' /\ s.sender # NoAddress
        BY <2>2, <4>1, <4>2, <4>3, OwnerKnown
      <4>5. QED BY <3>2, <4>3, <4>4
    <3>3. QED BY <3>1, <3>2
  <2>4. QED BY <2>1, <2>3, PublishStep
<1>3. CASE CommitChange
  <2>1. UNCHANGED <<stored, rows>> /\ vcp.to # 0
    BY <1>3 DEF CommitChange
  <2>2. ASSUME NEW t \in Messages, header'[t] # header[t]
        PROVE  t \in stored /\ header'[t] \in Blocks
    <3>1. t \in Txs
      BY DEF Messages
    <3>2. header'[t] = AcceptorAfter(t, vcp.to)
      BY <1>3, <3>1 DEF CommitChange
    <3>3. CASE t \in vcp.found
      <4>1. header'[t] \in Added(vcp.to)
        BY <2>1, <3>2, <3>3, AcceptorsNamed DEF AcceptorAfter
      <4>2. QED BY <3>3, <4>1, PathsKnown DEF Added, IInv, TypeOK
    <3>4. CASE t \notin vcp.found
      <4>1. PICK p \in Undone(vcp.to) : p[2] = t
        BY <2>2, <3>2, <3>4 DEF AcceptorAfter
      <4>2. header'[t] \in Removed(vcp.to)
        BY <2>1, <3>2, <3>4, <4>1, AcceptorsNamed DEF AcceptorAfter
      <4>3. p[1] \in Blocks /\ t \in accepting[p[1]]
        BY <4>1, PathsKnown DEF Undone, Removed
      <4>4. t \in stored
        BY <4>3 DEF IInv, Grounded
      <4>5. header'[t] \in Blocks
        BY <4>2, PathsKnown DEF Removed
      <4>6. QED BY <4>4, <4>5
    <3>5. QED BY <3>3, <3>4
  <2>3. View!Accept
    BY <2>1, <2>2 DEF View!Accept
  <2>4. QED BY <2>3 DEF View!ViewNext
<1>4. CASE UNCHANGED <<stored, rows, header>>
  BY <1>4 DEF View!viewVars
<1>5. ASSUME NEW b \in Blocks, IndexBlock(b) \/ IndexFails(b) \/ BeginChange(b)
      PROVE  UNCHANGED <<stored, rows, header>>
  BY <1>5 DEF IndexBlock, IndexFails, BeginChange, ReadChange, tables
<1>6. ASSUME NEW r \in requests, AnswerSender(r) \/ FailSender(r)
      PROVE  UNCHANGED <<stored, rows, header>>
  BY <1>6 DEF AnswerSender, FailSender, tables
<1>7. ASSUME ConflictBlock \/ RetryChange \/ Restart \/ UNCHANGED vars
      PROVE  UNCHANGED <<stored, rows, header>>
  BY <1>7 DEF ConflictBlock, RetryChange, ReadChange, Restart, vars, tables
<1>8. QED BY <1>1, <1>2, <1>3, <1>4, <1>5, <1>6, <1>7 DEF Next, View!ViewNext

\* Both processors with their conflicts, retries and restarts show whoever queries the
\* index what MessageView describes.
THEOREM IndexImplementsView == Spec => ImplementsView
<1>1. Init => View!ViewInit
  BY DEF Init, View!ViewInit, Messages
<1>2. IInv /\ IInv' /\ [Next]_vars => [View!ViewNext]_(View!viewVars)
  BY ViewStep
<1>3. QED BY <1>1, <1>2, Inductive, PTL DEF Spec, ImplementsView, View!ViewSpec
=============================================================================
