--------------------------- MODULE MessageIndex ---------------------------
(***************************************************************************)
(* The index of messages: what the block processor writes for a block's    *)
(* transactions, what the virtual chain processor writes when chain blocks *)
(* accept or lose them, how a sender that is not known yet is asked for    *)
(* and filled in, and what the HTTP queries read.                          *)
(*                                                                         *)
(* Source: protocol/src/operation/deserializer.rs (payloads),              *)
(* block_processor.rs (handle_transaction and the handlers it calls),      *)
(* virtual_chain_processor.rs (handle_vcc, handle_vc_resp,                 *)
(* handle_sender_address), data_source.rs (sender requests), the message   *)
(* and acceptance tables of indexer-db, and indexer/src/api/v1.            *)
(*                                                                         *)
(* Both processors write in fjall transactions.  A commit fails if a key   *)
(* the transaction has read was committed by the other one meanwhile;      *)
(* key_by_tx_id looks into the committed tables past the transaction and   *)
(* is not part of what it has read.                                        *)
(***************************************************************************)
EXTENDS Naturals, Sequences, FiniteSets

CONSTANTS
  Txs,          \* transactions, numbered in the order of their ids
  Payload,      \* payload of each transaction, split at its colons
  Spends,       \* transaction whose output 0 the first input spends, or NoTx
  Receiver,     \* address of the first output
  Owner,        \* address the first input spends from, as the node reports it
  Unreadable,   \* transactions whose first output has no standard script
  NoTx,
  NoAddress,    \* AddressPayload::default()
  LastBlock,    \* blocks are 1 .. LastBlock
  Parent,       \* selected parent of each block, 0 for the first one
  Path,         \* chain blocks from the first one to each block, none for 0
  BlockTime,    \* timestamp of each block
  Daa,          \* DAA score of each block
  BlockTxs,     \* transactions in the body of each block
  Accepts,      \* transactions each block accepts as a chain block
  MaxChanges,   \* bound: tries to apply a change of the virtual chain
  MaxRestarts   \* bound: restarts of the process

Blocks == 1 .. LastBlock
Addresses == {Receiver[t] : t \in Txs} \union {Owner[t] : t \in Txs}

ASSUME MessageAssumption ==
  /\ LastBlock \in Nat /\ MaxChanges \in Nat /\ MaxRestarts \in Nat
  /\ Txs \subseteq Nat /\ IsFiniteSet(Txs)
  /\ NoTx \notin Txs /\ NoAddress \notin Addresses
  /\ \A t \in Txs : Spends[t] = NoTx \/ (Spends[t] \in Txs /\ Owner[t] = Receiver[Spends[t]])
  /\ Parent \in [Blocks -> 0 .. LastBlock] /\ \A b \in Blocks : Parent[b] < b
  /\ Path \in [0 .. LastBlock -> SUBSET Blocks] /\ Path[0] = {}
  /\ \A b \in Blocks : Path[b] = {b} \union Path[Parent[b]]
  /\ BlockTxs \in [Blocks -> SUBSET Txs] /\ Accepts \in [Blocks -> SUBSET Txs]
  /\ \A e \in Blocks : \A b, c \in Path[e] : b # c => Accepts[b] \cap Accepts[c] = {}
  /\ BlockTime \in [Blocks -> Nat] /\ Daa \in [Blocks -> Nat]

VARIABLES
  \* tables
  headers,      \* blocks with a compact header
  payloads,     \* tx_id_to_handshake, _payment, _contextual_message, _self_stash
  rows,         \* rows of the tables the queries scan
  stored,       \* transactions with a key in tx_id_to_acceptance
  header,       \* accepting block in the acceptance value, 0 if none
  entries,      \* rows waiting for a sender in the acceptance value
  accepting,    \* accepting_block_to_tx_ids of each block
  tracked,      \* blocks with a row in accepting_block_to_tx_ids
  pending,      \* pending_senders: <<DAA score, transaction>>
  tip,          \* latest accepting block cursor
  \* processes and channels
  bp,           \* the block processor's open transaction
  announced,    \* blocks the virtual chain processor knows as processed
  vcp,          \* the virtual chain processor's open transaction
  requests,     \* sender requests on their way to the node
  answers,      \* senders on their way back
  changes,
  restarts,
  \* history
  indexed,      \* blocks whose transactions were committed
  blind,        \* transactions stored after a chain block's acceptance was looked up
  latecomer,    \* transactions with rows added after their acceptance was recorded
  failed        \* requests the node has answered with an error

tables == <<headers, payloads, rows, stored, header, entries, accepting, tracked,
            pending, tip>>
node == <<requests, answers, failed>>
bounds == <<changes, restarts>>
history == <<indexed, blind, latecomer>>
vars == <<tables, bp, announced, vcp, node, bounds, history>>

-----------------------------------------------------------------------------
(* Payloads *)

\* Which operation a payload is; one without the version part is an old handshake.
parse_sealed_operation(p) ==
  IF Len(p) < 2 \/ p[1] # "ciph_msg" \/ p = <<"ciph_msg", "">> THEN "None"
  ELSE IF Len(p) < 3 \/ p[2] # "1" THEN "HandshakeVNone"
  ELSE IF Len(p) < 4 THEN "None"
  ELSE CASE p[3] \in {"payment", "pay"} -> "PaymentV1"
         [] p[3] = "handshake" -> "HandshakeV2"
         [] p[3] = "comm" -> IF Len(p) > 4 THEN "ContextualMessageV1" ELSE "None"
         [] p[3] = "self_stash" -> "SelfStashV1"
         [] OTHER -> "None"

\* The alias of a contextual message, the scope of a stash; empty if there is none.
Label(p) == IF Len(p) > 4 THEN p[4] ELSE ""

Kind(t) == parse_sealed_operation(Payload[t])
Messages == {t \in Txs : Kind(t) # "None"}

Row(table, t, b, sender) == [table |-> table, tx |-> t, block |-> b, sender |-> sender]

\* What the handler of a message writes.  Tables in "value" hold the sender as their
\* value (filled in later by UpdateValueSender), those in "key" start their key with it
\* (InsertByKeySender): without a sender the former get a row without it, and all of
\* them an entry that waits for it.
Written(value, key, t, b, sender) ==
  IF sender = NoAddress
  THEN [rows |-> {Row(table, t, b, NoAddress) : table \in value},
        entries |-> (value \union key) \X {b}]
  ELSE [rows |-> {Row(table, t, b, sender) : table \in value \union key},
        entries |-> {}]

handle_handshake(t, b, sender) ==
  Written({"handshake_by_receiver"}, {"handshake_by_sender"}, t, b, sender)
\* Mutant: the second handshake version gets no row of its sender.
MutHandleHandshakeV2(t, b, sender) ==
  Written({"handshake_by_receiver"}, {}, t, b, sender)
handle_handshake_v2(t, b, sender) ==
  Written({"handshake_by_receiver"}, {"handshake_by_sender"}, t, b, sender)
handle_payment(t, b, sender) ==
  Written({"payment_by_receiver"}, {"payment_by_sender"}, t, b, sender)
handle_contextual_message(t, b, sender) ==
  Written({}, {"contextual_message_by_sender"}, t, b, sender)
handle_self_stash(t, b, sender) ==
  Written({}, {"self_stash_by_owner", "self_stash_by_scope"}, t, b, sender)

handle_transaction(t, b, sender) ==
  CASE Kind(t) = "HandshakeVNone" -> handle_handshake(t, b, sender)
    [] Kind(t) = "HandshakeV2" -> handle_handshake_v2(t, b, sender)
    [] Kind(t) = "PaymentV1" -> handle_payment(t, b, sender)
    [] Kind(t) = "ContextualMessageV1" -> handle_contextual_message(t, b, sender)
    [] Kind(t) = "SelfStashV1" -> handle_self_stash(t, b, sender)

-----------------------------------------------------------------------------
(* Chain *)

Removed(to) == Path[tip] \ Path[to]
Added(to) == Path[to] \ Path[tip]

NoBlockOpen == [block |-> 0, known |-> {}, dirty |-> FALSE]
NoChangeOpen == [to |-> 0, found |-> {}, dirty |-> FALSE]

Init ==
  /\ headers = {} /\ payloads = {} /\ rows = {} /\ stored = {}
  /\ header = [t \in Txs |-> 0]
  /\ entries = [t \in Txs |-> {}]
  /\ accepting = [b \in Blocks |-> {}] /\ tracked = {}
  /\ pending = {} /\ tip = 0
  /\ bp = NoBlockOpen /\ announced = {}
  /\ vcp = NoChangeOpen
  /\ requests = {} /\ answers = {} /\ failed = {}
  /\ changes = 0 /\ restarts = 0
  /\ indexed = {} /\ blind = {} /\ latecomer = {}

-----------------------------------------------------------------------------
(* Block processor *)

\* The last block's processing failed and the thread has ended.
Stopped == [block |-> 0, known |-> {}, dirty |-> TRUE]

\* The committed acceptance keys know the transaction (and its receiver).
key_by_tx_id(t) == t \in stored

\* handle_block up to the commit: the header is stored at once, the senders are
\* looked up among the committed transactions, the rows are in the transaction.
IndexBlock(b) ==
  /\ bp = NoBlockOpen
  /\ b \notin headers
  /\ BlockTxs[b] \cap Messages \cap Unreadable = {}
  /\ headers' = headers \union {b}
  /\ bp' = [block |-> b, dirty |-> FALSE,
            known |-> {t \in BlockTxs[b] \cap Messages : key_by_tx_id(Spends[t])}]
  /\ UNCHANGED <<payloads, rows, stored, header, entries, accepting, tracked, pending, tip,
                 announced, vcp, node, bounds, history>>

\* A first output without a standard script ends the block processor.
IndexFails(b) ==
  /\ bp = NoBlockOpen
  /\ b \notin headers
  /\ BlockTxs[b] \cap Messages \cap Unreadable # {}
  /\ headers' = headers \union {b}
  /\ bp' = Stopped
  /\ UNCHANGED <<payloads, rows, stored, header, entries, accepting, tracked, pending, tip,
                 announced, vcp, node, bounds, history>>

\* The sender as the acceptance key of the spent transaction gave it.
SenderOf(t) == IF t \in bp.known THEN Receiver[Spends[t]] ELSE NoAddress

\* Mutant: the entries of an earlier block are replaced.
MutAddEntries(t, new) == IF new = {} THEN entries[t] ELSE new

\* tx_id_to_acceptance: the rows that wait for a sender are appended to those there.
AddEntries(t, new) == entries[t] \union new

\* Acceptance values the open transaction of the virtual chain processor has read.
ReadByVcp ==
  IF vcp.to = 0 THEN {}
  ELSE vcp.found \union UNION {accepting[b] : b \in Removed(vcp.to)}

CommitBlock ==
  LET b == bp.block
      new == BlockTxs[b] \cap Messages
      written == [t \in new |-> handle_transaction(t, b, SenderOf(t))]
  IN
  /\ b # 0 /\ ~bp.dirty
  /\ payloads' = payloads \union new
  /\ rows' = rows \union UNION {written[t].rows : t \in new}
  /\ stored' = stored \union new
  /\ entries' = [t \in Txs |->
       IF t \in new THEN AddEntries(t, written[t].entries) ELSE entries[t]]
  /\ bp' = NoBlockOpen
  /\ announced' = announced \union {b}
  /\ vcp' = [vcp EXCEPT !.dirty = @ \/ new \cap ReadByVcp # {}]
  /\ indexed' = indexed \union {b}
  /\ blind' = blind \union {p \in (new \ stored) \X (Path[tip] \union Path[vcp.to]) :
                              p[1] \in Accepts[p[2]]}
  /\ latecomer' = latecomer \union
       {t \in new \ bp.known : \E c \in Path[tip] \cap tracked : t \in accepting[c]}
  /\ UNCHANGED <<headers, header, accepting, tracked, pending, tip, node, bounds>>

\* The retry after a conflict finds the header and skips the block.
ConflictBlock ==
  /\ bp.block # 0 /\ bp.dirty
  /\ bp' = NoBlockOpen
  /\ announced' = announced \union {bp.block}
  /\ UNCHANGED <<tables, vcp, node, bounds, history>>

-----------------------------------------------------------------------------
(* Virtual chain processor *)

Waiting(S) == {t \in S : entries[t] # {}}

\* Mutant: a transaction without a key gets an acceptance.
MutReadChange(to) ==
  /\ vcp' = [to |-> to, found |-> UNION {Accepts[b] : b \in Added(to)}, dirty |-> FALSE]
  /\ changes' = changes + 1
  /\ UNCHANGED <<tables, bp, announced, node, restarts, history>>

\* Mutant: the sender is noted as pending and not asked for.
MutReadChangeSilent(to) ==
  /\ vcp' = [to |-> to, dirty |-> FALSE,
             found |-> {t \in UNION {Accepts[b] : b \in Added(to)} : key_by_tx_id(t)}]
  /\ changes' = changes + 1
  /\ UNCHANGED <<tables, bp, announced, node, restarts, history>>

\* The reads of handle_vcc: the accepted transactions with a key, and a request for
\* the sender of each one that has rows waiting, sent before the commit.
ReadChange(to) ==
  LET found == {t \in UNION {Accepts[b] : b \in Added(to)} : key_by_tx_id(t)} IN
  /\ vcp' = [to |-> to, found |-> found, dirty |-> FALSE]
  /\ requests' = requests \union
       {[daa |-> Daa[p[1]], tx |-> p[2], n |-> changes + 1] :
          p \in {q \in Added(to) \X Waiting(found) : q[2] \in Accepts[q[1]]}}
  /\ changes' = changes + 1
  /\ UNCHANGED <<tables, bp, announced, answers, failed, restarts, history>>

\* A notification or the syncer's response, once every added block is processed.
BeginChange(to) ==
  /\ vcp = NoChangeOpen
  /\ changes < MaxChanges
  /\ Added(to) # {} /\ Added(to) \subseteq announced
  /\ ReadChange(to)

\* A conflict starts the loop again: the requests are sent a second time.
RetryChange ==
  /\ vcp.to # 0 /\ vcp.dirty
  /\ ReadChange(vcp.to)

\* The block of S that accepts t.
AcceptorIn(S, t) == CHOOSE b \in S : t \in Accepts[b]

\* handle_vcc_removal: the value names the removed block once more.
Undone(to) == {p \in (Removed(to) \cap tracked) \X Txs : p[2] \in accepting[p[1]]}
\* handle_vcc_addition: accepted transactions with a key are tracked.
Done(to) == {p \in Added(to) \X vcp.found : p[2] \in Accepts[p[1]]}

\* Keys of pending_senders for the transactions with rows waiting.
PendingKeys(S) == {<<Daa[p[1]], p[2]>> : p \in {q \in S : entries[q[2]] # {}}}

\* accepting_block_to_tx_ids: removed blocks lose their row, added ones get theirs.
AcceptingAfter(to) == [b \in Blocks |->
  IF b \in Added(to) THEN {t \in vcp.found : t \in Accepts[b]}
  ELSE IF b \in Removed(to) THEN {} ELSE accepting[b]]

\* update_acceptance_wtx of the removals, then of the additions.
AcceptorAfter(t, to) ==
  IF t \in vcp.found THEN AcceptorIn(Added(to), t)
  ELSE IF \E p \in Undone(to) : p[2] = t THEN AcceptorIn(Removed(to), t) ELSE header[t]

\* Mutant: additions, then removals.
MutCommitChange ==
  LET to == vcp.to IN
  /\ to # 0 /\ ~vcp.dirty
  /\ header' = [t \in Txs |->
       IF \E p \in Undone(to) : p[2] = t THEN AcceptorIn(Removed(to), t)
       ELSE IF t \in vcp.found THEN AcceptorIn(Added(to), t) ELSE header[t]]
  /\ pending' = (pending \union PendingKeys(Done(to))) \ PendingKeys(Undone(to))
  /\ accepting' = AcceptingAfter(to)
  /\ tracked' = (tracked \ Removed(to)) \union Added(to)
  /\ tip' = to
  /\ vcp' = NoChangeOpen
  /\ bp' = [bp EXCEPT !.dirty = @ \/ (bp.block # 0 /\ BlockTxs[bp.block] \cap ReadByVcp # {})]
  /\ UNCHANGED <<headers, payloads, rows, stored, entries, announced, node, bounds, history>>

\* Removals, then additions, then the cursor, in one transaction.
CommitChange ==
  LET to == vcp.to IN
  /\ to # 0 /\ ~vcp.dirty
  /\ header' = [t \in Txs |-> AcceptorAfter(t, to)]
  /\ pending' = (pending \ PendingKeys(Undone(to))) \union PendingKeys(Done(to))
  /\ accepting' = AcceptingAfter(to)
  /\ tracked' = (tracked \ Removed(to)) \union Added(to)
  /\ tip' = to
  /\ vcp' = NoChangeOpen
  /\ bp' = [bp EXCEPT !.dirty = @ \/ (bp.block # 0 /\ BlockTxs[bp.block] \cap ReadByVcp # {})]
  /\ UNCHANGED <<headers, payloads, rows, stored, entries, announced, node, bounds, history>>

\* resolve_entries_wtx: the receiver's row gets its value, the sender's row its key.
Filled(t, sender) ==
  {r \in rows : r.tx # t \/ <<r.table, r.block>> \notin entries[t]}
    \union {Row(e[1], t, e[2], sender) : e \in entries[t]}

\* handle_sender_address; its loop reads again after a conflict, so it is one step.
HandleSenderAddress(r) ==
  /\ vcp = NoChangeOpen
  /\ r \in answers
  /\ answers' = answers \ {r}
  /\ pending' = pending \ {<<r.daa, r.tx>>}
  /\ rows' = Filled(r.tx, Owner[r.tx])
  /\ entries' = [entries EXCEPT ![r.tx] = {}]
  /\ bp' = [bp EXCEPT !.dirty = @ \/ (bp.block # 0 /\ r.tx \in BlockTxs[bp.block])]
  /\ UNCHANGED <<headers, payloads, stored, header, accepting, tracked, tip, announced, vcp,
                 requests, failed, bounds, history>>

-----------------------------------------------------------------------------
(* Node, process *)

\* The node knows the sender ...
AnswerSender(r) ==
  /\ r \in requests
  /\ requests' = requests \ {r}
  /\ answers' = answers \union {r}
  /\ UNCHANGED <<tables, bp, announced, vcp, failed, bounds, history>>

\* ... or returns an error, which is only logged.
FailSender(r) ==
  /\ r \in requests
  /\ requests' = requests \ {r}
  /\ failed' = failed \union {<<r.daa, r.tx>>}
  /\ UNCHANGED <<tables, bp, announced, vcp, answers, bounds, history>>

\* Mutant: the pending senders are not asked for again.
MutRestart ==
  /\ restarts < MaxRestarts
  /\ restarts' = restarts + 1
  /\ bp' = NoBlockOpen /\ vcp' = NoChangeOpen
  /\ announced' = headers
  /\ requests' = {} /\ answers' = {} /\ failed' = {}
  /\ UNCHANGED <<tables, changes, history>>

\* The process ends anywhere and starts again: open transactions and channels are
\* lost, and on the first connection every pending sender is asked for.
Restart ==
  /\ restarts < MaxRestarts
  /\ restarts' = restarts + 1
  /\ bp' = NoBlockOpen /\ vcp' = NoChangeOpen
  /\ announced' = headers
  /\ requests' = {[daa |-> p[1], tx |-> p[2], n |-> 0] : p \in pending}
  /\ answers' = {} /\ failed' = {}
  /\ UNCHANGED <<tables, changes, history>>

Next ==
  \/ \E b \in Blocks : IndexBlock(b) \/ IndexFails(b) \/ BeginChange(b)
  \/ CommitBlock \/ ConflictBlock
  \/ RetryChange \/ CommitChange
  \/ \E r \in requests : AnswerSender(r) \/ FailSender(r)
  \/ \E r \in answers : HandleSenderAddress(r)
  \/ Restart

\* A thread that can go on does so, and a call to the node ends.
Fairness ==
  /\ WF_vars(CommitBlock \/ ConflictBlock)
  /\ WF_vars(RetryChange \/ CommitChange)
  /\ WF_vars(\E r \in requests : AnswerSender(r) \/ FailSender(r))
  /\ WF_vars(\E r \in answers : HandleSenderAddress(r))

Spec == Init /\ [][Next]_vars /\ Fairness

-----------------------------------------------------------------------------
(* Queries *)

\* Key order within one address and scope: time, then block, then transaction.
Before(r, s) ==
  \/ BlockTime[r.block] < BlockTime[s.block]
  \/ /\ BlockTime[r.block] = BlockTime[s.block]
     /\ r.block < s.block \/ (r.block = s.block /\ r.tx < s.tx)

\* The first row of each transaction, as the set of seen transaction ids leaves them.
FirstRows(R) == {r \in R : ~\E s \in R : s.tx = r.tx /\ Before(s, r)}

\* take(limit) of them; the query fails if one of them has no payload.
Answer(R, limit) ==
  LET page == {r \in FirstRows(R) : Cardinality({s \in FirstRows(R) : Before(s, r)}) < limit}
  IN [ok |-> \A r \in page : r.tx \in payloads, rows |-> page]

\* A range scan; the cursor itself is included.
Scan(table, cursor) == {r \in rows : r.table = table /\ BlockTime[r.block] >= cursor}

HandshakeBySender(a, cursor) ==
  {r \in Scan("handshake_by_sender", cursor) : r.sender = a}
HandshakeByReceiver(a, cursor) ==
  {r \in Scan("handshake_by_receiver", cursor) : Receiver[r.tx] = a}
PaymentBySender(a, cursor) ==
  {r \in Scan("payment_by_sender", cursor) : r.sender = a}
PaymentByReceiver(a, cursor) ==
  {r \in Scan("payment_by_receiver", cursor) : Receiver[r.tx] = a}
ContextualMessageBySender(a, alias, cursor) ==
  {r \in Scan("contextual_message_by_sender", cursor) :
     r.sender = a /\ Label(Payload[r.tx]) = alias}
SelfStashByOwner(a, scope, cursor) ==
  {r \in Scan("self_stash_by_owner", cursor) : r.sender = a /\ Label(Payload[r.tx]) = scope}
SelfStashByScope(scope, cursor) ==
  {r \in Scan("self_stash_by_scope", cursor) : Label(Payload[r.tx]) = scope}

get_handshakes_by_sender(a, cursor, limit) == Answer(HandshakeBySender(a, cursor), limit)
get_handshakes_by_receiver(a, cursor, limit) == Answer(HandshakeByReceiver(a, cursor), limit)
get_payments_by_sender(a, cursor, limit) == Answer(PaymentBySender(a, cursor), limit)
get_payments_by_receiver(a, cursor, limit) == Answer(PaymentByReceiver(a, cursor), limit)
get_contextual_messages_by_sender(a, alias, cursor, limit) ==
  Answer(ContextualMessageBySender(a, alias, cursor), limit)
get_self_stash_by_owner(a, scope, cursor, limit) ==
  Answer(SelfStashByOwner(a, scope, cursor), limit)
\* The text filter comes before the limit, and the loop stops only after it has added
\* a row: it returns one for a limit of 0.
get_self_stash_by_scope(scope, matching, cursor, limit) ==
  Answer({r \in SelfStashByScope(scope, cursor) : r.tx \in matching},
         IF limit = 0 THEN 1 ELSE limit)

\* The accepting block a query reports with a message, 0 for none.
acceptance_by_tx_id(t) == IF t \in stored THEN header[t] ELSE 0

-----------------------------------------------------------------------------
(* Properties *)

\* Tables a message ends up in.
TablesOf == [t \in Messages |-> {r.table : r \in handle_transaction(t, 1, Owner[t]).rows}]
Tables == UNION {TablesOf[t] : t \in Messages}
Requests == [daa : Nat, tx : Messages, n : Nat]

\* Every variable has its type.
TypeOK ==
  /\ headers \subseteq Blocks /\ payloads \subseteq Messages /\ stored \subseteq Messages
  /\ rows \subseteq [table : Tables, tx : Messages, block : Blocks,
                     sender : Addresses \union {NoAddress}]
  /\ header \in [Txs -> 0 .. LastBlock]
  /\ entries \in [Txs -> SUBSET (Tables \X Blocks)]
  /\ accepting \in [Blocks -> SUBSET Messages] /\ tracked \subseteq Blocks
  /\ pending \subseteq Nat \X Messages
  /\ tip \in 0 .. LastBlock
  /\ bp \in [block : 0 .. LastBlock, known : SUBSET Messages, dirty : BOOLEAN]
  /\ vcp \in [to : 0 .. LastBlock, found : SUBSET stored, dirty : BOOLEAN]
  /\ announced \subseteq headers /\ indexed \subseteq headers
  /\ requests \subseteq Requests /\ answers \subseteq Requests
  /\ changes \in Nat /\ restarts \in 0 .. MaxRestarts

\* Each table of each indexed block either has the row of a transaction with its sender,
\* or the acceptance value keeps the entry that will complete it: no row is lost between
\* handle_transaction, conflicts, retries and resolve_entries_wtx, and none is completed
\* twice.  The sender is the owner of the spent output, whether it was read from the
\* acceptance key of the previous transaction or answered by the node; only a receiver's
\* row can be without one, while its entry is kept.  (And every variable has its type.)
RowOrEntry ==
  /\ TypeOK
  /\ \A b \in indexed : \A t \in BlockTxs[b] \cap Messages : \A table \in TablesOf[t] :
       Row(table, t, b, Owner[t]) \in rows <=> <<table, b>> \notin entries[t]
  /\ \A r \in rows : r.sender # Owner[r.tx] =>
       /\ r.sender = NoAddress /\ <<r.table, r.block>> \in entries[r.tx]
       /\ r.table \in {"handshake_by_receiver", "payment_by_receiver"}

\* No query fails on a missing payload, and a message the receiver sees with its
\* sender is seen by that sender as well.
QueriesAgree ==
  LET All == Cardinality(Txs) IN
  \A a \in Addresses :
    /\ LET got == get_handshakes_by_receiver(a, 0, All) IN
         got.ok /\ \A r \in got.rows : r.sender # NoAddress =>
           LET sent == get_handshakes_by_sender(r.sender, 0, All)
           IN sent.ok /\ \E s \in sent.rows : s.tx = r.tx
    /\ LET got == get_payments_by_receiver(a, 0, All) IN
         got.ok /\ \A r \in got.rows : r.sender # NoAddress =>
           LET sent == get_payments_by_sender(r.sender, 0, All)
           IN sent.ok /\ \E s \in sent.rows : s.tx = r.tx
    /\ \A t \in Messages :
         LET l == Label(Payload[t])
             owned == get_self_stash_by_owner(a, l, 0, All)
             scoped == get_self_stash_by_scope(l, Txs, 0, All)
         IN /\ get_contextual_messages_by_sender(a, l, 0, All).ok
            /\ owned.ok /\ scoped.ok
            /\ {r.tx : r \in owned.rows} = {r.tx : r \in {s \in scoped.rows : s.sender = a}}

\* A transaction of the index that a chain block up to the cursor accepts is tracked by
\* that block and reported with it, across reorganizations, conflicts and restarts;
\* except one that was stored only after the block's acceptance had been looked up.
AcceptanceKept ==
  \A b \in Path[tip] : \A t \in Accepts[b] \cap stored :
    \/ t \in accepting[b] /\ acceptance_by_tx_id(t) = b
    \/ <<t, b>> \in blind

\* A transaction with rows waiting for a sender that a chain block has accepted is in
\* pending_senders, unless the rows were added by a later block of its own; and each
\* pending sender is being asked for or answered, or its request has failed since the last
\* start: none is left in the table with nobody to serve it.
PendingIsServed ==
  /\ \A b \in Path[tip] : \A t \in Waiting(accepting[b]) :
       <<Daa[b], t>> \in pending \/ t \in latecomer
  /\ \A p \in pending :
       p \in failed \/ \E r \in requests \union answers : r.daa = p[1] /\ r.tx = p[2]

\* The index implements MessageView: messages stay listed, get their sender once, and
\* only listed ones are ever reported as accepted.
View == INSTANCE MessageView WITH
  Msgs <- Messages, NoAcceptor <- 0, Acceptors <- Blocks,
  listed <- stored,
  attributed <- {r.tx : r \in {s \in rows : s.sender # NoAddress}},
  acceptor <- [t \in Messages |-> header[t]]
ImplementsView == View!ViewSpec

\* Once a message waiting for its sender is accepted it gets it, or the request fails,
\* or the acceptance is undone.
SenderResolved ==
  \A t \in {u \in Messages : \E b \in Blocks : u \in Accepts[b]} :
    (\E b \in Path[tip] : t \in Waiting(accepting[b])) ~>
      \/ entries[t] = {} \/ t \in latecomer \/ (\E p \in failed : p[2] = t)
      \/ ~\E b \in Path[tip] : t \in accepting[b]

\* A message is reported as accepted only by a block of the chain up to the cursor.
AcceptorInChain == \A t \in stored : acceptance_by_tx_id(t) \in {0} \union Path[tip]
=============================================================================
