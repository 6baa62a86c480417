-------------------------- MODULE BlockProcessor --------------------------
(***************************************************************************)
(* The block processor thread, the gap filler tasks it spawns, the part of *)
(* the data source that feeds both, and the tables they leave on disk,     *)
(* across disconnections, shutdowns and crashes.                           *)
(*                                                                         *)
(* Sources: indexer-actors/src/block_processor.rs, block_gap_filler.rs,    *)
(* data_source.rs; indexer-db/src/headers, metadata.rs.  Blocks are        *)
(* numbered in the order in which the node learns them (a topological      *)
(* order of the DAG); block 0 is the pruning point and the sink of a       *)
(* connection is the latest block.  A block's transactions are one unit.   *)
(***************************************************************************)
EXTENDS Integers, Sequences, FiniteSets

CONSTANTS
  MaxBlock,     \* bound: the last block the node learns
  MaxBatch,     \* bound: new blocks in one GetBlocks response
  MaxSessions,  \* bound: connections to the node
  MaxRestarts,  \* bound: restarts of the process
  MaxResults,   \* capacity of the channel from the gap fillers
  Contended,    \* blocks sharing a transaction with another block: their commit may conflict
  UsizeRange    \* usize arithmetic is modulo this

ASSUME BlockProcessorAssumption ==
  /\ MaxBlock \in Nat /\ MaxBatch \in Nat \ {0}
  /\ MaxResults \in Nat \ {0} /\ MaxSessions \in Nat /\ MaxRestarts \in Nat
  /\ Contended \subseteq 0 .. MaxBlock
  /\ UsizeRange \in Nat /\ UsizeRange > MaxBlock + MaxSessions

Blocks == 0 .. MaxBlock
None == -1
Idle == [kind |-> "idle"]

VARIABLES
  \* the node and the data source
  tip,            \* latest block of the node
  link,           \* RPC connection: down, registered (listeners on, sink not read), up
  sessions,
  shutting_down,  \* DataSource::shutting_down
  rpc,            \* block notifications the data source has not forwarded
  inbox,          \* channel to the block processor (BlockNotification)
  results,        \* channel gap fillers -> block processor (GapFillingProgress)
  \* the database
  headers,        \* block_compact_headers and daa_index
  stored,         \* blocks whose transactions are committed
  gaps,           \* block_gaps: target -> from
  cursor,         \* LatestBlockCursor
  \* locals of BlockProcessor::process
  bp,             \* run or stopped
  has_first_connect,
  gaps_fillers,   \* HashMap: target -> filler holding the interrupt channel's other end
  is_shutdown,
  last_processed_block,
  gaps_filling_in_progress,
  work,           \* the message being handled block by block
  fillers,        \* BlockGapFiller tasks in the order they were spawned
  known,          \* blocks announced to the virtual chain processor (loaded or sent)
  pushes,         \* number of times a block's push events were dispatched
  \* history
  unannounced,    \* a handshake failed after its listeners had delivered blocks
  skipped,        \* a reconnection recorded no gap although blocks were missing
  overlap,        \* a gap was recorded for a target that already had one
  twins,          \* the first connection spawned two fillers for one target
  abandoned,      \* targets whose filler stopped before finishing, in this process
  lost,           \* blocks whose transaction was dropped after its header was stored
  restarts

node == <<tip, link, sessions, shutting_down, rpc>>
db == <<headers, stored, gaps, cursor>>
locals == <<has_first_connect, gaps_fillers, is_shutdown, last_processed_block,
            gaps_filling_in_progress>>
outputs == <<known, pushes>>
history == <<unannounced, skipped, overlap, twins, abandoned, lost, restarts>>
vars == <<node, inbox, results, db, bp, locals, work, fillers, outputs, history>>

Notifications ==
  [kind : {"Connected", "Notification"}, block : Blocks] \cup [kind : {"Disconnected", "Shutdown"}]
\* The blocks of a batch are lo .. hi.
Progress ==
  [kind : {"Update", "Finished", "Interrupted", "Error"}, to : Blocks, lo : Blocks, hi : Blocks,
   id : Nat]
Works ==
  {Idle} \cup [kind : {"Notification", "Update", "Finished"}, to : Blocks \cup {None},
               lo : Blocks, hi : Blocks, id : Nat, phase : {"header", "commit"}, fresh : BOOLEAN]
Fillers ==
  [from : Blocks, to : Blocks, pc : {"check", "sent", "queued", "done"}, intr : {"open", "sent", "closed"}]

TypeOK ==
  /\ tip \in Blocks /\ link \in {"down", "registered", "up"}
  /\ sessions \in 0 .. MaxSessions /\ restarts \in 0 .. MaxRestarts
  /\ rpc \in Seq(Blocks) /\ inbox \in Seq(Notifications) /\ results \in Seq(Progress)
  /\ headers \subseteq Blocks /\ stored \subseteq Blocks
  /\ cursor \in Blocks \cup {None} /\ last_processed_block \in Blocks \cup {None}
  /\ DOMAIN gaps \subseteq Blocks /\ \A t \in DOMAIN gaps : gaps[t] \in Blocks
  /\ bp \in {"run", "stopped"}
  /\ {shutting_down, has_first_connect, is_shutdown, unannounced, skipped, overlap, twins} \subseteq BOOLEAN
  /\ fillers \in Seq(Fillers)
  /\ DOMAIN gaps_fillers \subseteq Blocks
  /\ \A t \in DOMAIN gaps_fillers : gaps_fillers[t] \in DOMAIN fillers
  /\ gaps_filling_in_progress \in 0 .. UsizeRange - 1
  /\ work \in Works
  /\ abandoned \subseteq Blocks /\ known \subseteq Blocks /\ lost \subseteq Blocks /\ pushes \in [Blocks -> Nat]

NoGaps == [t \in {} |-> None]

Init ==
  /\ tip = 0 /\ link = "down" /\ sessions = 0 /\ shutting_down = FALSE /\ rpc = << >>
  /\ inbox = << >> /\ results = << >>
  /\ headers = {} /\ stored = {} /\ gaps = NoGaps /\ cursor = None
  /\ bp = "run" /\ has_first_connect = FALSE /\ gaps_fillers = NoGaps /\ is_shutdown = FALSE
  /\ last_processed_block = None /\ gaps_filling_in_progress = 0
  /\ work = Idle /\ fillers = << >>
  /\ known = {} /\ pushes = [b \in Blocks |-> 0]
  /\ unannounced = FALSE /\ skipped = FALSE /\ overlap = FALSE /\ twins = FALSE /\ abandoned = {} /\ lost = {} /\ restarts = 0

InGap(b) == \E t \in DOMAIN gaps : gaps[t] <= b /\ b <= t

-----------------------------------------------------------------------------
(* The node and the data source.                                            *)

NewBlock ==
  /\ tip < MaxBlock
  /\ tip' = tip + 1
  /\ rpc' = IF link = "down" THEN rpc ELSE Append(rpc, tip')
  /\ UNCHANGED <<link, sessions, shutting_down, inbox, results, db, bp, locals, work, fillers,
                 outputs, history>>

\* handle_connect, up to register_notification_listeners.
Register ==
  /\ link = "down" /\ ~shutting_down /\ sessions < MaxSessions
  /\ link' = "registered" /\ sessions' = sessions + 1
  /\ UNCHANGED <<tip, shutting_down, rpc, inbox, results, db, bp, locals, work, fillers,
                 outputs, history>>

\* The rest of handle_connect_impl: read the sink, announce it, requeue the requests
\* that waited for the connection.
Connect ==
  /\ link = "registered"
  /\ link' = "up"
  /\ inbox' = Append(inbox, [kind |-> "Connected", block |-> tip])
  /\ fillers' = [f \in DOMAIN fillers |->
                   IF fillers[f].pc = "queued" THEN [fillers[f] EXCEPT !.pc = "sent"] ELSE fillers[f]]
  /\ UNCHANGED <<tip, sessions, shutting_down, rpc, results, db, bp, locals, work, outputs, history>>

\* handle_disconnect; a failed handle_connect_impl disconnects and ends here as well.
Disconnect ==
  /\ link # "down"
  /\ link' = "down" /\ inbox' = Append(inbox, [kind |-> "Disconnected"])
  /\ unannounced' = (unannounced \/ (link = "registered" /\ rpc # << >>))
  /\ UNCHANGED <<tip, sessions, shutting_down, rpc, results, db, bp, locals, work, fillers,
                 outputs, skipped, overlap, twins, abandoned, lost, restarts>>

\* handle_notification, BlockAdded: whatever is in the channel is forwarded, whether or
\* not the connection it came from still exists.
ForwardBlock ==
  /\ rpc # << >> /\ link # "registered"
  /\ rpc' = Tail(rpc) /\ inbox' = Append(inbox, [kind |-> "Notification", block |-> Head(rpc)])
  /\ UNCHANGED <<tip, link, sessions, shutting_down, results, db, bp, locals, work, fillers,
                 outputs, history>>

\* handle_shutdown: closing the connection sends no Disconnected any more.
Shutdown ==
  /\ ~shutting_down /\ link # "registered"
  /\ shutting_down' = TRUE /\ link' = "down"
  /\ inbox' = Append(inbox, [kind |-> "Shutdown"])
  /\ UNCHANGED <<tip, sessions, rpc, results, db, bp, locals, work, fillers, outputs, history>>

-----------------------------------------------------------------------------
(* BlockGapFiller::sync.                                                    *)

Send(f, kind, lo, hi) ==
  /\ Len(results) < MaxResults
  /\ results' = Append(results, [kind |-> kind, to |-> fillers[f].to, lo |-> lo, hi |-> hi, id |-> f])
Become(f, pc) == fillers' = [fillers EXCEPT ![f].pc = pc]

MutCheckInterrupt(f) ==
  /\ fillers[f].pc = "check"
  /\ \/ fillers[f].intr = "open" /\ Become(f, "sent")
     \/ fillers[f].intr # "open" /\ Become(f, "done")
  /\ UNCHANGED <<node, inbox, results, db, bp, locals, work, outputs, history>>

\* Top of the loop: a sent or dropped interrupt channel ends the task, otherwise the
\* next request goes to the data source.
CheckInterrupt(f) ==
  /\ fillers[f].pc = "check"
  /\ \/ /\ fillers[f].intr = "open"
        /\ Become(f, "sent") /\ UNCHANGED results
     \/ /\ fillers[f].intr # "open"
        /\ Send(f, "Interrupted", 0, 0) /\ Become(f, "done")
  /\ UNCHANGED <<node, inbox, db, bp, locals, work, outputs, history>>

\* DataSource::handle_command for RequestBlocks, and the filler's reaction.
RefuseRequest(f) ==
  /\ fillers[f].pc = "sent" /\ shutting_down
  /\ Become(f, "check")
  /\ UNCHANGED <<node, inbox, results, db, bp, locals, work, outputs, history>>

QueueRequest(f) ==
  /\ fillers[f].pc = "sent" /\ ~shutting_down /\ link = "down"
  /\ Become(f, "queued")
  /\ UNCHANGED <<node, inbox, results, db, bp, locals, work, outputs, history>>

FailRequest(f) ==
  /\ fillers[f].pc = "sent" /\ ~shutting_down /\ link = "up"
  /\ Send(f, "Error", 0, 0) /\ Become(f, "done")
  /\ UNCHANGED <<node, inbox, db, bp, locals, work, outputs, history>>

\* GetBlocks answers with the requested block and up to MaxBatch of its successors.
AnswerRequest(f) ==
  LET from == fillers[f].from IN
  /\ fillers[f].pc = "sent" /\ ~shutting_down /\ link = "up"
  /\ \E hi \in from .. from + MaxBatch :
       /\ hi <= tip /\ (hi = from => from = tip \/ from = fillers[f].to)
       /\ \/ /\ fillers[f].to \in from .. hi
             /\ Send(f, "Finished", from, hi)
             /\ Become(f, "done")
          \/ /\ fillers[f].to \notin from .. hi
             /\ Send(f, "Update", from, hi)
             /\ fillers' = [fillers EXCEPT ![f].pc = "check", ![f].from = hi]
  /\ UNCHANGED <<node, inbox, db, bp, locals, work, outputs, history>>

-----------------------------------------------------------------------------
(* BlockProcessor::process.                                                 *)

\* The check at the bottom of the loop.
LoopOrExit(shutdown, fillersLeft) == bp' = IF shutdown /\ fillersLeft = 0 THEN "stopped" ELSE "run"

Take(kind) ==
  /\ bp = "run" /\ work = Idle
  /\ inbox # << >> /\ Head(inbox).kind = kind
  /\ inbox' = Tail(inbox)

Filler(from, to) == [from |-> from, to |-> to, pc |-> "check", intr |-> "open"]
Insert(m, to, v) == [t \in DOMAIN m \cup {to} |-> IF t = to THEN v ELSE m[t]]
Forget(m, to) == [t \in DOMAIN m \ {to} |-> m[t]]
Record(from, to) == gaps' = Insert(gaps, to, from)

\* Dropping the sender of an interrupt channel closes it.
Drop(fs, f) == [fs EXCEPT ![f].intr = IF @ = "open" THEN "closed" ELSE @]

\* handle_first_connect: the stored gaps are listed before the new one is recorded.
NewGap(sink) ==
  CASE cursor = None -> <<Filler(0, sink)>>
    [] cursor # None /\ cursor # sink -> <<Filler(cursor, sink)>>
    [] OTHER -> << >>

\* The targets in the order of the partition's keys, which are hashes: in some order.
Enumeration(S) == CHOOSE ts \in [1 .. Cardinality(S) -> S] : \A t \in S : \E i \in DOMAIN ts : ts[i] = t
Listed ==
  LET ts == Enumeration(DOMAIN gaps) IN [i \in DOMAIN ts |-> Filler(gaps[ts[i]], ts[i])]
Spawned(sink) == Listed \o NewGap(sink)
\* The fillers of the sequence that keep their entry of the map: the last one per target.
Holders(fs) == {i \in DOMAIN fs : \A j \in DOMAIN fs : j > i => fs[j].to # fs[i].to}

FirstConnected ==
  LET sink == Head(inbox).block
      spawned == Spawned(sink)
      holders == Holders(spawned)
  IN
  /\ Take("Connected") /\ ~has_first_connect
  /\ has_first_connect' = TRUE
  /\ IF NewGap(sink) = << >> THEN UNCHANGED gaps ELSE Record(NewGap(sink)[1].from, sink)
  /\ fillers' = [i \in DOMAIN spawned |->
                   IF i \in holders THEN spawned[i] ELSE [spawned[i] EXCEPT !.intr = "closed"]]
  /\ gaps_fillers' = [t \in {spawned[i].to : i \in holders} |->
                        CHOOSE i \in holders : spawned[i].to = t]
  /\ gaps_filling_in_progress' = Cardinality(DOMAIN gaps_fillers')
  /\ twins' = (twins \/ holders # DOMAIN spawned)
  /\ overlap' = (overlap \/ holders # DOMAIN spawned)
  /\ LoopOrExit(is_shutdown, gaps_filling_in_progress')
  /\ UNCHANGED <<node, results, headers, stored, cursor, is_shutdown, last_processed_block, work,
                 outputs, unannounced, skipped, abandoned, lost, restarts>>

Reconnected ==
  LET sink == Head(inbox).block
      f == Len(fillers) + 1
  IN
  /\ Take("Connected") /\ has_first_connect /\ last_processed_block # None
  /\ last_processed_block' = None
  /\ Record(last_processed_block, sink)
  /\ fillers' = Append(IF sink \in DOMAIN gaps_fillers THEN Drop(fillers, gaps_fillers[sink]) ELSE fillers,
                       Filler(last_processed_block, sink))
  /\ gaps_fillers' = Insert(gaps_fillers, sink, f)
  /\ gaps_filling_in_progress' = (gaps_filling_in_progress + 1) % UsizeRange
  /\ overlap' = (overlap \/ sink \in DOMAIN gaps)
  /\ LoopOrExit(is_shutdown, gaps_filling_in_progress')
  /\ UNCHANGED <<node, results, headers, stored, cursor, has_first_connect, is_shutdown, work,
                 outputs, unannounced, skipped, twins, abandoned, lost, restarts>>

\* No block was processed in real time since the last connection: no gap is recorded.
ReconnectedIdle ==
  /\ Take("Connected") /\ has_first_connect /\ last_processed_block = None
  /\ skipped' = (skipped \/ \E b \in 0 .. Head(inbox).block : b \notin headers /\ ~InGap(b))
  /\ LoopOrExit(is_shutdown, gaps_filling_in_progress)
  /\ UNCHANGED <<node, results, db, locals, work, fillers, outputs, unannounced, overlap, twins, abandoned,
                 lost, restarts>>

\* Disconnected and Shutdown take the whole map and interrupt every filler in it.
InterruptAll ==
  /\ fillers' = [f \in DOMAIN fillers |->
                   IF \E t \in DOMAIN gaps_fillers : gaps_fillers[t] = f
                   THEN [fillers[f] EXCEPT !.intr = "sent"] ELSE fillers[f]]
  /\ gaps_fillers' = NoGaps
  /\ UNCHANGED <<node, results, db, has_first_connect, last_processed_block,
                 gaps_filling_in_progress, work, outputs, history>>

Disconnected ==
  /\ Take("Disconnected") /\ InterruptAll /\ UNCHANGED is_shutdown /\ LoopOrExit(is_shutdown, gaps_filling_in_progress)

MutShutdownReceived ==
  /\ Take("Shutdown") /\ is_shutdown' = TRUE /\ LoopOrExit(TRUE, gaps_filling_in_progress)
  /\ UNCHANGED <<node, results, db, has_first_connect, last_processed_block, gaps_fillers,
                 gaps_filling_in_progress, work, fillers, outputs, history>>

ShutdownReceived ==
  /\ Take("Shutdown") /\ InterruptAll /\ is_shutdown' = TRUE /\ LoopOrExit(TRUE, gaps_filling_in_progress)

MutRetireCounted(to) ==
  /\ gaps_fillers' = Forget(gaps_fillers, to)
  /\ fillers' = IF to \in DOMAIN gaps_fillers THEN Drop(fillers, gaps_fillers[to]) ELSE fillers
  /\ gaps_filling_in_progress' = Cardinality(DOMAIN gaps_fillers')

\* Interrupted and Error: the map entry of the target goes, whichever filler it holds.
Retire(to) ==
  /\ gaps_fillers' = Forget(gaps_fillers, to)
  /\ fillers' = IF to \in DOMAIN gaps_fillers THEN Drop(fillers, gaps_fillers[to]) ELSE fillers
  /\ gaps_filling_in_progress' = (gaps_filling_in_progress - 1) % UsizeRange

FillerStopped ==
  /\ bp = "run" /\ work = Idle /\ results # << >>
  /\ Head(results).kind \in {"Interrupted", "Error"}
  /\ results' = Tail(results)
  /\ Retire(Head(results).to) /\ UNCHANGED is_shutdown /\ LoopOrExit(is_shutdown, gaps_filling_in_progress')
  /\ abandoned' = abandoned \cup {Head(results).to}
  /\ UNCHANGED <<node, inbox, db, has_first_connect, last_processed_block, work, outputs,
                 unannounced, skipped, overlap, twins, lost, restarts>>

-----------------------------------------------------------------------------
(* Blocks, from a notification or from a filler, are handled one by one.    *)

Work(kind, to, lo, hi, id) ==
  [kind |-> kind, to |-> to, lo |-> lo, hi |-> hi, id |-> id, phase |-> "header", fresh |-> FALSE]

BlockReceived ==
  /\ Take("Notification")
  /\ work' = Work("Notification", None, Head(inbox).block, Head(inbox).block, 0)
  /\ UNCHANGED <<node, results, db, bp, locals, fillers, outputs, history>>

BatchReceived ==
  /\ bp = "run" /\ work = Idle /\ results # << >>
  /\ Head(results).kind \in {"Update", "Finished"}
  /\ results' = Tail(results)
  /\ work' = LET m == Head(results) IN Work(m.kind, m.to, m.lo, m.hi, m.id)
  /\ UNCHANGED <<node, inbox, db, bp, locals, fillers, outputs, history>>

MutHandleBlock ==
  /\ work # Idle /\ work.phase = "header"
  /\ headers' = headers \cup {work.lo}
  /\ work' = [work EXCEPT !.phase = "commit", !.fresh = work.lo \notin headers']
  /\ UNCHANGED <<node, inbox, results, stored, gaps, cursor, bp, locals, fillers, outputs, history>>

\* handle_block: header and index go to their partitions at once, not through the
\* transaction; a header that was there already ends the block's handling.
HandleBlock ==
  /\ work # Idle /\ work.phase = "header"
  /\ headers' = headers \cup {work.lo}
  /\ work' = [work EXCEPT !.phase = "commit", !.fresh = work.lo \notin headers]
  /\ UNCHANGED <<node, inbox, results, stored, gaps, cursor, bp, locals, fillers, outputs, history>>

\* A transaction that lost against the virtual chain processor's is retried from
\* handle_block; only the transactions of a fresh block read anything.
CommitConflict ==
  /\ work # Idle /\ work.phase = "commit" /\ work.fresh /\ work.lo \in Contended
  /\ work' = [work EXCEPT !.phase = "header"]
  /\ lost' = lost \cup {work.lo}
  /\ UNCHANGED <<node, inbox, results, db, bp, locals, fillers, outputs, unannounced, skipped,
                 overlap, twins, abandoned, restarts>>

\* What every successful commit of a block does, and the announcement that follows it.
CommitOk ==
  LET b == work.lo IN
  /\ work # Idle /\ work.phase = "commit"
  /\ stored' = IF work.fresh THEN stored \cup {b} ELSE stored
  /\ known' = IF is_shutdown THEN known ELSE known \cup {b}
  /\ UNCHANGED <<node, inbox, results, headers, has_first_connect, is_shutdown, history>>

MutCommitNotification ==
  /\ CommitOk /\ work.kind = "Notification"
  /\ cursor' = work.lo /\ last_processed_block' = work.lo
  /\ pushes' = [pushes EXCEPT ![work.lo] = @ + 1]
  /\ work' = Idle
  /\ UNCHANGED <<gaps, gaps_fillers, gaps_filling_in_progress, fillers>>
  /\ LoopOrExit(is_shutdown, gaps_filling_in_progress)

\* A block received in real time moves the cursor and dispatches its push events.
CommitNotification ==
  /\ CommitOk /\ work.kind = "Notification"
  /\ cursor' = work.lo /\ last_processed_block' = work.lo
  /\ pushes' = IF work.fresh THEN [pushes EXCEPT ![work.lo] = @ + 1] ELSE pushes
  /\ work' = Idle
  /\ UNCHANGED <<gaps, gaps_fillers, gaps_filling_in_progress, fillers>> /\ LoopOrExit(is_shutdown, gaps_filling_in_progress)

MutCommitGapBlock ==
  /\ CommitOk /\ work.kind # "Notification" /\ (work.kind = "Update" \/ work.lo < work.hi)
  /\ gaps' = Insert(gaps, work.to, work.hi)
  /\ UNCHANGED <<cursor, last_processed_block, pushes, gaps_fillers, gaps_filling_in_progress, fillers>>
  /\ IF work.lo < work.hi
     THEN work' = [work EXCEPT !.lo = @ + 1, !.phase = "header"] /\ UNCHANGED bp
     ELSE work' = Idle /\ LoopOrExit(is_shutdown, gaps_filling_in_progress)

\* A block of a batch other than the last one of Finished moves the gap's lower end.
CommitGapBlock ==
  /\ CommitOk /\ work.kind # "Notification" /\ (work.kind = "Update" \/ work.lo < work.hi)
  /\ gaps' = Insert(gaps, work.to, work.lo)
  /\ UNCHANGED <<cursor, last_processed_block, pushes, gaps_fillers, gaps_filling_in_progress, fillers>>
  /\ IF work.lo < work.hi
     THEN work' = [work EXCEPT !.lo = @ + 1, !.phase = "header"] /\ UNCHANGED bp
     ELSE work' = Idle /\ LoopOrExit(is_shutdown, gaps_filling_in_progress)

CommitGapEnd ==
  /\ CommitOk /\ work.kind = "Finished" /\ work.lo = work.hi
  /\ gaps' = Forget(gaps, work.to)
  /\ work' = Idle
  /\ Retire(work.to)
  /\ UNCHANGED <<cursor, last_processed_block, pushes>> /\ LoopOrExit(is_shutdown, gaps_filling_in_progress')

-----------------------------------------------------------------------------
\* The process dies, or has stopped, and is started again: only the database and the
\* node survive; processed_blocks is loaded from the index (main.rs).
Restart ==
  /\ restarts < MaxRestarts
  /\ restarts' = restarts + 1
  /\ link' = "down" /\ shutting_down' = FALSE /\ rpc' = << >>
  /\ inbox' = << >> /\ results' = << >>
  /\ bp' = "run" /\ has_first_connect' = FALSE /\ gaps_fillers' = NoGaps /\ is_shutdown' = FALSE
  /\ last_processed_block' = None /\ gaps_filling_in_progress' = 0
  /\ work' = Idle /\ fillers' = << >> /\ known' = headers
  /\ twins' = FALSE /\ abandoned' = {}
  /\ lost' = IF work # Idle /\ work.phase = "commit" /\ work.fresh THEN lost \cup {work.lo} ELSE lost
  /\ UNCHANGED <<tip, sessions, db, pushes, unannounced, skipped, overlap>>

\* A request parked in requests_queue; nothing answers it once shutting_down is set.
Waiting == {f \in DOMAIN fillers : fillers[f].pc = "queued"}

\* Where the process rests: the block processor returned, or it waits for a filler that
\* waits for ever, or for a counter that two fillers with one target made wrap.
Rest ==
  /\ bp = "stopped" \/ (shutting_down /\ (Waiting # {} \/ twins))
  /\ UNCHANGED vars

NodeStep == NewBlock \/ Register \/ Disconnect \/ Shutdown
DataSourceStep == Connect \/ ForwardBlock
FillerStep(f) ==
  CheckInterrupt(f) \/ RefuseRequest(f) \/ QueueRequest(f) \/ FailRequest(f) \/ AnswerRequest(f)
TakeInbox ==
  \/ FirstConnected \/ Reconnected \/ ReconnectedIdle \/ Disconnected \/ ShutdownReceived
  \/ BlockReceived
TakeResult == FillerStopped \/ BatchReceived
BlockStep == HandleBlock \/ CommitConflict \/ CommitNotification \/ CommitGapBlock \/ CommitGapEnd

Next ==
  \/ NodeStep \/ DataSourceStep \/ \E f \in DOMAIN fillers : FillerStep(f)
  \/ TakeInbox \/ TakeResult \/ BlockStep \/ Restart \/ Rest

Spec == Init /\ [][Next]_vars

\* The threads and tasks run; flume's selector picks a ready channel at random, so
\* neither input of the block processor is passed over for ever.
Fairness ==
  /\ WF_vars(DataSourceStep) /\ WF_vars(BlockStep)
  /\ SF_vars(TakeInbox) /\ SF_vars(TakeResult)
  /\ \A f \in 1 .. (MaxBlock + 1 + MaxSessions) : WF_vars(f \in DOMAIN fillers /\ FillerStep(f))

FairSpec == Spec /\ Fairness

-----------------------------------------------------------------------------
(* Properties.                                                              *)

\* Every block up to the real-time cursor is stored or lies in a recorded gap: the gaps
\* and the cursor together never forget a block (block_processor.rs, Connected).
Covered == cursor # None => \A b \in 0 .. cursor : b \in headers \/ InGap(b)

\* No block is forgotten through crashes, restarts, disconnections, stale notifications,
\* failed requests and interrupted fillers, except in the three situations the history
\* variables name: the blocks of a failed handshake move the cursor (unannounced), a
\* reconnection takes no gap (skipped), a gap overwrites one of the same target (overlap).
\* (And every variable has its type.)
CoveredOtherwise == TypeOK /\ (~unannounced /\ ~skipped /\ ~overlap => Covered)

\* A block stays without its transactions only if their commit lost a conflict or the
\* process died between the header's write and the commit (handle_block, line 328).
TransactionsStored ==
  headers \ stored \subseteq lost \cup (IF work # Idle /\ work.phase = "commit" THEN {work.lo} ELSE {})

Active == {f \in DOMAIN fillers : fillers[f].pc # "done"}
Reported ==
  {results[i].id : i \in {j \in DOMAIN results : results[j].kind # "Update"}}
    \cup (IF work # Idle /\ work.kind = "Finished" THEN {work.id} ELSE {})

\* gaps_filling_in_progress is the number of fillers still running or whose last message
\* is still unread, as long as the first connection did not spawn two fillers for one
\* target: reconnections, interrupts, errors and replaced map entries never upset it.
FillersCounted == ~twins => gaps_filling_in_progress = Cardinality(Active \cup Reported)

\* Unless it is shutting down, the block processor has told the virtual chain processor
\* of every header on disk, the one in hand excepted: also of blocks it skipped as
\* already processed, and after a conflict or a restart.
HeadersAnnounced ==
  ~is_shutdown => headers \ known \subseteq (IF work # Idle THEN {work.lo} ELSE {})

\* Push events of a block go out at most once, over all restarts and re-deliveries, and
\* never before its transactions are committed.
PushedOnce == \A b \in Blocks : pushes[b] <= (IF b \in stored THEN 1 ELSE 0)

\* A recorded gap is being filled, or its filler stopped early in this process; the
\* latter kind waits for a restart, which takes up every recorded gap.
GapServed ==
  bp = "run" /\ has_first_connect =>
    \A t \in DOMAIN gaps \ abandoned : \E f \in Active \cup Reported : fillers[f].to = t

\* After Shutdown the block processor returns, whatever its fillers are doing, provided
\* no request was parked for want of a connection and the count is right.
ShutdownStops ==
  \A r \in 0 .. MaxRestarts :
    (is_shutdown /\ restarts = r /\ Waiting = {} /\ ~twins) ~> (bp = "stopped" \/ restarts > r)
=============================================================================
