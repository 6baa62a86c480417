--------------------------- MODULE VirtualChain ---------------------------
(***************************************************************************)
(* The virtual chain processor thread, the syncer tasks it spawns, the     *)
(* part of the data source that feeds both, and the acceptance data they   *)
(* leave on disk, across disconnections, shutdowns and crashes.            *)
(*                                                                         *)
(* Sources: indexer-actors/src/virtual_chain_processor.rs,                 *)
(* virtual_chain_syncer.rs, data_source.rs; indexer-db/src/metadata.rs.    *)
(* Blocks are numbered by blue work; block 0 is the pruning point, and the *)
(* cursor 0 stands for no cursor.  A change of the chain is the pair of    *)
(* its ends: what it removes and adds follows from the tree of selected    *)
(* parents.  The processed_blocks cache never evicts here.                 *)
(***************************************************************************)
EXTENDS Naturals, Sequences, FiniteSets

CONSTANTS
  Parent,       \* selected parent of each block: a sequence indexed by block
  MaxSessions,  \* bound: connections to the node
  MaxRestarts,  \* bound: restarts of the process
  MaxShutdowns  \* bound: shutdown signals per run of the process (0: none is sent)

ASSUME VirtualChainAssumption ==
  /\ Parent \in Seq(Nat) /\ \A b \in DOMAIN Parent : Parent[b] < b
  /\ MaxSessions \in Nat /\ MaxRestarts \in Nat /\ MaxShutdowns \in {0, 1}

Blocks == 0 .. Len(Parent)
\* The selected chain that ends in a block, without the pruning point.
Chain[b \in Blocks] == IF b = 0 THEN {} ELSE Chain[Parent[b]] \cup {b}

VARIABLES
  \* the node and the data source
  sink,           \* sink of the node
  link,           \* RPC connection: down, registered (listeners on, sink not read), up
  sessions,
  stopping,       \* DataSource::shutting_down
  rpc,            \* chain notifications the data source has not forwarded
  inbox,          \* channel to the processor (RealTimeVccNotification)
  syncer_rx,      \* channel syncers -> processor (SyncVccNotification)
  syncers,        \* live VirtualChainSyncer tasks by id
  \* the database
  headers,        \* blocks whose compact header is stored
  accepting,      \* accepting_block_to_txs: blocks whose acceptances are recorded
  cursor,         \* LatestAcceptingBlockCursor
  \* locals of VirtualChainProcessor::process
  vcp,            \* run, stopped (Ok), failed (Err), panicked
  processed_blocks,
  realtime_queue_vcc,
  shutting_down,
  sync_state,     \* Initial, Syncing, Synced
  syncer_id, last_accepting_block, target_block, sync_queue,
  draining,       \* in the loop over realtime_queue_vcc of handle_processed_block
  \* history
  restarts,
  late,           \* a change was forwarded after the connection it came from had ended
  midway          \* a connection or the process ended while the place was behind the cursor

node == <<sink, link, sessions, stopping, rpc>>
db == <<headers, accepting, cursor>>
sync == <<sync_state, syncer_id, last_accepting_block, target_block, sync_queue>>
shared == <<processed_blocks, realtime_queue_vcc, shutting_down>>
history == <<restarts, late, midway>>
vars == <<node, inbox, syncer_rx, syncers, db, vcp, sync, shared, draining, history>>

Change(from, to) == [from |-> from, to |-> to]
Changes == [from : Blocks, to : Blocks]
NoChange == Change(0, 0)
Removed(c) == Chain[c.from] \ Chain[c.to]
Added(c) == Chain[c.to] \ Chain[c.from]

VccMessages ==
  [kind : {"Connected"}, sink : Blocks] \cup [kind : {"Disconnected", "Shutdown"}]
    \cup [kind : {"Notification"}, change : Changes]
SyncMessages ==
  [kind : {"VirtualChain"}, id : Nat, change : Changes] \cup [kind : {"Stopped"}, id : Nat]
Syncers == [from : Blocks, pc : {"sent", "ack"}, ack : {"none", "Continue", "Stop"}]

TypeOK ==
  /\ sink \in Blocks /\ link \in {"down", "registered", "up"}
  /\ sessions \in 0 .. MaxSessions /\ restarts \in 0 .. MaxRestarts
  /\ rpc \in Seq(Changes)
  /\ inbox \in Seq(VccMessages) /\ syncer_rx \in Seq(SyncMessages)
  /\ DOMAIN syncers \subseteq 0 .. MaxSessions
  /\ syncers = [i \in DOMAIN syncers |-> syncers[i]]
  /\ \A i \in DOMAIN syncers : syncers[i] \in Syncers
  /\ headers \subseteq Blocks /\ accepting \subseteq Blocks /\ cursor \in Blocks
  /\ vcp \in {"run", "stopped", "failed", "panicked"}
  /\ processed_blocks \subseteq Blocks /\ realtime_queue_vcc \in Seq(Changes)
  /\ sync_state \in {"Initial", "Syncing", "Synced"}
  /\ syncer_id \in Nat /\ last_accepting_block \in Blocks /\ target_block \in Blocks
  /\ sync_queue \in Changes
  /\ stopping \in BOOLEAN /\ shutting_down \in BOOLEAN /\ draining \in BOOLEAN
  /\ late \in BOOLEAN /\ midway \in BOOLEAN

NoSyncer == [i \in {} |-> NoChange]

Init ==
  /\ sink = 0 /\ link = "down" /\ sessions = 0 /\ stopping = FALSE /\ rpc = << >>
  /\ inbox = << >> /\ syncer_rx = << >> /\ syncers = NoSyncer
  /\ headers = {} /\ accepting = {} /\ cursor = 0
  /\ vcp = "run" /\ processed_blocks = {} /\ realtime_queue_vcc = << >> /\ shutting_down = FALSE
  /\ sync_state = "Initial" /\ syncer_id = 0 /\ last_accepting_block = 0 /\ target_block = 0
  /\ sync_queue = NoChange /\ draining = FALSE
  /\ restarts = 0 /\ late = FALSE /\ midway = FALSE

-----------------------------------------------------------------------------
(* The node and the data source.                                            *)

\* A heavier block becomes the sink: listeners are told of the change.
NewSink ==
  /\ sink + 1 \in Blocks
  /\ sink' = sink + 1
  /\ rpc' = IF link = "down" THEN rpc ELSE Append(rpc, Change(sink, sink + 1))
  /\ UNCHANGED <<link, sessions, stopping, inbox, syncer_rx, syncers, db, vcp, sync, shared,
                 draining, history>>

\* handle_connect, up to register_notification_listeners.
Register ==
  /\ link = "down" /\ ~stopping /\ sessions < MaxSessions
  /\ link' = "registered" /\ sessions' = sessions + 1
  /\ late' = (late \/ rpc # << >>)
  /\ UNCHANGED <<sink, stopping, rpc, inbox, syncer_rx, syncers, db, vcp, sync, shared,
                 draining, restarts, midway>>

\* The rest of handle_connect_impl: read the sink and announce it.
Connect ==
  /\ link = "registered"
  /\ link' = "up" /\ inbox' = Append(inbox, [kind |-> "Connected", sink |-> sink])
  /\ UNCHANGED <<sink, sessions, stopping, rpc, syncer_rx, syncers, db, vcp, sync, shared,
                 draining, history>>

\* handle_disconnect; a failed handle_connect_impl disconnects and ends here as well.
Disconnect ==
  /\ link # "down"
  /\ link' = "down" /\ inbox' = Append(inbox, [kind |-> "Disconnected"])
  /\ UNCHANGED <<sink, sessions, stopping, rpc, syncer_rx, syncers, db, vcp, sync, shared,
                 draining, history>>

\* handle_notification, VirtualChainChanged: forwarded whether or not the connection it
\* came from still exists.
ForwardChange ==
  /\ rpc # << >> /\ link # "registered"
  /\ rpc' = Tail(rpc) /\ inbox' = Append(inbox, [kind |-> "Notification", change |-> Head(rpc)])
  /\ late' = (late \/ link = "down")
  /\ UNCHANGED <<sink, link, sessions, stopping, syncer_rx, syncers, db, vcp, sync, shared,
                 draining, restarts, midway>>

\* handle_shutdown: closing the connection sends no Disconnected any more.
Shutdown ==
  /\ MaxShutdowns = 1 /\ ~stopping /\ link # "registered"
  /\ stopping' = TRUE /\ link' = "down" /\ inbox' = Append(inbox, [kind |-> "Shutdown"])
  /\ UNCHANGED <<sink, sessions, rpc, syncer_rx, syncers, db, vcp, sync, shared, draining, history>>

-----------------------------------------------------------------------------
(* VirtualChainSyncer::process, with DataSource's handling of its requests. *)

Notify(msg) == syncer_rx' = Append(syncer_rx, msg)
Ends(i) ==
  /\ syncers' = [j \in DOMAIN syncers \ {i} |-> syncers[j]]
  /\ Notify([kind |-> "Stopped", id |-> i])

\* GetVirtualChainFromBlock: the change from a block to the sink, or to a block of the
\* sink's chain on the way.
Responses(from) ==
  IF Chain[sink] \subseteq Chain[from] THEN {from} ELSE Chain[sink] \ Chain[from]

SyncerAnswered(i) ==
  /\ syncers[i].pc = "sent" /\ link = "up"
  /\ \E to \in Responses(syncers[i].from) :
       /\ syncers' = [syncers EXCEPT ![i] = [from |-> to, pc |-> "ack", ack |-> syncers[i].ack]]
       /\ Notify([kind |-> "VirtualChain", id |-> i, change |-> Change(syncers[i].from, to)])
  /\ UNCHANGED <<node, inbox, db, vcp, sync, shared, draining, history>>

\* An error other than a disconnection; a request that meets a disconnection waits for the
\* next connection.
SyncerFails(i) ==
  /\ syncers[i].pc = "sent" /\ link = "up"
  /\ Ends(i)
  /\ UNCHANGED <<node, inbox, db, vcp, sync, shared, draining, history>>

\* A request that reaches the data source after it has begun to shut down.
SyncerRefused(i) ==
  /\ syncers[i].pc = "sent" /\ stopping
  /\ Ends(i)
  /\ UNCHANGED <<node, inbox, db, vcp, sync, shared, draining, history>>

\* Stop, or the channel closed by the processor's end, is taken at either select.
SyncerStops(i) ==
  /\ syncers[i].ack = "Stop" \/ vcp # "run"
  /\ Ends(i)
  /\ UNCHANGED <<node, inbox, db, vcp, sync, shared, draining, history>>

SyncerContinues(i) ==
  /\ syncers[i].pc = "ack" /\ syncers[i].ack = "Continue"
  /\ syncers' = [syncers EXCEPT ![i] = [from |-> syncers[i].from, pc |-> "sent", ack |-> "none"]]
  /\ UNCHANGED <<node, inbox, syncer_rx, db, vcp, sync, shared, draining, history>>

-----------------------------------------------------------------------------
(* VirtualChainProcessor: helpers.                                          *)

Idle == vcp = "run" /\ ~draining
Take(kind) == Idle /\ inbox # << >> /\ Head(inbox).kind = kind /\ inbox' = Tail(inbox)
TakeSync(kind) ==
  Idle /\ syncer_rx # << >> /\ Head(syncer_rx).kind = kind /\ syncer_rx' = Tail(syncer_rx)

\* send_blocking on the ack channel, bounded(1): waits while Continue is unread.  Behind an
\* unread Stop it is lost or fails, depending on whether the syncer drops its end first.
AckSent(a) ==
  /\ syncer_id \in DOMAIN syncers /\ syncers[syncer_id].ack # "Continue"
  /\ LET s == syncers[syncer_id] IN
     syncers' = IF s.ack = "Stop" THEN syncers
                ELSE [syncers EXCEPT ![syncer_id] = [from |-> s.from, pc |-> s.pc, ack |-> a]]
AckFails ==
  /\ syncer_id \in DOMAIN syncers => syncers[syncer_id].ack = "Stop"
  /\ vcp' = "failed" /\ UNCHANGED syncers

MutKnown(c, known) == TRUE

Known(c, known) == Added(c) \subseteq known

MutRecord(c) ==
  /\ accepting' = accepting \cup Added(c)
  /\ cursor' = IF c.to > cursor THEN c.to ELSE cursor
  /\ last_accepting_block' = c.to
\* handle_vcc and handle_vc_resp: one transaction, retried on a conflict; the cursor is
\* only replaced by one of more blue work (set_latest_accepting_block_cursor).
Record(c) ==
  /\ accepting' = (accepting \ Removed(c)) \cup Added(c)
  /\ cursor' = IF c.to > cursor THEN c.to ELSE cursor
  /\ last_accepting_block' = c.to

\* spawn_syncer and the Syncing state it starts.
SpawnSyncer(id, from, target) ==
  /\ syncers' = [j \in DOMAIN syncers \cup {id} |->
                   IF j = id THEN [from |-> from, pc |-> "sent", ack |-> "none"] ELSE syncers[j]]
  /\ sync_state' = "Syncing" /\ syncer_id' = id /\ last_accepting_block' = from
  /\ target_block' = target /\ sync_queue' = NoChange

-----------------------------------------------------------------------------
(* VirtualChainProcessor::process, messages of the data source.             *)

\* handle_connect, one action per state.
ConnectInitial ==
  /\ sync_state = "Initial" /\ Take("Connected")
  /\ SpawnSyncer(0, cursor, Head(inbox).sink)
  /\ UNCHANGED <<node, syncer_rx, db, vcp, shared, draining, history>>

MutConnectSyncing ==
  /\ sync_state = "Syncing" /\ Take("Connected")
  /\ SpawnSyncer(syncer_id + 1, last_accepting_block, Head(inbox).sink)
  /\ UNCHANGED <<node, syncer_rx, db, vcp, shared, draining, history>>

ConnectSyncing ==
  /\ sync_state = "Syncing" /\ Take("Connected")
  /\ target_block' = Head(inbox).sink
  /\ UNCHANGED <<node, syncer_rx, syncers, db, vcp, sync_state, syncer_id, last_accepting_block,
                 sync_queue, shared, draining, history>>

ConnectSynced ==
  /\ sync_state = "Synced" /\ Take("Connected")
  /\ \/ /\ last_accepting_block >= Head(inbox).sink
        /\ UNCHANGED <<syncers, sync>>
     \/ /\ last_accepting_block < Head(inbox).sink
        /\ SpawnSyncer(syncer_id + 1, last_accepting_block, Head(inbox).sink)
  /\ midway' = (midway \/ last_accepting_block < cursor)
  /\ UNCHANGED <<node, syncer_rx, db, vcp, shared, draining, restarts, late>>

Disconnected ==
  /\ Take("Disconnected")
  /\ realtime_queue_vcc' = << >>
  /\ UNCHANGED <<node, syncer_rx, syncers, db, vcp, sync, processed_blocks, shutting_down,
                 draining, history>>

\* handle_shutdown
ShutdownReceived ==
  /\ Take("Shutdown")
  /\ shutting_down' = TRUE
  /\ \/ sync_state # "Syncing" /\ vcp' = "stopped" /\ UNCHANGED syncers
     \/ sync_state = "Syncing" /\ AckSent("Stop") /\ UNCHANGED vcp
     \/ sync_state = "Syncing" /\ AckFails
  /\ UNCHANGED <<node, syncer_rx, db, sync, processed_blocks, realtime_queue_vcc, draining, history>>

\* handle_realtime_vcc; the Initial state is declared unreachable.
HandleRealtimeVcc ==
  LET c == Head(inbox).change IN
  /\ Take("Notification")
  /\ \/ /\ sync_state = "Initial"
        /\ vcp' = "panicked" /\ UNCHANGED <<accepting, cursor, last_accepting_block, realtime_queue_vcc>>
     \/ /\ sync_state = "Syncing" \/ realtime_queue_vcc # << >> \/ ~Known(c, processed_blocks)
        /\ sync_state # "Initial"
        /\ realtime_queue_vcc' = Append(realtime_queue_vcc, c)
        /\ UNCHANGED <<vcp, accepting, cursor, last_accepting_block>>
     \/ /\ sync_state = "Synced" /\ realtime_queue_vcc = << >> /\ Known(c, processed_blocks)
        /\ Record(c) /\ UNCHANGED <<vcp, realtime_queue_vcc>>
  /\ UNCHANGED <<node, syncer_rx, syncers, headers, sync_state, syncer_id, target_block, sync_queue,
                 processed_blocks, shutting_down, draining, history>>

-----------------------------------------------------------------------------
(* VirtualChainProcessor::process, messages of the syncers.                 *)

\* The end of handle_syncer_vc and of handle_processed_block while Syncing: on the target,
\* or past it, stop the syncer and record; before it, record and let the syncer continue.
ApplySync(c) ==
  LET reached == c.to = target_block \/ c.to > target_block IN
  /\ sync_queue' = NoChange
  /\ \/ /\ reached /\ AckSent("Stop")
        /\ Record(c) /\ sync_state' = "Synced" /\ UNCHANGED vcp
     \/ /\ reached /\ AckFails
        /\ UNCHANGED <<accepting, cursor, last_accepting_block, sync_state>>
     \/ /\ ~reached /\ Record(c) /\ AckSent("Continue") /\ UNCHANGED <<vcp, sync_state>>
     \/ /\ ~reached /\ Record(c) /\ AckFails /\ UNCHANGED sync_state

HandleSyncerVc ==
  LET c == Head(syncer_rx).change IN
  /\ TakeSync("VirtualChain")
  /\ \/ /\ c.from = c.to /\ ((AckSent("Continue") /\ UNCHANGED vcp) \/ AckFails)
        /\ UNCHANGED <<accepting, cursor, last_accepting_block, sync_state, sync_queue>>
     \/ /\ c.from # c.to /\ ~Known(c, processed_blocks)
        /\ sync_queue' = c
        /\ UNCHANGED <<syncers, vcp, accepting, cursor, last_accepting_block, sync_state>>
     \/ /\ c.from # c.to /\ Known(c, processed_blocks)
        /\ ApplySync(c)
  /\ UNCHANGED <<node, inbox, headers, syncer_id, target_block, shared, draining, history>>

MutHandleSyncerStopped ==
  /\ TakeSync("Stopped")
  /\ UNCHANGED <<node, inbox, syncers, db, vcp, sync, shared, draining, history>>

HandleSyncerStopped ==
  /\ TakeSync("Stopped")
  /\ vcp' = IF Head(syncer_rx).id = syncer_id /\ shutting_down THEN "stopped"
            ELSE IF Head(syncer_rx).id = syncer_id /\ sync_state = "Syncing" THEN "failed"
            ELSE "run"
  /\ UNCHANGED <<node, inbox, syncers, db, sync, shared, draining, history>>

-----------------------------------------------------------------------------
(* VirtualChainProcessor::process, headers of the block processor.          *)

MutHandleProcessedBlock(b) ==
  /\ Idle /\ b <= sink
  /\ processed_blocks' = processed_blocks \cup {b} /\ headers' = headers \cup {b}
  /\ draining' = (sync_state = "Synced" /\ realtime_queue_vcc # << >>)
  /\ UNCHANGED <<node, inbox, syncer_rx, syncers, vcp, accepting, cursor, sync, realtime_queue_vcc,
                 shutting_down, history>>

\* handle_processed_block.  Blocks arrive in any order and, when a gap is filled again,
\* more than once.  While Synced the queued changes are worked off next, one by one.
HandleProcessedBlock(b) ==
  LET known == processed_blocks \cup {b} IN
  /\ Idle /\ b <= sink
  /\ processed_blocks' = known /\ headers' = headers \cup {b}
  /\ draining' = (sync_state = "Synced" /\ realtime_queue_vcc # << >>)
  /\ \/ /\ sync_state # "Syncing" \/ sync_queue = NoChange \/ ~Known(sync_queue, known)
        /\ UNCHANGED <<syncers, vcp, accepting, cursor, last_accepting_block, sync_state, sync_queue>>
     \/ /\ sync_state = "Syncing" /\ sync_queue # NoChange /\ Known(sync_queue, known)
        /\ ApplySync(sync_queue)
  /\ UNCHANGED <<node, inbox, syncer_rx, syncer_id, target_block, realtime_queue_vcc, shutting_down,
                 history>>

\* One turn of the loop over realtime_queue_vcc.
DrainQueue ==
  LET ready == realtime_queue_vcc # << >> /\ Known(Head(realtime_queue_vcc), processed_blocks) IN
  /\ vcp = "run" /\ draining
  /\ \/ /\ ~ready
        /\ draining' = FALSE
        /\ UNCHANGED <<realtime_queue_vcc, accepting, cursor, last_accepting_block>>
     \/ /\ ready
        /\ Record(Head(realtime_queue_vcc)) /\ realtime_queue_vcc' = Tail(realtime_queue_vcc)
        /\ UNCHANGED draining
  /\ UNCHANGED <<node, inbox, syncer_rx, syncers, headers, vcp, sync_state, syncer_id, target_block,
                 sync_queue, processed_blocks, shutting_down, history>>

\* The process ends, at any point between two transactions, and starts again from the
\* database (main loads the stored headers into processed_blocks).
Restart ==
  /\ restarts < MaxRestarts /\ restarts' = restarts + 1
  /\ midway' = (midway \/ (sync_state # "Initial" /\ last_accepting_block < cursor))
  /\ link' = "down" /\ stopping' = FALSE /\ rpc' = << >>
  /\ inbox' = << >> /\ syncer_rx' = << >> /\ syncers' = NoSyncer
  /\ vcp' = "run" /\ processed_blocks' = headers /\ realtime_queue_vcc' = << >>
  /\ shutting_down' = FALSE /\ sync_state' = "Initial" /\ syncer_id' = 0
  /\ last_accepting_block' = 0 /\ target_block' = 0 /\ sync_queue' = NoChange /\ draining' = FALSE
  /\ UNCHANGED <<sink, sessions, db, late>>

\* Nothing is left to do once the processor has ended.
Rest == vcp # "run" /\ syncers = NoSyncer /\ UNCHANGED vars

DataSourceStep == Register \/ Connect \/ Disconnect \/ ForwardChange \/ Shutdown
SyncerStep(i) ==
  SyncerAnswered(i) \/ SyncerFails(i) \/ SyncerRefused(i) \/ SyncerStops(i) \/ SyncerContinues(i)
ReceiveVcc ==
  \/ ConnectInitial \/ ConnectSyncing \/ ConnectSynced \/ Disconnected \/ ShutdownReceived
  \/ HandleRealtimeVcc
ReceiveSyncer == HandleSyncerVc \/ HandleSyncerStopped

Next ==
  \/ NewSink \/ DataSourceStep \/ ReceiveVcc \/ ReceiveSyncer \/ DrainQueue \/ Restart \/ Rest
  \/ \E i \in DOMAIN syncers : SyncerStep(i)
  \/ \E b \in Blocks \ {0} : HandleProcessedBlock(b)

Spec == Init /\ [][Next]_vars

\* The selector picks at random among the channels that hold a message, so that none is
\* passed over for ever; the syncer tasks run, and the block processor announces every
\* block in the end.
Fairness ==
  /\ SF_vars(ReceiveVcc) /\ SF_vars(ReceiveSyncer) /\ WF_vars(DrainQueue)
  /\ \A i \in 0 .. MaxSessions : WF_vars(i \in DOMAIN syncers /\ SyncerStep(i))
  /\ \A b \in Blocks \ {0} : WF_vars(b \notin processed_blocks /\ HandleProcessedBlock(b))
FairSpec == Spec /\ Fairness

-----------------------------------------------------------------------------
(* Properties.                                                              *)

\* Synced, connected and with nothing left to handle.
Quiet ==
  /\ vcp = "run" /\ sync_state = "Synced" /\ link = "up" /\ ~draining
  /\ rpc = << >> /\ inbox = << >> /\ realtime_queue_vcc = << >>
Converged == accepting = Chain[sink] /\ cursor = sink /\ last_accepting_block = sink

\* Whatever the order of headers, syncer batches, queued and live notifications,
\* reconnections and restarts, a processor that has worked everything off has recorded
\* exactly the blocks of the node's chain, and both cursors are at its end; unless a change
\* of a connection that had ended was handled, or older changes were being replayed, with
\* the last accepting block behind the cursor, when a connection was taken over or the
\* process ended.
\* (And every variable has its type.)
ConvergedOtherwise == TypeOK /\ (Quiet /\ ~late /\ ~midway => Converged)

\* The exchange with the syncers respects what both sides assert: a batch reaches the
\* processor only while it is Syncing, from its current syncer and with no batch waiting,
\* and Continue never reaches a syncer that awaits a response.  A chain notification before
\* the first Connected, which handle_realtime_vcc declares unreachable, only comes from a
\* connection whose handshake failed.
SyncerProtocol ==
  /\ \A k \in DOMAIN syncer_rx :
       syncer_rx[k].kind = "VirtualChain" /\ vcp = "run" =>
         sync_state = "Syncing" /\ syncer_rx[k].id = syncer_id /\ sync_queue = NoChange
  /\ \A i \in DOMAIN syncers : syncers[i].pc = "sent" => syncers[i].ack # "Continue"
  /\ ~late => vcp # "panicked"

\* handle_vcc_removal finds the header of every block whose acceptances it takes back,
\* in processed_blocks, after restarts too.
RemovalsKnown == vcp = "run" => accepting \subseteq processed_blocks

\* A shutdown ends the processor, in whatever state it is and whatever its syncer does.
\* (Stated of one run of the process: a restart forgets the request.)
ShutdownStops == stopping ~> vcp # "run"

\* Synchronisation comes to an end while the connection lasts, unless there is nothing to
\* fetch: from the sink itself the syncer polls until the chain grows.
SyncFinishes ==
  (vcp = "run" /\ sync_state = "Syncing") ~>
    (vcp # "run" \/ sync_state = "Synced" \/ link # "up" \/ last_accepting_block = sink)
=============================================================================
