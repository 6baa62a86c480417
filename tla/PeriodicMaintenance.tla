------------------------ MODULE PeriodicMaintenance ------------------------
(***************************************************************************)
(* The ticker task and the periodic processor thread, joined by two        *)
(* channels of capacity one, and the pruning job the processor runs over   *)
(* tables that the block processor writes at the same time.                *)
(*                                                                         *)
(* Sources: indexer-actors/src/ticker.rs, periodic_processor.rs and, for   *)
(* the concurrent writer, BlockProcessor::handle_block.  A block is        *)
(* represented by its DAA score (one block per score): the score is all    *)
(* that pruning looks at.                                                  *)
(***************************************************************************)
EXTENDS Naturals, Sequences

CONSTANTS
  MaxDaa,        \* bound on the DAA scores the node reaches
  PruningDepth,  \* blocks more than this far below the virtual score are pruned
  MaxRestarts    \* bound on the restarts of the process

ASSUME MaintenanceAssumption ==
  MaxDaa \in Nat /\ PruningDepth \in Nat /\ MaxRestarts \in Nat

VARIABLES
  ticker,        \* where Ticker::process is
  need_to_send,  \* Ticker::process: no job is outstanding
  signal,        \* a shutdown signal waits in the ticker's channel
  intake,        \* channel ticker -> processor, capacity 1
  resp,          \* channel processor -> ticker, capacity 1
  processor,     \* where PeriodicProcessor::process is
  todo,          \* prune: entries of the index snapshot not yet visited
  cur,           \* prune: the entry being deleted, 0 if none
  step,          \* prune: which delete of cur comes next
  virtual_daa,   \* AtomicU64 shared with the data source
  writing,       \* handle_block: header stored, index entry not yet; 0 if none
  headers,       \* partition block_compact_headers
  daa_index,     \* partition daa_index_compact_header
  accepting,     \* partition accepting_block_to_tx_id (its keys)
  torn,          \* history: blocks one of whose updates was cut in two
  restarts

channels == <<intake, resp>>
pruning == <<todo, cur, step>>
tables == <<headers, daa_index, accepting, writing, torn>>
vars == <<ticker, need_to_send, signal, channels, processor, pruning, tables,
          virtual_daa, restarts>>

Scores == 1 .. MaxDaa

TypeOK ==
  /\ ticker \in {"select", "send_job", "send_shutdown", "await_stopped", "returned", "bailed"}
  /\ need_to_send \in BOOLEAN /\ signal \in BOOLEAN
  /\ intake \in {<< >>, <<"DoJob">>, <<"Shutdown">>}
  /\ resp \in {<< >>, <<"JobDone">>, <<"Stopped">>}
  /\ processor \in {"recv", "prune", "send_done", "drop", "gone"}
  /\ todo \subseteq Scores /\ cur \in 0 .. MaxDaa /\ step \in 0 .. 2
  /\ virtual_daa \in 0 .. MaxDaa /\ writing \in 0 .. MaxDaa
  /\ headers \subseteq Scores /\ daa_index \subseteq Scores
  /\ accepting \subseteq Scores /\ torn \subseteq Scores
  /\ restarts \in 0 .. MaxRestarts

Init ==
  /\ ticker = "select" /\ need_to_send = TRUE /\ signal = FALSE
  /\ intake = << >> /\ resp = << >> /\ processor = "recv"
  /\ todo = {} /\ cur = 0 /\ step = 0 /\ writing = 0
  /\ virtual_daa = 0 /\ restarts = 0
  /\ headers = {} /\ daa_index = {} /\ accepting = {} /\ torn = {}

-----------------------------------------------------------------------------
(* Ticker::process.  The select is biased: shutdown, then the timer, then   *)
(* a response.  The timer may elapse at any moment; a tick with a job       *)
(* outstanding changes nothing.                                             *)

TakeShutdown ==
  /\ ticker = "select" /\ signal
  /\ signal' = FALSE /\ ticker' = "send_shutdown"
  /\ UNCHANGED <<need_to_send, channels, processor, pruning, tables, virtual_daa, restarts>>

\* The send waits for room, or fails (and is only logged) once the receiver is gone.
SendShutdown ==
  /\ ticker = "send_shutdown"
  /\ \/ processor # "gone" /\ intake = << >> /\ intake' = <<"Shutdown">>
     \/ processor = "gone" /\ UNCHANGED intake
  /\ ticker' = "await_stopped"
  /\ UNCHANGED <<need_to_send, signal, resp, processor, pruning, tables, virtual_daa, restarts>>

AwaitStopped ==
  /\ ticker = "await_stopped" /\ resp # << >>
  /\ resp' = << >>
  /\ ticker' = IF Head(resp) = "Stopped" THEN "returned" ELSE ticker
  /\ UNCHANGED <<need_to_send, signal, intake, processor, pruning, tables, virtual_daa, restarts>>

Tick ==
  /\ ticker = "select" /\ ~signal /\ need_to_send
  /\ ticker' = "send_job"
  /\ UNCHANGED <<need_to_send, signal, channels, processor, pruning, tables, virtual_daa, restarts>>

MutSendJob ==
  /\ ticker = "send_job" /\ intake = << >>
  /\ intake' = <<"DoJob">> /\ ticker' = "select"
  /\ UNCHANGED <<need_to_send, signal, resp, processor, pruning, tables, virtual_daa, restarts>>

SendJob ==
  /\ ticker = "send_job" /\ intake = << >>
  /\ intake' = <<"DoJob">> /\ need_to_send' = FALSE /\ ticker' = "select"
  /\ UNCHANGED <<signal, resp, processor, pruning, tables, virtual_daa, restarts>>

TakeResponse ==
  /\ ticker = "select" /\ ~signal /\ resp # << >>
  /\ resp' = << >>
  /\ \/ Head(resp) = "JobDone" /\ need_to_send' = TRUE /\ UNCHANGED ticker
     \/ Head(resp) = "Stopped" /\ ticker' = "bailed" /\ UNCHANGED need_to_send
  /\ UNCHANGED <<signal, intake, processor, pruning, tables, virtual_daa, restarts>>

-----------------------------------------------------------------------------
(* PeriodicProcessor::process, do_job, prune and Drop.                      *)

MutReceiveJob ==
  /\ processor = "recv" /\ intake = <<"DoJob">>
  /\ intake' = << >> /\ processor' = "prune"
  /\ todo' = {d \in daa_index : d + PruningDepth + 1 < virtual_daa}
  /\ UNCHANGED <<ticker, need_to_send, signal, resp, cur, step, tables, virtual_daa, restarts>>

\* prune takes one read snapshot of the index and walks the entries below
\* current_daa.saturating_sub(pruning_depth).
ReceiveJob ==
  /\ processor = "recv" /\ intake = <<"DoJob">>
  /\ intake' = << >> /\ processor' = "prune"
  /\ todo' = {d \in daa_index : d + PruningDepth < virtual_daa}
  /\ UNCHANGED <<ticker, need_to_send, signal, resp, cur, step, tables, virtual_daa, restarts>>

ReceiveShutdown ==
  /\ processor = "recv" /\ intake = <<"Shutdown">>
  /\ intake' = << >> /\ processor' = "drop"
  /\ UNCHANGED <<ticker, need_to_send, signal, resp, pruning, tables, virtual_daa, restarts>>

PruneNext ==
  /\ processor = "prune" /\ cur = 0
  /\ \E d \in todo :
       /\ \A e \in todo : d <= e
       /\ cur' = d /\ todo' = todo \ {d} /\ step' = 0
  /\ UNCHANGED <<ticker, need_to_send, signal, channels, processor, tables, virtual_daa, restarts>>

MutPruneDelete ==
  /\ processor = "prune" /\ cur # 0
  /\ \/ step = 0 /\ step' = 1 /\ daa_index' = daa_index \ {cur} /\ UNCHANGED <<headers, accepting, cur>>
     \/ step = 1 /\ step' = 2 /\ headers' = headers \ {cur} /\ UNCHANGED <<daa_index, accepting, cur>>
     \/ step = 2 /\ step' = 0 /\ accepting' = accepting \ {cur} /\ cur' = 0 /\ UNCHANGED <<headers, daa_index>>
  /\ UNCHANGED <<ticker, need_to_send, signal, channels, processor, todo, writing, torn,
                 virtual_daa, restarts>>

\* Three deletes outside any transaction: the header, the index entry, the list of
\* transactions the block accepted.
PruneDelete ==
  /\ processor = "prune" /\ cur # 0
  /\ \/ step = 0 /\ step' = 1 /\ headers' = headers \ {cur} /\ UNCHANGED <<daa_index, accepting, cur>>
     \/ step = 1 /\ step' = 2 /\ daa_index' = daa_index \ {cur} /\ UNCHANGED <<headers, accepting, cur>>
     \/ step = 2 /\ step' = 0 /\ accepting' = accepting \ {cur} /\ cur' = 0 /\ UNCHANGED <<headers, daa_index>>
  /\ UNCHANGED <<ticker, need_to_send, signal, channels, processor, todo, writing, torn,
                 virtual_daa, restarts>>

PruneEnd ==
  /\ processor = "prune" /\ cur = 0 /\ todo = {}
  /\ processor' = "send_done"
  /\ UNCHANGED <<ticker, need_to_send, signal, channels, pruning, tables, virtual_daa, restarts>>

\* What an interruption leaves behind for good: a block with only its last delete
\* missing.  A block still in the index is found again by the next prune.
CutPrune == IF step = 2 THEN {cur} ELSE {}

\* A storage error in do_job leaves process() with `?`; the thread then drops.
JobFails ==
  /\ processor = "prune"
  /\ processor' = "drop" /\ todo' = {} /\ cur' = 0 /\ step' = 0
  /\ torn' = torn \cup CutPrune
  /\ UNCHANGED <<ticker, need_to_send, signal, channels, headers, daa_index, accepting, writing,
                 virtual_daa, restarts>>

SendJobDone ==
  /\ processor = "send_done" /\ resp = << >>
  /\ resp' = <<"JobDone">> /\ processor' = "recv"
  /\ UNCHANGED <<ticker, need_to_send, signal, intake, pruning, tables, virtual_daa, restarts>>

MutDropProcessor ==
  /\ processor = "drop"
  /\ processor' = "gone" /\ UNCHANGED resp
  /\ UNCHANGED <<ticker, need_to_send, signal, intake, pruning, tables, virtual_daa, restarts>>

DropProcessor ==
  /\ processor = "drop" /\ resp = << >>
  /\ resp' = <<"Stopped">> /\ processor' = "gone"
  /\ UNCHANGED <<ticker, need_to_send, signal, intake, pruning, tables, virtual_daa, restarts>>

-----------------------------------------------------------------------------
(* The rest of the process and of the world.                                *)

\* handle_block, first write: the header, directly in the partition.  A header
\* that is already there ends the handler (no second write).
WriteHeader(d) ==
  /\ writing = 0 /\ d <= virtual_daa /\ d \notin headers
  /\ headers' = headers \cup {d} /\ writing' = d
  /\ torn' = IF d \in todo \cup {cur} THEN torn \cup {d} ELSE torn
  /\ UNCHANGED <<ticker, need_to_send, signal, channels, processor, pruning, daa_index, accepting,
                 virtual_daa, restarts>>

\* handle_block, second write: the index entry.
WriteIndex ==
  /\ writing # 0
  /\ daa_index' = daa_index \cup {writing} /\ writing' = 0
  /\ UNCHANGED <<ticker, need_to_send, signal, channels, processor, pruning, headers, accepting, torn,
                 virtual_daa, restarts>>

\* VirtualProcessor::handle_vcc_addition stores the list of a chain block it knows; it
\* keeps knowing blocks the tables have lost to pruning.
AcceptBlock(d) ==
  /\ d <= virtual_daa /\ d \notin accepting
  /\ accepting' = accepting \cup {d}
  /\ torn' = IF d \notin daa_index THEN torn \cup {d} ELSE torn
  /\ UNCHANGED <<ticker, need_to_send, signal, channels, processor, pruning, headers, daa_index,
                 writing, virtual_daa, restarts>>

\* DataSource::handle_notification, VirtualDaaScoreChanged.
AdvanceDaa ==
  /\ virtual_daa < MaxDaa
  /\ virtual_daa' = virtual_daa + 1
  /\ UNCHANGED <<ticker, need_to_send, signal, channels, processor, pruning, tables, restarts>>

Ended == ticker \in {"returned", "bailed"}

\* main sends the ticker at most one shutdown signal.
Signal ==
  /\ ticker \in {"select", "send_job"} /\ ~signal
  /\ signal' = TRUE
  /\ UNCHANGED <<ticker, need_to_send, channels, processor, pruning, tables, virtual_daa, restarts>>

\* The process dies at any moment, or has ended, and is started again; the
\* tables survive.
Restart ==
  /\ restarts < MaxRestarts
  /\ restarts' = restarts + 1
  /\ ticker' = "select" /\ need_to_send' = TRUE /\ signal' = FALSE
  /\ intake' = << >> /\ resp' = << >> /\ processor' = "recv"
  /\ todo' = {} /\ cur' = 0 /\ step' = 0 /\ writing' = 0
  /\ torn' = torn \cup CutPrune \cup (IF writing = 0 THEN {} ELSE {writing})
  /\ UNCHANGED <<headers, daa_index, accepting, virtual_daa>>

Terminated ==
  /\ Ended /\ processor = "gone"
  /\ UNCHANGED vars

TickerStep == TakeShutdown \/ SendShutdown \/ AwaitStopped \/ SendJob \/ TakeResponse
JobStep == ReceiveJob \/ PruneNext \/ PruneDelete \/ PruneEnd \/ SendJobDone
ProcessorStep == JobStep \/ ReceiveShutdown \/ DropProcessor
BlockStep == WriteIndex \/ \E d \in Scores : WriteHeader(d) \/ AcceptBlock(d)

Next ==
  \/ TickerStep \/ Tick \/ ProcessorStep \/ JobFails
  \/ BlockStep \/ AdvanceDaa \/ Signal \/ Restart \/ Terminated

\* Both actors run whenever they can; the interval timer keeps firing.  Nothing
\* forces blocks, signals, failures or restarts.
Fairness == WF_vars(TickerStep) /\ WF_vars(ProcessorStep) /\ WF_vars(Tick)

Spec == Init /\ [][Next]_vars /\ Fairness

-----------------------------------------------------------------------------
(* Properties.                                                              *)

\* How many jobs are in flight: queued, running, or done and not yet reported.
JobsInFlight ==
  (IF intake = <<"DoJob">> THEN 1 ELSE 0)
    + (IF processor \in {"prune", "send_done"} THEN 1 ELSE 0)
    + (IF resp = <<"JobDone">> THEN 1 ELSE 0)

\* Ticker and processor never get ahead of one another: at most one job is in
\* flight, none while the ticker believes it may send the next one, so neither
\* `send` on the two one-slot channels ever waits for the other side (ticker.rs
\* need_to_send, periodic_processor.rs send_blocking).
SingleJob ==
  /\ JobsInFlight <= 1
  /\ need_to_send /\ ~Ended => JobsInFlight = 0
  /\ ticker = "send_job" => intake = << >> /\ processor = "recv"
  /\ processor = "send_done" => resp = << >>

\* The ticker leaves only after the processor's Drop has reported: it never
\* abandons a running job or a processor that would block on a closed channel
\* (ticker.rs lines 40-45 and 63-66).
TickerOutlivesProcessor == Ended => processor = "gone" /\ resp = << >>

\* Prune walks the index, so a header or a transaction list without an index entry is
\* never pruned.  Such leftovers exist only for blocks whose own update was cut: a crash
\* between the two writes of handle_block, a block stored or accepted while or after it
\* was pruned, an interruption before the last of prune's deletes.  An interruption
\* anywhere else in prune leaves no leftover: the index entry goes after the header.
TablesAgree ==
  /\ headers \ daa_index \subseteq {writing} \cup torn
  /\ accepting \ daa_index \subseteq {cur} \cup torn

\* A shutdown signal makes both actors stop, even in the middle of a job, and so does a
\* storage error that ends the processor alone, since Drop reports it to the ticker, and
\* the ticker's end to main; only a crash of the whole process can come first.
ShutdownCompletes ==
  \A r \in 0 .. MaxRestarts :
    ((signal \/ processor = "drop") /\ restarts = r)
      ~> ((Ended /\ processor = "gone") \/ restarts > r)

\* Every index entry that falls below the threshold goes away, unless the actors are
\* told to stop or fail: the job keeps being triggered, and a crash in the middle of
\* a prune only delays the entry to the next one.
PrunedEventually ==
  \A d \in Scores :
    (d \in daa_index /\ d + PruningDepth < virtual_daa)
      ~> (d \notin daa_index \/ signal \/ processor \in {"drop", "gone"})
=============================================================================
