--------------------- MODULE PeriodicMaintenance_proofs ---------------------
(***************************************************************************)
(* Proofs that the safety properties of PeriodicMaintenance hold for every *)
(* range of DAA scores, every pruning depth and every number of restarts.  *)
(***************************************************************************)
EXTENDS PeriodicMaintenance, TLAPS

\* Most steps need no arithmetic: Zenon is tried before the SMT solver.
USE ZenonT(2), SMTT(15)

\* The states of the two one-slot channels and the processor between two jobs, during a
\* job, and after the ticker has asked the processor to stop.
BetweenJobs == intake = << >> /\ processor = "recv" /\ resp = << >>
DuringJob ==
  \/ intake = <<"DoJob">> /\ processor = "recv" /\ resp = << >>
  \/ intake = << >> /\ processor \in {"prune", "send_done", "drop"} /\ resp = << >>
  \/ intake = << >> /\ processor = "recv" /\ resp = <<"JobDone">>
  \/ intake = << >> /\ processor = "gone" /\ resp = <<"Stopped">>
WhileStopping ==
  \/ intake = <<"Shutdown">> /\ processor \in {"recv", "drop"} /\ resp = << >>
  \/ intake = <<"Shutdown">> /\ processor \in {"prune", "send_done"} /\ resp = << >> /\ ~need_to_send
  \/ intake = <<"Shutdown">> /\ processor = "recv" /\ resp = <<"JobDone">> /\ ~need_to_send
  \/ intake = << >> /\ processor = "drop" /\ resp = << >>
  \/ intake = << >> /\ processor = "drop" /\ resp = <<"JobDone">> /\ ~need_to_send
  \/ intake \in {<< >>, <<"Shutdown">>} /\ processor = "gone" /\ resp = <<"Stopped">>

\* The protocol of the two actors: where the ticker is determines what the channels and
\* the processor may hold.
Handshake ==
  /\ ticker = "send_job" => need_to_send
  /\ ticker \in {"select", "send_job", "send_shutdown"} =>
       IF need_to_send THEN BetweenJobs ELSE DuringJob
  /\ ticker = "await_stopped" => WhileStopping
  /\ Ended => processor = "gone" /\ resp = << >>

\* Where prune is: what is left to visit is indexed, and so is the block in hand until
\* its index entry is deleted; by then its header is gone, unless it was stored again.
Pruning ==
  /\ cur = 0 => step = 0
  /\ processor # "prune" => cur = 0
  /\ todo \subseteq daa_index \ {cur}
  /\ cur # 0 /\ step \in {0, 1} => cur \in daa_index
  /\ cur # 0 /\ step = 1 /\ cur \in headers => cur \in torn

\* The two halves of TypeOK: the control state and the data.
ControlOK ==
  /\ ticker \in {"select", "send_job", "send_shutdown", "await_stopped", "returned", "bailed"}
  /\ need_to_send \in BOOLEAN /\ signal \in BOOLEAN
  /\ intake \in {<< >>, <<"DoJob">>, <<"Shutdown">>}
  /\ resp \in {<< >>, <<"JobDone">>, <<"Stopped">>}
  /\ processor \in {"recv", "prune", "send_done", "drop", "gone"}
DataOK ==
  /\ todo \subseteq Scores /\ cur \in 0 .. MaxDaa /\ step \in 0 .. 2
  /\ virtual_daa \in 0 .. MaxDaa /\ writing \in 0 .. MaxDaa
  /\ headers \subseteq Scores /\ daa_index \subseteq Scores
  /\ accepting \subseteq Scores /\ torn \subseteq Scores
  /\ restarts \in 0 .. MaxRestarts

IInv == TypeOK /\ Handshake /\ Pruning /\ TablesAgree

LEMMA InitIInv == Init => IInv
<1> SUFFICES ASSUME Init PROVE IInv
  OBVIOUS
<1>1. TypeOK
  <2>1. ControlOK
    BY DEF Init, ControlOK
  <2>2. DataOK
    BY MaintenanceAssumption DEF Init, DataOK
  <2> QED
    BY <2>1, <2>2 DEF TypeOK, ControlOK, DataOK
<1>2. Handshake
  BY DEF Init, Handshake, BetweenJobs, Ended
<1>3. Pruning /\ TablesAgree
  BY DEF Init, Pruning, TablesAgree
<1> QED
  BY <1>1, <1>2, <1>3 DEF IInv

\* Every step keeps the types; the block that an interruption may leave torn is a block.
LEMMA NextTypeOK == IInv /\ [Next]_vars => TypeOK'
<1> SUFFICES ASSUME IInv, [Next]_vars PROVE TypeOK'
  OBVIOUS
<1> USE MaintenanceAssumption DEF TypeOK, IInv, Scores, channels, pruning, tables
<1>1. CASE TickerStep
  <2>1. CASE TakeShutdown
    BY <2>1 DEF TakeShutdown
  <2>2. CASE SendShutdown
    BY <2>2 DEF SendShutdown
  <2>3. CASE AwaitStopped
    BY <2>3 DEF AwaitStopped
  <2>4. CASE SendJob
    BY <2>4 DEF SendJob
  <2>5. CASE TakeResponse
    BY <2>5 DEF TakeResponse
  <2> QED
    BY <1>1, <2>1, <2>2, <2>3, <2>4, <2>5 DEF TickerStep
<1>2. CASE Tick
  BY <1>2 DEF Tick
<1>3. CASE ProcessorStep
  <2>1. CASE ReceiveJob
    BY <2>1 DEF ReceiveJob
  <2>2. CASE PruneNext
    BY <2>2 DEF PruneNext
  <2>3. CASE PruneDelete
    <3>1. ControlOK'
      BY <2>3 DEF PruneDelete, ControlOK
    <3>2. /\ headers' \subseteq Scores /\ daa_index' \subseteq Scores
          /\ accepting' \subseteq Scores
      BY <2>3 DEF PruneDelete
    <3>3. cur' \in 0 .. MaxDaa /\ step' \in 0 .. 2
      BY <2>3 DEF PruneDelete
    <3> QED
      BY <2>3, <3>1, <3>2, <3>3 DEF PruneDelete, ControlOK
  <2>4. CASE PruneEnd
    BY <2>4 DEF PruneEnd
  <2>5. CASE SendJobDone
    BY <2>5 DEF SendJobDone
  <2>6. CASE ReceiveShutdown
    BY <2>6 DEF ReceiveShutdown
  <2>7. CASE DropProcessor
    BY <2>7 DEF DropProcessor
  <2> QED
    BY <1>3, <2>1, <2>2, <2>3, <2>4, <2>5, <2>6, <2>7 DEF ProcessorStep, JobStep
<1>4. CASE JobFails
  BY <1>4 DEF JobFails, CutPrune, Pruning
<1>5. CASE BlockStep
  <2>1. CASE WriteIndex
    BY <2>1 DEF WriteIndex
  <2>2. ASSUME NEW d \in Scores, WriteHeader(d) PROVE TypeOK'
    BY <2>2 DEF WriteHeader
  <2>3. ASSUME NEW d \in Scores, AcceptBlock(d) PROVE TypeOK'
    BY <2>3 DEF AcceptBlock
  <2> QED
    BY <1>5, <2>1, <2>2, <2>3 DEF BlockStep
<1>6. CASE AdvanceDaa
  BY <1>6 DEF AdvanceDaa
<1>7. CASE Signal
  BY <1>7 DEF Signal
<1>8. CASE Restart
  <2>1. ControlOK'
    BY <1>8 DEF Restart, ControlOK
  <2>2. DataOK'
    BY <1>8 DEF Restart, CutPrune, Pruning, DataOK
  <2> QED
    BY <2>1, <2>2 DEF ControlOK, DataOK
<1>9. CASE Terminated \/ UNCHANGED vars
  BY <1>9, ZenonT(30) DEF Terminated, vars
<1> QED
  BY <1>1, <1>2, <1>3, <1>4, <1>5, <1>6, <1>7, <1>8, <1>9 DEF Next

\* Ticker and processor keep to their protocol.  Steps that touch neither of them, nor
\* a channel, are one case.
LEMMA NextHandshake == IInv /\ [Next]_vars => Handshake'
<1> SUFFICES ASSUME IInv, [Next]_vars PROVE Handshake'
  OBVIOUS
<1> USE DEF Handshake, BetweenJobs, DuringJob, WhileStopping, Ended
<1>t. ControlOK /\ Handshake
  BY DEF IInv, TypeOK, ControlOK
<1>1. CASE TickerStep
  <2>1. CASE TakeShutdown
    BY <1>t, <2>1 DEF TakeShutdown, ControlOK, channels
  <2>2. CASE SendShutdown
    BY <1>t, <2>2 DEF SendShutdown, ControlOK
  <2>3. CASE AwaitStopped
    BY <1>t, <2>3 DEF AwaitStopped, ControlOK
  <2>4. CASE SendJob
    BY <1>t, <2>4 DEF SendJob, ControlOK
  <2>5. CASE TakeResponse
    BY <1>t, <2>5 DEF TakeResponse, ControlOK
  <2> QED
    BY <1>1, <2>1, <2>2, <2>3, <2>4, <2>5 DEF TickerStep
<1>2. CASE Tick
  BY <1>t, <1>2 DEF Tick, ControlOK, channels
<1>3. CASE ProcessorStep
  <2>1. CASE ReceiveJob
    BY <1>t, <2>1 DEF ReceiveJob, ControlOK
  <2>2. CASE PruneNext \/ PruneDelete
    BY <1>t, <2>2 DEF PruneNext, PruneDelete, ControlOK, channels
  <2>3. CASE PruneEnd
    BY <1>t, <2>3 DEF PruneEnd, ControlOK, channels
  <2>4. CASE SendJobDone
    BY <1>t, <2>4 DEF SendJobDone, ControlOK
  <2>5. CASE ReceiveShutdown
    BY <1>t, <2>5 DEF ReceiveShutdown, ControlOK
  <2>6. CASE DropProcessor
    BY <1>t, <2>6 DEF DropProcessor, ControlOK
  <2> QED
    BY <1>3, <2>1, <2>2, <2>3, <2>4, <2>5, <2>6 DEF ProcessorStep, JobStep
<1>4. CASE JobFails
  BY <1>t, <1>4 DEF JobFails, ControlOK, channels
<1>5. CASE BlockStep \/ AdvanceDaa \/ Signal
  <2>1. UNCHANGED <<ticker, need_to_send, channels, processor>>
    BY <1>5 DEF BlockStep, WriteIndex, WriteHeader, AcceptBlock, AdvanceDaa, Signal
  <2> QED
    BY <1>t, <2>1 DEF channels
<1>6. CASE Restart
  BY <1>6 DEF Restart
<1>7. CASE Terminated \/ UNCHANGED vars
  BY <1>t, <1>7 DEF Terminated, vars, channels
<1> QED
  BY <1>1, <1>2, <1>3, <1>4, <1>5, <1>6, <1>7 DEF Next

\* The tables stay in step: each action that writes one of them, or moves prune on.
LEMMA NextTables == IInv /\ [Next]_vars => Pruning' /\ TablesAgree'
<1> SUFFICES ASSUME IInv, [Next]_vars PROVE Pruning' /\ TablesAgree'
  OBVIOUS
<1> USE DEF Pruning, TablesAgree
<1>t. DataOK /\ Pruning /\ TablesAgree
  BY DEF IInv, TypeOK, DataOK
<1>1. CASE TickerStep \/ Tick \/ AdvanceDaa \/ Signal \/ Terminated \/ UNCHANGED vars
  <2>1. UNCHANGED <<processor, pruning, tables>>
    BY <1>1 DEF TickerStep, TakeShutdown, SendShutdown, AwaitStopped, SendJob, TakeResponse, Tick,
                AdvanceDaa, Signal, Terminated, vars
  <2> QED
    BY <1>t, <2>1 DEF pruning, tables
<1>2. CASE ProcessorStep
  <2>1. CASE ReceiveJob
    BY <1>t, <2>1 DEF ReceiveJob, DataOK, Scores, tables
  <2>2. CASE PruneNext
    BY <1>t, <2>2 DEF PruneNext, DataOK, Scores, tables
  <2>3. CASE PruneDelete
    <3>1. CASE step = 0
      BY <1>t, <2>3, <3>1 DEF PruneDelete
    <3>2. CASE step = 1
      BY <1>t, <2>3, <3>2 DEF PruneDelete
    <3>3. CASE step = 2
      <4>1. /\ step' = 0 /\ cur' = 0 /\ accepting' = accepting \ {cur}
            /\ UNCHANGED <<headers, daa_index, todo, torn, writing>>
        BY <2>3, <3>3 DEF PruneDelete
      <4>2. 0 \notin todo
        BY <1>t DEF DataOK, Scores
      <4> QED
        BY <1>t, <4>1, <4>2
    <3> QED
      BY <2>3, <3>1, <3>2, <3>3 DEF PruneDelete
  <2>4. CASE PruneEnd \/ SendJobDone \/ ReceiveShutdown \/ DropProcessor
    BY <1>t, <2>4 DEF PruneEnd, SendJobDone, ReceiveShutdown, DropProcessor, pruning, tables
  <2> QED
    BY <1>2, <2>1, <2>2, <2>3, <2>4 DEF ProcessorStep, JobStep
<1>3. CASE JobFails
  BY <1>t, <1>3 DEF JobFails, CutPrune, DataOK, Scores
<1>4. CASE BlockStep
  <2>1. CASE WriteIndex
    BY <1>t, <2>1 DEF WriteIndex, pruning
  <2>2. ASSUME NEW d \in Scores, WriteHeader(d) PROVE Pruning' /\ TablesAgree'
    BY <1>t, <2>2 DEF WriteHeader, DataOK, Scores, pruning
  <2>3. ASSUME NEW d \in Scores, AcceptBlock(d) PROVE Pruning' /\ TablesAgree'
    BY <1>t, <2>3 DEF AcceptBlock, pruning
  <2> QED
    BY <1>4, <2>1, <2>2, <2>3 DEF BlockStep
<1>5. CASE Restart
  BY <1>t, <1>5 DEF Restart, CutPrune, DataOK, Scores
<1> QED
  BY <1>1, <1>2, <1>3, <1>4, <1>5 DEF Next

LEMMA IInvHolds == Spec => []IInv
<1>1. IInv /\ [Next]_vars => IInv'
  BY NextTypeOK, NextHandshake, NextTables DEF IInv
<1> QED
  BY InitIInv, <1>1, PTL DEF Spec

\* Every variable keeps its type, for all constants (PeriodicMaintenance!TypeOK).
THEOREM TypeCorrect == Spec => []TypeOK
<1>1. IInv => TypeOK
  BY DEF IInv
<1> QED
  BY IInvHolds, <1>1, PTL

\* At most one job is in flight and no send on the one-slot channels between ticker.rs
\* and periodic_processor.rs ever waits for a job.
THEOREM OneJobAtATime == Spec => []SingleJob
<1>1. ASSUME IInv PROVE SingleJob
  <2> USE DEF BetweenJobs, DuringJob, WhileStopping
  <2>1. CASE ticker \in {"select", "send_job", "send_shutdown"}
    BY <1>1, <2>1 DEF IInv, Handshake, SingleJob, JobsInFlight, Ended
  <2>2. CASE ticker = "await_stopped"
    BY <1>1, <2>2 DEF IInv, Handshake, SingleJob, JobsInFlight, Ended
  <2>3. CASE Ended
    BY <1>1, <2>3 DEF IInv, Handshake, SingleJob, JobsInFlight, Ended
  <2> QED
    BY <1>1, <2>1, <2>2, <2>3 DEF IInv, TypeOK, Ended
<1> QED
  BY IInvHolds, <1>1, PTL

\* The ticker returns or bails only after it has taken the processor's Stopped.
THEOREM TickerLeavesLast == Spec => []TickerOutlivesProcessor
<1>1. IInv => TickerOutlivesProcessor
  BY DEF IInv, Handshake, TickerOutlivesProcessor
<1> QED
  BY IInvHolds, <1>1, PTL

\* Through crashes, storage errors and blocks stored or accepted during a prune, what
\* prune can no longer find is limited to blocks whose own update was cut in two
\* (PeriodicProcessor::prune against BlockProcessor::handle_block).
THEOREM NothingElseIsLeftBehind == Spec => []TablesAgree
<1>1. IInv => TablesAgree
  BY DEF IInv
<1> QED
  BY IInvHolds, <1>1, PTL
=============================================================================
