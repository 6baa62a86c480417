---------------------------- MODULE Supervisor ----------------------------
(***************************************************************************)
(* How the actors of the indexer wait for each other and come to an end:   *)
(* main's select and joins (indexer/src/main.rs), the data source's loop   *)
(* with its parked requests and the Mark...Closed commands                 *)
(* (indexer-actors/src/data_source.rs), and the two processors, a gap      *)
(* filler and a virtual chain syncer reduced to what they receive from and *)
(* send into bounded channels.  What the processors store is the subject   *)
(* of BlockProcessor, VirtualChain and MessageIndex.                       *)
(*                                                                         *)
(* A handler that sends leaves its sends in todo: a sequence of sets, the  *)
(* sends of one set being polled together.  An actor with something to do  *)
(* receives nothing: that is what a blocking send means.                   *)
(***************************************************************************)
EXTENDS Naturals, FiniteSets, SequencesExt

CONSTANTS
    Cap,           \* slots of each bounded channel
    SenderSeq,     \* sender requests the virtual chain processor can make
    Scenarios      \* what the environment may do in one run: how often the node
                   \* accepts (links) and loses (drops) a connection, its
                   \* notifications (notes), the gaps found (gaps) and their
                   \* batches (batches), the syncer's further batches (more), how
                   \* many senders are asked for at once (asks), termination
                   \* signals (signals), and how often bp, vcp, api or pp ends by
                   \* itself

Actors == {"ds", "bp", "vcp", "filler", "syncer"}
Channels == {"block", "vcc", "header", "sync", "gap", "ack", "cmd"}
Tasks == {"api", "ticker", "pp", "worker"}
Senders == ToSet(SenderSeq)
Requests == Senders \cup {"blocks", "chain"}

ASSUME SupervisorAssumption ==
    /\ Cap \in [Channels -> Nat \ {0}]
    /\ Scenarios \subseteq [{"links", "drops", "notes", "gaps", "batches", "more", "asks",
                             "signals", "bp", "vcp", "api", "pp"} -> Nat]

VARIABLES
    main,          \* what main waits for
    told,          \* tasks whose shutdown channel holds a signal
    task,          \* API, ticker, periodic processor and push worker
    actor,         \* where each actor is
    todo,          \* sends of the handler an actor is in
    chan,          \* contents of the channels
    ds,            \* fields of DataSource
    parked,        \* requests_queue
    link,          \* the node is reachable
    bp,            \* fields of BlockProcessor
    vcp,           \* fields of VirtualProcessor
    open,          \* requests without an outcome yet
    left           \* what the environment may still do

mainVars == <<main, told, task>>
dsVars == <<ds, parked, open>>
vars == <<main, told, task, actor, todo, chan, ds, parked, link, bp, vcp, open, left>>

\* The actor that reads a channel.
Receiver ==
    [c \in Channels |->
        CASE c \in {"block", "gap"} -> "bp"
          [] c \in {"vcc", "header", "sync"} -> "vcp"
          [] c = "ack" -> "syncer"
          [] c = "cmd" -> "ds"]

\* A channel closes when its receiver is dropped.  Main keeps a clone of the
\* receiver of the block channel.
Open(c) == c = "block" \/ actor[Receiver[c]] \notin {"none", "ended"}
Room(c) == Len(chan[c]) < Cap[c]

To(c, m) == [to |-> c, msg |-> m, must |-> FALSE]
MustTo(c, m) == [to |-> c, msg |-> m, must |-> TRUE]

Idle(a) == actor[a] = "up" /\ todo[a] = <<>>
Spend(what) == left[what] > 0 /\ left' = [left EXCEPT ![what] = @ - 1]

\* The end of a processor's process(): Drop announces it.
Marked(a) == << {To("cmd", IF a = "bp" THEN "MarkBlockSenderClosed" ELSE "MarkVccSenderClosed")} >>

Init ==
    /\ main = "select" /\ told = {}
    /\ task = [t \in Tasks |-> "up"]
    /\ actor = [a \in Actors |-> IF a \in {"filler", "syncer"} THEN "none" ELSE "up"]
    /\ todo = [a \in Actors |-> <<>>]
    /\ chan = [c \in Channels |-> <<>>]
    /\ ds = [connected |-> FALSE, shutting_down |-> FALSE,
             block_sender_closed |-> FALSE, vcc_sender_closed |-> FALSE]
    /\ parked = <<>> /\ link = FALSE /\ open = {}
    /\ bp = [is_shutdown |-> FALSE, filling |-> 0, interrupted |-> FALSE]
    /\ vcp = [sync |-> "initial", shutting_down |-> FALSE, queued |-> FALSE]
    /\ left \in Scenarios
-----------------------------------------------------------------------------
(* Sends                                                                   *)

\* What is left to do when one send of the first set is done.
Without(s, q) == IF Head(q) = {s} THEN Tail(q) ELSE <<Head(q) \ {s}>> \o Tail(q)

\* A message of the handler an actor is in goes into its channel.
Send(a) ==
    /\ todo[a] # <<>>
    /\ \E s \in Head(todo[a]) :
        /\ Open(s.to) /\ Room(s.to)
        /\ chan' = [chan EXCEPT ![s.to] = Append(@, s.msg)]
        /\ todo' = [todo EXCEPT ![a] = Without(s, @)]
        /\ open' = open \cup ({s.msg} \cap Requests)
    /\ UNCHANGED <<mainVars, actor, ds, parked, link, bp, vcp, left>>

\* An error of a send that its handler passes on: the connection attempt is
\* given up and repeated later, the data source's shutdown ends the data
\* source, a filler ends without a word, a syncer and the virtual chain
\* processor end through their Drop.
SendError(a, s) ==
    LET closes == [todo EXCEPT ![a] = IF a = "vcp" THEN Marked(a) ELSE <<{To("sync", "stopped")}>>]
    IN  \/ /\ a = "ds" /\ s.msg = "connected"
           /\ ds' = [ds EXCEPT !.connected = FALSE] /\ link' = FALSE
           /\ parked' = [i \in DOMAIN Tail(todo[a]) |-> CHOOSE m \in Requests : MustTo("cmd", m) \in Tail(todo[a])[i]]
           /\ todo' = [todo EXCEPT ![a] = <<>>]
           /\ UNCHANGED actor
        \/ /\ a = "ds" /\ s.msg # "connected"
           /\ actor' = [actor EXCEPT ![a] = "ended"]
           /\ todo' = [todo EXCEPT ![a] = <<>>]
           /\ UNCHANGED <<ds, link, parked>>
        \/ /\ a = "filler"
           /\ actor' = [actor EXCEPT ![a] = "none"]
           /\ todo' = [todo EXCEPT ![a] = <<>>]
           /\ UNCHANGED <<ds, link, parked>>
        \/ /\ a \in {"syncer", "vcp"}
           /\ actor' = [actor EXCEPT ![a] = "closing"]
           /\ todo' = closes
           /\ UNCHANGED <<ds, link, parked>>

\* The receiver is gone.  Sends that are polled together are all awaited
\* before the error counts.
SendFails(a) ==
    /\ todo[a] # <<>>
    /\ \E s \in Head(todo[a]) :
        /\ ~Open(s.to)
        /\ s.must => Head(todo[a]) = {s}
        /\ IF s.must THEN SendError(a, s)
           ELSE /\ todo' = [todo EXCEPT ![a] = Without(s, @)]
                /\ UNCHANGED <<actor, ds, link, parked>>
    /\ UNCHANGED <<mainVars, chan, open, bp, vcp, left>>

\* The actor's fields are dropped, its receivers with them.  A later filler
\* finds a fresh interrupt channel.
Leave(a) ==
    /\ actor[a] = "closing" /\ todo[a] = <<>>
    /\ actor' = [actor EXCEPT ![a] = IF a = "filler" THEN "none" ELSE "ended"]
    /\ chan' = [c \in Channels |-> IF Receiver[c] = a /\ c # "block" THEN <<>> ELSE chan[c]]
    /\ UNCHANGED <<mainVars, todo, dsVars, link, bp, vcp, left>>
-----------------------------------------------------------------------------
(* The data source                                                         *)

\* An outcome for a request.  A sender's address goes to the virtual chain
\* processor; a refused or failed sender request is only logged.  A syncer
\* that has stopped no longer listens.
Outcome(r, how) ==
    /\ open' = open \ {r}
    /\ CASE r = "blocks" ->
              /\ actor' = [actor EXCEPT !["filler"] = IF how \in {"last", "error"} THEN "closing" ELSE "up"]
              /\ todo' = [todo EXCEPT !["filler"] =
                            CASE how = "ok" -> <<{MustTo("gap", "update")}>>
                              [] how \in {"last", "error"} -> <<{To("gap", "ended")}>>
                              [] how = "refused" -> <<>>]
         [] r = "chain" /\ actor["syncer"] = "waiting" ->
              /\ actor' = [actor EXCEPT !["syncer"] = IF how = "ok" THEN "up" ELSE "closing"]
              /\ todo' = [todo EXCEPT !["syncer"] =
                            IF how = "ok" THEN <<{MustTo("sync", "batch")}>> ELSE <<{To("sync", "stopped")}>>]
         [] r \in Senders /\ how = "ok" ->
              /\ todo' = [todo EXCEPT !["ds"] = <<{To("vcc", "sender")}>>]
              /\ UNCHANGED actor
         [] OTHER -> UNCHANGED <<actor, todo>>

Park(r) ==
    /\ parked' = Append(parked, r)
    /\ UNCHANGED <<actor, todo, open, left>>

\* Mutant: a request that the connection was lost under is not put back.
MutParkFirst(r) == UNCHANGED <<actor, todo, open, parked, left>>

ParkFirst(r) ==
    /\ parked' = <<r>> \o parked
    /\ UNCHANGED <<actor, todo, open, left>>

\* handle_command of a Request.
HandleRequest(r) ==
    \/ /\ ds.shutting_down
       /\ Outcome(r, "refused") /\ UNCHANGED <<parked, left>>
    \/ /\ ~ds.shutting_down /\ ~ds.connected
       /\ Park(r)
    \/ /\ ~ds.shutting_down /\ ds.connected /\ ~link
       /\ ParkFirst(r)
    \/ /\ ~ds.shutting_down /\ ds.connected /\ link
       /\ \/ r # "blocks" /\ Outcome(r, "ok") /\ UNCHANGED left
          \/ r = "blocks" /\ Spend("batches") /\ Outcome(r, "ok")
          \/ r = "blocks" /\ Outcome(r, "last") /\ UNCHANGED left
          \/ Outcome(r, "error") /\ UNCHANGED left
       /\ UNCHANGED parked

\* Mutant: the other processor is not told that this one has closed.
MutHandleMark(m) ==
    LET block == m = "MarkBlockSenderClosed"
        closed == IF block THEN [ds EXCEPT !.block_sender_closed = TRUE]
                  ELSE [ds EXCEPT !.vcc_sender_closed = TRUE]
        both == closed.block_sender_closed /\ closed.vcc_sender_closed
    IN  /\ ds' = closed
        /\ actor' = IF both THEN [actor EXCEPT !["ds"] = "ended"] ELSE actor
        /\ UNCHANGED <<todo, parked, open, left>>

\* handle_command of MarkBlockSenderClosed and MarkVccSenderClosed: the other
\* processor is told to shut down (again), or both are closed and the task ends.
HandleMark(m) ==
    LET block == m = "MarkBlockSenderClosed"
        closed == IF block THEN [ds EXCEPT !.block_sender_closed = TRUE]
                  ELSE [ds EXCEPT !.vcc_sender_closed = TRUE]
        both == closed.block_sender_closed /\ closed.vcc_sender_closed
    IN  /\ ds' = closed
        /\ actor' = IF both THEN [actor EXCEPT !["ds"] = "ended"] ELSE actor
        /\ todo' = IF both THEN todo
                   ELSE [todo EXCEPT !["ds"] = <<{To(IF block THEN "vcc" ELSE "block", "shutdown")}>>]
        /\ UNCHANGED <<parked, open, left>>

HandleCommand ==
    /\ Idle("ds") /\ chan["cmd"] # <<>>
    /\ chan' = [chan EXCEPT !["cmd"] = Tail(@)]
    /\ LET m == Head(chan["cmd"])
       IN  IF m \in Requests THEN HandleRequest(m) /\ UNCHANGED ds ELSE HandleMark(m)
    /\ UNCHANGED <<mainVars, link, bp, vcp>>

\* The select is biased: commands first, then the shutdown signal, then the
\* connection's state, then notifications.
HandleShutdown ==
    /\ Idle("ds") /\ chan["cmd"] = <<>> /\ "ds" \in told
    /\ told' = told \ {"ds"}
    /\ ds' = [ds EXCEPT !.shutting_down = TRUE]
    /\ todo' = [todo EXCEPT !["ds"] = <<{MustTo("block", "shutdown")}, {MustTo("vcc", "shutdown")}>>]
    /\ link' = FALSE
    /\ UNCHANGED <<main, task, actor, chan, parked, open, bp, vcp, left>>

Quiet == Idle("ds") /\ chan["cmd"] = <<>> /\ "ds" \notin told /\ ~ds.shutting_down

\* Mutant: the parked requests are not sent again.
MutHandleConnect ==
    /\ Quiet /\ link /\ ~ds.connected
    /\ ds' = [ds EXCEPT !.connected = TRUE]
    /\ todo' = [todo EXCEPT !["ds"] = <<{MustTo("block", "connected"), MustTo("vcc", "connected")}>>]
    /\ UNCHANGED <<mainVars, actor, chan, parked, link, bp, vcp, open, left>>

\* handle_connect_impl: both processors are told, then the parked requests go
\* back into the data source's own channel.
HandleConnect ==
    /\ Quiet /\ link /\ ~ds.connected
    /\ ds' = [ds EXCEPT !.connected = TRUE]
    /\ todo' = [todo EXCEPT !["ds"] =
                 <<{MustTo("block", "connected"), MustTo("vcc", "connected")}>>
                   \o [i \in DOMAIN parked |-> {MustTo("cmd", parked[i])}]]
    /\ parked' = <<>>
    /\ UNCHANGED <<mainVars, actor, chan, link, bp, vcp, open, left>>

HandleDisconnect ==
    /\ Quiet /\ ~link /\ ds.connected
    /\ ds' = [ds EXCEPT !.connected = FALSE]
    /\ todo' = [todo EXCEPT !["ds"] = <<{To("block", "disconnected"), To("vcc", "disconnected")}>>]
    /\ UNCHANGED <<mainVars, actor, chan, parked, link, bp, vcp, open, left>>

HandleNotification ==
    /\ Quiet /\ ds.connected /\ link /\ Spend("notes")
    /\ \/ ~ds.block_sender_closed /\ todo' = [todo EXCEPT !["ds"] = <<{To("block", "block")}>>]
       \/ ~ds.vcc_sender_closed /\ todo' = [todo EXCEPT !["ds"] = <<{To("vcc", "change")}>>]
    /\ UNCHANGED <<mainVars, actor, chan, dsVars, link, bp, vcp>>

\* The node comes and goes.
LinkUp ==
    /\ ~link /\ ~ds.connected /\ ~ds.shutting_down /\ Spend("links")
    /\ link' = TRUE
    /\ UNCHANGED <<mainVars, actor, todo, chan, dsVars, bp, vcp>>

LinkDown ==
    /\ link /\ Spend("drops")
    /\ link' = FALSE
    /\ UNCHANGED <<mainVars, actor, todo, chan, dsVars, bp, vcp>>
-----------------------------------------------------------------------------
(* The block processor and its filler                                      *)

\* A processed block's header goes to the virtual chain processor, unless the
\* block processor is shutting down.
Announce == IF bp.is_shutdown THEN <<>> ELSE <<{To("header", "header")}>>

\* The end of a turn of process(): once shut down and without fillers it returns.
EndTurn(sends) ==
    IF bp'.is_shutdown /\ bp'.filling = 0
    THEN actor' = [actor EXCEPT !["bp"] = "closing"] /\ todo' = [todo EXCEPT !["bp"] = sends \o Marked("bp")]
    ELSE UNCHANGED actor /\ todo' = [todo EXCEPT !["bp"] = sends]

BlockNotified ==
    /\ Idle("bp") /\ chan["block"] # <<>>
    /\ chan' = [chan EXCEPT !["block"] = Tail(@)]
    /\ LET m == Head(chan["block"])
       IN  \/ /\ m = "connected" /\ actor["filler"] = "none" /\ bp.filling = 0
              /\ bp' = [bp EXCEPT !.filling = 1, !.interrupted = FALSE]
              /\ actor' = [actor EXCEPT !["filler"] = "up"]
              /\ Spend("gaps") /\ UNCHANGED todo
           \/ /\ m = "connected"
              /\ UNCHANGED <<bp, left>> /\ EndTurn(<<>>)
           \/ /\ m \in {"disconnected", "shutdown"}
              /\ bp' = [bp EXCEPT !.is_shutdown = @ \/ m = "shutdown", !.interrupted = bp.filling > 0]
              /\ UNCHANGED left /\ EndTurn(<<>>)
           \/ /\ m = "block"
              /\ UNCHANGED <<bp, left>> /\ EndTurn(Announce)
    /\ UNCHANGED <<mainVars, dsVars, link, vcp>>

\* A batch, or the end of the filler (with or without a last batch).
GapProgress ==
    /\ Idle("bp") /\ chan["gap"] # <<>>
    /\ chan' = [chan EXCEPT !["gap"] = Tail(@)]
    /\ bp' = IF Head(chan["gap"]) = "ended" THEN [bp EXCEPT !.filling = 0] ELSE bp
    /\ \E sends \in {<<>>, Announce} : EndTurn(sends)
    /\ UNCHANGED <<mainVars, dsVars, link, vcp, left>>

\* The head of the filler's loop: stop when interrupted, or ask for blocks.
FillerTurn ==
    /\ Idle("filler")
    /\ IF bp.interrupted \/ actor["bp"] \in {"closing", "ended"}
       THEN /\ actor' = [actor EXCEPT !["filler"] = "closing"]
            /\ todo' = [todo EXCEPT !["filler"] = <<{To("gap", "ended")}>>]
       ELSE /\ actor' = [actor EXCEPT !["filler"] = "waiting"]
            /\ todo' = [todo EXCEPT !["filler"] = <<{MustTo("cmd", "blocks")}>>]
    /\ UNCHANGED <<mainVars, chan, dsVars, link, bp, vcp, left>>
-----------------------------------------------------------------------------
(* The virtual chain processor and its syncer                              *)

\* The sender requests a handler makes: some that are not under way.
AskSeqs ==
    LET fresh == SelectSeq(SenderSeq, LAMBDA r : r \notin open)
    IN  {[i \in 1..n |-> {MustTo("cmd", fresh[i])}] : n \in 0..(IF Len(fresh) < left.asks THEN Len(fresh) ELSE left.asks)}

VcpDoes(sends) == UNCHANGED actor /\ todo' = [todo EXCEPT !["vcp"] = sends]
VcpReturns ==
    /\ actor' = [actor EXCEPT !["vcp"] = "closing"]
    /\ todo' = [todo EXCEPT !["vcp"] = Marked("vcp")]

\* handle_shutdown.
VcpShutdown ==
    /\ vcp' = [vcp EXCEPT !.shutting_down = TRUE]
    /\ IF vcp.sync = "syncing" THEN VcpDoes(<<{MustTo("ack", "stop")}>>) ELSE VcpReturns

\* The arms for the data source's notifications.  The first connection asks for
\* all pending senders, then starts the syncer.  A chain change is applied when
\* synced, and queued otherwise.
VccNotified ==
    /\ Idle("vcp") /\ chan["vcc"] # <<>>
    /\ chan' = [chan EXCEPT !["vcc"] = Tail(@)]
    /\ LET m == Head(chan["vcc"])
       IN  \/ /\ m = "connected" /\ vcp.sync = "initial"
              /\ vcp' = [vcp EXCEPT !.sync = "starting"]
              /\ \E asks \in AskSeqs : VcpDoes(asks)
           \/ /\ m = "change" /\ vcp.sync = "synced"
              /\ UNCHANGED vcp
              /\ \E asks \in AskSeqs : VcpDoes(asks)
           \/ /\ \/ m \in {"disconnected", "sender"}
                 \/ m = "change" /\ vcp.sync # "synced"
                 \/ m = "connected" /\ vcp.sync # "initial"
              /\ UNCHANGED <<vcp, actor, todo>>
           \/ m = "shutdown" /\ VcpShutdown
    /\ UNCHANGED <<mainVars, dsVars, link, bp, left>>

\* spawn_syncer, at the end of handle_connect.
SpawnSyncer ==
    /\ Idle("vcp") /\ vcp.sync = "starting"
    /\ vcp' = [vcp EXCEPT !.sync = "syncing"]
    /\ actor' = [actor EXCEPT !["syncer"] = "waiting"]
    /\ todo' = [todo EXCEPT !["syncer"] = <<{MustTo("cmd", "chain")}>>]
    /\ UNCHANGED <<mainVars, chan, dsVars, link, bp, left>>

\* A batch whose blocks are known: the target is reached (acknowledged before it
\* is applied) or not (acknowledged after).
ApplyBatch ==
    \E asks \in AskSeqs :
        \/ /\ vcp' = [vcp EXCEPT !.sync = "synced", !.queued = FALSE]
           /\ VcpDoes(<<{MustTo("ack", "stop")}>> \o asks)
           /\ UNCHANGED left
        \/ /\ Spend("more")
           /\ vcp' = [vcp EXCEPT !.queued = FALSE]
           /\ VcpDoes(asks \o <<{MustTo("ack", "continue")}>>)

\* The arms for the syncer's messages.
SyncerNotified ==
    /\ Idle("vcp") /\ vcp.sync \in {"syncing", "synced"} /\ chan["sync"] # <<>>
    /\ chan' = [chan EXCEPT !["sync"] = Tail(@)]
    /\ \/ /\ Head(chan["sync"]) = "batch"
          /\ \/ ApplyBatch
             \/ vcp' = [vcp EXCEPT !.queued = TRUE] /\ UNCHANGED <<actor, todo, left>>
       \/ /\ Head(chan["sync"]) = "stopped"
          /\ UNCHANGED <<vcp, left>>
          /\ IF vcp.sync = "syncing" \/ vcp.shutting_down
             THEN VcpReturns ELSE UNCHANGED <<actor, todo>>
    /\ UNCHANGED <<mainVars, dsVars, link, bp>>

\* handle_processed_block: the queued batch or queued changes may now apply.
HeaderNotified ==
    /\ Idle("vcp") /\ chan["header"] # <<>> /\ vcp.sync # "starting"
    /\ chan' = [chan EXCEPT !["header"] = Tail(@)]
    /\ \/ UNCHANGED <<vcp, actor, todo, left>>
       \/ vcp.sync = "syncing" /\ vcp.queued /\ ApplyBatch
       \/ vcp.sync = "synced" /\ UNCHANGED <<vcp, left>> /\ \E asks \in AskSeqs : VcpDoes(asks)
    /\ UNCHANGED <<mainVars, dsVars, link, bp>>

\* The syncer reads an acknowledgement: between batches, or while it waits for
\* the answer to a request it has sent.
SyncerTurn ==
    /\ actor["syncer"] \in {"up", "waiting"} /\ todo["syncer"] = <<>> /\ chan["ack"] # <<>>
    /\ chan' = [chan EXCEPT !["ack"] = Tail(@)]
    /\ IF Head(chan["ack"]) = "stop"
       THEN /\ actor' = [actor EXCEPT !["syncer"] = "closing"]
            /\ todo' = [todo EXCEPT !["syncer"] = <<{To("sync", "stopped")}>>]
       ELSE /\ actor' = [actor EXCEPT !["syncer"] = "waiting"]
            /\ todo' = [todo EXCEPT !["syncer"] = <<{MustTo("cmd", "chain")}>>]
    /\ UNCHANGED <<mainVars, dsVars, link, bp, vcp, left>>
-----------------------------------------------------------------------------
(* Ends                                                                    *)

\* A processor's process() returns an error (a storage error, for example).
ProcessorFails(a) ==
    /\ Idle(a) /\ Spend(a)
    /\ actor' = [actor EXCEPT ![a] = "closing"]
    /\ todo' = [todo EXCEPT ![a] = Marked(a)]
    /\ UNCHANGED <<mainVars, chan, dsVars, link, bp, vcp>>

TaskFails(t) ==
    /\ task[t] = "up" /\ Spend(t)
    /\ task' = [task EXCEPT ![t] = "ended"]
    /\ UNCHANGED <<main, told, actor, todo, chan, dsVars, link, bp, vcp>>

\* The ticker ends after the periodic processor; the push worker ends when the
\* block processor has dropped the event channel.
TaskEnds(t) ==
    /\ task[t] = "up"
    /\ \/ t = "ticker" /\ task["pp"] = "ended" /\ main = "select"
       \/ t = "worker" /\ actor["bp"] = "ended" /\ main = "worker"
    /\ task' = [task EXCEPT ![t] = "ended"]
    /\ UNCHANGED <<main, told, actor, todo, chan, dsVars, link, bp, vcp, left>>

\* Shutdown::shutdown: the tasks are told, except one that ended by itself.
Shutdown(exclude) == told' = {"api", "ds", "ticker"} \ {exclude}

\* main's select: a signal, or the end of the API, the data source or the ticker.
Select ==
    /\ main = "select" /\ main' = "vcp"
    /\ \/ Shutdown("nobody") /\ Spend("signals")
       \/ task["api"] = "ended" /\ Shutdown("api") /\ UNCHANGED left
       \/ actor["ds"] = "ended" /\ Shutdown("ds") /\ UNCHANGED left
       \/ task["ticker"] = "ended" /\ Shutdown("ticker") /\ UNCHANGED left
    /\ UNCHANGED <<task, actor, todo, chan, dsVars, link, bp, vcp>>

\* main joins the threads in this order, then the push worker.  The periodic
\* processor ends once the ticker is told (PeriodicMaintenance); main does not
\* wait for the API, the ticker and the data source.
Join ==
    /\ \/ main = "vcp" /\ actor["vcp"] = "ended" /\ main' = "bp"
       \/ main = "bp" /\ actor["bp"] = "ended" /\ main' = "pp"
       \/ main = "pp" /\ (task["pp"] = "ended" \/ "ticker" \in told) /\ main' = "worker"
       \/ main = "worker" /\ task["worker"] = "ended" /\ main' = "done"
    /\ UNCHANGED <<told, task, actor, todo, chan, dsVars, link, bp, vcp, left>>

SourceSteps == HandleCommand \/ HandleShutdown \/ HandleConnect \/ HandleDisconnect
BlockSteps == BlockNotified \/ GapProgress
ChainSteps == VccNotified \/ SyncerNotified \/ HeaderNotified \/ SpawnSyncer

Next ==
    /\ main # "done"
    /\ \/ \E a \in Actors : Send(a) \/ SendFails(a) \/ Leave(a)
       \/ SourceSteps \/ HandleNotification \/ LinkUp \/ LinkDown
       \/ BlockSteps \/ FillerTurn \/ ChainSteps \/ SyncerTurn
       \/ \E a \in {"bp", "vcp"} : ProcessorFails(a)
       \/ \E t \in {"api", "pp"} : TaskFails(t)
       \/ \E t \in {"ticker", "worker"} : TaskEnds(t)
       \/ Select \/ Join

\* main's select sees an end; nothing forces a signal.
SelectEnd == Select /\ ({task["api"], task["ticker"], actor["ds"]} \cap {"ended"} # {})

\* Each thread or task goes on when it can.
Steps(a) ==
    \/ Send(a) \/ SendFails(a) \/ Leave(a)
    \/ a = "ds" /\ SourceSteps
    \/ a = "bp" /\ BlockSteps
    \/ a = "vcp" /\ ChainSteps
    \/ a = "filler" /\ FillerTurn
    \/ a = "syncer" /\ SyncerTurn

Spec ==
    /\ Init /\ [][Next]_vars
    /\ \A a \in Actors : WF_vars(Steps(a))
    /\ \A t \in {"ticker", "worker"} : WF_vars(TaskEnds(t))
    /\ WF_vars(SelectEnd \/ Join)
-----------------------------------------------------------------------------
(* Properties                                                              *)

Messages ==
    [block |-> {"connected", "disconnected", "shutdown", "block"},
     vcc |-> {"connected", "disconnected", "shutdown", "change", "sender"},
     header |-> {"header"}, sync |-> {"batch", "stopped"}, gap |-> {"update", "ended"},
     ack |-> {"stop", "continue"},
     cmd |-> Requests \cup {"MarkBlockSenderClosed", "MarkVccSenderClosed"}]

\* Every variable has its type and no channel holds more than its slots.
TypeOK ==
    /\ main \in {"select", "vcp", "bp", "pp", "worker", "done"}
    /\ told \subseteq {"api", "ds", "ticker"}
    /\ task \in [Tasks -> {"up", "ended"}]
    /\ actor \in [Actors -> {"none", "up", "waiting", "closing", "ended"}]
    /\ \A c \in Channels : Len(chan[c]) <= Cap[c] /\ ToSet(chan[c]) \subseteq Messages[c]
    /\ \A a \in Actors : \A i \in DOMAIN todo[a] : \A s \in todo[a][i] : s.msg \in Messages[s.to]
    /\ ToSet(parked) \subseteq Requests /\ open \subseteq Requests
    /\ bp.filling \in 0..1
    /\ vcp.sync \in {"initial", "starting", "syncing", "synced"}

\* The data source's own sends of parked requests.
Draining(r) == {i \in DOMAIN todo["ds"] : r \in {s.msg : s \in todo["ds"][i]}}
Held(r) ==
    Cardinality({i \in DOMAIN chan["cmd"] : chan["cmd"][i] = r})
    + Cardinality({i \in DOMAIN parked : parked[i] = r})
    + Cardinality(Draining(r))

\* A request that has no outcome yet is held in exactly one place, as long as
\* the data source runs: in the command channel, parked, or on its way back from
\* the one to the other (handle_command, handle_connect_impl).
\* (And every variable has its type.)
RequestHeld == TypeOK /\ (actor["ds"] # "ended" => \A r \in open : Held(r) = 1)

\* Whose turn an actor waits for in a blocking send: the receiver of a full
\* channel.  An ended receiver whose channel stays open is never going to read.
Waits ==
    {<<a, b>> \in Actors \X Actors :
        \/ todo[a] # <<>> /\ \E s \in Head(todo[a]) : Open(s.to) /\ ~Room(s.to) /\ Receiver[s.to] = b
        \/ a = b /\ actor[a] = "ended" /\ a = "bp"}

\* Actors that wait for each other in a circle, or for an ended one.
Circle ==
    \E S \in SUBSET Actors :
        /\ \E a \in S : todo[a] # <<>>
        /\ \A a \in S : \E b \in S : <<a, b>> \in Waits

\* The block processor waits for a filler that gets no answer: its request is
\* parked, or the data source is gone.
Unanswered ==
    /\ actor["bp"] = "up" /\ bp.filling = 1
    /\ \/ "blocks" \in ToSet(parked)
       \/ actor["ds"] = "ended"

\* An end has begun: a signal, or an actor that ended by itself.
Ending ==
    \/ main # "select"
    \/ \E a \in {"ds", "bp", "vcp"} : actor[a] = "ended"
    \/ \E t \in {"api", "pp", "ticker"} : task[t] = "ended"

\* Once a signal has come or any actor has ended by itself, the whole process
\* ends (the Mark...Closed commands, main's select, Shutdown and the joins),
\* unless it stays caught for ever in one of two situations: actors blocked on
\* each other's full channels, or a filler nobody answers.
EverythingEnds == (Ending ~> main = "done") \/ <>[](Circle \/ Unanswered)

\* Again and again no request for a sender, for blocks or for the chain is without
\* an outcome: commands come first in the data source's biased select, and a
\* connection takes up what was parked.  Excepted: requests parked while there is no
\* connection or when the shutdown came, and actors blocked on each other.
RequestsDrain ==
    []<>(\/ open \subseteq (IF ds.connected /\ ~ds.shutting_down THEN {} ELSE ToSet(parked))
         \/ actor["ds"] = "ended" \/ Circle \/ main = "done")
=============================================================================
