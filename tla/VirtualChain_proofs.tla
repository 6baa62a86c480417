------------------------ MODULE VirtualChain_proofs ------------------------
(***************************************************************************)
(* Proofs about VirtualChain.  First the inductive invariant, and that     *)
(* every step keeps the types, the sessions, the headers of recorded       *)
(* blocks, the exchange with the syncers and the pending changes; then     *)
(* announcements, positions, the order of messages, the place of the       *)
(* processor and what it has recorded; last the theorems.  The exchange    *)
(* with the syncers respects the assertions of both sides, removals find   *)
(* their headers, and a processor that has worked everything off has       *)
(* recorded exactly the node's chain.                                      *)
(***************************************************************************)
EXTENDS VirtualChain, TLAPS

\* Most steps need no arithmetic: Zenon is tried before the SMT solver.
USE ZenonT(2), SMTT(15)

-----------------------------------------------------------------------------
(* Channels.                                                                *)

\* What is left of a channel after its first message is read.
LEMMA TailOf ==
  ASSUME NEW S, NEW s \in Seq(S), s # << >>
  PROVE  /\ Tail(s) \in Seq(S) /\ Len(Tail(s)) = Len(s) - 1
         /\ DOMAIN Tail(s) = 1 .. Len(s) - 1
         /\ \A k \in 1 .. Len(s) - 1 : Tail(s)[k] = s[k + 1]
         /\ Head(s) = s[1] /\ s[1] \in S /\ Len(s) \in Nat \ {0} /\ DOMAIN s = 1 .. Len(s)
         /\ (Tail(s) = << >> <=> Len(s) = 1)
<1>1. Len(s) \in Nat \ {0} /\ DOMAIN s = 1 .. Len(s) /\ Head(s) = s[1] /\ s[1] \in S
  OBVIOUS
<1>2. Tail(s) \in Seq(S) /\ Len(Tail(s)) = Len(s) - 1 /\ DOMAIN Tail(s) = 1 .. Len(s) - 1
  OBVIOUS
<1>3. \A k \in 1 .. Len(s) - 1 : Tail(s)[k] = s[k + 1]
  OBVIOUS
<1>4. Tail(s) = << >> <=> Len(s) = 1
  <2>1. \A q \in Seq(S) : q = << >> <=> Len(q) = 0
    OBVIOUS
  <2>2. Tail(s) = << >> <=> Len(Tail(s)) = 0
    BY <1>2, <2>1
  <2>3. QED  BY <1>1, <1>2, <2>2
<1>5. QED  BY <1>1, <1>2, <1>3, <1>4

\* A channel after a message is sent on it.
LEMMA AppendOf ==
  ASSUME NEW S, NEW s \in Seq(S), NEW m \in S
  PROVE  /\ Append(s, m) \in Seq(S) /\ Len(Append(s, m)) = Len(s) + 1
         /\ DOMAIN Append(s, m) = 1 .. Len(s) + 1 /\ DOMAIN s = 1 .. Len(s)
         /\ \A k \in 1 .. Len(s) : Append(s, m)[k] = s[k]
         /\ Append(s, m)[Len(s) + 1] = m /\ Append(s, m) # << >> /\ Len(s) \in Nat
         /\ (s = << >> <=> Len(s) = 0)
OBVIOUS

-----------------------------------------------------------------------------
(* The inductive invariant.                                                 *)

\* Every selected chain holds blocks of no more blue work than its end's.
ChainOrdered == \A b \in Blocks : Chain[b] \subseteq 1 .. b

\* The announcements of a connection in a channel, numbered between lo and hi in their order.
Announced(q) == {k \in DOMAIN q : q[k].kind = "Connected"}
Numbers(q, f, lo, hi) ==
  /\ f \in [DOMAIN q -> Nat]
  /\ \A k \in Announced(q) : lo < f[k] /\ f[k] <= hi
  /\ \A k, l \in Announced(q) : k < l => f[k] < f[l]

\* Every syncer belongs to a connection: one was announced for it, and the announcements
\* that are not handled yet belong to later ones.
Handled == IF sync_state = "Initial" THEN 0 ELSE syncer_id + 1
Opened == IF link = "registered" THEN sessions - 1 ELSE sessions
SessionInv ==
  /\ Handled <= Opened
  /\ \E f : Numbers(inbox, f, Handled, Opened)
  /\ \A i \in DOMAIN syncers : i <= syncer_id

\* What is recorded, and what is known, has a stored header.
KnownInv == accepting \subseteq processed_blocks /\ processed_blocks \subseteq headers

Batch(k) == syncer_rx[k].kind = "VirtualChain"
Halted(i) == syncers[i].pc = "ack" /\ syncers[i].ack = "Stop"

\* The batch c, which starts where the processor is, is handled next: its syncer waits.
Unanswered(c) ==
  /\ sync_state = "Syncing" /\ c \in Changes
  /\ c.from = last_accepting_block /\ c.to <= sink
  /\ syncer_id \in DOMAIN syncers =>
       /\ syncers[syncer_id].pc = "ack" /\ syncers[syncer_id].ack # "Continue"
       /\ syncers[syncer_id].from = c.to

\* One batch is in flight at most, from the current syncer, and the syncer asks on from
\* where the processor is; the other syncers have been told to stop.
ExchangeInv ==
  /\ \A i \in DOMAIN syncers : syncers[i].pc = "sent" => syncers[i].ack # "Continue"
  /\ sync_state = "Initial" => DOMAIN syncers = {}
  /\ vcp = "run" =>
     /\ \A i \in DOMAIN syncers : (i # syncer_id \/ sync_state # "Syncing") => Halted(i)
     /\ \A k \in DOMAIN syncer_rx : Batch(k) =>
          /\ Unanswered(syncer_rx[k].change)
          /\ syncer_rx[k].id = syncer_id /\ sync_queue = NoChange
     /\ \A k, l \in DOMAIN syncer_rx : Batch(k) /\ Batch(l) => k = l
     /\ sync_queue # NoChange => Unanswered(sync_queue)
     /\ (/\ sync_state = "Syncing" /\ syncer_id \in DOMAIN syncers
         /\ sync_queue = NoChange /\ \A k \in DOMAIN syncer_rx : ~Batch(k)) =>
          syncers[syncer_id].from = last_accepting_block

\* A notified change is one step of the node, to a block it has reached.
Step(c) == c \in Changes /\ c.to = c.from + 1 /\ c.to <= sink

StepInv ==
  /\ \A k \in DOMAIN rpc : Step(rpc[k])
  /\ \A k \in DOMAIN realtime_queue_vcc : Step(realtime_queue_vcc[k])
  /\ \A k \in DOMAIN inbox : inbox[k].kind = "Notification" => Step(inbox[k].change)

\* Announced sinks do not go back.
AnnounceInv ==
  /\ \A k \in Announced(inbox) :
       /\ inbox[k].sink <= sink
       /\ sync_state = "Syncing" => target_block <= inbox[k].sink
       /\ sync_state = "Initial" => cursor <= inbox[k].sink
  /\ \A k, l \in Announced(inbox) : k <= l => inbox[k].sink <= inbox[l].sink

\* Positions lie behind the sink.
BoundInv ==
  /\ cursor <= sink /\ target_block <= sink /\ last_accepting_block <= cursor
  /\ \A i \in DOMAIN syncers : syncers[i].from <= sink
  /\ link = "registered" => ~stopping
  /\ draining => sync_state = "Synced"

\* No notification comes before the announcement of its connection.
OrderInv ==
  ~late =>
    /\ inbox # << >> /\ inbox[1].kind = "Notification" => sync_state # "Initial"
    /\ \A k \in 1 .. Len(inbox) - 1 : inbox[k + 1].kind = "Notification" =>
         inbox[k].kind \in {"Connected", "Notification"}
    /\ link = "up" /\ inbox = << >> => sync_state # "Initial"
    /\ link = "up" /\ inbox # << >> => inbox[Len(inbox)].kind \in {"Connected", "Notification"}
    /\ vcp # "panicked"

\* The changes of a channel follow one another.
Contiguous(q) == \A k \in 1 .. Len(q) - 1 : q[k + 1].from = q[k].to
\* The block that the next change to be forwarded starts from.
NextFrom == IF rpc = << >> THEN sink ELSE rpc[1].from
\* After the message m, the next change starts from the block x, or before it.
Leads(m, x) ==
  \/ m.kind = "Connected" /\ x <= m.sink
  \/ m.kind = "Notification" /\ x = m.change.to
\* The processor can take up the changes that start from the block x: it is there, or it
\* has recorded a chain past x, or it will have when it is Synced.
At(x) ==
  /\ sync_state # "Initial"
  /\ sync_state = "Syncing" => x <= target_block
  /\ sync_state = "Synced" => x = last_accepting_block \/ (last_accepting_block = cursor /\ x <= cursor)
Expects(x) ==
  IF realtime_queue_vcc = << >> THEN At(x)
  ELSE x = realtime_queue_vcc[Len(realtime_queue_vcc)].to

\* No change of a connection that had ended was handled, and no replay was cut short.
Clean == ~late /\ ~midway

\* The processor takes up its queue where it is, or will be.
QueueInv ==
  Clean =>
    /\ sync_state = "Syncing" => cursor <= target_block
    /\ Contiguous(realtime_queue_vcc)
    /\ realtime_queue_vcc # << >> => At(realtime_queue_vcc[1].from)

\* From there to the sink, through the queue, the channel and the pending notifications of
\* the connection, no change is missing.
PlaceInv ==
  Clean =>
    /\ link # "down" => Contiguous(rpc) /\ (rpc # << >> => rpc[Len(rpc)].to = sink)
    /\ inbox # << >> /\ inbox[1].kind = "Notification" => Expects(inbox[1].change.from)
    /\ inbox # << >> /\ inbox[1].kind = "Connected" => realtime_queue_vcc = << >>
    /\ \A k \in 1 .. Len(inbox) - 1 :
         /\ inbox[k + 1].kind = "Notification" => Leads(inbox[k], inbox[k + 1].change.from)
         /\ inbox[k + 1].kind = "Connected" => inbox[k].kind = "Disconnected"
    /\ link = "up" /\ inbox = << >> => Expects(NextFrom)
    /\ link = "up" /\ inbox # << >> => Leads(inbox[Len(inbox)], NextFrom)
    /\ link # "up" /\ ~stopping /\ inbox = << >> => realtime_queue_vcc = << >>
    /\ link # "up" /\ ~stopping /\ inbox # << >> => inbox[Len(inbox)].kind = "Disconnected"

\* What is recorded is the chain of the processor's place; while older changes are
\* replayed, each block is recorded as in that chain or as in the cursor's.
ChainInv ==
  Clean =>
    /\ sync_state = "Initial" => accepting = Chain[cursor]
    /\ sync_state = "Syncing" => accepting = Chain[last_accepting_block]
    /\ sync_state = "Synced" =>
         /\ Chain[last_accepting_block] \cap Chain[cursor] \subseteq accepting
         /\ accepting \subseteq Chain[last_accepting_block] \cup Chain[cursor]

IInv ==
  /\ ChainOrdered /\ TypeOK /\ SessionInv /\ KnownInv /\ ExchangeInv
  /\ StepInv /\ AnnounceInv /\ BoundInv /\ OrderInv
  /\ QueueInv /\ PlaceInv /\ ChainInv

-----------------------------------------------------------------------------
(* Types.                                                                   *)

\* A response of the node leads to a block at or behind its sink.
LEMMA ResponseType ==
  ASSUME ChainOrdered, sink \in Blocks, NEW from \in Blocks, from <= sink, NEW to \in Responses(from)
  PROVE  to \in Blocks /\ to <= sink
<1>1. Chain[sink] \subseteq 1 .. sink
  BY DEF ChainOrdered
<1>2. QED  BY <1>1, VirtualChainAssumption DEF Responses, Blocks

\* The processor's records keep their types.
LEMMA RecordType ==
  ASSUME ChainOrdered, TypeOK, NEW c \in Changes, Record(c)
  PROVE  accepting' \subseteq Blocks /\ cursor' \in Blocks /\ last_accepting_block' \in Blocks
<1>1. c.from \in Blocks /\ c.to \in Blocks
  BY DEF Changes
<1>2. Chain[c.to] \subseteq Blocks
  BY <1>1, VirtualChainAssumption DEF Blocks, ChainOrdered
<1>3. QED  BY <1>1, <1>2 DEF TypeOK, Record, Added, Removed

SyncersType ==
  /\ DOMAIN syncers \subseteq 0 .. MaxSessions
  /\ syncers = [i \in DOMAIN syncers |-> syncers[i]]
  /\ \A i \in DOMAIN syncers : syncers[i] \in Syncers

\* So do the syncers.
LEMMA AckType ==
  ASSUME SyncersType, NEW a \in {"Continue", "Stop"}, AckSent(a)
  PROVE  SyncersType'
BY DEF SyncersType, AckSent, Syncers

\* The first messages of the channels.
LEMMA HeadType ==
  ASSUME TypeOK
  PROVE  /\ inbox # << >> => /\ Head(inbox) \in VccMessages /\ Tail(inbox) \in Seq(VccMessages)
                             /\ Head(inbox).kind = "Connected" => Head(inbox).sink \in Blocks
                             /\ Head(inbox).kind = "Notification" => Head(inbox).change \in Changes
         /\ syncer_rx # << >> => /\ Head(syncer_rx) \in SyncMessages /\ Tail(syncer_rx) \in Seq(SyncMessages)
                                 /\ Head(syncer_rx).kind = "VirtualChain" => Head(syncer_rx).change \in Changes
         /\ realtime_queue_vcc # << >> =>
              Head(realtime_queue_vcc) \in Changes /\ Tail(realtime_queue_vcc) \in Seq(Changes)
<1>1. /\ inbox \in Seq(VccMessages) /\ syncer_rx \in Seq(SyncMessages)
      /\ realtime_queue_vcc \in Seq(Changes)
  BY Zenon DEF TypeOK
<1>2. /\ inbox # << >> => Head(inbox) \in VccMessages /\ Tail(inbox) \in Seq(VccMessages)
      /\ syncer_rx # << >> =>
           Head(syncer_rx) \in SyncMessages /\ Tail(syncer_rx) \in Seq(SyncMessages)
      /\ realtime_queue_vcc # << >> =>
           Head(realtime_queue_vcc) \in Changes /\ Tail(realtime_queue_vcc) \in Seq(Changes)
  BY <1>1
<1>3. \A m \in VccMessages : /\ m.kind = "Connected" => m.sink \in Blocks
                             /\ m.kind = "Notification" => m.change \in Changes
  BY DEF VccMessages
<1>4. \A m \in SyncMessages : m.kind = "VirtualChain" => m.change \in Changes
  BY DEF SyncMessages
<1>5. QED  BY <1>2, <1>3, <1>4

\* Steps of the node and of the data source keep the types.
LEMMA TypeNode ==
  ASSUME TypeOK, NewSink \/ DataSourceStep
  PROVE  TypeOK'
<1> USE DEF TypeOK, node, db, sync, shared, history
<1>1. CASE NewSink
  <2>1. Change(sink, sink + 1) \in Changes
    BY <1>1 DEF NewSink, Change, Changes
  <2>2. rpc' \in Seq(Changes)
    BY <1>1, <2>1 DEF NewSink
  <2>3. QED  BY <1>1, <2>2, ZenonT(30) DEF NewSink
<1>2. CASE Register
  <2>1. sessions' \in 0 .. MaxSessions
    <3>1. sessions \in 0 .. MaxSessions /\ sessions < MaxSessions /\ sessions' = sessions + 1
      BY <1>2 DEF Register
    <3> HIDE DEF TypeOK
    <3>2. QED  BY <3>1, VirtualChainAssumption
  <2>2. late' \in BOOLEAN
    BY <1>2 DEF Register
  <2>3. QED  BY <1>2, <2>1, <2>2, ZenonT(30) DEF Register
<1>3. CASE Connect
  <2>1. inbox' \in Seq(VccMessages)
    BY <1>3 DEF Connect, VccMessages
  <2>2. QED  BY <1>3, <2>1, ZenonT(30) DEF Connect
<1>4. CASE Disconnect
  <2>1. inbox' \in Seq(VccMessages)
    BY <1>4 DEF Disconnect, VccMessages
  <2>2. QED  BY <1>4, <2>1, ZenonT(30) DEF Disconnect
<1>5. CASE ForwardChange
  <2>1. Head(rpc) \in Changes /\ rpc' \in Seq(Changes)
    BY <1>5 DEF ForwardChange
  <2>2. inbox' \in Seq(VccMessages)
    BY <1>5, <2>1 DEF ForwardChange, VccMessages
  <2>3. QED  BY <1>5, <2>1, <2>2 DEF ForwardChange
<1>6. CASE Shutdown
  <2>1. inbox' \in Seq(VccMessages)
    BY <1>6 DEF Shutdown, VccMessages
  <2>2. QED  BY <1>6, <2>1 DEF Shutdown
<1>7. QED  BY <1>1, <1>2, <1>3, <1>4, <1>5, <1>6 DEF DataSourceStep

\* So do the steps of a syncer.
LEMMA TypeSyncer ==
  ASSUME IInv, NEW i \in DOMAIN syncers, SyncerStep(i)
  PROVE  TypeOK'
<1> USE DEF IInv, TypeOK, node, db, sync, shared, history
<1>1. CASE SyncerAnswered(i)
  <2>1. PICK to \in Responses(syncers[i].from) :
          /\ syncers' = [syncers EXCEPT ![i] = [from |-> to, pc |-> "ack", ack |-> syncers[i].ack]]
          /\ Notify([kind |-> "VirtualChain", id |-> i, change |-> Change(syncers[i].from, to)])
    BY <1>1 DEF SyncerAnswered
  <2>2. syncers[i].from \in Blocks /\ i \in Nat
    BY DEF Syncers
  <2>3. to \in Blocks
    BY <2>2, ResponseType DEF BoundInv
  <2>4. syncer_rx' \in Seq(SyncMessages)
    BY <2>1, <2>2, <2>3 DEF Notify, SyncMessages, Change, Changes
  <2>5. SyncersType'
    BY <2>1, <2>3 DEF SyncersType, Syncers
  <2>6. QED  BY <1>1, <2>4, <2>5 DEF SyncerAnswered, SyncersType
<1>2. CASE SyncerFails(i) \/ SyncerRefused(i) \/ SyncerStops(i)
  <2>1. i \in Nat /\ Ends(i)
    BY <1>2 DEF SyncerFails, SyncerRefused, SyncerStops
  <2>2. syncer_rx' \in Seq(SyncMessages)
    BY <2>1 DEF Ends, Notify, SyncMessages
  <2>3. SyncersType'
    BY <2>1 DEF Ends, SyncersType
  <2>4. QED  BY <1>2, <2>2, <2>3 DEF SyncerFails, SyncerRefused, SyncerStops, SyncersType
<1>3. CASE SyncerContinues(i)
  BY <1>3, ZenonT(30) DEF SyncerContinues, Syncers
<1>4. QED  BY <1>1, <1>2, <1>3 DEF SyncerStep

\* Sending a message keeps the numbers; an announcement takes the next one.
LEMMA NumbersAppend ==
  ASSUME NEW q \in Seq(VccMessages), NEW m \in VccMessages, NEW f, NEW lo \in Nat,
         NEW hi \in Nat, NEW top \in Nat, lo <= hi, hi <= top, Numbers(q, f, lo, hi),
         m.kind = "Connected" => hi < top
  PROVE  \E g : Numbers(Append(q, m), g, lo, top)
<1> DEFINE g == [k \in DOMAIN Append(q, m) |-> IF k <= Len(q) THEN f[k] ELSE top]
<1>1. \A k \in DOMAIN q : k \in 1 .. Len(q) /\ f[k] \in Nat
  BY AppendOf DEF Numbers
<1>2. g \in [DOMAIN Append(q, m) -> Nat]
  BY <1>1, AppendOf
<1>3. \A k \in Announced(Append(q, m)) :
        \/ k \in Announced(q) /\ g[k] = f[k] /\ k <= Len(q)
        \/ k = Len(q) + 1 /\ g[k] = top /\ m.kind = "Connected"
  BY AppendOf DEF Announced
<1>4. \A k \in Announced(q) : k \in 1 .. Len(q) /\ f[k] \in Nat /\ lo < f[k] /\ f[k] <= hi
  BY <1>1 DEF Announced, Numbers
<1>5. \A k, l \in Announced(q) : k < l => f[k] < f[l]
  BY DEF Numbers
<1>6. Len(q) \in Nat
  OBVIOUS
<1>7. QED
  <2> HIDE DEF g
  <2>1. \A k \in Announced(Append(q, m)) : lo < g[k] /\ g[k] <= top
    BY <1>3, <1>4
  <2>2. \A k, l \in Announced(Append(q, m)) : k < l => g[k] < g[l]
    BY <1>3, <1>4, <1>5, <1>6
  <2>3. QED  BY <1>2, <2>1, <2>2 DEF Numbers

\* Reading a message keeps them; an announcement was numbered before the others.
LEMMA NumbersTail ==
  ASSUME NEW q \in Seq(VccMessages), q # << >>, NEW f, NEW lo \in Nat, NEW hi \in Nat,
         Numbers(q, f, lo, hi)
  PROVE  /\ \E g : Numbers(Tail(q), g, lo, hi)
         /\ Head(q).kind = "Connected" => lo < hi /\ \E g : Numbers(Tail(q), g, lo + 1, hi)
<1> DEFINE g == [k \in DOMAIN Tail(q) |-> f[k + 1]]
<1>1. \A k \in DOMAIN Tail(q) : k \in Nat \ {0} /\ k + 1 \in DOMAIN q /\ Tail(q)[k] = q[k + 1]
  BY TailOf
<1>2. \A k \in DOMAIN q : f[k] \in Nat
  BY DEF Numbers
<1>3. g \in [DOMAIN Tail(q) -> Nat]
  BY <1>1, <1>2
<1>4. \A k \in Announced(Tail(q)) : k \in Nat \ {0} /\ k + 1 \in Announced(q) /\ g[k] = f[k + 1]
  BY <1>1 DEF Announced
<1>5. \A k \in Announced(q) : lo < f[k] /\ f[k] <= hi /\ f[k] \in Nat
  BY <1>2 DEF Numbers, Announced
<1>6. \A k, l \in Announced(q) : k < l => f[k] < f[l]
  BY DEF Numbers
<1> HIDE DEF g
<1>7. \A k, l \in Announced(Tail(q)) : k < l => g[k] < g[l]
  BY <1>4, <1>6
<1>8. Numbers(Tail(q), g, lo, hi)
  BY <1>3, <1>4, <1>5, <1>7 DEF Numbers
<1>9. ASSUME Head(q).kind = "Connected"
      PROVE  lo < hi /\ Numbers(Tail(q), g, lo + 1, hi)
  <2>1. 1 \in Announced(q)
    BY <1>9, TailOf DEF Announced
  <2>2. lo < hi
    BY <1>5, <2>1
  <2>3. \A k \in Announced(Tail(q)) : lo + 1 < g[k] /\ g[k] <= hi
    BY <1>4, <1>5, <1>6, <2>1
  <2>4. QED  BY <1>3, <1>7, <2>2, <2>3 DEF Numbers
<1>10. QED  BY <1>8, <1>9

\* There is a session for the syncer that an announcement starts.
LEMMA SpawnRoom ==
  ASSUME TypeOK, SessionInv, Take("Connected")
  PROVE  /\ sync_state = "Initial" => 0 \in 0 .. MaxSessions
         /\ sync_state # "Initial" => syncer_id + 1 \in 0 .. MaxSessions
<1>1. Handled \in Nat /\ Opened \in Nat /\ Opened <= MaxSessions
  <2>1. sessions \in 0 .. MaxSessions /\ syncer_id \in Nat /\ Handled <= Opened
    BY Zenon DEF TypeOK, SessionInv
  <2>2. MaxSessions \in Nat
    BY VirtualChainAssumption, Zenon
  <2>3. QED  BY <2>1, <2>2 DEF Handled, Opened
<1>2. Handled < Opened
  BY <1>1, NumbersTail DEF Take, TypeOK, SessionInv
<1>3. MaxSessions \in Nat /\ syncer_id \in Nat
  BY VirtualChainAssumption, Zenon DEF TypeOK
<1>4. QED  BY <1>1, <1>2, <1>3 DEF Handled

\* A syncer that is started has its type.
LEMMA SpawnType ==
  ASSUME SyncersType, NEW id \in 0 .. MaxSessions, NEW from \in Blocks, NEW target,
         SpawnSyncer(id, from, target)
  PROVE  SyncersType'
BY DEF SyncersType, SpawnSyncer, Syncers

\* The handling of the data source's messages keeps the types.
LEMMA TypeReceive ==
  ASSUME IInv, ReceiveVcc
  PROVE  TypeOK'
<1> USE DEF IInv, TypeOK, node, db, sync, shared, history
<1>1. SyncersType
  BY DEF SyncersType
<1>2. /\ inbox # << >> /\ Tail(inbox) \in Seq(VccMessages) /\ inbox' = Tail(inbox)
      /\ Head(inbox).kind = "Connected" => Head(inbox).sink \in Blocks
      /\ Head(inbox).kind = "Notification" => Head(inbox).change \in Changes
  BY HeadType DEF ReceiveVcc, Take, ConnectInitial, ConnectSyncing, ConnectSynced, Disconnected,
                  ShutdownReceived, HandleRealtimeVcc
<1>3. NoChange \in Changes
  BY VirtualChainAssumption DEF NoChange, Change, Changes, Blocks
<1>4. CASE ConnectInitial
  <2>1. SyncersType'
    BY <1>1, <1>4, SpawnRoom, SpawnType DEF ConnectInitial
  <2>2. QED  BY <1>2, <1>3, <1>4, <2>1, ZenonT(30) DEF ConnectInitial, SpawnSyncer, SyncersType, Take
<1>5. CASE ConnectSyncing
  BY <1>2, <1>5, ZenonT(30) DEF ConnectSyncing, Take
<1>6. CASE ConnectSynced
  <2>1. CASE UNCHANGED <<syncers, sync>>
    BY <1>2, <1>6, <2>1 DEF ConnectSynced, Take
  <2>2. CASE SpawnSyncer(syncer_id + 1, last_accepting_block, Head(inbox).sink)
    <3>1. SyncersType'
      BY <1>1, <1>6, <2>2, SpawnRoom, SpawnType DEF ConnectSynced
    <3>2. /\ sync_state' = "Syncing" /\ syncer_id' \in Nat /\ last_accepting_block' \in Blocks
          /\ target_block' \in Blocks /\ sync_queue' \in Changes
      BY <1>2, <1>3, <1>6, <2>2 DEF ConnectSynced, SpawnSyncer, Take
    <3>3. midway' \in BOOLEAN
      BY <1>6 DEF ConnectSynced
    <3>4. QED  BY <1>2, <1>6, <3>1, <3>2, <3>3, ZenonT(30) DEF ConnectSynced, SyncersType
  <2>3. QED  BY <1>6, <2>1, <2>2 DEF ConnectSynced
<1>7. CASE Disconnected
  BY <1>2, <1>7 DEF Disconnected, Take
<1>8. CASE ShutdownReceived
  <2>1. SyncersType'
    BY <1>1, <1>8, AckType DEF ShutdownReceived, AckFails, SyncersType
  <2>2. QED  BY <1>2, <1>8, <2>1, ZenonT(30) DEF ShutdownReceived, AckFails, SyncersType, Take
<1>9. CASE HandleRealtimeVcc
  <2> DEFINE c == Head(inbox).change
  <2>1. c \in Changes
    BY <1>2, <1>9 DEF HandleRealtimeVcc, Take
  <2>2. /\ realtime_queue_vcc' \in {realtime_queue_vcc, Append(realtime_queue_vcc, c)}
        /\ vcp' \in {vcp, "panicked"}
    BY <1>9 DEF HandleRealtimeVcc
  <2>3. accepting' \subseteq Blocks /\ cursor' \in Blocks /\ last_accepting_block' \in Blocks
    <3>1. CASE UNCHANGED <<accepting, cursor, last_accepting_block>>
      BY <3>1
    <3>2. CASE Record(c)
      <4> HIDE DEF c
      <4> QED  BY <2>1, <3>2, RecordType
    <3>3. QED  BY <1>9, <3>1, <3>2 DEF HandleRealtimeVcc
  <2>4. realtime_queue_vcc' \in Seq(Changes)
    <3> HIDE DEF c
    <3>1. Append(realtime_queue_vcc, c) \in Seq(Changes)
      BY <2>1, AppendOf
    <3>2. QED  BY <2>2, <3>1
  <2>5. QED  BY <1>2, <1>9, <2>2, <2>3, <2>4 DEF HandleRealtimeVcc
<1>10. QED  BY <1>4, <1>5, <1>6, <1>7, <1>8, <1>9 DEF ReceiveVcc

ProcessorType ==
  /\ accepting \subseteq Blocks /\ cursor \in Blocks /\ last_accepting_block \in Blocks
  /\ SyncersType /\ vcp \in {"run", "stopped", "failed", "panicked"}
  /\ sync_state \in {"Initial", "Syncing", "Synced"} /\ sync_queue \in Changes

\* The handling of a batch keeps the types.
LEMMA ApplyType ==
  ASSUME ChainOrdered, TypeOK, NEW c \in Changes, ApplySync(c)
  PROVE  ProcessorType'
<1>1. SyncersType /\ NoChange \in Changes
  <2>1. NoChange \in Changes
    BY VirtualChainAssumption DEF NoChange, Change, Changes, Blocks
  <2>2. QED  BY <2>1 DEF TypeOK, SyncersType
<1>2. SyncersType'
  BY <1>1, AckType DEF ApplySync, AckFails, SyncersType
<1>3. accepting' \subseteq Blocks /\ cursor' \in Blocks /\ last_accepting_block' \in Blocks
  <2>1. CASE Record(c)
    BY <2>1, RecordType
  <2>2. CASE UNCHANGED <<accepting, cursor, last_accepting_block>>
    BY <2>2 DEF TypeOK
  <2>3. QED  BY <2>1, <2>2 DEF ApplySync
<1>4. /\ vcp' \in {vcp, "failed"} /\ sync_state' \in {sync_state, "Synced"}
      /\ sync_queue' = NoChange
  BY DEF ApplySync, AckFails
<1>5. QED  BY <1>1, <1>2, <1>3, <1>4 DEF ProcessorType, TypeOK

\* So does the handling of the syncers' messages, of headers and of queued changes.
LEMMA TypeProcess ==
  ASSUME IInv, ReceiveSyncer \/ DrainQueue \/ (\E b \in Blocks \ {0} : HandleProcessedBlock(b))
  PROVE  TypeOK'
<1> USE DEF IInv, TypeOK, node, db, sync, shared, history
<1>1. SyncersType
  BY DEF SyncersType
<1>2. CASE HandleSyncerVc
  <2> DEFINE c == Head(syncer_rx).change
  <2>1. c \in Changes /\ syncer_rx' \in Seq(SyncMessages)
    BY <1>2, HeadType DEF HandleSyncerVc, TakeSync
  <2>2. ProcessorType'
    <3> HIDE DEF c
    <3>1. CASE c.from = c.to
      <4> USE DEF c
      <4>1. SyncersType'
        BY <1>1, <1>2, <3>1, AckType DEF HandleSyncerVc, AckFails, SyncersType
      <4>2. vcp' \in {vcp, "failed"}
        BY <1>2, <3>1 DEF HandleSyncerVc, AckFails
      <4>3. QED  BY <1>2, <3>1, <4>1, <4>2 DEF HandleSyncerVc, ProcessorType
    <3>2. CASE c.from # c.to /\ ~Known(c, processed_blocks)
      <4>1. UNCHANGED <<syncers, vcp, accepting, cursor, last_accepting_block, sync_state>> /\ sync_queue' = c
        BY <1>2, <3>2 DEF HandleSyncerVc, c
      <4>2. QED  BY <1>1, <2>1, <4>1 DEF ProcessorType, SyncersType
    <3>3. CASE c.from # c.to /\ Known(c, processed_blocks)
      <4>1. ApplySync(c)
        BY <1>2, <3>3 DEF HandleSyncerVc, c
      <4>2. QED  BY <2>1, <4>1, ApplyType
    <3>4. QED  BY <3>1, <3>2, <3>3
  <2>3. QED  BY <1>2, <2>1, <2>2 DEF HandleSyncerVc, ProcessorType, SyncersType
<1>3. CASE HandleSyncerStopped
  BY <1>3, HeadType, ZenonT(30) DEF HandleSyncerStopped, TakeSync
<1>4. CASE DrainQueue
  <2>1. CASE UNCHANGED <<realtime_queue_vcc, accepting, cursor, last_accepting_block>>
    BY <1>4, <2>1, ZenonT(30) DEF DrainQueue
  <2>2. CASE /\ realtime_queue_vcc # << >> /\ Record(Head(realtime_queue_vcc))
             /\ realtime_queue_vcc' = Tail(realtime_queue_vcc) /\ UNCHANGED draining
    <3>1. Head(realtime_queue_vcc) \in Changes /\ realtime_queue_vcc' \in Seq(Changes)
      BY <2>2, HeadType
    <3>2. accepting' \subseteq Blocks /\ cursor' \in Blocks /\ last_accepting_block' \in Blocks
      BY <2>2, <3>1, RecordType
    <3>3. QED  BY <1>4, <2>2, <3>1, <3>2 DEF DrainQueue
  <2>3. QED  BY <1>4, <2>1, <2>2 DEF DrainQueue
<1>5. ASSUME NEW b \in Blocks \ {0}, HandleProcessedBlock(b) PROVE TypeOK'
  <2>1. ProcessorType'
    <3>1. CASE ApplySync(sync_queue)
      BY <3>1, ApplyType
    <3>2. CASE UNCHANGED <<syncers, vcp, accepting, cursor, last_accepting_block, sync_state, sync_queue>>
      BY <1>1, <3>2 DEF ProcessorType, SyncersType
    <3>3. QED  BY <1>5, <3>1, <3>2 DEF HandleProcessedBlock
  <2>2. draining' \in BOOLEAN /\ processed_blocks' \subseteq Blocks /\ headers' \subseteq Blocks
    BY <1>5 DEF HandleProcessedBlock
  <2>3. QED  BY <1>5, <2>1, <2>2 DEF HandleProcessedBlock, ProcessorType, SyncersType
<1>6. QED  BY <1>2, <1>3, <1>4, <1>5 DEF ReceiveSyncer

\* Every step keeps the types.
LEMMA TypeNext ==
  ASSUME IInv, [Next]_vars
  PROVE  TypeOK'
<1>1. CASE Restart
  <2>1. 0 \in Blocks /\ NoChange \in Changes
    BY VirtualChainAssumption DEF NoChange, Change, Changes, Blocks
  <2>2. SyncersType'
    BY <1>1 DEF Restart, NoSyncer, SyncersType
  <2>3. midway' \in BOOLEAN /\ restarts' \in 0 .. MaxRestarts
    BY <1>1, VirtualChainAssumption DEF Restart, IInv, TypeOK
  <2>4. /\ rpc' \in Seq(Changes) /\ inbox' \in Seq(VccMessages) /\ syncer_rx' \in Seq(SyncMessages)
        /\ realtime_queue_vcc' \in Seq(Changes)
    BY <1>1 DEF Restart
  <2>5. QED  BY <1>1, <2>1, <2>2, <2>3, <2>4 DEF Restart, IInv, TypeOK, SyncersType, db
<1>2. CASE Rest \/ UNCHANGED vars
  BY <1>2 DEF Rest, vars, IInv, TypeOK, node, db, sync, shared, history
<1>3. QED
  BY <1>1, <1>2, TypeNode, TypeSyncer, TypeReceive, TypeProcess DEF Next, IInv

-----------------------------------------------------------------------------
(* What the handling of batches does to the processor's place.              *)

ProcessStep == HandleSyncerVc \/ \E b \in Blocks \ {0} : HandleProcessedBlock(b)

\* The batch c is recorded; on the target, or past it, the processor is Synced.
Batched(c) ==
  /\ Unanswered(c) /\ Known(c, processed_blocks') /\ Record(c)
  /\ \/ sync_state' = "Synced" /\ c.to >= target_block
     \/ sync_state' = "Syncing" /\ c.to < target_block

\* Handling a batch records it, or fails and leaves the place as it was.
LEMMA ApplyEffect ==
  ASSUME NEW c \in Changes, target_block \in Blocks, sync_state = "Syncing", ApplySync(c)
  PROVE  \/ UNCHANGED <<accepting, cursor, last_accepting_block, sync_state>>
         \/ /\ Record(c)
            /\ \/ sync_state' = "Synced" /\ c.to >= target_block
               \/ sync_state' = "Syncing" /\ c.to < target_block
<1>1. c.to \in Nat /\ target_block \in Nat
  BY VirtualChainAssumption DEF Changes, Blocks
<1>2. QED  BY <1>1 DEF ApplySync

\* A batch that is read, or has been waiting, is the one the syncer waits for.
LEMMA HeadUnanswered ==
  ASSUME IInv
  PROVE  /\ TakeSync("VirtualChain") =>
              /\ Unanswered(Head(syncer_rx).change) /\ sync_queue = NoChange
              /\ \A k \in DOMAIN Tail(syncer_rx) : Tail(syncer_rx)[k].kind # "VirtualChain"
         /\ Idle /\ sync_queue # NoChange =>
              Unanswered(sync_queue) /\ \A k \in DOMAIN syncer_rx : ~Batch(k)
<1>1. ASSUME TakeSync("VirtualChain")
      PROVE  /\ Unanswered(Head(syncer_rx).change) /\ sync_queue = NoChange
             /\ \A k \in DOMAIN Tail(syncer_rx) : Tail(syncer_rx)[k].kind # "VirtualChain"
  <2>1. syncer_rx \in Seq(SyncMessages) /\ syncer_rx # << >> /\ vcp = "run"
    BY <1>1 DEF TakeSync, Idle, IInv, TypeOK
  <2>2. 1 \in DOMAIN syncer_rx /\ Head(syncer_rx) = syncer_rx[1] /\ Batch(1)
    BY <1>1, <2>1, TailOf DEF TakeSync, Batch
  <2>3. Unanswered(Head(syncer_rx).change) /\ sync_queue = NoChange
    BY <2>1, <2>2 DEF IInv, ExchangeInv
  <2>4. ASSUME NEW k \in DOMAIN Tail(syncer_rx) PROVE Tail(syncer_rx)[k].kind # "VirtualChain"
    <3>1. k + 1 \in DOMAIN syncer_rx /\ Tail(syncer_rx)[k] = syncer_rx[k + 1] /\ k + 1 # 1
      BY <2>1, TailOf
    <3>2. QED  BY <2>1, <2>2, <3>1 DEF IInv, ExchangeInv, Batch
  <2>5. QED  BY <2>3, <2>4
<1>2. QED  BY <1>1 DEF IInv, ExchangeInv, Idle

\* A step of the processor over batches and headers, seen from its place.
LEMMA ProcessEffect ==
  ASSUME IInv, ProcessStep
  PROVE  /\ UNCHANGED <<node, inbox, target_block, syncer_id, realtime_queue_vcc, history>>
         /\ ~draining /\ (draining' => sync_state' = "Synced")
         /\ processed_blocks \subseteq processed_blocks' /\ headers \subseteq headers'
         /\ processed_blocks' \subseteq headers'
         /\ \/ UNCHANGED <<accepting, cursor, last_accepting_block, sync_state>>
            \/ \E c \in Changes : Batched(c)
<1>1. CASE HandleSyncerVc
  <2> DEFINE c == Head(syncer_rx).change
  <2>1. Unanswered(c) /\ UNCHANGED <<processed_blocks, headers>> /\ ~draining /\ UNCHANGED draining
    BY <1>1, HeadUnanswered DEF HandleSyncerVc, TakeSync, Idle, shared
  <2>2. c \in Changes /\ sync_state = "Syncing" /\ target_block \in Blocks
    BY <2>1 DEF Unanswered, IInv, TypeOK
  <2>3. \/ UNCHANGED <<accepting, cursor, last_accepting_block, sync_state>>
        \/ ApplySync(c) /\ Known(c, processed_blocks)
    BY <1>1 DEF HandleSyncerVc
  <2>4. Known(c, processed_blocks) => Known(c, processed_blocks')
    BY <2>1 DEF Known
  <2>5. \/ UNCHANGED <<accepting, cursor, last_accepting_block, sync_state>>
        \/ \E d \in Changes : Batched(d)
    <3> HIDE DEF c
    <3> QED  BY <2>1, <2>2, <2>3, <2>4, ApplyEffect DEF Batched
  <2> HIDE DEF c
  <2>6. UNCHANGED <<node, inbox, target_block, syncer_id, realtime_queue_vcc, history>>
    BY <1>1 DEF HandleSyncerVc, shared
  <2>7. processed_blocks \subseteq headers
    BY Zenon DEF IInv, KnownInv
  <2>8. QED  BY <2>1, <2>5, <2>6, <2>7
<1>2. ASSUME NEW b \in Blocks \ {0}, HandleProcessedBlock(b)
      PROVE  /\ UNCHANGED <<node, inbox, target_block, syncer_id, realtime_queue_vcc, history>>
             /\ ~draining /\ (draining' => sync_state' = "Synced")
             /\ processed_blocks \subseteq processed_blocks' /\ headers \subseteq headers'
             /\ processed_blocks' \subseteq headers'
             /\ \/ UNCHANGED <<accepting, cursor, last_accepting_block, sync_state>>
                \/ \E c \in Changes : Batched(c)
  <2>1. \/ UNCHANGED <<accepting, cursor, last_accepting_block, sync_state>>
        \/ /\ sync_state = "Syncing" /\ sync_queue # NoChange
           /\ Known(sync_queue, processed_blocks') /\ ApplySync(sync_queue)
    BY <1>2 DEF HandleProcessedBlock
  <2>2. /\ ~draining /\ processed_blocks' = processed_blocks \cup {b} /\ headers' = headers \cup {b}
        /\ draining' = (sync_state = "Synced" /\ realtime_queue_vcc # << >>)
        /\ UNCHANGED <<node, inbox, target_block, syncer_id, realtime_queue_vcc, history>>
        /\ sync_queue # NoChange => Unanswered(sync_queue)
    BY <1>2, HeadUnanswered DEF HandleProcessedBlock, Idle
  <2>3. sync_queue \in Changes /\ target_block \in Blocks /\ processed_blocks \subseteq headers
    BY DEF IInv, TypeOK, KnownInv
  <2>4. \/ UNCHANGED <<accepting, cursor, last_accepting_block, sync_state>>
        \/ Batched(sync_queue) /\ sync_state = "Syncing"
    BY <2>1, <2>2, <2>3, ApplyEffect DEF Batched
  <2>5. QED  BY <2>2, <2>3, <2>4
<1>3. QED  BY <1>1, <1>2 DEF ProcessStep

-----------------------------------------------------------------------------
(* Headers of recorded blocks, and sessions.                                *)

\* What is recorded stays within what is known.
LEMMA KnownNext ==
  ASSUME IInv, [Next]_vars
  PROVE  KnownInv'
<1>1. KnownInv
  BY DEF IInv
<1>2. CASE UNCHANGED <<accepting, processed_blocks, headers>>
  BY <1>1, <1>2 DEF KnownInv
<1>3. CASE ProcessStep
  <2>1. CASE UNCHANGED accepting
    BY <1>1, <1>3, <2>1, ProcessEffect DEF KnownInv
  <2>2. ASSUME NEW c \in Changes, Batched(c) PROVE KnownInv'
    BY <1>1, <1>3, <2>2, ProcessEffect DEF KnownInv, Batched, Record, Known
  <2>3. QED  BY <1>3, <2>1, <2>2, ProcessEffect
<1>4. CASE HandleRealtimeVcc
  <2>1. UNCHANGED accepting \/ (Known(Head(inbox).change, processed_blocks) /\ Record(Head(inbox).change))
    BY <1>4 DEF HandleRealtimeVcc
  <2>2. UNCHANGED <<processed_blocks, headers>>
    BY <1>4 DEF HandleRealtimeVcc
  <2>3. QED  BY <1>1, <2>1, <2>2 DEF KnownInv, Known, Record
<1>5. CASE DrainQueue
  <2>1. \/ UNCHANGED accepting
        \/ Known(Head(realtime_queue_vcc), processed_blocks) /\ Record(Head(realtime_queue_vcc))
    BY <1>5 DEF DrainQueue
  <2>2. UNCHANGED <<processed_blocks, headers>>
    BY <1>5 DEF DrainQueue
  <2>3. QED  BY <1>1, <2>1, <2>2 DEF KnownInv, Known, Record
<1>6. CASE Restart
  BY <1>1, <1>6 DEF KnownInv, Restart, db
<1>7. CASE NewSink \/ DataSourceStep \/ Rest \/ UNCHANGED vars
  BY <1>2, <1>7 DEF NewSink, DataSourceStep, Register, Connect, Disconnect, ForwardChange, Shutdown,
                    Rest, vars, db, shared
<1>8. CASE \E i \in DOMAIN syncers : SyncerStep(i)
  BY <1>2, <1>8 DEF SyncerStep, SyncerAnswered, SyncerFails, SyncerRefused, SyncerStops,
                    SyncerContinues, db, shared
<1>9. CASE ConnectInitial \/ ConnectSyncing \/ ConnectSynced \/ Disconnected \/ ShutdownReceived
           \/ HandleSyncerStopped
  BY <1>2, <1>9 DEF ConnectInitial, ConnectSyncing, ConnectSynced, Disconnected, ShutdownReceived,
                    HandleSyncerStopped, db, shared
<1>10. QED
  BY <1>3, <1>4, <1>5, <1>6, <1>7, <1>8, <1>9 DEF Next, ReceiveVcc, ReceiveSyncer, ProcessStep

\* A step that leaves the connections alone.
LEMMA SessionSame ==
  ASSUME SessionInv, UNCHANGED <<inbox, link, sessions, syncer_id>>,
         sync_state' = "Initial" <=> sync_state = "Initial", DOMAIN syncers' \subseteq DOMAIN syncers
  PROVE  SessionInv'
<1>1. UNCHANGED <<Handled, Opened>>
  BY DEF Handled, Opened
<1>2. QED  BY <1>1 DEF SessionInv

\* Every syncer keeps its connection.
LEMMA SessionNext ==
  ASSUME IInv, [Next]_vars
  PROVE  SessionInv'
<1>1. SessionInv /\ sessions \in Nat /\ syncer_id \in Nat /\ inbox \in Seq(VccMessages)
  BY DEF IInv, TypeOK
<1>2. Handled \in Nat /\ Opened \in Nat
  BY <1>1 DEF SessionInv, Handled, Opened
<1>3. CASE ProcessStep
  <2>1. DOMAIN syncers' = DOMAIN syncers
    BY <1>3 DEF ProcessStep, HandleSyncerVc, HandleProcessedBlock, ApplySync, AckSent, AckFails
  <2>2. QED  BY <1>1, <1>3, <2>1, ProcessEffect, SessionSame DEF Batched, Unanswered, node
<1>4. CASE NewSink \/ HandleSyncerStopped \/ DrainQueue \/ Rest \/ UNCHANGED vars
  BY <1>1, <1>4, SessionSame DEF NewSink, HandleSyncerStopped, DrainQueue, Rest, vars, node, sync
<1>5. ASSUME NEW i \in DOMAIN syncers, SyncerStep(i) PROVE SessionInv'
  <2>1. DOMAIN syncers' \subseteq DOMAIN syncers
    BY <1>5 DEF SyncerStep, SyncerAnswered, SyncerFails, SyncerRefused, SyncerStops, SyncerContinues, Ends
  <2>2. QED
    BY <1>1, <1>5, <2>1, SessionSame DEF SyncerStep, SyncerAnswered, SyncerFails, SyncerRefused,
       SyncerStops, SyncerContinues, node, sync
<1>6. CASE Register
  <2>1. UNCHANGED <<inbox, syncers, syncer_id, Handled, Opened>>
    BY <1>1, <1>6 DEF Register, sync, Handled, Opened
  <2>2. QED  BY <1>1, <2>1 DEF SessionInv
<1>7. CASE Connect \/ Disconnect \/ ForwardChange \/ Shutdown
  <2>1. PICK m \in VccMessages :
          /\ inbox' = Append(inbox, m) /\ link' # "registered"
          /\ m.kind = "Connected" => link = "registered"
    <3>1. sink \in Blocks /\ (rpc # << >> => Head(rpc) \in Changes)
      BY DEF IInv, TypeOK
    <3>2. QED  BY <1>7, <3>1 DEF Connect, Disconnect, ForwardChange, Shutdown, VccMessages
  <2>2. UNCHANGED <<sessions, syncer_id, sync_state, syncers>>
    BY <1>7 DEF Connect, Disconnect, ForwardChange, Shutdown, sync
  <2>3. /\ Handled' = Handled /\ Opened' \in Nat /\ Opened <= Opened'
        /\ m.kind = "Connected" => Opened < Opened'
    BY <1>1, <1>2, <2>1, <2>2 DEF Handled, Opened
  <2>4. PICK f : Numbers(inbox, f, Handled, Opened)
    BY <1>1 DEF SessionInv
  <2>5. \E g : Numbers(inbox', g, Handled', Opened')
    BY <1>1, <1>2, <2>1, <2>3, <2>4, NumbersAppend DEF SessionInv
  <2>6. QED  BY <1>1, <1>2, <2>2, <2>3, <2>5 DEF SessionInv
<1>8. CASE ReceiveVcc
  <2>1. inbox # << >> /\ inbox' = Tail(inbox) /\ UNCHANGED Opened
    BY <1>8 DEF ReceiveVcc, Take, ConnectInitial, ConnectSyncing, ConnectSynced, Disconnected,
                ShutdownReceived, HandleRealtimeVcc, node, Opened
  <2>2. PICK f : Numbers(inbox, f, Handled, Opened)
    BY <1>1 DEF SessionInv
  <2>3. CASE UNCHANGED <<syncer_id, sync_state>> /\ DOMAIN syncers' \subseteq DOMAIN syncers
    <3>1. UNCHANGED Handled
      BY <2>3 DEF Handled
    <3>2. \E g : Numbers(inbox', g, Handled, Opened)
      BY <1>1, <1>2, <2>1, <2>2, NumbersTail
    <3>3. QED  BY <1>1, <2>1, <2>3, <3>1, <3>2 DEF SessionInv
  <2>4. ASSUME NEW id, NEW from, NEW target, SpawnSyncer(id, from, target),
               id = IF sync_state = "Initial" THEN 0 ELSE syncer_id + 1,
               Head(inbox).kind = "Connected"
        PROVE  SessionInv'
    <3>1. DOMAIN syncers' = DOMAIN syncers \cup {id} /\ syncer_id' = id /\ sync_state' = "Syncing"
      BY <2>4 DEF SpawnSyncer
    <3>2. Handled' = Handled + 1
      BY <1>1, <2>4, <3>1 DEF Handled
    <3>3. Handled < Opened /\ \E g : Numbers(inbox', g, Handled + 1, Opened)
      BY <1>1, <1>2, <2>1, <2>2, <2>4, NumbersTail
    <3>4. \A i \in DOMAIN syncers : i \in Nat /\ i <= syncer_id
      BY <1>1 DEF IInv, TypeOK, SessionInv
    <3>5. sync_state = "Initial" => DOMAIN syncers = {}
      BY DEF IInv, ExchangeInv
    <3>6. \A i \in DOMAIN syncers' : i <= syncer_id'
      BY <1>1, <2>4, <3>1, <3>4, <3>5
    <3>7. QED  BY <1>2, <2>1, <3>2, <3>3, <3>6 DEF SessionInv
  <2>5. CASE ConnectSyncing \/ Disconnected \/ ShutdownReceived \/ HandleRealtimeVcc
    BY <2>3, <2>5 DEF ConnectSyncing, Disconnected, ShutdownReceived, HandleRealtimeVcc, AckSent, AckFails, sync
  <2>6. CASE ConnectInitial
    BY <2>4, <2>6 DEF ConnectInitial, Take
  <2>7. CASE ConnectSynced
    BY <2>3, <2>4, <2>7 DEF ConnectSynced, Take, sync
  <2>8. QED  BY <1>8, <2>5, <2>6, <2>7 DEF ReceiveVcc
<1>9. CASE Restart
  <2>1. inbox' = << >> /\ DOMAIN syncers' = {} /\ Handled' = 0 /\ Opened' = sessions
    BY <1>9 DEF Restart, NoSyncer, Handled, Opened
  <2>2. Numbers(inbox', [k \in {} |-> 0], Handled', Opened')
    BY <2>1 DEF Numbers, Announced
  <2>3. QED  BY <1>1, <2>1, <2>2 DEF SessionInv
<1>10. QED
  BY <1>3, <1>4, <1>5, <1>6, <1>7, <1>8, <1>9 DEF Next, DataSourceStep, ReceiveSyncer, ProcessStep

-----------------------------------------------------------------------------
(* The exchange with the syncers.                                           *)

exchange == <<syncers, syncer_rx, vcp, sync_state, syncer_id, sync_queue>>

\* A step that leaves the exchange alone, and the processor's place while it is Syncing.
LEMMA ExchangeSame ==
  ASSUME IInv, UNCHANGED exchange, sink' \in Nat, sink <= sink',
         sync_state = "Syncing" => UNCHANGED last_accepting_block
  PROVE  ExchangeInv'
<1>1. sink \in Nat /\ \A c \in Changes : c.to \in Nat
  BY VirtualChainAssumption DEF IInv, TypeOK, Changes, Blocks
<1>2. \A c : Unanswered(c) => Unanswered(c)'
  BY <1>1 DEF Unanswered, exchange
<1>3. QED  BY <1>2 DEF IInv, ExchangeInv, exchange, Batch, Halted

\* A step that ends the processor and leaves its syncers alone.
LEMMA ExchangeOver ==
  ASSUME ExchangeInv, UNCHANGED <<syncers, sync_state>>, vcp' # "run"
  PROVE  ExchangeInv'
BY DEF ExchangeInv

\* Steps of a syncer.
LEMMA ExchangeSyncer ==
  ASSUME IInv, NEW i \in DOMAIN syncers, SyncerStep(i)
  PROVE  ExchangeInv'
<1>1. /\ ExchangeInv /\ syncer_rx \in Seq(SyncMessages) /\ i \in Nat /\ syncers[i] \in Syncers
      /\ syncers = [j \in DOMAIN syncers |-> syncers[j]]
  BY DEF IInv, TypeOK
<1>2. UNCHANGED <<sink, vcp, sync_state, syncer_id, last_accepting_block, sync_queue>>
  BY DEF SyncerStep, SyncerAnswered, SyncerFails, SyncerRefused, SyncerStops, SyncerContinues, node, sync
<1>3. ASSUME vcp = "run", ~Halted(i)
      PROVE  i = syncer_id /\ sync_state = "Syncing"
  BY <1>1, <1>3 DEF ExchangeInv
<1>4. CASE SyncerAnswered(i)
  <2>1. PICK to \in Responses(syncers[i].from) :
          /\ syncers' = [syncers EXCEPT ![i] = [from |-> to, pc |-> "ack", ack |-> syncers[i].ack]]
          /\ syncer_rx' = Append(syncer_rx, [kind |-> "VirtualChain", id |-> i,
                                             change |-> Change(syncers[i].from, to)])
    BY <1>4 DEF SyncerAnswered, Notify
  <2>21. PICK c : c = Change(syncers[i].from, to)
    OBVIOUS
  <2>22. PICK m : m = [kind |-> "VirtualChain", id |-> i, change |-> c]
    OBVIOUS
  <2>2. to \in Blocks /\ to <= sink /\ syncers[i].from \in Blocks
    BY <1>1, ResponseType DEF IInv, TypeOK, BoundInv, Syncers
  <2>3. c \in Changes /\ c.from = syncers[i].from /\ c.to = to /\ m \in SyncMessages
    BY <1>1, <2>21, <2>22, <2>2 DEF Change, Changes, SyncMessages
  <2>4. syncers[i].pc = "sent" /\ syncers[i].ack # "Continue" /\ ~Halted(i)
    BY <1>1, <1>4 DEF SyncerAnswered, ExchangeInv, Halted
  <2>5. /\ DOMAIN syncers' = DOMAIN syncers
        /\ syncers'[i].pc = "ack" /\ syncers'[i].ack = syncers[i].ack /\ syncers'[i].from = to
        /\ \A j \in DOMAIN syncers \ {i} : syncers'[j] = syncers[j]
    BY <1>1, <2>1
  <2>6. CASE vcp # "run"
    BY <1>1, <1>2, <2>4, <2>5, <2>6 DEF ExchangeInv
  <2>7. CASE vcp = "run"
    <3>1. i = syncer_id /\ sync_state = "Syncing"
      BY <1>3, <2>4, <2>7
    <3>2. sync_queue = NoChange /\ \A k \in DOMAIN syncer_rx : ~Batch(k)
      BY <1>1, <2>4, <2>7, <3>1 DEF ExchangeInv, Unanswered
    <3>3. syncers[i].from = last_accepting_block
      BY <1>1, <2>7, <3>1, <3>2 DEF ExchangeInv
    <3>4. Unanswered(c)'
      BY <1>2, <2>2, <2>3, <2>4, <2>5, <3>1, <3>3 DEF Unanswered
    <3>5. /\ \A k \in DOMAIN syncer_rx' : k = Len(syncer_rx) + 1 \/ ~Batch(k)'
          /\ syncer_rx'[Len(syncer_rx) + 1] = m
      <4>1. syncer_rx' = Append(syncer_rx, m)
        BY <2>1, <2>21, <2>22
      <4>2. QED  BY <1>1, <2>3, <3>2, <4>1, AppendOf DEF Batch
    <3>6. m.id = syncer_id /\ m.change = c
      BY <3>1, <2>22
    <3>7. \A k \in DOMAIN syncer_rx' : Batch(k)' =>
             Unanswered(syncer_rx[k].change)' /\ syncer_rx'[k].id = syncer_id' /\ sync_queue' = NoChange
      BY <1>2, <3>2, <3>4, <3>5, <3>6
    <3>8. \A k, l \in DOMAIN syncer_rx' : Batch(k)' /\ Batch(l)' => k = l
      BY <3>5
    <3>9. ~(\A k \in DOMAIN syncer_rx' : ~Batch(k)')
      <4>1. Len(syncer_rx) + 1 \in DOMAIN syncer_rx'
        BY <1>1, <2>1, <2>21, <2>22, <2>3, AppendOf
      <4>2. QED  BY <3>5, <4>1, <2>22 DEF Batch
    <3>10. \A j \in DOMAIN syncers' : (j # syncer_id' \/ sync_state' # "Syncing") => Halted(j)'
      BY <1>1, <1>2, <2>5, <2>7, <3>1, ZenonT(30) DEF ExchangeInv, Halted
    <3>11. \A j \in DOMAIN syncers' : syncers'[j].pc = "sent" => syncers'[j].ack # "Continue"
      BY <1>1, <2>5 DEF ExchangeInv
    <3>12. QED  BY <1>2, <2>5, <3>1, <3>2, <3>7, <3>8, <3>9, <3>10, <3>11 DEF ExchangeInv
  <2>8. QED  BY <2>6, <2>7
<1>5. CASE SyncerFails(i) \/ SyncerRefused(i) \/ SyncerStops(i)
  <2> DEFINE m == [kind |-> "Stopped", id |-> i]
  <2>1. syncers' = [j \in DOMAIN syncers \ {i} |-> syncers[j]] /\ syncer_rx' = Append(syncer_rx, m)
    BY <1>5 DEF SyncerFails, SyncerRefused, SyncerStops, Ends, Notify
  <2>2. m \in SyncMessages /\ m.kind # "VirtualChain"
    BY <1>1 DEF SyncMessages
  <2>3. /\ \A k \in DOMAIN syncer_rx' : Batch(k)' => k \in DOMAIN syncer_rx /\ Batch(k) /\ syncer_rx'[k] = syncer_rx[k]
        /\ \A k \in DOMAIN syncer_rx : k \in DOMAIN syncer_rx' /\ syncer_rx'[k] = syncer_rx[k]
    <3> HIDE DEF m
    <3> QED  BY <1>1, <2>1, <2>2, AppendOf DEF Batch
  <2>4. \A c : Unanswered(c) => Unanswered(c)'
    BY <1>2, <2>1 DEF Unanswered
  <2>5. QED  BY <1>1, <1>2, <2>1, <2>3, <2>4 DEF ExchangeInv, Halted, Batch
<1>6. CASE SyncerContinues(i)
  <2>1. /\ DOMAIN syncers' = DOMAIN syncers /\ UNCHANGED syncer_rx
        /\ syncers'[i].pc = "sent" /\ syncers'[i].ack = "none" /\ syncers'[i].from = syncers[i].from
        /\ \A j \in DOMAIN syncers \ {i} : syncers'[j] = syncers[j]
        /\ syncers[i].ack = "Continue" /\ ~Halted(i)
    BY <1>1, <1>6 DEF SyncerContinues, Halted
  <2>2. CASE vcp # "run"
    BY <1>1, <1>2, <2>1, <2>2 DEF ExchangeInv
  <2>3. CASE vcp = "run"
    <3>1. i = syncer_id /\ sync_state = "Syncing"
      BY <1>3, <2>1, <2>3
    <3>2. sync_queue = NoChange /\ \A k \in DOMAIN syncer_rx : ~Batch(k)
      BY <1>1, <2>1, <2>3, <3>1 DEF ExchangeInv, Unanswered
    <3>3. QED  BY <1>1, <1>2, <2>1, <2>3, <3>1, <3>2 DEF ExchangeInv, Halted, Batch
  <2>4. QED  BY <2>2, <2>3
<1>7. QED  BY <1>4, <1>5, <1>6 DEF SyncerStep

\* A syncer is started while no batch is in flight.
LEMMA ExchangeSpawn ==
  ASSUME IInv, vcp = "run", sync_state # "Syncing", NEW id, NEW from, NEW target,
         SpawnSyncer(id, from, target), UNCHANGED <<syncer_rx, vcp>>
  PROVE  ExchangeInv'
<1>1. ExchangeInv /\ syncers = [j \in DOMAIN syncers |-> syncers[j]]
  BY DEF IInv, TypeOK
<1>2. \A k \in DOMAIN syncer_rx' : ~Batch(k)'
  BY <1>1 DEF ExchangeInv, Unanswered, Batch
<1>3. /\ DOMAIN syncers' = DOMAIN syncers \cup {id}
      /\ \A j \in DOMAIN syncers : j # id => syncers'[j] = syncers[j]
      /\ syncers'[id] = [from |-> from, pc |-> "sent", ack |-> "none"]
      /\ sync_state' = "Syncing" /\ syncer_id' = id /\ last_accepting_block' = from
      /\ sync_queue' = NoChange
  BY DEF SpawnSyncer
<1>4. \A j \in DOMAIN syncers : j # id => Halted(j)'
  BY <1>1, <1>3 DEF ExchangeInv, Halted
<1>5. \A j \in DOMAIN syncers' : syncers'[j].pc = "sent" => syncers'[j].ack # "Continue"
  <2>1. \A j : Halted(j)' => syncers'[j].pc # "sent"
    BY Zenon DEF Halted
  <2>2. syncers'[id].ack = "none"
    BY <1>3
  <2>3. \A j \in DOMAIN syncers' : j = id \/ Halted(j)'
    BY <1>3, <1>4, Zenon
  <2>4. QED  BY <2>1, <2>2, <2>3
<1>6. \A j \in DOMAIN syncers' : (j # syncer_id' \/ sync_state' # "Syncing") => Halted(j)'
  BY <1>3, <1>4
<1>7. syncers'[syncer_id'].from = last_accepting_block' /\ sync_state' # "Initial"
  BY <1>3
<1>8. QED  BY <1>2, <1>3, <1>5, <1>6, <1>7, Zenon DEF ExchangeInv

\* The answer to the batch c leaves nothing in flight.
LEMMA ExchangeAnswer ==
  ASSUME IInv, vcp = "run", NEW c, Unanswered(c), NEW a \in {"Continue", "Stop"}, AckSent(a),
         \A k \in DOMAIN syncer_rx' : ~Batch(k)', sync_queue' = NoChange, UNCHANGED syncer_id,
         \/ a = "Stop" /\ sync_state' = "Synced"
         \/ a = "Continue" /\ sync_state' = "Syncing" /\ last_accepting_block' = c.to
  PROVE  ExchangeInv'
<1>1. ExchangeInv /\ syncers = [j \in DOMAIN syncers |-> syncers[j]] /\ syncer_id \in DOMAIN syncers
  BY DEF IInv, TypeOK, AckSent
<1>2. /\ DOMAIN syncers' = DOMAIN syncers
      /\ \A j \in DOMAIN syncers : j # syncer_id => syncers'[j] = syncers[j]
      /\ syncers'[syncer_id].pc = "ack" /\ syncers'[syncer_id].from = c.to
      /\ a = "Stop" => syncers'[syncer_id].ack = "Stop"
  BY <1>1 DEF AckSent, Unanswered
<1>3. \A j \in DOMAIN syncers : j # syncer_id => Halted(j)'
  BY <1>1, <1>2, ZenonT(30) DEF ExchangeInv, Halted, Unanswered
<1>4. QED  BY <1>1, <1>2, <1>3 DEF ExchangeInv, Halted

\* Handling a batch answers it, or ends the processor.
LEMMA ExchangeApply ==
  ASSUME IInv, vcp = "run", NEW c, Unanswered(c), ApplySync(c), UNCHANGED syncer_id,
         \A k \in DOMAIN syncer_rx' : ~Batch(k)'
  PROVE  ExchangeInv'
<1>1. sync_state = "Syncing" /\ ExchangeInv /\ sync_queue' = NoChange
  BY DEF Unanswered, IInv, ApplySync
<1>2. CASE AckSent("Stop") /\ sync_state' = "Synced"
  BY <1>1, <1>2, ExchangeAnswer, ZenonT(30)
<1>3. CASE AckSent("Continue") /\ Record(c) /\ UNCHANGED sync_state
  BY <1>1, <1>3, ExchangeAnswer DEF Record
<1>4. CASE AckFails /\ UNCHANGED sync_state
  BY <1>1, <1>4, ExchangeOver DEF AckFails
<1>5. QED  BY <1>2, <1>3, <1>4 DEF ApplySync

\* Batches and headers.
LEMMA ExchangeProcess ==
  ASSUME IInv, ProcessStep
  PROVE  ExchangeInv'
<1>1. CASE HandleSyncerVc
  <2>1. PICK c : c = Head(syncer_rx).change
    OBVIOUS
  <2>2. /\ Unanswered(c) /\ sync_queue = NoChange /\ vcp = "run" /\ ExchangeInv
        /\ UNCHANGED <<sink, syncer_id>>
        /\ \A k \in DOMAIN syncer_rx' : ~Batch(k)'
    BY <1>1, <2>1, HeadUnanswered DEF HandleSyncerVc, TakeSync, Idle, Batch, IInv, node
  <2>3. CASE c.from = c.to
    <3>1. UNCHANGED <<last_accepting_block, sync_state, sync_queue>>
          /\ ((AckSent("Continue") /\ UNCHANGED vcp) \/ AckFails)
      BY <1>1, <2>1, <2>3 DEF HandleSyncerVc
    <3>2. last_accepting_block = c.to /\ sync_state = "Syncing"
      BY <2>2, <2>3 DEF Unanswered
    <3>3. CASE AckFails
      BY <2>2, <3>1, <3>3, ExchangeOver DEF AckFails
    <3>4. CASE AckSent("Continue")
      BY <2>2, <3>1, <3>2, <3>4, ExchangeAnswer
    <3>5. QED  BY <3>1, <3>3, <3>4
  <2>4. CASE c.from # c.to /\ sync_queue' = c
    <3>1. UNCHANGED <<syncers, vcp, last_accepting_block, sync_state>>
      <4>1. c # NoChange
        BY <2>4 DEF NoChange, Change
      <4>2. sync_queue' # NoChange
        BY <2>4, <4>1
      <4>3. QED  BY <1>1, <2>1, <2>4, <4>2 DEF HandleSyncerVc, ApplySync
    <3>2. Unanswered(c)'
      BY <2>2, <3>1 DEF Unanswered
    <3>3. Unanswered(sync_queue)' /\ sync_queue' # NoChange
      <4>1. sync_queue' = c /\ c # NoChange
        BY <2>4 DEF NoChange, Change
      <4>2. QED  BY <3>2, <4>1 DEF Unanswered
    <3>4. \A i \in DOMAIN syncers' : (i # syncer_id' \/ sync_state' # "Syncing") => Halted(i)'
      BY <2>2, <3>1 DEF ExchangeInv, Halted
    <3>5. QED  BY <2>2, <3>1, <3>3, <3>4 DEF ExchangeInv
  <2>5. CASE ApplySync(c)
    BY <2>2, <2>5, ExchangeApply
  <2>6. QED  BY <1>1, <2>1, <2>3, <2>4, <2>5 DEF HandleSyncerVc
<1>2. ASSUME NEW b \in Blocks \ {0}, HandleProcessedBlock(b) PROVE ExchangeInv'
  <2>1. UNCHANGED <<sink, syncer_id, syncer_rx>> /\ vcp = "run"
    BY <1>2 DEF HandleProcessedBlock, Idle, node
  <2>2. CASE UNCHANGED <<syncers, vcp, last_accepting_block, sync_state, sync_queue>>
    <3>1. sink \in Nat
      BY VirtualChainAssumption DEF IInv, TypeOK, Blocks
    <3>2. QED  BY <2>1, <2>2, <3>1, ExchangeSame DEF exchange
  <2>3. CASE sync_queue # NoChange /\ ApplySync(sync_queue)
    <3>1. Unanswered(sync_queue) /\ \A k \in DOMAIN syncer_rx' : ~Batch(k)'
      BY <1>2, <2>1, <2>3, HeadUnanswered DEF HandleProcessedBlock, Batch
    <3>2. QED  BY <2>1, <2>3, <3>1, ExchangeApply
  <2>4. QED  BY <1>2, <2>2, <2>3 DEF HandleProcessedBlock
<1>3. QED  BY <1>1, <1>2 DEF ProcessStep

\* Every step keeps to the exchange.
LEMMA ExchangeNext ==
  ASSUME IInv, [Next]_vars, TypeOK'
  PROVE  ExchangeInv'
<1>1. /\ sink \in Nat /\ sink' \in Nat /\ ExchangeInv /\ syncer_rx \in Seq(SyncMessages)
      /\ syncers = [j \in DOMAIN syncers |-> syncers[j]]
  BY VirtualChainAssumption DEF IInv, TypeOK, Blocks
<1>2. CASE NewSink \/ DataSourceStep \/ Disconnected \/ ConnectSyncing \/ Rest \/ UNCHANGED vars
  <2>1. UNCHANGED exchange /\ UNCHANGED last_accepting_block
    BY <1>2 DEF NewSink, DataSourceStep, Register, Connect, Disconnect, ForwardChange, Shutdown,
                Disconnected, ConnectSyncing, Rest, vars, sync, exchange
  <2>2. sink <= sink'
    <3>1. CASE NewSink
      BY <1>1, <3>1 DEF NewSink
    <3>2. CASE DataSourceStep
      BY <1>1, <3>2 DEF DataSourceStep, Register, Connect, Disconnect, ForwardChange, Shutdown
    <3>3. CASE Disconnected \/ ConnectSyncing \/ Rest \/ UNCHANGED vars
      BY <1>1, <3>3 DEF Disconnected, ConnectSyncing, Rest, vars, node
    <3>4. QED  BY <1>2, <3>1, <3>2, <3>3
  <2>3. QED  BY <1>1, <2>1, <2>2, ExchangeSame
<1>3. CASE ConnectInitial
  BY <1>3, ExchangeSpawn DEF ConnectInitial, Take, Idle
<1>4. CASE ConnectSynced
  <2>1. CASE UNCHANGED <<syncers, sync>>
    BY <1>1, <1>4, <2>1, ExchangeSame DEF ConnectSynced, sync, exchange, node
  <2>2. CASE SpawnSyncer(syncer_id + 1, last_accepting_block, Head(inbox).sink)
    BY <1>4, <2>2, ExchangeSpawn DEF ConnectSynced, Take, Idle
  <2>3. QED  BY <1>4, <2>1, <2>2 DEF ConnectSynced
<1>5. CASE ShutdownReceived
  <2>1. UNCHANGED <<sink, syncer_rx, sync>>
    BY <1>5 DEF ShutdownReceived, node
  <2>2. CASE vcp' # "run" /\ UNCHANGED syncers
    BY <1>1, <2>1, <2>2, ExchangeOver DEF sync
  <2>3. CASE sync_state = "Syncing" /\ AckSent("Stop") /\ UNCHANGED vcp
    <3>1. /\ DOMAIN syncers' = DOMAIN syncers /\ syncer_id \in DOMAIN syncers
          /\ \A j \in DOMAIN syncers : j # syncer_id => syncers'[j] = syncers[j]
          /\ syncers'[syncer_id].pc = syncers[syncer_id].pc /\ syncers'[syncer_id].ack = "Stop"
          /\ syncers'[syncer_id].from = syncers[syncer_id].from
      BY <1>1, <2>3 DEF AckSent
    <3>2. \A c : Unanswered(c) => Unanswered(c)'
      BY <2>1, <3>1 DEF Unanswered, sync
    <3>3. QED  BY <1>1, <2>1, <2>3, <3>1, <3>2 DEF ExchangeInv, Halted, Batch, sync
  <2>4. QED  BY <1>5, <2>2, <2>3 DEF ShutdownReceived, AckFails
<1>6. CASE HandleRealtimeVcc
  <2>1. UNCHANGED <<sink, syncers, syncer_rx, sync_state, syncer_id, sync_queue>>
    BY <1>6 DEF HandleRealtimeVcc, node
  <2>2. vcp' = "panicked" \/ (UNCHANGED vcp /\ (sync_state = "Synced" \/ UNCHANGED last_accepting_block))
    BY <1>6 DEF HandleRealtimeVcc
  <2>3. QED  BY <1>1, <2>1, <2>2, ExchangeSame, ExchangeOver DEF exchange
<1>7. CASE HandleSyncerStopped
  <2>1. /\ UNCHANGED <<sink, syncers, sync>> /\ syncer_rx # << >> /\ vcp = "run"
        /\ syncer_rx' = Tail(syncer_rx) /\ syncer_rx[1].kind # "VirtualChain"
    BY <1>1, <1>7, TailOf DEF HandleSyncerStopped, TakeSync, Idle, node
  <2>2. /\ \A k \in DOMAIN syncer_rx' : k + 1 \in DOMAIN syncer_rx /\ syncer_rx'[k] = syncer_rx[k + 1] /\ k \in Nat
        /\ \A k \in DOMAIN syncer_rx : k # 1 => k - 1 \in DOMAIN syncer_rx' /\ syncer_rx'[k - 1] = syncer_rx[k]
    BY <1>1, <2>1, TailOf
  <2>3. \A c : Unanswered(c) => Unanswered(c)'
    BY <2>1 DEF Unanswered, sync
  <2>4. \A k \in DOMAIN syncer_rx' : Batch(k)' =>
          Unanswered(syncer_rx[k].change)' /\ syncer_rx'[k].id = syncer_id' /\ sync_queue' = NoChange
    BY <1>1, <2>1, <2>2, <2>3 DEF ExchangeInv, Batch, sync
  <2>5. \A k, l \in DOMAIN syncer_rx' : Batch(k)' /\ Batch(l)' => k = l
    <3>1. ASSUME NEW k \in DOMAIN syncer_rx', NEW l \in DOMAIN syncer_rx', Batch(k)', Batch(l)'
          PROVE  k = l
      <4>1. Batch(k + 1) /\ Batch(l + 1) /\ k + 1 \in DOMAIN syncer_rx /\ l + 1 \in DOMAIN syncer_rx
        BY <2>2, <3>1 DEF Batch
      <4>2. k + 1 = l + 1
        BY <1>1, <2>1, <4>1 DEF ExchangeInv
      <4>3. QED  BY <2>2, <4>2
    <3>2. QED  BY <3>1
  <2>6. (\A k \in DOMAIN syncer_rx' : ~Batch(k)') => (\A k \in DOMAIN syncer_rx : ~Batch(k))
    BY <2>1, <2>2, ZenonT(30) DEF Batch
  <2>7. QED  BY <1>1, <2>1, <2>3, <2>4, <2>5, <2>6 DEF ExchangeInv, Halted, sync
<1>8. CASE DrainQueue
  <2>1. UNCHANGED exchange /\ UNCHANGED sink /\ sync_state = "Synced"
    BY <1>8 DEF DrainQueue, exchange, node, IInv, BoundInv
  <2>2. QED  BY <1>1, <2>1, ExchangeSame
<1>9. CASE Restart
  BY <1>9 DEF Restart, ExchangeInv, NoSyncer
<1>10. QED
  BY <1>2, <1>3, <1>4, <1>5, <1>6, <1>7, <1>8, <1>9, ExchangeSyncer, ExchangeProcess
     DEF Next, ReceiveVcc, ReceiveSyncer, ProcessStep

-----------------------------------------------------------------------------
(* Positions, changes and announcements.                                    *)

Quiescent == HandleSyncerStopped \/ Rest \/ UNCHANGED vars \/ \E i \in DOMAIN syncers : SyncerStep(i)

\* Steps of the syncers leave the changes and the processor's place alone.
LEMMA QuiescentEffect ==
  ASSUME Quiescent
  PROVE  UNCHANGED <<node, inbox, db, sync, shared, draining, history>>
BY DEF Quiescent, HandleSyncerStopped, Rest, vars, SyncerStep, SyncerAnswered, SyncerFails,
       SyncerRefused, SyncerStops, SyncerContinues

\* The data source's messages are read one by one.
LEMMA ReceiveEffect ==
  ASSUME ReceiveVcc
  PROVE  /\ Idle /\ inbox # << >> /\ inbox' = Tail(inbox)
         /\ UNCHANGED <<node, syncer_rx, headers, processed_blocks, draining, restarts, late>>
BY DEF ReceiveVcc, Take, ConnectInitial, ConnectSyncing, ConnectSynced, Disconnected,
       ShutdownReceived, HandleRealtimeVcc, db, shared, history

\* Positions are numbers.
LEMMA Numeric ==
  ASSUME TypeOK
  PROVE  /\ sink \in Nat /\ cursor \in Nat /\ target_block \in Nat /\ last_accepting_block \in Nat
         /\ \A c \in Changes : c.from \in Nat /\ c.to \in Nat
         /\ \A i \in DOMAIN syncers : syncers[i].from \in Nat
         /\ \A k \in Announced(inbox) : inbox[k].sink \in Nat
         /\ \A k \in DOMAIN inbox : inbox[k].kind = "Notification" => inbox[k].change \in Changes
<1>1. \A b \in Blocks : b \in Nat
  BY VirtualChainAssumption DEF Blocks
<1>2. \A k \in DOMAIN inbox : inbox[k] \in VccMessages
  BY DEF TypeOK
<1>3. QED  BY <1>1, <1>2 DEF TypeOK, Changes, Syncers, Announced, VccMessages

\* The node's sink only moves on.
LEMMA SinkGrows ==
  ASSUME IInv, [Next]_vars
  PROVE  sink <= sink' /\ sink' \in Nat
<1>1. sink \in Nat
  BY Numeric DEF IInv
<1>2. CASE NewSink
  BY <1>1, <1>2 DEF NewSink
<1>3. UNCHANGED sink \/ NewSink
  BY QuiescentEffect, ReceiveEffect, ProcessEffect
     DEF Next, DataSourceStep, Register, Connect, Disconnect, ForwardChange, Shutdown, ReceiveSyncer,
         DrainQueue, Restart, Quiescent, ProcessStep, node
<1>4. QED  BY <1>1, <1>2, <1>3

\* Changes remain steps of the node as they pass from channel to channel.
LEMMA StepNext ==
  ASSUME IInv, [Next]_vars
  PROVE  StepInv'
<1>1. \A c : Step(c) => Step(c)'
  BY Numeric, SinkGrows DEF IInv, Step
<1>2. /\ StepInv /\ rpc \in Seq(Changes) /\ inbox \in Seq(VccMessages)
      /\ realtime_queue_vcc \in Seq(Changes) /\ sink \in Blocks
  BY DEF IInv, TypeOK
<1>3. CASE UNCHANGED <<rpc, inbox, realtime_queue_vcc>>
  BY <1>1, <1>2, <1>3 DEF StepInv
<1>4. CASE NewSink
  <2>1. PICK c : c = Change(sink, sink + 1)
    OBVIOUS
  <2>2. c \in Changes /\ Step(c)'
    BY <1>2, <1>4, <2>1, Numeric DEF NewSink, Change, Changes, Step, IInv
  <2>3. UNCHANGED <<inbox, realtime_queue_vcc>> /\ (rpc' = rpc \/ rpc' = Append(rpc, c))
    BY <1>4, <2>1 DEF NewSink, shared
  <2>4. \A k \in DOMAIN rpc' : (k \in DOMAIN rpc /\ rpc'[k] = rpc[k]) \/ rpc'[k] = c
    BY <1>2, <2>2, <2>3, AppendOf
  <2>5. QED  BY <1>1, <1>2, <2>2, <2>3, <2>4 DEF StepInv
<1>5. CASE Connect \/ Disconnect \/ ForwardChange \/ Shutdown
  <2>1. PICK m \in VccMessages :
          /\ inbox' = Append(inbox, m)
          /\ UNCHANGED rpc \/ (rpc # << >> /\ rpc' = Tail(rpc))
          /\ m.kind = "Notification" => rpc # << >> /\ m.change = rpc[1]
    BY <1>2, <1>5 DEF Connect, Disconnect, ForwardChange, Shutdown, VccMessages
  <2>2. UNCHANGED realtime_queue_vcc
    BY <1>5 DEF Connect, Disconnect, ForwardChange, Shutdown, shared
  <2>3. \A k \in DOMAIN rpc' : \E l \in DOMAIN rpc : rpc'[k] = rpc[l]
    <3>1. CASE rpc # << >> /\ rpc' = Tail(rpc)
      <4>1. \A k \in DOMAIN rpc' : k + 1 \in DOMAIN rpc /\ rpc'[k] = rpc[k + 1]
        BY <1>2, <3>1, TailOf
      <4>2. QED  BY <4>1
    <3>2. QED  BY <2>1, <3>1
  <2>4. \A k \in DOMAIN inbox' : (k \in DOMAIN inbox /\ inbox'[k] = inbox[k]) \/ inbox'[k] = m
    BY <1>2, <2>1, AppendOf
  <2>5. m.kind = "Notification" => Step(m.change)
    BY <1>2, <2>1 DEF StepInv
  <2>6. QED  BY <1>1, <1>2, <2>2, <2>3, <2>4, <2>5 DEF StepInv
<1>6. CASE ReceiveVcc
  <2>1. inbox # << >> /\ inbox' = Tail(inbox) /\ UNCHANGED rpc
    BY <1>6, ReceiveEffect DEF node
  <2>2. \A k \in DOMAIN inbox' : k + 1 \in DOMAIN inbox /\ inbox'[k] = inbox[k + 1]
    BY <1>2, <2>1, TailOf
  <2>3. 1 \in DOMAIN inbox /\ Head(inbox) = inbox[1]
    BY <1>2, <2>1, TailOf
  <2>4. PICK c : c = inbox[1].change
    OBVIOUS
  <2>5. \/ realtime_queue_vcc' = realtime_queue_vcc \/ realtime_queue_vcc' = << >>
        \/ inbox[1].kind = "Notification" /\ realtime_queue_vcc' = Append(realtime_queue_vcc, c)
    BY <1>6, <2>3, <2>4 DEF ReceiveVcc, ConnectInitial, ConnectSyncing, ConnectSynced,
       Disconnected, ShutdownReceived, HandleRealtimeVcc, Take, shared
  <2>6. inbox[1].kind = "Notification" => Step(c) /\ c \in Changes
    BY <1>2, <2>3, <2>4 DEF StepInv, Step
  <2>7. \A k \in DOMAIN realtime_queue_vcc' : Step(realtime_queue_vcc'[k])
    <3>1. CASE inbox[1].kind = "Notification" /\ realtime_queue_vcc' = Append(realtime_queue_vcc, c)
      <4>1. \A k \in DOMAIN realtime_queue_vcc' :
              (k \in DOMAIN realtime_queue_vcc /\ realtime_queue_vcc'[k] = realtime_queue_vcc[k])
              \/ realtime_queue_vcc'[k] = c
        BY <1>2, <2>6, <3>1, AppendOf
      <4>2. QED  BY <1>2, <2>6, <3>1, <4>1 DEF StepInv
    <3>2. QED  BY <1>2, <2>5, <3>1 DEF StepInv
  <2>8. QED  BY <1>1, <1>2, <2>1, <2>2, <2>7 DEF StepInv
<1>7. CASE DrainQueue
  <2>1. /\ UNCHANGED <<rpc, inbox>>
        /\ \/ UNCHANGED realtime_queue_vcc
           \/ realtime_queue_vcc # << >> /\ realtime_queue_vcc' = Tail(realtime_queue_vcc)
    BY <1>7 DEF DrainQueue, node
  <2>2. CASE realtime_queue_vcc # << >> /\ realtime_queue_vcc' = Tail(realtime_queue_vcc)
    <3>1. \A k \in DOMAIN realtime_queue_vcc' :
            k + 1 \in DOMAIN realtime_queue_vcc /\ realtime_queue_vcc'[k] = realtime_queue_vcc[k + 1]
      BY <1>2, <2>2, TailOf
    <3>2. QED  BY <1>1, <1>2, <2>1, <3>1 DEF StepInv
  <2>3. QED  BY <1>3, <2>1, <2>2
<1>8. CASE Restart
  BY <1>8 DEF Restart, StepInv
<1>9. CASE Quiescent \/ ProcessStep \/ Register
  BY <1>3, <1>9, QuiescentEffect, ProcessEffect DEF Register, node, shared
<1>10. QED
  BY <1>4, <1>5, <1>6, <1>7, <1>8, <1>9 DEF Next, DataSourceStep, ReceiveSyncer, ProcessStep, Quiescent

-----------------------------------------------------------------------------
(* Announcements and positions.                                             *)

\* A step that leaves the channel alone and announces no target.
LEMMA AnnounceSame ==
  ASSUME IInv, UNCHANGED inbox, sink <= sink', sink' \in Nat,
         \/ sync_state' = "Synced"
         \/ UNCHANGED <<sync_state, target_block>> /\ (sync_state = "Initial" => UNCHANGED cursor)
  PROVE  AnnounceInv'
<1>1. AnnounceInv /\ sink \in Nat /\ \A k \in Announced(inbox) : inbox[k].sink \in Nat
  BY Numeric DEF IInv
<1>2. QED  BY <1>1 DEF AnnounceInv, Announced

\* Announcements are sent and taken in the order of the sinks.
LEMMA AnnounceNext ==
  ASSUME IInv, [Next]_vars
  PROVE  AnnounceInv'
<1>1. /\ AnnounceInv /\ inbox \in Seq(VccMessages) /\ sink \in Nat /\ sink \in Blocks
      /\ cursor <= sink /\ target_block <= sink
      /\ \A k \in Announced(inbox) : inbox[k].sink \in Nat
  BY Numeric DEF IInv, TypeOK, BoundInv
<1>2. sink <= sink' /\ sink' \in Nat
  BY SinkGrows
<1>3. CASE NewSink \/ Register \/ Quiescent
  BY <1>2, <1>3, QuiescentEffect, AnnounceSame DEF NewSink, Register, db, sync
<1>4. CASE ProcessStep
  BY <1>2, <1>4, ProcessEffect, AnnounceSame DEF Batched, Unanswered
<1>5. CASE DrainQueue
  <2>1. sync_state = "Synced" /\ UNCHANGED <<inbox, sync_state>>
    BY <1>5 DEF DrainQueue, IInv, BoundInv
  <2>2. QED  BY <1>2, <2>1, AnnounceSame
<1>6. CASE Connect \/ Disconnect \/ ForwardChange \/ Shutdown
  <2>1. PICK m \in VccMessages : inbox' = Append(inbox, m) /\ (m.kind = "Connected" => m.sink = sink)
    <3>1. rpc # << >> => Head(rpc) \in Changes
      BY DEF IInv, TypeOK
    <3>2. CASE Connect
      <4>1. [kind |-> "Connected", sink |-> sink] \in VccMessages
        BY <1>1 DEF VccMessages
      <4>2. QED  BY <3>2, <4>1 DEF Connect
    <3>3. CASE Disconnect \/ Shutdown
      <4>1. PICK d \in VccMessages, s \in VccMessages :
              d = [kind |-> "Disconnected"] /\ s = [kind |-> "Shutdown"]
        BY DEF VccMessages
      <4>2. inbox' = Append(inbox, d) \/ inbox' = Append(inbox, s)
        BY <3>3, <4>1 DEF Disconnect, Shutdown
      <4>3. QED  BY <4>1, <4>2
    <3>4. CASE ForwardChange
      <4>1. PICK m \in VccMessages : m = [kind |-> "Notification", change |-> Head(rpc)]
        BY <3>1, <3>4 DEF ForwardChange, VccMessages
      <4>2. inbox' = Append(inbox, m) /\ m.kind # "Connected"
        BY <3>4, <4>1 DEF ForwardChange
      <4>3. QED  BY <4>2
    <3>5. QED  BY <1>6, <3>2, <3>3, <3>4
  <2>2. UNCHANGED <<sink, sync_state, target_block, cursor>>
    BY <1>6 DEF Connect, Disconnect, ForwardChange, Shutdown, sync, db
  <2>3. \A k \in Announced(inbox') :
          \/ k \in Announced(inbox) /\ inbox'[k] = inbox[k] /\ k \in 1 .. Len(inbox)
          \/ k = Len(inbox) + 1 /\ inbox'[k].sink = sink
    BY <1>1, <2>1, AppendOf DEF Announced
  <2>4. Len(inbox) \in Nat
    BY <1>1
  <2>5. ASSUME NEW k \in Announced(inbox')
        PROVE  /\ inbox'[k].sink <= sink'
               /\ sync_state' = "Syncing" => target_block' <= inbox'[k].sink
               /\ sync_state' = "Initial" => cursor' <= inbox'[k].sink
    <3>1. CASE k \in Announced(inbox) /\ inbox'[k] = inbox[k]
      BY <1>1, <2>2, <3>1 DEF AnnounceInv
    <3>2. CASE inbox'[k].sink = sink
      BY <1>1, <2>2, <3>2
    <3>3. QED  BY <2>3, <3>1, <3>2
  <2>6. ASSUME NEW k \in Announced(inbox'), NEW l \in Announced(inbox'), k <= l
        PROVE  inbox'[k].sink <= inbox'[l].sink
    <3>1. CASE inbox'[l].sink = sink
      BY <2>2, <2>5, <3>1
    <3>2. CASE l \in Announced(inbox) /\ inbox'[l] = inbox[l] /\ l \in 1 .. Len(inbox)
      <4>1. k \in Announced(inbox) /\ inbox'[k] = inbox[k]
        BY <2>3, <2>4, <2>6, <3>2
      <4>2. QED  BY <1>1, <2>6, <3>2, <4>1 DEF AnnounceInv
    <3>3. QED  BY <2>3, <3>1, <3>2
  <2>7. QED  BY <2>5, <2>6 DEF AnnounceInv
<1>7. CASE ReceiveVcc
  <2>1. inbox # << >> /\ inbox' = Tail(inbox) /\ UNCHANGED sink
    BY <1>7, ReceiveEffect DEF node
  <2>2. \A k \in Announced(inbox') : k + 1 \in Announced(inbox) /\ inbox'[k] = inbox[k + 1] /\ k \in Nat \ {0}
    BY <1>1, <2>1, TailOf DEF Announced
  <2>3. \/ /\ sync_state' = "Syncing" /\ target_block' = inbox[1].sink /\ inbox[1].kind = "Connected"
        \/ UNCHANGED <<sync_state, target_block>> /\ (sync_state = "Initial" => UNCHANGED cursor)
    <3>1. Head(inbox) = inbox[1]
      BY <1>1, <2>1, TailOf
    <3>2. QED
      BY <1>7, <3>1 DEF ReceiveVcc, ConnectInitial, ConnectSyncing, ConnectSynced, Disconnected,
         ShutdownReceived, HandleRealtimeVcc, Take, SpawnSyncer, sync, db
  <2>4. inbox[1].kind = "Connected" => 1 \in Announced(inbox)
    BY <1>1, <2>1, TailOf DEF Announced
  <2>5. \A k \in Announced(inbox') : sync_state' = "Syncing" => target_block' <= inbox'[k].sink
    BY <1>1, <2>2, <2>3, <2>4 DEF AnnounceInv
  <2>6. \A k \in Announced(inbox') : inbox'[k].sink <= sink' /\ (sync_state' = "Initial" => cursor' <= inbox'[k].sink)
    BY <1>1, <2>1, <2>2, <2>3, ZenonT(30) DEF AnnounceInv
  <2>7. \A k, l \in Announced(inbox') : k <= l => inbox'[k].sink <= inbox'[l].sink
    BY <1>1, <2>2 DEF AnnounceInv
  <2>8. QED  BY <2>5, <2>6, <2>7 DEF AnnounceInv
<1>8. CASE Restart
  BY <1>8 DEF Restart, AnnounceInv, Announced
<1>9. QED
  BY <1>3, <1>4, <1>5, <1>6, <1>7, <1>8 DEF Next, DataSourceStep, ReceiveSyncer, ProcessStep, Quiescent

\* A record leads behind the sink, and not past the cursor.
LEMMA RecordBound ==
  ASSUME TypeOK, cursor <= sink, NEW c \in Changes, c.to <= sink, Record(c), UNCHANGED sink
  PROVE  cursor' <= sink' /\ last_accepting_block' <= cursor'
BY Numeric DEF Record

\* An answer to a syncer leaves its place alone.
LEMMA AckFrom ==
  ASSUME TypeOK, NEW a, AckSent(a)
  PROVE  DOMAIN syncers' = DOMAIN syncers /\ \A i \in DOMAIN syncers : syncers'[i].from = syncers[i].from
BY DEF TypeOK, AckSent

\* Positions stay behind the sink.
LEMMA BoundNext ==
  ASSUME IInv, [Next]_vars
  PROVE  BoundInv'
<1>1. /\ BoundInv /\ TypeOK /\ sink \in Nat /\ cursor \in Nat /\ target_block \in Nat
      /\ last_accepting_block \in Nat /\ \A i \in DOMAIN syncers : syncers[i].from \in Nat
  BY Numeric DEF IInv
<1>2. sink <= sink' /\ sink' \in Nat
  BY SinkGrows
<1>3. CASE NewSink \/ DataSourceStep
  <2>1. UNCHANGED <<cursor, target_block, last_accepting_block, syncers, draining, sync_state>>
    BY <1>3 DEF NewSink, DataSourceStep, Register, Connect, Disconnect, ForwardChange, Shutdown, db, sync
  <2>2. link' = "registered" => ~stopping'
    BY <1>1, <1>3 DEF NewSink, DataSourceStep, Register, Connect, Disconnect, ForwardChange, Shutdown, BoundInv
  <2>3. QED  BY <1>1, <1>2, <2>1, <2>2 DEF BoundInv
<1>4. CASE Quiescent
  <2>1. UNCHANGED <<sink, link, stopping, cursor, target_block, last_accepting_block, draining, sync_state>>
    BY <1>4, QuiescentEffect DEF node, db, sync
  <2>2. \A i \in DOMAIN syncers' : syncers'[i].from <= sink
    <3>1. CASE UNCHANGED syncers
      BY <1>1, <3>1 DEF BoundInv
    <3>2. ASSUME NEW i \in DOMAIN syncers, SyncerAnswered(i)
          PROVE  \A j \in DOMAIN syncers' : syncers'[j].from <= sink
      <4>1. PICK to \in Responses(syncers[i].from) :
              syncers' = [syncers EXCEPT ![i] = [from |-> to, pc |-> "ack", ack |-> syncers[i].ack]]
        BY <3>2 DEF SyncerAnswered
      <4>2. to <= sink
        BY <1>1, ResponseType DEF IInv, TypeOK, BoundInv, Syncers
      <4>3. QED  BY <1>1, <4>1, <4>2 DEF BoundInv, TypeOK
    <3>3. ASSUME NEW i \in DOMAIN syncers, Ends(i) \/ SyncerContinues(i)
          PROVE  \A j \in DOMAIN syncers' : syncers'[j].from <= sink
      <4>1. CASE Ends(i)
        BY <1>1, <4>1 DEF Ends, BoundInv
      <4>2. CASE SyncerContinues(i)
        BY <1>1, <4>2 DEF SyncerContinues, BoundInv, TypeOK
      <4>3. QED  BY <3>3, <4>1, <4>2
    <3>4. QED
      BY <1>4, <3>1, <3>2, <3>3 DEF Quiescent, HandleSyncerStopped, Rest, vars, SyncerStep,
         SyncerFails, SyncerRefused, SyncerStops
  <2>3. QED  BY <1>1, <2>1, <2>2 DEF BoundInv
<1>5. CASE ProcessStep
  <2>1. /\ UNCHANGED <<sink, link, stopping, target_block>>
        /\ draining' => sync_state' = "Synced"
    BY <1>5, ProcessEffect DEF node
  <2>2. cursor' <= sink' /\ last_accepting_block' <= cursor'
    <3>1. ASSUME NEW c \in Changes, Batched(c) PROVE cursor' <= sink' /\ last_accepting_block' <= cursor'
      BY <1>1, <2>1, <3>1, RecordBound DEF Batched, Unanswered, BoundInv
    <3>2. QED  BY <1>1, <1>5, <2>1, <3>1, ProcessEffect DEF BoundInv
  <2>3. UNCHANGED syncers \/ \E a \in {"Continue", "Stop"} : AckSent(a)
    BY <1>5 DEF ProcessStep, HandleSyncerVc, HandleProcessedBlock, ApplySync, AckFails
  <2>4. \A i \in DOMAIN syncers' : syncers'[i].from <= sink
    BY <1>1, <2>3, AckFrom DEF BoundInv
  <2>5. QED  BY <1>1, <2>1, <2>2, <2>4 DEF BoundInv
<1>6. CASE ReceiveVcc
  <2>1. UNCHANGED <<sink, link, stopping, draining>> /\ ~draining /\ inbox # << >>
    BY <1>6, ReceiveEffect DEF node, Idle
  <2>2. Head(inbox) = inbox[1] /\ 1 \in DOMAIN inbox
    <3>1. inbox \in Seq(VccMessages)
      BY <1>1, Zenon DEF TypeOK
    <3>2. QED  BY <2>1, <3>1
  <2>3. Head(inbox).kind = "Connected" => Head(inbox).sink <= sink
    BY <2>2 DEF IInv, AnnounceInv, Announced
  <2>4. CASE /\ UNCHANGED <<cursor, target_block, last_accepting_block>>
             /\ UNCHANGED syncers \/ \E a \in {"Continue", "Stop"} : AckSent(a)
    BY <1>1, <2>1, <2>4, AckFrom DEF BoundInv
  <2>5. CASE ConnectSyncing
    <3>1. /\ sync_state = "Syncing" /\ Head(inbox).kind = "Connected" /\ target_block' = Head(inbox).sink
          /\ UNCHANGED <<syncers, cursor, sync_state, last_accepting_block>>
      BY <2>5, Zenon DEF ConnectSyncing, Take, db
    <3>2. target_block' <= sink'
      BY <2>1, <2>3, <3>1
    <3>3. QED  BY <1>1, <2>1, <3>1, <3>2, Zenon DEF BoundInv
  <2>6. ASSUME NEW id, NEW from \in Nat, from <= cursor, SpawnSyncer(id, from, Head(inbox).sink),
               UNCHANGED cursor, Head(inbox).kind = "Connected"
        PROVE  BoundInv'
    BY <1>1, <2>1, <2>3, <2>6 DEF SpawnSyncer, BoundInv
  <2>7. CASE ConnectInitial
    BY <1>1, <2>6, <2>7 DEF ConnectInitial, Take, db
  <2>8. CASE ConnectSynced
    BY <1>1, <2>4, <2>6, <2>8 DEF ConnectSynced, Take, db, sync, BoundInv
  <2>9. CASE Disconnected \/ ShutdownReceived
    BY <2>4, <2>9 DEF Disconnected, ShutdownReceived, AckFails, db, sync
  <2>10. CASE HandleRealtimeVcc
    <3>1. PICK c : c = Head(inbox).change
      OBVIOUS
    <3>2. UNCHANGED <<cursor, last_accepting_block>> \/ Record(c)
      BY <2>10, <3>1 DEF HandleRealtimeVcc
    <3>3. UNCHANGED <<syncers, target_block>>
      BY <2>10 DEF HandleRealtimeVcc
    <3>4. c \in Changes /\ c.to <= sink
      BY <2>2, <2>10, <3>1 DEF HandleRealtimeVcc, Take, IInv, StepInv, Step
    <3>5. cursor' <= sink' /\ last_accepting_block' <= cursor'
      BY <1>1, <2>1, <3>2, <3>4, RecordBound DEF BoundInv
    <3>6. QED  BY <1>1, <2>1, <3>3, <3>5 DEF BoundInv
  <2>11. QED  BY <1>6, <2>5, <2>7, <2>8, <2>9, <2>10 DEF ReceiveVcc
<1>7. CASE DrainQueue
  <2>1. PICK c : c = Head(realtime_queue_vcc)
    OBVIOUS
  <2>2. /\ UNCHANGED <<sink, link, stopping, target_block, syncers, sync_state>> /\ sync_state = "Synced"
        /\ UNCHANGED <<cursor, last_accepting_block>> \/ (realtime_queue_vcc # << >> /\ Record(c))
    BY <1>1, <1>7, <2>1 DEF DrainQueue, node, BoundInv
  <2>3. realtime_queue_vcc # << >> => c \in Changes /\ c.to <= sink
    <3>1. realtime_queue_vcc # << >> => 1 \in DOMAIN realtime_queue_vcc /\ c = realtime_queue_vcc[1]
      BY <1>1, <2>1, TailOf DEF TypeOK
    <3>2. QED  BY <3>1 DEF IInv, StepInv, Step
  <2>4. cursor' <= sink' /\ last_accepting_block' <= cursor'
    BY <1>1, <2>2, <2>3, RecordBound DEF BoundInv
  <2>5. QED  BY <1>1, <2>2, <2>4 DEF BoundInv
<1>8. CASE Restart
  BY <1>1, <1>8 DEF Restart, BoundInv, NoSyncer, db
<1>9. QED
  BY <1>3, <1>4, <1>5, <1>6, <1>7, <1>8 DEF Next, ReceiveSyncer, ProcessStep, Quiescent

-----------------------------------------------------------------------------
(* The order of announcements and notifications.                            *)

\* The data source sends m.
Sends(m) ==
  /\ inbox' = Append(inbox, m)
  /\ \/ Connect /\ m.kind = "Connected" /\ m.sink = sink /\ UNCHANGED <<rpc, late, stopping>>
     \/ Disconnect /\ m.kind = "Disconnected" /\ UNCHANGED <<rpc, late, stopping>>
     \/ Shutdown /\ m.kind = "Shutdown" /\ UNCHANGED <<rpc, late>>
     \/ /\ ForwardChange /\ rpc # << >> /\ m.kind = "Notification" /\ m.change = rpc[1]

\* Four steps of the data source send a message, and leave the processor alone.
LEMMA SendEffect ==
  ASSUME TypeOK, Connect \/ Disconnect \/ ForwardChange \/ Shutdown
  PROVE  /\ UNCHANGED <<sink, sessions, syncer_rx, syncers, db, vcp, sync, shared, draining, restarts, midway>>
         /\ \E m \in VccMessages : Sends(m)
<1>1. sink \in Blocks /\ (rpc # << >> => Head(rpc) \in Changes /\ Head(rpc) = rpc[1])
  BY DEF TypeOK
<1>2. UNCHANGED <<sink, sessions, syncer_rx, syncers, db, vcp, sync, shared, draining, restarts, midway>>
  BY DEF Connect, Disconnect, ForwardChange, Shutdown, history
<1>3. CASE Connect
  <2>1. [kind |-> "Connected", sink |-> sink] \in VccMessages
    BY <1>1 DEF VccMessages
  <2>2. QED  BY <1>2, <1>3, <2>1 DEF Connect, Sends, history
<1>4. CASE Disconnect
  <2>1. [kind |-> "Disconnected"] \in VccMessages
    BY DEF VccMessages
  <2>2. QED  BY <1>2, <1>4, <2>1 DEF Disconnect, Sends, history
<1>5. CASE Shutdown
  <2>1. [kind |-> "Shutdown"] \in VccMessages
    BY DEF VccMessages
  <2>2. QED  BY <1>2, <1>5, <2>1 DEF Shutdown, Sends, history
<1>6. CASE ForwardChange
  <2>1. [kind |-> "Notification", change |-> Head(rpc)] \in VccMessages
    BY <1>1, <1>6 DEF ForwardChange, VccMessages
  <2>2. QED  BY <1>1, <1>2, <1>6, <2>1 DEF ForwardChange, Sends
<1>7. QED  BY <1>3, <1>4, <1>5, <1>6

\* A step that leaves the channel alone.
LEMMA OrderSame ==
  ASSUME OrderInv, UNCHANGED inbox, late' \/ UNCHANGED late, link' = "up" => link = "up",
         sync_state # "Initial" => sync_state' # "Initial", vcp' = "panicked" => vcp = "panicked"
  PROVE  OrderInv'
BY DEF OrderInv

\* Announcements come before the notifications of their connection.
LEMMA OrderNext ==
  ASSUME IInv, [Next]_vars
  PROVE  OrderInv'
<1>1. OrderInv /\ TypeOK /\ inbox \in Seq(VccMessages) /\ late \in BOOLEAN
  BY DEF IInv, TypeOK
<1>2. CASE NewSink \/ Register
  BY <1>1, <1>2, OrderSame DEF NewSink, Register, sync, history
<1>3. CASE Quiescent
  <2>1. vcp' # "panicked" \/ UNCHANGED vcp
    BY <1>3 DEF Quiescent, HandleSyncerStopped, Rest, vars, SyncerStep, SyncerAnswered, SyncerFails,
       SyncerRefused, SyncerStops, SyncerContinues
  <2>2. UNCHANGED <<inbox, late, link, sync_state>>
    BY <1>3, QuiescentEffect DEF node, sync, history
  <2>3. QED  BY <1>1, <2>1, <2>2, OrderSame
<1>4. CASE ProcessStep
  <2>1. vcp' # "panicked" \/ UNCHANGED vcp
    BY <1>4 DEF ProcessStep, HandleSyncerVc, HandleProcessedBlock, ApplySync, AckFails
  <2>2. UNCHANGED <<inbox, late, link>> /\ (sync_state # "Initial" => sync_state' # "Initial")
    BY <1>4, ProcessEffect DEF node, history, Batched
  <2>3. QED  BY <1>1, <2>1, <2>2, OrderSame
<1>5. CASE DrainQueue
  BY <1>1, <1>5, OrderSame DEF DrainQueue, node, history
<1>6. CASE Connect \/ Disconnect \/ ForwardChange \/ Shutdown
  <2>1. SUFFICES ASSUME ~late' PROVE OrderInv'
    BY DEF OrderInv
  <2>2. PICK m \in VccMessages :
          /\ inbox' = Append(inbox, m) /\ ~late
          /\ m.kind = "Notification" => link = "up"
          /\ link' = "up" => m.kind \in {"Connected", "Notification"}
    <3>1. link \in {"down", "registered", "up"}
      BY <1>1 DEF TypeOK
    <3>2. PICK m \in VccMessages : Sends(m)
      BY <1>1, <1>6, SendEffect
    <3>3. ~late
      BY <2>1, <3>2 DEF Sends, ForwardChange
    <3>4. m.kind = "Notification" => link = "up"
      BY <2>1, <3>1, <3>2 DEF Sends, ForwardChange
    <3>5. link' = "up" => m.kind \in {"Connected", "Notification"}
      BY <3>2 DEF Sends, Disconnect, Shutdown
    <3>6. QED  BY <3>2, <3>3, <3>4, <3>5 DEF Sends
  <2>3. UNCHANGED <<sync_state, vcp>>
    BY <1>1, <1>6, SendEffect DEF sync
  <2>4. /\ Len(inbox) \in Nat /\ Len(inbox') = Len(inbox) + 1 /\ inbox' # << >>
        /\ \A k \in 1 .. Len(inbox) : inbox'[k] = inbox[k]
        /\ inbox'[Len(inbox) + 1] = m /\ (inbox = << >> <=> Len(inbox) = 0)
    BY <1>1, <2>2, AppendOf
  <2>5. inbox'[1].kind = "Notification" => sync_state # "Initial"
    BY <1>1, <2>2, <2>4 DEF OrderInv
  <2>6. ASSUME NEW k \in 1 .. Len(inbox') - 1, inbox'[k + 1].kind = "Notification"
        PROVE  inbox'[k].kind \in {"Connected", "Notification"}
    <3>1. CASE k = Len(inbox)
      BY <1>1, <2>2, <2>4, <2>6, <3>1 DEF OrderInv
    <3>2. CASE k # Len(inbox)
      <4>1. k \in 1 .. Len(inbox) - 1 /\ k + 1 \in 1 .. Len(inbox) /\ k \in 1 .. Len(inbox)
        BY <2>4, <3>2
      <4>2. QED  BY <1>1, <2>2, <2>4, <2>6, <4>1 DEF OrderInv
    <3>3. QED  BY <3>1, <3>2
  <2>7. vcp # "panicked"
    BY <1>1, <2>2 DEF OrderInv
  <2>8. QED  BY <2>2, <2>3, <2>4, <2>5, <2>6, <2>7 DEF OrderInv
<1>7. CASE ReceiveVcc
  <2>1. SUFFICES ASSUME ~late' PROVE OrderInv'
    BY DEF OrderInv
  <2>2. inbox # << >> /\ inbox' = Tail(inbox) /\ UNCHANGED <<link, late>> /\ ~late
    BY <1>7, <2>1, ReceiveEffect DEF node
  <2>3. /\ Len(inbox) \in Nat \ {0} /\ Len(inbox') = Len(inbox) - 1 /\ Head(inbox) = inbox[1]
        /\ \A k \in 1 .. Len(inbox) - 1 : inbox'[k] = inbox[k + 1]
        /\ (inbox' = << >> <=> Len(inbox) = 1)
    BY <1>1, <2>2, TailOf
  <2>4. /\ inbox[1].kind = "Connected" \/ sync_state # "Initial" => sync_state' # "Initial"
        /\ vcp' # "panicked" \/ UNCHANGED vcp
           \/ (inbox[1].kind = "Notification" /\ sync_state = "Initial")
    BY <1>7, <2>3 DEF ReceiveVcc, ConnectInitial, ConnectSyncing, ConnectSynced, Disconnected,
       ShutdownReceived, HandleRealtimeVcc, Take, SpawnSyncer, AckFails, sync
  <2>5. vcp' # "panicked"
    BY <1>1, <2>2, <2>4 DEF OrderInv
  <2>6. inbox[1].kind \in {"Connected", "Notification"} => sync_state' # "Initial"
    BY <1>1, <2>2, <2>4 DEF OrderInv
  <2>7. inbox' # << >> /\ inbox'[1].kind = "Notification" => sync_state' # "Initial"
    <3>1. inbox' # << >> => 1 \in 1 .. Len(inbox) - 1
      BY <2>3
    <3>2. QED  BY <1>1, <2>2, <2>3, <2>6, <3>1 DEF OrderInv
  <2>8. \A k \in 1 .. Len(inbox') - 1 : inbox'[k + 1].kind = "Notification" =>
          inbox'[k].kind \in {"Connected", "Notification"}
    <3>1. \A k \in 1 .. Len(inbox') - 1 : k \in 1 .. Len(inbox) - 1 /\ k + 1 \in 1 .. Len(inbox) - 1
      BY <2>3
    <3>2. QED  BY <1>1, <2>2, <2>3, <3>1, ZenonT(30) DEF OrderInv
  <2>9. link' = "up" /\ inbox' = << >> => sync_state' # "Initial"
    BY <1>1, <2>2, <2>3, <2>6 DEF OrderInv
  <2>10. link' = "up" /\ inbox' # << >> => inbox'[Len(inbox')].kind \in {"Connected", "Notification"}
    <3>1. inbox' # << >> => Len(inbox') \in 1 .. Len(inbox) - 1 /\ Len(inbox') + 1 = Len(inbox)
      BY <2>3
    <3>2. QED  BY <1>1, <2>2, <2>3, <3>1 DEF OrderInv
  <2>11. QED  BY <2>5, <2>7, <2>8, <2>9, <2>10 DEF OrderInv
<1>8. CASE Restart
  BY <1>8 DEF Restart, OrderInv
<1>9. QED
  BY <1>2, <1>3, <1>4, <1>5, <1>6, <1>7, <1>8 DEF Next, DataSourceStep, ReceiveSyncer, ProcessStep, Quiescent

-----------------------------------------------------------------------------
(* No change is missing between the processor's place and the sink.         *)

\* A step of the processor that leaves the channels alone and keeps its place.
LEMMA PlaceSame ==
  ASSUME IInv, Clean' => Clean, UNCHANGED <<node, inbox, realtime_queue_vcc>>,
         Clean' => /\ sync_state' = "Syncing" => cursor' <= target_block'
                   /\ \A x \in Nat : At(x) => At(x)'
  PROVE  QueueInv' /\ PlaceInv'
<1>1. SUFFICES ASSUME Clean' PROVE QueueInv' /\ PlaceInv'
  BY DEF QueueInv, PlaceInv
<1>2. /\ Clean /\ QueueInv /\ PlaceInv /\ TypeOK /\ inbox \in Seq(VccMessages)
      /\ rpc \in Seq(Changes) /\ realtime_queue_vcc \in Seq(Changes)
  BY <1>1 DEF IInv, TypeOK
<1>3. \A x \in Nat : Expects(x) => Expects(x)'
  BY <1>1 DEF Expects
<1>4. NextFrom \in Nat /\ UNCHANGED NextFrom
  BY <1>2, Numeric DEF NextFrom, node
<1>5. realtime_queue_vcc # << >> => realtime_queue_vcc[1].from \in Nat
  BY <1>2, Numeric
<1>6. inbox # << >> /\ inbox[1].kind = "Notification" => inbox[1].change.from \in Nat
  BY <1>2, Numeric, TailOf
<1>7. QueueInv'
  BY <1>1, <1>2, <1>5 DEF QueueInv, Contiguous
<1>8. PlaceInv'
  BY <1>1, <1>2, <1>3, <1>4, <1>6 DEF PlaceInv, Contiguous, Leads, node
<1>9. QED  BY <1>7, <1>8

\* Batches and headers.
LEMMA PlaceProcess ==
  ASSUME IInv, ProcessStep
  PROVE  QueueInv' /\ PlaceInv'
<1>1. UNCHANGED <<node, inbox, target_block, realtime_queue_vcc, history>>
  BY ProcessEffect
<1>2. Clean' <=> Clean
  BY <1>1 DEF Clean, history
<1>3. CASE UNCHANGED <<cursor, last_accepting_block, sync_state>>
  BY <1>1, <1>2, <1>3, PlaceSame DEF At, IInv, QueueInv
<1>4. ASSUME NEW c \in Changes, Batched(c) PROVE QueueInv' /\ PlaceInv'
  <2>1. /\ sync_state = "Syncing" /\ last_accepting_block' = c.to
        /\ cursor' = IF c.to > cursor THEN c.to ELSE cursor
        /\ \/ sync_state' = "Synced" /\ c.to >= target_block
           \/ sync_state' = "Syncing" /\ c.to < target_block
    BY <1>4 DEF Batched, Unanswered, Record
  <2>2. cursor \in Nat /\ target_block \in Nat /\ c.to \in Nat
    BY Numeric DEF IInv
  <2>3. Clean => cursor <= target_block
    BY <2>1 DEF IInv, QueueInv
  <2>4. Clean' => (sync_state' = "Syncing" => cursor' <= target_block')
    BY <1>1, <1>2, <2>1, <2>2, <2>3
  <2>5. Clean' => \A x \in Nat : At(x) => At(x)'
    BY <1>1, <1>2, <2>1, <2>2, <2>3 DEF At
  <2>6. QED  BY <1>1, <1>2, <2>4, <2>5, PlaceSame
<1>5. QED  BY <1>3, <1>4, ProcessEffect

\* The next change to be forwarded starts behind the sink.
LEMMA NextFromBound ==
  ASSUME IInv
  PROVE  NextFrom \in Nat /\ NextFrom <= sink /\ (rpc # << >> => NextFrom = rpc[1].from)
<1>1. sink \in Nat /\ rpc \in Seq(Changes)
  BY Numeric DEF IInv, TypeOK
<1>2. CASE rpc = << >>
  BY <1>1, <1>2 DEF NextFrom
<1>3. CASE rpc # << >>
  <2>1. Step(rpc[1])
    BY <1>1, <1>3 DEF IInv, StepInv
  <2>2. QED  BY <1>1, <1>3, <2>1, Numeric DEF NextFrom, Step, IInv
<1>4. QED  BY <1>2, <1>3

\* A heavier block becomes the sink.
LEMMA PlaceNewSink ==
  ASSUME IInv, NewSink
  PROVE  QueueInv' /\ PlaceInv'
<1>1. SUFFICES ASSUME Clean' PROVE QueueInv' /\ PlaceInv'
  BY DEF QueueInv, PlaceInv
<1>2. /\ UNCHANGED <<link, stopping, inbox, realtime_queue_vcc, sync_state, target_block, cursor,
                     last_accepting_block, late, midway>>
      /\ sink' = sink + 1
      /\ rpc' = IF link = "down" THEN rpc ELSE Append(rpc, Change(sink, sink + 1))
  BY DEF NewSink, sync, shared, db, history
<1>3. Clean /\ QueueInv /\ PlaceInv /\ rpc \in Seq(Changes) /\ sink \in Nat
  BY <1>1, <1>2, Numeric DEF IInv, Clean, TypeOK
<1>4. \A x : (At(x) <=> At(x)') /\ (Expects(x) <=> Expects(x)')
  BY <1>2 DEF At, Expects
<1>5. QueueInv'
  BY <1>2, <1>3, <1>4 DEF QueueInv, Contiguous
<1>6. ASSUME link # "down"
      PROVE  /\ Contiguous(rpc)' /\ (rpc' # << >> => rpc'[Len(rpc')].to = sink') /\ NextFrom' = NextFrom
  <2>1. PICK c : c = Change(sink, sink + 1)
    OBVIOUS
  <2>2. c \in Changes /\ c.from = sink /\ c.to = sink + 1 /\ rpc' = Append(rpc, c)
    BY <1>2, <1>6, <2>1 DEF Change, Changes, NewSink, IInv, TypeOK
  <2>3. /\ Len(rpc') = Len(rpc) + 1 /\ Len(rpc) \in Nat /\ rpc'[Len(rpc) + 1] = c /\ rpc' # << >>
        /\ \A k \in 1 .. Len(rpc) : rpc'[k] = rpc[k]
        /\ (rpc = << >> <=> Len(rpc) = 0)
    BY <1>3, <2>2, AppendOf
  <2>4. Contiguous(rpc) /\ (rpc # << >> => rpc[Len(rpc)].to = sink)
    BY <1>3, <1>6 DEF PlaceInv
  <2>5. \A k \in 1 .. Len(rpc') - 1 : rpc'[k + 1].from = rpc'[k].to
    <3>1. SUFFICES ASSUME NEW k \in 1 .. Len(rpc') - 1 PROVE rpc'[k + 1].from = rpc'[k].to
      OBVIOUS
    <3>2. CASE k = Len(rpc)
      BY <2>2, <2>3, <2>4, <3>2
    <3>3. CASE k # Len(rpc)
      <4>1. k \in 1 .. Len(rpc) - 1 /\ k \in 1 .. Len(rpc) /\ k + 1 \in 1 .. Len(rpc)
        BY <2>3, <3>3
      <4>2. QED  BY <2>3, <2>4, <4>1 DEF Contiguous
    <3>4. QED  BY <3>2, <3>3
  <2>6. NextFrom' = NextFrom
    <3>1. rpc = << >> => rpc'[1] = c
      BY <2>3
    <3>2. rpc # << >> => rpc'[1] = rpc[1]
      BY <2>3
    <3>3. QED  BY <2>2, <2>3, <3>1, <3>2 DEF NextFrom
  <2>7. QED  BY <1>2, <2>2, <2>3, <2>5, <2>6 DEF Contiguous
<1>7. PlaceInv'
  BY <1>2, <1>3, <1>4, <1>6 DEF PlaceInv, Leads
<1>8. QED  BY <1>5, <1>7

\* The data source registers: nothing of an older connection is pending.
LEMMA PlaceRegister ==
  ASSUME IInv, Register
  PROVE  QueueInv' /\ PlaceInv'
<1>1. SUFFICES ASSUME Clean' PROVE QueueInv' /\ PlaceInv'
  BY DEF QueueInv, PlaceInv
<1>2. /\ UNCHANGED <<sink, stopping, rpc, inbox, realtime_queue_vcc, sync_state, target_block, cursor,
                     last_accepting_block>>
      /\ link = "down" /\ link' = "registered" /\ rpc = << >> /\ Clean
  BY <1>1 DEF Register, sync, shared, db, Clean
<1>3. QueueInv /\ PlaceInv
  BY DEF IInv
<1>4. \A x : At(x) <=> At(x)'
  BY <1>2 DEF At
<1>5. QueueInv'
  BY <1>2, <1>3, <1>4 DEF QueueInv, Contiguous
<1>6. PlaceInv'
  <2>1. Contiguous(rpc)'
    BY <1>2 DEF Contiguous
  <2>2. inbox # << >> /\ inbox[1].kind = "Notification" => Expects(inbox[1].change.from)'
    BY <1>2, <1>3, <1>4 DEF PlaceInv, Expects
  <2>3. QED  BY <1>2, <1>3, <2>1, <2>2 DEF PlaceInv, Leads
<1>7. QED  BY <1>5, <1>6

\* A message is sent behind the others: it follows the last one, or meets the processor.
LEMMA PlaceAppend ==
  ASSUME IInv, Clean, NEW m \in VccMessages, inbox' = Append(inbox, m),
         UNCHANGED <<sink, db, sync, shared>>,
         link' # "down" => Contiguous(rpc)' /\ (rpc' # << >> => rpc'[Len(rpc')].to = sink'),
         m.kind = "Notification" /\ inbox = << >> => Expects(m.change.from),
         m.kind = "Connected" /\ inbox = << >> => realtime_queue_vcc = << >>,
         inbox # << >> =>
           /\ m.kind = "Notification" => Leads(inbox[Len(inbox)], m.change.from)
           /\ m.kind = "Connected" => inbox[Len(inbox)].kind = "Disconnected",
         link' = "up" => Leads(m, NextFrom'),
         link' # "up" /\ ~stopping' => m.kind = "Disconnected"
  PROVE  QueueInv' /\ PlaceInv'
<1>1. QueueInv /\ PlaceInv /\ inbox \in Seq(VccMessages)
  BY DEF IInv, TypeOK
<1>2. /\ Len(inbox) \in Nat /\ Len(inbox') = Len(inbox) + 1 /\ inbox' # << >>
      /\ \A k \in 1 .. Len(inbox) : inbox'[k] = inbox[k]
      /\ inbox'[Len(inbox) + 1] = m /\ (inbox = << >> <=> Len(inbox) = 0)
  BY <1>1, AppendOf
<1>3. UNCHANGED <<sink, cursor, last_accepting_block, target_block, sync_state, realtime_queue_vcc>>
  BY DEF db, sync, shared
<1>4. \A x : (At(x) <=> At(x)') /\ (Expects(x) <=> Expects(x)')
  BY <1>3 DEF At, Expects
<1>5. QueueInv'
  BY <1>1, <1>3, <1>4 DEF QueueInv, Contiguous
<1>6. /\ inbox'[1].kind = "Notification" => Expects(inbox'[1].change.from)
      /\ inbox'[1].kind = "Connected" => realtime_queue_vcc = << >>
  <2>1. CASE inbox = << >>
    BY <1>2, <2>1
  <2>2. CASE inbox # << >>
    <3>1. inbox'[1] = inbox[1]
      BY <1>2, <2>2
    <3>2. QED  BY <1>1, <2>2, <3>1 DEF PlaceInv
  <2>3. QED  BY <2>1, <2>2
<1>7. ASSUME NEW k \in 1 .. Len(inbox') - 1
      PROVE  /\ inbox'[k + 1].kind = "Notification" => Leads(inbox'[k], inbox'[k + 1].change.from)
             /\ inbox'[k + 1].kind = "Connected" => inbox'[k].kind = "Disconnected"
  <2>1. CASE k = Len(inbox)
    BY <1>2, <2>1
  <2>2. CASE k # Len(inbox)
    <3>1. k \in 1 .. Len(inbox) - 1 /\ k \in 1 .. Len(inbox) /\ k + 1 \in 1 .. Len(inbox)
      BY <1>2, <2>2
    <3>2. QED  BY <1>1, <1>2, <3>1, ZenonT(30) DEF PlaceInv
  <2>3. QED  BY <2>1, <2>2
<1>8. PICK x : x = inbox'[1].change.from
  OBVIOUS
<1>9. inbox'[1].kind = "Notification" => Expects(x)'
  BY <1>4, <1>6, <1>8
<1>10. inbox'[Len(inbox')] = m
  BY <1>2
<1>11. PlaceInv'
  BY <1>2, <1>3, <1>6, <1>7, <1>8, <1>9, <1>10 DEF PlaceInv, Leads, Expects, At
<1>12. QED  BY <1>5, <1>11

\* Connections, disconnections, notifications and the shutdown.
LEMMA PlaceSend ==
  ASSUME IInv, Connect \/ Disconnect \/ ForwardChange \/ Shutdown
  PROVE  QueueInv' /\ PlaceInv'
<1>1. SUFFICES ASSUME Clean' PROVE QueueInv' /\ PlaceInv'
  BY DEF QueueInv, PlaceInv
<1>2. PICK m \in VccMessages : Sends(m)
  BY SendEffect DEF IInv
<1>3. UNCHANGED <<sink, db, sync, shared, midway>> /\ inbox' = Append(inbox, m)
  BY <1>2, SendEffect DEF IInv, Sends
<1>4. Clean /\ PlaceInv /\ rpc \in Seq(Changes)
  BY <1>1, <1>2, <1>3 DEF Sends, Clean, ForwardChange, IInv, TypeOK
<1>5. CASE Connect /\ m.kind = "Connected" /\ m.sink = sink /\ UNCHANGED <<rpc, late, stopping>>
  <2>1. link = "registered" /\ link' = "up" /\ ~stopping
    BY <1>5 DEF Connect, IInv, BoundInv
  <2>2. NextFrom' = NextFrom
    BY <1>3, <1>5 DEF NextFrom
  <2>3. Leads(m, NextFrom')
    BY <1>5, <2>2, NextFromBound DEF Leads
  <2>4. Contiguous(rpc)' /\ (rpc' # << >> => rpc'[Len(rpc')].to = sink')
    BY <1>3, <1>4, <1>5, <2>1 DEF PlaceInv, Contiguous
  <2>5. /\ inbox = << >> => realtime_queue_vcc = << >>
        /\ inbox # << >> => inbox[Len(inbox)].kind = "Disconnected"
    BY <1>4, <2>1 DEF PlaceInv
  <2>6. QED  BY <1>3, <1>4, <1>5, <2>1, <2>3, <2>4, <2>5, PlaceAppend, ZenonT(30)
<1>6. CASE (Disconnect /\ m.kind = "Disconnected") \/ (Shutdown /\ m.kind = "Shutdown")
  <2>1. link' = "down" /\ (~stopping' => m.kind = "Disconnected")
    BY <1>6 DEF Disconnect, Shutdown
  <2>2. QED  BY <1>3, <1>4, <1>6, <2>1, PlaceAppend
<1>7. CASE ForwardChange /\ rpc # << >> /\ m.kind = "Notification" /\ m.change = rpc[1]
  <2>1. link = "up" /\ link' = "up" /\ rpc' = Tail(rpc)
    BY <1>1, <1>7 DEF ForwardChange, Clean, IInv, TypeOK
  <2>2. /\ Len(rpc') = Len(rpc) - 1 /\ Len(rpc) \in Nat \ {0}
        /\ \A k \in 1 .. Len(rpc) - 1 : rpc'[k] = rpc[k + 1]
        /\ (rpc' = << >> <=> Len(rpc) = 1)
    BY <1>4, <1>7, <2>1, TailOf
  <2>3. Contiguous(rpc) /\ rpc[Len(rpc)].to = sink
    BY <1>4, <1>7, <2>1 DEF PlaceInv
  <2>4. \A k \in 1 .. Len(rpc') - 1 : rpc'[k + 1].from = rpc'[k].to
    <3>1. \A k \in 1 .. Len(rpc') - 1 : k + 1 \in 1 .. Len(rpc) - 1 /\ k \in 1 .. Len(rpc) - 1
      BY <2>2
    <3>2. QED  BY <2>2, <2>3, <3>1 DEF Contiguous
  <2>5. rpc' # << >> => rpc'[Len(rpc')].to = sink'
    <3>1. rpc' # << >> => Len(rpc') \in 1 .. Len(rpc) - 1 /\ Len(rpc') + 1 = Len(rpc)
      BY <2>2
    <3>2. QED  BY <1>3, <2>2, <2>3, <3>1
  <2>6. NextFrom' = rpc[1].to
    <3>1. CASE rpc' = << >>
      BY <1>3, <2>2, <2>3, <3>1 DEF NextFrom
    <3>2. CASE rpc' # << >>
      <4>1. 1 \in 1 .. Len(rpc) - 1
        BY <2>2, <3>2
      <4>2. QED  BY <2>2, <2>3, <3>2, <4>1 DEF NextFrom, Contiguous
    <3>3. QED  BY <3>1, <3>2
  <2>7. NextFrom = rpc[1].from
    BY <1>7, NextFromBound
  <2>8. /\ inbox = << >> => Expects(m.change.from)
        /\ inbox # << >> => Leads(inbox[Len(inbox)], m.change.from)
    BY <1>4, <1>7, <2>1, <2>7 DEF PlaceInv
  <2>9. Leads(m, NextFrom')
    BY <1>7, <2>6 DEF Leads
  <2>10. Contiguous(rpc)'
    BY <2>4 DEF Contiguous
  <2>11. QED  BY <1>3, <1>4, <1>7, <2>1, <2>5, <2>8, <2>9, <2>10, PlaceAppend
<1>8. QED  BY <1>2, <1>5, <1>6, <1>7 DEF Sends

\* A message is read: where it leads, the processor is or will be.
LEMMA PlaceTail ==
  ASSUME IInv, Clean, inbox # << >>, inbox' = Tail(inbox), UNCHANGED node,
         \A x \in Nat : Leads(inbox[1], x) => Expects(x)',
         inbox[1].kind = "Disconnected" => realtime_queue_vcc' = << >>
  PROVE  PlaceInv'
<1>1. PlaceInv /\ TypeOK /\ inbox \in Seq(VccMessages)
  BY DEF IInv, TypeOK
<1>2. /\ Len(inbox) \in Nat \ {0} /\ Len(inbox') = Len(inbox) - 1
      /\ \A k \in 1 .. Len(inbox) - 1 : inbox'[k] = inbox[k + 1]
      /\ (inbox' = << >> <=> Len(inbox) = 1) /\ DOMAIN inbox = 1 .. Len(inbox)
  BY <1>1, TailOf
<1>3. UNCHANGED <<sink, link, stopping, rpc, NextFrom>> /\ NextFrom \in Nat
  BY NextFromBound DEF node, NextFrom
<1>4. inbox' # << >> => 1 \in 1 .. Len(inbox) - 1
  BY <1>2
<1>5. inbox' # << >> /\ inbox'[1].kind = "Notification" => Expects(inbox[1].change.from)'
  <2>1. SUFFICES ASSUME inbox' # << >>, inbox'[1].kind = "Notification"
                 PROVE  Expects(inbox[1].change.from)'
    OBVIOUS
  <2>2. PICK x : x = inbox[2].change.from
    OBVIOUS
  <2>3. inbox'[1] = inbox[2] /\ Leads(inbox[1], x)
    <3>1. 1 \in 1 .. Len(inbox) - 1 /\ inbox'[1] = inbox[1 + 1] /\ 1 + 1 = 2
      BY <1>2, <1>4, <2>1
    <3>2. inbox[1 + 1].kind = "Notification" => Leads(inbox[1], inbox[1 + 1].change.from)
      BY <1>1, <3>1, Zenon DEF PlaceInv
    <3>3. QED  BY <2>1, <2>2, <3>1, <3>2
  <2>4. x \in Nat
    BY <1>1, <1>2, <1>4, <2>1, <2>2, <2>3, Numeric
  <2>5. Expects(x)'
    BY <2>3, <2>4
  <2>6. QED  BY <2>2, <2>3, <2>5
<1>6. inbox' # << >> /\ inbox'[1].kind = "Connected" => realtime_queue_vcc' = << >>
  BY <1>1, <1>2, <1>4 DEF PlaceInv
<1>7. \A k \in 1 .. Len(inbox') - 1 :
        /\ inbox'[k + 1].kind = "Notification" => Leads(inbox'[k], inbox'[k + 1].change.from)
        /\ inbox'[k + 1].kind = "Connected" => inbox'[k].kind = "Disconnected"
  <2>1. \A k \in 1 .. Len(inbox') - 1 : k \in 1 .. Len(inbox) - 1 /\ k + 1 \in 1 .. Len(inbox) - 1
    BY <1>2
  <2>2. \A k \in 1 .. Len(inbox) - 1 :
          /\ inbox[k + 1].kind = "Notification" => Leads(inbox[k], inbox[k + 1].change.from)
          /\ inbox[k + 1].kind = "Connected" => inbox[k].kind = "Disconnected"
    BY <1>1, Zenon DEF PlaceInv
  <2>3. QED  BY <1>2, <2>1, <2>2, ZenonT(20)
<1>8. inbox' # << >> => inbox'[Len(inbox')] = inbox[Len(inbox)]
  <2>1. inbox' # << >> => Len(inbox') \in 1 .. Len(inbox) - 1 /\ Len(inbox') + 1 = Len(inbox)
    BY <1>2
  <2>2. QED  BY <1>2, <2>1
<1>9. link = "up" /\ inbox' = << >> => Expects(NextFrom)'
  <2>1. PICK x : x = NextFrom
    OBVIOUS
  <2>2. link = "up" /\ inbox' = << >> => Expects(x)'
    BY <1>1, <1>2, <1>3, <2>1 DEF PlaceInv
  <2>3. QED  BY <1>3, <2>1, <2>2
<1>10. link # "up" /\ ~stopping /\ inbox' = << >> => realtime_queue_vcc' = << >>
  BY <1>1, <1>2 DEF PlaceInv
<1>11. link # "down" => Contiguous(rpc)' /\ (rpc' # << >> => rpc'[Len(rpc')].to = sink')
  BY <1>1, <1>3 DEF PlaceInv, Contiguous
<1>12. link = "up" /\ inbox' # << >> => Leads(inbox'[Len(inbox')], NextFrom')
  BY <1>1, <1>3, <1>8 DEF PlaceInv
<1>13. link # "up" /\ ~stopping /\ inbox' # << >> => inbox'[Len(inbox')].kind = "Disconnected"
  BY <1>1, <1>8 DEF PlaceInv
<1>14. QED
  BY <1>3, <1>5, <1>6, <1>7, <1>9, <1>10, <1>11, <1>12, <1>13, ZenonT(30) DEF PlaceInv, Leads

\* An announcement is taken: the processor will be at its sink, or is past it.
LEMMA PlaceConnected ==
  ASSUME IInv, ConnectInitial \/ ConnectSyncing \/ ConnectSynced
  PROVE  QueueInv' /\ PlaceInv'
<1>1. SUFFICES ASSUME Clean' PROVE QueueInv' /\ PlaceInv'
  BY DEF QueueInv, PlaceInv
<1>2. /\ inbox # << >> /\ inbox' = Tail(inbox) /\ inbox[1].kind = "Connected"
      /\ Head(inbox) = inbox[1] /\ 1 \in Announced(inbox)
      /\ UNCHANGED <<node, cursor, realtime_queue_vcc, late>>
  <2>1. inbox \in Seq(VccMessages)
    BY DEF IInv, TypeOK
  <2>2. inbox # << >> /\ inbox' = Tail(inbox) /\ Head(inbox).kind = "Connected"
    BY DEF ConnectInitial, ConnectSyncing, ConnectSynced, Take
  <2>3. UNCHANGED <<node, cursor, realtime_queue_vcc, late>>
    BY DEF ConnectInitial, ConnectSyncing, ConnectSynced, db, shared, history
  <2>4. QED  BY <2>1, <2>2, <2>3, TailOf DEF Announced
<1>3. /\ sink \in Nat /\ cursor \in Nat /\ target_block \in Nat /\ last_accepting_block \in Nat
      /\ inbox[1].sink \in Nat
  BY <1>2, Numeric DEF IInv
<1>4. Clean /\ (sync_state = "Synced" => last_accepting_block = cursor)
  <2>1. last_accepting_block <= cursor
    BY DEF IInv, BoundInv
  <2>2. Clean
    <3>1. UNCHANGED midway \/ midway' = (midway \/ last_accepting_block < cursor)
      BY DEF ConnectInitial, ConnectSyncing, ConnectSynced, history
    <3>2. ~midway
      BY <1>1, <3>1 DEF Clean
    <3>3. ~late
      BY <1>1, <1>2 DEF Clean
    <3>4. QED  BY <3>2, <3>3 DEF Clean
  <2>3. sync_state = "Synced" => ~(last_accepting_block < cursor)
    BY <1>1 DEF Clean, ConnectInitial, ConnectSyncing, ConnectSynced
  <2>4. QED  BY <1>3, <2>1, <2>2, <2>3
<1>5. /\ QueueInv /\ PlaceInv /\ realtime_queue_vcc = << >> /\ realtime_queue_vcc' = << >>
      /\ sync_state = "Initial" => cursor <= inbox[1].sink
      /\ sync_state = "Syncing" => target_block <= inbox[1].sink
  BY <1>2, <1>4 DEF IInv, PlaceInv, AnnounceInv
<1>6. \/ /\ sync_state' = "Syncing" /\ target_block' = inbox[1].sink
         /\ sync_state = "Synced" => last_accepting_block < inbox[1].sink
      \/ /\ UNCHANGED <<sync_state, last_accepting_block>> /\ sync_state = "Synced"
         /\ last_accepting_block >= inbox[1].sink
  BY <1>2 DEF ConnectInitial, ConnectSyncing, ConnectSynced, SpawnSyncer, sync
<1>7. sync_state \in {"Initial", "Syncing", "Synced"} /\ (sync_state = "Syncing" => cursor <= target_block)
  BY <1>4, <1>5 DEF IInv, TypeOK, QueueInv
<1>8. sync_state' = "Syncing" => cursor' <= target_block'
  <2>1. cursor' = cursor
    BY <1>2, Zenon
  <2>2. PICK s \in Nat : s = inbox[1].sink
    BY <1>3, Zenon
  <2>3. cursor <= s \/ (sync_state = "Synced" /\ s <= last_accepting_block /\ sync_state' = sync_state)
    <3>1. CASE sync_state = "Initial"
      BY <1>5, <2>2, <3>1, Zenon
    <3>2. CASE sync_state = "Syncing"
      <4>1. cursor <= target_block /\ target_block <= s
        BY <1>5, <1>7, <2>2, <3>2, Zenon
      <4>2. QED  BY <1>3, <4>1
    <3>3. CASE sync_state = "Synced"
      <4>1. cursor < s \/ (s <= cursor /\ sync_state' = sync_state)
        BY <1>4, <1>6, <2>2, <3>3
      <4>2. QED  BY <1>3, <1>4, <3>3, <4>1
    <3>4. QED  BY <1>7, <3>1, <3>2, <3>3, Zenon
  <2>4. sync_state' = "Syncing" => target_block' = s /\ cursor <= s
    BY <1>6, <2>2, <2>3, Zenon
  <2>5. QED  BY <2>1, <2>4, Zenon
<1>9. \A x \in Nat : x <= inbox[1].sink => At(x)'
  BY <1>2, <1>3, <1>4, <1>6 DEF At
<1>10. \A x \in Nat : Leads(inbox[1], x) => Expects(x)'
  BY <1>2, <1>5, <1>9 DEF Leads, Expects
<1>11. PlaceInv'
  BY <1>2, <1>4, <1>10, PlaceTail
<1>12. QueueInv'
  BY <1>5, <1>8 DEF QueueInv, Contiguous
<1>13. QED  BY <1>11, <1>12

\* The end of a connection, or of the run, is taken.
LEMMA PlaceEnd ==
  ASSUME IInv, Disconnected \/ ShutdownReceived
  PROVE  QueueInv' /\ PlaceInv'
<1>1. SUFFICES ASSUME Clean' PROVE QueueInv' /\ PlaceInv'
  BY DEF QueueInv, PlaceInv
<1>2. /\ inbox # << >> /\ inbox' = Tail(inbox) /\ Head(inbox).kind \in {"Disconnected", "Shutdown"}
      /\ UNCHANGED <<node, db, sync, history>>
      /\ IF Head(inbox).kind = "Disconnected" THEN realtime_queue_vcc' = << >> ELSE UNCHANGED realtime_queue_vcc
  BY DEF Disconnected, ShutdownReceived, Take
<1>3. Head(inbox) = inbox[1]
  BY <1>2, TailOf DEF IInv, TypeOK
<1>4. Clean /\ QueueInv
  BY <1>1, <1>2 DEF Clean, history, IInv
<1>5. \A x : At(x) <=> At(x)'
  BY <1>2 DEF At, sync, db
<1>6. QueueInv'
  BY <1>2, <1>4, <1>5 DEF QueueInv, Contiguous, sync, db
<1>7. PlaceInv'
  BY <1>2, <1>3, <1>4, PlaceTail DEF Leads
<1>8. QED  BY <1>6, <1>7

\* A notification is taken: it is queued behind the others, or recorded.
LEMMA PlaceNotified ==
  ASSUME IInv, HandleRealtimeVcc
  PROVE  QueueInv' /\ PlaceInv'
<1>1. SUFFICES ASSUME Clean' PROVE QueueInv' /\ PlaceInv'
  BY DEF QueueInv, PlaceInv
<1>2. /\ inbox # << >> /\ inbox' = Tail(inbox) /\ Head(inbox).kind = "Notification" /\ Head(inbox) = inbox[1]
      /\ UNCHANGED <<node, sync_state, target_block, history>>
  BY TailOf DEF HandleRealtimeVcc, Take, IInv, TypeOK
<1>3. PICK c : c = inbox[1].change
  OBVIOUS
<1>4. Clean /\ QueueInv /\ PlaceInv /\ OrderInv /\ realtime_queue_vcc \in Seq(Changes)
  BY <1>1, <1>2 DEF Clean, history, IInv, TypeOK
<1>5. c \in Changes /\ c.from \in Nat /\ c.to \in Nat /\ cursor \in Nat
  <2>1. TypeOK
    BY Zenon DEF IInv
  <2>2. inbox \in Seq(VccMessages)
    BY <2>1, Zenon DEF TypeOK
  <2>3. 1 \in DOMAIN inbox
    BY <1>2, <2>2
  <2>4. c \in Changes
    BY <1>2, <1>3, <2>1, <2>3, Numeric, Zenon
  <2>5. QED  BY <2>1, <2>4, Numeric, Zenon
<1>6. sync_state # "Initial" /\ Expects(c.from)
  BY <1>2, <1>3, <1>4 DEF PlaceInv, OrderInv, Clean
<1>7. CASE realtime_queue_vcc' = Append(realtime_queue_vcc, c)
           /\ UNCHANGED <<cursor, last_accepting_block>>
  <2>1. PICK q : q = realtime_queue_vcc
    OBVIOUS
  <2>2. /\ Len(q) \in Nat /\ Len(realtime_queue_vcc') = Len(q) + 1 /\ realtime_queue_vcc' # << >>
        /\ \A k \in 1 .. Len(q) : realtime_queue_vcc'[k] = q[k]
        /\ realtime_queue_vcc'[Len(q) + 1] = c /\ (q = << >> <=> Len(q) = 0)
    BY <1>4, <1>5, <1>7, <2>1, AppendOf
  <2>3. \A x : At(x) <=> At(x)'
    BY <1>2, <1>7 DEF At
  <2>4. \A x \in Nat : Leads(inbox[1], x) => Expects(x)'
    BY <1>2, <1>3, <2>2 DEF Leads, Expects
  <2>5. \A k \in 1 .. Len(q) : realtime_queue_vcc'[k + 1].from = realtime_queue_vcc'[k].to
    <3>1. SUFFICES ASSUME NEW k \in 1 .. Len(q)
                   PROVE  realtime_queue_vcc'[k + 1].from = realtime_queue_vcc'[k].to
      OBVIOUS
    <3>2. CASE k = Len(q)
      <4>1. c.from = q[Len(q)].to
        BY <1>6, <2>1, <2>2, <3>1 DEF Expects
      <4>2. QED  BY <2>2, <3>2, <4>1
    <3>3. CASE k # Len(q)
      <4>1. k \in 1 .. Len(q) - 1 /\ k + 1 \in 1 .. Len(q)
        BY <2>2, <3>3
      <4>2. QED  BY <1>4, <2>1, <2>2, <4>1 DEF QueueInv, Contiguous
    <3>4. QED  BY <3>2, <3>3
  <2>6. PICK x : x = realtime_queue_vcc'[1].from
    OBVIOUS
  <2>7. At(x)
    <3>1. CASE q = << >>
      BY <1>6, <2>1, <2>2, <2>6, <3>1 DEF Expects
    <3>2. CASE q # << >>
      <4>1. 1 \in 1 .. Len(q)
        BY <2>2, <3>2
      <4>2. QED  BY <1>4, <2>1, <2>2, <2>6, <3>2, <4>1 DEF QueueInv
    <3>3. QED  BY <3>1, <3>2
  <2>8. At(x)'
    BY <2>3, <2>7
  <2>9. QueueInv'
    <3>1. sync_state' = "Syncing" => cursor' <= target_block'
      BY <1>2, <1>4, <1>7 DEF QueueInv
    <3>2. Contiguous(realtime_queue_vcc)'
      BY <2>2, <2>5 DEF Contiguous
    <3>3. QED  BY <2>6, <2>8, <3>1, <3>2 DEF QueueInv
  <2>10. PlaceInv'
    BY <1>2, <1>4, <2>4, PlaceTail
  <2>11. QED  BY <2>9, <2>10
<1>8. CASE sync_state = "Synced" /\ realtime_queue_vcc = << >> /\ Record(c) /\ UNCHANGED realtime_queue_vcc
  <2>1. At(c.to)'
    BY <1>2, <1>8 DEF At, Record
  <2>2. \A x \in Nat : Leads(inbox[1], x) => Expects(x)'
    BY <1>2, <1>3, <1>8, <2>1 DEF Leads, Expects
  <2>3. QueueInv'
    BY <1>2, <1>4, <1>8 DEF QueueInv, Contiguous
  <2>4. PlaceInv'
    BY <1>2, <1>4, <2>2, PlaceTail
  <2>5. QED  BY <2>3, <2>4
<1>9. QED  BY <1>2, <1>3, <1>6, <1>7, <1>8 DEF HandleRealtimeVcc

\* A queued change is recorded: the next one starts where it ends.
LEMMA PlaceDrain ==
  ASSUME IInv, DrainQueue
  PROVE  QueueInv' /\ PlaceInv'
<1>1. /\ UNCHANGED <<node, inbox, sync_state, target_block, history>> /\ sync_state = "Synced"
  BY DEF DrainQueue, IInv, BoundInv
<1>2. CASE UNCHANGED <<realtime_queue_vcc, cursor, last_accepting_block>>
  BY <1>1, <1>2, PlaceSame DEF At, Clean, history
<1>3. CASE /\ realtime_queue_vcc # << >> /\ Record(Head(realtime_queue_vcc))
           /\ realtime_queue_vcc' = Tail(realtime_queue_vcc)
  <2>1. SUFFICES ASSUME Clean' PROVE QueueInv' /\ PlaceInv'
    BY DEF QueueInv, PlaceInv
  <2>2. Clean /\ QueueInv /\ PlaceInv /\ realtime_queue_vcc \in Seq(Changes)
    BY <1>1, <2>1 DEF Clean, history, IInv, TypeOK
  <2>3. PICK q : q = realtime_queue_vcc
    OBVIOUS
  <2>4. /\ Len(q) \in Nat \ {0} /\ Len(realtime_queue_vcc') = Len(q) - 1 /\ Head(q) = q[1]
        /\ \A k \in 1 .. Len(q) - 1 : realtime_queue_vcc'[k] = q[k + 1]
        /\ (realtime_queue_vcc' = << >> <=> Len(q) = 1)
    BY <1>3, <2>2, <2>3, TailOf
  <2>5. last_accepting_block' = q[1].to
    BY <1>3, <2>3, <2>4 DEF Record
  <2>6. At(q[1].to)'
    BY <1>1, <2>5 DEF At
  <2>7. \A k \in 1 .. Len(q) - 1 : q[k + 1].from = q[k].to
    BY <2>2, <2>3 DEF QueueInv, Contiguous
  <2>8. realtime_queue_vcc' # << >> => realtime_queue_vcc'[1].from = q[1].to
    <3>1. realtime_queue_vcc' # << >> => 1 \in 1 .. Len(q) - 1
      BY <2>4
    <3>2. QED  BY <2>4, <2>7, <3>1
  <2>9. \A k \in 1 .. Len(realtime_queue_vcc') - 1 : realtime_queue_vcc'[k + 1].from = realtime_queue_vcc'[k].to
    <3>1. \A k \in 1 .. Len(realtime_queue_vcc') - 1 : k \in 1 .. Len(q) - 1 /\ k + 1 \in 1 .. Len(q) - 1
      BY <2>4
    <3>2. QED  BY <2>4, <2>7, <3>1
  <2>10. QueueInv'
    <3>1. PICK x : x = q[1].to
      OBVIOUS
    <3>2. realtime_queue_vcc' # << >> => At(realtime_queue_vcc[1].from)'
      BY <2>6, <2>8, <3>1 DEF At
    <3>3. QED  BY <1>1, <2>9, <3>2 DEF QueueInv, Contiguous
  <2>11. \A x : Expects(x) => Expects(x)'
    <3>1. SUFFICES ASSUME NEW x, x = q[Len(q)].to PROVE Expects(x)'
      BY <1>3, <2>3 DEF Expects
    <3>2. CASE Len(q) = 1
      BY <2>4, <2>6, <3>1, <3>2 DEF Expects, At
    <3>3. CASE Len(q) # 1
      <4>1. Len(realtime_queue_vcc') \in 1 .. Len(q) - 1 /\ Len(realtime_queue_vcc') + 1 = Len(q)
        BY <2>4, <3>3
      <4>2. realtime_queue_vcc'[Len(realtime_queue_vcc')] = q[Len(q)]
        BY <2>4, <4>1
      <4>3. QED  BY <2>4, <3>1, <3>3, <4>2 DEF Expects
    <3>4. QED  BY <3>2, <3>3
  <2>12. UNCHANGED <<sink, link, stopping, rpc, NextFrom>>
    BY <1>1 DEF node, NextFrom
  <2>13. PlaceInv'
    <3>1. inbox # << >> /\ inbox[1].kind = "Notification" => Expects(inbox[1].change.from)'
      <4>1. PICK x : x = inbox[1].change.from
        OBVIOUS
      <4>2. inbox # << >> /\ inbox[1].kind = "Notification" => Expects(x)'
        BY <2>2, <2>11, <4>1 DEF PlaceInv
      <4>3. QED  BY <1>1, <4>1, <4>2
    <3>2. link = "up" /\ inbox = << >> => Expects(NextFrom)'
      <4>1. PICK x : x = NextFrom
        OBVIOUS
      <4>2. link = "up" /\ inbox = << >> => Expects(x)'
        BY <2>2, <2>11, <4>1 DEF PlaceInv
      <4>3. QED  BY <2>12, <4>1, <4>2
    <3>3. QED  BY <1>1, <1>3, <2>2, <2>12, <3>1, <3>2 DEF PlaceInv, Contiguous, Leads
  <2>14. QED  BY <2>10, <2>13
<1>4. QED  BY <1>2, <1>3 DEF DrainQueue

\* No step loses a change.
LEMMA PlaceNext ==
  ASSUME IInv, [Next]_vars
  PROVE  QueueInv' /\ PlaceInv'
<1>1. CASE Quiescent
  <2>1. UNCHANGED <<node, inbox, db, sync, shared, history>>
    BY <1>1, QuiescentEffect
  <2>2. (Clean' <=> Clean) /\ \A x : At(x) <=> At(x)'
    BY <2>1 DEF Clean, At, db, sync, history
  <2>3. QED  BY <2>1, <2>2, PlaceSame DEF shared, sync, db, IInv, QueueInv
<1>2. CASE Restart
  <2>1. /\ link' = "down" /\ stopping' = FALSE /\ rpc' = << >> /\ inbox' = << >>
        /\ realtime_queue_vcc' = << >> /\ sync_state' = "Initial"
    BY <1>2, Zenon DEF Restart
  <2>2. \A k : ~(k \in 1 .. Len(<< >>) - 1)
    OBVIOUS
  <2>3. QueueInv'
    BY <2>1, <2>2, Zenon DEF QueueInv, Contiguous
  <2>4. PlaceInv'
    BY <2>1, <2>2, Zenon DEF PlaceInv
  <2>5. QED  BY <2>3, <2>4
<1>3. QED
  BY ZenonT(30), <1>1, <1>2, PlaceProcess, PlaceNewSink, PlaceRegister, PlaceSend, PlaceConnected, PlaceEnd,
     PlaceNotified, PlaceDrain DEF Next, DataSourceStep, ReceiveVcc, ReceiveSyncer, ProcessStep, Quiescent

-----------------------------------------------------------------------------
(* What is recorded.                                                        *)

\* Each block is recorded as in the chain of the block b or as in the cursor's.
Mixed(b) ==
  Chain[b] \cap Chain[cursor] \subseteq accepting /\ accepting \subseteq Chain[b] \cup Chain[cursor]

\* Recording a change that the processor can take up.
LEMMA MixedRecord ==
  ASSUME IInv, Clean, sync_state = "Synced", NEW c \in Changes, Step(c), At(c.from), Record(c)
  PROVE  Mixed(c.to)'
<1>1. /\ cursor \in Nat /\ last_accepting_block \in Nat /\ c.from \in Nat /\ c.to \in Nat
      /\ c.to = c.from + 1 /\ last_accepting_block <= cursor
  BY Numeric DEF IInv, Step, BoundInv
<1>2. Mixed(last_accepting_block)
  BY DEF IInv, ChainInv, Mixed
<1>3. Mixed(c.from) /\ c.from <= cursor
  BY <1>1, <1>2 DEF At, Mixed
<1>4. CASE c.to > cursor
  <2>1. c.from = cursor /\ cursor' = c.to
    BY <1>1, <1>3, <1>4 DEF Record
  <2>2. QED  BY <1>3, <2>1 DEF Mixed, Record, Added, Removed
<1>5. CASE ~(c.to > cursor)
  <2>1. cursor' = cursor
    BY <1>5 DEF Record
  <2>2. QED  BY <1>3, <2>1 DEF Mixed, Record, Added, Removed
<1>6. QED  BY <1>4, <1>5, ZenonT(30)

\* A step that leaves the records and the processor's place alone.
LEMMA ChainSame ==
  ASSUME ChainInv, Clean' => Clean, UNCHANGED <<accepting, cursor, last_accepting_block, sync_state>>
  PROVE  ChainInv'
BY DEF ChainInv

\* What is recorded is the chain of the processor's place, or lies between it and the cursor's.
LEMMA ChainNext ==
  ASSUME IInv, [Next]_vars
  PROVE  ChainInv'
<1>1. SUFFICES ASSUME Clean' PROVE ChainInv'
  BY DEF ChainInv
<1>2. /\ ChainInv /\ cursor \in Nat /\ last_accepting_block \in Nat /\ last_accepting_block <= cursor
      /\ sync_state \in {"Initial", "Syncing", "Synced"}
  BY Numeric DEF IInv, BoundInv, TypeOK
<1>3. CASE NewSink \/ Disconnected \/ ShutdownReceived \/ Quiescent
  BY <1>2, <1>3, ChainSame, QuiescentEffect DEF NewSink, Disconnected, ShutdownReceived, db, sync, history, Clean
<1>4. CASE Register
  <2>1. Clean
    BY <1>1, <1>4 DEF Register, Clean
  <2>2. QED  BY <1>2, <1>4, <2>1, ChainSame DEF Register, db, sync
<1>5. CASE Connect \/ Disconnect \/ ForwardChange \/ Shutdown
  <2>1. Clean
    <3>1. UNCHANGED midway /\ (UNCHANGED late \/ late' = (late \/ link = "down"))
      BY <1>5 DEF Connect, Disconnect, ForwardChange, Shutdown, history
    <3>2. ~midway
      BY <1>1, <3>1 DEF Clean
    <3>3. ~late
      BY <1>1, <3>1 DEF Clean
    <3>4. QED  BY <3>2, <3>3 DEF Clean
  <2>2. QED  BY <1>2, <1>5, <2>1, ChainSame, SendEffect DEF IInv, db, sync
<1>6. CASE ConnectInitial
  BY <1>1, <1>2, <1>6 DEF ConnectInitial, SpawnSyncer, ChainInv, Clean, db, history
<1>7. CASE ConnectSyncing
  BY <1>1, <1>2, <1>7, ChainSame DEF ConnectSyncing, Clean, db, history
<1>8. CASE ConnectSynced
  <2>1. ~midway /\ ~(last_accepting_block < cursor)
    BY <1>1, <1>8 DEF ConnectSynced, Clean
  <2>2. Clean /\ last_accepting_block = cursor
    BY <1>1, <1>2, <1>8, <2>1 DEF ConnectSynced, Clean
  <2>3. accepting = Chain[last_accepting_block]
    BY <1>2, <1>8, <2>2 DEF ConnectSynced, ChainInv
  <2>4. UNCHANGED <<accepting, cursor, last_accepting_block>> /\ sync_state' \in {"Syncing", "Synced"}
    BY <1>8 DEF ConnectSynced, SpawnSyncer, db, sync
  <2>5. QED  BY <2>2, <2>3, <2>4 DEF ChainInv
<1>9. CASE HandleRealtimeVcc
  <2>1. PICK c : c = Head(inbox).change
    OBVIOUS
  <2>2. Clean /\ UNCHANGED sync_state
    BY <1>1, <1>9 DEF HandleRealtimeVcc, Clean, history
  <2>3. CASE UNCHANGED <<accepting, cursor, last_accepting_block>>
    BY <1>2, <2>2, <2>3, ChainSame
  <2>4. CASE sync_state = "Synced" /\ realtime_queue_vcc = << >> /\ Record(c)
    <3>1. inbox # << >> /\ inbox[1].kind = "Notification" /\ c = inbox[1].change /\ 1 \in DOMAIN inbox
      <4>1. inbox # << >> /\ Head(inbox).kind = "Notification"
        BY <1>9, Zenon DEF HandleRealtimeVcc, Take
      <4>2. inbox \in Seq(VccMessages)
        BY Zenon DEF IInv, TypeOK
      <4>3. Head(inbox) = inbox[1] /\ 1 \in DOMAIN inbox
        BY <4>1, <4>2
      <4>4. QED  BY <2>1, <4>1, <4>3
    <3>2. Step(c) /\ c \in Changes
      BY <3>1 DEF IInv, StepInv, Step
    <3>3. At(c.from)
      BY <2>2, <2>4, <3>1 DEF IInv, PlaceInv, Expects
    <3>4. Mixed(c.to)' /\ last_accepting_block' = c.to
      BY <2>2, <2>4, <3>2, <3>3, MixedRecord DEF Record
    <3>5. QED  BY <2>2, <2>4, <3>4 DEF ChainInv, Mixed
  <2>5. QED  BY <1>9, <2>1, <2>3, <2>4 DEF HandleRealtimeVcc
<1>10. CASE DrainQueue
  <2>1. PICK c : c = Head(realtime_queue_vcc)
    OBVIOUS
  <2>2. Clean /\ UNCHANGED sync_state /\ sync_state = "Synced"
    BY <1>1, <1>10 DEF DrainQueue, Clean, history, IInv, BoundInv
  <2>3. CASE UNCHANGED <<accepting, cursor, last_accepting_block>>
    BY <1>2, <2>2, <2>3, ChainSame, ZenonT(30)
  <2>4. CASE realtime_queue_vcc # << >> /\ Record(c)
    <3>1. 1 \in DOMAIN realtime_queue_vcc /\ c = realtime_queue_vcc[1]
      BY <2>1, <2>4, TailOf DEF IInv, TypeOK
    <3>2. Step(c) /\ c \in Changes
      BY <3>1 DEF IInv, StepInv, Step
    <3>3. At(c.from)
      BY <2>2, <2>4, <3>1 DEF IInv, QueueInv
    <3>4. Mixed(c.to)' /\ last_accepting_block' = c.to
      BY <2>2, <2>4, <3>2, <3>3, MixedRecord DEF Record
    <3>5. QED  BY <2>2, <3>4 DEF ChainInv, Mixed
  <2>5. QED  BY <1>10, <2>1, <2>3, <2>4 DEF DrainQueue
<1>11. CASE ProcessStep
  <2>1. Clean
    BY <1>1, <1>11, ProcessEffect DEF Clean, history
  <2>2. CASE UNCHANGED <<accepting, cursor, last_accepting_block, sync_state>>
    BY <1>2, <2>1, <2>2, ChainSame
  <2>3. ASSUME NEW c \in Changes, Batched(c) PROVE ChainInv'
    <3>1. accepting = Chain[c.from]
      BY <1>2, <2>1, <2>3 DEF Batched, Unanswered, ChainInv
    <3>2. accepting' = Chain[c.to] /\ last_accepting_block' = c.to /\ sync_state' \in {"Syncing", "Synced"}
      BY <2>3, <3>1 DEF Batched, Record, Added, Removed
    <3>3. QED  BY <3>2 DEF ChainInv
  <2>4. QED  BY <1>11, <2>2, <2>3, ProcessEffect
<1>12. CASE Restart
  <2>1. ~midway /\ ~(sync_state # "Initial" /\ last_accepting_block < cursor)
    BY <1>1, <1>12 DEF Restart, Clean
  <2>2. Clean
    BY <1>1, <1>12, <2>1 DEF Restart, Clean
  <2>3. accepting = Chain[cursor]
    BY <1>2, <2>1, <2>2 DEF ChainInv
  <2>4. QED  BY <1>12, <2>3 DEF Restart, ChainInv, db
<1>13. QED
  BY <1>3, <1>4, <1>5, <1>6, <1>7, <1>8, <1>9, <1>10, <1>11, <1>12, ZenonT(30)
     DEF Next, DataSourceStep, ReceiveVcc, ReceiveSyncer, ProcessStep, Quiescent

-----------------------------------------------------------------------------
(* Chains of blocks, by induction, and the theorems.  The library is taken  *)
(* here, where it is needed.                                                *)

LOCAL INSTANCE WellFoundedInduction

\* Every set of naturals that is not empty has a least element: induction over the blocks
\* is done on the least counterexample.
LEMMA Least ==
  ASSUME NEW S, S \subseteq Nat, S # {}
  PROVE  \E n \in S : \A m \in S : n <= m
<1> DEFINE R == {ss \in Nat \X Nat : ss[1] < ss[2]}
<1>1. IsWellFoundedOn(R, Nat)
  BY NatLessThanWellFounded DEF OpToRel
<1>2. PICK n \in S : \A y \in S : ~(<<y, n>> \in R)
  BY <1>1, WFMin
<1>3. ASSUME NEW m \in S PROVE n <= m
  <2>1. <<m, n>> \in Nat \X Nat /\ <<m, n>>[1] = m /\ <<m, n>>[2] = n
    OBVIOUS
  <2>2. ~(m < n)  BY <1>2, <2>1
  <2>3. QED  BY <2>2
<1>4. QED  BY <1>3

\* A block and the blocks its selected parents lead to, without a recursion.
Closed(S) == \A y \in S : y # 0 => Parent[y] \in S
Ancestors(b) == {x \in Blocks \ {0} : \A S \in SUBSET Blocks : b \in S /\ Closed(S) => x \in S}

\* The recursive definition of the selected chain defines it.
LEMMA ChainEquation ==
  \A b \in Blocks : Chain[b] = IF b = 0 THEN {} ELSE Chain[Parent[b]] \cup {b}
<1> DEFINE F(g) == [b \in Blocks |-> IF b = 0 THEN {} ELSE g[Parent[b]] \cup {b}]
           f == [b \in Blocks |-> Ancestors(b)]
<1>1. \A b \in Blocks \ {0} : Parent[b] \in Blocks /\ Parent[b] < b
  BY VirtualChainAssumption DEF Blocks
<1>2. Ancestors(0) = {}
  <2>1. {0} \in SUBSET Blocks /\ Closed({0})
    BY VirtualChainAssumption DEF Blocks, Closed
  <2>2. QED  BY <2>1 DEF Ancestors
<1>3. ASSUME NEW b \in Blocks \ {0}
      PROVE  Ancestors(b) = Ancestors(Parent[b]) \cup {b}
  <2>1. ASSUME NEW x \in Ancestors(Parent[b]) PROVE x \in Ancestors(b)
    BY <2>1 DEF Ancestors, Closed
  <2>2. b \in Ancestors(b)
    BY DEF Ancestors
  <2>3. ASSUME NEW x \in Ancestors(b), x # b PROVE x \in Ancestors(Parent[b])
    <3>1. SUFFICES ASSUME NEW S \in SUBSET Blocks, Parent[b] \in S, Closed(S)
                   PROVE  x \in S
      BY DEF Ancestors
    <3>2. b \in S \cup {b} /\ Closed(S \cup {b}) /\ S \cup {b} \in SUBSET Blocks
      BY <3>1 DEF Closed
    <3>3. QED  BY <2>3, <3>2 DEF Ancestors
  <2>4. QED  BY <2>1, <2>2, <2>3
<1>4. f = F(f)
  <2>1. \A b \in Blocks : f[b] = F(f)[b]
    BY <1>1, <1>2, <1>3
  <2>2. QED  BY <2>1
<1>5. Chain = CHOOSE g : g = F(g)
  BY DEF Chain
<1>6. Chain = F(Chain)
  BY <1>4, <1>5
<1>7. QED  BY <1>6

\* The blocks of a selected chain are those of less blue work, and its end.
LEMMA ChainBelow ==
  \A b \in Blocks : Chain[b] \subseteq 1 .. b
<1> DEFINE T == {b \in Blocks : ~(Chain[b] \subseteq 1 .. b)}
<1>1. SUFFICES ASSUME T # {} PROVE FALSE
  OBVIOUS
<1>2. T \subseteq Nat
  BY VirtualChainAssumption DEF Blocks
<1>3. PICK b \in T : \A d \in T : b <= d
  <2> HIDE DEF T
  <2> QED  BY <1>1, <1>2, Least
<1>4. b \in Blocks /\ b \in Nat /\ ~(Chain[b] \subseteq 1 .. b)
  BY <1>2, <1>3
<1>5. b # 0
  BY <1>4, ChainEquation
<1>6. Parent[b] \in Blocks /\ Parent[b] < b /\ Parent[b] \in Nat
  BY <1>4, <1>5, VirtualChainAssumption DEF Blocks
<1>7. Chain[Parent[b]] \subseteq 1 .. Parent[b]
  BY <1>3, <1>4, <1>6
<1>8. Chain[b] = Chain[Parent[b]] \cup {b}
  BY <1>4, <1>5, ChainEquation
<1>9. Chain[b] \subseteq 1 .. b
  BY <1>4, <1>5, <1>6, <1>7, <1>8
<1>10. QED  BY <1>4, <1>9

\* The initial state satisfies the invariant.
LEMMA InitIInv == Init => IInv
<1> SUFFICES ASSUME Init PROVE IInv
  OBVIOUS
<1> USE DEF Init
<1>1. 0 \in Blocks
  BY VirtualChainAssumption DEF Blocks
<1>2. NoChange \in Changes /\ Chain[0] = {}
  BY <1>1, ChainEquation DEF NoChange, Change, Changes
<1>3. TypeOK
  <2>1. /\ inbox \in Seq(VccMessages) /\ syncer_rx \in Seq(SyncMessages)
        /\ rpc \in Seq(Changes) /\ realtime_queue_vcc \in Seq(Changes)
    OBVIOUS
  <2>2. DOMAIN syncers = {} /\ syncers = [i \in DOMAIN syncers |-> syncers[i]]
    BY DEF NoSyncer
  <2>3. 0 \in 0 .. MaxSessions /\ 0 \in 0 .. MaxRestarts
    BY VirtualChainAssumption
  <2>4. QED  BY <1>1, <1>2, <2>1, <2>2, <2>3, ZenonT(30) DEF TypeOK
<1>4. SessionInv
  <2>1. Handled = 0 /\ Opened = 0 /\ DOMAIN syncers = {}
    BY DEF Handled, Opened, NoSyncer
  <2>2. Numbers(inbox, [k \in {} |-> 0], 0, 0)
    BY DEF Numbers, Announced
  <2>3. QED  BY <2>1, <2>2 DEF SessionInv
<1>5. KnownInv /\ ExchangeInv
  BY DEF KnownInv, ExchangeInv, Batch, NoSyncer
<1>6. StepInv /\ AnnounceInv /\ BoundInv
  BY DEF StepInv, AnnounceInv, BoundInv, Announced, NoSyncer
<1>7. OrderInv /\ QueueInv /\ PlaceInv /\ ChainInv
  <2>1. OrderInv
    BY DEF OrderInv
  <2>2. \A k : ~(k \in 1 .. Len(<< >>) - 1)
    OBVIOUS
  <2>3. QueueInv /\ PlaceInv
    BY <2>2, Zenon DEF QueueInv, PlaceInv, Contiguous
  <2>4. ChainInv
    BY <1>2 DEF ChainInv
  <2>5. QED  BY <2>1, <2>3, <2>4
<1>8. QED  BY <1>3, <1>4, <1>5, <1>6, <1>7, ChainBelow DEF IInv, ChainOrdered

\* The invariant is inductive.
LEMMA Inductive == Spec => []IInv
<1>1. Init => IInv
  BY InitIInv
<1>2. IInv /\ [Next]_vars => IInv'
  <2>1. SUFFICES ASSUME IInv, [Next]_vars PROVE IInv'
    OBVIOUS
  <2>2. TypeOK'
    BY <2>1, TypeNext
  <2>3. ChainOrdered'
    BY ChainBelow DEF ChainOrdered
  <2>4. SessionInv' /\ KnownInv' /\ ExchangeInv'
    BY <2>1, <2>2, SessionNext, KnownNext, ExchangeNext, ZenonT(30)
  <2>5. StepInv' /\ AnnounceInv' /\ BoundInv' /\ OrderInv'
    BY <2>1, StepNext, AnnounceNext, BoundNext, OrderNext, ZenonT(30)
  <2>6. QueueInv' /\ PlaceInv' /\ ChainInv'
    BY <2>1, PlaceNext, ChainNext
  <2>7. QED  BY <2>2, <2>3, <2>4, <2>5, <2>6, ZenonT(30) DEF IInv
<1>3. QED  BY <1>1, <1>2, PTL DEF Spec

\* Whatever the tree of blocks and the numbers of connections and restarts, the acceptances
\* that handle_vcc_removal takes back are those of blocks whose header is in processed_blocks.
THEOREM RemovalsFindHeaders == Spec => []RemovalsKnown
<1>1. IInv => RemovalsKnown
  BY ZenonT(30) DEF IInv, KnownInv, RemovalsKnown
<1>2. QED  BY <1>1, Inductive, PTL

\* A batch reaches the processor only while it is Syncing, from its current syncer and with no
\* batch waiting; Continue never meets a syncer that awaits a response; and the arm that
\* handle_realtime_vcc declares unreachable needs a change of a connection that had ended.
THEOREM SyncerExchange == Spec => []SyncerProtocol
<1>1. IInv => SyncerProtocol
  BY DEF IInv, ExchangeInv, OrderInv, SyncerProtocol, Batch, Unanswered
<1>2. QED  BY <1>1, Inductive, PTL

\* A connected processor that has worked everything off has recorded exactly the blocks of
\* the node's chain, with both cursors at its end, for every tree of blocks and however
\* headers, batches, notifications, reconnections and restarts interleave; the exceptions are
\* the changes of a connection that had ended, and a replay cut short.
THEOREM ProcessorConverges == Spec => []ConvergedOtherwise
<1>1. IInv => ConvergedOtherwise
  <2>1. SUFFICES ASSUME IInv, Quiet, ~late, ~midway PROVE Converged
    BY DEF IInv, ConvergedOtherwise
  <2>2. /\ sink \in Nat /\ cursor \in Nat /\ last_accepting_block \in Nat
        /\ cursor <= sink /\ last_accepting_block <= cursor
    BY <2>1, Numeric, ZenonT(30) DEF IInv, BoundInv
  <2>3. At(sink)
    BY <2>1 DEF IInv, PlaceInv, Clean, Quiet, Expects, NextFrom
  <2>4. last_accepting_block = sink /\ cursor = sink
    BY <2>1, <2>2, <2>3 DEF At, Quiet
  <2>5. accepting = Chain[sink]
    BY <2>1, <2>4 DEF IInv, ChainInv, Clean, Quiet
  <2>6. QED  BY <2>4, <2>5 DEF Converged
<1>2. QED  BY <1>1, Inductive, PTL
=============================================================================
