----------------------- MODULE BlockProcessor_proofs -----------------------
(***************************************************************************)
(* Proofs about BlockProcessor, for every number of blocks, sessions and   *)
(* restarts and every size of the channels and batches.  First what is     *)
(* written, announced and dispatched, with its theorems; then the          *)
(* inductive invariant of the fillers and the gaps, and the steps that     *)
(* leave the number of fillers alone.  BlockProcessorFillers_proofs goes   *)
(* on from there.                                                          *)
(***************************************************************************)
EXTENDS BlockProcessor, TLAPS

\* Most steps need no arithmetic: Zenon is tried before the SMT solver.
USE ZenonT(2), SMTT(15)

\* The variables these proofs are about.
written == <<headers, stored, known, pushes, lost, work, is_shutdown>>

IsWork(w) ==
  /\ w = [kind |-> w.kind, to |-> w.to, lo |-> w.lo, hi |-> w.hi, id |-> w.id,
          phase |-> w.phase, fresh |-> w.fresh]
  /\ w.phase \in {"header", "commit"} /\ w.fresh \in BOOLEAN

\* What holds of the block in hand: once its header is written, `fresh` tells whether its
\* transactions are still to be stored.
InHand ==
  /\ work # Idle => IsWork(work)
  /\ work # Idle /\ work.phase = "commit" =>
       /\ work.lo \in headers
       /\ work.fresh => work.lo \notin stored
       /\ ~work.fresh => work.lo \in stored \cup lost

IInv ==
  /\ is_shutdown \in BOOLEAN /\ pushes \in [Blocks -> Nat]
  /\ stored \subseteq headers
  /\ InHand /\ TransactionsStored /\ HeadersAnnounced /\ PushedOnce

LEMMA InitIInv == Init => IInv
<1> SUFFICES ASSUME Init PROVE IInv
  OBVIOUS
<1>1. pushes \in [Blocks -> Nat] /\ PushedOnce
  BY DEF Init, PushedOnce
<1>2. is_shutdown \in BOOLEAN /\ stored \subseteq headers
  BY DEF Init
<1>3. InHand /\ TransactionsStored /\ HeadersAnnounced
  BY DEF Init, InHand, TransactionsStored, HeadersAnnounced
<1> QED
  BY <1>1, <1>2, <1>3 DEF IInv

LEMMA Untouched == ASSUME IInv, UNCHANGED written PROVE IInv'
<1> USE DEF written, IInv
<1>1. InHand'
  BY DEF InHand, IsWork
<1>2. TransactionsStored' /\ HeadersAnnounced' /\ PushedOnce'
  BY DEF TransactionsStored, HeadersAnnounced, PushedOnce
<1> QED
  BY <1>1, <1>2

\* The steps of the node, the data source and the fillers, and the messages that only
\* concern connections and fillers.
LEMMA OtherSteps ==
  ASSUME \/ NodeStep \/ DataSourceStep \/ (\E f \in DOMAIN fillers : FillerStep(f))
         \/ FirstConnected \/ Reconnected \/ ReconnectedIdle \/ Disconnected \/ FillerStopped
         \/ Rest \/ UNCHANGED vars
  PROVE  UNCHANGED written
<1> USE DEF written, node, db, locals, outputs, history
<1>1. CASE NodeStep
  BY <1>1 DEF NodeStep, NewBlock, Register, Disconnect, Shutdown
<1>2. CASE DataSourceStep
  BY <1>2 DEF DataSourceStep, Connect, ForwardBlock
<1>3. ASSUME NEW f \in DOMAIN fillers, FillerStep(f) PROVE UNCHANGED written
  BY <1>3 DEF FillerStep, CheckInterrupt, RefuseRequest, QueueRequest, FailRequest, AnswerRequest
<1>4. CASE FirstConnected
  BY <1>4 DEF FirstConnected
<1>5. CASE Reconnected \/ ReconnectedIdle
  BY <1>5 DEF Reconnected, ReconnectedIdle
<1>6. CASE Disconnected
  BY <1>6 DEF Disconnected, InterruptAll
<1>7. CASE FillerStopped
  BY <1>7 DEF FillerStopped
<1>8. CASE Rest \/ UNCHANGED vars
  BY <1>8 DEF Rest, vars
<1> QED
  BY <1>1, <1>2, <1>3, <1>4, <1>5, <1>6, <1>7, <1>8

\* A message that becomes the work in hand.
LEMMA Received ==
  ASSUME IInv, BlockReceived \/ BatchReceived
  PROVE  IInv'
<1> USE DEF db, locals, outputs, history
<1>1. /\ UNCHANGED <<headers, stored, known, pushes, lost, is_shutdown>>
      /\ work = Idle
      /\ \E k, t, l, h, i : work' = Work(k, t, l, h, i)
  BY DEF BlockReceived, BatchReceived, Take
<1>2. InHand'
  BY <1>1 DEF InHand, IsWork, Work, Idle
<1>3. TransactionsStored' /\ HeadersAnnounced' /\ PushedOnce'
  BY <1>1 DEF IInv, TransactionsStored, HeadersAnnounced, PushedOnce
<1> QED
  BY <1>1, <1>2, <1>3 DEF IInv

LEMMA HeaderWritten == ASSUME IInv, HandleBlock PROVE IInv'
<1> USE DEF IInv
<1>1. /\ UNCHANGED <<stored, known, pushes, lost, is_shutdown>>
      /\ headers' = headers \cup {work.lo}
      /\ work # Idle /\ IsWork(work) /\ work.phase = "header"
      /\ work' = [work EXCEPT !.phase = "commit", !.fresh = work.lo \notin headers]
  BY DEF HandleBlock, InHand, locals, outputs, history
<1>2. /\ IsWork(work') /\ work' # Idle /\ work'.lo = work.lo /\ work'.phase = "commit"
      /\ work'.fresh = (work.lo \notin headers)
  BY <1>1 DEF IsWork, Idle
<1>3. headers \ stored \subseteq lost
  BY <1>1 DEF TransactionsStored
<1>4. InHand'
  <2>1. CASE work.lo \in headers
    <3>1. work'.fresh = FALSE
      BY <1>2, <2>1
    <3>2. work'.lo \in headers' /\ work'.lo \in stored' \cup lost'
      BY <1>1, <1>2, <1>3, <2>1
    <3> QED
      BY <1>2, <3>1, <3>2 DEF InHand
  <2>2. CASE work.lo \notin headers
    <3>1. work'.fresh = TRUE
      BY <1>2, <2>2
    <3>2. work'.lo \in headers' /\ work'.lo \notin stored'
      BY <1>1, <1>2, <2>2
    <3> QED
      BY <1>2, <3>1, <3>2 DEF InHand
  <2> QED
    BY <2>1, <2>2
<1>5. TransactionsStored' /\ HeadersAnnounced' /\ PushedOnce'
  BY <1>1, <1>2, <1>3 DEF TransactionsStored, HeadersAnnounced, PushedOnce
<1> QED
  BY <1>1, <1>4, <1>5

LEMMA Retried == ASSUME IInv, CommitConflict PROVE IInv'
<1> USE DEF IInv
<1>1. /\ UNCHANGED <<headers, stored, known, pushes, is_shutdown>>
      /\ lost' = lost \cup {work.lo}
      /\ work # Idle /\ IsWork(work) /\ work.phase = "commit"
      /\ work' = [work EXCEPT !.phase = "header"]
  BY DEF CommitConflict, InHand, db, locals, outputs
<1>2. IsWork(work') /\ work' # Idle /\ work'.lo = work.lo /\ work'.phase = "header"
  BY <1>1 DEF IsWork, Idle
<1>3. InHand'
  BY <1>1, <1>2 DEF InHand
<1>4. TransactionsStored' /\ HeadersAnnounced' /\ PushedOnce'
  BY <1>1, <1>2 DEF TransactionsStored, HeadersAnnounced, PushedOnce
<1> QED
  BY <1>1, <1>3, <1>4

\* A successful commit: afterwards no block is in hand, or the next one of the batch.
LEMMA Committed ==
  ASSUME IInv, CommitNotification \/ CommitGapBlock \/ CommitGapEnd
  PROVE  IInv'
<1> USE DEF IInv
<1>1. /\ UNCHANGED <<headers, lost, is_shutdown>>
      /\ stored' = IF work.fresh THEN stored \cup {work.lo} ELSE stored
      /\ known' = IF is_shutdown THEN known ELSE known \cup {work.lo}
  BY DEF CommitNotification, CommitGapBlock, CommitGapEnd, CommitOk, history
<1>2. work # Idle /\ IsWork(work) /\ work.phase = "commit"
  BY DEF CommitNotification, CommitGapBlock, CommitGapEnd, CommitOk, InHand
<1>3. /\ work.lo \in headers
      /\ work.fresh => work.lo \notin stored
      /\ ~work.fresh => work.lo \in stored \cup lost
  BY <1>2 DEF InHand
<1>4. \/ work' = Idle
      \/ work' = [work EXCEPT !.lo = @ + 1, !.phase = "header"]
  BY DEF CommitNotification, CommitGapBlock, CommitGapEnd
<1>5. work' # Idle => IsWork(work') /\ work'.phase = "header"
  BY <1>2, <1>4 DEF IsWork
<1>6. stored' \subseteq headers'
  BY <1>1, <1>3
<1>7. InHand'
  BY <1>5 DEF InHand
<1>8. TransactionsStored'
  BY <1>1, <1>2, <1>3, <1>5 DEF TransactionsStored
<1>9. HeadersAnnounced'
  BY <1>1, <1>2 DEF HeadersAnnounced
<1>10. \/ pushes' = pushes
       \/ work.fresh /\ pushes' = [pushes EXCEPT ![work.lo] = @ + 1]
  BY DEF CommitNotification, CommitGapBlock, CommitGapEnd
<1>11. pushes' \in [Blocks -> Nat]
  BY <1>10
<1>12. PushedOnce'
  <2> SUFFICES ASSUME NEW b \in Blocks PROVE pushes'[b] <= (IF b \in stored' THEN 1 ELSE 0)
    BY DEF PushedOnce
  <2>1. pushes[b] \in Nat /\ pushes[b] <= (IF b \in stored THEN 1 ELSE 0)
    BY DEF PushedOnce
  <2>2. CASE work.fresh /\ b = work.lo
    <3>1. pushes[b] = 0 /\ b \in stored'
      BY <1>1, <1>3, <2>1, <2>2
    <3>2. pushes'[b] = pushes[b] \/ pushes'[b] = pushes[b] + 1
      BY <1>10, <2>2
    <3> QED
      BY <3>1, <3>2
  <2>3. CASE ~(work.fresh /\ b = work.lo)
    <3>1. pushes'[b] = pushes[b] /\ (b \in stored' <=> b \in stored)
      BY <1>1, <1>10, <2>3
    <3> QED
      BY <2>1, <3>1
  <2> QED
    BY <2>2, <2>3
<1> QED
  BY <1>1, <1>6, <1>7, <1>8, <1>9, <1>11, <1>12

LEMMA Restarted == ASSUME IInv, Restart PROVE IInv'
<1> USE DEF IInv
<1>1. /\ UNCHANGED <<headers, stored, pushes>> /\ is_shutdown' = FALSE
      /\ work' = Idle /\ known' = headers
      /\ lost' = IF work # Idle /\ work.phase = "commit" /\ work.fresh
                THEN lost \cup {work.lo} ELSE lost
  BY DEF Restart, db
<1>2. TransactionsStored'
  <2>1. CASE work # Idle /\ work.phase = "commit"
    BY <1>1, <2>1 DEF TransactionsStored, InHand, IsWork
  <2>2. CASE ~(work # Idle /\ work.phase = "commit")
    BY <1>1, <2>2 DEF TransactionsStored
  <2> QED
    BY <2>1, <2>2
<1>3. InHand' /\ HeadersAnnounced' /\ PushedOnce'
  BY <1>1 DEF InHand, HeadersAnnounced, PushedOnce
<1> QED
  BY <1>1, <1>2, <1>3

LEMMA ShutdownSeen == ASSUME IInv, ShutdownReceived PROVE IInv'
<1> USE DEF IInv
<1>1. UNCHANGED <<headers, stored, known, pushes, lost, work>> /\ is_shutdown' = TRUE
  BY DEF ShutdownReceived, InterruptAll, db, outputs, history
<1>2. InHand'
  BY <1>1 DEF InHand, IsWork
<1>3. TransactionsStored' /\ HeadersAnnounced' /\ PushedOnce'
  BY <1>1 DEF TransactionsStored, HeadersAnnounced, PushedOnce
<1> QED
  BY <1>1, <1>2, <1>3

LEMMA IInvHolds == Spec => []IInv
<1>1. IInv /\ [Next]_vars => IInv'
  <2> SUFFICES ASSUME IInv, [Next]_vars PROVE IInv'
    OBVIOUS
  <2> QED
    BY OtherSteps, Untouched, Received, HeaderWritten, Retried, Committed, Restarted, ShutdownSeen
    DEF Next, TakeInbox, TakeResult, BlockStep
<1> QED
  BY InitIInv, <1>1, PTL DEF Spec

\* handle_block writes the header outside the transaction (block_processor.rs 328): a block
\* is left without its transactions only by a lost conflict or a crash in between.
THEOREM TransactionsFollowHeaders == Spec => []TransactionsStored
<1>1. IInv => TransactionsStored
  BY DEF IInv
<1> QED
  BY IInvHolds, <1>1, PTL

\* Every successful commit, of a fresh block or a known one, is followed by the block's
\* announcement (block_processor.rs 186-194), and a restart reloads the index.
THEOREM EveryHeaderAnnounced == Spec => []HeadersAnnounced
<1>1. IInv => HeadersAnnounced
  BY DEF IInv
<1> QED
  BY IInvHolds, <1>1, PTL

\* Push events are dispatched only after the commit of a fresh block received in real time
\* (block_processor.rs 173-194), so never twice and never for uncommitted transactions.
THEOREM NoSecondPush == Spec => []PushedOnce
<1>1. IInv => PushedOnce
  BY DEF IInv
<1> QED
  BY IInvHolds, <1>1, PTL

-----------------------------------------------------------------------------
(* Channels and lists of fillers.                                           *)

\* What is left of a channel after its first message is read.
LEMMA TailOf ==
  ASSUME NEW S, NEW s \in Seq(S), s # << >>
  PROVE  /\ Tail(s) \in Seq(S) /\ DOMAIN Tail(s) = 1 .. Len(s) - 1
         /\ \A k \in 1 .. Len(s) - 1 : Tail(s)[k] = s[k + 1]
         /\ Head(s) = s[1] /\ s[1] \in S /\ Len(s) \in Nat \ {0} /\ DOMAIN s = 1 .. Len(s)
OBVIOUS

\* A channel after a message is sent on it.
LEMMA AppendOf ==
  ASSUME NEW S, NEW s \in Seq(S), NEW m \in S
  PROVE  /\ Append(s, m) \in Seq(S) /\ DOMAIN Append(s, m) = 1 .. Len(s) + 1
         /\ DOMAIN s = 1 .. Len(s) /\ Len(s) \in Nat
         /\ \A k \in 1 .. Len(s) : Append(s, m)[k] = s[k]
         /\ Append(s, m)[Len(s) + 1] = m
OBVIOUS

\* A list whose elements are replaced one by one.
LEMMA ReplacedOf ==
  ASSUME NEW S, NEW s \in Seq(S), NEW q \in [DOMAIN s -> S]
  PROVE  q \in Seq(S) /\ DOMAIN q = DOMAIN s /\ Len(q) = Len(s)
OBVIOUS

LEMMA FieldsOf ==
  ASSUME NEW r \in Fillers
  PROVE  /\ r.from \in Blocks /\ r.to \in Blocks
         /\ \A p \in {"check", "sent", "queued", "done"} :
              LET q == [r EXCEPT !.pc = p] IN
              q \in Fillers /\ q.from = r.from /\ q.to = r.to /\ q.pc = p
         /\ \A i \in {"open", "sent", "closed"} :
              LET q == [r EXCEPT !.intr = i] IN
              q \in Fillers /\ q.from = r.from /\ q.to = r.to /\ q.pc = r.pc
BY DEF Fillers

\* The fillers after a step that moves no one's position and neither starts nor ends one.
Steady ==
  /\ DOMAIN fillers' = DOMAIN fillers
  /\ \A f \in DOMAIN fillers :
       /\ fillers'[f].to = fillers[f].to /\ fillers'[f].from = fillers[f].from
       /\ fillers'[f].pc = "done" <=> fillers[f].pc = "done"

LEMMA BecomeOf ==
  ASSUME fillers \in Seq(Fillers), NEW f \in DOMAIN fillers,
         NEW pc \in {"check", "sent", "queued", "done"}, Become(f, pc)
  PROVE  /\ fillers' \in Seq(Fillers) /\ DOMAIN fillers' = DOMAIN fillers
         /\ \A g \in DOMAIN fillers :
              /\ fillers'[g].to = fillers[g].to /\ fillers'[g].from = fillers[g].from
              /\ g # f => fillers'[g] = fillers[g]
         /\ fillers'[f].pc = pc
<1>1. \A g \in DOMAIN fillers : fillers[g] \in Fillers
  OBVIOUS
<1>2. /\ DOMAIN fillers' = DOMAIN fillers
      /\ fillers'[f] = [fillers[f] EXCEPT !.pc = pc]
      /\ \A g \in DOMAIN fillers : g # f => fillers'[g] = fillers[g]
  BY DEF Become
<1>3. fillers'[f] \in Fillers /\ fillers'[f].from = fillers[f].from
      /\ fillers'[f].to = fillers[f].to /\ fillers'[f].pc = pc
  BY <1>1, <1>2, ZenonT(30) DEF Fillers
<1>4. fillers' \in [DOMAIN fillers -> Fillers]
  BY <1>1, <1>2, <1>3 DEF Become
<1>5. QED  BY <1>2, <1>3, <1>4, ReplacedOf

\* Only interrupt channels change, and queued requests are sent again.
LEMMA SteadyOf ==
  ASSUME fillers \in Seq(Fillers), DOMAIN fillers' = DOMAIN fillers,
         fillers' = [f \in DOMAIN fillers |-> fillers'[f]],
         \A f \in DOMAIN fillers :
            \/ fillers'[f] = fillers[f]
            \/ \E i \in {"sent", "closed"} : fillers'[f] = [fillers[f] EXCEPT !.intr = i]
            \/ fillers[f].pc = "queued" /\ fillers'[f] = [fillers[f] EXCEPT !.pc = "sent"]
  PROVE  fillers' \in Seq(Fillers) /\ Steady
<1>1. \A g \in DOMAIN fillers : fillers[g] \in Fillers
  OBVIOUS
<1>2. \A g \in DOMAIN fillers :
        /\ fillers'[g] \in Fillers /\ fillers'[g].from = fillers[g].from
        /\ fillers'[g].to = fillers[g].to
        /\ fillers'[g].pc = fillers[g].pc \/ (fillers[g].pc = "queued" /\ fillers'[g].pc = "sent")
  <2> TAKE g \in DOMAIN fillers
  <2>1. fillers[g] \in Fillers
    OBVIOUS
  <2>2. CASE fillers'[g] = fillers[g]
    BY <2>1, <2>2
  <2>3. ASSUME NEW i \in {"sent", "closed"}, fillers'[g] = [fillers[g] EXCEPT !.intr = i]
        PROVE  /\ fillers'[g] \in Fillers /\ fillers'[g].from = fillers[g].from
               /\ fillers'[g].to = fillers[g].to /\ fillers'[g].pc = fillers[g].pc
    BY <2>1, <2>3 DEF Fillers
  <2>4. CASE fillers[g].pc = "queued" /\ fillers'[g] = [fillers[g] EXCEPT !.pc = "sent"]
    BY <2>1, <2>4 DEF Fillers
  <2>5. QED  BY <2>2, <2>3, <2>4
<1>3. fillers' \in [DOMAIN fillers -> Fillers]
  BY <1>2
<1>4. QED  BY <1>2, <1>3, ReplacedOf DEF Steady

LEMMA ConnectSteady == ASSUME TypeOK, Connect PROVE fillers' \in Seq(Fillers) /\ Steady
<1>1. /\ DOMAIN fillers' = DOMAIN fillers /\ fillers' = [f \in DOMAIN fillers |-> fillers'[f]]
      /\ \A f \in DOMAIN fillers :
            \/ fillers'[f] = fillers[f]
            \/ fillers[f].pc = "queued" /\ fillers'[f] = [fillers[f] EXCEPT !.pc = "sent"]
  BY DEF Connect
<1>2. QED  BY <1>1, SteadyOf DEF TypeOK

LEMMA InterruptSteady == ASSUME TypeOK, InterruptAll PROVE fillers' \in Seq(Fillers) /\ Steady
<1>1. /\ DOMAIN fillers' = DOMAIN fillers /\ fillers' = [f \in DOMAIN fillers |-> fillers'[f]]
      /\ \A f \in DOMAIN fillers :
            \/ fillers'[f] = fillers[f]
            \/ fillers'[f] = [fillers[f] EXCEPT !.intr = "sent"]
  BY DEF InterruptAll
<1>2. QED  BY <1>1, SteadyOf DEF TypeOK

\* The map entry of a target goes: at most its filler's interrupt channel is closed.
LEMMA RetireSteady ==
  ASSUME TypeOK, NEW to, Retire(to)
  PROVE  fillers' \in Seq(Fillers) /\ Steady
<1>1. CASE to \notin DOMAIN gaps_fillers
  BY <1>1 DEF Retire, Steady, TypeOK
<1>2. CASE to \in DOMAIN gaps_fillers
  <2>1. PICK h : h = gaps_fillers[to]
    OBVIOUS
  <2>2. h \in DOMAIN fillers /\ fillers' = [fillers EXCEPT ![h].intr = IF @ = "open" THEN "closed" ELSE @]
    BY <1>2, <2>1 DEF TypeOK, Retire, Drop
  <2>3. fillers[h] \in Fillers
    <3>1. fillers \in Seq(Fillers)
      BY Zenon DEF TypeOK
    <3>2. QED  BY <2>2, <3>1
  <2>4. fillers[h] = [fillers[h] EXCEPT !.intr = fillers[h].intr]
    BY <2>3 DEF Fillers
  <2>5. fillers'[h] = fillers[h] \/ fillers'[h] = [fillers[h] EXCEPT !.intr = "closed"]
    BY <2>2, <2>4
  <2>6. DOMAIN fillers' = DOMAIN fillers /\ fillers' = [f \in DOMAIN fillers |-> fillers'[f]]
    BY <2>2 DEF TypeOK
  <2>7. \A f \in DOMAIN fillers : f # h => fillers'[f] = fillers[f]
    BY <2>2
  <2>8. QED  BY <2>5, <2>6, <2>7, SteadyOf DEF TypeOK
<1>3. QED  BY <1>1, <1>2
-----------------------------------------------------------------------------
(* The invariant of the fillers and the gaps.                               *)

\* Fillers that run, or whose last message is unread.
Live == Active \cup Reported

\* The announcements of a connection in a channel, numbered between lo and hi in their order.
Announced(q) == {k \in DOMAIN q : q[k].kind = "Connected"}
Numbers(q, g, lo, hi) ==
  /\ g \in [DOMAIN q -> Nat]
  /\ \A k \in Announced(q) : lo < g[k] /\ g[k] <= hi
  /\ \A k, l \in Announced(q) : k < l => g[k] < g[l]

\* Each announcement belongs to a session of its own, and all but the first add one filler
\* at most, so that the fillers can be counted in a usize.
Opened == IF link = "registered" THEN sessions - 1 ELSE sessions
Sessions(n) ==
  /\ n <= Opened
  /\ has_first_connect => n >= 1 /\ (~twins => Len(fillers) <= MaxBlock + n)
  /\ ~has_first_connect => fillers = << >>
  /\ \E g : Numbers(inbox, g, n, Opened)
SessionInv == \E n \in Nat : Sessions(n)

Batched == work # Idle /\ work.kind # "Notification"

\* The messages of a filler come in order: its last one ends it, and is the only one.
ReportInv ==
  /\ \A i \in DOMAIN results :
       /\ results[i].id \in DOMAIN fillers \cap Live /\ results[i].to = fillers[results[i].id].to
       /\ results[i].kind # "Update" => results[i].id \notin Active
  /\ \A i, j \in DOMAIN results :
       i < j /\ results[i].id = results[j].id => results[i].kind = "Update"
  /\ Batched =>
       /\ work.id \in DOMAIN fillers \cap Live /\ work.to = fillers[work.id].to
       /\ work.kind = "Finished" =>
            work.id \notin Active /\ \A i \in DOMAIN results : results[i].id # work.id

ServedInv ==
  has_first_connect => \A t \in DOMAIN gaps \ abandoned : \E f \in Live : fillers[f].to = t

\* A block that the filler f has fetched before its message i: its header is stored, or
\* it is in an earlier batch.
Fetched(b, f, i) ==
  \/ b \in headers
  \/ \E j \in DOMAIN results :
       j < i /\ results[j].kind = "Update" /\ results[j].id = f /\ b \in results[j].lo .. results[j].hi
  \/ Batched /\ work.id = f /\ b \in work.lo .. work.hi

\* As long as no gap is recorded twice, every filler has a gap of its own; what lies between
\* the place where it started and its position has been fetched.
Filled(f, s) ==
  /\ s <= gaps[fillers[f].to]
  /\ f \in Active =>
       /\ s <= fillers[f].from
       /\ \A b \in s .. fillers[f].from - 1 : Fetched(b, f, Len(results) + 1)
  /\ \A i \in DOMAIN results : results[i].id = f /\ results[i].kind \in {"Update", "Finished"} =>
       /\ s <= results[i].lo
       /\ \A b \in s .. results[i].lo - 1 : Fetched(b, f, i)
       /\ results[i].kind = "Finished" => results[i].to <= results[i].hi
  /\ Batched /\ work.id = f =>
       /\ s <= work.lo
       /\ \A b \in s .. work.lo - 1 : b \in headers
       /\ work.kind = "Finished" => work.to <= work.hi
FillInv ==
  ~overlap =>
    /\ \A f, g \in Live : fillers[f].to = fillers[g].to => f = g
    /\ \A f \in Live : fillers[f].to \in DOMAIN gaps /\ \E s \in Blocks : Filled(f, s)

\* A block that is stored, in a gap or in hand.
Safe(b) == b \in headers \/ InGap(b)
Held(b) == Safe(b) \/ (work # Idle /\ work.kind = "Notification" /\ work.lo = b)
\* A message that brings the block, or a gap around it.
Brings(m, b) ==
  \/ m.kind = "Connected" /\ b <= m.block
  \/ m.kind = "Notification" /\ m.block = b
InInbox(b) == \E j \in DOMAIN inbox : Brings(inbox[j], b)

\* When a block is announced, all blocks below it are safe, or come before it.
Lossless == ~unannounced /\ ~skipped /\ ~overlap
CursorInv ==
  Lossless =>
    /\ cursor # None => \A b \in 0 .. cursor : Safe(b)
    /\ last_processed_block # None => \A b \in 0 .. last_processed_block : Safe(b)
    /\ work # Idle /\ work.kind = "Notification" => \A b \in 0 .. work.lo - 1 : Safe(b)
StreamInv ==
  Lossless =>
    /\ \A k \in DOMAIN inbox : inbox[k].kind = "Notification" =>
         \A b \in 0 .. inbox[k].block - 1 :
           Held(b) \/ \E j \in DOMAIN inbox : j < k /\ Brings(inbox[j], b)
    /\ link # "registered" => \A k \in DOMAIN rpc : \A b \in 0 .. rpc[k] - 1 :
         Held(b) \/ InInbox(b) \/ \E j \in DOMAIN rpc : j < k /\ rpc[j] = b
    /\ link = "up" => \A b \in 0 .. tip :
         Held(b) \/ InInbox(b) \/ \E j \in DOMAIN rpc : rpc[j] = b
NodeInv == \A k \in DOMAIN rpc : rpc[k] <= tip

FlowInv ==
  /\ TypeOK /\ SessionInv /\ ReportInv /\ FillersCounted /\ ServedInv /\ FillInv
  /\ CursorInv /\ StreamInv /\ NodeInv
-----------------------------------------------------------------------------
(* What the steps do.                                                       *)

Report(f, kind, lo, hi) == [kind |-> kind, to |-> fillers[f].to, lo |-> lo, hi |-> hi, id |-> f]
Sends(m) == results' = Append(results, m)

\* A filler goes on, ends with its last message, or sends a batch and goes on behind it.
LEMMA FillerEffect ==
  ASSUME TypeOK, NEW f \in DOMAIN fillers, FillerStep(f)
  PROVE  /\ UNCHANGED <<node, inbox, db, bp, locals, work, outputs, history>>
         /\ fillers[f].pc # "done"
         /\ fillers' \in Seq(Fillers) /\ DOMAIN fillers' = DOMAIN fillers
         /\ \A g \in DOMAIN fillers :
              fillers'[g].to = fillers[g].to /\ (g # f => fillers'[g] = fillers[g])
         /\ \/ Steady /\ UNCHANGED results
            \/ /\ fillers'[f].pc = "done"
               /\ \E k \in {"Interrupted", "Error", "Finished"}, hi \in Blocks :
                    \E lo \in {0, fillers[f].from} :
                      /\ k = "Finished" => lo = fillers[f].from /\ fillers[f].to <= hi
                      /\ Sends(Report(f, k, lo, hi))
            \/ /\ fillers'[f].pc = "check"
               /\ \E hi \in Blocks :
                    /\ fillers[f].from <= hi /\ fillers'[f].from = hi
                    /\ Sends(Report(f, "Update", fillers[f].from, hi))
<1> DEFINE Ends == /\ fillers'[f].pc = "done"
                   /\ \E k \in {"Interrupted", "Error", "Finished"}, hi \in Blocks :
                        \E lo \in {0, fillers[f].from} :
                          /\ k = "Finished" => lo = fillers[f].from /\ fillers[f].to <= hi
                          /\ Sends(Report(f, k, lo, hi))
           Goes == /\ fillers'[f].pc = "check"
                   /\ \E hi \in Blocks :
                        /\ fillers[f].from <= hi /\ fillers'[f].from = hi
                        /\ Sends(Report(f, "Update", fillers[f].from, hi))
           Others == /\ fillers' \in Seq(Fillers) /\ DOMAIN fillers' = DOMAIN fillers
                     /\ \A g \in DOMAIN fillers :
                          fillers'[g].to = fillers[g].to /\ (g # f => fillers'[g] = fillers[g])
<1>1. fillers \in Seq(Fillers) /\ fillers[f] \in Fillers /\ 0 \in Blocks
  <2>1. fillers \in Seq(Fillers)
    BY Zenon DEF TypeOK
  <2>2. 0 \in Blocks
    BY BlockProcessorAssumption DEF Blocks
  <2>3. QED  BY <2>1, <2>2
<1>2. fillers[f].from \in Blocks /\ fillers[f].to \in Blocks
  BY <1>1, FieldsOf
<1>3. ASSUME NEW pc \in {"check", "sent", "queued"}, Become(f, pc), fillers[f].pc # "done"
      PROVE  Others /\ Steady
  BY <1>1, <1>3, BecomeOf, ZenonT(30) DEF Steady
<1>4. ASSUME Become(f, "done") PROVE Others /\ fillers'[f].pc = "done"
  BY <1>1, <1>4, BecomeOf
<1>5. ASSUME NEW k, NEW lo, NEW hi, Send(f, k, lo, hi) PROVE Sends(Report(f, k, lo, hi))
  BY <1>5 DEF Send, Sends, Report
<1>6. CASE CheckInterrupt(f)
  <2>1. \/ Become(f, "sent") /\ UNCHANGED results
        \/ Send(f, "Interrupted", 0, 0) /\ Become(f, "done")
    BY <1>6 DEF CheckInterrupt
  <2>2. Others /\ ((Steady /\ UNCHANGED results) \/ Ends)
    BY <1>1, <1>3, <1>4, <1>5, <1>6, <2>1 DEF CheckInterrupt
  <2>3. QED  BY <1>6, <2>2 DEF CheckInterrupt
<1>7. CASE RefuseRequest(f) \/ QueueRequest(f)
  <2>1. (Become(f, "check") \/ Become(f, "queued")) /\ fillers[f].pc = "sent" /\ UNCHANGED results
    BY <1>7 DEF RefuseRequest, QueueRequest
  <2>2. Others /\ Steady
    BY <1>3, <2>1
  <2>3. QED  BY <1>7, <2>1, <2>2 DEF RefuseRequest, QueueRequest
<1>8. CASE FailRequest(f)
  <2>1. Send(f, "Error", 0, 0) /\ Become(f, "done")
    BY <1>8 DEF FailRequest
  <2>2. Others /\ Ends
    BY <1>1, <1>4, <1>5, <2>1
  <2>3. QED  BY <1>8, <2>2 DEF FailRequest
<1>9. CASE AnswerRequest(f)
  <2>1. PICK hi \in fillers[f].from .. fillers[f].from + MaxBatch :
          /\ hi <= tip
          /\ \/ /\ fillers[f].to \in fillers[f].from .. hi
                /\ Send(f, "Finished", fillers[f].from, hi)
                /\ Become(f, "done")
             \/ /\ Send(f, "Update", fillers[f].from, hi)
                /\ fillers' = [fillers EXCEPT ![f].pc = "check", ![f].from = hi]
    BY <1>9 DEF AnswerRequest
  <2>2. hi \in Blocks /\ fillers[f].from <= hi
    <3>1. tip \in 0 .. MaxBlock
      BY DEF TypeOK, Blocks
    <3>2. QED  BY <1>2, <2>1, <3>1, BlockProcessorAssumption DEF Blocks
  <2>3. CASE fillers[f].to \in fillers[f].from .. hi /\ Send(f, "Finished", fillers[f].from, hi) /\ Become(f, "done")
    <3>1. fillers[f].to <= hi
      BY <1>2, <2>2, <2>3 DEF Blocks
    <3>2. Others /\ Ends
      BY <1>4, <1>5, <2>2, <2>3, <3>1, ZenonT(30)
    <3>3. QED  BY <1>9, <3>2 DEF AnswerRequest
  <2>4. CASE Send(f, "Update", fillers[f].from, hi) /\ fillers' = [fillers EXCEPT ![f].pc = "check", ![f].from = hi]
    <3>1. /\ DOMAIN fillers' = DOMAIN fillers
          /\ fillers'[f] = [fillers[f] EXCEPT !.pc = "check", !.from = hi]
          /\ \A g \in DOMAIN fillers : g # f => fillers'[g] = fillers[g]
      BY <1>1, <2>4
    <3>2. /\ fillers'[f] \in Fillers /\ fillers'[f].to = fillers[f].to
          /\ fillers'[f].from = hi /\ fillers'[f].pc = "check"
      BY <1>1, <2>2, <3>1 DEF Fillers
    <3>3. fillers' \in [DOMAIN fillers -> Fillers]
      BY <1>1, <2>4, <3>1, <3>2
    <3>4. Others
      BY <1>1, <3>1, <3>2, <3>3, ReplacedOf
    <3>5. Goes
      BY <1>5, <2>2, <2>4, <3>2
    <3>6. QED  BY <1>9, <3>4, <3>5 DEF AnswerRequest
  <2>5. QED  BY <2>1, <2>3, <2>4
<1>10. QED  BY <1>6, <1>7, <1>8, <1>9 DEF FillerStep
\* The gap of the first connection starts at the cursor, or at the pruning point.
LEMMA NewGapOf ==
  ASSUME TypeOK, NEW sink \in Blocks
  PROVE  \/ NewGap(sink) = << >> /\ cursor = sink
         \/ \E from \in Blocks :
              /\ NewGap(sink) = <<Filler(from, sink)>>
              /\ cursor # None => from = cursor
              /\ cursor = None => from = 0
<1>1. 0 \in Blocks
  BY BlockProcessorAssumption DEF Blocks
<1>2. CASE cursor = None
  BY <1>1, <1>2 DEF NewGap
<1>3. CASE cursor # None /\ cursor # sink
  <2>1. NewGap(sink) = <<Filler(cursor, sink)>>
    BY <1>3 DEF NewGap
  <2>2. QED  BY <1>3, <2>1 DEF TypeOK
<1>4. CASE cursor # None /\ cursor = sink
  BY <1>4 DEF NewGap
<1>5. QED  BY <1>2, <1>3, <1>4

LEMMA FillerOf ==
  ASSUME NEW from \in Blocks, NEW to \in Blocks
  PROVE  LET r == Filler(from, to) IN
         r \in Fillers /\ r.from = from /\ r.to = to /\ r.pc = "check"
BY DEF Filler, Fillers

-----------------------------------------------------------------------------
(* Types.                                                                   *)

LEMMA FillerTypes ==
  ASSUME TypeOK
  PROVE  /\ fillers \in Seq(Fillers) /\ DOMAIN fillers = 1 .. Len(fillers) /\ Len(fillers) \in Nat
         /\ \A f \in DOMAIN fillers :
              fillers[f] \in Fillers /\ fillers[f].from \in Blocks /\ fillers[f].to \in Blocks /\ f \in Nat
<1>1. fillers \in Seq(Fillers)
  BY DEF TypeOK
<1>2. \A f \in DOMAIN fillers : fillers[f] \in Fillers
  BY <1>1
<1>3. DOMAIN fillers = 1 .. Len(fillers) /\ Len(fillers) \in Nat
  BY <1>1
<1>4. \A f \in DOMAIN fillers : f \in Nat
  BY <1>3
<1>5. QED  BY <1>1, <1>2, <1>3, <1>4, FieldsOf

LEMMA OneMore == \A m \in Nat : \A n \in 0 .. m : n < m => n + 1 \in 0 .. m
  OBVIOUS

LEMMA TypeNode == ASSUME TypeOK, NodeStep \/ DataSourceStep PROVE TypeOK'
<1> USE DEF TypeOK, node, db, locals, outputs, history
<1>1. tip \in 0 .. MaxBlock /\ MaxBlock \in Nat
  BY BlockProcessorAssumption DEF Blocks
<1>2. CASE NewBlock
  <2>1. tip' \in Blocks /\ rpc' \in Seq(Blocks)
    <3>1. tip' \in Blocks
      BY <1>1, <1>2 DEF NewBlock, Blocks
    <3>2. QED  BY <1>2, <3>1 DEF NewBlock
  <2>2. QED  BY <1>2, <2>1 DEF NewBlock
<1>3. CASE Register
  <2>1. sessions' \in 0 .. MaxSessions
    <3>1. sessions \in 0 .. MaxSessions /\ sessions < MaxSessions /\ sessions' = sessions + 1
      BY <1>3 DEF Register
    <3> HIDE DEF TypeOK
    <3>2. MaxSessions \in Nat
      BY BlockProcessorAssumption, Zenon
    <3>3. QED  BY <3>1, <3>2, OneMore, ZenonT(10)
  <2>2. QED  BY <1>3, <2>1, ZenonT(30) DEF Register
<1>4. CASE Disconnect
  <2>1. inbox' \in Seq(Notifications)
    BY <1>4 DEF Disconnect, Notifications
  <2>2. unannounced' \in BOOLEAN
    BY <1>4 DEF Disconnect
  <2>3. QED  BY <1>4, <2>1, <2>2 DEF Disconnect
<1>5. CASE Shutdown
  <2>1. inbox' \in Seq(Notifications)
    BY <1>5 DEF Shutdown, Notifications
  <2>2. QED  BY <1>5, <2>1 DEF Shutdown
<1>6. CASE Connect
  <2>1. inbox' \in Seq(Notifications)
    BY <1>6 DEF Connect, Notifications
  <2>2. fillers' \in Seq(Fillers) /\ DOMAIN fillers' = DOMAIN fillers
    BY <1>6, ConnectSteady DEF Steady
  <2>3. QED  BY <1>6, <2>1, <2>2 DEF Connect
<1>7. CASE ForwardBlock
  <2>1. Head(rpc) \in Blocks /\ rpc' \in Seq(Blocks)
    BY <1>7 DEF ForwardBlock
  <2>2. inbox' \in Seq(Notifications)
    BY <1>7, <2>1 DEF ForwardBlock, Notifications
  <2>3. QED  BY <1>7, <2>1, <2>2 DEF ForwardBlock
<1>8. QED  BY <1>2, <1>3, <1>4, <1>5, <1>6, <1>7 DEF NodeStep, DataSourceStep

LEMMA TypeFiller == ASSUME TypeOK, NEW f \in DOMAIN fillers, FillerStep(f) PROVE TypeOK'
<1>1. /\ UNCHANGED <<node, inbox, db, bp, locals, work, outputs, history>>
      /\ fillers' \in Seq(Fillers) /\ DOMAIN fillers' = DOMAIN fillers
  BY FillerEffect
<1>2. fillers[f].to \in Blocks /\ fillers[f].from \in Blocks /\ f \in Nat /\ 0 \in Blocks
  BY FillerTypes, BlockProcessorAssumption DEF Blocks
<1>3. \/ UNCHANGED results
      \/ \E k \in {"Update", "Interrupted", "Error", "Finished"}, lo, hi \in Blocks :
           Sends(Report(f, k, lo, hi))
  BY <1>2, FillerEffect
<1>4. results' \in Seq(Progress)
  <2>1. results \in Seq(Progress)
    BY DEF TypeOK
  <2>2. \A k \in {"Update", "Interrupted", "Error", "Finished"}, lo, hi \in Blocks :
          Report(f, k, lo, hi) \in Progress
    BY <1>2 DEF Report, Progress
  <2>3. QED  BY <1>3, <2>1, <2>2 DEF Sends
<1>5. QED  BY <1>1, <1>4 DEF TypeOK, node, db, locals, outputs, history

LEMMA HeadTypes ==
  ASSUME TypeOK
  PROVE  /\ inbox # << >> =>
              /\ Head(inbox) \in Notifications /\ Tail(inbox) \in Seq(Notifications)
              /\ Head(inbox).kind \in {"Connected", "Notification"} => Head(inbox).block \in Blocks
         /\ results # << >> => Head(results) \in Progress /\ Tail(results) \in Seq(Progress)
<1>1. inbox # << >> => Head(inbox) \in Notifications /\ Tail(inbox) \in Seq(Notifications)
  <2>1. inbox \in Seq(Notifications)
    BY Zenon DEF TypeOK
  <2>2. QED  BY <2>1
<1>2. \A m \in Notifications : m.kind \in {"Connected", "Notification"} => m.block \in Blocks
  BY DEF Notifications
<1>3. results # << >> => Head(results) \in Progress /\ Tail(results) \in Seq(Progress)
  <2>1. results \in Seq(Progress)
    BY Zenon DEF TypeOK
  <2>2. QED  BY <2>1
<1>4. QED  BY <1>1, <1>2, <1>3

LEMMA CountType ==
  ASSUME TypeOK, NEW d \in {-1, 1}
  PROVE  (gaps_filling_in_progress + d) % UsizeRange \in 0 .. UsizeRange - 1
<1>1. gaps_filling_in_progress \in 0 .. UsizeRange - 1
  BY Zenon DEF TypeOK
<1>2. QED  BY <1>1, BlockProcessorAssumption

\* A reconnection spawns one filler, and at most closes the interrupt channel of another.
LEMMA ReconnectEffect ==
  ASSUME TypeOK, Reconnected, NEW sink, sink = Head(inbox).block
  PROVE  /\ sink \in Blocks /\ last_processed_block \in Blocks
         /\ fillers' \in Seq(Fillers) /\ DOMAIN fillers' = 1 .. Len(fillers) + 1
         /\ Len(fillers') = Len(fillers) + 1
         /\ \A f \in DOMAIN fillers :
              /\ fillers'[f].to = fillers[f].to /\ fillers'[f].from = fillers[f].from
              /\ fillers'[f].pc = fillers[f].pc
         /\ fillers'[Len(fillers) + 1].to = sink /\ fillers'[Len(fillers) + 1].pc = "check"
         /\ fillers'[Len(fillers) + 1].from = last_processed_block
<1>1. PICK from : from = last_processed_block
  OBVIOUS
<1>2. sink \in Blocks /\ from \in Blocks
  BY <1>1, HeadTypes DEF Reconnected, Take, TypeOK
<1>3. PICK q : q = IF sink \in DOMAIN gaps_fillers THEN Drop(fillers, gaps_fillers[sink]) ELSE fillers
  OBVIOUS
<1>4. /\ q \in Seq(Fillers) /\ Len(q) = Len(fillers)
      /\ \A f \in DOMAIN fillers :
           q[f].to = fillers[f].to /\ q[f].from = fillers[f].from /\ q[f].pc = fillers[f].pc
  <2>1. CASE sink \notin DOMAIN gaps_fillers
    BY <1>3, <2>1, FillerTypes
  <2>2. CASE sink \in DOMAIN gaps_fillers
    <3>1. PICK h \in DOMAIN fillers : h = gaps_fillers[sink]
      BY <2>2 DEF TypeOK
    <3>2. q = [fillers EXCEPT ![h].intr = IF @ = "open" THEN "closed" ELSE @]
      BY <1>3, <2>2, <3>1 DEF Drop
    <3>3. fillers[h] \in Fillers /\ fillers[h].intr \in {"open", "sent", "closed"}
      BY FillerTypes DEF Fillers
    <3>4. PICK r : r = [fillers[h] EXCEPT !.intr = IF @ = "open" THEN "closed" ELSE @]
      OBVIOUS
    <3>5. r \in Fillers /\ r.to = fillers[h].to /\ r.from = fillers[h].from /\ r.pc = fillers[h].pc
      BY <3>3, <3>4 DEF Fillers
    <3>6. q \in [DOMAIN fillers -> Fillers] /\ q[h] = r /\ \A f \in DOMAIN fillers : f # h => q[f] = fillers[f]
      BY <3>2, <3>4, <3>5, FillerTypes
    <3>7. q \in Seq(Fillers) /\ Len(q) = Len(fillers)
      BY <3>6, FillerTypes, ReplacedOf
    <3>8. QED  BY <3>5, <3>6, <3>7
  <2>3. QED  BY <2>1, <2>2
<1>5. PICK r : r = Filler(from, sink)
  OBVIOUS
<1>6. r \in Fillers /\ r.from = from /\ r.to = sink /\ r.pc = "check"
  BY <1>2, <1>5, FillerOf, ZenonT(30)
<1>7. fillers' = Append(q, r)
  BY <1>1, <1>3, <1>5 DEF Reconnected
<1>8. /\ fillers' \in Seq(Fillers) /\ DOMAIN fillers' = 1 .. Len(fillers) + 1
      /\ DOMAIN fillers = 1 .. Len(fillers) /\ Len(fillers) \in Nat
      /\ \A f \in 1 .. Len(fillers) : fillers'[f] = q[f]
      /\ fillers'[Len(fillers) + 1] = r
  BY <1>4, <1>6, <1>7, FillerTypes, AppendOf
<1>9. Len(fillers') = Len(fillers) + 1
  BY <1>8
<1>10. QED  BY <1>1, <1>2, <1>4, <1>6, <1>8, <1>9

LEMMA TypeReconnected == ASSUME TypeOK, Reconnected PROVE TypeOK'
<1>1. PICK sink : sink = Head(inbox).block
  OBVIOUS
<1>2. PICK from : from = last_processed_block
  OBVIOUS
<1>3. /\ sink \in Blocks /\ from \in Blocks /\ fillers' \in Seq(Fillers)
      /\ DOMAIN fillers' = 1 .. Len(fillers) + 1
  BY <1>1, <1>2, ReconnectEffect
<1>4. inbox' \in Seq(Notifications)
  BY HeadTypes DEF Reconnected, Take
<1>5. /\ gaps_fillers' = Insert(gaps_fillers, sink, Len(fillers) + 1)
      /\ gaps' = Insert(gaps, sink, from)
  BY <1>1, <1>2 DEF Reconnected, Record
<1>6. DOMAIN fillers = 1 .. Len(fillers) /\ Len(fillers) \in Nat
  BY FillerTypes
<1>7. /\ DOMAIN gaps_fillers' \subseteq Blocks
      /\ \A t \in DOMAIN gaps_fillers' : gaps_fillers'[t] \in DOMAIN fillers'
  <2>1. /\ DOMAIN gaps_fillers \subseteq Blocks
        /\ \A t \in DOMAIN gaps_fillers : gaps_fillers[t] \in DOMAIN fillers
    BY DEF TypeOK
  <2>2. \A f \in DOMAIN fillers \cup {Len(fillers) + 1} : f \in DOMAIN fillers'
    BY <1>3, <1>6
  <2>3. QED  BY <1>3, <1>5, <2>1, <2>2 DEF Insert
<1>8. DOMAIN gaps' \subseteq Blocks /\ \A t \in DOMAIN gaps' : gaps'[t] \in Blocks
  BY <1>3, <1>5 DEF TypeOK, Insert
<1>9. gaps_filling_in_progress' \in 0 .. UsizeRange - 1
  BY CountType DEF Reconnected
<1>10. bp' \in {"run", "stopped"} /\ overlap' \in BOOLEAN
  BY DEF Reconnected, LoopOrExit, TypeOK
<1>11. QED
  BY <1>3, <1>4, <1>7, <1>8, <1>9, <1>10
  DEF Reconnected, TypeOK, node, db, locals, outputs, history
\* The other messages to the block processor.
LEMMA TypeMessages ==
  ASSUME TypeOK, \/ ReconnectedIdle \/ Disconnected \/ ShutdownReceived \/ BlockReceived
                 \/ BatchReceived \/ FillerStopped
  PROVE  TypeOK'
<1> USE DEF TypeOK, node, db, locals, outputs, history
<1>1. CASE ReconnectedIdle
  <2>1. skipped' \in BOOLEAN /\ bp' \in {"run", "stopped"}
    BY <1>1 DEF ReconnectedIdle, LoopOrExit
  <2>2. inbox' \in Seq(Notifications)
    BY <1>1, HeadTypes DEF ReconnectedIdle, Take
  <2>3. QED  BY <1>1, <2>1, <2>2 DEF ReconnectedIdle
<1>2. CASE Disconnected \/ ShutdownReceived
  <2>1. InterruptAll /\ bp' \in {"run", "stopped"} /\ is_shutdown' \in BOOLEAN
    BY <1>2 DEF Disconnected, ShutdownReceived, LoopOrExit
  <2>2. inbox' \in Seq(Notifications)
    BY <1>2, HeadTypes DEF Disconnected, ShutdownReceived, Take
  <2>3. fillers' \in Seq(Fillers)
    BY <2>1, InterruptSteady
  <2>4. gaps_fillers' = NoGaps /\ DOMAIN NoGaps = {}
    BY <2>1 DEF InterruptAll, NoGaps
  <2>5. QED  BY <2>1, <2>2, <2>3, <2>4 DEF InterruptAll
<1>3. CASE BlockReceived
  <2>1. inbox' \in Seq(Notifications) /\ Head(inbox).block \in Blocks
    BY <1>3, HeadTypes DEF BlockReceived, Take
  <2>2. work' \in Works
    BY <1>3, <2>1 DEF BlockReceived, Work, Works
  <2>3. QED  BY <1>3, <2>1, <2>2 DEF BlockReceived
<1>4. CASE BatchReceived
  <2>1. results' \in Seq(Progress) /\ Head(results) \in Progress
    BY <1>4, HeadTypes DEF BatchReceived
  <2>2. work' \in Works
    BY <1>4, <2>1 DEF BatchReceived, Work, Works, Progress
  <2>3. QED  BY <1>4, <2>1, <2>2 DEF BatchReceived
<1>5. CASE FillerStopped
  <2>1. PICK to : to = Head(results).to
    OBVIOUS
  <2>2. results' \in Seq(Progress) /\ to \in Blocks /\ Retire(to)
    BY <1>5, <2>1, HeadTypes DEF FillerStopped, Progress
  <2>3. fillers' \in Seq(Fillers) /\ DOMAIN fillers' = DOMAIN fillers
    BY <2>2, RetireSteady DEF Steady
  <2>4. gaps_filling_in_progress' \in 0 .. UsizeRange - 1
    BY <2>2, CountType DEF Retire
  <2>5. /\ DOMAIN gaps_fillers' \subseteq Blocks
        /\ \A t \in DOMAIN gaps_fillers' : gaps_fillers'[t] \in DOMAIN fillers'
    BY <2>2, <2>3 DEF Retire, Forget
  <2>6. bp' \in {"run", "stopped"} /\ abandoned' \subseteq Blocks
    BY <1>5, <2>1, <2>2 DEF FillerStopped, LoopOrExit
  <2>7. QED  BY <1>5, <2>2, <2>3, <2>4, <2>5, <2>6, ZenonT(30) DEF FillerStopped
<1>6. QED  BY <1>1, <1>2, <1>3, <1>4, <1>5

\* The block in hand: a batch lies within the blocks.
LEMMA WorkTypes ==
  ASSUME TypeOK, work # Idle
  PROVE  /\ work.kind \in {"Notification", "Update", "Finished"} /\ work.to \in Blocks \cup {None}
         /\ work.lo \in Blocks /\ work.hi \in Blocks /\ work.id \in Nat
         /\ work.phase \in {"header", "commit"} /\ work.fresh \in BOOLEAN
         /\ \A p \in {"header", "commit"}, fresh \in BOOLEAN :
              LET w == [work EXCEPT !.phase = p, !.fresh = fresh] IN
              /\ w \in Works /\ w # Idle /\ w.kind = work.kind /\ w.to = work.to /\ w.lo = work.lo
              /\ w.hi = work.hi /\ w.id = work.id /\ w.phase = p /\ w.fresh = fresh
         /\ LET w == [work EXCEPT !.phase = "header"] IN
            /\ w \in Works /\ w # Idle /\ w.kind = work.kind /\ w.to = work.to /\ w.lo = work.lo
            /\ w.hi = work.hi /\ w.id = work.id
         /\ work.lo < work.hi =>
              LET w == [work EXCEPT !.lo = @ + 1, !.phase = "header"] IN
              /\ w \in Works /\ w # Idle /\ w.kind = work.kind /\ w.to = work.to
              /\ w.lo = work.lo + 1 /\ w.hi = work.hi /\ w.id = work.id
<1>1. work \in [kind : {"Notification", "Update", "Finished"}, to : Blocks \cup {None},
               lo : Blocks, hi : Blocks, id : Nat, phase : {"header", "commit"}, fresh : BOOLEAN]
  BY DEF TypeOK, Works
<1>2. \A w : DOMAIN w # {"kind"} => w # Idle
  BY DEF Idle
<1>3. work.lo < work.hi => work.lo + 1 \in Blocks
  BY <1>1, BlockProcessorAssumption DEF Blocks
<1>4. /\ work.kind \in {"Notification", "Update", "Finished"} /\ work.to \in Blocks \cup {None}
      /\ work.lo \in Blocks /\ work.hi \in Blocks /\ work.id \in Nat
      /\ work.phase \in {"header", "commit"} /\ work.fresh \in BOOLEAN
  BY <1>1
<1>5. \A p \in {"header", "commit"}, fresh \in BOOLEAN :
        LET w == [work EXCEPT !.phase = p, !.fresh = fresh] IN
        /\ w \in Works /\ w # Idle /\ w.kind = work.kind /\ w.to = work.to /\ w.lo = work.lo
        /\ w.hi = work.hi /\ w.id = work.id /\ w.phase = p /\ w.fresh = fresh
  BY <1>1, ZenonT(30) DEF Works, Idle
<1>6. LET w == [work EXCEPT !.phase = "header"] IN
      /\ w \in Works /\ w # Idle /\ w.kind = work.kind /\ w.to = work.to /\ w.lo = work.lo
      /\ w.hi = work.hi /\ w.id = work.id
  BY <1>1 DEF Works, Idle
<1>7. ASSUME work.lo < work.hi
      PROVE  LET w == [work EXCEPT !.lo = @ + 1, !.phase = "header"] IN
             /\ w \in Works /\ w # Idle /\ w.kind = work.kind /\ w.to = work.to
             /\ w.lo = work.lo + 1 /\ w.hi = work.hi /\ w.id = work.id
  BY <1>1, <1>3, <1>7 DEF Works, Idle
<1>8. QED  BY <1>4, <1>5, <1>6, <1>7

\* The block in hand after a commit that does not end the gap.
LEMMA CommitEffect ==
  ASSUME TypeOK, CommitGapBlock
  PROVE  /\ work # Idle /\ work.kind \in {"Update", "Finished"} /\ work.phase = "commit"
         /\ gaps' = Insert(gaps, work.to, work.lo)
         /\ \/ work' = Idle /\ work.kind = "Update" /\ work.hi <= work.lo
            \/ /\ work.lo < work.hi /\ work' \in Works /\ work' # Idle
               /\ work'.kind = work.kind /\ work'.to = work.to /\ work'.lo = work.lo + 1
               /\ work'.hi = work.hi /\ work'.id = work.id
         /\ bp' \in {"run", "stopped"}
<1>1. work # Idle /\ work.kind # "Notification" /\ work.phase = "commit"
  BY DEF CommitGapBlock, CommitOk
<1>2. work.kind \in {"Update", "Finished"} /\ work.lo \in Int /\ work.hi \in Int
  <2>1. work.kind \in {"Update", "Finished"} /\ work.lo \in Blocks /\ work.hi \in Blocks
    BY <1>1, WorkTypes
  <2>2. QED  BY <2>1, BlockProcessorAssumption DEF Blocks
<1>3. CASE work.lo < work.hi
  <2>1. work' = [work EXCEPT !.lo = @ + 1, !.phase = "header"] /\ bp' = bp
    BY <1>3 DEF CommitGapBlock
  <2>2. PICK w : w = [work EXCEPT !.lo = @ + 1, !.phase = "header"]
    OBVIOUS
  <2>3. /\ w \in Works /\ w # Idle /\ w.kind = work.kind /\ w.to = work.to
        /\ w.lo = work.lo + 1 /\ w.hi = work.hi /\ w.id = work.id
    BY <1>1, <1>3, <2>2, WorkTypes
  <2>4. QED  BY <1>1, <1>2, <1>3, <2>1, <2>2, <2>3 DEF CommitGapBlock, TypeOK
<1>4. CASE ~(work.lo < work.hi)
  <2>1. work' = Idle /\ bp' \in {"run", "stopped"} /\ work.kind = "Update"
    BY <1>4 DEF CommitGapBlock, LoopOrExit
  <2>2. QED  BY <1>1, <1>2, <1>4, <2>1 DEF CommitGapBlock
<1>5. QED  BY <1>3, <1>4
LEMMA TypeBlocks ==
  ASSUME TypeOK, ReportInv, BlockStep
  PROVE  TypeOK'
<1> USE DEF TypeOK, node, db, locals, outputs, history
<1>1. work # Idle
  BY DEF BlockStep, HandleBlock, CommitConflict, CommitNotification, CommitGapBlock, CommitGapEnd,
     CommitOk
<1>2. work.lo \in Blocks /\ work.kind \in {"Notification", "Update", "Finished"}
  BY <1>1, WorkTypes
<1>3. work.kind # "Notification" => work.to \in Blocks
  <2> SUFFICES ASSUME work.kind # "Notification" PROVE work.to \in Blocks
    OBVIOUS
  <2>1. work.id \in DOMAIN fillers /\ work.to = fillers[work.id].to
    BY <1>1 DEF ReportInv, Batched
  <2>2. QED  BY <2>1, FillerTypes
<1>4. CASE HandleBlock
  <2>1. PICK fresh \in BOOLEAN : fresh = (work.lo \notin headers)
    OBVIOUS
  <2>2. work' = [work EXCEPT !.phase = "commit", !.fresh = fresh]
    BY <1>4, <2>1 DEF HandleBlock
  <2>3. work' \in Works
    BY <1>1, <2>2, WorkTypes
  <2>4. headers' \subseteq Blocks
    BY <1>2, <1>4 DEF HandleBlock
  <2>5. QED  BY <1>4, <2>3, <2>4 DEF HandleBlock
<1>5. CASE CommitConflict
  <2>1. work' \in Works /\ lost' \subseteq Blocks
    BY <1>1, <1>2, <1>5, WorkTypes DEF CommitConflict
  <2>2. QED  BY <1>5, <2>1 DEF CommitConflict
<1>6. ASSUME CommitOk PROVE stored' \subseteq Blocks /\ known' \subseteq Blocks
  BY <1>2, <1>6 DEF CommitOk
<1>7. CASE CommitNotification
  <2>1. pushes' \in [Blocks -> Nat]
    <3>1. pushes' = pushes \/ pushes' = [pushes EXCEPT ![work.lo] = @ + 1]
      BY <1>7 DEF CommitNotification
    <3>2. pushes \in [Blocks -> Nat]
      OBVIOUS
    <3>3. PICK b \in Blocks : b = work.lo
      BY <1>2
    <3>4. pushes[b] + 1 \in Nat
      BY <3>2
    <3>5. QED  BY <3>1, <3>2, <3>3, <3>4
  <2>2. work' \in Works /\ bp' \in {"run", "stopped"}
    BY <1>7 DEF CommitNotification, LoopOrExit, Works
  <2>3. CommitOk /\ cursor' \in Blocks /\ last_processed_block' \in Blocks
    BY <1>2, <1>7 DEF CommitNotification
  <2>4. QED  BY <1>6, <1>7, <2>1, <2>2, <2>3 DEF CommitNotification, CommitOk
<1>8. CASE CommitGapBlock
  <2>1. work' \in Works /\ bp' \in {"run", "stopped"} /\ gaps' = Insert(gaps, work.to, work.lo)
    BY <1>8, CommitEffect DEF Works
  <2>2. work.to \in Blocks /\ CommitOk
    BY <1>3, <1>8 DEF CommitGapBlock
  <2>3. DOMAIN gaps' \subseteq Blocks /\ \A t \in DOMAIN gaps' : gaps'[t] \in Blocks
    BY <1>2, <2>1, <2>2 DEF Insert
  <2>4. QED  BY <1>6, <1>8, <2>1, <2>2, <2>3 DEF CommitGapBlock, CommitOk
<1>9. CASE CommitGapEnd
  <2>1. Retire(work.to) /\ CommitOk /\ work' = Idle /\ gaps' = Forget(gaps, work.to)
    BY <1>9 DEF CommitGapEnd
  <2>2. fillers' \in Seq(Fillers) /\ DOMAIN fillers' = DOMAIN fillers
    BY <2>1, RetireSteady DEF Steady
  <2>3. gaps_filling_in_progress' \in 0 .. UsizeRange - 1
    BY <2>1, CountType DEF Retire
  <2>4. /\ DOMAIN gaps_fillers' \subseteq Blocks
        /\ \A t \in DOMAIN gaps_fillers' : gaps_fillers'[t] \in DOMAIN fillers'
    BY <2>1, <2>2 DEF Retire, Forget
  <2>5. DOMAIN gaps' \subseteq Blocks /\ \A t \in DOMAIN gaps' : gaps'[t] \in Blocks
    BY <2>1 DEF Forget
  <2>6. bp' \in {"run", "stopped"} /\ work' \in Works
    BY <1>9, <2>1 DEF CommitGapEnd, LoopOrExit, Works
  <2>7. QED  BY <1>6, <1>9, <2>1, <2>2, <2>3, <2>4, <2>5, <2>6, ZenonT(30) DEF CommitGapEnd, CommitOk
<1>10. QED  BY <1>4, <1>5, <1>7, <1>8, <1>9, ZenonT(30) DEF BlockStep

LEMMA TypeRestart == ASSUME TypeOK, Restart PROVE TypeOK'
<1> USE DEF TypeOK, node, db, locals, outputs, history
<1>1. lost' \subseteq Blocks
  <2>1. work # Idle => work.lo \in Blocks
    BY WorkTypes
  <2>2. QED  BY <2>1 DEF Restart
<1>2. DOMAIN NoGaps = {} /\ Idle \in Works
  BY DEF NoGaps, Works
<1>3. restarts' \in 0 .. MaxRestarts /\ 0 \in 0 .. UsizeRange - 1
  <2>1. restarts < MaxRestarts /\ restarts' = restarts + 1
    BY Zenon DEF Restart
  <2>2. restarts \in 0 .. MaxRestarts
    BY Zenon DEF TypeOK
  <2>3. QED  BY <2>1, <2>2, BlockProcessorAssumption
<1>4. /\ << >> \in Seq(Blocks) /\ << >> \in Seq(Notifications) /\ << >> \in Seq(Progress)
      /\ << >> \in Seq(Fillers)
  OBVIOUS
<1>5. /\ link' = "down" /\ shutting_down' = FALSE /\ rpc' = << >>
      /\ inbox' = << >> /\ results' = << >>
      /\ bp' = "run" /\ has_first_connect' = FALSE /\ gaps_fillers' = NoGaps
      /\ is_shutdown' = FALSE /\ last_processed_block' = None /\ gaps_filling_in_progress' = 0
      /\ work' = Idle /\ fillers' = << >> /\ known' = headers /\ twins' = FALSE /\ abandoned' = {}
      /\ UNCHANGED <<tip, sessions, headers, stored, gaps, cursor, pushes, unannounced, skipped, overlap>>
  BY DEF Restart
<1>6. QED  BY <1>1, <1>2, <1>3, <1>4, <1>5, ZenonT(30)

-----------------------------------------------------------------------------
(* The fillers, their messages and their gaps.                              *)

\* The batch in hand is the same before and after a step.
SameBatch ==
  /\ Batched' <=> Batched
  /\ Batched => /\ work'.kind = work.kind /\ work'.id = work.id /\ work'.to = work.to
                /\ work'.lo = work.lo /\ work'.hi = work.hi

Ended(f) ==
  \/ \E i \in DOMAIN results : results[i].kind # "Update" /\ results[i].id = f
  \/ Batched /\ work.kind = "Finished" /\ work.id = f

LEMMA LiveOf ==
  /\ \A f : f \in Live <=> f \in Active \/ Ended(f)
  /\ \A f : f \in Live' <=> f \in Active' \/ Ended(f)'
<1>1. \A f : f \in Reported <=> Ended(f)
  BY DEF Reported, Ended, Batched
<1>2. \A f : f \in Reported' <=> Ended(f)'
  BY DEF Reported, Ended, Batched
<1>3. QED  BY <1>1, <1>2 DEF Live

LEMMA LiveDomain == ASSUME ReportInv PROVE \A f \in Live : f \in DOMAIN fillers
<1>1. \A f \in Active : f \in DOMAIN fillers
  BY DEF Active
<1>2. \A f : Ended(f) => f \in DOMAIN fillers
  BY DEF Ended, ReportInv
<1>3. QED  BY <1>1, <1>2, LiveOf

\* The invariants that only look at the fillers, their messages and the gaps.
Filling == ReportInv /\ FillersCounted /\ ServedInv /\ FillInv

LEMMA FillersKept ==
  ASSUME Filling, Steady, SameBatch, headers \subseteq headers',
         UNCHANGED <<results, gaps, has_first_connect, overlap, twins, abandoned,
                     gaps_filling_in_progress>>
  PROVE  Filling'
<1>1. ReportInv /\ FillersCounted /\ ServedInv /\ FillInv
  BY DEF Filling
<1>2. \A f : (f \in Active' <=> f \in Active) /\ (Ended(f)' <=> Ended(f))
  <2>1. \A f : f \in Active' <=> f \in Active
    BY DEF Active, Steady
  <2>2. \A f : Ended(f)' <=> Ended(f)
    BY DEF Ended, SameBatch
  <2>3. QED  BY <2>1, <2>2
<1>3. Live' = Live
  BY <1>2, LiveOf
<1>4. \A f \in Live : f \in DOMAIN fillers
  BY <1>1, LiveDomain
<1>5. \A f \in DOMAIN fillers : fillers'[f].to = fillers[f].to /\ fillers'[f].from = fillers[f].from
  BY DEF Steady
<1>6. DOMAIN fillers' = DOMAIN fillers
  BY DEF Steady
<1>7. ReportInv'
  <2>1. \A i \in DOMAIN results :
          /\ results[i].id \in DOMAIN fillers' \cap Live' /\ results[i].to = fillers'[results[i].id].to
          /\ results[i].kind # "Update" => results[i].id \notin Active'
    BY <1>1, <1>2, <1>3, <1>5, <1>6 DEF ReportInv
  <2>2. Batched' =>
          /\ work'.id \in DOMAIN fillers' \cap Live' /\ work'.to = fillers'[work'.id].to
          /\ work'.kind = "Finished" =>
               work'.id \notin Active' /\ \A i \in DOMAIN results : results[i].id # work'.id
    BY <1>1, <1>2, <1>3, <1>5, <1>6 DEF ReportInv, SameBatch
  <2>3. QED  BY <1>1, <2>1, <2>2 DEF ReportInv
<1>8. FillersCounted'
  BY <1>1, <1>3 DEF FillersCounted, Live
<1>9. ServedInv'
  BY <1>1, <1>3, <1>4, <1>5 DEF ServedInv
<1>10. FillInv'
  <2>1. \A b, f, i : Fetched(b, f, i) => Fetched(b, f, i)'
    BY ZenonT(30) DEF Fetched, SameBatch
  <2>2. ASSUME NEW f \in Live, NEW s, Filled(f, s) PROVE Filled(f, s)'
    <3>1. s <= gaps'[fillers'[f].to]
      BY <1>4, <1>5, <2>2 DEF Filled
    <3>2. f \in Active' =>
            /\ s <= fillers'[f].from
            /\ \A b \in s .. fillers'[f].from - 1 : Fetched(b, f, Len(results) + 1)'
      BY <1>2, <1>4, <1>5, <2>1, <2>2 DEF Filled
    <3>3. \A i \in DOMAIN results : results[i].id = f /\ results[i].kind \in {"Update", "Finished"} =>
            /\ s <= results[i].lo
            /\ \A b \in s .. results[i].lo - 1 : Fetched(b, f, i)'
            /\ results[i].kind = "Finished" => results[i].to <= results[i].hi
      BY <2>1, <2>2 DEF Filled
    <3>4. Batched' /\ work'.id = f =>
            /\ s <= work'.lo
            /\ \A b \in s .. work'.lo - 1 : b \in headers'
            /\ work'.kind = "Finished" => work'.to <= work'.hi
      BY <2>2 DEF Filled, SameBatch
    <3>5. QED  BY <3>1, <3>2, <3>3, <3>4 DEF Filled
  <2>3. QED  BY <1>1, <1>3, <1>4, <1>5, <2>2 DEF FillInv
<1>11. QED  BY <1>7, <1>8, <1>9, <1>10 DEF Filling
\* A filler goes on, or sends a message: its batch covers what it went over, and its last
\* message keeps it among the live ones.
LEMMA FillingFiller ==
  ASSUME TypeOK, Filling, NEW f \in DOMAIN fillers, FillerStep(f)
  PROVE  Filling'
<1>1. /\ UNCHANGED <<work, headers, gaps, has_first_connect, overlap, twins, abandoned,
                     gaps_filling_in_progress>>
      /\ f \in Active /\ DOMAIN fillers' = DOMAIN fillers
      /\ \A g \in DOMAIN fillers :
           fillers'[g].to = fillers[g].to /\ (g # f => fillers'[g] = fillers[g])
  BY FillerEffect DEF db, locals, history, Active
<1>2. CASE Steady /\ UNCHANGED results
  <2>1. SameBatch
    BY <1>1 DEF SameBatch, Batched
  <2>2. QED  BY <1>1, <1>2, <2>1, FillersKept
<1>3. ASSUME NEW k \in {"Update", "Interrupted", "Error", "Finished"}, NEW lo \in Blocks, NEW hi \in Blocks,
             Sends(Report(f, k, lo, hi)),
             k = "Update" => fillers'[f].pc = "check" /\ fillers'[f].from = hi /\ lo = fillers[f].from /\ lo <= hi,
             k # "Update" => fillers'[f].pc = "done",
             k = "Finished" => lo = fillers[f].from /\ fillers[f].to <= hi
      PROVE  Filling'
  <2>1. PICK m : m = Report(f, k, lo, hi)
    OBVIOUS
  <2>2. /\ m \in Progress /\ m.kind = k /\ m.to = fillers[f].to /\ m.lo = lo /\ m.hi = hi /\ m.id = f
        /\ results' = Append(results, m)
    BY <1>3, <2>1, FillerTypes DEF Report, Progress, Sends
  <2>3. PICK n \in Nat : n = Len(results)
    <3>1. results \in Seq(Progress)
      BY Zenon DEF TypeOK
    <3>2. QED  BY <3>1
  <2>4. /\ DOMAIN results = 1 .. n /\ DOMAIN results' = 1 .. n + 1 /\ Len(results') = n + 1
        /\ \A i \in 1 .. n : results'[i] = results[i]
        /\ results'[n + 1] = m
    <3>1. results \in Seq(Progress)
      BY Zenon DEF TypeOK
    <3>2. m \in Progress
      BY <2>2
    <3>3. /\ DOMAIN results = 1 .. n /\ DOMAIN Append(results, m) = 1 .. n + 1
          /\ Len(Append(results, m)) = n + 1
          /\ \A i \in 1 .. n : Append(results, m)[i] = results[i]
          /\ Append(results, m)[n + 1] = m
      BY <2>3, <3>1, <3>2
    <3>4. QED  BY <2>2, <3>3, Zenon
  <2>5. ReportInv /\ FillersCounted /\ ServedInv /\ FillInv
    BY DEF Filling
  <2>6. \A g : Ended(g)' <=> Ended(g) \/ (g = f /\ k # "Update")
    <3>1. \A i \in 1 .. n + 1 : i \in 1 .. n \/ i = n + 1
      OBVIOUS
    <3>2. \A i \in 1 .. n : i \in 1 .. n + 1
      OBVIOUS
    <3>3. n + 1 \in 1 .. n + 1
      OBVIOUS
    <3>4. \A g : (\E i \in DOMAIN results' : results'[i].kind # "Update" /\ results'[i].id = g)
             <=> (\E i \in DOMAIN results : results[i].kind # "Update" /\ results[i].id = g)
                   \/ (g = f /\ k # "Update")
      BY <2>2, <2>4, <3>1, <3>2, <3>3
    <3>5. QED  BY <1>1, <3>4 DEF Ended, Batched
  <2>7. \A g : g \in Active' <=> g \in Active /\ (g # f \/ k = "Update")
    BY <1>1, <1>3 DEF Active
  <2>8. Live' = Live
    BY <1>1, <2>6, <2>7, LiveOf
  <2>9. \A g \in Live : g \in DOMAIN fillers
    BY <2>5, LiveDomain
  <2>10. \A i \in DOMAIN results' : i \in Nat /\ (i \in 1 .. n \/ i = n + 1)
    BY <2>4
  <2>11. ReportInv'
    <3>1. \A i \in DOMAIN results' :
            /\ results'[i].id \in DOMAIN fillers' \cap Live' /\ results'[i].to = fillers'[results'[i].id].to
            /\ results'[i].kind # "Update" => results'[i].id \notin Active'
      <4>1. \A i \in 1 .. n :
              /\ results[i].id \in DOMAIN fillers \cap Live /\ results[i].to = fillers[results[i].id].to
              /\ results[i].kind # "Update" => results[i].id \notin Active
        BY <2>4, <2>5 DEF ReportInv
      <4>2. f \in Live
        BY <1>1, LiveOf
      <4>3. QED  BY <1>1, <2>2, <2>4, <2>7, <2>8, <2>10, <4>1, <4>2
    <3>2. \A i, j \in DOMAIN results' :
            i < j /\ results'[i].id = results'[j].id => results'[i].kind = "Update"
      <4>1. \A i \in 1 .. n : results[i].kind # "Update" => results[i].id # f
        BY <1>1, <2>4, <2>5, ZenonT(30) DEF ReportInv
      <4>2. \A i, j \in 1 .. n : i < j /\ results[i].id = results[j].id => results[i].kind = "Update"
        BY <2>4, <2>5 DEF ReportInv
      <4>3. \A j \in 1 .. n : ~(n + 1 < j)
        OBVIOUS
      <4>4. QED  BY <2>2, <2>4, <2>10, <4>1, <4>2, <4>3
    <3>3. Batched' =>
            /\ work'.id \in DOMAIN fillers' \cap Live' /\ work'.to = fillers'[work'.id].to
            /\ work'.kind = "Finished" =>
                 work'.id \notin Active' /\ \A i \in DOMAIN results' : results'[i].id # work'.id
      <4>1. Batched =>
              /\ work.id \in DOMAIN fillers \cap Live /\ work.to = fillers[work.id].to
              /\ work.kind = "Finished" =>
                   work.id \notin Active /\ \A i \in 1 .. n : results[i].id # work.id
        BY <2>4, <2>5, Zenon DEF ReportInv
      <4>2. work' = work /\ (Batched' <=> Batched)
        BY <1>1, Zenon DEF Batched
      <4>3. ASSUME NEW w, w \notin Active, \A i \in 1 .. n : results[i].id # w
            PROVE  w \notin Active' /\ \A i \in DOMAIN results' : results'[i].id # w
        BY <1>1, <2>2, <2>4, <2>7, <2>10, <4>3, ZenonT(20)
      <4>4. QED  BY <1>1, <2>8, <4>1, <4>2, <4>3, ZenonT(20)
    <3>4. QED  BY <3>1, <3>2, <3>3 DEF ReportInv
  <2>12. FillersCounted'
    BY <1>1, <2>5, <2>8 DEF FillersCounted, Live
  <2>13. ServedInv'
    BY <1>1, <2>5, <2>8, <2>9 DEF ServedInv
  <2>14. FillInv'
    <3>1. \A b, g : \A i \in Nat : Fetched(b, g, i) => Fetched(b, g, i)'
      <4>1. \A j \in DOMAIN results : j \in DOMAIN results' /\ results'[j] = results[j]
        <5>1. 1 .. n \subseteq 1 .. n + 1
          OBVIOUS
        <5>2. QED  BY <2>4, <5>1, Zenon
      <4>2. QED  BY <1>1, <4>1, ZenonT(20) DEF Fetched, Batched
    <3>2. \A b, g : Fetched(b, g, n + 1) => Fetched(b, g, n + 2)'
      <4>1. \A i \in DOMAIN results : i \in DOMAIN results' /\ results'[i] = results[i] /\ i < n + 2
        <5>1. \A i \in 1 .. n : i \in 1 .. n + 1 /\ i < n + 2
          OBVIOUS
        <5>2. QED  BY <2>4, <5>1, Zenon
      <4>2. QED  BY <1>1, <4>1 DEF Fetched, Batched
    <3>3. ASSUME NEW g \in Live, NEW s \in Blocks, Filled(g, s) PROVE Filled(g, s)'
      <4>1. s <= gaps'[fillers'[g].to]
        BY <1>1, <2>9, <3>3 DEF Filled
      <4>2. ASSUME g \in Active'
            PROVE  /\ s <= fillers'[g].from
                   /\ \A b \in s .. fillers'[g].from - 1 : Fetched(b, g, n + 2)'
        <5>1. g \in Active /\ s <= fillers[g].from
              /\ \A b \in s .. fillers[g].from - 1 : Fetched(b, g, n + 1)
          BY <2>3, <2>7, <3>3, <4>2 DEF Filled
        <5>2. CASE g # f
          BY <1>1, <2>9, <3>2, <5>1, <5>2
        <5>3. CASE g = f
          <6>1. k = "Update" /\ fillers'[g].from = hi /\ lo = fillers[g].from /\ lo <= hi
            BY <1>3, <2>7, <4>2, <5>3
          <6>2. s \in Int /\ lo \in Int /\ hi \in Int
            BY BlockProcessorAssumption DEF Blocks
          <6>3. s <= hi
            BY <5>1, <6>1, <6>2
          <6>4. \A b \in lo .. hi : Fetched(b, f, n + 2)'
            BY <2>2, <2>4, <6>1 DEF Fetched
          <6>5. \A b \in s .. hi - 1 : b \in s .. lo - 1 \/ b \in lo .. hi
            BY <6>2
          <6>6. QED  BY <3>2, <5>1, <5>3, <6>1, <6>3, <6>4, <6>5
        <5>4. QED  BY <5>2, <5>3
      <4>3. ASSUME NEW i \in DOMAIN results', results'[i].id = g, results'[i].kind \in {"Update", "Finished"}
            PROVE  /\ s <= results'[i].lo
                   /\ \A b \in s .. results'[i].lo - 1 : Fetched(b, g, i)'
                   /\ results'[i].kind = "Finished" => results'[i].to <= results'[i].hi
        <5>1. CASE i \in 1 .. n
          <6>1. i \in DOMAIN results /\ results'[i] = results[i] /\ i \in Nat
            BY <2>4, <2>10, <5>1, Zenon
          <6>2. /\ s <= results[i].lo
                /\ \A b \in s .. results[i].lo - 1 : Fetched(b, g, i)
                /\ results[i].kind = "Finished" => results[i].to <= results[i].hi
            BY <3>3, <4>3, <6>1, ZenonT(20) DEF Filled
          <6>3. QED  BY <3>1, <6>1, <6>2, ZenonT(20)
        <5>2. CASE i = n + 1
          <6>1. g = f /\ k \in {"Update", "Finished"} /\ lo = fillers[f].from
            BY <1>3, <2>2, <2>4, <4>3, <5>2
          <6>2. s <= lo /\ \A b \in s .. lo - 1 : Fetched(b, f, n + 1)
            BY <1>1, <2>3, <3>3, <6>1 DEF Filled
          <6>3. \A b \in s .. lo - 1 : Fetched(b, f, n + 1)'
            BY <3>1, <6>2
          <6>4. QED  BY <1>3, <2>2, <2>4, <5>2, <6>1, <6>2, <6>3, ZenonT(30)
        <5>3. QED  BY <2>10, <5>1, <5>2
      <4>4. Batched' /\ work'.id = g =>
              /\ s <= work'.lo
              /\ \A b \in s .. work'.lo - 1 : b \in headers'
              /\ work'.kind = "Finished" => work'.to <= work'.hi
        BY <1>1, <3>3 DEF Filled, Batched
      <4>5. Len(results') + 1 = n + 2
        BY <2>4
      <4>6. QED  BY <4>1, <4>2, <4>3, <4>4, <4>5 DEF Filled
    <3>4. ASSUME ~overlap'
          PROVE  /\ \A g, h \in Live' : fillers'[g].to = fillers'[h].to => g = h
                 /\ \A g \in Live' : fillers'[g].to \in DOMAIN gaps' /\ \E s \in Blocks : Filled(g, s)'
      <4>1. ~overlap /\ gaps' = gaps /\ \A g \in Live : fillers'[g].to = fillers[g].to
        BY <1>1, <2>9, <3>4
      <4>2. /\ \A g, h \in Live : fillers[g].to = fillers[h].to => g = h
            /\ \A g \in Live : fillers[g].to \in DOMAIN gaps /\ \E s \in Blocks : Filled(g, s)
        BY <2>5, <4>1, ZenonT(10) DEF FillInv
      <4>3. \A g \in Live : \E s \in Blocks : Filled(g, s)'
        BY <3>3, <4>2, ZenonT(10)
      <4>4. QED  BY <2>8, <4>1, <4>2, <4>3
    <3>5. QED  BY <3>4, ZenonT(10) DEF FillInv
  <2>15. QED  BY <2>11, <2>12, <2>13, <2>14 DEF Filling
<1>4. fillers[f].from \in Blocks /\ 0 \in Blocks
  BY FillerTypes, BlockProcessorAssumption DEF Blocks
<1>5. QED
  <2>1. \/ Steady /\ UNCHANGED results
        \/ /\ fillers'[f].pc = "done"
           /\ \E k \in {"Interrupted", "Error", "Finished"}, hi \in Blocks :
                \E lo \in {0, fillers[f].from} :
                  /\ k = "Finished" => lo = fillers[f].from /\ fillers[f].to <= hi
                  /\ Sends(Report(f, k, lo, hi))
        \/ /\ fillers'[f].pc = "check"
           /\ \E hi \in Blocks :
                /\ fillers[f].from <= hi /\ fillers'[f].from = hi
                /\ Sends(Report(f, "Update", fillers[f].from, hi))
    BY FillerEffect
  <2>2. ASSUME fillers'[f].pc = "done",
               NEW k \in {"Interrupted", "Error", "Finished"}, NEW hi \in Blocks,
               NEW lo \in {0, fillers[f].from},
               k = "Finished" => lo = fillers[f].from /\ fillers[f].to <= hi,
               Sends(Report(f, k, lo, hi))
        PROVE  Filling'
    BY <1>3, <1>4, <2>2
  <2>3. ASSUME fillers'[f].pc = "check",
               NEW hi \in Blocks, fillers[f].from <= hi, fillers'[f].from = hi,
               Sends(Report(f, "Update", fillers[f].from, hi))
        PROVE  Filling'
    BY <1>3, <1>4, <2>3
  <2>4. QED  BY <1>2, <2>1, <2>2, <2>3
\* The first message of the fillers' channel is read, and none is in hand.
LEMMA ReadResult ==
  ASSUME TypeOK, work = Idle, results # << >>, results' = Tail(results)
  PROVE  \E n \in Nat :
           /\ DOMAIN results = 1 .. n + 1 /\ DOMAIN results' = 1 .. n /\ Len(results) = n + 1 /\ Len(results') = n
           /\ \A i \in 1 .. n : results'[i] = results[i + 1] /\ i + 1 \in 1 .. n + 1
           /\ Head(results) = results[1] /\ results[1] \in Progress /\ 1 \in 1 .. n + 1
           /\ \A i \in 1 .. n + 1 : i = 1 \/ (i - 1 \in 1 .. n /\ results'[i - 1] = results[i])
           /\ ~Batched
<1>1. results \in Seq(Progress)
  BY DEF TypeOK
<1>2. PICK n \in Nat : Len(results) = n + 1
  <2>1. Len(results) \in Nat \ {0}
    BY <1>1, TailOf
  <2>2. Len(results) - 1 \in Nat /\ Len(results) = (Len(results) - 1) + 1
    BY <2>1
  <2>3. QED  BY <2>2
<1>3. /\ DOMAIN results = 1 .. n + 1 /\ DOMAIN results' = 1 .. n /\ Len(results') = n
      /\ \A i \in 1 .. n : results'[i] = results[i + 1] /\ i + 1 \in 1 .. n + 1
      /\ Head(results) = results[1] /\ results[1] \in Progress
  BY <1>1, <1>2, TailOf
<1>4. \A i \in 1 .. n + 1 : i = 1 \/ (i - 1 \in 1 .. n /\ (i - 1) + 1 = i)
  OBVIOUS
<1>5. 1 \in 1 .. n + 1
  OBVIOUS
<1>6. \A i \in 1 .. n + 1 : i = 1 \/ (i - 1 \in 1 .. n /\ results'[i - 1] = results[i])
  BY <1>3, <1>4, ZenonT(30)
<1>7. QED  BY <1>2, <1>3, <1>5, <1>6 DEF Batched

\* A batch in hand is as good as one that waits.
LEMMA FillingBatch == ASSUME TypeOK, Filling, BatchReceived PROVE Filling'
<1>1. /\ work = Idle /\ results # << >> /\ results' = Tail(results)
      /\ Head(results).kind \in {"Update", "Finished"}
      /\ UNCHANGED <<fillers, headers, gaps, has_first_connect, overlap, twins, abandoned,
                     gaps_filling_in_progress>>
  BY DEF BatchReceived, db, locals, history
<1>2. PICK n \in Nat :
        /\ DOMAIN results = 1 .. n + 1 /\ DOMAIN results' = 1 .. n /\ Len(results) = n + 1 /\ Len(results') = n
        /\ \A i \in 1 .. n : results'[i] = results[i + 1] /\ i + 1 \in 1 .. n + 1
        /\ Head(results) = results[1] /\ results[1] \in Progress /\ 1 \in 1 .. n + 1
        /\ \A i \in 1 .. n + 1 : i = 1 \/ (i - 1 \in 1 .. n /\ results'[i - 1] = results[i])
        /\ ~Batched
  BY <1>1, ReadResult
<1>3. PICK m : m = results[1]
  OBVIOUS
<1>4. work' = Work(m.kind, m.to, m.lo, m.hi, m.id)
  BY <1>2, <1>3 DEF BatchReceived
<1>5. /\ work' # Idle /\ work'.kind = m.kind /\ work'.to = m.to /\ work'.lo = m.lo /\ work'.hi = m.hi
      /\ work'.id = m.id /\ Batched' /\ m.kind \in {"Update", "Finished"}
  BY <1>1, <1>2, <1>3, <1>4 DEF Work, Idle, Batched
<1>6. ReportInv /\ FillersCounted /\ ServedInv /\ FillInv
  BY DEF Filling
<1>7. Live' = Live
  <2>1. ASSUME NEW f, Ended(f) PROVE Ended(f)'
    <3>1. PICK i \in 1 .. n + 1 : results[i].kind # "Update" /\ results[i].id = f
      BY <1>2, <2>1 DEF Ended
    <3>2. CASE i = 1
      BY <1>3, <1>5, <3>1, <3>2 DEF Ended
    <3>3. CASE i # 1
      <4>1. i - 1 \in 1 .. n /\ results'[i - 1] = results[i]
        BY <1>2, <3>3
      <4>2. QED  BY <1>2, <3>1, <4>1 DEF Ended
    <3>4. QED  BY <3>2, <3>3
  <2>2. ASSUME NEW f, Ended(f)' PROVE Ended(f)
    <3>1. ASSUME NEW i \in 1 .. n, results'[i].kind # "Update", results'[i].id = f PROVE Ended(f)
      <4>1. i + 1 \in 1 .. n + 1 /\ results'[i] = results[i + 1]
        BY <1>2
      <4>2. QED  BY <1>2, <3>1, <4>1 DEF Ended
    <3>2. CASE m.kind = "Finished" /\ m.id = f
      BY <1>2, <1>3, <3>2 DEF Ended
    <3>3. QED  BY <1>2, <1>5, <2>2, <3>1, <3>2 DEF Ended
  <2>3. Active' = Active
    BY <1>1 DEF Active
  <2>4. QED  BY <2>1, <2>2, <2>3, LiveOf
<1>8. Active' = Active
  BY <1>1 DEF Active
<1>9. ReportInv'
  <2>1. \A i \in DOMAIN results' :
          /\ results'[i].id \in DOMAIN fillers \cap Live /\ results'[i].to = fillers[results'[i].id].to
          /\ results'[i].kind # "Update" => results'[i].id \notin Active
    BY <1>2, <1>6 DEF ReportInv
  <2>2. \A i, j \in DOMAIN results' :
          i < j /\ results'[i].id = results'[j].id => results'[i].kind = "Update"
    <3> SUFFICES ASSUME NEW i \in 1 .. n, NEW j \in 1 .. n, i < j, results'[i].id = results'[j].id
                 PROVE  results'[i].kind = "Update"
      BY <1>2
    <3>1. i + 1 < j + 1
      OBVIOUS
    <3>2. /\ i + 1 \in DOMAIN results /\ results'[i] = results[i + 1]
          /\ j + 1 \in DOMAIN results /\ results'[j] = results[j + 1]
      BY <1>2
    <3>3. QED  BY <1>6, <3>1, <3>2 DEF ReportInv
  <2>3. m.id \in DOMAIN fillers \cap Live /\ m.to = fillers[m.id].to
        /\ (m.kind # "Update" => m.id \notin Active)
    BY <1>2, <1>3, <1>6 DEF ReportInv
  <2>4. m.kind # "Update" => \A i \in DOMAIN results' : results'[i].id # m.id
    <3>1. \A i \in 1 .. n : 1 < i + 1
      OBVIOUS
    <3>2. QED  BY <1>2, <1>3, <1>6, <3>1, ZenonT(30) DEF ReportInv
  <2>5. QED  BY <1>1, <1>5, <1>7, <1>8, <2>1, <2>2, <2>3, <2>4, ZenonT(30) DEF ReportInv
<1>10. FillersCounted'
  BY <1>1, <1>6, <1>7 DEF FillersCounted, Live
<1>11. ServedInv'
  BY <1>1, <1>6, <1>7 DEF ServedInv
<1>12. FillInv'
  <2>1. ASSUME NEW b, NEW f, NEW i \in Nat, Fetched(b, f, i + 1) PROVE Fetched(b, f, i)'
    <3>1. CASE b \in headers
      BY <1>1, <3>1 DEF Fetched
    <3>2. ASSUME NEW j \in DOMAIN results, j < i + 1, results[j].kind = "Update", results[j].id = f,
                 b \in results[j].lo .. results[j].hi
          PROVE  Fetched(b, f, i)'
      <4>1. CASE j = 1
        BY <1>3, <1>5, <3>2, <4>1 DEF Fetched
      <4>2. CASE j # 1
        <5>1. j - 1 \in 1 .. n /\ results'[j - 1] = results[j]
          BY <1>2, <4>2
        <5>2. j - 1 < i
          BY <1>2, <3>2
        <5>3. QED  BY <1>2, <3>2, <5>1, <5>2 DEF Fetched
      <4>3. QED  BY <4>1, <4>2
    <3>3. QED  BY <1>2, <2>1, <3>1, <3>2 DEF Fetched
  <2>2. ASSUME NEW f \in Live, NEW s \in Blocks, Filled(f, s) PROVE Filled(f, s)'
    <3>1. f \in Active =>
            /\ s <= fillers[f].from
            /\ \A b \in s .. fillers[f].from - 1 : Fetched(b, f, n + 1)'
      <4>1. f \in Active =>
              /\ s <= fillers[f].from
              /\ \A b \in s .. fillers[f].from - 1 : Fetched(b, f, Len(results) + 1)
        BY <2>2, Zenon DEF Filled
      <4>2. QED  BY <1>2, <2>1, <4>1
    <3>2. ASSUME NEW i \in DOMAIN results', results'[i].id = f, results'[i].kind \in {"Update", "Finished"}
          PROVE  /\ s <= results'[i].lo
                 /\ \A b \in s .. results'[i].lo - 1 : Fetched(b, f, i)'
                 /\ results'[i].kind = "Finished" => results'[i].to <= results'[i].hi
      <4>1. i \in Nat /\ i + 1 \in DOMAIN results /\ results'[i] = results[i + 1]
        BY <1>2
      <4>2. /\ s <= results[i + 1].lo
            /\ \A b \in s .. results[i + 1].lo - 1 : Fetched(b, f, i + 1)
            /\ results[i + 1].kind = "Finished" => results[i + 1].to <= results[i + 1].hi
        BY <2>2, <3>2, <4>1, ZenonT(20) DEF Filled
      <4>3. QED  BY <2>1, <4>1, <4>2, ZenonT(20)
    <3>3. ASSUME m.id = f
          PROVE  /\ s <= m.lo
                 /\ \A b \in s .. m.lo - 1 : b \in headers
                 /\ m.kind = "Finished" => m.to <= m.hi
      <4>1. \A b : Fetched(b, f, 1) => b \in headers
        <5>1. \A j \in DOMAIN results : ~(j < 1)
          BY <1>2
        <5>2. QED  BY <1>2, <5>1 DEF Fetched
      <4>2. /\ s <= m.lo
            /\ \A b \in s .. m.lo - 1 : Fetched(b, f, 1)
            /\ m.kind = "Finished" => m.to <= m.hi
        BY <1>2, <1>3, <1>5, <2>2, <3>3 DEF Filled
      <4>3. QED  BY <4>1, <4>2
    <3>4. s <= gaps[fillers[f].to]
      BY <2>2 DEF Filled
    <3>5. QED  BY <1>1, <1>2, <1>5, <1>8, <3>1, <3>2, <3>3, <3>4 DEF Filled
  <2>3. QED  BY <1>1, <1>6, <1>7, <2>2 DEF FillInv
<1>13. QED  BY <1>9, <1>10, <1>11, <1>12 DEF Filling
\* The lower end of a gap moves up to the block just committed, or the gap goes with its
\* last block: the filler's other blocks are all still fetched, and no other gap changes.
LEMMA FillingGapBlock ==
  ASSUME TypeOK, Filling, CommitGapBlock, work.lo \in headers
  PROVE  Filling'
<1>1. UNCHANGED <<fillers, results, headers, has_first_connect, overlap, twins, abandoned,
                  gaps_filling_in_progress>>
  BY DEF CommitGapBlock, CommitOk, history
<1>2. /\ work # Idle /\ work.kind \in {"Update", "Finished"} /\ gaps' = Insert(gaps, work.to, work.lo)
      /\ \/ work' = Idle /\ work.kind = "Update" /\ work.hi <= work.lo
         \/ /\ work.lo < work.hi /\ work' # Idle
            /\ work'.kind = work.kind /\ work'.to = work.to /\ work'.lo = work.lo + 1
            /\ work'.hi = work.hi /\ work'.id = work.id
  BY CommitEffect
<1>3. work.lo \in Int /\ work.hi \in Int
  <2>1. work.lo \in Blocks /\ work.hi \in Blocks
    BY <1>2, WorkTypes
  <2>2. QED  BY <2>1, BlockProcessorAssumption DEF Blocks
<1>4. Batched /\ ReportInv /\ FillersCounted /\ ServedInv /\ FillInv
  BY <1>2 DEF Batched, Filling
<1>5. Active' = Active
  BY <1>1 DEF Active
<1>6. Live' = Live
  <2>1. \A f : Ended(f)' <=> Ended(f)
    BY <1>1, <1>2 DEF Ended, Batched
  <2>2. QED  BY <1>5, <2>1, LiveOf
<1>7. Batched' => work'.kind = work.kind /\ work'.to = work.to /\ work'.id = work.id
  BY <1>2 DEF Batched
<1>8. ReportInv'
  BY <1>1, <1>4, <1>5, <1>6, <1>7 DEF ReportInv
<1>9. FillersCounted'
  BY <1>1, <1>4, <1>6 DEF FillersCounted, Live
<1>10. work.id \in Live /\ work.to = fillers[work.id].to
  BY <1>4 DEF ReportInv
<1>11. /\ DOMAIN gaps' = DOMAIN gaps \cup {work.to} /\ gaps'[work.to] = work.lo
       /\ \A t \in DOMAIN gaps : t # work.to => gaps'[t] = gaps[t]
  BY <1>2 DEF Insert
<1>12. ServedInv'
  BY <1>1, <1>4, <1>6, <1>10, <1>11 DEF ServedInv
<1>13. FillInv'
  <2> SUFFICES ASSUME ~overlap
               PROVE  /\ \A f, g \in Live : fillers[f].to = fillers[g].to => f = g
                      /\ \A f \in Live : fillers[f].to \in DOMAIN gaps' /\ \E s \in Blocks : Filled(f, s)'
    BY <1>1, <1>6 DEF FillInv
  <2>1. \A f, g \in Live : fillers[f].to = fillers[g].to => f = g
    BY <1>4 DEF FillInv
  <2>2. \A b, f, i : Fetched(b, f, i) => Fetched(b, f, i)'
    <3> SUFFICES ASSUME NEW b, NEW f, NEW i, Fetched(b, f, i) PROVE Fetched(b, f, i)'
      OBVIOUS
    <3>1. CASE b \in headers
      BY <1>1, <3>1 DEF Fetched
    <3>2. CASE \E j \in DOMAIN results :
                 j < i /\ results[j].kind = "Update" /\ results[j].id = f /\ b \in results[j].lo .. results[j].hi
      BY <1>1, <3>2 DEF Fetched
    <3>3. CASE work.id = f /\ b \in work.lo .. work.hi
      <4>1. CASE b = work.lo
        BY <1>1, <4>1 DEF Fetched
      <4>2. CASE b # work.lo
        <5>1. b \in work.lo + 1 .. work.hi /\ work.lo < work.hi
          BY <1>3, <3>3, <4>2
        <5>2. Batched' /\ work'.id = f /\ b \in work'.lo .. work'.hi
          BY <1>2, <1>3, <3>3, <5>1 DEF Batched
        <5>3. QED  BY <5>2 DEF Fetched
      <4>3. QED  BY <4>1, <4>2
    <3>4. QED  BY <3>1, <3>2, <3>3 DEF Fetched
  <2>3. ASSUME NEW f \in Live, NEW s \in Blocks, Filled(f, s), fillers[f].to \in DOMAIN gaps
        PROVE  Filled(f, s)'
    <3>1. s <= gaps'[fillers[f].to]
      <4>1. CASE f = work.id
        BY <1>4, <1>10, <1>11, <2>3, <4>1 DEF Filled
      <4>2. CASE f # work.id
        <5>1. s <= gaps[fillers[f].to]
          BY <2>3, Zenon DEF Filled
        <5>2. QED  BY <1>10, <1>11, <2>1, <2>3, <4>2, <5>1
      <4>3. QED  BY <4>1, <4>2
    <3>2. f \in Active =>
            /\ s <= fillers[f].from
            /\ \A b \in s .. fillers[f].from - 1 : Fetched(b, f, Len(results) + 1)'
      BY <1>1, <2>2, <2>3 DEF Filled
    <3>3. \A i \in DOMAIN results : results[i].id = f /\ results[i].kind \in {"Update", "Finished"} =>
            /\ s <= results[i].lo
            /\ \A b \in s .. results[i].lo - 1 : Fetched(b, f, i)'
            /\ results[i].kind = "Finished" => results[i].to <= results[i].hi
      BY <2>2, <2>3 DEF Filled
    <3>4. ASSUME Batched', work'.id = f
          PROVE  /\ s <= work'.lo
                 /\ \A b \in s .. work'.lo - 1 : b \in headers
                 /\ work'.kind = "Finished" => work'.to <= work'.hi
      <4>1. /\ work.id = f /\ work'.lo = work.lo + 1 /\ work'.hi = work.hi /\ work'.kind = work.kind
            /\ work'.to = work.to
        BY <1>2, <3>4 DEF Batched
      <4>2. /\ s <= work.lo
            /\ \A b \in s .. work.lo - 1 : b \in headers
            /\ work.kind = "Finished" => work.to <= work.hi
        BY <1>4, <2>3, <4>1 DEF Filled
      <4>3. s \in Int
        BY BlockProcessorAssumption DEF Blocks
      <4>4. \A b \in s .. (work.lo + 1) - 1 : b \in s .. work.lo - 1 \/ b = work.lo
        BY <1>3, <4>3
      <4>5. s <= work.lo + 1
        BY <1>3, <4>2, <4>3
      <4>6. QED  BY <4>1, <4>2, <4>4, <4>5
    <3>5. QED  BY <1>1, <1>5, <3>1, <3>2, <3>3, <3>4, ZenonT(30) DEF Filled
  <2>4. QED  BY <1>4, <1>11, <2>1, <2>3 DEF FillInv
<1>14. QED  BY <1>8, <1>9, <1>12, <1>13 DEF Filling

-----------------------------------------------------------------------------
(* Sessions: how many fillers there can be.                                 *)

\* An announcement at the head of the channel is the next session's.
LEMMA NumbersTail ==
  ASSUME NEW q \in Seq(Notifications), q # << >>, NEW g, NEW lo \in Nat, NEW hi \in Nat,
         Numbers(q, g, lo, hi)
  PROVE  /\ \E h : Numbers(Tail(q), h, lo, hi)
         /\ Head(q).kind = "Connected" => lo + 1 <= hi /\ \E h : Numbers(Tail(q), h, lo + 1, hi)
<1>1. /\ DOMAIN Tail(q) = 1 .. Len(q) - 1 /\ DOMAIN q = 1 .. Len(q) /\ Len(q) \in Nat \ {0}
      /\ Head(q) = q[1] /\ \A k \in 1 .. Len(q) - 1 : Tail(q)[k] = q[k + 1]
  BY TailOf
<1>2. PICK h : h = [k \in 1 .. Len(q) - 1 |-> g[k + 1]]
  OBVIOUS
<1>3. \A k \in 1 .. Len(q) - 1 : k + 1 \in DOMAIN q /\ 1 \in DOMAIN q /\ 1 < k + 1
  BY <1>1
<1>4. \A k \in Announced(Tail(q)) : k \in 1 .. Len(q) - 1 /\ k + 1 \in Announced(q) /\ h[k] = g[k + 1]
  BY <1>1, <1>2, <1>3 DEF Announced
<1>5. h \in [DOMAIN Tail(q) -> Nat]
  BY <1>1, <1>2, <1>3 DEF Numbers
<1>6. \A k, l \in Announced(Tail(q)) : k < l => h[k] < h[l]
  <2> TAKE k, l \in Announced(Tail(q))
  <2> HAVE k < l
  <2>1. k + 1 \in Announced(q) /\ l + 1 \in Announced(q) /\ k + 1 < l + 1
    BY <1>1, <1>4
  <2>2. QED  BY <1>4, <2>1 DEF Numbers
<1>7. Numbers(Tail(q), h, lo, hi)
  BY <1>4, <1>5, <1>6 DEF Numbers
<1>8. ASSUME Head(q).kind = "Connected"
      PROVE  lo + 1 <= hi /\ Numbers(Tail(q), h, lo + 1, hi)
  <2>1. 1 \in Announced(q) /\ 1 \in DOMAIN q
    BY <1>1, <1>8 DEF Announced
  <2>2. g[1] \in Nat /\ lo < g[1] /\ g[1] <= hi
    BY <2>1 DEF Numbers
  <2>3. \A k \in Announced(Tail(q)) : g[1] < h[k] /\ h[k] <= hi /\ h[k] \in Nat
    BY <1>1, <1>3, <1>4, <1>5, <2>1 DEF Numbers
  <2>4. \A k \in Announced(Tail(q)) : lo + 1 < h[k] /\ h[k] <= hi
    BY <2>2, <2>3
  <2>5. QED  BY <1>5, <1>6, <2>2, <2>4 DEF Numbers
<1>9. QED  BY <1>7, <1>8

LEMMA NumbersAppend ==
  ASSUME NEW q \in Seq(Notifications), NEW m \in Notifications, NEW g, NEW lo \in Nat, NEW hi \in Nat,
         NEW top \in Nat, Numbers(q, g, lo, hi), hi <= top, m.kind = "Connected" => hi < top, lo <= hi
  PROVE  \E h : Numbers(Append(q, m), h, lo, top)
<1>1. /\ DOMAIN Append(q, m) = 1 .. Len(q) + 1 /\ DOMAIN q = 1 .. Len(q) /\ Len(q) \in Nat
      /\ Append(q, m)[Len(q) + 1] = m /\ \A k \in 1 .. Len(q) : Append(q, m)[k] = q[k]
  BY AppendOf
<1>2. PICK h : h = [k \in 1 .. Len(q) + 1 |-> IF k = Len(q) + 1 THEN top ELSE g[k]]
  OBVIOUS
<1>3. \A k \in 1 .. Len(q) + 1 : (k \in 1 .. Len(q) /\ k # Len(q) + 1) \/ k = Len(q) + 1
  BY <1>1
<1>4. \A k \in Announced(Append(q, m)) :
        \/ k \in Announced(q) /\ k \in 1 .. Len(q) /\ h[k] = g[k]
        \/ k = Len(q) + 1 /\ h[k] = top /\ m.kind = "Connected"
  BY <1>1, <1>2, <1>3 DEF Announced
<1>5. h \in [DOMAIN Append(q, m) -> Nat]
  BY <1>1, <1>2, <1>3 DEF Numbers
<1>6. \A k \in Announced(q) : g[k] \in Nat /\ lo < g[k] /\ g[k] <= hi
  BY DEF Numbers, Announced
<1>7. \A k \in Announced(Append(q, m)) : lo < h[k] /\ h[k] <= top
  BY <1>4, <1>6
<1>8. \A k, l \in Announced(Append(q, m)) : k < l => h[k] < h[l]
  <2> TAKE k, l \in Announced(Append(q, m))
  <2> HAVE k < l
  <2>1. k \in Announced(q) /\ h[k] = g[k] /\ k \in 1 .. Len(q)
    BY <1>1, <1>4
  <2>2. CASE l \in Announced(q) /\ h[l] = g[l]
    BY <2>1, <2>2 DEF Numbers
  <2>3. CASE h[l] = top /\ m.kind = "Connected"
    BY <1>6, <2>1, <2>3
  <2>4. QED  BY <1>4, <2>2, <2>3
<1>9. QED  BY <1>5, <1>7, <1>8 DEF Numbers

\* The number of connections announced so far is a number.
LEMMA OpenedInt == TypeOK => sessions \in Int /\ Opened \in Int /\ Opened <= sessions
<1>1. TypeOK => sessions \in 0 .. MaxSessions
  BY Zenon DEF TypeOK
<1>2. QED  BY <1>1 DEF Opened

\* A step that spawns no filler.
LEMMA SessionStep ==
  ASSUME TypeOK, TypeOK', SessionInv, UNCHANGED <<has_first_connect, twins>>,
         DOMAIN fillers' = DOMAIN fillers,
         \/ UNCHANGED inbox /\ Opened' >= Opened
         \/ inbox # << >> /\ inbox' = Tail(inbox) /\ Opened' = Opened
         \/ \E m \in Notifications :
              inbox' = Append(inbox, m) /\ Opened' >= Opened /\ (m.kind = "Connected" => Opened' > Opened)
  PROVE  SessionInv'
<1>1. PICK n \in Nat : Sessions(n)
  BY DEF SessionInv
<1>2. PICK g : Numbers(inbox, g, n, Opened)
  BY <1>1 DEF Sessions
<1>3. n <= Opened /\ Opened \in Int /\ Opened' \in Int
  <2>1. sessions \in 0 .. MaxSessions /\ sessions' \in 0 .. MaxSessions
    BY Zenon DEF TypeOK
  <2>2. Opened \in Int /\ Opened' \in Int
    BY <2>1 DEF Opened
  <2>3. QED  BY <1>1, <2>2 DEF Sessions
<1>4. Opened \in Nat /\ inbox \in Seq(Notifications)
  <2>1. inbox \in Seq(Notifications)
    BY Zenon DEF TypeOK
  <2>2. QED  BY <1>3, <2>1
<1>5. Len(fillers') = Len(fillers) /\ (fillers = << >> => fillers' = << >>)
  <2>1. fillers \in Seq(Fillers) /\ fillers' \in Seq(Fillers)
    BY FillerTypes DEF TypeOK
  <2>2. QED  BY <2>1
<1>6. (\E h : Numbers(inbox', h, n, Opened')) /\ n <= Opened'
  <2>1. CASE UNCHANGED inbox /\ Opened' >= Opened
    <3>1. \A k \in Announced(inbox) : g[k] \in Nat /\ n < g[k] /\ g[k] <= Opened
      BY <1>2 DEF Numbers, Announced
    <3>2. \A k \in Announced(inbox) : n < g[k] /\ g[k] <= Opened'
      BY <1>3, <2>1, <3>1
    <3>3. Numbers(inbox, g, n, Opened')
      BY <1>2, <3>2 DEF Numbers
    <3>4. QED  BY <1>3, <2>1, <3>3
  <2>2. CASE inbox # << >> /\ inbox' = Tail(inbox) /\ Opened' = Opened
    BY <1>2, <1>3, <1>4, <2>2, NumbersTail
  <2>3. ASSUME NEW m \in Notifications, inbox' = Append(inbox, m), Opened' >= Opened,
               m.kind = "Connected" => Opened' > Opened
        PROVE  (\E h : Numbers(inbox', h, n, Opened')) /\ n <= Opened'
    <3>1. PICK top : top = Opened'
      OBVIOUS
    <3>2. top \in Nat /\ Opened <= top /\ n <= top /\ (m.kind = "Connected" => Opened < top)
      BY <1>3, <1>4, <2>3, <3>1
    <3>3. QED  BY <1>2, <1>3, <1>4, <2>3, <3>1, <3>2, NumbersAppend, ZenonT(30)
  <2>4. QED  BY <2>1, <2>2, <2>3
<1>7. Sessions(n)'
  BY <1>1, <1>5, <1>6 DEF Sessions
<1>8. QED  BY <1>7 DEF SessionInv

\* The announcement at the head of the channel bounds the number of fillers.
LEMMA SessionHead ==
  ASSUME TypeOK, SessionInv, Take("Connected"), UNCHANGED <<link, sessions>>
  PROVE  \E n \in Nat :
           /\ Sessions(n) /\ n + 1 <= Opened /\ Opened <= MaxSessions /\ Opened' = Opened
           /\ \E h : Numbers(inbox', h, n + 1, Opened)
<1>1. PICK n \in Nat : Sessions(n)
  BY DEF SessionInv
<1>2. PICK g : Numbers(inbox, g, n, Opened)
  BY <1>1 DEF Sessions
<1>3. n <= Opened /\ Opened \in Int /\ Opened <= MaxSessions /\ Opened' = Opened
  <2>1. sessions \in 0 .. MaxSessions
    BY Zenon DEF TypeOK
  <2>2. Opened' = Opened
    BY DEF Opened
  <2>3. QED  BY <1>1, <2>1, <2>2, OpenedInt, BlockProcessorAssumption DEF Sessions
<1>4. Opened \in Nat /\ inbox \in Seq(Notifications) /\ inbox # << >> /\ inbox' = Tail(inbox)
      /\ Head(inbox).kind = "Connected"
  <2>1. inbox \in Seq(Notifications)
    BY Zenon DEF TypeOK
  <2>2. inbox # << >> /\ inbox' = Tail(inbox) /\ Head(inbox).kind = "Connected"
    BY Zenon DEF Take
  <2>3. QED  BY <1>3, <2>1, <2>2
<1>5. n + 1 <= Opened /\ \E h : Numbers(Tail(inbox), h, n + 1, Opened)
  BY <1>2, <1>4, NumbersTail
<1>6. QED  BY <1>1, <1>3, <1>4, <1>5

-----------------------------------------------------------------------------
(* The other steps leave the fillers alone.                                 *)

LEMMA FillingNode ==
  ASSUME TypeOK, TypeOK', Filling, SessionInv, NodeStep \/ DataSourceStep
  PROVE  Filling' /\ SessionInv'
<1>1. /\ UNCHANGED <<work, headers, results, gaps, has_first_connect, overlap, twins, abandoned,
                     gaps_filling_in_progress>>
      /\ UNCHANGED fillers \/ Connect
  BY DEF NodeStep, DataSourceStep, NewBlock, Register, Disconnect, Shutdown, Connect, ForwardBlock,
     db, locals, history
<1>2. Steady
  BY <1>1, ConnectSteady DEF Steady
<1>3. SameBatch
  BY <1>1 DEF SameBatch, Batched
<1>4. Filling'
  BY <1>1, <1>2, <1>3, FillersKept
<1>5. sessions \in Int
  BY OpenedInt
<1>6. CASE NewBlock \/ Register
  <2>1. UNCHANGED inbox
    BY <1>6 DEF NewBlock, Register
  <2>2. Opened' >= Opened
    BY <1>5, <1>6 DEF NewBlock, Register, Opened
  <2>3. QED  BY <1>1, <1>2, <1>4, <2>1, <2>2, SessionStep DEF Steady
<1>7. CASE Disconnect \/ Shutdown \/ Connect \/ ForwardBlock
  <2>1. Opened' >= Opened /\ (Connect => Opened' > Opened)
    BY <1>5, <1>7 DEF Disconnect, Shutdown, Connect, ForwardBlock, Opened
  <2>2. \E m \in Notifications : inbox' = Append(inbox, m) /\ (m.kind = "Connected" => Connect)
    <3>1. CASE Disconnect
      <4>1. PICK m : m = [kind |-> "Disconnected"]
        OBVIOUS
      <4>2. m \in Notifications /\ m.kind = "Disconnected"
        BY <4>1 DEF Notifications
      <4>3. inbox' = Append(inbox, m)
        BY <3>1, <4>1 DEF Disconnect
      <4>4. QED  BY <4>2, <4>3
    <3>2. CASE Shutdown
      <4>1. PICK m : m = [kind |-> "Shutdown"]
        OBVIOUS
      <4>2. m \in Notifications /\ m.kind = "Shutdown"
        BY <4>1 DEF Notifications
      <4>3. inbox' = Append(inbox, m)
        BY <3>2, <4>1 DEF Shutdown
      <4>4. QED  BY <4>2, <4>3
    <3>3. CASE Connect
      <4>1. tip \in Blocks /\ inbox' = Append(inbox, [kind |-> "Connected", block |-> tip])
        BY <3>3 DEF Connect, TypeOK
      <4>2. [kind |-> "Connected", block |-> tip] \in Notifications
        BY <4>1 DEF Notifications
      <4>3. QED  BY <3>3, <4>1, <4>2
    <3>4. CASE ForwardBlock
      <4>1. /\ rpc \in Seq(Blocks) /\ rpc # << >>
            /\ inbox' = Append(inbox, [kind |-> "Notification", block |-> Head(rpc)])
        BY <3>4 DEF ForwardBlock, TypeOK
      <4>2. PICK b : b = Head(rpc)
        OBVIOUS
      <4>3. b \in Blocks
        BY <4>1, <4>2
      <4>4. PICK m : m = [kind |-> "Notification", block |-> b]
        OBVIOUS
      <4>5. m \in Notifications /\ m.kind = "Notification"
        BY <4>3, <4>4 DEF Notifications
      <4>6. QED  BY <4>1, <4>2, <4>4, <4>5
    <3>5. QED  BY <1>7, <3>1, <3>2, <3>3, <3>4
  <2>3. QED  BY <1>1, <1>2, <1>4, <2>1, <2>2, SessionStep DEF Steady
<1>8. QED  BY <1>6, <1>7 DEF NodeStep, DataSourceStep

LEMMA FillingMessages ==
  ASSUME TypeOK, TypeOK', Filling, SessionInv,
         ReconnectedIdle \/ Disconnected \/ ShutdownReceived \/ BlockReceived
  PROVE  Filling' /\ SessionInv'
<1>1. /\ UNCHANGED <<link, sessions, headers, results, gaps, has_first_connect, overlap, twins, abandoned,
                     gaps_filling_in_progress>>
      /\ UNCHANGED fillers \/ InterruptAll
      /\ work = Idle /\ inbox # << >> /\ inbox' = Tail(inbox)
      /\ UNCHANGED work \/ \E b : work' = Work("Notification", None, b, b, 0)
  BY DEF ReconnectedIdle, Disconnected, ShutdownReceived, BlockReceived, InterruptAll, Take,
     node, db, locals, history
<1>2. Steady
  BY <1>1, InterruptSteady DEF Steady
<1>3. SameBatch
  BY <1>1 DEF SameBatch, Batched, Work
<1>4. Filling'
  BY <1>1, <1>2, <1>3, FillersKept
<1>5. Opened' = Opened
  BY <1>1, ZenonT(30) DEF Opened
<1>6. QED  BY <1>1, <1>2, <1>4, <1>5, SessionStep DEF Steady

\* A step of a filler, of the fillers' channel, or on the block in hand.
LEMMA SessionRest ==
  ASSUME TypeOK, TypeOK', SessionInv,
         \/ \E f \in DOMAIN fillers : FillerStep(f)
         \/ TakeResult \/ BlockStep \/ UNCHANGED vars
  PROVE  SessionInv'
<1>1. UNCHANGED <<link, sessions, inbox, has_first_connect, twins>>
  <2>1. ASSUME NEW f \in DOMAIN fillers, FillerStep(f)
        PROVE  UNCHANGED <<link, sessions, inbox, has_first_connect, twins>>
    BY <2>1, FillerEffect DEF node, locals, history
  <2>2. CASE TakeResult
    BY <2>2 DEF TakeResult, FillerStopped, BatchReceived, node, locals, history
  <2>3. CASE BlockStep
    BY <2>3 DEF BlockStep, HandleBlock, CommitConflict, CommitNotification, CommitGapBlock, CommitGapEnd,
         CommitOk, node, locals, history
  <2>4. CASE UNCHANGED vars
    BY <2>4 DEF vars, node, locals, history
  <2>5. QED  BY <2>1, <2>2, <2>3, <2>4
<1>2. DOMAIN fillers' = DOMAIN fillers
  <2>1. ASSUME NEW f \in DOMAIN fillers, FillerStep(f) PROVE DOMAIN fillers' = DOMAIN fillers
    BY <2>1, FillerEffect
  <2>2. UNCHANGED fillers \/ (\E to : Retire(to)) \/ \E f \in DOMAIN fillers : FillerStep(f)
    BY DEF TakeResult, FillerStopped, BatchReceived, vars, BlockStep, HandleBlock, CommitConflict,
       CommitNotification, CommitGapBlock, CommitGapEnd
  <2>3. QED  BY <2>1, <2>2, RetireSteady DEF Steady
<1>3. Opened' = Opened /\ Opened \in Int
  BY <1>1, OpenedInt DEF Opened
<1>4. QED  BY <1>1, <1>2, <1>3, SessionStep

LEMMA SessionRestart == ASSUME TypeOK, SessionInv, Restart PROVE SessionInv'
<1>1. PICK n \in Nat : Sessions(n)
  BY DEF SessionInv
<1>2. Opened' >= Opened /\ Opened \in Int /\ Opened' \in Int
  <2>1. link' = "down" /\ sessions' = sessions
    BY DEF Restart
  <2>2. sessions \in Int /\ Opened \in Int
    BY OpenedInt
  <2>3. Opened' = sessions /\ (Opened = sessions \/ Opened = sessions - 1)
    BY <2>1 DEF Opened
  <2>4. QED  BY <2>2, <2>3
<1>3. ~has_first_connect' /\ fillers' = << >> /\ inbox' = << >>
  BY DEF Restart
<1>4. n <= Opened'
  BY <1>1, <1>2 DEF Sessions
<1>5. Numbers(<< >>, << >>, n, Opened')
  BY DEF Numbers, Announced
<1>6. Sessions(n)'
  BY <1>3, <1>4, <1>5 DEF Sessions
<1>7. QED  BY <1>6 DEF SessionInv

LEMMA FillingBlock ==
  ASSUME TypeOK, Filling, HandleBlock \/ CommitConflict \/ CommitNotification \/ UNCHANGED vars
  PROVE  Filling'
<1>1. /\ UNCHANGED <<results, gaps, has_first_connect, overlap, twins, abandoned, fillers,
                     gaps_filling_in_progress>>
      /\ headers \subseteq headers'
  BY DEF HandleBlock, CommitConflict, CommitNotification, CommitOk, vars, db, locals, history
<1>2. SameBatch
  <2>1. CASE HandleBlock
    <3>1. PICK fresh \in BOOLEAN : fresh = (work.lo \notin headers)
      OBVIOUS
    <3>2. work # Idle /\ work' = [work EXCEPT !.phase = "commit", !.fresh = fresh]
      BY <2>1, <3>1 DEF HandleBlock
    <3>3. QED  BY <3>2, WorkTypes, ZenonT(30) DEF SameBatch, Batched
  <2>2. CASE CommitConflict
    <3>1. work # Idle /\ work' = [work EXCEPT !.phase = "header"]
      BY <2>2 DEF CommitConflict
    <3>2. QED  BY <3>1, WorkTypes DEF SameBatch, Batched
  <2>3. CASE CommitNotification
    BY <2>3 DEF CommitNotification, SameBatch, Batched
  <2>4. CASE UNCHANGED vars
    BY <2>4 DEF vars, SameBatch, Batched
  <2>5. QED  BY <2>1, <2>2, <2>3, <2>4
<1>3. QED  BY <1>1, <1>2, FillersKept DEF Steady
=============================================================================
