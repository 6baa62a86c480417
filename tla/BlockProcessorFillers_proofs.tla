-------------------- MODULE BlockProcessorFillers_proofs --------------------
(***************************************************************************)
(* The theorems about the gaps and their fillers: no block is forgotten,   *)
(* the fillers are counted, and every gap has one.  The invariant is in    *)
(* BlockProcessor_proofs; here are its part about the blocks that are      *)
(* covered, the steps that start and end fillers, and the conclusions.     *)
(***************************************************************************)
EXTENDS BlockProcessor_proofs

\* Most steps need no arithmetic: Zenon is tried before the SMT solver.
USE ZenonT(2), SMTT(15)

-----------------------------------------------------------------------------
(* Coverage.                                                                *)

Covering == CursorInv /\ StreamInv /\ NodeInv

LEMMA BelowBlock == ASSUME NEW x \in Blocks PROVE \A b : b \in 0 .. x \/ b \in 0 .. x - 1 => b \in Blocks
BY BlockProcessorAssumption DEF Blocks

LEMMA InboxTypes ==
  ASSUME TypeOK, NEW k \in DOMAIN inbox, inbox[k].kind \in {"Connected", "Notification"}
  PROVE  inbox[k].block \in Blocks
<1>1. inbox \in Seq(Notifications)
  BY Zenon DEF TypeOK
<1>2. inbox[k] \in Notifications
  BY <1>1
<1>3. QED  BY <1>2 DEF Notifications

\* Safe blocks stay safe, and the cursors stay where they are.
LEMMA CursorKept ==
  ASSUME TypeOK, CursorInv, Lossless' => Lossless,
         Lossless' => \A b \in Blocks : Safe(b) => Safe(b)',
         UNCHANGED cursor,
         last_processed_block' = last_processed_block \/ last_processed_block' = None,
         \/ work' = Idle \/ work'.kind # "Notification"
         \/ work # Idle /\ work.kind = "Notification" /\ work'.lo = work.lo
  PROVE  CursorInv'
<1> SUFFICES ASSUME Lossless'
             PROVE  /\ cursor' # None => \A b \in 0 .. cursor' : Safe(b)'
                    /\ last_processed_block' # None => \A b \in 0 .. last_processed_block' : Safe(b)'
                    /\ work' # Idle /\ work'.kind = "Notification" => \A b \in 0 .. work'.lo - 1 : Safe(b)'
  BY DEF CursorInv
<1>1. /\ cursor # None => \A b \in 0 .. cursor : Safe(b)
      /\ last_processed_block # None => \A b \in 0 .. last_processed_block : Safe(b)
      /\ work # Idle /\ work.kind = "Notification" => \A b \in 0 .. work.lo - 1 : Safe(b)
  BY DEF CursorInv
<1>2. cursor \in Blocks \cup {None} /\ last_processed_block \in Blocks \cup {None}
  BY DEF TypeOK
<1>3. work # Idle => work.lo \in Blocks
  BY WorkTypes
<1>4. cursor' # None => \A b \in 0 .. cursor' : Safe(b)'
  BY <1>1, <1>2, BelowBlock
<1>5. last_processed_block' # None => \A b \in 0 .. last_processed_block' : Safe(b)'
  BY <1>1, <1>2, BelowBlock
<1>6. work' # Idle /\ work'.kind = "Notification" => \A b \in 0 .. work'.lo - 1 : Safe(b)'
  BY <1>1, <1>3, BelowBlock
<1>7. QED  BY <1>4, <1>5, <1>6

\* The block processor reads a message: what it brings is held from then on.
LEMMA StreamKept ==
  ASSUME TypeOK, StreamInv, NodeInv, UNCHANGED <<tip, link, rpc>>, Lossless' => Lossless,
         Lossless' => \A b \in Blocks : Held(b) => Held(b)',
         \/ UNCHANGED inbox
         \/ /\ inbox # << >> /\ inbox' = Tail(inbox)
            /\ Lossless' => \A b \in Blocks : Brings(Head(inbox), b) => Held(b)'
  PROVE  StreamInv' /\ NodeInv'
<1>1. NodeInv'
  BY DEF NodeInv
<1>2. StreamInv'
  <2> SUFFICES ASSUME Lossless'
               PROVE  /\ \A k \in DOMAIN inbox' : inbox'[k].kind = "Notification" =>
                           \A b \in 0 .. inbox'[k].block - 1 :
                             Held(b)' \/ \E j \in DOMAIN inbox' : j < k /\ Brings(inbox'[j], b)
                      /\ link # "registered" => \A k \in DOMAIN rpc : \A b \in 0 .. rpc[k] - 1 :
                           Held(b)' \/ InInbox(b)' \/ \E j \in DOMAIN rpc : j < k /\ rpc[j] = b
                      /\ link = "up" => \A b \in 0 .. tip :
                           Held(b)' \/ InInbox(b)' \/ \E j \in DOMAIN rpc : rpc[j] = b
    <3>1. link' = link /\ rpc' = rpc /\ tip' = tip
      OBVIOUS
    <3>2. QED  BY <3>1, ZenonT(30) DEF StreamInv
  <2>1. /\ \A k \in DOMAIN inbox : inbox[k].kind = "Notification" =>
             \A b \in 0 .. inbox[k].block - 1 :
               Held(b) \/ \E j \in DOMAIN inbox : j < k /\ Brings(inbox[j], b)
        /\ link # "registered" => \A k \in DOMAIN rpc : \A b \in 0 .. rpc[k] - 1 :
             Held(b) \/ InInbox(b) \/ \E j \in DOMAIN rpc : j < k /\ rpc[j] = b
        /\ link = "up" => \A b \in 0 .. tip :
             Held(b) \/ InInbox(b) \/ \E j \in DOMAIN rpc : rpc[j] = b
    BY DEF StreamInv
  <2>2. tip \in Blocks /\ \A k \in DOMAIN rpc : rpc[k] \in Blocks
    <3>1. tip \in Blocks /\ rpc \in Seq(Blocks)
      BY DEF TypeOK
    <3>2. QED  BY <3>1
  <2>3. \A k \in DOMAIN inbox : inbox[k].kind = "Notification" => inbox[k].block \in Blocks
    BY InboxTypes
  <2>4. \A b \in Blocks : Held(b) => Held(b)'
    OBVIOUS
  <2>5. CASE UNCHANGED inbox
    <3>1. \A b : InInbox(b)' <=> InInbox(b)
      BY <2>5 DEF InInbox, Brings
    <3>2. QED  BY <2>1, <2>2, <2>3, <2>4, <2>5, <3>1, BelowBlock, ZenonT(30)
  <2>6. CASE /\ inbox # << >> /\ inbox' = Tail(inbox)
             /\ Lossless' => \A b \in Blocks : Brings(Head(inbox), b) => Held(b)'
    <3>1. PICK n \in Nat : Len(inbox) = n + 1
      <4>1. inbox \in Seq(Notifications)
        BY DEF TypeOK
      <4>2. Len(inbox) - 1 \in Nat /\ Len(inbox) = (Len(inbox) - 1) + 1
        BY <2>6, <4>1
      <4>3. QED  BY <4>2
    <3>2. /\ DOMAIN inbox = 1 .. n + 1 /\ DOMAIN inbox' = 1 .. n /\ Head(inbox) = inbox[1]
          /\ \A k \in 1 .. n : inbox'[k] = inbox[k + 1]
      <4>1. inbox \in Seq(Notifications)
        BY Zenon DEF TypeOK
      <4>2. QED  BY <2>6, <3>1, <4>1, TailOf
    <3>3. \A j \in 1 .. n + 1 : j = 1 \/ (j - 1 \in 1 .. n /\ inbox'[j - 1] = inbox[j])
      <4> TAKE j \in 1 .. n + 1
      <4>1. j = 1 \/ (j - 1 \in 1 .. n /\ (j - 1) + 1 = j)
        OBVIOUS
      <4>2. QED  BY <3>2, <4>1
    <3>4. \A b \in Blocks : Brings(inbox[1], b) => Held(b)'
      BY <2>6, <3>2, ZenonT(30)
    <3>5. \A b \in Blocks : InInbox(b) => Held(b)' \/ InInbox(b)'
      <4> SUFFICES ASSUME NEW b \in Blocks, NEW j \in 1 .. n + 1, Brings(inbox[j], b)
                   PROVE  Held(b)' \/ InInbox(b)'
        BY <3>2 DEF InInbox
      <4>1. CASE j = 1
        BY <3>4, <4>1
      <4>2. CASE j # 1
        <5>1. j - 1 \in DOMAIN inbox' /\ Brings(inbox'[j - 1], b)
          BY <3>2, <3>3, <4>2
        <5>2. QED  BY <5>1 DEF InInbox, Brings
      <4>3. QED  BY <4>1, <4>2
    <3>6. ASSUME NEW k \in 1 .. n, inbox'[k].kind = "Notification", NEW b \in 0 .. inbox'[k].block - 1
          PROVE  Held(b)' \/ \E j \in DOMAIN inbox' : j < k /\ Brings(inbox'[j], b)
      <4>1. k + 1 \in DOMAIN inbox /\ inbox'[k] = inbox[k + 1]
        BY <3>2
      <4>2. b \in Blocks /\ (Held(b) \/ \E j \in DOMAIN inbox : j < k + 1 /\ Brings(inbox[j], b))
        BY <2>1, <2>3, <3>6, <4>1, BelowBlock
      <4>3. ASSUME NEW j \in DOMAIN inbox, j < k + 1, Brings(inbox[j], b)
            PROVE  Held(b)' \/ \E i \in DOMAIN inbox' : i < k /\ Brings(inbox'[i], b)
        <5>1. CASE j = 1
          BY <3>4, <4>2, <4>3, <5>1
        <5>2. CASE j # 1
          <6>1. j - 1 \in 1 .. n /\ inbox'[j - 1] = inbox[j]
            BY <3>2, <3>3, <5>2
          <6>2. j - 1 < k
            BY <3>2, <4>3
          <6>3. QED  BY <3>2, <4>3, <6>1, <6>2
        <5>3. QED  BY <5>1, <5>2
      <4>4. QED  BY <2>4, <4>2, <4>3
    <3>7. QED  BY <2>1, <2>2, <2>4, <3>2, <3>5, <3>6, BelowBlock, ZenonT(30)
  <2>7. QED  BY <2>5, <2>6
<1>3. QED  BY <1>1, <1>2, ZenonT(30)

\* Steps that take nothing from the channels of the data source: the gaps may change as
\* long as safe blocks stay safe.
LEMMA CoverQuiet ==
  ASSUME TypeOK, Covering,
         UNCHANGED <<tip, link, rpc, inbox, cursor, last_processed_block, unannounced, skipped, overlap>>,
         Lossless => \A b \in Blocks : Safe(b) => Safe(b)',
         \A b : (work' # Idle /\ work'.kind = "Notification" /\ work'.lo = b)
                  <=> (work # Idle /\ work.kind = "Notification" /\ work.lo = b)
  PROVE  Covering'
<1>1. Lossless' = Lossless
  BY DEF Lossless
<1>2. Lossless' => \A b \in Blocks : Held(b) => Held(b)'
  BY <1>1 DEF Held
<1>3. CursorInv'
  BY <1>1, CursorKept DEF Covering
<1>4. StreamInv' /\ NodeInv'
  BY <1>1, <1>2, StreamKept DEF Covering
<1>5. QED  BY <1>3, <1>4 DEF Covering

LEMMA CoverFillers ==
  ASSUME TypeOK, Covering,
         (\E f \in DOMAIN fillers : FillerStep(f)) \/ TakeResult \/ CommitConflict \/ HandleBlock \/ UNCHANGED vars
  PROVE  Covering'
<1> DEFINE Quiet == UNCHANGED <<tip, link, rpc, inbox, gaps, cursor, last_processed_block, unannounced,
                                skipped, overlap>>
                    /\ headers \subseteq headers'
<1>1. Quiet
  <2>1. ASSUME NEW f \in DOMAIN fillers, FillerStep(f) PROVE Quiet
    BY <2>1, FillerEffect DEF node, db, locals, history
  <2>2. CASE TakeResult
    BY <2>2 DEF TakeResult, FillerStopped, BatchReceived, node, db, locals, history
  <2>3. CASE CommitConflict \/ HandleBlock
    BY <2>3 DEF HandleBlock, CommitConflict, node, db, locals, history
  <2>4. CASE UNCHANGED vars
    BY <2>4 DEF vars, node, db, locals, history
  <2>5. QED  BY <2>1, <2>2, <2>3, <2>4
<1>2. \A b : (work' # Idle /\ work'.kind = "Notification" /\ work'.lo = b)
               <=> (work # Idle /\ work.kind = "Notification" /\ work.lo = b)
  <2>1. ASSUME NEW f \in DOMAIN fillers, FillerStep(f) PROVE UNCHANGED work
    BY <2>1, FillerEffect
  <2>2. CASE TakeResult
    <3>1. CASE FillerStopped
      BY <3>1 DEF FillerStopped
    <3>2. CASE BatchReceived
      <4>1. PICK m : m = Head(results)
        OBVIOUS
      <4>2. work = Idle /\ m.kind # "Notification" /\ work' = Work(m.kind, m.to, m.lo, m.hi, m.id)
        BY <3>2, <4>1 DEF BatchReceived
      <4>3. QED  BY <4>2 DEF Work
    <3>3. QED  BY <2>2, <3>1, <3>2 DEF TakeResult
  <2>3. CASE HandleBlock
    <3>1. PICK fresh \in BOOLEAN : fresh = (work.lo \notin headers)
      OBVIOUS
    <3>2. work # Idle /\ work' = [work EXCEPT !.phase = "commit", !.fresh = fresh]
      BY <2>3, <3>1 DEF HandleBlock
    <3>3. QED  BY <3>2, WorkTypes, ZenonT(30)
  <2>4. CASE CommitConflict
    <3>1. work # Idle /\ work' = [work EXCEPT !.phase = "header"]
      BY <2>4 DEF CommitConflict
    <3>2. QED  BY <3>1, WorkTypes
  <2>5. CASE UNCHANGED vars
    BY <2>5 DEF vars
  <2>6. QED  BY <2>1, <2>2, <2>3, <2>4, <2>5
<1>3. \A b \in Blocks : Safe(b) => Safe(b)'
  BY <1>1 DEF Safe, InGap
<1>4. QED  BY <1>1, <1>2, <1>3, CoverQuiet

\* What a commit takes out of a gap has its header stored.
LEMMA CoverGap ==
  ASSUME TypeOK, Filling, Covering, CommitGapBlock \/ CommitGapEnd, work.lo \in headers
  PROVE  Covering'
<1>1. /\ UNCHANGED <<tip, link, rpc, inbox, headers, cursor, last_processed_block, unannounced, skipped,
                     overlap>>
      /\ work # Idle /\ work.kind # "Notification"
  BY DEF CommitGapBlock, CommitGapEnd, CommitOk, node, history
<1>2. Batched /\ work.id \in Live /\ work.to = fillers[work.id].to
  BY <1>1 DEF Batched, Filling, ReportInv
<1>3. work.lo \in Int /\ work.hi \in Int
  <2>1. work.lo \in Blocks /\ work.hi \in Blocks
    BY <1>1, WorkTypes
  <2>2. QED  BY <2>1, BlockProcessorAssumption DEF Blocks
<1>4. ASSUME ~overlap
      PROVE  \E s \in Blocks :
               /\ s <= gaps[work.to] /\ \A b \in s .. work.lo - 1 : b \in headers
               /\ work.kind = "Finished" => work.to <= work.hi
               /\ work.to \in DOMAIN gaps
  <2>1. PICK s \in Blocks : Filled(work.id, s) /\ fillers[work.id].to \in DOMAIN gaps
    BY <1>2, <1>4 DEF Filling, FillInv
  <2>2. QED  BY <1>2, <2>1 DEF Filled
<1>5. ASSUME Lossless, NEW b \in Blocks, Safe(b) PROVE Safe(b)'
  <2>1. CASE b \in headers
    BY <1>1, <2>1 DEF Safe
  <2>2. ASSUME NEW t \in DOMAIN gaps, gaps[t] <= b, b <= t, b \notin headers PROVE InGap(b)'
    <3>1. PICK s \in Blocks :
            /\ s <= gaps[work.to] /\ \A c \in s .. work.lo - 1 : c \in headers
            /\ work.kind = "Finished" => work.to <= work.hi
            /\ work.to \in DOMAIN gaps
      BY <1>4, <1>5 DEF Lossless
    <3>2. s \in Int /\ b \in Int /\ t \in Int /\ gaps[t] \in Int
      <4>1. t \in Blocks /\ gaps[t] \in Blocks
        BY DEF TypeOK
      <4>2. QED  BY <4>1, BlockProcessorAssumption DEF Blocks
    <3>3. t = work.to => work.lo < b
      <4> SUFFICES ASSUME t = work.to, b <= work.lo PROVE FALSE
        BY <1>3, <3>2
      <4>1. b # work.lo
        BY <2>2
      <4>2. b \in s .. work.lo - 1
        BY <1>3, <2>2, <3>1, <3>2, <4>1
      <4>3. QED  BY <2>2, <3>1, <4>2
    <3>4. CASE CommitGapBlock
      <4>1. gaps' = Insert(gaps, work.to, work.lo)
        BY <3>4 DEF CommitGapBlock
      <4>2. t \in DOMAIN gaps' /\ gaps'[t] = IF t = work.to THEN work.lo ELSE gaps[t]
        BY <4>1 DEF Insert
      <4>3. gaps'[t] <= b
        BY <1>3, <2>2, <3>2, <3>3, <4>2
      <4>4. QED  BY <2>2, <4>2, <4>3 DEF InGap
    <3>5. CASE CommitGapEnd
      <4>1. gaps' = Forget(gaps, work.to) /\ work.kind = "Finished" /\ work.lo = work.hi
        BY <3>5 DEF CommitGapEnd
      <4>2. t # work.to
        BY <1>3, <2>2, <3>1, <3>2, <3>3, <4>1
      <4>3. t \in DOMAIN gaps' /\ gaps'[t] = gaps[t]
        BY <4>1, <4>2 DEF Forget
      <4>4. QED  BY <2>2, <4>3 DEF InGap
    <3>6. QED  BY <3>4, <3>5
  <2>3. QED  BY <1>5, <2>1, <2>2 DEF Safe, InGap
<1>6. work' = Idle \/ work'.kind # "Notification"
  <2>1. CASE CommitGapBlock
    BY <2>1, CommitEffect
  <2>2. CASE CommitGapEnd
    BY <2>2 DEF CommitGapEnd
  <2>3. QED  BY <2>1, <2>2
<1>7. QED  BY <1>1, <1>5, <1>6, CoverQuiet

\* The cursor moves to a block below which everything is safe.
LEMMA CoverNotification ==
  ASSUME TypeOK, Covering, CommitNotification, work.lo \in headers
  PROVE  Covering'
<1>1. /\ UNCHANGED <<tip, link, rpc, inbox, headers, gaps, unannounced, skipped, overlap>>
      /\ work # Idle /\ work.kind = "Notification" /\ work' = Idle
      /\ cursor' = work.lo /\ last_processed_block' = work.lo
  BY DEF CommitNotification, CommitOk, node, history
<1>2. Lossless' = Lossless /\ \A b : Safe(b)' <=> Safe(b)
  BY <1>1 DEF Lossless, Safe, InGap
<1>3. work.lo \in Int /\ work.lo \in Blocks
  <2>1. work.lo \in Blocks
    BY <1>1, WorkTypes
  <2>2. QED  BY <2>1, BlockProcessorAssumption DEF Blocks
<1>4. \A b \in 0 .. work.lo : b \in 0 .. work.lo - 1 \/ b = work.lo
  BY <1>3
<1>5. Lossless => \A b \in 0 .. work.lo : Safe(b)
  BY <1>1, <1>4 DEF Covering, CursorInv, Safe
<1>6. CursorInv'
  BY <1>1, <1>2, <1>5 DEF CursorInv
<1>7. \A b \in Blocks : Held(b) => Held(b)'
  BY <1>1, <1>2 DEF Held, Safe
<1>8. QED  BY <1>1, <1>2, <1>6, <1>7, StreamKept, ZenonT(30) DEF Covering

\* A message is taken while nothing is in hand; what it brings is then safe.
LEMMA CoverTaken ==
  ASSUME TypeOK, Covering, NEW kind, Take(kind), UNCHANGED <<tip, link, rpc, cursor, work>>,
         last_processed_block' = last_processed_block \/ last_processed_block' = None,
         Lossless' => Lossless,
         Lossless' => \A b \in Blocks : Safe(b) \/ Brings(Head(inbox), b) => Safe(b)'
  PROVE  Covering'
<1>1. work = Idle /\ work' = Idle /\ inbox # << >> /\ inbox' = Tail(inbox)
  BY DEF Take
<1>2. CursorInv'
  BY <1>1, CursorKept DEF Covering
<1>3. \A b : (Held(b) <=> Safe(b)) /\ (Held(b)' <=> Safe(b)')
  BY <1>1 DEF Held
<1>4. StreamInv' /\ NodeInv'
  BY <1>1, <1>3, StreamKept DEF Covering
<1>5. QED  BY <1>2, <1>4 DEF Covering

\* Gaps that are added to those there.
LEMMA SafeInserted ==
  ASSUME UNCHANGED headers, \A t \in DOMAIN gaps : t \in DOMAIN gaps' /\ gaps'[t] = gaps[t]
  PROVE  \A b : Safe(b) => Safe(b)'
BY DEF Safe, InGap

\* A gap from a block below which everything is safe makes everything safe up to the sink.
LEMMA SafeBelow ==
  ASSUME NEW sink \in Blocks, NEW from \in Blocks, sink \in DOMAIN gaps', gaps'[sink] = from,
         \A b \in 0 .. from : from = 0 \/ Safe(b)'
  PROVE  \A b \in 0 .. sink : Safe(b)'
<1> TAKE b \in 0 .. sink
<1>1. sink \in Int /\ from \in Int /\ 0 <= from
  BY BlockProcessorAssumption DEF Blocks
<1>2. CASE from <= b
  <2>1. b <= sink
    BY <1>1
  <2>2. QED  BY <1>2, <2>1 DEF Safe, InGap
<1>3. CASE b < from
  BY <1>1, <1>3
<1>4. QED  BY <1>1, <1>2, <1>3

LEMMA CoverReconnect == ASSUME TypeOK, Covering, Reconnected PROVE Covering'
<1>1. PICK sink : sink = Head(inbox).block
  OBVIOUS
<1>2. PICK from : from = last_processed_block
  OBVIOUS
<1>3. /\ Take("Connected") /\ Head(inbox).kind = "Connected" /\ from # None
      /\ Lossless' => Lossless /\ sink \notin DOMAIN gaps
      /\ gaps' = Insert(gaps, sink, from) /\ last_processed_block' = None
      /\ UNCHANGED <<tip, link, rpc, cursor, work, headers>>
  BY <1>1, <1>2 DEF Reconnected, Take, Lossless, Record, node
<1>4. sink \in Blocks /\ from \in Blocks
  BY <1>1, <1>2, ReconnectEffect
<1>5. /\ sink \in DOMAIN gaps' /\ gaps'[sink] = from
      /\ sink \notin DOMAIN gaps => \A t \in DOMAIN gaps : t \in DOMAIN gaps' /\ gaps'[t] = gaps[t]
  BY <1>3 DEF Insert
<1>6. ASSUME Lossless'
      PROVE  /\ \A b : Safe(b) => Safe(b)'
             /\ \A b \in 0 .. sink : Safe(b)'
  <2>1. \A b : Safe(b) => Safe(b)'
    BY <1>3, <1>5, <1>6, SafeInserted
  <2>2. \A b \in 0 .. from : Safe(b)'
    BY <1>2, <1>3, <1>6, <2>1 DEF Covering, CursorInv
  <2>3. QED  BY <1>4, <1>5, <2>1, <2>2, SafeBelow, ZenonT(30)
<1>7. \A b \in Blocks : Brings(Head(inbox), b) => b \in 0 .. sink
  BY <1>1, <1>3, <1>4, BlockProcessorAssumption DEF Brings, Blocks
<1>8. QED  BY <1>3, <1>6, <1>7, CoverTaken

\* A reconnection that records no gap, and the messages that interrupt the fillers.
LEMMA CoverIdle ==
  ASSUME TypeOK, Covering, ReconnectedIdle \/ Disconnected \/ ShutdownReceived
  PROVE  Covering'
<1>1. /\ \E kind : Take(kind)
      /\ UNCHANGED <<tip, link, rpc, cursor, work, last_processed_block, headers, gaps>>
      /\ Lossless' => Lossless
  <2>1. CASE ReconnectedIdle
    BY <2>1 DEF ReconnectedIdle, Lossless, node, db, locals
  <2>2. CASE Disconnected
    BY <2>2 DEF Disconnected, InterruptAll, Lossless, node, db, history
  <2>3. CASE ShutdownReceived
    BY <2>3 DEF ShutdownReceived, InterruptAll, Lossless, node, db, history
  <2>4. QED  BY <2>1, <2>2, <2>3
<1>2. \A b : Safe(b)' <=> Safe(b)
  BY <1>1 DEF Safe, InGap
<1>3. Lossless' => \A b \in Blocks : Brings(Head(inbox), b) => Safe(b)
  <2>1. CASE ReconnectedIdle
    <3>1. /\ Head(inbox).kind = "Connected" /\ inbox # << >>
          /\ Lossless' => \A b \in 0 .. Head(inbox).block : Safe(b)
      BY <2>1 DEF ReconnectedIdle, Take, Lossless, Safe
    <3>2. Head(inbox).block \in Blocks
      BY <3>1, HeadTypes
    <3>3. \A b \in Blocks : Brings(Head(inbox), b) => b \in 0 .. Head(inbox).block
      BY <3>1, <3>2, BlockProcessorAssumption DEF Brings, Blocks
    <3>4. QED  BY <3>1, <3>3
  <2>2. CASE Disconnected \/ ShutdownReceived
    BY <2>2 DEF Disconnected, ShutdownReceived, Take, Brings
  <2>3. QED  BY <2>1, <2>2
<1>4. QED  BY <1>1, <1>2, <1>3, CoverTaken

\* A block comes in real time: it is in hand, and what lies below it is safe.
LEMMA CoverReceived == ASSUME TypeOK, Covering, BlockReceived PROVE Covering'
<1>1. PICK x : x = Head(inbox).block
  OBVIOUS
<1>2. /\ work = Idle /\ inbox # << >> /\ inbox' = Tail(inbox) /\ Head(inbox).kind = "Notification"
      /\ work' = Work("Notification", None, x, x, 0)
      /\ UNCHANGED <<tip, link, rpc, cursor, last_processed_block, headers, gaps, unannounced, skipped, overlap>>
  BY <1>1 DEF BlockReceived, Take, node, db, locals, history
<1>3. work' # Idle /\ work'.kind = "Notification" /\ work'.lo = x
  BY <1>2 DEF Work, Idle
<1>4. Lossless' = Lossless /\ \A b : Safe(b)' <=> Safe(b)
  BY <1>2 DEF Lossless, Safe, InGap
<1>5. Lossless => \A b \in 0 .. x - 1 : Safe(b)
  <2>1. inbox[1] = Head(inbox) /\ 1 \in DOMAIN inbox /\ \A j \in DOMAIN inbox : ~(j < 1)
    <3>1. inbox \in Seq(Notifications)
      BY DEF TypeOK
    <3>2. QED  BY <1>2, <3>1, TailOf
  <2>2. Lossless => \A b \in 0 .. x - 1 : Held(b)
    BY <1>1, <1>2, <2>1, ZenonT(30) DEF Covering, StreamInv
  <2>3. QED  BY <1>2, <2>2 DEF Held
<1>6. CursorInv'
  BY <1>2, <1>3, <1>4, <1>5 DEF Covering, CursorInv
<1>7. \A b \in Blocks : (Held(b) => Held(b)') /\ (Brings(Head(inbox), b) => Held(b)')
  BY <1>1, <1>2, <1>3, <1>4 DEF Held, Brings
<1>8. QED  BY <1>2, <1>4, <1>6, <1>7, StreamKept DEF Covering

LEMMA CoverRestart == ASSUME TypeOK, Covering, Restart PROVE Covering'
<1>1. /\ UNCHANGED <<headers, gaps, cursor, unannounced, skipped, overlap>>
      /\ link' = "down" /\ rpc' = << >> /\ inbox' = << >>
      /\ last_processed_block' = None /\ work' = Idle
  BY DEF Restart, db
<1>2. Lossless' = Lossless /\ \A b : Safe(b)' <=> Safe(b)
  BY <1>1 DEF Lossless, Safe, InGap
<1>3. CursorInv'
  BY <1>1, <1>2 DEF Covering, CursorInv
<1>4. StreamInv' /\ NodeInv'
  BY <1>1 DEF StreamInv, NodeInv
<1>5. QED  BY <1>3, <1>4 DEF Covering

\* The data source leaves what is held alone, and does not lose track of a loss.
LEMMA CoverNodeCursor ==
  ASSUME TypeOK, Covering, UNCHANGED <<headers, gaps, cursor, work, last_processed_block>>, Lossless' => Lossless
  PROVE  CursorInv' /\ \A b : Held(b)' <=> Held(b)
<1>1. \A b : Safe(b)' <=> Safe(b)
  BY DEF Safe, InGap
<1>2. \A b : Held(b)' <=> Held(b)
  BY <1>1 DEF Held
<1>3. CursorInv'
  BY <1>1 DEF Covering, CursorInv
<1>4. QED  BY <1>2, <1>3

\* A message is sent: if it is a block, the blocks below it come before it.
LEMMA InboxSent ==
  ASSUME TypeOK, Covering, Lossless, NEW m \in Notifications, inbox' = Append(inbox, m),
         \A b : Held(b)' <=> Held(b),
         m.kind = "Notification" => \A b \in 0 .. m.block - 1 : Held(b) \/ InInbox(b)
  PROVE  /\ \A k \in DOMAIN inbox' : inbox'[k].kind = "Notification" =>
              \A b \in 0 .. inbox'[k].block - 1 :
                Held(b)' \/ \E j \in DOMAIN inbox' : j < k /\ Brings(inbox'[j], b)
         /\ \A b : InInbox(b) \/ Brings(m, b) => InInbox(b)'
<1>1. PICK n \in Nat : n = Len(inbox)
  <2>1. inbox \in Seq(Notifications)
    BY Zenon DEF TypeOK
  <2>2. QED  BY <2>1
<1>2. /\ DOMAIN inbox = 1 .. n /\ DOMAIN inbox' = 1 .. n + 1
      /\ \A k \in 1 .. n : inbox'[k] = inbox[k]
      /\ inbox'[n + 1] = m
  <2>1. inbox \in Seq(Notifications)
    BY DEF TypeOK
  <2>2. QED  BY <1>1, <2>1, AppendOf
<1>3. n + 1 \in 1 .. n + 1 /\ \A k \in 1 .. n : k \in 1 .. n + 1 /\ k < n + 1
  OBVIOUS
<1>4. \A b : InInbox(b) \/ Brings(m, b) => InInbox(b)'
  BY <1>2, <1>3, ZenonT(30) DEF InInbox, Brings
<1>5. ASSUME NEW k \in DOMAIN inbox', inbox'[k].kind = "Notification", NEW b \in 0 .. inbox'[k].block - 1
      PROVE  Held(b)' \/ \E j \in DOMAIN inbox' : j < k /\ Brings(inbox'[j], b)
  <2>1. CASE k \in 1 .. n
    <3>1. inbox'[k] = inbox[k] /\ k \in DOMAIN inbox
      BY <1>2, <2>1
    <3>2. Held(b) \/ \E j \in DOMAIN inbox : j < k /\ Brings(inbox[j], b)
      BY <1>5, <3>1 DEF Covering, StreamInv
    <3>3. \A j \in DOMAIN inbox : j \in DOMAIN inbox' /\ inbox'[j] = inbox[j]
      BY <1>2, <1>3
    <3>4. QED  BY <3>2, <3>3
  <2>2. CASE k = n + 1
    <3>1. Held(b) \/ InInbox(b)
      BY <1>2, <1>5, <2>2
    <3>2. \A j \in DOMAIN inbox : j \in DOMAIN inbox' /\ inbox'[j] = inbox[j] /\ j < k
      BY <1>2, <1>3, <2>2
    <3>3. QED  BY <3>1, <3>2 DEF InInbox
  <2>3. QED  BY <1>2, <2>1, <2>2
<1>6. QED  BY <1>4, <1>5

LEMMA CoverNewBlock == ASSUME TypeOK, Covering, NewBlock PROVE Covering'
<1>1. /\ UNCHANGED <<headers, gaps, cursor, work, last_processed_block, inbox, link>>
      /\ tip' = tip + 1 /\ rpc' = IF link = "down" THEN rpc ELSE Append(rpc, tip')
      /\ Lossless' = Lossless
  BY DEF NewBlock, Lossless, db, locals, history
<1>2. CursorInv' /\ (\A b : Held(b)' <=> Held(b)) /\ (\A b : InInbox(b)' <=> InInbox(b))
  BY <1>1, CoverNodeCursor DEF InInbox, Brings
<1>3. tip \in Int /\ rpc \in Seq(Blocks)
  <2>1. tip \in Blocks /\ rpc \in Seq(Blocks)
    BY Zenon DEF TypeOK
  <2>2. QED  BY <2>1, BlockProcessorAssumption DEF Blocks
<1>4. PICK n \in Nat : n = Len(rpc) /\ DOMAIN rpc = 1 .. n
  BY <1>3
<1>5. \A k \in DOMAIN rpc : rpc[k] <= tip /\ rpc[k] \in Int
  BY <1>3, BlockProcessorAssumption DEF Covering, NodeInv, Blocks
<1>6. CASE link = "down"
  <2>1. NodeInv'
    BY <1>1, <1>3, <1>5, <1>6 DEF NodeInv
  <2>2. StreamInv'
    <3>1. UNCHANGED <<inbox, rpc>> /\ link' = "down" /\ Lossless' = Lossless
      BY <1>1, <1>6
    <3>2. Lossless' =>
            /\ \A k \in DOMAIN inbox : inbox[k].kind = "Notification" =>
                 \A b \in 0 .. inbox[k].block - 1 :
                   Held(b) \/ \E j \in DOMAIN inbox : j < k /\ Brings(inbox[j], b)
            /\ \A k \in DOMAIN rpc : \A b \in 0 .. rpc[k] - 1 :
                 Held(b) \/ InInbox(b) \/ \E j \in DOMAIN rpc : j < k /\ rpc[j] = b
      BY <1>6, <3>1, ZenonT(20) DEF Covering, StreamInv
    <3>3. Lossless' =>
            /\ \A k \in DOMAIN inbox' : inbox'[k].kind = "Notification" =>
                 \A b \in 0 .. inbox'[k].block - 1 :
                   Held(b)' \/ \E j \in DOMAIN inbox' : j < k /\ Brings(inbox'[j], b)
            /\ \A k \in DOMAIN rpc' : \A b \in 0 .. rpc'[k] - 1 :
                 Held(b)' \/ InInbox(b)' \/ \E j \in DOMAIN rpc' : j < k /\ rpc'[j] = b
      BY <1>2, <3>1, <3>2
    <3>4. QED  BY <3>1, <3>3, ZenonT(20) DEF StreamInv
  <2>3. QED  BY <1>2, <2>1, <2>2 DEF Covering
<1>7. CASE link # "down"
  <2>1. /\ DOMAIN rpc' = 1 .. n + 1 /\ rpc'[n + 1] = tip + 1
        /\ \A k \in 1 .. n : rpc'[k] = rpc[k]
    <3>1. tip' \in Int /\ rpc \in Seq(Int)
      BY <1>1, <1>3, BlockProcessorAssumption DEF Blocks
    <3>2. QED  BY <1>1, <1>4, <1>7, <3>1, AppendOf
  <2>2. \A k \in 1 .. n + 1 : k \in 1 .. n \/ k = n + 1
    OBVIOUS
  <2>3. NodeInv'
    BY <1>1, <1>3, <1>4, <1>5, <2>1, <2>2 DEF NodeInv
  <2>4. n + 1 \in 1 .. n + 1 /\ \A k \in 1 .. n : k \in 1 .. n + 1 /\ k < n + 1
    OBVIOUS
  <2>5. \A j \in DOMAIN rpc : j \in DOMAIN rpc' /\ rpc'[j] = rpc[j] /\ j < n + 1
    BY <1>4, <2>1, <2>4
  <2>6. ASSUME Lossless
        PROVE  /\ \A k \in DOMAIN inbox' : inbox'[k].kind = "Notification" =>
                    \A b \in 0 .. inbox'[k].block - 1 :
                      Held(b)' \/ \E j \in DOMAIN inbox' : j < k /\ Brings(inbox'[j], b)
               /\ link' # "registered" => \A k \in DOMAIN rpc' : \A b \in 0 .. rpc'[k] - 1 :
                    Held(b)' \/ InInbox(b)' \/ \E j \in DOMAIN rpc' : j < k /\ rpc'[j] = b
               /\ link' = "up" => \A b \in 0 .. tip' :
                    Held(b)' \/ InInbox(b)' \/ \E j \in DOMAIN rpc' : rpc'[j] = b
    <3>1. \A k \in DOMAIN inbox' : inbox'[k].kind = "Notification" =>
                    \A b \in 0 .. inbox'[k].block - 1 :
                      Held(b)' \/ \E j \in DOMAIN inbox' : j < k /\ Brings(inbox'[j], b)
      BY <1>1, <1>2, <2>6 DEF Covering, StreamInv
    <3>2. link = "up" => \A b \in 0 .. tip :
                    Held(b)' \/ InInbox(b)' \/ \E j \in DOMAIN rpc' : j < n + 1 /\ rpc'[j] = b
      <4>1. link = "up" => \A b \in 0 .. tip : Held(b) \/ InInbox(b) \/ \E j \in DOMAIN rpc : rpc[j] = b
        BY <2>6 DEF Covering, StreamInv
      <4>2. QED  BY <1>2, <2>5, <4>1
    <3>3. ASSUME link' # "registered", NEW k \in DOMAIN rpc', NEW b \in 0 .. rpc'[k] - 1
          PROVE  Held(b)' \/ InInbox(b)' \/ \E j \in DOMAIN rpc' : j < k /\ rpc'[j] = b
      <4>1. CASE k \in 1 .. n
        <5>1. Held(b) \/ InInbox(b) \/ \E j \in DOMAIN rpc : j < k /\ rpc[j] = b
          BY <1>1, <1>4, <2>1, <2>6, <3>3, <4>1, ZenonT(30) DEF Covering, StreamInv
        <5>2. QED  BY <1>2, <2>5, <5>1
      <4>2. CASE k = n + 1
        <5>1. b \in 0 .. tip
          BY <1>3, <2>1, <3>3, <4>2
        <5>2. link = "up"
          BY <1>1, <1>7, <3>3 DEF TypeOK
        <5>3. QED  BY <3>2, <4>2, <5>1, <5>2
      <4>3. QED  BY <2>1, <2>2, <4>1, <4>2
    <3>4. \A b \in 0 .. tip' : b \in 0 .. tip \/ b = tip + 1
      BY <1>1, <1>3
    <3>5. n + 1 \in DOMAIN rpc' /\ rpc'[n + 1] = tip + 1
      BY <2>1, <2>4
    <3>6. link' = "up" => \A b \in 0 .. tip' : Held(b)' \/ InInbox(b)' \/ \E j \in DOMAIN rpc' : rpc'[j] = b
      BY <1>1, <3>2, <3>4, <3>5, ZenonT(30)
    <3>7. QED  BY <3>1, <3>3, <3>6
  <2>7. StreamInv'
    BY <1>1, <2>6 DEF StreamInv, Brings
  <2>8. QED  BY <1>2, <2>3, <2>7 DEF Covering
<1>8. QED  BY <1>6, <1>7

\* The first block of the RPC channel is forwarded: it is a message now.
LEMMA CoverForward == ASSUME TypeOK, Covering, ForwardBlock PROVE Covering'
<1>1. PICK m : m = [kind |-> "Notification", block |-> Head(rpc)]
  OBVIOUS
<1>2. /\ UNCHANGED <<headers, gaps, cursor, work, last_processed_block, link, tip>>
      /\ rpc # << >> /\ link # "registered" /\ rpc' = Tail(rpc) /\ inbox' = Append(inbox, m)
      /\ Lossless' = Lossless
  BY <1>1 DEF ForwardBlock, Lossless, db, locals, history
<1>3. CursorInv' /\ \A b : Held(b)' <=> Held(b)
  BY <1>2, CoverNodeCursor
<1>4. PICK n \in Nat : Len(rpc) = n + 1
  <2>1. rpc \in Seq(Blocks)
    BY DEF TypeOK
  <2>2. Len(rpc) - 1 \in Nat /\ Len(rpc) = (Len(rpc) - 1) + 1
    BY <1>2, <2>1
  <2>3. QED  BY <2>2
<1>5. /\ DOMAIN rpc = 1 .. n + 1 /\ DOMAIN rpc' = 1 .. n /\ Head(rpc) = rpc[1] /\ rpc[1] \in Blocks
      /\ \A k \in 1 .. n : rpc'[k] = rpc[k + 1]
  <2>1. rpc \in Seq(Blocks)
    BY DEF TypeOK
  <2>2. QED  BY <1>2, <1>4, <2>1, TailOf
<1>6. /\ \A j \in 1 .. n + 1 : j = 1 \/ (j - 1 \in 1 .. n /\ rpc'[j - 1] = rpc[j])
      /\ \A k \in 1 .. n : k + 1 \in 1 .. n + 1
      /\ 1 \in 1 .. n + 1 /\ \A j \in 1 .. n + 1 : ~(j < 1)
  <2>1. \A j \in 1 .. n + 1 : j = 1 \/ (j - 1 \in 1 .. n /\ (j - 1) + 1 = j)
    OBVIOUS
  <2>2. \A j \in 1 .. n + 1 : j = 1 \/ (j - 1 \in 1 .. n /\ rpc'[j - 1] = rpc[j])
    BY <1>5, <2>1
  <2>3. \A k \in 1 .. n : k + 1 \in 1 .. n + 1
    OBVIOUS
  <2>4. 1 \in 1 .. n + 1 /\ \A j \in 1 .. n + 1 : ~(j < 1)
    OBVIOUS
  <2>5. QED  BY <2>2, <2>3, <2>4
<1>7. m \in Notifications /\ m.kind = "Notification" /\ m.block = rpc[1]
  BY <1>1, <1>5 DEF Notifications
<1>8. NodeInv'
  BY <1>2, <1>5, <1>6 DEF Covering, NodeInv
<1>9. ASSUME Lossless
      PROVE  /\ \A k \in DOMAIN inbox' : inbox'[k].kind = "Notification" =>
                  \A b \in 0 .. inbox'[k].block - 1 :
                    Held(b)' \/ \E j \in DOMAIN inbox' : j < k /\ Brings(inbox'[j], b)
             /\ link' # "registered" => \A k \in DOMAIN rpc' : \A b \in 0 .. rpc'[k] - 1 :
                  Held(b)' \/ InInbox(b)' \/ \E j \in DOMAIN rpc' : j < k /\ rpc'[j] = b
             /\ link' = "up" => \A b \in 0 .. tip' :
                  Held(b)' \/ InInbox(b)' \/ \E j \in DOMAIN rpc' : rpc'[j] = b
  <2>1. /\ \A k \in 1 .. n + 1 : \A b \in 0 .. rpc[k] - 1 :
             Held(b) \/ InInbox(b) \/ \E j \in 1 .. n + 1 : j < k /\ rpc[j] = b
        /\ link = "up" => \A b \in 0 .. tip :
             Held(b) \/ InInbox(b) \/ \E j \in 1 .. n + 1 : rpc[j] = b
    <3>1. /\ \A k \in DOMAIN rpc : \A b \in 0 .. rpc[k] - 1 :
               Held(b) \/ InInbox(b) \/ \E j \in DOMAIN rpc : j < k /\ rpc[j] = b
          /\ link = "up" => \A b \in 0 .. tip :
               Held(b) \/ InInbox(b) \/ \E j \in DOMAIN rpc : rpc[j] = b
      BY <1>2, <1>9, Zenon DEF Covering, StreamInv
    <3>2. DOMAIN rpc = 1 .. n + 1
      BY <1>5
    <3>3. QED  BY <3>1, <3>2, Zenon
  <2>2. \A b \in 0 .. rpc[1] - 1 : Held(b) \/ InInbox(b)
    BY <1>6, <2>1
  <2>3. /\ \A k \in DOMAIN inbox' : inbox'[k].kind = "Notification" =>
             \A b \in 0 .. inbox'[k].block - 1 :
               Held(b)' \/ \E j \in DOMAIN inbox' : j < k /\ Brings(inbox'[j], b)
        /\ \A b : InInbox(b) \/ Brings(m, b) => InInbox(b)'
    BY <1>2, <1>3, <1>7, <1>9, <2>2, InboxSent
  <2>4. \A b : b = rpc[1] => InInbox(b)'
    <3>1. Brings(m, rpc[1])
      BY <1>7 DEF Brings
    <3>2. QED  BY <2>3, <3>1
  <2>5. ASSUME NEW b, NEW j \in 1 .. n + 1, rpc[j] = b
        PROVE  InInbox(b)' \/ (j - 1 \in 1 .. n /\ rpc'[j - 1] = b)
    BY <1>6, <2>4, <2>5
  <2>6. ASSUME NEW k \in 1 .. n, NEW b \in 0 .. rpc'[k] - 1
        PROVE  Held(b)' \/ InInbox(b)' \/ \E j \in 1 .. n : j < k /\ rpc'[j] = b
    <3>1. k + 1 \in 1 .. n + 1 /\ b \in 0 .. rpc[k + 1] - 1
      BY <1>5, <1>6, <2>6
    <3>2. CASE Held(b) \/ InInbox(b)
      BY <1>3, <2>3, <3>2
    <3>3. ASSUME NEW j \in 1 .. n + 1, j < k + 1, rpc[j] = b
          PROVE  InInbox(b)' \/ \E i \in 1 .. n : i < k /\ rpc'[i] = b
      <4>1. j - 1 < k
        BY <3>3
      <4>2. QED  BY <2>5, <3>3, <4>1
    <3>4. QED  BY <2>1, <3>1, <3>2, <3>3, ZenonT(30)
  <2>7. link = "up" => \A b \in 0 .. tip : Held(b)' \/ InInbox(b)' \/ \E j \in 1 .. n : rpc'[j] = b
    BY <1>3, <2>1, <2>3, <2>5
  <2>8. \A k \in DOMAIN rpc' : \A b \in 0 .. rpc'[k] - 1 :
          Held(b)' \/ InInbox(b)' \/ \E j \in DOMAIN rpc' : j < k /\ rpc'[j] = b
    <3> SUFFICES ASSUME NEW k \in DOMAIN rpc', NEW b \in 0 .. rpc'[k] - 1
                 PROVE  Held(b)' \/ InInbox(b)' \/ \E j \in DOMAIN rpc' : j < k /\ rpc'[j] = b
      OBVIOUS
    <3>1. k \in 1 .. n
      BY <1>5
    <3>2. Held(b)' \/ InInbox(b)' \/ \E j \in 1 .. n : j < k /\ rpc'[j] = b
      BY <2>6, <3>1
    <3>3. QED  BY <1>5, <3>2
  <2>9. link' = "up" => \A b \in 0 .. tip' : Held(b)' \/ InInbox(b)' \/ \E j \in DOMAIN rpc' : rpc'[j] = b
    BY <1>2, <1>5, <2>7
  <2>10. QED  BY <2>3, <2>8, <2>9
<1>10. StreamInv'
  BY <1>2, <1>9 DEF StreamInv, Brings
<1>11. QED  BY <1>3, <1>8, <1>10 DEF Covering

\* A session begins and ends. Its sink is announced with every block up to the tip, so that
\* the blocks that wait in the RPC channel are announced before they are forwarded.
LEMMA CoverSession ==
  ASSUME TypeOK, Covering, Register \/ Connect \/ Disconnect \/ Shutdown
  PROVE  Covering'
<1>1. /\ UNCHANGED <<headers, gaps, cursor, work, last_processed_block, tip, rpc>>
      /\ Lossless' => Lossless
  <2>1. CASE Register
    BY <2>1 DEF Register, Lossless, db, locals, history
  <2>2. CASE Connect
    BY <2>2 DEF Connect, Lossless, db, locals, history
  <2>3. CASE Disconnect
    BY <2>3 DEF Disconnect, Lossless, db, locals
  <2>4. CASE Shutdown
    BY <2>4 DEF Shutdown, Lossless, db, locals, history
  <2>5. QED  BY <2>1, <2>2, <2>3, <2>4, ZenonT(30)
<1>2. CursorInv' /\ \A b : Held(b)' <=> Held(b)
  BY <1>1, CoverNodeCursor
<1>3. NodeInv'
  BY <1>1 DEF Covering, NodeInv
<1>4. CASE Register
  <2>1. link' = "registered" /\ UNCHANGED inbox
    BY <1>4 DEF Register
  <2>2. StreamInv'
    <3>1. Lossless' => \A k \in DOMAIN inbox : inbox[k].kind = "Notification" =>
            \A b \in 0 .. inbox[k].block - 1 :
              Held(b) \/ \E j \in DOMAIN inbox : j < k /\ Brings(inbox[j], b)
      BY <1>1, ZenonT(20) DEF Covering, StreamInv
    <3>2. Lossless' => \A k \in DOMAIN inbox' : inbox'[k].kind = "Notification" =>
            \A b \in 0 .. inbox'[k].block - 1 :
              Held(b)' \/ \E j \in DOMAIN inbox' : j < k /\ Brings(inbox'[j], b)
      BY <1>2, <2>1, <3>1
    <3>3. QED  BY <2>1, <3>2, ZenonT(20) DEF StreamInv
  <2>3. QED  BY <1>2, <1>3, <2>2 DEF Covering
<1>5. CASE Connect
  <2>1. PICK m : m = [kind |-> "Connected", block |-> tip]
    OBVIOUS
  <2>2. link' = "up" /\ inbox' = Append(inbox, m)
    BY <1>5, <2>1 DEF Connect
  <2>3. tip \in Blocks /\ m \in Notifications /\ m.kind = "Connected" /\ m.block = tip
    BY <2>1 DEF TypeOK, Notifications
  <2>4. \A b \in 0 .. tip : Brings(m, b)
    BY <2>3, BlockProcessorAssumption DEF Brings, Blocks
  <2>5. ASSUME Lossless
        PROVE  /\ \A k \in DOMAIN inbox' : inbox'[k].kind = "Notification" =>
                    \A b \in 0 .. inbox'[k].block - 1 :
                      Held(b)' \/ \E j \in DOMAIN inbox' : j < k /\ Brings(inbox'[j], b)
               /\ \A b \in 0 .. tip : InInbox(b)'
    BY <1>2, <2>2, <2>3, <2>4, <2>5, InboxSent, ZenonT(30)
  <2>6. \A k \in DOMAIN rpc : \A b \in 0 .. rpc[k] - 1 : b \in 0 .. tip
    <3>1. \A k \in DOMAIN rpc : rpc[k] <= tip /\ rpc[k] \in Int
      <4>1. \A k \in DOMAIN rpc : rpc[k] <= tip
        BY Zenon DEF Covering, NodeInv
      <4>2. rpc \in Seq(Blocks)
        BY Zenon DEF TypeOK
      <4>3. QED  BY <4>1, <4>2, BlockProcessorAssumption DEF Blocks
    <3>2. tip \in Int
      BY <2>3, BlockProcessorAssumption DEF Blocks
    <3>3. QED  BY <3>1, <3>2
  <2>7. StreamInv'
    BY <1>1, <2>2, <2>5, <2>6 DEF StreamInv, Brings
  <2>8. QED  BY <1>2, <1>3, <2>7 DEF Covering
<1>6. CASE Disconnect \/ Shutdown
  <2>1. PICK m \in Notifications : m.kind # "Notification" /\ inbox' = Append(inbox, m)
    <3>1. PICK d : d = [kind |-> "Disconnected"]
      OBVIOUS
    <3>2. PICK s : s = [kind |-> "Shutdown"]
      OBVIOUS
    <3>3. d \in Notifications /\ d.kind # "Notification" /\ s \in Notifications /\ s.kind # "Notification"
      BY <3>1, <3>2 DEF Notifications
    <3>4. inbox' = Append(inbox, d) \/ inbox' = Append(inbox, s)
      BY <1>6, <3>1, <3>2 DEF Disconnect, Shutdown
    <3>5. QED  BY <3>3, <3>4
  <2>2. link' = "down" /\ (Lossless' => link # "registered" \/ rpc = << >>)
    BY <1>6 DEF Disconnect, Shutdown, Lossless
  <2>3. ASSUME Lossless
        PROVE  /\ \A k \in DOMAIN inbox' : inbox'[k].kind = "Notification" =>
                    \A b \in 0 .. inbox'[k].block - 1 :
                      Held(b)' \/ \E j \in DOMAIN inbox' : j < k /\ Brings(inbox'[j], b)
               /\ \A b : InInbox(b) => InInbox(b)'
    BY <1>2, <2>1, <2>3, InboxSent
  <2>4. Lossless' => \A k \in DOMAIN rpc : \A b \in 0 .. rpc[k] - 1 :
          Held(b) \/ InInbox(b) \/ \E j \in DOMAIN rpc : j < k /\ rpc[j] = b
    BY <1>1, <2>2 DEF Covering, StreamInv
  <2>5. StreamInv'
    <3>1. Lossless' => \A k \in DOMAIN rpc : \A b \in 0 .. rpc[k] - 1 :
            Held(b)' \/ InInbox(b)' \/ \E j \in DOMAIN rpc : j < k /\ rpc[j] = b
      BY <1>1, <1>2, <2>3, <2>4
    <3>2. Lossless' => \A k \in DOMAIN rpc' : \A b \in 0 .. rpc'[k] - 1 :
            Held(b)' \/ InInbox(b)' \/ \E j \in DOMAIN rpc' : j < k /\ rpc'[j] = b
      BY <1>1, <3>1
    <3>3. Lossless' => \A k \in DOMAIN inbox' : inbox'[k].kind = "Notification" =>
            \A b \in 0 .. inbox'[k].block - 1 :
              Held(b)' \/ \E j \in DOMAIN inbox' : j < k /\ Brings(inbox'[j], b)
      BY <1>1, <2>3
    <3>4. QED  BY <2>2, <3>2, <3>3, ZenonT(20) DEF StreamInv
  <2>6. QED  BY <1>2, <1>3, <2>5 DEF Covering
<1>7. QED  BY <1>4, <1>5, <1>6
-----------------------------------------------------------------------------
(* The number of fillers: what starts and ends them.                        *)

\* The facts about finite sets that the proofs use; CountingHolds derives them from the
\* library's theorems.
EmptyCount == Cardinality({}) = 0
RangeCount ==
  \A a, b \in Int : IsFiniteSet(a .. b) /\ Cardinality(a .. b) = IF a > b THEN 0 ELSE b - a + 1
SubsetCount ==
  \A S : IsFiniteSet(S) =>
    /\ Cardinality(S) \in Nat
    /\ \A T : T \subseteq S => IsFiniteSet(T) /\ Cardinality(T) <= Cardinality(S)
ElementCount ==
  \A S : IsFiniteSet(S) =>
    /\ \A x \in S : IsFiniteSet(S \ {x}) /\ Cardinality(S \ {x}) = Cardinality(S) - 1
    /\ \A x : x \notin S => Cardinality(S \cup {x}) = Cardinality(S) + 1
Listable ==
  \A S : IsFiniteSet(S) =>
    \E f \in [1 .. Cardinality(S) -> S] : \A x \in S : \E i \in DOMAIN f : f[i] = x
ListCount ==
  \A S : IsFiniteSet(S) => \A n \in Nat : \A f \in [1 .. n -> S] :
    (\A i, j \in 1 .. n : f[i] = f[j] => i = j) /\ (\A x \in S : \E i \in 1 .. n : f[i] = x)
      => Cardinality(S) = n
Counting == EmptyCount /\ RangeCount /\ SubsetCount /\ ElementCount /\ Listable /\ ListCount

LEMMA EnumerationOf ==
  ASSUME Counting, NEW S, IsFiniteSet(S), NEW ts, ts = Enumeration(S)
  PROVE  /\ Cardinality(S) \in Nat /\ ts \in [1 .. Cardinality(S) -> S]
         /\ \A x \in S : \E i \in 1 .. Cardinality(S) : ts[i] = x
<1>1. PICK n : n = Cardinality(S)
  OBVIOUS
<1>2. n \in Nat
  BY <1>1 DEF Counting, SubsetCount
<1>3. \E f \in [1 .. n -> S] : \A x \in S : \E i \in DOMAIN f : f[i] = x
  BY <1>1 DEF Counting, Listable
<1>4. ts \in [1 .. n -> S] /\ \A x \in S : \E i \in DOMAIN ts : ts[i] = x
  BY <1>1, <1>3 DEF Enumeration
<1>5. QED  BY <1>1, <1>2, <1>4

LEMMA FiniteBlocks ==
  ASSUME Counting, NEW S, S \subseteq Blocks
  PROVE  IsFiniteSet(S) /\ Cardinality(S) \in Nat /\ Cardinality(S) <= MaxBlock + 1
<1>1. IsFiniteSet(Blocks) /\ Cardinality(Blocks) = MaxBlock + 1
  <2>1. 0 \in Int /\ MaxBlock \in Int /\ MaxBlock >= 0
    BY BlockProcessorAssumption
  <2>2. /\ IsFiniteSet(0 .. MaxBlock)
        /\ Cardinality(0 .. MaxBlock) = IF 0 > MaxBlock THEN 0 ELSE MaxBlock - 0 + 1
    BY <2>1 DEF Counting, RangeCount
  <2>3. QED  BY <2>1, <2>2 DEF Blocks
<1>2. IsFiniteSet(S) /\ Cardinality(S) <= Cardinality(Blocks)
  BY <1>1 DEF Counting, SubsetCount
<1>3. Cardinality(S) \in Nat
  BY <1>2 DEF Counting, SubsetCount
<1>4. QED  BY <1>1, <1>2, <1>3

\* One filler per recorded gap, at its lower end, and one for the new gap.
OnePerGap(s, sink) ==
  /\ s \in Seq(Fillers)
  /\ \A i \in DOMAIN s : s[i].pc = "check"
  /\ \A t \in DOMAIN gaps : \E i \in DOMAIN s : s[i].to = t /\ (NewGap(sink) # << >> => i # Len(s))
  /\ \A i \in DOMAIN s :
       \/ s[i].to \in DOMAIN gaps /\ s[i].from = gaps[s[i].to] /\ (NewGap(sink) # << >> => i # Len(s))
       \/ i = Len(s) /\ NewGap(sink) # << >> /\ s[i] = NewGap(sink)[1]
  /\ NewGap(sink) # << >> => Len(s) \in DOMAIN s /\ s[Len(s)] = NewGap(sink)[1]

LEMMA SpawnedOf ==
  ASSUME Counting, TypeOK, NEW sink \in Blocks, NEW s, s = Spawned(sink)
  PROVE  OnePerGap(s, sink)
<1>1. PICK ts : ts = Enumeration(DOMAIN gaps)
  OBVIOUS
<1>2. PICK n : n = Cardinality(DOMAIN gaps)
  OBVIOUS
<1>3. /\ n \in Nat /\ ts \in [1 .. n -> DOMAIN gaps]
      /\ \A x \in DOMAIN gaps : \E i \in 1 .. n : ts[i] = x
  <2>1. IsFiniteSet(DOMAIN gaps)
    BY FiniteBlocks DEF TypeOK
  <2>2. QED  BY <1>1, <1>2, <2>1, EnumerationOf
<1>4. PICK l : l = Listed
  OBVIOUS
<1>5. l = [i \in 1 .. n |-> Filler(gaps[ts[i]], ts[i])]
  BY <1>1, <1>3, <1>4 DEF Listed
<1>6. \A i \in 1 .. n : /\ l[i] \in Fillers /\ l[i].pc = "check"
                        /\ l[i].to = ts[i] /\ l[i].from = gaps[ts[i]] /\ ts[i] \in DOMAIN gaps
  <2> SUFFICES ASSUME NEW i \in 1 .. n
               PROVE  /\ l[i] \in Fillers /\ l[i].pc = "check" /\ l[i].to = ts[i]
                      /\ l[i].from = gaps[ts[i]] /\ ts[i] \in DOMAIN gaps
    OBVIOUS
  <2>1. ts[i] \in DOMAIN gaps /\ l[i] = Filler(gaps[ts[i]], ts[i])
    BY <1>3, <1>5
  <2>2. ts[i] \in Blocks /\ gaps[ts[i]] \in Blocks
    BY <2>1 DEF TypeOK
  <2>3. PICK x \in Blocks, y \in Blocks : x = gaps[ts[i]] /\ y = ts[i]
    BY <2>2
  <2>4. PICK q : q = Filler(x, y)
    OBVIOUS
  <2>5. q \in Fillers /\ q.from = x /\ q.to = y /\ q.pc = "check"
    BY <2>4, FillerOf
  <2>6. QED  BY <2>1, <2>3, <2>4, <2>5
<1>7. l \in Seq(Fillers) /\ Len(l) = n /\ DOMAIN l = 1 .. n
  BY <1>3, <1>5, <1>6
<1>8. CASE NewGap(sink) = << >>
  <2>1. s = l
    BY <1>4, <1>7, <1>8 DEF Spawned
  <2>2. QED  BY <1>3, <1>6, <1>7, <1>8, <2>1 DEF OnePerGap
<1>9. CASE NewGap(sink) # << >>
  <2>1. PICK from \in Blocks : NewGap(sink) = <<Filler(from, sink)>>
    BY <1>9, NewGapOf
  <2>2. PICK r : r = Filler(from, sink)
    OBVIOUS
  <2>3. r \in Fillers /\ r.pc = "check" /\ NewGap(sink)[1] = r
    BY <2>1, <2>2, FillerOf
  <2>4. s = l \o <<r>>
    BY <1>4, <2>1, <2>2 DEF Spawned
  <2>5. /\ s \in Seq(Fillers) /\ Len(s) = n + 1 /\ DOMAIN s = 1 .. n + 1
        /\ \A i \in 1 .. n : s[i] = l[i]
        /\ s[n + 1] = r
    <3>1. s = Append(l, r)
      BY <1>7, <2>3, <2>4
    <3>2. r \in Fillers
      BY <2>3
    <3>3. QED  BY <1>3, <1>7, <3>1, <3>2
  <2>6. \A i \in DOMAIN s : i \in 1 .. n \/ i = n + 1
    BY <1>3, <2>5
  <2>7. \A t \in DOMAIN gaps : \E i \in DOMAIN s : s[i].to = t /\ i # Len(s)
    BY <1>3, <1>6, <2>5
  <2>8. \A i \in 1 .. n : i # n + 1
    BY <1>3
  <2>9. \A i \in DOMAIN s :
          \/ s[i].to \in DOMAIN gaps /\ s[i].from = gaps[s[i].to] /\ i # Len(s)
          \/ i = Len(s) /\ s[i] = NewGap(sink)[1]
    BY <1>6, <2>3, <2>5, <2>6, <2>8, ZenonT(20)
  <2>10. Len(s) \in DOMAIN s /\ s[Len(s)] = NewGap(sink)[1]
    BY <1>3, <2>3, <2>5
  <2>11. \A i \in DOMAIN s : s[i].pc = "check"
    BY <1>6, <2>3, <2>5, <2>6
  <2>12. QED  BY <1>9, <2>5, <2>7, <2>9, <2>10, <2>11 DEF OnePerGap
<1>10. QED  BY <1>8, <1>9

\* What the first connection leaves: a filler for every recorded gap; and when none of them
\* is a twin, one for each, at its lower end, and the map counts them.
LEMMA FirstEffect ==
  ASSUME Counting, TypeOK, FirstConnected, NEW sink \in Blocks, sink = Head(inbox).block
  PROVE  /\ fillers' \in Seq(Fillers) /\ \A f \in DOMAIN fillers' : fillers'[f].pc = "check"
         /\ DOMAIN gaps' \subseteq Blocks /\ \A t \in DOMAIN gaps' : gaps'[t] \in Blocks
         /\ DOMAIN gaps_fillers' \subseteq Blocks
         /\ \A t \in DOMAIN gaps_fillers' : gaps_fillers'[t] \in DOMAIN fillers'
         /\ gaps_filling_in_progress' = Cardinality(DOMAIN gaps_fillers')
         /\ \A t \in DOMAIN gaps' : \E f \in DOMAIN fillers' : fillers'[f].to = t
         /\ \A f \in DOMAIN fillers' : fillers'[f].to \in DOMAIN gaps'
         /\ ~overlap' \/ ~twins' =>
              /\ \A f, g \in DOMAIN fillers' : fillers'[f].to = fillers'[g].to => f = g
              /\ \A f \in DOMAIN fillers' : fillers'[f].from = gaps'[fillers'[f].to]
              /\ DOMAIN gaps_fillers' = {fillers'[f].to : f \in DOMAIN fillers'}
              /\ \A t \in DOMAIN gaps : t \in DOMAIN gaps' /\ gaps'[t] = gaps[t]
         /\ \/ cursor = sink
            \/ sink \in DOMAIN gaps' /\ (cursor # None => gaps'[sink] = cursor)
                 /\ (cursor = None => gaps'[sink] = 0)
<1>1. PICK s : s = Spawned(sink)
  OBVIOUS
<1>2. PICK h : h = Holders(s)
  OBVIOUS
<1>3. /\ IF NewGap(sink) = << >> THEN UNCHANGED gaps ELSE Record(NewGap(sink)[1].from, sink)
      /\ fillers' = [i \in DOMAIN s |-> IF i \in h THEN s[i] ELSE [s[i] EXCEPT !.intr = "closed"]]
      /\ gaps_fillers' = [t \in {s[i].to : i \in h} |-> CHOOSE i \in h : s[i].to = t]
      /\ gaps_filling_in_progress' = Cardinality(DOMAIN gaps_fillers')
      /\ twins' = (twins \/ h # DOMAIN s) /\ overlap' = (overlap \/ h # DOMAIN s)
  <2>1. IF NewGap(sink) = << >> THEN UNCHANGED gaps ELSE Record(NewGap(sink)[1].from, sink)
    BY DEF FirstConnected
  <2>2. fillers' = [i \in DOMAIN s |-> IF i \in h THEN s[i] ELSE [s[i] EXCEPT !.intr = "closed"]]
    BY <1>1, <1>2 DEF FirstConnected
  <2>3. gaps_fillers' = [t \in {s[i].to : i \in h} |-> CHOOSE i \in h : s[i].to = t]
    <3> DEFINE sp == Spawned(Head(inbox).block)
    <3>1. gaps_fillers' = [t \in {sp[i].to : i \in Holders(sp)} |-> CHOOSE i \in Holders(sp) : sp[i].to = t]
      BY Zenon DEF FirstConnected
    <3>2. sp = s
      BY <1>1, Zenon
    <3> HIDE DEF sp
    <3>3. QED  BY <1>2, <3>1, <3>2
  <2>4. gaps_filling_in_progress' = Cardinality(DOMAIN gaps_fillers')
    BY DEF FirstConnected
  <2>5. twins' = (twins \/ h # DOMAIN s)
    BY <1>1, <1>2, ZenonT(20) DEF FirstConnected
  <2>6. overlap' = (overlap \/ h # DOMAIN s)
    BY <1>1, <1>2, ZenonT(20) DEF FirstConnected
  <2>7. QED  BY <2>1, <2>2, <2>3, <2>4, <2>5, <2>6
<1>4. /\ s \in Seq(Fillers)
      /\ \A i \in DOMAIN s : s[i].pc = "check"
      /\ \A t \in DOMAIN gaps : \E i \in DOMAIN s :
           s[i].to = t /\ (NewGap(sink) # << >> => i # Len(s))
      /\ \A i \in DOMAIN s :
           \/ s[i].to \in DOMAIN gaps /\ s[i].from = gaps[s[i].to]
                /\ (NewGap(sink) # << >> => i # Len(s))
           \/ i = Len(s) /\ NewGap(sink) # << >> /\ s[i] = NewGap(sink)[1]
      /\ NewGap(sink) # << >> => Len(s) \in DOMAIN s /\ s[Len(s)] = NewGap(sink)[1]
  <2>1. OnePerGap(s, sink)
    BY <1>1, SpawnedOf
  <2>2. QED  BY <2>1, Zenon DEF OnePerGap
<1>5. \A i \in DOMAIN s : s[i] \in Fillers /\ i \in Nat
  BY <1>4
<1>6. /\ DOMAIN fillers' = DOMAIN s
      /\ \A i \in DOMAIN s :
           /\ fillers'[i] \in Fillers /\ fillers'[i].pc = "check"
           /\ fillers'[i].to = s[i].to /\ fillers'[i].from = s[i].from
  <2>1. DOMAIN fillers' = DOMAIN s
    BY <1>3
  <2>2. ASSUME NEW i \in DOMAIN s
        PROVE  /\ fillers'[i] \in Fillers /\ fillers'[i].pc = "check"
               /\ fillers'[i].to = s[i].to /\ fillers'[i].from = s[i].from
    <3>1. s[i] \in Fillers /\ s[i].pc = "check"
      BY <1>4, <1>5
    <3>2. fillers'[i] = s[i] \/ fillers'[i] = [s[i] EXCEPT !.intr = "closed"]
      BY <1>3
    <3>3. QED  BY <3>1, <3>2 DEF Fillers
  <2>3. QED  BY <2>1, <2>2
<1>7. fillers' \in Seq(Fillers)
  <2>1. fillers' \in [DOMAIN s -> Fillers]
    BY <1>3, <1>6
  <2>2. QED  BY <1>4, <2>1, ReplacedOf
<1>8. h \subseteq DOMAIN s /\ (h = DOMAIN s => \A i, j \in DOMAIN s : j > i => s[j].to # s[i].to)
  BY <1>2 DEF Holders
<1>9. /\ DOMAIN gaps_fillers' = {s[i].to : i \in h}
      /\ \A t \in DOMAIN gaps_fillers' : gaps_fillers'[t] \in h
  BY <1>3
<1>10. \/ NewGap(sink) = << >> /\ cursor = sink /\ gaps' = gaps
       \/ /\ NewGap(sink) # << >>
          /\ \E from \in Blocks :
               /\ NewGap(sink)[1] = Filler(from, sink)
               /\ gaps' = Insert(gaps, sink, from)
               /\ cursor # None => from = cursor
               /\ cursor = None => from = 0
  <2>1. CASE NewGap(sink) = << >>
    BY <1>3, <2>1, NewGapOf
  <2>2. CASE NewGap(sink) # << >>
    <3>1. PICK from \in Blocks :
            /\ NewGap(sink) = <<Filler(from, sink)>>
            /\ cursor # None => from = cursor
            /\ cursor = None => from = 0
      BY <2>2, NewGapOf
    <3>2. NewGap(sink)[1] = Filler(from, sink) /\ NewGap(sink)[1].from = from
      BY <3>1, FillerOf
    <3>3. gaps' = Insert(gaps, sink, from)
      BY <1>3, <2>2, <3>2 DEF Record
    <3>4. QED  BY <2>2, <3>1, <3>2, <3>3
  <2>3. QED  BY <2>1, <2>2
<1>11. \/ NewGap(sink) = << >> /\ cursor = sink /\ gaps' = gaps
       \/ /\ NewGap(sink) # << >>
          /\ \E from \in Blocks :
               /\ NewGap(sink)[1].to = sink /\ NewGap(sink)[1].from = from
               /\ DOMAIN gaps' = DOMAIN gaps \cup {sink} /\ gaps'[sink] = from
               /\ \A t \in DOMAIN gaps : t # sink => gaps'[t] = gaps[t]
               /\ cursor # None => from = cursor
               /\ cursor = None => from = 0
  <2>1. CASE NewGap(sink) = << >>
    BY <1>10, <2>1
  <2>2. CASE NewGap(sink) # << >>
    <3>1. PICK from \in Blocks :
               /\ NewGap(sink)[1] = Filler(from, sink)
               /\ gaps' = Insert(gaps, sink, from)
               /\ cursor # None => from = cursor
               /\ cursor = None => from = 0
      BY <1>10, <2>2
    <3>2. NewGap(sink)[1].to = sink /\ NewGap(sink)[1].from = from
      BY <3>1, FillerOf
    <3>3. DOMAIN gaps' = DOMAIN gaps \cup {sink} /\ gaps'[sink] = from
      BY <3>1 DEF Insert
    <3>4. \A t \in DOMAIN gaps : t # sink => gaps'[t] = gaps[t]
      BY <3>1 DEF Insert
    <3>5. QED  BY <2>2, <3>1, <3>2, <3>3, <3>4
  <2>3. QED  BY <2>1, <2>2
<1>12. DOMAIN gaps' \subseteq Blocks /\ \A t \in DOMAIN gaps' : gaps'[t] \in Blocks
  BY <1>11 DEF TypeOK
<1>13. \A t \in DOMAIN gaps' : \E f \in DOMAIN fillers' : fillers'[f].to = t
  <2> TAKE t \in DOMAIN gaps'
  <2>1. PICK i \in DOMAIN s : s[i].to = t
    <3>1. CASE t \in DOMAIN gaps
      BY <1>4, <3>1
    <3>2. CASE t \notin DOMAIN gaps
      <4>1. NewGap(sink) # << >> /\ NewGap(sink)[1].to = t
        BY <1>11, <3>2
      <4>2. QED  BY <1>4, <4>1
    <3>3. QED  BY <3>1, <3>2
  <2>2. QED  BY <1>6, <2>1
<1>14. \A f \in DOMAIN fillers' : fillers'[f].to \in DOMAIN gaps'
  BY <1>4, <1>6, <1>11
<1>15. ASSUME ~overlap' \/ ~twins'
       PROVE  /\ \A f, g \in DOMAIN fillers' : fillers'[f].to = fillers'[g].to => f = g
              /\ \A f \in DOMAIN fillers' : fillers'[f].from = gaps'[fillers'[f].to]
              /\ DOMAIN gaps_fillers' = {fillers'[f].to : f \in DOMAIN fillers'}
              /\ \A t \in DOMAIN gaps : t \in DOMAIN gaps' /\ gaps'[t] = gaps[t]
  <2>1. h = DOMAIN s
    BY <1>3, <1>15
  <2>2. \A f, g \in DOMAIN s : s[f].to = s[g].to => f = g
    BY <1>5, <1>8, <2>1
  <2>3. \A f \in DOMAIN s : s[f].from = gaps'[s[f].to]
    BY <1>4, <1>11, <2>2, ZenonT(20)
  <2>4. \A t \in DOMAIN gaps : t \in DOMAIN gaps' /\ gaps'[t] = gaps[t]
    <3> SUFFICES ASSUME NEW t \in DOMAIN gaps, t = sink, NewGap(sink) # << >> PROVE FALSE
      BY <1>11
    <3>1. PICK i \in DOMAIN s : s[i].to = t /\ i # Len(s)
      BY <1>4
    <3>2. PICK j \in DOMAIN s : j = Len(s)
      BY <1>4
    <3>3. s[j].to = sink
      BY <1>4, <1>11, <3>2
    <3>4. QED  BY <2>2, <3>1, <3>2, <3>3
  <2>5. QED  BY <1>6, <1>9, <2>1, <2>2, <2>3, <2>4
<1>16. \A t \in DOMAIN gaps_fillers' : t \in Blocks /\ gaps_fillers'[t] \in DOMAIN fillers'
  <2>1. \A i \in DOMAIN s : s[i].to \in Blocks
    BY <1>5, FieldsOf
  <2>2. QED  BY <1>6, <1>8, <1>9, <2>1
<1>17. QED  BY <1>3, <1>6, <1>7, <1>11, <1>12, <1>13, <1>14, <1>15, <1>16
LEMMA TypeFirst == ASSUME Counting, TypeOK, FirstConnected, sessions >= 1 PROVE TypeOK'
<1>1. PICK sink : sink = Head(inbox).block
  OBVIOUS
<1>2. sink \in Blocks /\ inbox' \in Seq(Notifications)
  BY <1>1, HeadTypes DEF FirstConnected, Take
<1>3. /\ fillers' \in Seq(Fillers)
      /\ DOMAIN gaps' \subseteq Blocks /\ \A t \in DOMAIN gaps' : gaps'[t] \in Blocks
      /\ DOMAIN gaps_fillers' \subseteq Blocks
      /\ \A t \in DOMAIN gaps_fillers' : gaps_fillers'[t] \in DOMAIN fillers'
      /\ gaps_filling_in_progress' = Cardinality(DOMAIN gaps_fillers')
  BY <1>1, <1>2, FirstEffect
<1>4. gaps_filling_in_progress' \in 0 .. UsizeRange - 1
  <2>1. gaps_filling_in_progress' \in Nat /\ gaps_filling_in_progress' <= MaxBlock + 1
    BY <1>3, FiniteBlocks
  <2>2. sessions \in 0 .. MaxSessions
    BY Zenon DEF TypeOK
  <2>3. QED  BY <2>1, <2>2, BlockProcessorAssumption
<1>5. bp' \in {"run", "stopped"} /\ twins' \in BOOLEAN /\ overlap' \in BOOLEAN
  BY DEF FirstConnected, LoopOrExit, TypeOK
<1>6. /\ has_first_connect' = TRUE
      /\ UNCHANGED <<node, results, headers, stored, cursor, is_shutdown, last_processed_block, work,
                     outputs, unannounced, skipped, abandoned, lost, restarts>>
  BY DEF FirstConnected
<1>7. QED
  BY <1>2, <1>3, <1>4, <1>5, <1>6 DEF TypeOK, node, db, locals, outputs, history
LEMMA CoverFirst == ASSUME Counting, TypeOK, Covering, FirstConnected PROVE Covering'
<1>1. PICK sink : sink = Head(inbox).block
  OBVIOUS
<1>2. /\ Take("Connected") /\ Head(inbox).kind = "Connected" /\ (Lossless' => Lossless /\ ~overlap')
      /\ UNCHANGED <<tip, link, rpc, cursor, work, last_processed_block, headers>>
  BY DEF FirstConnected, Take, Lossless, node
<1>3. sink \in Blocks
  BY <1>1, <1>2, HeadTypes DEF Take
<1>4. /\ ~overlap' => \A t \in DOMAIN gaps : t \in DOMAIN gaps' /\ gaps'[t] = gaps[t]
      /\ \/ cursor = sink
         \/ sink \in DOMAIN gaps' /\ (cursor # None => gaps'[sink] = cursor)
              /\ (cursor = None => gaps'[sink] = 0)
  BY <1>1, <1>3, FirstEffect
<1>5. ASSUME Lossless'
      PROVE  /\ \A b : Safe(b) => Safe(b)'
             /\ \A b \in 0 .. sink : Safe(b)'
  <2>1. \A b : Safe(b) => Safe(b)'
    BY <1>2, <1>4, <1>5, SafeInserted
  <2>2. cursor # None => \A b \in 0 .. cursor : Safe(b)'
    BY <1>2, <1>5, <2>1 DEF Covering, CursorInv
  <2>3. CASE cursor = sink
    <3>1. sink # None
      BY <1>3, BlockProcessorAssumption DEF Blocks, None
    <3>2. QED  BY <2>1, <2>2, <2>3, <3>1
  <2>4. CASE sink \in DOMAIN gaps' /\ cursor # None /\ gaps'[sink] = cursor
    <3>1. cursor \in Blocks
      BY <2>4 DEF TypeOK
    <3>2. QED  BY <1>3, <2>1, <2>2, <2>4, <3>1, SafeBelow
  <2>5. CASE sink \in DOMAIN gaps' /\ gaps'[sink] = 0
    <3>1. 0 \in Blocks
      BY BlockProcessorAssumption DEF Blocks
    <3>2. QED  BY <1>3, <2>1, <2>5, <3>1, SafeBelow
  <2>6. QED  BY <1>4, <2>3, <2>4, <2>5
<1>6. \A b \in Blocks : Brings(Head(inbox), b) => b \in 0 .. sink
  BY <1>1, <1>2, <1>3, BlockProcessorAssumption DEF Brings, Blocks
<1>7. QED  BY <1>2, <1>5, <1>6, CoverTaken

LEMMA SmallMod == ASSUME NEW x \in Nat, NEW u \in Nat, x < u PROVE x % u = x
OBVIOUS

LEMMA LiveFinite ==
  ASSUME Counting, TypeOK, ReportInv
  PROVE  IsFiniteSet(Live) /\ Cardinality(Live) \in Nat /\ Cardinality(Live) <= Len(fillers)
<1>1. PICK n \in Nat : n = Len(fillers) /\ DOMAIN fillers = 1 .. n
  BY FillerTypes
<1>2. IsFiniteSet(1 .. n) /\ Cardinality(1 .. n) = n
  <2>1. 1 \in Int /\ n \in Int
    OBVIOUS
  <2>2. IsFiniteSet(1 .. n) /\ Cardinality(1 .. n) = IF 1 > n THEN 0 ELSE n - 1 + 1
    BY <2>1 DEF Counting, RangeCount
  <2>3. QED  BY <2>2
<1>3. Live \subseteq 1 .. n
  BY <1>1, LiveDomain
<1>4. IsFiniteSet(Live) /\ Cardinality(Live) <= n
  BY <1>2, <1>3 DEF Counting, SubsetCount
<1>5. Cardinality(Live) \in Nat
  BY <1>4 DEF Counting, SubsetCount
<1>6. QED  BY <1>1, <1>4, <1>5

\* One filler less, and one less in the count.
LEMMA RetireCounted ==
  ASSUME Counting, TypeOK, Filling, UNCHANGED twins, NEW to, Retire(to),
         NEW f \in Live, Live' = Live \ {f}
  PROVE  FillersCounted'
<1>1. CASE twins
  BY <1>1 DEF FillersCounted
<1>2. CASE ~twins
  <2>1. PICK c : c = gaps_filling_in_progress
    OBVIOUS
  <2>2. c = Cardinality(Live) /\ IsFiniteSet(Live) /\ c \in Nat
    BY <1>2, <2>1, LiveFinite DEF Filling, FillersCounted, Live
  <2>3. Cardinality(Live \ {f}) = c - 1 /\ Cardinality(Live \ {f}) \in Nat
    <3>1. Cardinality(Live \ {f}) = c - 1 /\ IsFiniteSet(Live \ {f})
      BY <2>2 DEF Counting, ElementCount
    <3>2. QED  BY <3>1 DEF Counting, SubsetCount
  <2>4. c - 1 < UsizeRange /\ UsizeRange \in Nat
    <3>1. c \in 0 .. UsizeRange - 1
      BY <2>1, Zenon DEF TypeOK
    <3>2. UsizeRange \in Nat
      BY BlockProcessorAssumption, Zenon
    <3>3. QED  BY <3>1, <3>2
  <2>5. (c - 1) % UsizeRange = c - 1
    BY <2>3, <2>4, SmallMod
  <2>6. QED  BY <2>1, <2>3, <2>5 DEF FillersCounted, Retire, Live
<1>3. QED  BY <1>1, <1>2 DEF TypeOK

\* A filler that stopped early leaves its gap to the next start of the process.
LEMMA FillingStopped == ASSUME Counting, TypeOK, Filling, FillerStopped PROVE Filling'
<1>1. PICK m : m = Head(results)
  OBVIOUS
<1>2. /\ work = Idle /\ results # << >> /\ results' = Tail(results)
      /\ m.kind \in {"Interrupted", "Error"} /\ Retire(m.to) /\ abandoned' = abandoned \cup {m.to}
      /\ UNCHANGED <<headers, gaps, has_first_connect, overlap, twins, work>>
  BY <1>1 DEF FillerStopped, db
<1>3. PICK n \in Nat :
        /\ DOMAIN results = 1 .. n + 1 /\ DOMAIN results' = 1 .. n /\ Len(results) = n + 1 /\ Len(results') = n
        /\ \A i \in 1 .. n : results'[i] = results[i + 1] /\ i + 1 \in 1 .. n + 1
        /\ m = results[1] /\ results[1] \in Progress /\ 1 \in 1 .. n + 1
        /\ \A i \in 1 .. n + 1 : i = 1 \/ (i - 1 \in 1 .. n /\ results'[i - 1] = results[i])
        /\ ~Batched
  BY <1>1, <1>2, ReadResult
<1>4. ReportInv /\ ServedInv /\ FillInv
  BY DEF Filling
<1>5. Steady /\ Active' = Active /\ ~Batched'
  BY <1>2, <1>3, RetireSteady DEF Steady, Active, Batched
<1>6. m.id \in DOMAIN fillers \cap Live /\ m.to = fillers[m.id].to /\ m.id \notin Active
  BY <1>2, <1>3, <1>4 DEF ReportInv
<1>7. \A i \in 1 .. n : results'[i].id # m.id
  <2>1. \A i \in 1 .. n : 1 < i + 1
    OBVIOUS
  <2>2. QED  BY <1>2, <1>3, <1>4, <2>1, ZenonT(20) DEF ReportInv
<1>8. \A f : Ended(f)' <=> Ended(f) /\ f # m.id
  <2>1. ASSUME NEW f, Ended(f), f # m.id PROVE Ended(f)'
    <3>1. PICK i \in 1 .. n + 1 : results[i].kind # "Update" /\ results[i].id = f
      BY <1>3, <2>1 DEF Ended
    <3>2. i - 1 \in 1 .. n /\ results'[i - 1] = results[i]
      BY <1>3, <2>1, <3>1
    <3>3. QED  BY <1>3, <3>1, <3>2 DEF Ended
  <2>2. ASSUME NEW f, Ended(f)' PROVE Ended(f) /\ f # m.id
    <3>1. PICK i \in 1 .. n : results'[i].kind # "Update" /\ results'[i].id = f
      BY <1>3, <1>5, <2>2 DEF Ended
    <3>2. i + 1 \in 1 .. n + 1 /\ results'[i] = results[i + 1]
      BY <1>3
    <3>3. QED  BY <1>3, <1>7, <3>1, <3>2 DEF Ended
  <2>3. QED  BY <2>1, <2>2
<1>9. Live' = Live \ {m.id}
  BY <1>5, <1>6, <1>8, LiveOf
<1>10. \A f \in Live : f \in DOMAIN fillers
  BY <1>4, LiveDomain
<1>11. \A f \in DOMAIN fillers : fillers'[f].to = fillers[f].to /\ fillers'[f].from = fillers[f].from
  BY <1>5 DEF Steady
<1>12. ReportInv'
  <2>1. ASSUME NEW i \in 1 .. n
        PROVE  /\ results'[i].id \in DOMAIN fillers' \cap Live'
               /\ results'[i].to = fillers'[results'[i].id].to
               /\ results'[i].kind # "Update" => results'[i].id \notin Active'
    <3>1. i + 1 \in DOMAIN results /\ results'[i] = results[i + 1] /\ results'[i].id # m.id
      BY <1>3, <1>7
    <3>2. /\ results[i + 1].id \in DOMAIN fillers \cap Live
          /\ results[i + 1].to = fillers[results[i + 1].id].to
          /\ results[i + 1].kind # "Update" => results[i + 1].id \notin Active
      BY <1>4, <3>1 DEF ReportInv
    <3>3. QED  BY <1>5, <1>9, <1>11, <3>1, <3>2 DEF Steady
  <2>2. ASSUME NEW i \in 1 .. n, NEW j \in 1 .. n, i < j, results'[i].id = results'[j].id
        PROVE  results'[i].kind = "Update"
    <3>1. i + 1 < j + 1
      BY <2>2
    <3>2. /\ i + 1 \in DOMAIN results /\ results'[i] = results[i + 1]
          /\ j + 1 \in DOMAIN results /\ results'[j] = results[j + 1]
      BY <1>3
    <3>3. QED  BY <1>4, <2>2, <3>1, <3>2 DEF ReportInv
  <2>3. QED  BY <1>3, <1>5, <2>1, <2>2 DEF ReportInv
<1>13. FillersCounted'
  BY <1>2, <1>6, <1>9, RetireCounted
<1>14. ServedInv'
  BY <1>2, <1>4, <1>6, <1>9, <1>10, <1>11 DEF ServedInv
<1>15. FillInv'
  <2>1. ASSUME NEW b, NEW f, NEW i \in Nat, Fetched(b, f, i + 1) PROVE Fetched(b, f, i)'
    <3>1. CASE b \in headers
      BY <1>2, <3>1 DEF Fetched
    <3>2. ASSUME NEW j \in DOMAIN results, j < i + 1, results[j].kind = "Update", results[j].id = f,
                 b \in results[j].lo .. results[j].hi
          PROVE  Fetched(b, f, i)'
      <4>1. j # 1
        BY <1>2, <1>3, <3>2
      <4>2. j - 1 \in 1 .. n /\ results'[j - 1] = results[j]
        BY <1>3, <4>1
      <4>3. j - 1 < i
        BY <1>3, <3>2
      <4>4. QED  BY <1>3, <3>2, <4>2, <4>3 DEF Fetched
    <3>3. QED  BY <1>3, <2>1, <3>1, <3>2 DEF Fetched
  <2>2. ASSUME NEW f \in Live, NEW s \in Blocks, Filled(f, s) PROVE Filled(f, s)'
    <3>1. f \in Active =>
            /\ s <= fillers[f].from
            /\ \A b \in s .. fillers[f].from - 1 : Fetched(b, f, n + 1)'
      <4>1. f \in Active =>
              /\ s <= fillers[f].from
              /\ \A b \in s .. fillers[f].from - 1 : Fetched(b, f, Len(results) + 1)
        BY <2>2, Zenon DEF Filled
      <4>2. QED  BY <1>3, <2>1, <4>1
    <3>2. ASSUME NEW i \in DOMAIN results', results'[i].id = f, results'[i].kind \in {"Update", "Finished"}
          PROVE  /\ s <= results'[i].lo
                 /\ \A b \in s .. results'[i].lo - 1 : Fetched(b, f, i)'
                 /\ results'[i].kind = "Finished" => results'[i].to <= results'[i].hi
      <4>1. i \in Nat /\ i + 1 \in DOMAIN results /\ results'[i] = results[i + 1]
        BY <1>3
      <4>2. /\ s <= results[i + 1].lo
            /\ \A b \in s .. results[i + 1].lo - 1 : Fetched(b, f, i + 1)
            /\ results[i + 1].kind = "Finished" => results[i + 1].to <= results[i + 1].hi
        BY <2>2, <3>2, <4>1, ZenonT(20) DEF Filled
      <4>3. QED  BY <2>1, <4>1, <4>2, ZenonT(20)
    <3>3. s <= gaps[fillers[f].to]
      BY <2>2 DEF Filled
    <3>4. QED  BY <1>2, <1>3, <1>5, <1>10, <1>11, <3>1, <3>2, <3>3 DEF Filled
  <2>3. ASSUME ~overlap
        PROVE  /\ \A f, g \in Live : fillers[f].to = fillers[g].to => f = g
               /\ \A f \in Live : fillers[f].to \in DOMAIN gaps /\ \E s \in Blocks : Filled(f, s)
    BY <1>4, <2>3 DEF FillInv
  <2>4. \A f \in Live' : f \in Live /\ fillers'[f].to = fillers[f].to
    BY <1>9, <1>10, <1>11
  <2>5. ASSUME ~overlap, NEW f \in Live'
        PROVE  /\ fillers'[f].to \in DOMAIN gaps /\ \E s \in Blocks : Filled(f, s)'
               /\ \A g \in Live' : fillers'[f].to = fillers'[g].to => f = g
    BY <2>2, <2>3, <2>4, <2>5
  <2>6. QED  BY <1>2, <2>5 DEF FillInv
<1>16. QED  BY <1>12, <1>13, <1>14, <1>15 DEF Filling

LEMMA FillingGapEnd == ASSUME Counting, TypeOK, Filling, CommitGapEnd PROVE Filling'
<1>1. /\ work # Idle /\ work.kind = "Finished" /\ work' = Idle /\ Retire(work.to)
      /\ gaps' = Forget(gaps, work.to)
      /\ UNCHANGED <<results, headers, has_first_connect, overlap, twins, abandoned>>
  BY DEF CommitGapEnd, CommitOk, history
<1>2. Batched /\ ~Batched' /\ ReportInv /\ ServedInv /\ FillInv
  BY <1>1 DEF Batched, Filling
<1>3. Steady /\ Active' = Active
  BY <1>1, RetireSteady DEF Steady, Active
<1>4. /\ work.id \in DOMAIN fillers \cap Live /\ work.to = fillers[work.id].to
      /\ work.id \notin Active /\ \A i \in DOMAIN results : results[i].id # work.id
  BY <1>1, <1>2 DEF ReportInv
<1>5. Live' = Live \ {work.id}
  <2>1. \A f : Ended(f)' <=> Ended(f) /\ f # work.id
    BY <1>1, <1>2, <1>4 DEF Ended
  <2>2. QED  BY <1>3, <1>4, <2>1, LiveOf
<1>6. \A f \in Live : f \in DOMAIN fillers
  BY <1>2, LiveDomain
<1>7. \A f \in DOMAIN fillers : fillers'[f].to = fillers[f].to /\ fillers'[f].from = fillers[f].from
  BY <1>3 DEF Steady
<1>8. /\ DOMAIN gaps' = DOMAIN gaps \ {work.to}
      /\ \A t \in DOMAIN gaps : t # work.to => gaps'[t] = gaps[t]
  BY <1>1 DEF Forget
<1>9. ReportInv'
  <2>1. \A i \in DOMAIN results :
          /\ results[i].id \in DOMAIN fillers' \cap Live' /\ results[i].to = fillers'[results[i].id].to
          /\ results[i].kind # "Update" => results[i].id \notin Active'
    BY <1>2, <1>3, <1>4, <1>5, <1>7 DEF ReportInv, Steady
  <2>2. QED  BY <1>1, <1>2, <2>1 DEF ReportInv
<1>10. FillersCounted'
  BY <1>1, <1>4, <1>5, RetireCounted
<1>11. ServedInv'
  <2> SUFFICES ASSUME has_first_connect, NEW t \in DOMAIN gaps' \ abandoned
               PROVE  \E f \in Live' : fillers'[f].to = t
    BY <1>1 DEF ServedInv
  <2>1. t \in DOMAIN gaps \ abandoned /\ t # work.to
    BY <1>8
  <2>2. PICK f \in Live : fillers[f].to = t
    BY <1>2, <2>1 DEF ServedInv
  <2>3. f # work.id
    BY <1>4, <2>1, <2>2
  <2>4. QED  BY <1>5, <1>6, <1>7, <2>2, <2>3
<1>12. FillInv'
  <2> SUFFICES ASSUME ~overlap
               PROVE  /\ \A f, g \in Live' : fillers'[f].to = fillers'[g].to => f = g
                      /\ \A f \in Live' : fillers'[f].to \in DOMAIN gaps' /\ \E s \in Blocks : Filled(f, s)'
    BY <1>1 DEF FillInv
  <2>1. /\ \A f, g \in Live : fillers[f].to = fillers[g].to => f = g
        /\ \A f \in Live : fillers[f].to \in DOMAIN gaps /\ \E s \in Blocks : Filled(f, s)
    BY <1>2 DEF FillInv
  <2>2. ASSUME NEW b, NEW f, NEW i, Fetched(b, f, i), f # work.id PROVE Fetched(b, f, i)'
    BY <1>1, <1>2, <2>2 DEF Fetched
  <2>3. ASSUME NEW f \in Live', NEW s \in Blocks, Filled(f, s) PROVE Filled(f, s)'
    <3>1. f \in Live /\ f # work.id /\ f \in DOMAIN fillers /\ fillers[f].to # work.to /\ fillers[f].to \in DOMAIN gaps
      BY <1>4, <1>5, <1>6, <2>1, <2>3
    <3>2. s <= gaps'[fillers'[f].to]
      BY <1>7, <1>8, <2>3, <3>1 DEF Filled
    <3>3. f \in Active' =>
            /\ s <= fillers'[f].from
            /\ \A b \in s .. fillers'[f].from - 1 : Fetched(b, f, Len(results) + 1)'
      BY <1>1, <1>3, <1>7, <2>2, <2>3, <3>1 DEF Filled
    <3>4. \A i \in DOMAIN results : results[i].id = f /\ results[i].kind \in {"Update", "Finished"} =>
            /\ s <= results[i].lo
            /\ \A b \in s .. results[i].lo - 1 : Fetched(b, f, i)'
            /\ results[i].kind = "Finished" => results[i].to <= results[i].hi
      BY <2>2, <2>3, <3>1 DEF Filled
    <3>5. QED  BY <1>1, <1>2, <3>2, <3>3, <3>4 DEF Filled
  <2>4. \A f \in Live' : f \in Live /\ f \in DOMAIN fillers /\ fillers[f].to # work.to
    BY <1>4, <1>5, <1>6, <2>1
  <2>5. ASSUME NEW f \in Live'
        PROVE  /\ fillers'[f].to \in DOMAIN gaps' /\ \E s \in Blocks : Filled(f, s)'
               /\ \A g \in Live' : fillers'[f].to = fillers'[g].to => f = g
    <3>1. fillers'[f].to = fillers[f].to /\ \A g \in Live' : fillers'[g].to = fillers[g].to
      BY <1>7, <2>4
    <3>2. fillers'[f].to \in DOMAIN gaps'
      BY <1>8, <2>1, <2>4, <3>1
    <3>3. \E s \in Blocks : Filled(f, s)'
      BY <2>1, <2>3, <2>4
    <3>4. QED  BY <2>1, <2>4, <3>1, <3>2, <3>3
  <2>6. QED  BY <2>5
<1>13. QED  BY <1>9, <1>10, <1>11, <1>12 DEF Filling

LEMMA FillingRestart == ASSUME Counting, Restart PROVE Filling'
<1>1. /\ fillers' = << >> /\ results' = << >> /\ work' = Idle /\ ~has_first_connect'
      /\ gaps_filling_in_progress' = 0
  BY DEF Restart
<1>2. DOMAIN results' = {} /\ DOMAIN fillers' = {} /\ ~Batched'
  BY <1>1 DEF Batched
<1>3. Live' = {}
  BY <1>2, LiveOf DEF Active, Ended
<1>4. Cardinality({}) = 0
  BY DEF Counting, EmptyCount
<1>5. ReportInv' /\ ServedInv' /\ FillInv'
  BY <1>1, <1>2, <1>3 DEF ReportInv, ServedInv, FillInv
<1>6. FillersCounted'
  BY <1>1, <1>3, <1>4 DEF FillersCounted, Live
<1>7. QED  BY <1>5, <1>6 DEF Filling
\* A reconnection adds one filler, one to the count and, if its target is new, one gap.
LEMMA Reconnecting ==
  ASSUME Counting, TypeOK, TypeOK', Filling, SessionInv, Reconnected
  PROVE  Filling' /\ SessionInv'
<1>1. PICK sink : sink = Head(inbox).block
  OBVIOUS
<1>2. PICK from : from = last_processed_block
  OBVIOUS
<1>3. PICK n \in Nat : n = Len(fillers)
  BY FillerTypes
<1>4. /\ sink \in Blocks /\ from \in Blocks
      /\ DOMAIN fillers' = 1 .. n + 1 /\ Len(fillers') = n + 1 /\ DOMAIN fillers = 1 .. n
      /\ \A f \in DOMAIN fillers :
           /\ fillers'[f].to = fillers[f].to /\ fillers'[f].from = fillers[f].from
           /\ fillers'[f].pc = fillers[f].pc
      /\ fillers'[n + 1].to = sink /\ fillers'[n + 1].pc = "check" /\ fillers'[n + 1].from = from
  BY <1>1, <1>2, <1>3, ReconnectEffect, FillerTypes
<1>5. /\ Take("Connected") /\ work = Idle /\ has_first_connect
      /\ gaps' = Insert(gaps, sink, from)
      /\ gaps_filling_in_progress' = (gaps_filling_in_progress + 1) % UsizeRange
      /\ overlap' = (overlap \/ sink \in DOMAIN gaps)
      /\ UNCHANGED <<link, sessions, results, headers, work, has_first_connect, twins, abandoned>>
  BY <1>1, <1>2 DEF Reconnected, Record, Take, node
<1>6. ReportInv /\ FillersCounted /\ ServedInv /\ FillInv
  BY DEF Filling
<1>7. \A f \in 1 .. n : f \in 1 .. n + 1 /\ f # n + 1
  OBVIOUS
<1>8. \A f \in 1 .. n + 1 : f \in 1 .. n \/ f = n + 1
  OBVIOUS
<1>9. Active' = Active \cup {n + 1}
  BY <1>4, <1>7, <1>8 DEF Active
<1>10. Live' = Live \cup {n + 1}
  <2>1. \A f : Ended(f)' <=> Ended(f)
    BY <1>5 DEF Ended, Batched
  <2>2. QED  BY <1>9, <2>1, LiveOf
<1>11. \A f \in Live : f \in 1 .. n
  BY <1>4, <1>6, LiveDomain
<1>12. n + 1 \notin Live /\ n + 1 \notin DOMAIN fillers
  BY <1>4, <1>7, <1>11
<1>13. /\ DOMAIN gaps' = DOMAIN gaps \cup {sink} /\ gaps'[sink] = from
       /\ \A t \in DOMAIN gaps : t # sink => gaps'[t] = gaps[t]
  BY <1>5 DEF Insert
<1>14. ReportInv'
  <2>1. \A i \in DOMAIN results :
          /\ results[i].id \in DOMAIN fillers' \cap Live' /\ results[i].to = fillers'[results[i].id].to
          /\ results[i].kind # "Update" => results[i].id \notin Active'
    BY <1>4, <1>6, <1>7, <1>9, <1>10, <1>12 DEF ReportInv
  <2>2. QED  BY <1>5, <1>6, <2>1 DEF ReportInv, Batched
<1>15. PICK k \in Nat :
         /\ Sessions(k) /\ k + 1 <= Opened /\ Opened <= MaxSessions /\ Opened' = Opened
         /\ \E h : Numbers(inbox', h, k + 1, Opened)
  BY <1>5, SessionHead
<1>16. FillersCounted'
  <2> SUFFICES ASSUME ~twins PROVE gaps_filling_in_progress' = Cardinality(Live')
    BY <1>5 DEF FillersCounted, Live
  <2>1. PICK c : c = gaps_filling_in_progress
    OBVIOUS
  <2>2. c = Cardinality(Live) /\ IsFiniteSet(Live) /\ c \in Nat /\ c <= n
    BY <1>3, <1>6, <2>1, LiveFinite DEF FillersCounted, Live
  <2>3. Cardinality(Live \cup {n + 1}) = c + 1
    BY <1>12, <2>2 DEF Counting, ElementCount
  <2>4. n <= MaxBlock + k
    BY <1>3, <1>5, <1>15 DEF Sessions
  <2>5. c + 1 < UsizeRange /\ UsizeRange \in Nat
    <3>1. Opened \in Int
      <4>1. sessions \in 0 .. MaxSessions
        BY DEF TypeOK
      <4>2. QED  BY <4>1 DEF Opened
    <3>2. QED  BY <1>15, <2>2, <2>4, <3>1, BlockProcessorAssumption
  <2>6. (c + 1) % UsizeRange = c + 1
    BY <2>2, <2>5, SmallMod
  <2>7. QED  BY <1>5, <1>10, <2>1, <2>3, <2>6
<1>17. ServedInv'
  <2>1. \A t \in DOMAIN gaps \ abandoned : \E f \in Live : fillers[f].to = t
    BY <1>5, <1>6 DEF ServedInv
  <2>2. \A f \in Live : f \in Live' /\ fillers'[f].to = fillers[f].to
    BY <1>4, <1>10, <1>11
  <2>3. n + 1 \in Live' /\ fillers'[n + 1].to = sink
    BY <1>4, <1>10
  <2>4. ASSUME NEW t \in DOMAIN gaps' \ abandoned PROVE \E f \in Live' : fillers'[f].to = t
    <3>1. t \in DOMAIN gaps \/ t = sink
      BY <1>13
    <3>2. QED  BY <2>1, <2>2, <2>3, <2>4, <3>1
  <2>5. QED  BY <1>5, <2>4 DEF ServedInv
<1>18. FillInv'
  <2> SUFFICES ASSUME ~overlap, sink \notin DOMAIN gaps
               PROVE  /\ \A f, g \in Live' : fillers'[f].to = fillers'[g].to => f = g
                      /\ \A f \in Live' : fillers'[f].to \in DOMAIN gaps' /\ \E s \in Blocks : Filled(f, s)'
    BY <1>5 DEF FillInv
  <2>1. /\ \A f, g \in Live : fillers[f].to = fillers[g].to => f = g
        /\ \A f \in Live : fillers[f].to \in DOMAIN gaps /\ \E s \in Blocks : Filled(f, s)
    BY <1>6 DEF FillInv
  <2>2. \A f \in Live' : f \in Live \/ f = n + 1
    BY <1>10
  <2>3. \A f \in Live : fillers'[f].to = fillers[f].to /\ fillers'[f].from = fillers[f].from /\ f # n + 1
    BY <1>4, <1>11, <1>12
  <2>4. ASSUME NEW f \in Live', NEW g \in Live', fillers'[f].to = fillers'[g].to PROVE f = g
    <3>1. \A x \in Live : fillers'[x].to # fillers'[n + 1].to
      BY <1>4, <2>1, <2>3
    <3>2. (f \in Live /\ g \in Live) \/ (f = n + 1 /\ g = n + 1)
      BY <2>2, <2>4, <3>1
    <3>3. QED  BY <2>1, <2>3, <2>4, <3>2
  <2>5. \A f \in Live' : fillers'[f].to \in DOMAIN gaps'
    BY <1>4, <1>13, <2>1, <2>2, <2>3
  <2>6. \A b, f, i : Fetched(b, f, i) => Fetched(b, f, i)'
    BY <1>5 DEF Fetched, Batched
  <2>7. ASSUME NEW f \in Live, NEW s \in Blocks, Filled(f, s) PROVE Filled(f, s)'
    <3>1. s <= gaps'[fillers'[f].to]
      BY <1>13, <2>1, <2>3, <2>7 DEF Filled
    <3>2. f \in Active' =>
            /\ s <= fillers'[f].from
            /\ \A b \in s .. fillers'[f].from - 1 : Fetched(b, f, Len(results) + 1)'
      BY <1>5, <1>9, <2>3, <2>6, <2>7 DEF Filled
    <3>3. \A i \in DOMAIN results : results[i].id = f /\ results[i].kind \in {"Update", "Finished"} =>
            /\ s <= results[i].lo
            /\ \A b \in s .. results[i].lo - 1 : Fetched(b, f, i)'
            /\ results[i].kind = "Finished" => results[i].to <= results[i].hi
      BY <2>6, <2>7 DEF Filled
    <3>4. ~Batched'
      BY <1>5 DEF Batched
    <3>5. QED  BY <1>5, <3>1, <3>2, <3>3, <3>4 DEF Filled
  <2>8. Filled(n + 1, from)'
    <3>1. from <= from /\ from .. from - 1 = {}
      BY <1>4, BlockProcessorAssumption DEF Blocks
    <3>2. \A i \in DOMAIN results : results[i].id # n + 1
      BY <1>6, <1>12 DEF ReportInv
    <3>3. ~Batched'
      BY <1>5 DEF Batched
    <3>4. QED  BY <1>4, <1>5, <1>13, <3>1, <3>2, <3>3 DEF Filled
  <2>9. \A f \in Live' : \E s \in Blocks : Filled(f, s)'
    BY <1>4, <2>1, <2>2, <2>7, <2>8
  <2>10. QED  BY <2>4, <2>5, <2>9
<1>19. SessionInv'
  <2>1. ~twins => n + 1 <= MaxBlock + (k + 1)
    BY <1>3, <1>5, <1>15, BlockProcessorAssumption DEF Sessions
  <2>2. k + 1 >= 1 /\ has_first_connect' /\ twins' = twins /\ Len(fillers') = n + 1
    <3>1. has_first_connect' /\ twins' = twins
      BY <1>5, Zenon
    <3>2. Len(fillers') = n + 1
      BY <1>4
    <3>3. QED  BY <3>1, <3>2
  <2>3. k + 1 <= Opened' /\ \E h : Numbers(inbox', h, k + 1, Opened')
    BY <1>15
  <2>4. Sessions(k + 1)'
    BY <2>1, <2>2, <2>3 DEF Sessions
  <2>5. k + 1 \in Nat
    BY <1>15
  <2>6. QED  BY <2>4, <2>5 DEF SessionInv
<1>20. QED  BY <1>14, <1>16, <1>17, <1>18, <1>19 DEF Filling

\* The first connection: all recorded gaps get their fillers, and the map counts them.
LEMMA FirstConnecting ==
  ASSUME Counting, TypeOK, TypeOK', Filling, SessionInv, FirstConnected
  PROVE  Filling' /\ SessionInv'
<1>1. PICK sink : sink = Head(inbox).block
  OBVIOUS
<1>2. /\ Take("Connected") /\ work = Idle /\ ~has_first_connect /\ has_first_connect'
      /\ UNCHANGED <<link, sessions, results, headers, work>>
  BY DEF FirstConnected, Take, node
<1>3. sink \in Blocks
  BY <1>1, <1>2, HeadTypes DEF Take
<1>4. /\ \A f \in DOMAIN fillers' : fillers'[f].pc = "check"
      /\ gaps_filling_in_progress' = Cardinality(DOMAIN gaps_fillers')
      /\ \A t \in DOMAIN gaps' : \E f \in DOMAIN fillers' : fillers'[f].to = t
      /\ \A f \in DOMAIN fillers' : fillers'[f].to \in DOMAIN gaps'
      /\ ~overlap' \/ ~twins' =>
           /\ \A f, g \in DOMAIN fillers' : fillers'[f].to = fillers'[g].to => f = g
           /\ \A f \in DOMAIN fillers' : fillers'[f].from = gaps'[fillers'[f].to]
           /\ DOMAIN gaps_fillers' = {fillers'[f].to : f \in DOMAIN fillers'}
  BY <1>1, <1>3, FirstEffect
<1>5. PICK k \in Nat :
        /\ Sessions(k) /\ k + 1 <= Opened /\ Opened <= MaxSessions /\ Opened' = Opened
        /\ \E h : Numbers(inbox', h, k + 1, Opened)
  BY <1>2, SessionHead
<1>6. fillers = << >> /\ DOMAIN fillers = {}
  BY <1>2, <1>5 DEF Sessions
<1>7. DOMAIN results = {} /\ ~Batched /\ ~Batched'
  BY <1>2, <1>6 DEF Filling, ReportInv, Batched
<1>8. Active' = DOMAIN fillers' /\ Live' = DOMAIN fillers'
  <2>1. Active' = DOMAIN fillers'
    BY <1>4 DEF Active
  <2>2. \A f : ~Ended(f)'
    BY <1>2, <1>7 DEF Ended
  <2>3. QED  BY <2>1, <2>2, LiveOf
<1>9. PICK n \in Nat : DOMAIN fillers' = 1 .. n /\ Len(fillers') = n
  <2>1. fillers' \in Seq(Fillers)
    BY DEF TypeOK
  <2>2. QED  BY <2>1
<1>10. ReportInv'
  BY <1>2, <1>7 DEF ReportInv
<1>11. \A f \in DOMAIN fillers' : fillers'[f].to \in Blocks /\ gaps'[fillers'[f].to] \in Blocks
  <2>1. DOMAIN gaps' \subseteq Blocks /\ \A t \in DOMAIN gaps' : gaps'[t] \in Blocks
    BY DEF TypeOK
  <2>2. QED  BY <1>4, <2>1
<1>12. ASSUME ~twins'
       PROVE  gaps_filling_in_progress' = n /\ Cardinality(1 .. n) = n /\ n <= MaxBlock + 1
  <2>1. PICK T : T = DOMAIN gaps_fillers'
    OBVIOUS
  <2>2. PICK j : j = [f \in 1 .. n |-> fillers'[f].to]
    OBVIOUS
  <2>3. T = {fillers'[f].to : f \in 1 .. n} /\ \A f, g \in 1 .. n : fillers'[f].to = fillers'[g].to => f = g
    BY <1>4, <1>9, <1>12, <2>1
  <2>4. /\ j \in [1 .. n -> T] /\ \A f, g \in 1 .. n : j[f] = j[g] => f = g
        /\ \A t \in T : \E f \in 1 .. n : j[f] = t
    BY <2>2, <2>3
  <2>5. T \subseteq Blocks
    BY <2>1 DEF TypeOK
  <2>6. IsFiniteSet(T) /\ Cardinality(T) <= MaxBlock + 1
    BY <2>5, FiniteBlocks
  <2>7. Cardinality(T) = n
    BY <2>4, <2>6 DEF Counting, ListCount
  <2>8. IsFiniteSet(1 .. n) /\ Cardinality(1 .. n) = n
    <3>1. 1 \in Int /\ n \in Int
      OBVIOUS
    <3>2. IsFiniteSet(1 .. n) /\ Cardinality(1 .. n) = IF 1 > n THEN 0 ELSE n - 1 + 1
      BY <3>1 DEF Counting, RangeCount
    <3>3. QED  BY <3>2
  <2>9. QED  BY <1>4, <2>1, <2>6, <2>7, <2>8
<1>13. FillersCounted'
  BY <1>8, <1>9, <1>12 DEF FillersCounted, Live
<1>14. ServedInv'
  BY <1>4, <1>8 DEF ServedInv
<1>15. FillInv'
  <2> SUFFICES ASSUME ~overlap' PROVE \A f \in Live' : \E s \in Blocks : Filled(f, s)'
    BY <1>4, <1>8 DEF FillInv
  <2> TAKE f \in Live'
  <2>1. PICK s \in Blocks : s = gaps'[fillers'[f].to] /\ s = fillers'[f].from
    BY <1>4, <1>8, <1>11
  <2>2. s <= s /\ s .. s - 1 = {}
    BY BlockProcessorAssumption DEF Blocks
  <2>3. Filled(f, s)'
    BY <1>2, <1>7, <2>1, <2>2 DEF Filled
  <2>4. QED  BY <2>3
<1>16. SessionInv'
  <2>1. ~twins' => n <= MaxBlock + (k + 1)
    BY <1>12, BlockProcessorAssumption
  <2>2. Sessions(k + 1)'
    BY <1>2, <1>5, <1>9, <2>1 DEF Sessions
  <2>3. QED  BY <2>2 DEF SessionInv
<1>17. QED  BY <1>10, <1>13, <1>14, <1>15, <1>16 DEF Filling

-----------------------------------------------------------------------------
(* Every step keeps the invariant.                                          *)

LEMMA InitFlow == ASSUME Counting PROVE Init => FlowInv
<1> SUFFICES ASSUME Init PROVE FlowInv
  OBVIOUS
<1> USE BlockProcessorAssumption
<1>1. /\ 0 \in Blocks /\ DOMAIN NoGaps = {}
      /\ DOMAIN inbox = {} /\ DOMAIN results = {} /\ DOMAIN rpc = {} /\ DOMAIN fillers = {}
  BY DEF Init, Blocks, NoGaps
<1>2. TypeOK
  <2>1. 0 \in 0 .. UsizeRange - 1
    OBVIOUS
  <2>2. /\ tip \in Blocks /\ link \in {"down", "registered", "up"} /\ sessions \in 0 .. MaxSessions
        /\ shutting_down \in BOOLEAN /\ rpc \in Seq(Blocks)
        /\ inbox \in Seq(Notifications) /\ results \in Seq(Progress) /\ fillers \in Seq(Fillers)
    BY <1>1 DEF Init
  <2>3. /\ restarts \in 0 .. MaxRestarts /\ headers \subseteq Blocks /\ stored \subseteq Blocks
        /\ cursor \in Blocks \cup {None} /\ last_processed_block \in Blocks \cup {None}
        /\ DOMAIN gaps = {} /\ bp \in {"run", "stopped"}
    BY <1>1 DEF Init
  <2>4. /\ {shutting_down, has_first_connect, is_shutdown, unannounced, skipped, overlap, twins} \subseteq BOOLEAN
        /\ DOMAIN gaps_fillers = {} /\ gaps_filling_in_progress \in 0 .. UsizeRange - 1
    BY <1>1, <2>1 DEF Init
  <2>5. /\ work \in Works /\ abandoned \subseteq Blocks /\ known \subseteq Blocks /\ lost \subseteq Blocks
        /\ pushes \in [Blocks -> Nat]
    BY <1>1 DEF Init, Works
  <2>6. QED  BY <2>2, <2>3, <2>4, <2>5, ZenonT(20) DEF TypeOK
<1>3. ~Batched /\ work = Idle /\ Active = {} /\ Reported = {} /\ Live = {}
  BY <1>1 DEF Init, Batched, Active, Reported, Live
<1>4. SessionInv
  <2>1. Opened = 0 /\ Sessions(0)
    <3>1. Opened = 0
      BY DEF Init, Opened
    <3>2. Numbers(inbox, [k \in {} |-> 0], 0, 0)
      BY <1>1 DEF Numbers, Announced
    <3>3. QED  BY <3>1, <3>2 DEF Sessions, Init
  <2>2. QED  BY <2>1 DEF SessionInv
<1>5. ReportInv
  BY <1>1, <1>3 DEF ReportInv
<1>6. FillersCounted
  BY <1>3 DEF Counting, EmptyCount, FillersCounted, Live, Init
<1>7. ServedInv /\ FillInv
  BY <1>3 DEF ServedInv, FillInv, Init
<1>8. CursorInv /\ StreamInv /\ NodeInv
  BY <1>1, <1>3 DEF CursorInv, StreamInv, NodeInv, Init
<1>9. QED  BY <1>2, <1>4, <1>5, <1>6, <1>7, <1>8 DEF FlowInv

\* The steps of the node and of the data source.
LEMMA FlowNode == ASSUME FlowInv, NodeStep \/ DataSourceStep PROVE FlowInv'
<1>1. TypeOK /\ Filling /\ SessionInv /\ Covering
  BY DEF FlowInv, Filling, Covering
<1>2. TypeOK'
  BY <1>1, TypeNode
<1>3. Filling' /\ SessionInv'
  BY <1>1, <1>2, FillingNode
<1>4. Covering'
  BY <1>1, CoverNewBlock, CoverForward, CoverSession DEF NodeStep, DataSourceStep
<1>5. QED  BY <1>2, <1>3, <1>4 DEF FlowInv, Filling, Covering

\* The steps of the fillers, and the block processor at rest.
LEMMA FlowFiller ==
  ASSUME FlowInv, (\E f \in DOMAIN fillers : FillerStep(f)) \/ UNCHANGED vars
  PROVE  FlowInv'
<1>1. TypeOK /\ Filling /\ SessionInv /\ Covering
  BY DEF FlowInv, Filling, Covering
<1>2. Covering'
  BY <1>1, CoverFillers
<1>3. CASE \E f \in DOMAIN fillers : FillerStep(f)
  <2>1. TypeOK' /\ Filling'
    BY <1>1, <1>3, TypeFiller, FillingFiller
  <2>2. SessionInv'
    BY <1>1, <1>3, <2>1, SessionRest
  <2>3. QED  BY <1>2, <2>1, <2>2 DEF FlowInv, Filling, Covering
<1>4. CASE UNCHANGED vars
  <2>1. TypeOK'
    BY <1>1, <1>4 DEF TypeOK, vars, node, db, locals, outputs, history
  <2>2. Filling' /\ SessionInv'
    BY <1>1, <1>4, <2>1, FillingBlock, SessionRest
  <2>3. QED  BY <1>2, <2>1, <2>2 DEF FlowInv, Filling, Covering
<1>5. QED  BY <1>3, <1>4

\* The block processor reads a message of the data source.
LEMMA FlowInbox == ASSUME Counting, FlowInv, TakeInbox PROVE FlowInv'
<1>1. TypeOK /\ Filling /\ SessionInv /\ Covering
  BY DEF FlowInv, Filling, Covering
<1>2. CASE FirstConnected
  <2>1. sessions >= 1
    <3>1. Take("Connected") /\ UNCHANGED <<link, sessions>>
      BY <1>2 DEF FirstConnected, node
    <3>2. PICK n \in Nat : n + 1 <= Opened
      BY <1>1, <3>1, SessionHead
    <3>3. sessions \in Int
      BY <1>1, OpenedInt
    <3>4. QED  BY <3>2, <3>3 DEF Opened
  <2>2. TypeOK'
    BY <1>1, <1>2, <2>1, TypeFirst
  <2>3. Filling' /\ SessionInv' /\ Covering'
    BY <1>1, <1>2, <2>2, FirstConnecting, CoverFirst
  <2>4. QED  BY <2>2, <2>3 DEF FlowInv, Filling, Covering
<1>3. CASE Reconnected
  <2>1. TypeOK'
    BY <1>1, <1>3, TypeReconnected
  <2>2. Filling' /\ SessionInv' /\ Covering'
    BY <1>1, <1>3, <2>1, Reconnecting, CoverReconnect
  <2>3. QED  BY <2>1, <2>2 DEF FlowInv, Filling, Covering
<1>4. CASE ReconnectedIdle \/ Disconnected \/ ShutdownReceived \/ BlockReceived
  <2>1. TypeOK'
    BY <1>1, <1>4, TypeMessages
  <2>2. Filling' /\ SessionInv'
    BY <1>1, <1>4, <2>1, FillingMessages
  <2>3. Covering'
    BY <1>1, <1>4, CoverIdle, CoverReceived
  <2>4. QED  BY <2>1, <2>2, <2>3 DEF FlowInv, Filling, Covering
<1>5. QED  BY <1>2, <1>3, <1>4 DEF TakeInbox

\* It reads a message of a filler, or works on the block in hand, whose header is written
\* before the commit that moves a gap or the cursor past it.
LEMMA FlowWork == ASSUME Counting, FlowInv, IInv, TakeResult \/ BlockStep PROVE FlowInv'
<1>1. TypeOK /\ Filling /\ SessionInv /\ Covering /\ ReportInv
  BY DEF FlowInv, Filling, Covering
<1>2. TypeOK'
  BY <1>1, TypeMessages, TypeBlocks DEF TakeResult
<1>3. SessionInv'
  BY <1>1, <1>2, SessionRest
<1>4. CASE TakeResult
  <2>1. Filling'
    BY <1>1, <1>4, FillingBatch, FillingStopped DEF TakeResult
  <2>2. Covering'
    BY <1>1, <1>4, CoverFillers
  <2>3. QED  BY <1>2, <1>3, <2>1, <2>2 DEF FlowInv, Filling, Covering
<1>5. CASE HandleBlock \/ CommitConflict
  <2>1. Filling' /\ Covering'
    BY <1>1, <1>5, FillingBlock, CoverFillers
  <2>2. QED  BY <1>2, <1>3, <2>1 DEF FlowInv, Filling, Covering
<1>6. CASE CommitNotification \/ CommitGapBlock \/ CommitGapEnd
  <2>1. work # Idle /\ work.phase = "commit"
    BY <1>6 DEF CommitNotification, CommitGapBlock, CommitGapEnd, CommitOk
  <2>2. work.lo \in headers
    BY <2>1 DEF IInv, InHand
  <2>3. Filling'
    BY <1>1, <1>6, <2>2, FillingBlock, FillingGapBlock, FillingGapEnd
  <2>4. Covering'
    BY <1>1, <1>6, <2>2, CoverNotification, CoverGap
  <2>5. QED  BY <1>2, <1>3, <2>3, <2>4 DEF FlowInv, Filling, Covering
<1>7. QED  BY <1>4, <1>5, <1>6 DEF BlockStep

LEMMA FlowRestart == ASSUME Counting, FlowInv, Restart PROVE FlowInv'
<1>1. TypeOK /\ Filling /\ SessionInv /\ Covering
  BY DEF FlowInv, Filling, Covering
<1>2. TypeOK' /\ Filling' /\ SessionInv' /\ Covering'
  BY <1>1, TypeRestart, FillingRestart, SessionRestart, CoverRestart
<1>3. QED  BY <1>2 DEF FlowInv, Filling, Covering

LEMMA FlowNext == ASSUME Counting, FlowInv, IInv, [Next]_vars PROVE FlowInv'
<1>1. CASE Rest
  <2>1. UNCHANGED vars
    BY <1>1 DEF Rest
  <2>2. QED  BY <2>1, FlowFiller
<1>2. CASE NodeStep \/ DataSourceStep
  BY <1>2, FlowNode
<1>3. CASE (\E f \in DOMAIN fillers : FillerStep(f)) \/ UNCHANGED vars
  BY <1>3, FlowFiller
<1>4. CASE TakeInbox
  BY <1>4, FlowInbox
<1>5. CASE TakeResult \/ BlockStep
  BY <1>5, FlowWork
<1>6. CASE Restart
  BY <1>6, FlowRestart
<1>7. QED  BY <1>1, <1>2, <1>3, <1>4, <1>5, <1>6 DEF Next
-----------------------------------------------------------------------------
(* Conclusions.                                                             *)

\* The library's facts about finite sets are needed only here.  Named, they stay out of the
\* way of the proofs above; its two notions are those of FiniteSets.
FS == INSTANCE FiniteSetTheorems

LEMMA SameFinite == \A S : FS!IsFiniteSet(S) <=> IsFiniteSet(S)
BY DEF FS!IsFiniteSet, IsFiniteSet

LEMMA SameCardinality == \A S : FS!Cardinality(S) = Cardinality(S)
BY DEF FS!Cardinality, Cardinality

LEMMA CountingHolds == Counting
<1>1. EmptyCount
  BY FS!FS_EmptySet, SameCardinality DEF EmptyCount
<1>2. RangeCount
  BY FS!FS_Interval, SameFinite, SameCardinality DEF RangeCount
<1>3. SubsetCount
  BY FS!FS_CardinalityType, FS!FS_Subset, SameFinite, SameCardinality DEF SubsetCount
<1>4. ElementCount
  BY FS!FS_RemoveElement, FS!FS_AddElement, SameFinite, SameCardinality DEF ElementCount
<1>5. Listable
  <2> SUFFICES ASSUME NEW S, IsFiniteSet(S)
               PROVE  \E f \in [1 .. Cardinality(S) -> S] :
                        \A x \in S : \E i \in DOMAIN f : f[i] = x
    BY DEF Listable
  <2>1. FS!ExistsBijection(1 .. Cardinality(S), S)
    BY FS!FS_CardinalityType, SameFinite, SameCardinality
  <2>2. QED  BY <2>1 DEF FS!ExistsBijection, FS!Bijection, FS!Surjection
<1>6. ListCount
  <2> SUFFICES ASSUME NEW S, IsFiniteSet(S), NEW n \in Nat, NEW f \in [1 .. n -> S],
                      \A i, j \in 1 .. n : f[i] = f[j] => i = j,
                      \A x \in S : \E i \in 1 .. n : f[i] = x
               PROVE  Cardinality(S) = n
    BY DEF ListCount
  <2>1. f \in FS!Bijection(1 .. n, S)
    BY DEF FS!Bijection, FS!Injection, FS!Surjection, FS!IsInjective
  <2>2. FS!ExistsBijection(1 .. n, S)
    BY <2>1 DEF FS!ExistsBijection
  <2>3. QED  BY <2>2, FS!FS_CountingElements, SameFinite, SameCardinality
<1>7. QED  BY <1>1, <1>2, <1>3, <1>4, <1>5, <1>6 DEF Counting

LEMMA FlowHolds == Spec => []FlowInv
<1>1. FlowInv /\ IInv /\ [Next]_vars => FlowInv'
  BY CountingHolds, FlowNext
<1>2. Init => FlowInv
  BY CountingHolds, InitFlow
<1>3. QED  BY <1>1, <1>2, IInvHolds, PTL DEF Spec

\* No block is forgotten: whatever lies at or below the cursor is stored or in a recorded
\* gap, through crashes, lost connections, conflicts and interrupted fillers, unless one of
\* the three named situations happened (connections: block_processor.rs 87-142; commits:
\* 173-312).
THEOREM NoBlockForgotten == Spec => []CoveredOtherwise
<1>1. FlowInv => CoveredOtherwise
  BY DEF FlowInv, CoveredOtherwise, Covered, CursorInv, Lossless, Safe
<1>2. QED  BY <1>1, FlowHolds, PTL

\* gaps_filling_in_progress, which decides whether the block processor may return
\* (block_processor.rs 314-317), counts the fillers that run or whose last message is unread:
\* 87-142 start them, 195-209 end them.
THEOREM FillersAreCounted == Spec => []FillersCounted
<1>1. FlowInv => FillersCounted
  BY DEF FlowInv
<1>2. QED  BY <1>1, FlowHolds, PTL

\* Every recorded gap has its filler, unless that one stopped early in this process
\* (block_processor.rs 87-142, 195-209, 279-312).
THEOREM EveryGapServed == Spec => []GapServed
<1>1. FlowInv => GapServed
  BY DEF FlowInv, ServedInv, GapServed, Live
<1>2. QED  BY <1>1, FlowHolds, PTL
=============================================================================
