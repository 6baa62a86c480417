------------------------- MODULE GiftClaims_proofs -------------------------
(***************************************************************************)
(* Proofs about GiftClaims, for any set of requests: a payout's slot is    *)
(* held in memory and on disk, and no wallet or device is paid twice, with *)
(* the exceptions the history variables name.                              *)
(***************************************************************************)
EXTENDS GiftClaims, TLAPS

\* Most steps need no arithmetic: Zenon is tried before the SMT solver.
USE ZenonT(2), SMTT(15)

Reservation == [status |-> "Reserved", tx |-> FALSE]

\* Handlers that have not inserted a record, and handlers whose record holds a slot.
Early == {"new", "query", "reject", "reserve"}
Late == {"payout", "submit", "update", "lockfail", "complete"}

\* Claims that are paid or may yet be paid, as far as the service was told.
Held == (running \cup paid) \ unconfirmed

\* The types that the argument needs.
Shape ==
  /\ claims \in [Claims -> Records] /\ file \in [Claims -> Records]
  /\ snap \in [Claims -> [Claims -> Records]]
  /\ DOMAIN pc = Claims /\ DOMAIN next = Claims
  /\ running \subseteq Claims /\ paid \subseteq Claims
  /\ restarts \in Nat

\* In one copy of the map no two rivals hold a slot.
Unique(m) == \A p, q \in Claims : Rivals(p, q) => ~(ConsumesSlot(m[p]) /\ ConsumesSlot(m[q]))
\* In one copy of the map a claim is absent or holds its slot.
Kept(m, r) == m[r] # NoRecord => ConsumesSlot(m[r])

Copies ==
  /\ Unique(claims) /\ Unique(file) /\ \A q \in Claims : Unique(snap[q])
  /\ \A r \in Held : Kept(claims, r) /\ Kept(file, r) /\ \A q \in Claims : Kept(snap[q], r)

Present ==
  \A r \in Held :
    /\ r \notin dropped => file[r] # NoRecord
    /\ r \notin dropped \/ restarts = 0 => claims[r] # NoRecord

\* What is known of a claim from where its handler is.
Untold(r) ==
  /\ r \notin running \cup paid
  /\ claims[r] = NoRecord /\ file[r] = NoRecord /\ \A q \in Claims : snap[q][r] = NoRecord
Reserving(r) ==
  /\ r \notin running \cup paid
  /\ claims[r] = Reservation /\ snap[r][r] = Reservation
  /\ \A q \in Claims : snap[q][r] \in {NoRecord, Reservation}
Handlers ==
  \A r \in Claims :
    /\ pc[r] \in Early => Untold(r)
    /\ pc[r] = "write" /\ next[r] = "payout" => Reserving(r)
    /\ pc[r] \in Late \/ (pc[r] = "write" /\ next[r] \in Late) => ConsumesSlot(claims[r])
    /\ pc[r] = "payout" => r \notin paid
    /\ pc[r] = "fail" => r \notin Held
    /\ pc[r] = "write" => next[r] \in Late \cup {"done"}

IInv == Shape /\ Copies /\ Present /\ Handlers

-----------------------------------------------------------------------------

\* Which records hold a slot (claim_consumes_unique_slot).
LEMMA SlotFacts ==
  /\ ~ConsumesSlot(NoRecord) /\ ConsumesSlot(Reservation) /\ Reservation # NoRecord
  /\ \A st \in Statuses : ConsumesSlot([status |-> st, tx |-> TRUE])
  /\ ~ConsumesSlot([status |-> "Rejected", tx |-> FALSE])
  /\ ~ConsumesSlot([status |-> "Failed", tx |-> FALSE])
BY DEF ConsumesSlot, NoRecord, Reservation

LEMMA RecordFacts ==
  /\ NoRecord \in Records /\ Reservation \in Records
  /\ \A st \in Statuses, tx \in BOOLEAN : [status |-> st, tx |-> tx] \in Records
BY DEF Records, Statuses, NoRecord, Reservation

LEMMA InitIInv == Init => IInv
<1> SUFFICES ASSUME Init PROVE IInv
  OBVIOUS
<1>1. Shape
  BY RecordFacts DEF Init, Shape, NoClaims
<1>2. Held = {}
  BY DEF Init, Held
<1>3. Copies
  BY <1>2, SlotFacts DEF Init, Copies, Unique, NoClaims
<1>4. Present
  BY <1>2 DEF Present
<1>5. Handlers
  BY DEF Init, Handlers, Untold, NoClaims, Early, Late
<1> QED
  BY <1>1, <1>3, <1>4, <1>5 DEF IInv


\* Nothing the invariant speaks of changes.
LEMMA Unchanged ==
  ASSUME IInv,
         UNCHANGED <<pc, claims, snap, next, file, dropped, running, paid, unconfirmed, restarts>>
  PROVE  IInv'
BY ZenonT(30) DEF IInv, Shape, Copies, Present, Handlers, Held, Unique, Kept, Untold, Reserving

\* What is said of the copies stays true when claims stop being held.
LEMMA FewerHeld ==
  ASSUME IInv, Held' \subseteq Held, UNCHANGED <<claims, snap, file, dropped, restarts>>
  PROVE  Copies' /\ Present'
BY DEF IInv, Copies, Present, Unique, Kept

\* A handler moves on without touching records, file or payouts.
Moves(r, label) ==
  /\ pc' = [pc EXCEPT ![r] = label]
  /\ UNCHANGED <<claims, snap, next, file, dropped, running, paid, unconfirmed, restarts>>

LEMMA MovedOn ==
  ASSUME IInv, NEW r \in Claims, NEW label,
         Moves(r, label), label # "payout",
         \/ label = "done"
         \/ pc[r] \in Early /\ label \in Early
         \/ pc[r] \in Late /\ label \in Late
  PROVE  IInv'
<1>1. Shape' /\ Copies' /\ Present'
  BY FewerHeld DEF IInv, Moves, Shape, Held
<1>2. Handlers'
  <2> SUFFICES ASSUME NEW x \in Claims
               PROVE  /\ pc'[x] \in Early => Untold(x)
                      /\ pc'[x] = "write" /\ next[x] = "payout" => Reserving(x)
                      /\ pc'[x] \in Late \/ (pc'[x] = "write" /\ next[x] \in Late) => ConsumesSlot(claims[x])
                      /\ pc'[x] = "payout" => x \notin paid
                      /\ pc'[x] = "fail" => x \notin Held
                      /\ pc'[x] = "write" => next[x] \in Late \cup {"done"}
    BY ZenonT(30) DEF Moves, Handlers, Untold, Reserving, Held
  <2>1. CASE x # r
    BY <2>1 DEF IInv, Handlers, Moves, Shape
  <2>2. CASE x = r
    <3>1. pc'[x] = label
      BY <2>2 DEF Moves, IInv, Shape
    <3> QED
      BY <2>2, <3>1 DEF IInv, Handlers, Early, Late
  <2> QED
    BY <2>1, <2>2
<1> QED
  BY <1>1, <1>2 DEF IInv

-----------------------------------------------------------------------------
\* Inserting a record and copying the map (persist_claim, reserve_claim).
LEMMA Inserted ==
  ASSUME IInv, NEW r \in Claims, NEW status \in Statuses, NEW tx \in BOOLEAN,
         NEW then \in Late \cup {"done"},
         Insert(r, status, tx, then),
         ConsumesSlot([status |-> status, tx |-> tx]) =>
           \A q \in Claims : Rivals(q, r) => ~ConsumesSlot(claims[q]),
         r \in Held \/ then \in Late => ConsumesSlot([status |-> status, tx |-> tx]),
         then = "payout" => Untold(r) /\ status = "Reserved" /\ tx = FALSE
  PROVE  IInv'
<1> DEFINE rec == [status |-> status, tx |-> tx]
<1>1. rec \in Records
  BY RecordFacts
<1>2. ConsumesSlot(rec) => \A q \in Claims : Rivals(q, r) => ~ConsumesSlot(claims[q])
  OBVIOUS
<1>3. r \in Held \/ then \in Late => ConsumesSlot(rec)
  OBVIOUS
<1>4. then = "payout" => Untold(r) /\ rec = Reservation
  BY DEF Reservation
<1>5. claims' = [claims EXCEPT ![r] = rec]
  BY DEF Insert
<1> HIDE DEF rec
<1>6. /\ snap' = [snap EXCEPT ![r] = claims'] /\ next' = [next EXCEPT ![r] = then]
      /\ pc' = [pc EXCEPT ![r] = "write"]
      /\ UNCHANGED <<file, dropped, running, paid, unconfirmed, restarts>>
  BY DEF Insert, GoTo, disk, outside
<1>7. Held' = Held
  BY <1>6 DEF Held
<1>8. Shape'
  BY <1>1, <1>5, <1>6 DEF IInv, Shape
<1>9. /\ claims'[r] = rec /\ \A x \in Claims \ {r} : claims'[x] = claims[x]
      /\ snap'[r] = claims' /\ \A x \in Claims \ {r} : snap'[x] = snap[x]
      /\ pc'[r] = "write" /\ \A x \in Claims \ {r} : pc'[x] = pc[x]
      /\ next'[r] = then /\ \A x \in Claims \ {r} : next'[x] = next[x]
  BY <1>5, <1>6 DEF IInv, Shape
<1>10. Copies'
  <2>1. Unique(claims')
    BY <1>2, <1>9 DEF IInv, Copies, Unique, Rivals
  <2>2. \A q \in Claims : Unique(snap'[q])
    BY <2>1, <1>9 DEF IInv, Copies
  <2>3. \A x \in Held : Kept(claims', x)
    BY <1>3, <1>9, ZenonT(30) DEF IInv, Copies, Kept, Held, Shape
  <2>4. \A x \in Held : \A q \in Claims : Kept(snap'[q], x)
    BY <2>3, <1>9 DEF IInv, Copies
  <2>5. Unique(file') /\ \A x \in Held : Kept(file', x)
    BY <1>6 DEF IInv, Copies
  <2> QED
    BY <2>1, <2>2, <2>3, <2>4, <2>5, <1>7 DEF Copies, Unique, Kept
<1>11. Present'
  <2>1. \A x \in Held : claims[x] # NoRecord => claims'[x] # NoRecord
    BY <1>3, <1>9, SlotFacts, ZenonT(30) DEF Held, IInv, Shape
  <2> QED
    BY <2>1, <1>6, <1>7 DEF IInv, Present
<1>12. Handlers'
  <2> SUFFICES ASSUME NEW x \in Claims
               PROVE  /\ pc'[x] \in Early => Untold(x)'
                      /\ pc'[x] = "write" /\ next'[x] = "payout" => Reserving(x)'
                      /\ pc'[x] \in Late \/ (pc'[x] = "write" /\ next'[x] \in Late) => ConsumesSlot(claims'[x])
                      /\ pc'[x] = "payout" => x \notin paid'
                      /\ pc'[x] = "fail" => x \notin Held'
                      /\ pc'[x] = "write" => next'[x] \in Late \cup {"done"}
    BY DEF Handlers
  <2>1. CASE x # r
    <3>1. pc[x] \in Early => Untold(x)'
      BY <2>1, <1>6, <1>9 DEF IInv, Handlers, Untold
    <3>2. pc[x] = "write" /\ next[x] = "payout" => Reserving(x)'
      BY <2>1, <1>6, <1>9 DEF IInv, Handlers, Reserving
    <3> QED
      BY <2>1, <3>1, <3>2, <1>6, <1>7, <1>9, ZenonT(30) DEF IInv, Handlers
  <2>2. CASE x = r
    <3>1. then = "payout" => Reserving(r)'
      BY <1>4, <1>6, <1>9, ZenonT(30) DEF Untold, Reserving
    <3> QED
      BY <2>2, <3>1, <1>3, <1>9 DEF Early, Late
  <2> QED
    BY <2>1, <2>2
<1> QED
  BY <1>8, <1>10, <1>11, <1>12 DEF IInv

\* Each handler's call of persist_claim meets the conditions of Inserted.
LEMMA RecordSteps ==
  ASSUME IInv, NEW r \in Claims,
         \/ ReserveClaim(r) \/ RecordRejected(r) \/ RecordFailed(r)
         \/ RecordSubmitted(r) \/ RecordLockFailed(r) \/ RecordCompleted(r)
  PROVE  IInv'
<1>1. ASSUME pc[r] \in Early PROVE Untold(r) /\ r \notin Held
  BY <1>1 DEF IInv, Handlers, Untold, Held
<1>2. ASSUME pc[r] \in Late
      PROVE  \A q \in Claims : Rivals(q, r) => ~ConsumesSlot(claims[q])
  <2>1. ConsumesSlot(claims[r]) /\ Unique(claims)
    BY <1>2 DEF IInv, Handlers, Copies
  <2> QED
    BY <2>1 DEF Unique
<1>3. CASE ReserveClaim(r)
  <2>1. \A q \in Claims : Rivals(q, r) => ~ConsumesSlot(claims[q])
    BY <1>3 DEF ReserveClaim, Blocked, Rivals
  <2>2. Untold(r)
    BY <1>1, <1>3 DEF ReserveClaim, Early
  <2>3. ConsumesSlot([status |-> "Reserved", tx |-> FALSE])
    BY SlotFacts DEF Reservation
  <2>4. Insert(r, "Reserved", FALSE, "payout")
    BY <1>3 DEF ReserveClaim
  <2>5. "Reserved" \in Statuses /\ "payout" \in Late \cup {"done"} /\ FALSE \in BOOLEAN
    BY DEF Statuses, Late
  <2> QED
    BY <2>1, <2>2, <2>3, <2>4, <2>5, Inserted
<1>4. CASE RecordRejected(r)
  <2>1. r \notin Held
    BY <1>1, <1>4 DEF RecordRejected, Early
  <2>2. Insert(r, "Rejected", FALSE, "done")
    BY <1>4 DEF RecordRejected
  <2>3. "Rejected" \in Statuses /\ "done" \in Late \cup {"done"} /\ "done" \notin Late /\ FALSE \in BOOLEAN
    BY DEF Statuses, Late
  <2> QED
    BY <2>1, <2>2, <2>3, SlotFacts, Inserted
<1>5. CASE RecordFailed(r)
  <2>1. r \notin Held
    BY <1>5 DEF RecordFailed, IInv, Handlers
  <2>2. Insert(r, "Failed", FALSE, "done")
    BY <1>5 DEF RecordFailed
  <2>3. "Failed" \in Statuses /\ "done" \in Late \cup {"done"} /\ "done" \notin Late /\ FALSE \in BOOLEAN
    BY DEF Statuses, Late
  <2> QED
    BY <2>1, <2>2, <2>3, SlotFacts, Inserted
<1>6. ASSUME NEW status \in Statuses, NEW then \in Late \cup {"done"},
             pc[r] \in Late, then # "payout", Insert(r, status, TRUE, then)
      PROVE  IInv'
  <2>1. ConsumesSlot([status |-> status, tx |-> TRUE]) /\ TRUE \in BOOLEAN
    BY SlotFacts
  <2> QED
    BY <2>1, <1>2, <1>6, Inserted
<1>7. {"PayoutSubmitted", "Failed", "Completed"} \subseteq Statuses
      /\ {"update", "complete"} \subseteq Late /\ {"submit", "lockfail"} \subseteq Late
  BY DEF Statuses, Late
<1>8. CASE RecordSubmitted(r)
  <2> DEFINE then == IF r \in Apple THEN "update" ELSE "complete"
  <2>1. then \in Late \cup {"done"} /\ then # "payout"
    BY <1>7
  <2>2. Insert(r, "PayoutSubmitted", TRUE, then) /\ pc[r] \in Late
    BY <1>7, <1>8 DEF RecordSubmitted
  <2> HIDE DEF then
  <2> QED
    BY <2>1, <2>2, <1>6, <1>7
<1>9. CASE RecordLockFailed(r)
  BY <1>6, <1>7, <1>9 DEF RecordLockFailed
<1>10. CASE RecordCompleted(r)
  BY <1>6, <1>7, <1>10 DEF RecordCompleted
<1> QED
  BY <1>3, <1>4, <1>5, <1>8, <1>9, <1>10

-----------------------------------------------------------------------------
\* Writing the copy (persist_claims), after which a payout program may start.
LEMMA Written ==
  ASSUME IInv, NEW r \in Claims, WriteFile(r)
  PROVE  IInv'
<1> DEFINE starting == next[r] = "payout"
<1>1. /\ pc' = [pc EXCEPT ![r] = next[r]] /\ next' = [next EXCEPT ![r] = "done"]
      /\ file' = snap[r] /\ snap' = [snap EXCEPT ![r] = NoClaims]
      /\ running' = running \cup Starts(r)
      /\ dropped' = dropped \cup {q \in Claims : file[q] # NoRecord /\ snap[r][q] = NoRecord}
      /\ UNCHANGED <<claims, paid, unconfirmed, restarts>>
  BY DEF WriteFile, GoTo, Forget
<1>2. pc[r] = "write"
  BY DEF WriteFile
<1>3. /\ pc'[r] = next[r] /\ snap'[r] = NoClaims /\ next'[r] = "done"
      /\ \A x \in Claims \ {r} : pc'[x] = pc[x] /\ next'[x] = next[x] /\ snap'[x] = snap[x]
  BY <1>1 DEF IInv, Shape
<1>4. starting => Reserving(r)
  BY <1>2 DEF IInv, Handlers
<1>5. running' = IF starting THEN running \cup {r} ELSE running
  BY <1>1 DEF Starts
<1>6. \A x \in Held' : x \in Held \/ (x = r /\ starting)
  BY <1>1, <1>5 DEF Held
<1>7. NoClaims \in [Claims -> Records] /\ \A x \in Claims : NoClaims[x] = NoRecord
  BY RecordFacts DEF NoClaims
<1>8. Shape'
  BY <1>1, <1>5, <1>7 DEF IInv, Shape
<1>9. Copies'
  <2>1. \A q \in Claims : Unique(snap'[q])
    BY <1>3, <1>7, SlotFacts DEF IInv, Copies, Unique
  <2>2. Unique(claims') /\ Unique(file')
    BY <1>1 DEF IInv, Copies
  <2>3. \A x \in Held : Kept(claims', x) /\ Kept(file', x) /\ \A q \in Claims : Kept(snap'[q], x)
    <3> SUFFICES ASSUME NEW x \in Held
                 PROVE  Kept(claims', x) /\ Kept(file', x) /\ \A q \in Claims : Kept(snap'[q], x)
      OBVIOUS
    <3>1. x \in Claims
      BY DEF Held, IInv, Shape
    <3> QED
      BY <3>1, <1>1, <1>3, <1>7 DEF IInv, Copies, Kept
  <2>4. starting => Kept(claims', r) /\ Kept(file', r) /\ \A q \in Claims : Kept(snap'[q], r)
    BY <1>1, <1>3, <1>4, <1>7, SlotFacts DEF Reserving, Kept
  <2> QED
    BY <2>1, <2>2, <2>3, <2>4, <1>6 DEF Copies, Unique, Kept
<1>10. Present'
  <2> SUFFICES ASSUME NEW x \in Held'
               PROVE  /\ x \notin dropped' => file'[x] # NoRecord
                      /\ x \notin dropped' \/ restarts' = 0 => claims'[x] # NoRecord
    BY DEF Present
  <2>1. CASE x \in Held
    <3>1. x \in Claims
      BY <2>1 DEF Held, IInv, Shape
    <3> QED
      BY <2>1, <3>1, <1>1 DEF IInv, Present
  <2>2. CASE x = r /\ starting
    BY <2>2, <1>1, <1>4, SlotFacts DEF Reserving
  <2> QED
    BY <2>1, <2>2, <1>6
<1>11. Handlers'
  <2> SUFFICES ASSUME NEW x \in Claims
               PROVE  /\ pc'[x] \in Early => Untold(x)'
                      /\ pc'[x] = "write" /\ next'[x] = "payout" => Reserving(x)'
                      /\ pc'[x] \in Late \/ (pc'[x] = "write" /\ next'[x] \in Late) => ConsumesSlot(claims'[x])
                      /\ pc'[x] = "payout" => x \notin paid'
                      /\ pc'[x] = "fail" => x \notin Held'
                      /\ pc'[x] = "write" => next'[x] \in Late \cup {"done"}
    BY DEF Handlers
  <2>1. CASE x # r
    <3>1. pc[x] \in Early => Untold(x)'
      BY <2>1, <1>1, <1>3, <1>5, <1>7 DEF IInv, Handlers, Untold
    <3>2. pc[x] = "write" /\ next[x] = "payout" => Reserving(x)'
      BY <2>1, <1>1, <1>3, <1>5, <1>7 DEF IInv, Handlers, Reserving
    <3> QED
      BY <2>1, <3>1, <3>2, <1>1, <1>3, <1>6 DEF IInv, Handlers
  <2>2. CASE x = r
    <3>1. next[r] \in Late \cup {"done"} /\ (next[r] \in Late => ConsumesSlot(claims[r]))
      BY <1>2 DEF IInv, Handlers
    <3>2. starting => r \notin paid
      BY <1>4 DEF Reserving
    <3> QED
      BY <2>2, <3>1, <3>2, <1>1, <1>3 DEF Early, Late
  <2> QED
    BY <2>1, <2>2
<1> QED
  BY <1>8, <1>9, <1>10, <1>11 DEF IInv

\* The write fails: nothing is recorded and the handler ends.
LEMMA NotWritten ==
  ASSUME IInv, NEW r \in Claims, WriteFails(r)
  PROVE  IInv'
<1>1. /\ pc' = [pc EXCEPT ![r] = "done"] /\ next' = [next EXCEPT ![r] = "done"]
      /\ snap' = [snap EXCEPT ![r] = NoClaims]
      /\ UNCHANGED <<claims, file, dropped, running, paid, unconfirmed, restarts>>
  BY DEF WriteFails, GoTo, Forget, outside
<1>2. /\ pc'[r] = "done" /\ snap'[r] = NoClaims
      /\ \A x \in Claims \ {r} : pc'[x] = pc[x] /\ next'[x] = next[x] /\ snap'[x] = snap[x]
  BY <1>1 DEF IInv, Shape
<1>3. NoClaims \in [Claims -> Records] /\ \A x \in Claims : NoClaims[x] = NoRecord
  BY RecordFacts DEF NoClaims
<1>4. Shape'
  BY <1>1, <1>3 DEF IInv, Shape
<1>5. Held' = Held /\ Held \subseteq Claims
  BY <1>1 DEF Held, IInv, Shape
<1>6. Copies'
  <2>1. \A q \in Claims : Unique(snap'[q])
    <3>1. Unique(NoClaims)
      BY <1>3, SlotFacts DEF Unique
    <3>2. \A q \in Claims : Unique(snap[q])
      BY DEF IInv, Copies
    <3> QED
      BY <1>2, <3>1, <3>2
  <2>2. \A x \in Held, q \in Claims : Kept(snap'[q], x)
    BY <1>2, <1>3, <1>5, ZenonT(30) DEF IInv, Copies, Kept
  <2> QED
    BY <2>1, <2>2, <1>1, <1>5 DEF IInv, Copies, Unique, Kept
<1>7. Present'
  BY <1>1, <1>5 DEF IInv, Present
<1>8. Handlers'
  <2> SUFFICES ASSUME NEW x \in Claims
               PROVE  /\ pc'[x] \in Early => Untold(x)'
                      /\ pc'[x] = "write" /\ next'[x] = "payout" => Reserving(x)'
                      /\ pc'[x] \in Late \/ (pc'[x] = "write" /\ next'[x] \in Late) => ConsumesSlot(claims'[x])
                      /\ pc'[x] = "payout" => x \notin paid'
                      /\ pc'[x] = "fail" => x \notin Held'
                      /\ pc'[x] = "write" => next'[x] \in Late \cup {"done"}
    BY DEF Handlers
  <2>1. CASE x # r
    <3>1. pc[x] \in Early => Untold(x)'
      BY <2>1, <1>1, <1>2, <1>3 DEF IInv, Handlers, Untold
    <3>2. pc[x] = "write" /\ next[x] = "payout" => Reserving(x)'
      BY <2>1, <1>1, <1>2, <1>3 DEF IInv, Handlers, Reserving
    <3> QED
      BY <2>1, <3>1, <3>2, <1>1, <1>2, <1>5 DEF IInv, Handlers
  <2>2. CASE x = r
    BY <2>2, <1>2 DEF Early, Late
  <2> QED
    BY <2>1, <2>2
<1> QED
  BY <1>4, <1>6, <1>7, <1>8 DEF IInv

-----------------------------------------------------------------------------
\* The end of a payout program, or of the wait for it.
LEMMA PayoutSteps ==
  ASSUME IInv, NEW r \in Claims,
         PayoutDone(r) \/ PayoutFailed(r) \/ PayoutTimedOut(r) \/ PayoutUnobserved(r)
  PROVE  IInv'
<1>1. /\ UNCHANGED <<claims, snap, next, file, dropped, restarts>>
      /\ running' \subseteq running /\ paid' \subseteq paid \cup {r} /\ paid \subseteq paid'
      /\ \A x \in Claims \ {r} : pc'[x] = pc[x] /\ (x \in running' <=> x \in running)
      /\ unconfirmed \subseteq unconfirmed'
      /\ DOMAIN pc' = DOMAIN pc
  BY DEF PayoutDone, PayoutFailed, PayoutTimedOut, PayoutUnobserved, GoTo, memory, disk, IInv, Shape
<1>2. Held' \subseteq Held
  <2>1. r \in paid' => r \in paid \/ r \in running \/ r \in unconfirmed'
    BY DEF PayoutDone, PayoutFailed, PayoutTimedOut, PayoutUnobserved
  <2> QED
    BY <1>1, <2>1 DEF Held
<1>3. Copies' /\ Present'
  BY <1>1, <1>2, FewerHeld
<1>4. Shape'
  BY <1>1 DEF IInv, Shape
<1>5. \/ pc[r] = "payout" /\ pc'[r] = "submit"
      \/ pc[r] = "payout" /\ pc'[r] = "fail" /\ r \notin Held'
      \/ pc[r] # "payout" /\ pc'[r] = pc[r] /\ r \in running
  <2>1. CASE PayoutDone(r)
    BY <2>1 DEF PayoutDone, GoTo, IInv, Shape
  <2>2. CASE PayoutFailed(r)
    <3>1. pc[r] = "payout" /\ pc'[r] = "fail" /\ r \notin running'
      BY <2>2 DEF PayoutFailed, GoTo, IInv, Shape
    <3>2. r \notin paid
      BY <3>1 DEF IInv, Handlers
    <3>3. r \notin paid' \/ r \in unconfirmed'
      BY <2>2, <3>2 DEF PayoutFailed
    <3> QED
      BY <3>1, <3>3 DEF Held
  <2>3. CASE PayoutTimedOut(r)
    BY <2>3 DEF PayoutTimedOut, GoTo, IInv, Shape, Held
  <2>4. CASE PayoutUnobserved(r)
    BY <2>4 DEF PayoutUnobserved
  <2> QED
    BY <2>1, <2>2, <2>3, <2>4
<1>6. Handlers'
  <2> SUFFICES ASSUME NEW x \in Claims
               PROVE  /\ pc'[x] \in Early => Untold(x)'
                      /\ pc'[x] = "write" /\ next'[x] = "payout" => Reserving(x)'
                      /\ pc'[x] \in Late \/ (pc'[x] = "write" /\ next'[x] \in Late) => ConsumesSlot(claims'[x])
                      /\ pc'[x] = "payout" => x \notin paid'
                      /\ pc'[x] = "fail" => x \notin Held'
                      /\ pc'[x] = "write" => next'[x] \in Late \cup {"done"}
    BY DEF Handlers
  <2>1. CASE x # r
    <3>1. pc[x] \in Early => Untold(x)'
      BY <2>1, <1>1 DEF IInv, Handlers, Untold
    <3>2. pc[x] = "write" /\ next[x] = "payout" => Reserving(x)'
      BY <2>1, <1>1 DEF IInv, Handlers, Reserving
    <3> QED
      BY <2>1, <3>1, <3>2, <1>1, <1>2 DEF IInv, Handlers
  <2>2. CASE x = r /\ pc[r] = "payout"
    <3>1. ConsumesSlot(claims[r])
      BY <2>2 DEF IInv, Handlers, Late
    <3> QED
      BY <2>2, <3>1, <1>1, <1>5 DEF Early, Late
  <2>3. CASE x = r /\ pc[r] # "payout"
    <3>1. pc'[r] = pc[r] /\ r \in running
      BY <2>3, <1>5
    <3>2. pc[r] \notin Early /\ ~(pc[r] = "write" /\ next[r] = "payout")
      BY <3>1 DEF IInv, Handlers, Untold, Reserving
    <3> QED
      BY <2>3, <3>1, <3>2, <1>1, <1>2 DEF IInv, Handlers
  <2> QED
    BY <2>1, <2>2, <2>3
<1> QED
  BY <1>3, <1>4, <1>6 DEF IInv

\* The handlers are gone and the map is what the file holds.
LEMMA Restarted ==
  ASSUME IInv, Restart
  PROVE  IInv'
<1>1. /\ claims' = file /\ restarts' = restarts + 1
      /\ pc' = [r \in Claims |-> IF pc[r] = "new" THEN "new" ELSE "done"]
      /\ snap' = [r \in Claims |-> NoClaims] /\ next' = [r \in Claims |-> "done"]
      /\ UNCHANGED <<file, dropped, running, paid, unconfirmed>>
  BY DEF Restart, outside
<1>2. NoClaims \in [Claims -> Records] /\ \A x \in Claims : NoClaims[x] = NoRecord
  BY RecordFacts DEF NoClaims
<1>3. Shape'
  BY <1>1, <1>2 DEF IInv, Shape
<1>4. Held' = Held /\ Held \subseteq Claims
  BY <1>1 DEF Held, IInv, Shape
<1>5. \A q \in Claims : Unique(snap'[q]) /\ \A x \in Held : Kept(snap'[q], x)
  BY <1>1, <1>2, <1>4, SlotFacts DEF Unique, Kept
<1>6. Copies'
  BY <1>1, <1>4, <1>5 DEF IInv, Copies, Unique, Kept
<1>7. restarts' # 0
  BY <1>1 DEF IInv, Shape
<1>8. Present'
  BY <1>1, <1>4, <1>7 DEF IInv, Present
<1>9. \A x \in Claims : pc'[x] \in {"new", "done"} /\ (pc'[x] = "new" => Untold(x)')
  BY <1>1, <1>2 DEF IInv, Handlers, Untold, Early
<1>10. Handlers'
  BY <1>9 DEF Handlers, Early, Late
<1> QED
  BY <1>3, <1>6, <1>8, <1>10 DEF IInv

-----------------------------------------------------------------------------
LEMMA NextIInv == IInv /\ [Next]_vars => IInv'
<1> SUFFICES ASSUME IInv, [Next]_vars PROVE IInv'
  OBVIOUS
<1>1. CASE UNCHANGED vars
  BY <1>1, Unchanged DEF vars, memory, disk, outside
<1>2. CASE Restart
  BY <1>2, Restarted
<1>3. CASE \E d \in AppleDevices : DebugUpdate(d)
  BY <1>3, Unchanged DEF DebugUpdate, memory, disk
<1>4. ASSUME NEW r \in Claims, Check(r) \/ Ledger(r) \/ Payout(r) \/ Abandon(r) PROVE IInv'
  <2>1. CASE Check(r)
    <3>1. \E label \in {"query", "reject", "reserve", "done"} : Moves(r, label) /\ pc[r] \in Early
      BY <2>1 DEF Check, Admit, QueryBit0, QueryFails, GoTo, Moves, memory, disk, outside, Early
    <3> QED
      BY <3>1, MovedOn DEF Early
  <2>2. CASE ReserveRefused(r)
    BY <2>2, MovedOn DEF ReserveRefused, GoTo, Moves, memory, disk, outside
  <2>3. CASE Abandon(r)
    BY <2>3, MovedOn DEF Abandon, GoTo, Moves, memory, disk, outside
  <2>4. CASE UpdateBit0(r) \/ UpdateFails(r)
    <3>1. \E label \in {"complete", "lockfail"} : Moves(r, label) /\ pc[r] \in Late
      BY <2>4 DEF UpdateBit0, UpdateFails, GoTo, Moves, memory, disk, Late
    <3> QED
      BY <3>1, MovedOn DEF Late
  <2> QED
    BY <1>4, <2>1, <2>2, <2>3, <2>4, RecordSteps, Written, NotWritten, PayoutSteps DEF Ledger, Payout
<1> QED
  BY <1>1, <1>2, <1>3, <1>4 DEF Next

\* The inductive invariant holds throughout.
THEOREM Invariant == Spec => []IInv
BY InitIInv, NextIInv, PTL DEF Spec

\* A claim whose program was started holds its slot in memory and in the file
\* (reserve_claim inserts and writes before run_payout_command), with the exceptions that
\* SlotSurvives names: the fact a restart relies on.
THEOREM SlotIsKept == Spec => []SlotSurvives
<1>1. IInv => SlotSurvives
  BY DEF IInv, Copies, Present, Kept, Held, SlotSurvives
<1> QED
  BY <1>1, Invariant, PTL

\* No wallet and no device is paid twice, unless one of the two claims was recorded as
\* failed while its program may have paid, or vanished from the file under an older copy
\* (reserve_claim, persist_claim).
THEOREM NobodyIsPaidTwice == Spec => []PaidOnceOtherwise
<1>1. ASSUME IInv PROVE PaidOnceOtherwise
  <2> SUFFICES ASSUME NEW p \in paid, NEW q \in paid, Rivals(p, q),
                      {p, q} \cap (unconfirmed \cup dropped) = {}
               PROVE  FALSE
    BY DEF PaidOnceOtherwise
  <2>1. p \in Held \ dropped /\ q \in Held \ dropped /\ p \in Claims /\ q \in Claims
    BY <1>1 DEF Held, IInv, Shape
  <2>2. ConsumesSlot(claims[p]) /\ ConsumesSlot(claims[q])
    BY <1>1, <2>1 DEF IInv, Copies, Present, Kept
  <2> QED
    BY <1>1, <2>1, <2>2 DEF IInv, Copies, Unique
<1> QED
  BY <1>1, Invariant, PTL
-----------------------------------------------------------------------------
(* A reservation does not outlive its request.                              *)

\* The record is not a reservation, and follows every one that a copy still holds.
Settled(r, rec) ==
  /\ rec.status # "Reserved"
  /\ \A q \in Claims : snap[q][r].status = "Reserved" => Rank(rec) > 1

\* The records of a request that has reserved, that is about to end, or has ended.
Owned ==
  \A r \in Claims :
    /\ pc[r] \in {"update", "lockfail", "complete"} => claims[r].status # "Reserved"
    /\ pc[r] = "write" /\ next[r] # "payout" => claims[r].status # "Reserved"
    /\ pc[r] = "fail" => claims[r] # NoRecord
    /\ pc[r] = "write" /\ next[r] = "done" =>
         snap[r][r] = claims[r] /\ claims[r] # NoRecord /\ Settled(r, claims[r])
    /\ pc[r] = "done" /\ r \notin cut \cup setback =>
         claims[r].status # "Reserved" /\ Settled(r, file[r])

LEMMA RankFacts ==
  /\ \A rec : Rank(rec) \in 0 .. 3
  /\ Rank(NoRecord) = 0 /\ Rank(Reservation) = 1
  /\ \A rec : rec.status = "Reserved" => Rank(rec) = 1
  /\ \A rec : rec.status \in {"Failed", "Completed"} => Rank(rec) = 3
  /\ NoRecord.status # "Reserved"
BY DEF Rank, NoRecord, Reservation

\* Nothing that Owned speaks of changes.
LEMMA OwnedUnchanged ==
  ASSUME Owned, UNCHANGED <<pc, claims, snap, next, file, cut, setback>>
  PROVE  Owned'
BY ZenonT(30) DEF Owned, Settled

\* A handler moves on, or ends.
LEMMA OwnedMoved ==
  ASSUME IInv, Owned, NEW r \in Claims, NEW label, pc' = [pc EXCEPT ![r] = label],
         UNCHANGED <<claims, snap, next, file, setback>>, cut \subseteq cut', label # "write",
         label \in {"update", "lockfail", "complete"} => claims[r].status # "Reserved",
         label = "fail" => claims[r] # NoRecord,
         label = "done" => Untold(r) \/ r \in cut'
  PROVE  Owned'
<1> SUFFICES ASSUME NEW x \in Claims
             PROVE  /\ pc'[x] \in {"update", "lockfail", "complete"} => claims[x].status # "Reserved"
                    /\ pc'[x] = "write" /\ next[x] # "payout" => claims[x].status # "Reserved"
                    /\ pc'[x] = "fail" => claims[x] # NoRecord
                    /\ pc'[x] = "write" /\ next[x] = "done" =>
                         snap[x][x] = claims[x] /\ claims[x] # NoRecord /\ Settled(x, claims[x])
                    /\ pc'[x] = "done" /\ x \notin cut' \cup setback =>
                         claims[x].status # "Reserved" /\ Settled(x, file[x])
  BY ZenonT(30) DEF Owned, Settled
<1>1. DOMAIN pc = Claims
  BY DEF IInv, Shape
<1>2. CASE x # r
  <2>1. pc'[x] = pc[x] /\ (x \notin cut' \cup setback => x \notin cut \cup setback)
    BY <1>1, <1>2
  <2>2. QED  BY <2>1 DEF Owned
<1>3. CASE x = r
  <2>1. pc'[r] = label
    BY <1>1
  <2>2. Untold(r) => claims[r].status # "Reserved" /\ Settled(r, file[r])
    BY RankFacts DEF Untold, Settled
  <2>3. QED  BY <1>3, <2>1, <2>2
<1>4. QED  BY <1>2, <1>3

\* A record is inserted and the map copied.
LEMMA OwnedInserted ==
  ASSUME IInv, Owned, NEW r \in Claims, NEW status, NEW tx, NEW then, Insert(r, status, tx, then),
         then # "payout" => status # "Reserved",
         then = "done" => /\ status # "None"
                          /\ status \in {"Failed", "Completed"} \/ Untold(r)
  PROVE  Owned'
<1>1. PICK rec : rec = [status |-> status, tx |-> tx]
  OBVIOUS
<1>2. rec.status = status /\ (status # "None" => rec # NoRecord)
  BY <1>1 DEF NoRecord
<1>3. /\ claims' = [claims EXCEPT ![r] = rec] /\ snap' = [snap EXCEPT ![r] = claims']
      /\ next' = [next EXCEPT ![r] = then] /\ pc' = [pc EXCEPT ![r] = "write"]
      /\ UNCHANGED <<file, cut, setback>>
  BY <1>1 DEF Insert, GoTo, disk
<1>4. /\ DOMAIN claims = Claims /\ DOMAIN snap = Claims /\ DOMAIN pc = Claims /\ DOMAIN next = Claims
  BY DEF IInv, Shape
<1>5. /\ claims'[r] = rec /\ \A x \in Claims \ {r} : claims'[x] = claims[x]
      /\ snap'[r] = claims' /\ \A x \in Claims \ {r} : snap'[x] = snap[x]
      /\ pc'[r] = "write" /\ \A x \in Claims \ {r} : pc'[x] = pc[x]
      /\ next'[r] = then /\ \A x \in Claims \ {r} : next'[x] = next[x]
  BY <1>3, <1>4
<1> SUFFICES ASSUME NEW x \in Claims
             PROVE  /\ pc'[x] \in {"update", "lockfail", "complete"} => claims'[x].status # "Reserved"
                    /\ pc'[x] = "write" /\ next'[x] # "payout" => claims'[x].status # "Reserved"
                    /\ pc'[x] = "fail" => claims'[x] # NoRecord
                    /\ pc'[x] = "write" /\ next'[x] = "done" =>
                         snap'[x][x] = claims'[x] /\ claims'[x] # NoRecord /\ Settled(x, claims[x])'
                    /\ pc'[x] = "done" /\ x \notin cut' \cup setback' =>
                         claims'[x].status # "Reserved" /\ Settled(x, file[x])'
  BY DEF Owned, Settled
<1>6. CASE x # r
  <2>1. \A q \in Claims : snap'[q][x] = snap[q][x] \/ snap'[q][x] = claims[x]
    BY <1>5, <1>6
  <2>2. pc'[x] = pc[x] /\ next'[x] = next[x] /\ claims'[x] = claims[x] /\ snap'[x] = snap[x]
    BY <1>5, <1>6
  <2>3. claims[x].status # "Reserved" /\ Settled(x, claims[x]) => Settled(x, claims[x])'
    BY <2>1, <2>2 DEF Settled
  <2>4. claims[x].status # "Reserved" /\ Settled(x, file[x]) => Settled(x, file[x])'
    BY <1>3, <2>1 DEF Settled
  <2>5. /\ pc[x] \in {"update", "lockfail", "complete"} => claims[x].status # "Reserved"
        /\ pc[x] = "write" /\ next[x] # "payout" => claims[x].status # "Reserved"
        /\ pc[x] = "fail" => claims[x] # NoRecord
        /\ pc[x] = "write" /\ next[x] = "done" =>
             snap[x][x] = claims[x] /\ claims[x] # NoRecord /\ Settled(x, claims[x])
        /\ pc[x] = "done" /\ x \notin cut \cup setback =>
             claims[x].status # "Reserved" /\ Settled(x, file[x])
    BY DEF Owned
  <2>6. pc[x] = "write" /\ next[x] = "done" => claims[x].status # "Reserved"
    BY <2>5
  <2>7. QED  BY <1>3, <2>2, <2>3, <2>4, <2>5, <2>6
<1>7. CASE x = r
  <2>1. ASSUME then = "done" PROVE Settled(r, claims[r])'
    <3>1. CASE status \in {"Failed", "Completed"}
      BY <1>2, <1>5, <3>1, RankFacts DEF Settled
    <3>2. CASE Untold(r)
      <4>1. \A q \in Claims : snap'[q][r] = NoRecord \/ snap'[q][r] = rec
        BY <1>5, <3>2 DEF Untold
      <4>2. rec.status # "Reserved"
        BY <1>2, <2>1
      <4>3. QED  BY <1>5, <4>1, <4>2, RankFacts DEF Settled
    <3>3. QED  BY <2>1, <3>1, <3>2
  <2>2. QED  BY <1>2, <1>5, <1>7, <2>1
<1>8. QED  BY <1>6, <1>7

LEMMA OwnedRecords ==
  ASSUME IInv, Owned, NEW r \in Claims,
         \/ ReserveClaim(r) \/ RecordRejected(r) \/ RecordFailed(r)
         \/ RecordSubmitted(r) \/ RecordLockFailed(r) \/ RecordCompleted(r)
  PROVE  Owned'
<1>1. CASE ReserveClaim(r)
  <2>1. Insert(r, "Reserved", FALSE, "payout")
    BY <1>1 DEF ReserveClaim
  <2>2. QED  BY <2>1, OwnedInserted
<1>2. CASE RecordRejected(r)
  <2>1. Insert(r, "Rejected", FALSE, "done") /\ pc[r] = "reject"
    BY <1>2 DEF RecordRejected
  <2>2. Untold(r)
    BY <2>1 DEF IInv, Handlers, Early
  <2>3. QED  BY <2>1, <2>2, OwnedInserted
<1>3. CASE RecordFailed(r)
  <2>1. Insert(r, "Failed", FALSE, "done")
    BY <1>3 DEF RecordFailed
  <2>2. QED  BY <2>1, OwnedInserted
<1>4. CASE RecordSubmitted(r)
  <2>1. PICK then : then = IF r \in Apple THEN "update" ELSE "complete"
    OBVIOUS
  <2>2. Insert(r, "PayoutSubmitted", TRUE, then)
    BY <1>4, <2>1 DEF RecordSubmitted
  <2>3. then # "done"
    BY <2>1
  <2>4. QED  BY <2>2, <2>3, OwnedInserted
<1>5. CASE RecordLockFailed(r)
  <2>1. Insert(r, "Failed", TRUE, "done")
    BY <1>5 DEF RecordLockFailed
  <2>2. QED  BY <2>1, OwnedInserted
<1>6. CASE RecordCompleted(r)
  <2>1. Insert(r, "Completed", TRUE, "done")
    BY <1>6 DEF RecordCompleted
  <2>2. QED  BY <2>1, OwnedInserted
<1>7. QED  BY <1>1, <1>2, <1>3, <1>4, <1>5, <1>6

\* The copy is written, or not: it is gone, and the other copies are as they were.
LEMMA OwnedWritten ==
  ASSUME IInv, Owned, NEW r \in Claims, WriteFile(r) \/ WriteFails(r)
  PROVE  Owned'
<1>1. /\ next' = [next EXCEPT ![r] = "done"] /\ snap' = [snap EXCEPT ![r] = NoClaims]
      /\ UNCHANGED claims /\ pc[r] = "write" /\ cut \subseteq cut' /\ setback \subseteq setback'
      /\ \/ /\ WriteFile(r) /\ pc' = [pc EXCEPT ![r] = next[r]] /\ file' = snap[r]
            /\ setback' = setback \cup {q \in Claims : Rank(snap[r][q]) < Rank(file[q])}
         \/ WriteFails(r) /\ pc' = [pc EXCEPT ![r] = "done"] /\ UNCHANGED file /\ r \in cut'
  BY DEF WriteFile, WriteFails, GoTo, Forget
<1>2. DOMAIN snap = Claims /\ DOMAIN pc = Claims /\ DOMAIN next = Claims
  BY DEF IInv, Shape
<1>3. /\ pc'[r] = next[r] \/ (pc'[r] = "done" /\ r \in cut')
      /\ next'[r] = "done" /\ snap'[r] = NoClaims
      /\ \A x \in Claims \ {r} : pc'[x] = pc[x] /\ next'[x] = next[x] /\ snap'[x] = snap[x]
  BY <1>1, <1>2
<1>4. \A q, x \in Claims : snap'[q][x] = snap[q][x] \/ snap'[q][x] = NoRecord
  BY <1>3 DEF NoClaims
<1>5. \A x \in Claims : Settled(x, claims[x]) => Settled(x, claims[x])'
  BY <1>1, <1>4, RankFacts DEF Settled
<1> SUFFICES ASSUME NEW x \in Claims
             PROVE  /\ pc'[x] \in {"update", "lockfail", "complete"} => claims'[x].status # "Reserved"
                    /\ pc'[x] = "write" /\ next'[x] # "payout" => claims'[x].status # "Reserved"
                    /\ pc'[x] = "fail" => claims'[x] # NoRecord
                    /\ pc'[x] = "write" /\ next'[x] = "done" =>
                         snap'[x][x] = claims'[x] /\ claims'[x] # NoRecord /\ Settled(x, claims[x])'
                    /\ pc'[x] = "done" /\ x \notin cut' \cup setback' =>
                         claims'[x].status # "Reserved" /\ Settled(x, file[x])'
  BY DEF Owned, Settled
<1>6. /\ pc[x] \in {"update", "lockfail", "complete"} => claims[x].status # "Reserved"
      /\ pc[x] = "write" /\ next[x] # "payout" => claims[x].status # "Reserved"
      /\ pc[x] = "fail" => claims[x] # NoRecord
      /\ pc[x] = "write" /\ next[x] = "done" =>
           snap[x][x] = claims[x] /\ claims[x] # NoRecord /\ Settled(x, claims[x])
      /\ pc[x] = "done" /\ x \notin cut \cup setback =>
           claims[x].status # "Reserved" /\ Settled(x, file[x])
  BY DEF Owned
<1>7. CASE x # r
  <2>1. pc'[x] = pc[x] /\ next'[x] = next[x] /\ snap'[x] = snap[x] /\ claims'[x] = claims[x]
    BY <1>1, <1>3, <1>7
  <2>2. ASSUME Settled(x, file[x]), x \notin setback' PROVE Settled(x, file[x])'
    <3>1. CASE UNCHANGED file
      BY <1>4, <2>2, <3>1, RankFacts DEF Settled
    <3>2. CASE file' = snap[r] /\ Rank(snap[r][x]) >= Rank(file[x])
      <4>1. Rank(file'[x]) \in Nat /\ Rank(file[x]) \in Nat /\ Rank(file'[x]) >= Rank(file[x])
        BY <3>2, RankFacts
      <4>2. snap[r][x].status # "Reserved"
        <5>1. ASSUME snap[r][x].status = "Reserved" PROVE FALSE
          <6>1. Rank(snap[r][x]) = 1 /\ Rank(file[x]) > 1
            BY <2>2, <5>1, RankFacts DEF Settled
          <6>2. QED  BY <3>2, <4>1, <6>1
        <5>2. QED  BY <5>1
      <4>3. ASSUME NEW q \in Claims, snap'[q][x].status = "Reserved" PROVE Rank(file'[x]) > 1
        <5>1. snap[q][x].status = "Reserved"
          BY <1>4, <4>3, RankFacts
        <5>2. Rank(file[x]) > 1
          BY <2>2, <5>1 DEF Settled
        <5>3. QED  BY <4>1, <5>2
      <4>4. QED  BY <3>2, <4>2, <4>3 DEF Settled
    <3>3. x \notin {q \in Claims : Rank(snap[r][q]) < Rank(file[q])} => Rank(snap[r][x]) >= Rank(file[x])
      BY RankFacts
    <3>4. QED  BY <1>1, <2>2, <3>1, <3>2, <3>3
  <2>3. QED  BY <1>1, <1>5, <1>6, <2>1, <2>2
<1>8. CASE x = r
  <2>1. next[r] \in Late \cup {"done"}
    BY <1>1 DEF IInv, Handlers
  <2>2. ASSUME pc'[r] = "done", r \notin cut' PROVE claims[r].status # "Reserved" /\ Settled(r, file[r])'
    <3>1. next[r] = "done" /\ file' = snap[r]
      BY <1>1, <1>3, <2>2
    <3>2. snap[r][r] = claims[r] /\ Settled(r, claims[r])
      BY <1>1, <1>6, <1>8, <3>1
    <3>3. file'[r] = claims'[r] /\ Settled(r, claims[r])'
      BY <1>1, <1>5, <3>1, <3>2
    <3>4. QED  BY <3>2, <3>3 DEF Settled
  <2>3. pc'[r] \in {"update", "lockfail", "complete"} => claims[r].status # "Reserved"
    BY <1>1, <1>3, <1>6, <1>8
  <2>4. pc'[r] \notin {"write", "fail"}
    BY <1>3, <2>1 DEF Late
  <2>5. QED  BY <1>1, <1>8, <2>2, <2>3, <2>4
<1>9. QED  BY <1>7, <1>8

\* The handlers are gone, and the map is what the file holds.
LEMMA OwnedRestart == ASSUME TypeOK, IInv, Owned, Restart PROVE Owned'
<1>1. /\ claims' = file /\ pc' = [r \in Claims |-> IF pc[r] = "new" THEN "new" ELSE "done"]
      /\ snap' = [r \in Claims |-> NoClaims] /\ UNCHANGED <<file, setback>>
      /\ cut' = cut \cup {r \in Claims : pc[r] \notin {"new", "done"} /\ claims[r] # NoRecord}
  BY DEF Restart
<1>2. \A q, x \in Claims : snap'[q][x] = NoRecord
  BY <1>1 DEF NoClaims
<1>3. ASSUME NEW x \in Claims, pc[x] # "new", x \notin cut' \cup setback
      PROVE  file[x].status # "Reserved"
  <2>1. CASE pc[x] = "done"
    BY <1>1, <1>3, <2>1 DEF Owned, Settled
  <2>2. CASE pc[x] # "done"
    <3>1. claims[x] = NoRecord
      BY <1>1, <1>3, <2>2
    <3>2. ~ConsumesSlot(claims[x]) /\ claims[x] # Reservation
      BY <3>1, SlotFacts
    <3>3. pc[x] \notin Late /\ pc[x] # "fail" /\ pc[x] # "write"
      <4>1. pc[x] \notin Late /\ ~(pc[x] = "write" /\ next[x] \in Late)
        BY <3>2 DEF IInv, Handlers
      <4>2. pc[x] = "write" => next[x] \in Late \cup {"done"}
        BY DEF IInv, Handlers
      <4>3. pc[x] # "fail" /\ ~(pc[x] = "write" /\ next[x] = "done")
        BY <3>1 DEF Owned
      <4>4. QED  BY <4>1, <4>2, <4>3
    <3>4. pc[x] \in Early
      BY <1>3, <2>2, <3>3 DEF TypeOK, Awaits, Early, Late
    <3>5. QED  BY <3>4, RankFacts DEF IInv, Handlers, Untold
  <2>3. QED  BY <2>1, <2>2
<1>4. \A x \in Claims : pc'[x] = "new" \/ (pc'[x] = "done" /\ pc[x] # "new")
  BY <1>1
<1>5. QED  BY <1>1, <1>2, <1>3, <1>4, RankFacts, ZenonT(30) DEF Owned, Settled

LEMMA NextOwned == TypeOK /\ IInv /\ Owned /\ [Next]_vars => Owned'
<1> SUFFICES ASSUME TypeOK, IInv, Owned, [Next]_vars PROVE Owned'
  OBVIOUS
<1>1. CASE UNCHANGED vars
  BY <1>1, OwnedUnchanged DEF vars, memory, disk
<1>2. CASE Restart
  BY <1>2, OwnedRestart
<1>3. CASE \E d \in AppleDevices : DebugUpdate(d)
  BY <1>3, OwnedUnchanged DEF DebugUpdate, memory, disk
<1>4. ASSUME NEW r \in Claims, Check(r) \/ Ledger(r) \/ Payout(r) \/ Abandon(r) PROVE Owned'
  <2>1. CASE Check(r) \/ ReserveRefused(r)
    <3>1. /\ pc[r] \in Early /\ UNCHANGED <<claims, snap, next, file, setback, cut>>
          /\ \E label \in {"query", "reject", "reserve", "done"} : pc' = [pc EXCEPT ![r] = label]
      <4>1. CASE Check(r)
        BY <4>1 DEF Check, Admit, QueryBit0, QueryFails, GoTo, memory, disk, Early
      <4>2. CASE ReserveRefused(r)
        BY <4>2 DEF ReserveRefused, GoTo, memory, disk, Early
      <4>3. QED  BY <2>1, <4>1, <4>2
    <3>2. Untold(r)
      BY <3>1 DEF IInv, Handlers
    <3>3. QED  BY <3>1, <3>2, OwnedMoved
  <2>2. CASE PayoutDone(r) \/ PayoutFailed(r) \/ PayoutTimedOut(r)
    <3>1. /\ pc[r] = "payout" /\ UNCHANGED <<claims, snap, next, file, setback, cut>>
          /\ \E label \in {"submit", "fail"} : pc' = [pc EXCEPT ![r] = label]
      BY <2>2 DEF PayoutDone, PayoutFailed, PayoutTimedOut, GoTo, memory, disk
    <3>2. claims[r] # NoRecord
      BY <3>1, SlotFacts DEF IInv, Handlers, Late
    <3>3. QED  BY <3>1, <3>2, OwnedMoved
  <2>3. CASE PayoutUnobserved(r)
    BY <2>3, OwnedUnchanged DEF PayoutUnobserved, memory, disk
  <2>4. CASE UpdateBit0(r) \/ UpdateFails(r)
    <3>1. /\ pc[r] = "update" /\ UNCHANGED <<claims, snap, next, file, setback, cut>>
          /\ \E label \in {"complete", "lockfail"} : pc' = [pc EXCEPT ![r] = label]
      BY <2>4 DEF UpdateBit0, UpdateFails, GoTo, memory, disk
    <3>2. claims[r].status # "Reserved"
      BY <3>1 DEF Owned
    <3>3. QED  BY <3>1, <3>2, OwnedMoved
  <2>5. CASE Abandon(r)
    <3>1. /\ pc[r] \in Awaits /\ UNCHANGED <<claims, snap, next, file, setback>>
          /\ pc' = [pc EXCEPT ![r] = "done"] /\ cut \subseteq cut' /\ (claims[r] = NoRecord \/ r \in cut')
      BY <2>5 DEF Abandon, GoTo, memory, disk
    <3>2. claims[r] = NoRecord => Untold(r)
      <4>1. claims[r] = NoRecord => pc[r] \notin Late /\ pc[r] # "fail"
        BY SlotFacts DEF IInv, Handlers, Owned
      <4>2. pc[r] \in Early \/ pc[r] \in Late \/ pc[r] = "fail"
        BY <3>1 DEF Awaits, Early, Late
      <4>3. QED  BY <4>1, <4>2 DEF IInv, Handlers
    <3>3. QED  BY <3>1, <3>2, OwnedMoved
  <2>6. QED
    BY <1>4, <2>1, <2>2, <2>3, <2>4, <2>5, OwnedRecords, OwnedWritten DEF Ledger, Payout
<1>5. QED  BY <1>1, <1>2, <1>3, <1>4 DEF Next

-----------------------------------------------------------------------------
(* Every variable has its type.                                             *)

\* update_bit0_true is called for the devices that DeviceCheck knows.
AppleOnly == \A r \in Claims : pc[r] = "update" \/ next[r] = "update" => r \in Apple

LEMMA TypeInit == Init => TypeOK
<1> SUFFICES ASSUME Init PROVE TypeOK
  OBVIOUS
<1>1. NoClaims \in [Claims -> Records]
  BY RecordFacts DEF NoClaims
<1>2. 0 \in 0 .. MaxRestarts
  BY GiftAssumption
<1>3. QED  BY <1>1, <1>2 DEF Init, TypeOK, Awaits

\* A handler goes from one place to another.
LEMMA TypeMoved ==
  ASSUME TypeOK, NEW r \in Claims, NEW label \in Awaits \cup {"new", "write", "done"},
         pc' = [pc EXCEPT ![r] = label]
  PROVE  pc' \in [Claims -> Awaits \cup {"new", "write", "done"}]
BY DEF TypeOK

LEMMA TypeInserted ==
  ASSUME TypeOK, NEW r \in Claims, NEW status \in Statuses, NEW tx \in BOOLEAN,
         NEW then \in Awaits \cup {"done"}, Insert(r, status, tx, then)
  PROVE  TypeOK'
<1>1. PICK rec \in Records : rec = [status |-> status, tx |-> tx]
  BY RecordFacts
<1>2. /\ claims' = [claims EXCEPT ![r] = rec] /\ snap' = [snap EXCEPT ![r] = claims']
      /\ next' = [next EXCEPT ![r] = then] /\ pc' = [pc EXCEPT ![r] = "write"]
      /\ UNCHANGED <<file, torn, overwritten, dropped, setback, up, bit0, running, paid, unconfirmed,
                     restarts, cut>>
  BY <1>1 DEF Insert, GoTo, disk, outside
<1>3. claims' \in [Claims -> Records]
  BY <1>2 DEF TypeOK
<1>4. snap' \in [Claims -> [Claims -> Records]] /\ next' \in [Claims -> Awaits \cup {"done"}]
  BY <1>2, <1>3 DEF TypeOK
<1>5. pc' \in [Claims -> Awaits \cup {"new", "write", "done"}]
  BY <1>2, TypeMoved
<1>6. QED  BY <1>2, <1>3, <1>4, <1>5 DEF TypeOK

LEMMA TypeRecords ==
  ASSUME TypeOK, NEW r \in Claims,
         \/ ReserveClaim(r) \/ RecordRejected(r) \/ RecordFailed(r)
         \/ RecordSubmitted(r) \/ RecordLockFailed(r) \/ RecordCompleted(r)
  PROVE  TypeOK'
<1>1. {"Reserved", "Rejected", "Failed", "PayoutSubmitted", "Completed"} \subseteq Statuses
      /\ {"payout", "done", "update", "complete"} \subseteq Awaits \cup {"done"}
  BY DEF Statuses, Awaits
<1>2. \E status \in Statuses, tx \in BOOLEAN, then \in Awaits \cup {"done"} : Insert(r, status, tx, then)
  BY <1>1
  DEF ReserveClaim, RecordRejected, RecordFailed, RecordSubmitted, RecordLockFailed, RecordCompleted
<1>3. QED  BY <1>2, TypeInserted

LEMMA TypeWritten == ASSUME TypeOK, NEW r \in Claims, WriteFile(r) \/ WriteFails(r) PROVE TypeOK'
<1>1. NoClaims \in [Claims -> Records]
  BY RecordFacts DEF NoClaims
<1>2. /\ next' = [next EXCEPT ![r] = "done"] /\ snap' = [snap EXCEPT ![r] = NoClaims]
      /\ UNCHANGED <<claims, up, bit0, paid, unconfirmed, restarts>>
  BY DEF WriteFile, WriteFails, Forget, outside
<1>3. next' \in [Claims -> Awaits \cup {"done"}] /\ snap' \in [Claims -> [Claims -> Records]]
  BY <1>1, <1>2 DEF TypeOK
<1>4. pc' \in [Claims -> Awaits \cup {"new", "write", "done"}]
  <2>1. next[r] \in Awaits \cup {"new", "write", "done"}
    BY DEF TypeOK
  <2>2. pc' = [pc EXCEPT ![r] = next[r]] \/ pc' = [pc EXCEPT ![r] = "done"]
    BY DEF WriteFile, WriteFails, GoTo
  <2>3. QED  BY <2>1, <2>2, TypeMoved
<1>5. torn' \in BOOLEAN
  BY DEF TypeOK, WriteFile, WriteFails
<1>6. file' \in [Claims -> Records]
  <2>1. file' = snap[r] \/ file' = file
    BY DEF WriteFile, WriteFails
  <2>2. snap[r] \in [Claims -> Records] /\ file \in [Claims -> Records]
    BY DEF TypeOK
  <2>3. QED  BY <2>1, <2>2
<1>7. overwritten' \subseteq Claims /\ running' \subseteq Claims /\ dropped' \subseteq Claims
      /\ setback' \subseteq Claims /\ cut' \subseteq Claims
  <2>1. \A s \in {overwritten, running, dropped, setback, cut} : s \subseteq Claims
    BY DEF TypeOK
  <2>2. CASE WriteFile(r)
    BY <2>1, <2>2 DEF WriteFile, Starts
  <2>3. CASE WriteFails(r)
    BY <2>1, <2>3 DEF WriteFails, outside
  <2>4. QED  BY <2>2, <2>3
<1>8. /\ restarts' \in 0 .. MaxRestarts /\ claims' \in [Claims -> Records] /\ up' \in BOOLEAN
      /\ bit0' \subseteq AppleDevices /\ paid' \subseteq Claims /\ unconfirmed' \subseteq Claims
  BY <1>2 DEF TypeOK
<1>9. QED  BY <1>3, <1>4, <1>5, <1>6, <1>7, <1>8 DEF TypeOK

LEMMA TypeRestart == ASSUME TypeOK, Restart PROVE TypeOK'
<1>1. NoClaims \in [Claims -> Records]
  BY RecordFacts DEF NoClaims
<1>2. /\ claims' = file /\ overwritten' = {}
      /\ snap' = [r \in Claims |-> NoClaims] /\ next' = [r \in Claims |-> "done"]
      /\ pc' = [r \in Claims |-> IF pc[r] = "new" THEN "new" ELSE "done"]
      /\ UNCHANGED <<file, dropped, setback, bit0, running, paid, unconfirmed>>
      /\ cut' = cut \cup {r \in Claims : pc[r] \notin {"new", "done"} /\ claims[r] # NoRecord}
  BY DEF Restart, outside
<1>3. /\ snap' \in [Claims -> [Claims -> Records]] /\ next' \in [Claims -> Awaits \cup {"done"}]
      /\ pc' \in [Claims -> Awaits \cup {"new", "write", "done"}]
  BY <1>1, <1>2
<1>4. restarts' \in 0 .. MaxRestarts
  BY GiftAssumption DEF TypeOK, Restart
<1>5. torn' \in BOOLEAN /\ up' \in BOOLEAN
  BY DEF TypeOK, Restart
<1>6. cut' \subseteq Claims
  BY <1>2 DEF TypeOK
<1>7. \A s \in {overwritten', running', paid', unconfirmed', dropped', setback'} : s \subseteq Claims
  BY <1>2 DEF TypeOK
<1>8. claims' \in [Claims -> Records] /\ file' \in [Claims -> Records] /\ bit0' \subseteq AppleDevices
  BY <1>2 DEF TypeOK
<1>9. QED  BY <1>3, <1>4, <1>5, <1>6, <1>7, <1>8 DEF TypeOK

\* The remaining steps of a handler.
LEMMA TypeOther ==
  ASSUME TypeOK, AppleOnly, NEW r \in Claims, Check(r) \/ ReserveRefused(r) \/ Payout(r) \/ Abandon(r)
  PROVE  TypeOK'
<1>1. /\ UNCHANGED <<claims, snap, next, file, torn, overwritten, dropped, setback, up, restarts>>
      /\ pc' = pc \/ \E label \in Awaits \cup {"new", "write", "done"} : pc' = [pc EXCEPT ![r] = label]
  BY DEF Check, Admit, QueryBit0, QueryFails, ReserveRefused, Payout, PayoutDone, PayoutFailed,
         PayoutTimedOut, PayoutUnobserved, UpdateBit0, UpdateFails, Abandon, GoTo, memory, disk, Awaits
<1>2. pc' \in [Claims -> Awaits \cup {"new", "write", "done"}]
  BY <1>1, TypeMoved DEF TypeOK
<1>3. \A s \in {running', paid', unconfirmed', cut'} : s \subseteq Claims
  <2>1. \A s \in {running, paid, unconfirmed, cut} : s \subseteq Claims
    BY DEF TypeOK
  <2>2. CASE Check(r) \/ ReserveRefused(r)
    BY <2>1, <2>2 DEF Check, Admit, QueryBit0, QueryFails, ReserveRefused, outside
  <2>3. CASE Payout(r)
    <3>1. running' \subseteq running /\ cut' = cut
          /\ (paid' = paid \/ paid' = paid \cup {r})
          /\ (unconfirmed' = unconfirmed \/ unconfirmed' = unconfirmed \cup {r})
      BY <2>3 DEF Payout, PayoutDone, PayoutFailed, PayoutTimedOut, PayoutUnobserved, UpdateBit0,
                  UpdateFails, outside
    <3>2. QED  BY <2>1, <3>1
  <2>4. CASE Abandon(r)
    BY <2>1, <2>4 DEF Abandon, outside
  <2>5. QED  BY <2>2, <2>3, <2>4
<1>4. bit0' \subseteq AppleDevices
  <2>1. CASE UNCHANGED bit0
    BY <2>1 DEF TypeOK
  <2>2. CASE pc[r] = "update" /\ bit0' = bit0 \cup {Device[r]}
    <3>1. Device[r] \in AppleDevices
      BY <2>2 DEF AppleOnly, AppleDevices
    <3>2. QED  BY <2>2, <3>1 DEF TypeOK
  <2>3. QED
    BY <2>1, <2>2 DEF Check, Admit, QueryBit0, QueryFails, ReserveRefused, Payout, PayoutDone,
       PayoutFailed, PayoutTimedOut, PayoutUnobserved, UpdateBit0, UpdateFails, Abandon, outside
<1>5. \A s \in {overwritten', dropped', setback'} : s \subseteq Claims
  BY <1>1 DEF TypeOK
<1>6. QED  BY <1>1, <1>2, <1>3, <1>4, <1>5 DEF TypeOK

LEMMA NextTypes == TypeOK /\ AppleOnly /\ [Next]_vars => TypeOK' /\ AppleOnly'
<1> SUFFICES ASSUME TypeOK, AppleOnly, [Next]_vars PROVE TypeOK' /\ AppleOnly'
  OBVIOUS
<1>1. DOMAIN pc = Claims /\ DOMAIN next = Claims
  BY DEF TypeOK
<1>2. CASE UNCHANGED vars
  BY <1>2 DEF vars, memory, disk, outside, TypeOK, AppleOnly
<1>3. CASE Restart
  BY <1>3, TypeRestart DEF Restart, AppleOnly
<1>4. CASE \E d \in AppleDevices : DebugUpdate(d)
  <2>1. /\ UNCHANGED <<pc, claims, snap, next, file, torn, overwritten, dropped, setback, up, running, paid,
                       unconfirmed, restarts, cut>>
        /\ \E d \in AppleDevices : bit0' = bit0 \cup {d}
    BY <1>4 DEF DebugUpdate, memory, disk
  <2>2. QED  BY <2>1 DEF TypeOK, AppleOnly
<1>5. ASSUME NEW r \in Claims, Check(r) \/ Ledger(r) \/ Payout(r) \/ Abandon(r)
      PROVE  TypeOK' /\ AppleOnly'
  <2>1. TypeOK'
    BY <1>5, TypeRecords, TypeWritten, TypeOther DEF Ledger
  <2>2. CASE WriteFile(r) \/ WriteFails(r)
    <3>1. /\ pc' = [pc EXCEPT ![r] = next[r]] \/ pc' = [pc EXCEPT ![r] = "done"]
          /\ next' = [next EXCEPT ![r] = "done"]
      BY <2>2 DEF WriteFile, WriteFails, GoTo, Forget
    <3>2. QED  BY <1>1, <2>1, <3>1 DEF AppleOnly
  <2>3. CASE \/ ReserveClaim(r) \/ RecordRejected(r) \/ RecordFailed(r)
             \/ RecordSubmitted(r) \/ RecordLockFailed(r) \/ RecordCompleted(r)
    <3>1. \E then : /\ next' = [next EXCEPT ![r] = then] /\ pc' = [pc EXCEPT ![r] = "write"]
                    /\ then = "update" => r \in Apple
      BY <2>3, ZenonT(30) DEF ReserveClaim, RecordRejected, RecordFailed, RecordSubmitted, RecordLockFailed,
                  RecordCompleted, Insert, GoTo
    <3>2. QED  BY <1>1, <2>1, <3>1 DEF AppleOnly
  <2>4. CASE Check(r) \/ ReserveRefused(r) \/ Payout(r) \/ Abandon(r)
    <3>1. UNCHANGED next /\ (pc' = pc \/ \E label : label # "update" /\ pc' = [pc EXCEPT ![r] = label])
      BY <2>4 DEF Check, Admit, QueryBit0, QueryFails, ReserveRefused, Payout, PayoutDone, PayoutFailed,
         PayoutTimedOut, PayoutUnobserved, UpdateBit0, UpdateFails, Abandon, GoTo, memory
    <3>2. QED  BY <1>1, <2>1, <3>1 DEF AppleOnly
  <2>5. QED  BY <1>5, <2>1, <2>2, <2>3, <2>4 DEF Ledger
<1>6. QED  BY <1>2, <1>3, <1>4, <1>5 DEF Next

\* A reservation does not outlive its request (reserve_claim, persist_claim), unless the
\* request was cut short or an older copy of the map has set the file back to it.
THEOREM ReservationsAreOwned == Spec => []ReservationOwned
<1>1. Init => TypeOK /\ AppleOnly /\ Owned
  <2>1. Init => AppleOnly /\ Owned
    BY DEF Init, AppleOnly, Owned
  <2>2. QED  BY <2>1, TypeInit
<1>2. TypeOK /\ AppleOnly /\ IInv /\ Owned /\ [Next]_vars => TypeOK' /\ AppleOnly' /\ Owned'
  BY NextTypes, NextOwned
<1>3. TypeOK /\ IInv /\ Owned => ReservationOwned
  <2> SUFFICES ASSUME TypeOK, IInv, Owned, NEW r \in Claims, claims[r].status = "Reserved",
                      r \notin cut \cup setback
               PROVE  pc[r] \in {"write", "payout", "fail", "submit"}
    BY DEF ReservationOwned
  <2>1. pc[r] \notin {"update", "lockfail", "complete", "done"}
    BY DEF Owned
  <2>2. pc[r] \notin Early
    BY RankFacts DEF IInv, Handlers, Untold
  <2>3. QED  BY <2>1, <2>2 DEF TypeOK, Awaits, Early
<1>4. QED  BY <1>1, <1>2, <1>3, Invariant, PTL DEF Spec
=============================================================================
