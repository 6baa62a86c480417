---------------------------- MODULE GiftClaims ----------------------------
(***************************************************************************)
(* The gift service: claim requests handled concurrently, their records in *)
(* memory and in one file, the payout program and the device bit kept by   *)
(* DeviceCheck, with requests dropped by their client, time-outs, failing  *)
(* writes and restarts.                                                    *)
(*                                                                         *)
(* Source: indexer/src/gift.rs.  A handler is a task of a multi-threaded   *)
(* runtime: it can be interleaved wherever it awaits and between the       *)
(* release of the claims lock and the write of the file, and it is dropped *)
(* at an await when its client goes away.  A request is named after the    *)
(* claim it may create.  It appears here once its challenge, its proof and *)
(* the address limit have let it through: what they decide touches none of *)
(* the state below.                                                        *)
(***************************************************************************)
EXTENDS Naturals, FiniteSets

CONSTANTS
  Claims,       \* claim requests
  Wallet,       \* wallet address of each request
  Device,       \* device fingerprint of each request
  Apple,        \* requests subject to DeviceCheck (not Android, not a simulator)
  MaxRestarts,  \* bound: restarts of the process
  MaxCut        \* bound: requests dropped by their client or ended by a failed write

\* The devices DeviceCheck knows.
AppleDevices == {Device[r] : r \in Apple}

ASSUME GiftAssumption ==
  /\ DOMAIN Wallet = Claims /\ DOMAIN Device = Claims /\ Apple \subseteq Claims
  /\ MaxRestarts \in Nat /\ MaxCut \in Nat

VARIABLES
  pc,           \* where the handler of each request is
  claims,       \* GiftService::claims
  snap,         \* the snapshot each handler is about to write
  next,         \* where each handler goes on after its write
  file,         \* the claims file: what was written to it last
  torn,         \* the claims file is truncated or mixed, and does not parse
  overwritten,  \* writers over whose truncated file another one has written
  up,           \* the service has started: its claims file could be read
  bit0,         \* devices whose bit is set at DeviceCheck
  running,      \* claims whose payout program runs
  paid,         \* claims that were paid out
  restarts,
  \* history
  unconfirmed,  \* claims recorded as failed whose program may have paid, or still pay
  dropped,      \* claims that vanished from the file under an older snapshot
  setback,      \* claims whose record in the file was replaced by an earlier one
  cut           \* claims with a record whose handler ended before its last one was stored

memory == <<claims, snap, next>>
disk == <<file, torn, overwritten, dropped, setback>>
outside == <<bit0, running, paid, unconfirmed>>
vars == <<pc, memory, disk, up, outside, restarts, cut>>

Statuses == {"None", "Reserved", "PayoutSubmitted", "Completed", "Failed", "Rejected"}
Records == [status : Statuses, tx : BOOLEAN]
NoRecord == [status |-> "None", tx |-> FALSE]
NoClaims == [r \in Claims |-> NoRecord]

\* Where a handler waits, and can be dropped.
Awaits == {"query", "reject", "reserve", "payout", "fail", "submit", "update", "lockfail",
           "complete"}

TypeOK ==
  /\ restarts \in 0 .. MaxRestarts
  /\ pc \in [Claims -> Awaits \cup {"new", "write", "done"}]
  /\ next \in [Claims -> Awaits \cup {"done"}]
  /\ claims \in [Claims -> Records] /\ file \in [Claims -> Records]
  /\ snap \in [Claims -> [Claims -> Records]]
  /\ {torn, up} \subseteq BOOLEAN
  /\ bit0 \subseteq AppleDevices
  /\ \A s \in {overwritten, running, paid, unconfirmed, dropped, setback, cut} : s \subseteq Claims

Init ==
  /\ restarts = 0 /\ up = TRUE
  /\ pc = [r \in Claims |-> "new"] /\ next = [r \in Claims |-> "done"]
  /\ claims = NoClaims /\ file = NoClaims /\ snap = [r \in Claims |-> NoClaims]
  /\ torn = FALSE /\ dropped = {} /\ setback = {}
  /\ bit0 = {} /\ overwritten = {} /\ running = {} /\ paid = {}
  /\ unconfirmed = {} /\ cut = {}

GoTo(r, label) == pc' = [pc EXCEPT ![r] = label]

-----------------------------------------------------------------------------
(* Before the reservation.                                                  *)

\* The request has passed the checks that come first; DeviceCheck is asked about Apple
\* devices only.
Admit(r) ==
  /\ up /\ pc[r] = "new"
  /\ GoTo(r, IF r \in Apple THEN "query" ELSE "reserve")
  /\ UNCHANGED <<memory, disk, up, outside, restarts, cut>>

\* query_bit0, over both hosts: the bit of the device, or an error.
QueryBit0(r) ==
  /\ pc[r] = "query"
  /\ GoTo(r, IF Device[r] \in bit0 THEN "reject" ELSE "reserve")
  /\ UNCHANGED <<memory, disk, up, outside, restarts, cut>>
QueryFails(r) ==
  /\ pc[r] = "query" /\ GoTo(r, "done")
  /\ UNCHANGED <<memory, disk, up, outside, restarts, cut>>

-----------------------------------------------------------------------------
(* The claims map and its file.                                             *)

MutConsumesSlot(rec) == rec.status \in {"Reserved", "Completed"}

\* claim_consumes_unique_slot
ConsumesSlot(rec) == rec.tx \/ rec.status \in {"Reserved", "PayoutSubmitted", "Completed"}

\* persist_claim, and the end of reserve_claim: insert under the lock, copy the map,
\* release the lock; the copy is written next.
Insert(r, status, tx, then) ==
  /\ claims' = [claims EXCEPT ![r] = [status |-> status, tx |-> tx]]
  /\ snap' = [snap EXCEPT ![r] = claims']
  /\ next' = [next EXCEPT ![r] = then]
  /\ GoTo(r, "write")
  /\ UNCHANGED <<disk, up, outside, restarts, cut>>

Blocked(r) ==
  \E q \in Claims : ConsumesSlot(claims[q]) /\ (Wallet[q] = Wallet[r] \/ Device[q] = Device[r])

MutReserveClaim(r) == pc[r] = "reserve" /\ Insert(r, "Reserved", FALSE, "payout")

\* reserve_claim
ReserveClaim(r) == pc[r] = "reserve" /\ ~Blocked(r) /\ Insert(r, "Reserved", FALSE, "payout")
ReserveRefused(r) ==
  /\ pc[r] = "reserve" /\ Blocked(r) /\ GoTo(r, "done")
  /\ UNCHANGED <<memory, disk, up, outside, restarts, cut>>

RecordRejected(r) == pc[r] = "reject" /\ Insert(r, "Rejected", FALSE, "done")
MutRecordFailed(r) ==
  /\ pc[r] = "fail" /\ GoTo(r, "done")
  /\ UNCHANGED <<memory, disk, up, outside, restarts, cut>>

RecordFailed(r) == pc[r] = "fail" /\ Insert(r, "Failed", FALSE, "done")
RecordSubmitted(r) ==
  pc[r] = "submit" /\ Insert(r, "PayoutSubmitted", TRUE, IF r \in Apple THEN "update" ELSE "complete")
RecordLockFailed(r) == pc[r] = "lockfail" /\ Insert(r, "Failed", TRUE, "done")
RecordCompleted(r) == pc[r] = "complete" /\ Insert(r, "Completed", TRUE, "done")

\* The statuses of a claim in the order in which a handler records them.
Rank(rec) ==
  CASE rec.status = "None" -> 0
    [] rec.status \in {"Reserved", "Rejected"} -> 1
    [] rec.status = "PayoutSubmitted" -> 2
    [] OTHER -> 3

\* The copy is gone with the call.
Forget(r) == snap' = [snap EXCEPT ![r] = NoClaims] /\ next' = [next EXCEPT ![r] = "done"]

\* Past the write: the payout program is started, or the handler goes on or ends.
Starts(r) == IF next[r] = "payout" THEN {r} ELSE {}

\* persist_claims: std::fs::write truncates the file, then writes the copy.  Of two that
\* overlap, the later may write over what the other wrote after both had truncated: the
\* file parses only if its copy is not the shorter one.
WriteFile(r) ==
  /\ pc[r] = "write" /\ GoTo(r, next[r])
  /\ file' = snap[r]
  /\ torn' \in (IF r \in overwritten THEN BOOLEAN ELSE {FALSE})
  /\ overwritten' = {q \in Claims \ {r} : pc[q] = "write"}
  /\ dropped' = dropped \cup {q \in Claims : file[q] # NoRecord /\ snap[r][q] = NoRecord}
  /\ setback' = setback \cup {q \in Claims : Rank(snap[r][q]) < Rank(file[q])}
  /\ running' = running \cup Starts(r)
  /\ Forget(r)
  /\ UNCHANGED <<claims, up, bit0, paid, unconfirmed, restarts, cut>>

\* Creating or, after it was truncated, writing the file fails: the request ends with an error.
WriteFails(r) ==
  /\ pc[r] = "write" /\ Cardinality(cut) < MaxCut /\ GoTo(r, "done")
  /\ torn' \in {torn, TRUE} /\ overwritten' = overwritten \ {r}
  /\ cut' = cut \cup {r}
  /\ Forget(r)
  /\ UNCHANGED <<claims, file, dropped, setback, up, outside, restarts>>

-----------------------------------------------------------------------------
(* Payout and device lock.                                                  *)

\* run_payout_command: the program ends in time, with a transaction id or with an error;
\* it may have paid although it reports an error.
PayoutDone(r) ==
  /\ pc[r] = "payout" /\ r \in running
  /\ running' = running \ {r} /\ paid' = paid \cup {r}
  /\ GoTo(r, "submit")
  /\ UNCHANGED <<memory, disk, up, bit0, unconfirmed, restarts, cut>>
PayoutFailed(r) ==
  /\ pc[r] = "payout" /\ r \in running
  /\ running' = running \ {r}
  /\ \/ UNCHANGED <<paid, unconfirmed>>
     \/ paid' = paid \cup {r} /\ unconfirmed' = unconfirmed \cup {r}
  /\ GoTo(r, "fail")
  /\ UNCHANGED <<memory, disk, up, bit0, restarts, cut>>

\* The time-out ends the wait, not the program.
PayoutTimedOut(r) ==
  /\ pc[r] = "payout"
  /\ unconfirmed' = unconfirmed \cup {r}
  /\ GoTo(r, "fail")
  /\ UNCHANGED <<memory, disk, up, bit0, running, paid, restarts, cut>>

\* A program nobody waits for ends.
PayoutUnobserved(r) ==
  /\ r \in running /\ pc[r] # "payout"
  /\ running' = running \ {r}
  /\ paid' = paid \/ paid' = paid \cup {r}
  /\ UNCHANGED <<pc, memory, disk, up, bit0, unconfirmed, restarts, cut>>

\* update_bit0_true, over both hosts; an error may come after the bit was set.
UpdateBit0(r) ==
  /\ pc[r] = "update"
  /\ bit0' = bit0 \cup {Device[r]} /\ GoTo(r, "complete")
  /\ UNCHANGED <<memory, disk, up, running, paid, unconfirmed, restarts, cut>>
UpdateFails(r) ==
  /\ pc[r] = "update" /\ GoTo(r, "lockfail")
  /\ bit0' = bit0 \/ bit0' = bit0 \cup {Device[r]}
  /\ UNCHANGED <<memory, disk, up, running, paid, unconfirmed, restarts, cut>>

\* debug_update_devicecheck_bit0
DebugUpdate(d) ==
  /\ up /\ d \notin bit0 /\ bit0' = bit0 \cup {d}
  /\ UNCHANGED <<pc, memory, disk, up, running, paid, unconfirmed, restarts, cut>>

-----------------------------------------------------------------------------
\* The client goes away: the handler is dropped where it waits.
Abandon(r) ==
  /\ pc[r] \in Awaits /\ Cardinality(cut) < MaxCut /\ GoTo(r, "done")
  /\ cut' = IF claims[r] = NoRecord THEN cut ELSE cut \cup {r}
  /\ UNCHANGED <<memory, disk, up, outside, restarts>>

\* The process dies, perhaps during a write, and starts again: load_claims reads the file,
\* or start-up fails.
Restart ==
  /\ restarts < MaxRestarts /\ restarts' = restarts + 1
  /\ torn' \in {torn, torn \/ \E r \in Claims : pc[r] = "write"}
  /\ up' = ~torn'
  /\ claims' = file
  /\ cut' = cut \cup {r \in Claims : pc[r] \notin {"new", "done"} /\ claims[r] # NoRecord}
  /\ pc' = [r \in Claims |-> IF pc[r] = "new" THEN "new" ELSE "done"]
  /\ overwritten' = {}
  /\ snap' = [r \in Claims |-> NoClaims] /\ next' = [r \in Claims |-> "done"]
  /\ UNCHANGED <<file, dropped, setback, outside>>

Check(r) == Admit(r) \/ QueryBit0(r) \/ QueryFails(r)
Ledger(r) ==
  \/ ReserveClaim(r) \/ ReserveRefused(r) \/ RecordRejected(r) \/ RecordFailed(r) \/ RecordSubmitted(r)
  \/ RecordLockFailed(r) \/ RecordCompleted(r) \/ WriteFile(r) \/ WriteFails(r)
Payout(r) ==
  \/ PayoutDone(r) \/ PayoutFailed(r) \/ PayoutTimedOut(r) \/ PayoutUnobserved(r)
  \/ UpdateBit0(r) \/ UpdateFails(r)

Next ==
  \/ Restart
  \/ \E d \in AppleDevices : DebugUpdate(d)
  \/ \E r \in Claims : Check(r) \/ Ledger(r) \/ Payout(r) \/ Abandon(r)

Spec == Init /\ [][Next]_vars

-----------------------------------------------------------------------------
(* Properties.                                                              *)

Rivals(p, q) == p # q /\ (Wallet[p] = Wallet[q] \/ Device[p] = Device[q])

\* No wallet and no device is paid twice, whatever requests run at once, are dropped, fail
\* or are cut by a restart (reserve_claim, claim_consumes_unique_slot; "Wallet-Unique-Slot",
\* "Device-Fingerprint-Unique-Slot"), except that the first payout was recorded as failed
\* while its program may have paid, or vanished from the file under an older snapshot.
PaidOnceOtherwise ==
  \A p, q \in paid : Rivals(p, q) => {p, q} \cap (unconfirmed \cup dropped) # {}

\* Once a payout program has been started its claim holds its slot in memory and in the
\* file, so that a restart does not free it (reserve_claim writes before it pays); the
\* exceptions are those of PaidOnceOtherwise.
SlotSurvives ==
  \A r \in (running \cup paid) \ unconfirmed :
    /\ r \notin dropped => ConsumesSlot(file[r])
    /\ r \notin dropped \/ restarts = 0 => ConsumesSlot(claims[r])

\* A reservation does not outlive its request, unless the request was cut short (its client
\* left, a write failed, the process died) or the file was set back to it.
\* (And every variable has its type.)
ReservationOwned ==
  /\ TypeOK
  /\ \A r \in Claims : claims[r].status = "Reserved" /\ r \notin cut \cup setback =>
       pc[r] \in {"write", "payout", "fail", "submit"}
=============================================================================
