---------------------------- MODULE PushRegistry ---------------------------
(***************************************************************************)
(* The push service: devices registered, updated, unregistered and pruned  *)
(* by concurrent handlers, each change followed by a write of the whole    *)
(* registry to one file, and events sent to the matching devices by the    *)
(* dispatch worker and by HTTP handlers, with dropped requests, failing    *)
(* writes and restarts.                                                    *)
(*                                                                         *)
(* Source: indexer/src/push.rs.  A handler is a task of a multi-threaded   *)
(* runtime.  A change is made under the write lock; the snapshot taken     *)
(* there is written after the lock is released, by truncating the file and *)
(* filling it.  Between finding its targets and sending to them a dispatch *)
(* holds no lock.                                                          *)
(***************************************************************************)
EXTENDS PushMatching

CONSTANTS
  Tokens,       \* device tokens
  Calls,        \* requests to register, update or unregister a device
  Op,           \* "register", "replace", "update" or "unregister"
  Device,       \* device token of each call
  Profile,      \* registration of each call, with the key of its wallet
  NoReg,        \* no registration
  Dispatches,   \* events to dispatch
  Event,        \* event of each dispatch
  Id,           \* transaction, or reply, of each dispatch
  Worker,       \* dispatches of the dispatch worker; the others are HTTP requests
  Presence,     \* presence messages: authenticated, never deduplicated
  Nonce,        \* challenge nonce of each authenticated request
  Scenarios,    \* sets of handlers that run together
  MaxFaults     \* bound: failed writes, dropped requests, expiries and restarts

Handlers == Calls \union Dispatches
Authenticated == Calls \union Presence

ASSUME RegistryAssumption ==
  /\ Worker \subseteq Dispatches /\ Presence \subseteq Dispatches \ Worker
  /\ Calls \cap Dispatches = {} /\ DOMAIN Nonce = Authenticated
  /\ \A c \in Calls : Device[c] \in Tokens /\ Profile[c].token = Device[c]
  /\ \A c \in Calls : NoReg # Profile[c]
  /\ Scenarios \subseteq SUBSET Handlers /\ MaxFaults \in Nat

VARIABLES
  pc,           \* where each handler is
  challenges,   \* PushService::challenges
  registrations,\* PushService::registrations
  recent,       \* PushService::recent_dispatches: <<token, id>>
  snap,         \* the snapshot each handler is about to write, and its number
  disp,         \* targets left, target being sent to, stale tokens of each dispatch
  file,         \* push-registrations.json: what was written out last
  torn,         \* the file is truncated or mixed, and does not parse
  crossed,      \* writers over whose truncated file another one has written
  up,           \* the service has started: its file could be read
  faults,
  \* history
  issued,       \* nonces given out so far
  authorized,   \* handlers that passed validate_auth
  stored,       \* numbers of the last change, of the file's and of the newest written
                \* snapshot, and of the newest snapshot whose write failed
  expected,     \* what the calls since have made of each registration
  excused,      \* tokens whose registration was lost or restored for a named reason
  delivered,    \* <<token, dispatch>> accepted by APNs or FCM
  repeatable    \* <<token, id>> whose delivery was forgotten, unknown or under way

memory == <<challenges, registrations, recent>>
disk == <<file, torn, crossed>>
history == <<issued, authorized, expected, excused, delivered, repeatable>>
vars == <<pc, memory, snap, disp, disk, up, faults, stored, history>>

Empty == [t \in Tokens |-> NoReg]
NoSnap == [regs |-> Empty, n |-> 0]
Idle == [todo |-> {}, sending |-> {}, stale |-> {}]
Fresh == [last |-> 0, file |-> 0, newest |-> 0, failed |-> 0]
Registered(regs) == {regs[t] : t \in {u \in Tokens : regs[u] # NoReg}}

Init ==
  /\ \E arriving \in Scenarios : pc = [h \in Handlers |-> IF h \in arriving THEN "new" ELSE "done"]
  /\ challenges = {} /\ registrations = Empty /\ recent = {}
  /\ snap = [h \in Handlers |-> NoSnap] /\ disp = [d \in Dispatches |-> Idle]
  /\ file = Empty /\ torn = FALSE /\ crossed = {}
  /\ up = TRUE /\ faults = 0 /\ stored = Fresh
  /\ issued = {} /\ authorized = {} /\ expected = Empty /\ excused = {}
  /\ delivered = {} /\ repeatable = {}

-----------------------------------------------------------------------------
(* Challenges *)

create_challenge(n) ==
  /\ up /\ n \notin issued
  /\ issued' = issued \union {n}
  /\ challenges' = challenges \union {n}
  /\ UNCHANGED <<pc, registrations, recent, snap, disp, disk, up, faults, stored, authorized,
                 expected, excused, delivered, repeatable>>

\* A challenge runs out; it is dropped before any is looked up.
ExpireChallenge(n) ==
  /\ up /\ n \in challenges /\ faults < MaxFaults
  /\ faults' = faults + 1
  /\ challenges' = challenges \ {n}
  /\ UNCHANGED <<pc, registrations, recent, snap, disp, disk, up, stored, history>>

\* Mutant: the nonce is looked up and left in place.
MutValidateAuth(h) ==
  /\ up /\ h \in Authenticated /\ pc[h] = "new" /\ Nonce[h] \in challenges
  /\ pc' = [pc EXCEPT ![h] = "auth"]
  /\ authorized' = authorized \union {h}
  /\ UNCHANGED <<challenges, registrations, recent, snap, disp, disk, up, faults, stored, issued,
                 expected, excused, delivered, repeatable>>

\* validate_auth: a check before the look-up leaves the nonce, one after it has used it up.
validate_auth(h) ==
  /\ up /\ h \in Authenticated /\ pc[h] = "new" /\ Nonce[h] \in issued
  /\ \/ /\ Nonce[h] \in challenges
        /\ challenges' = challenges \ {Nonce[h]}
        /\ pc' = [pc EXCEPT ![h] = "auth"]
        /\ authorized' = authorized \union {h}
     \/ /\ challenges' \in {challenges, challenges \ {Nonce[h]}}
        /\ pc' = [pc EXCEPT ![h] = "done"]
        /\ UNCHANGED authorized
  /\ UNCHANGED <<registrations, recent, snap, disp, disk, up, faults, stored, issued, expected,
                 excused, delivered, repeatable>>

-----------------------------------------------------------------------------
(* Changes *)

\* Mutant: the snapshot is taken before the change.
MutApply(c, regs) ==
  LET touched == {t \in Tokens : t = Device[c] \/ regs[t] # registrations[t]} IN
  /\ up /\ pc[c] = "auth"
  /\ pc' = [pc EXCEPT ![c] = "save"]
  /\ registrations' = regs
  /\ snap' = [snap EXCEPT ![c] = [regs |-> registrations, n |-> stored.last + 1]]
  /\ stored' = [stored EXCEPT !.last = @ + 1]
  /\ expected' = [t \in Tokens |-> IF t \in touched THEN regs[t] ELSE expected[t]]
  /\ excused' = excused \ touched

\* The change under the write lock, and its snapshot.
Apply(c, regs) ==
  LET touched == {t \in Tokens : t = Device[c] \/ regs[t] # registrations[t]} IN
  /\ up /\ pc[c] = "auth"
  /\ pc' = [pc EXCEPT ![c] = "save"]
  /\ registrations' = regs
  /\ snap' = [snap EXCEPT ![c] = [regs |-> regs, n |-> stored.last + 1]]
  /\ stored' = [stored EXCEPT !.last = @ + 1]
  /\ expected' = [t \in Tokens |-> IF t \in touched THEN regs[t] ELSE expected[t]]
  /\ excused' = excused \ touched

\* The token is bound to another wallet, or not there to update: nothing changes.
Refuse(c) ==
  /\ up /\ pc[c] = "auth"
  /\ pc' = [pc EXCEPT ![c] = "done"]
  /\ UNCHANGED <<registrations, snap, stored, expected, excused>>

\* register: "replace" also removes the other devices of the wallet, by key or address.
register(c) ==
  LET p == Profile[c]
      replaced(r) == r # NoReg /\ (r.key = p.key \/ registration_matches_address(r, p.wallet))
  IN /\ Op[c] \in {"register", "replace"}
     /\ Apply(c, [t \in Tokens |->
          IF t = Device[c] THEN p
          ELSE IF Op[c] = "replace" /\ replaced(registrations[t]) THEN NoReg
          ELSE registrations[t]])
     /\ UNCHANGED <<challenges, recent, disp, disk, up, faults, issued, authorized, delivered,
                    repeatable>>

update(c) ==
  LET bound == registrations[Device[c]] IN
  /\ Op[c] = "update"
  /\ IF bound # NoReg /\ bound.key = Profile[c].key
     THEN Apply(c, [registrations EXCEPT ![Device[c]] = Profile[c]]) ELSE Refuse(c)
  /\ UNCHANGED <<challenges, recent, disp, disk, up, faults, issued, authorized, delivered,
                 repeatable>>

unregister(c) ==
  LET bound == registrations[Device[c]] IN
  /\ Op[c] = "unregister"
  /\ IF bound = NoReg \/ bound.key = Profile[c].key
     THEN Apply(c, [registrations EXCEPT ![Device[c]] = NoReg]) ELSE Refuse(c)
  /\ UNCHANGED <<challenges, recent, disp, disk, up, faults, issued, authorized, delivered,
                 repeatable>>

-----------------------------------------------------------------------------
(* Dispatching *)

\* The targets of one service, under the read lock: of an event of the worker ...
EventTargets(d, type) ==
  IF Dispatchable(Event[d])
  THEN matching_registrations(Registered(registrations), Event[d], type) ELSE {}
\* ... of a presence message ...
PresenceTargets(d, type) ==
  registrations_for_wallet(Registered(registrations), Event[d].receiver, type)
\* ... and of a reply to a post.
ReplyTargets(d, type) ==
  matching_registrations(Registered(registrations), Event[d], type)

Found(d, type) ==
  IF d \in Worker THEN EventTargets(d, type)
  ELSE IF d \in Presence THEN PresenceTargets(d, type) ELSE ReplyTargets(d, type)

\* run_dispatch_worker takes an event when it is done with the last one; an HTTP
\* request dispatches by itself, a presence message once it is authenticated.
StartDispatch(d) ==
  /\ up /\ pc[d] = IF d \in Presence THEN "auth" ELSE "new"
  /\ d \in Worker => \A o \in Worker : pc[o] \in {"new", "done"}
  /\ pc' = [pc EXCEPT ![d] = "apns"]
  /\ disp' = [disp EXCEPT ![d].todo = Found(d, "apns")]
  /\ UNCHANGED <<memory, snap, disk, up, faults, stored, history>>

AnotherSends(d, t) == \E o \in Dispatches \ {d} : Id[o] = Id[d] /\ t \in disp[o].sending

was_recently_dispatched(d, t) == d \notin Presence /\ <<t, Id[d]>> \in recent

\* The next target: skipped if the event was sent to it already.
NextTarget(d) ==
  /\ up /\ pc[d] \in {"apns", "fcm"} /\ disp[d].sending = {}
  /\ \E r \in disp[d].todo :
       IF was_recently_dispatched(d, r.token)
       THEN disp' = [disp EXCEPT ![d].todo = @ \ {r}] /\ UNCHANGED repeatable
       ELSE /\ disp' = [disp EXCEPT ![d].sending = {r.token}]
            /\ repeatable' = IF AnotherSends(d, r.token)
                             THEN repeatable \union {<<r.token, Id[d]>>} ELSE repeatable
  /\ UNCHANGED <<pc, memory, snap, disk, up, faults, stored, issued, authorized, expected,
                 excused, delivered>>

\* Mutant: a delivery is not remembered.
MutSent(d, t) ==
  /\ delivered' = delivered \union {<<t, d>>}
  /\ UNCHANGED <<recent, repeatable>>

\* The provider has taken the message, which is remembered (mark_recent_dispatch) ...
Sent(d, t) ==
  /\ delivered' = delivered \union {<<t, d>>}
  /\ recent' = IF d \in Presence THEN recent ELSE recent \union {<<t, Id[d]>>}
  /\ UNCHANGED repeatable

\* ... or there is no usable answer, which may hide a delivery.
SendFailed(d, t) ==
  /\ \/ /\ delivered' = delivered \union {<<t, d>>}
        /\ repeatable' = repeatable \union {<<t, Id[d]>>}
     \/ UNCHANGED <<delivered, repeatable>>
  /\ UNCHANGED recent

\* The provider says that the token is invalid: it is collected for removal.
TokenInvalid(d, target) ==
  /\ disp' = [disp EXCEPT ![d] = [todo |-> @.todo \ target, sending |-> {},
                                  stale |-> @.stale \union target]]
  /\ UNCHANGED <<delivered, recent, repeatable>>

\* Mutant: after an error the target is tried again.
MutSendEnds(d) ==
  /\ up
  /\ \E t \in disp[d].sending :
       LET target == {r \in disp[d].todo : r.token = t} IN
       \/ disp' = [disp EXCEPT ![d].todo = @ \ target, ![d].sending = {}] /\ Sent(d, t)
       \/ disp' = [disp EXCEPT ![d].sending = {}] /\ SendFailed(d, t)
       \/ TokenInvalid(d, target)
  /\ UNCHANGED <<pc, challenges, registrations, snap, disk, up, faults, stored, issued,
                 authorized, expected, excused>>

\* One send ends.
SendEnds(d) ==
  /\ up
  /\ \E t \in disp[d].sending :
       LET target == {r \in disp[d].todo : r.token = t} IN
       \/ /\ disp' = [disp EXCEPT ![d] = [todo |-> @.todo \ target, sending |-> {},
                                          stale |-> @.stale]]
          /\ Sent(d, t) \/ SendFailed(d, t)
       \/ TokenInvalid(d, target)
  /\ UNCHANGED <<pc, challenges, registrations, snap, disk, up, faults, stored, issued,
                 authorized, expected, excused>>

\* APNs first, then FCM over the registrations of that moment, then the stale tokens.
EndOfTargets(d) ==
  /\ up /\ pc[d] \in {"apns", "fcm"} /\ disp[d].todo = {}
  /\ pc' = [pc EXCEPT ![d] = CASE pc[d] = "apns" -> "fcm"
                               [] pc[d] = "fcm" /\ disp[d].stale # {} -> "prune"
                               [] OTHER -> "done"]
  /\ disp' = IF pc[d] = "apns" THEN [disp EXCEPT ![d].todo = Found(d, "fcm")] ELSE disp
  /\ UNCHANGED <<memory, snap, disk, up, faults, stored, history>>

\* Registrations are pruned by their token alone: one made anew since it was matched
\* goes as well.
remove_stale_registrations(d) ==
  LET gone == {r.token : r \in disp[d].stale}
      renewed == {t \in gone : registrations[t] \notin disp[d].stale \union {NoReg}}
      pruned == [t \in Tokens |-> IF t \in gone THEN NoReg ELSE registrations[t]]
  IN /\ up /\ d \in Dispatches /\ pc[d] = "prune"
     /\ registrations' = pruned
     /\ snap' = [snap EXCEPT ![d] = [regs |-> pruned, n |-> stored.last + 1]]
     /\ stored' = [stored EXCEPT !.last = @ + 1]
     /\ pc' = [pc EXCEPT ![d] = "save"]
     /\ disp' = [disp EXCEPT ![d] = Idle]
     /\ expected' = [t \in Tokens |-> IF t \in gone \ renewed THEN NoReg ELSE expected[t]]
     /\ excused' = (excused \ gone) \union renewed
     /\ UNCHANGED <<challenges, recent, disk, up, faults, issued, authorized, delivered,
                    repeatable>>

-----------------------------------------------------------------------------
(* The file *)

Writers == {h \in Handlers : pc[h] = "write"}

\* persist_registrations truncates the file ...
OpenFile(h) ==
  /\ up /\ pc[h] = "save"
  /\ pc' = [pc EXCEPT ![h] = "write"]
  /\ torn' = TRUE
  /\ UNCHANGED <<memory, snap, disp, file, crossed, up, faults, stored, history>>

\* ... and fills it.  Two writers at once may leave a mixture.
WriteFile(h) ==
  /\ up /\ pc[h] = "write"
  /\ pc' = [pc EXCEPT ![h] = "done"]
  /\ file' = snap[h].regs
  /\ torn' \in IF h \in crossed \/ Writers # {h} THEN BOOLEAN ELSE {FALSE}
  /\ crossed' = (crossed \union Writers) \ {h}
  /\ stored' = [stored EXCEPT !.file = snap[h].n,
                              !.newest = IF snap[h].n > @ THEN snap[h].n ELSE @]
  /\ snap' = [snap EXCEPT ![h] = NoSnap]
  /\ UNCHANGED <<memory, disp, up, faults, history>>

\* Creating or filling the file fails; the change stays in memory.
WriteFails(h) ==
  /\ up /\ pc[h] \in {"save", "write"} /\ faults < MaxFaults
  /\ faults' = faults + 1
  /\ pc' = [pc EXCEPT ![h] = "done"]
  /\ crossed' = crossed \ {h}
  /\ stored' = [stored EXCEPT !.failed = IF snap[h].n > @ THEN snap[h].n ELSE @]
  /\ snap' = [snap EXCEPT ![h] = NoSnap]
  /\ UNCHANGED <<memory, disp, file, torn, up, history>>

-----------------------------------------------------------------------------
(* Faults *)

\* The client of an HTTP request goes away while its handler waits for a lock or for
\* a provider's answer.
DropRequest(h) ==
  /\ up /\ h \notin Worker /\ pc[h] \in {"auth", "apns", "fcm", "prune"} /\ faults < MaxFaults
  /\ faults' = faults + 1
  /\ pc' = [pc EXCEPT ![h] = "done"]
  /\ LET sent == IF h \in Dispatches THEN {<<t, h>> : t \in disp[h].sending} ELSE {} IN
       /\ delivered' = delivered \union sent
       /\ repeatable' = repeatable \union {<<s[1], Id[s[2]]>> : s \in sent}
  /\ disp' = [d \in Dispatches |-> IF d = h THEN Idle ELSE disp[d]]
  /\ UNCHANGED <<memory, snap, disk, up, stored, issued, authorized, expected, excused>>

\* A delivery is forgotten after DISPATCH_DEDUPE_TTL.
ForgetDelivery(p) ==
  /\ up /\ p \in recent /\ faults < MaxFaults
  /\ faults' = faults + 1
  /\ recent' = recent \ {p}
  /\ repeatable' = repeatable \union {p}
  /\ UNCHANGED <<pc, challenges, registrations, snap, disp, disk, up, stored, issued,
                 authorized, expected, excused, delivered>>

\* The process stops anywhere and load_registrations reads the file, or fails on it.
\* A snapshot that was not written, or was overwritten by an older one, is lost.
Restart ==
  /\ up /\ faults < MaxFaults
  /\ faults' = faults + 1
  /\ up' = ~torn
  /\ pc' = [h \in Handlers |-> IF pc[h] = "new" THEN "new" ELSE "done"]
  /\ challenges' = {} /\ recent' = {}
  /\ registrations' = IF torn THEN Empty ELSE file
  /\ snap' = [h \in Handlers |-> NoSnap] /\ disp' = [d \in Dispatches |-> Idle]
  /\ stored' = Fresh /\ crossed' = {}
  /\ LET lossy == \/ \E h \in Handlers : pc[h] \in {"save", "write"}
                  \/ stored.file < stored.newest \/ stored.file < stored.failed
                  \/ torn
     IN excused' = IF lossy THEN excused \union {t \in Tokens : registrations'[t] # expected[t]}
                   ELSE excused
  /\ repeatable' = repeatable \union recent
                     \union UNION {{<<t, Id[d]>> : t \in disp[d].sending} : d \in Dispatches}
  /\ delivered' = delivered \union UNION {{<<t, d>> : t \in disp[d].sending} : d \in Dispatches}
  /\ UNCHANGED <<file, torn, issued, authorized, expected>>

Next ==
  \/ \E n \in {Nonce[h] : h \in {a \in Authenticated : pc[a] = "new"}} :
       create_challenge(n) \/ ExpireChallenge(n)
  \/ \E c \in Calls : register(c) \/ update(c) \/ unregister(c)
  \/ \E h \in Handlers :
       validate_auth(h) \/ OpenFile(h) \/ WriteFile(h) \/ WriteFails(h) \/ DropRequest(h)
  \/ \E d \in Dispatches :
       StartDispatch(d) \/ NextTarget(d) \/ SendEnds(d) \/ EndOfTargets(d)
       \/ remove_stale_registrations(d)
  \/ \E p \in recent : ForgetDelivery(p)
  \/ Restart

\* A task goes on, and a provider answers within the 15 seconds of the HTTP clients.
DispatchStep(d) ==
  \/ StartDispatch(d) \/ NextTarget(d) \/ SendEnds(d) \/ EndOfTargets(d)
  \/ remove_stale_registrations(d) \/ OpenFile(d) \/ WriteFile(d)

Spec == Init /\ [][Next]_vars /\ \A d \in Worker : WF_vars(DispatchStep(d))

-----------------------------------------------------------------------------
(* Properties *)

TypeOK ==
  /\ pc \in [Handlers -> {"new", "auth", "apns", "fcm", "prune", "save", "write", "done"}]
  /\ challenges \subseteq issued
  /\ registrations \in [Tokens -> {Profile[c] : c \in Calls} \union {NoReg}]
  /\ file \in [Tokens -> {Profile[c] : c \in Calls} \union {NoReg}]
  /\ recent \subseteq Tokens \X {Id[d] : d \in Dispatches}
  /\ crossed \subseteq Writers /\ torn \in BOOLEAN /\ up \in BOOLEAN
  /\ \A d \in Dispatches : \A t, u \in disp[d].sending : t = u
  /\ \A h \in Handlers : snap[h] # NoSnap <=> pc[h] \in {"save", "write"}
  /\ faults \in 0..MaxFaults

\* A registration is what the last call about its token made of it, through every
\* interleaving of handlers, writes and restarts; except for one that was pruned after it
\* had been made anew, and for what a restart finds after a write that failed, had not
\* ended, or came after the write of a newer snapshot.
\* (And every variable has its type.)
RegistrationKept == TypeOK /\ \A t \in Tokens : t \in excused \/ registrations[t] = expected[t]

\* Whatever the registry holds, was asked for by an authenticated request for this token,
\* in memory, in the file and in every snapshot on its way there; and a challenge has
\* authenticated that request and no other, over restarts too.
Authentic ==
  LET only(c) == \A h \in authorized : Nonce[h] = Nonce[c] => h = c
      asked == {Profile[c] : c \in {k \in Calls \cap authorized : only(k)}}
      sound(regs) == \A t \in Tokens : regs[t] # NoReg => regs[t] \in asked /\ regs[t].token = t
  IN sound(registrations) /\ sound(file) /\ \A h \in Handlers : sound(snap[h].regs)

\* A device is notified of a transaction once, even if two dispatches carry it; except
\* when the first delivery was forgotten (after its time, or by a restart), when its
\* answer did not arrive, or when both were under way at once.
NotifiedOnce ==
  \A s \in delivered : s[2] \notin Presence =>
    \A o \in delivered \ {s} : /\ o[1] = s[1] /\ o[2] \notin Presence /\ Id[o[2]] = Id[s[2]]
                            => <<s[1], Id[s[2]]>> \in repeatable

\* The dispatch worker gets through its queue: no answer of a provider, failing write or
\* change of the registry holds it up.
WorkerServes ==
  \A d \in Worker : up ~> (pc[d] = "done" \/ ~up)
=============================================================================
