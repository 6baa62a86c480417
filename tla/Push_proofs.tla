---------------------------- MODULE Push_proofs ----------------------------
(***************************************************************************)
(* Proofs about the push service.  For any devices, requests, events and   *)
(* number of faults: what the registry holds was asked for by a request    *)
(* with a challenge of its own, what was acknowledged is kept over         *)
(* restarts, and a device is notified once of a transaction.  For any      *)
(* finite set of registrations and any event: the targets of a dispatch    *)
(* are the devices of the right wallet.                                    *)
(***************************************************************************)
EXTENDS PushRegistry, PushRouting, FiniteSetTheorems, TLAPS

\* Most steps need no arithmetic: Zenon is tried before the SMT solver.
USE ZenonT(2), SMTT(15)

-----------------------------------------------------------------------------
(* The inductive invariant *)

\* A request past validate_auth is authorized.
Admitted == \A c \in Calls : pc[c] = "auth" => c \in authorized

\* A challenge that has authenticated a request is used up for good, so none has
\* authenticated two.
Spent ==
  /\ challenges \subseteq issued
  /\ \A h \in authorized : Nonce[h] \in issued \ challenges
  /\ \A h, k \in authorized : Nonce[h] = Nonce[k] => h = k

\* Registrations that a call of A asked for, each under its own token.
AskedBy(A, regs) ==
  /\ regs = [t \in Tokens |-> regs[t]]
  /\ \A t \in Tokens : regs[t] # NoReg =>
       \E c \in Calls \cap A : regs[t] = Profile[c] /\ Device[c] = t

Shape ==
  /\ pc \in [Handlers -> {"new", "auth", "apns", "fcm", "prune", "save", "write", "done"}]
  /\ snap = [h \in Handlers |-> snap[h]]

\* Registry, file and snapshots hold what was asked for.
Sound ==
  /\ AskedBy(authorized, registrations) /\ AskedBy(authorized, file)
  /\ \A h \in Handlers : AskedBy(authorized, snap[h].regs)

AuthInv == Shape /\ Admitted /\ Spent /\ Sound

LEMMA EmptyAsked == \A A : AskedBy(A, Empty) /\ AskedBy(A, NoSnap.regs)
  BY DEF AskedBy, Empty, NoSnap

LEMMA AskedGrows ==
  ASSUME NEW A, NEW B, A \subseteq B, NEW regs, AskedBy(A, regs)
  PROVE  AskedBy(B, regs)
  BY DEF AskedBy

LEMMA InitAuth == Init => AuthInv
<1> SUFFICES ASSUME Init PROVE AuthInv
  OBVIOUS
<1>1. Shape
  BY DEF Init, Shape, Empty
<1>2. Admitted /\ Spent
  BY DEF Init, Admitted, Spent, Handlers
<1>3. Sound
  BY EmptyAsked DEF Init, Sound
<1>4. QED BY <1>1, <1>2, <1>3 DEF AuthInv

-----------------------------------------------------------------------------
(* Challenges *)

LEMMA ChallengeAuth ==
  ASSUME AuthInv, NEW n, create_challenge(n) \/ ExpireChallenge(n)
  PROVE  AuthInv'
<1> USE DEF create_challenge, ExpireChallenge, disk, history
<1>1. Shape' /\ Admitted'
  BY DEF AuthInv, Shape, Admitted
<1>2. Spent'
  BY DEF AuthInv, Spent
<1>3. Sound'
  BY DEF AuthInv, Sound
<1>4. QED BY <1>1, <1>2, <1>3 DEF AuthInv

LEMMA ValidateAuth ==
  ASSUME AuthInv, NEW h \in Handlers, validate_auth(h)
  PROVE  AuthInv'
<1> USE DEF validate_auth, disk
<1>1. Shape'
  BY DEF AuthInv, Shape
<1>2. Admitted'
  BY DEF AuthInv, Shape, Admitted, Handlers
<1>3. Spent'
  BY DEF AuthInv, Spent
<1>4. authorized \subseteq authorized'
  OBVIOUS
<1>5. Sound'
  BY <1>4, AskedGrows DEF AuthInv, Sound
<1>6. QED BY <1>1, <1>2, <1>3, <1>5 DEF AuthInv

-----------------------------------------------------------------------------
(* Changes *)

\* A change to what is there, to nothing, or to what an authorized call asks for.
LEMMA ChangeAuth ==
  ASSUME AuthInv, NEW h \in Handlers, NEW regs, NEW n, AskedBy(authorized, regs),
         registrations' = regs, snap' = [snap EXCEPT ![h] = [regs |-> regs, n |-> n]],
         pc' = [pc EXCEPT ![h] = "save"],
         UNCHANGED <<challenges, file, issued, authorized>>
  PROVE  AuthInv'
<1>1. Shape'
  BY DEF AuthInv, Shape
<1>2. Admitted' /\ Spent'
  BY DEF AuthInv, Shape, Admitted, Spent, Handlers
<1>3. \A k \in Handlers : snap'[k].regs \in {regs, snap[k].regs}
  BY DEF AuthInv, Shape
<1>4. Sound'
  BY <1>3 DEF AuthInv, Sound
<1>5. QED BY <1>1, <1>2, <1>4 DEF AuthInv

LEMMA ApplyAuth ==
  ASSUME AuthInv, NEW c \in Calls, NEW regs, Apply(c, regs),
         regs = [t \in Tokens |-> regs[t]],
         \A t \in Tokens : \/ regs[t] \in {NoReg, registrations[t]}
                           \/ t = Device[c] /\ regs[t] = Profile[c],
         UNCHANGED <<challenges, file, issued, authorized>>
  PROVE  AuthInv'
<1>1. c \in Handlers /\ c \in authorized
  BY DEF Handlers, Apply, AuthInv, Admitted
<1>2. AskedBy(authorized, regs)
  BY <1>1 DEF AskedBy, AuthInv, Sound
<1>3. QED BY <1>1, <1>2, ChangeAuth DEF Apply

LEMMA RefuseAuth ==
  ASSUME AuthInv, NEW c \in Calls, Refuse(c), UNCHANGED <<challenges, file, issued, authorized>>
  PROVE  AuthInv'
<1>1. Shape' /\ Admitted' /\ Spent'
  BY DEF Refuse, AuthInv, Shape, Admitted, Spent, Handlers
<1>2. Sound'
  BY DEF Refuse, AuthInv, Sound
<1>3. QED BY <1>1, <1>2 DEF AuthInv

LEMMA CallAuth ==
  ASSUME AuthInv, NEW c \in Calls, register(c) \/ update(c) \/ unregister(c)
  PROVE  AuthInv'
<1>1. UNCHANGED <<challenges, file, issued, authorized>>
  BY DEF register, update, unregister, disk
<1>2. CASE register(c)
  <2> DEFINE replaced(r) ==
        r # NoReg /\ (r.key = Profile[c].key \/ registration_matches_address(r, Profile[c].wallet))
      regs == [t \in Tokens |->
                 IF t = Device[c] THEN Profile[c]
                 ELSE IF Op[c] = "replace" /\ replaced(registrations[t]) THEN NoReg
                 ELSE registrations[t]]
  <2>1. Apply(c, regs)
    BY <1>2 DEF register
  <2> HIDE DEF replaced
  <2>2. \A t \in Tokens : \/ regs[t] \in {NoReg, registrations[t]}
                          \/ t = Device[c] /\ regs[t] = Profile[c]
    OBVIOUS
  <2>3. regs = [t \in Tokens |-> regs[t]]
    OBVIOUS
  <2> HIDE DEF regs
  <2>4. QED BY <1>1, <2>1, <2>2, <2>3, ApplyAuth
<1>3. ASSUME NEW r \in {Profile[c], NoReg}, Apply(c, [registrations EXCEPT ![Device[c]] = r])
      PROVE  AuthInv'
  <2> DEFINE regs == [registrations EXCEPT ![Device[c]] = r]
  <2>1. \A t \in Tokens : \/ regs[t] \in {NoReg, registrations[t]}
                          \/ t = Device[c] /\ regs[t] = Profile[c]
    BY DEF AuthInv, Sound, AskedBy
  <2>2. regs = [t \in Tokens |-> regs[t]]
    BY DEF AuthInv, Sound, AskedBy
  <2>3. Apply(c, regs)
    BY <1>3
  <2> HIDE DEF regs
  <2>4. QED BY <1>1, <2>1, <2>2, <2>3, ApplyAuth
<1>4. CASE update(c)
  BY <1>1, <1>3, <1>4, RefuseAuth DEF update
<1>5. CASE unregister(c)
  BY <1>1, <1>3, <1>5, RefuseAuth DEF unregister
<1>6. QED BY <1>2, <1>4, <1>5

\* A step of a dispatch, or of a request that ends.
LEMMA StayAuth ==
  ASSUME AuthInv, UNCHANGED <<challenges, registrations, snap, file, issued, authorized>>,
         pc' \in [Handlers -> {"new", "auth", "apns", "fcm", "prune", "save", "write", "done"}],
         \A c \in Calls : pc'[c] = "auth" => pc[c] = "auth"
  PROVE  AuthInv'
<1>1. Shape' /\ Admitted' /\ Spent'
  BY DEF AuthInv, Shape, Admitted, Spent
<1>2. Sound'
  BY DEF AuthInv, Sound
<1>3. QED BY <1>1, <1>2 DEF AuthInv

LEMMA DispatchAuth ==
  ASSUME AuthInv, NEW d \in Dispatches,
         StartDispatch(d) \/ NextTarget(d) \/ SendEnds(d) \/ EndOfTargets(d)
  PROVE  AuthInv'
<1>1. UNCHANGED <<challenges, registrations, snap, file, issued, authorized>>
  BY DEF StartDispatch, NextTarget, SendEnds, EndOfTargets, memory, disk, history
<1>2. d \in Handlers
  BY DEF Handlers
<1>3. PICK s \in {"apns", "fcm", "prune", "done"} :
        pc' = pc \/ pc' = [pc EXCEPT ![d] = s]
  BY DEF StartDispatch, NextTarget, SendEnds, EndOfTargets
<1>4. pc' \in [Handlers -> {"new", "auth", "apns", "fcm", "prune", "save", "write", "done"}]
  BY <1>2, <1>3 DEF AuthInv, Shape
<1>5. \A c \in Calls : pc'[c] = "auth" => pc[c] = "auth"
  BY <1>2, <1>3 DEF AuthInv, Shape, Handlers
<1>6. QED BY <1>1, <1>4, <1>5, StayAuth

LEMMA PruneAuth ==
  ASSUME AuthInv, NEW d \in Dispatches, remove_stale_registrations(d)
  PROVE  AuthInv'
<1> DEFINE gone == {r.token : r \in disp[d].stale}
           pruned == [t \in Tokens |-> IF t \in gone THEN NoReg ELSE registrations[t]]
<1>1. /\ registrations' = pruned
      /\ snap' = [snap EXCEPT ![d] = [regs |-> pruned, n |-> stored.last + 1]]
      /\ pc' = [pc EXCEPT ![d] = "save"]
      /\ UNCHANGED <<challenges, file, issued, authorized>>
  BY DEF remove_stale_registrations, disk
<1>2. AskedBy(authorized, pruned)
  BY ZenonT(30) DEF AskedBy, AuthInv, Sound
<1>3. d \in Handlers
  BY DEF Handlers
<1> HIDE DEF pruned
<1>4. QED BY <1>1, <1>2, <1>3, ChangeAuth

-----------------------------------------------------------------------------
(* The file, faults *)

LEMMA FileAuth ==
  ASSUME AuthInv, NEW h \in Handlers, OpenFile(h) \/ WriteFile(h) \/ WriteFails(h)
  PROVE  AuthInv'
<1>1. UNCHANGED <<challenges, registrations, issued, authorized>>
  BY DEF OpenFile, WriteFile, WriteFails, memory, history
<1>2. pc' = [pc EXCEPT ![h] = "write"] \/ pc' = [pc EXCEPT ![h] = "done"]
  BY DEF OpenFile, WriteFile, WriteFails
<1>3. snap' = snap \/ snap' = [snap EXCEPT ![h] = NoSnap]
  BY DEF OpenFile, WriteFile, WriteFails
<1>4. file' = file \/ file' = snap[h].regs
  BY DEF OpenFile, WriteFile, WriteFails
<1>5. Shape' /\ Admitted' /\ Spent'
  <2>1. Shape'
    BY <1>1, <1>2, <1>3 DEF AuthInv, Shape
  <2>2. Admitted' /\ Spent'
    BY <1>1, <1>2 DEF AuthInv, Shape, Admitted, Spent, Handlers
  <2>3. QED BY <2>1, <2>2
<1>6. Sound'
  <2>1. \A k \in Handlers : snap'[k] \in {snap[k], NoSnap}
    BY <1>3 DEF AuthInv, Shape
  <2>2. QED BY <1>1, <1>4, <2>1, EmptyAsked DEF AuthInv, Sound
<1>7. QED BY <1>5, <1>6 DEF AuthInv

LEMMA DropAuth ==
  ASSUME AuthInv, NEW h \in Handlers, DropRequest(h)
  PROVE  AuthInv'
<1>1. /\ UNCHANGED <<challenges, registrations, snap, file, issued, authorized>>
      /\ pc' = [pc EXCEPT ![h] = "done"]
  BY DEF DropRequest, memory, disk
<1>2. QED BY <1>1, StayAuth DEF AuthInv, Shape, Handlers

LEMMA ForgetAuth ==
  ASSUME AuthInv, NEW p, ForgetDelivery(p)
  PROVE  AuthInv'
  BY StayAuth DEF ForgetDelivery, disk, AuthInv, Shape

LEMMA RestartAuth ==
  ASSUME AuthInv, Restart
  PROVE  AuthInv'
<1>1. /\ pc' = [h \in Handlers |-> IF pc[h] = "new" THEN "new" ELSE "done"]
      /\ challenges' = {} /\ registrations' \in {Empty, file}
      /\ snap' = [h \in Handlers |-> NoSnap]
      /\ UNCHANGED <<file, issued, authorized>>
  BY DEF Restart
<1>2. Shape' /\ Admitted' /\ Spent'
  BY <1>1 DEF AuthInv, Shape, Admitted, Spent, Handlers
<1>3. Sound'
  BY <1>1, EmptyAsked DEF AuthInv, Sound
<1>4. QED BY <1>2, <1>3 DEF AuthInv

LEMMA NextAuth ==
  ASSUME AuthInv, [Next]_vars
  PROVE  AuthInv'
<1>1. CASE UNCHANGED vars
  BY <1>1, StayAuth DEF AuthInv, Shape, vars, memory, disk, history
<1>2. QED BY <1>1, ChallengeAuth, ValidateAuth, CallAuth, DispatchAuth, PruneAuth, FileAuth,
             DropAuth, ForgetAuth, RestartAuth DEF Next

\* Whatever registry, file and snapshots hold was asked for by a request with a challenge
\* of its own (validate_auth, register, update), for any devices, requests and faults.
THEOREM RegistryIsAuthentic == Spec => []Authentic
<1>1. AuthInv => Authentic
  <2> SUFFICES ASSUME AuthInv PROVE Authentic
    OBVIOUS
  <2> DEFINE only(c) == \A h \in authorized : Nonce[h] = Nonce[c] => h = c
             asked == {Profile[c] : c \in {k \in Calls \cap authorized : only(k)}}
             sound(regs) ==
               \A t \in Tokens : regs[t] # NoReg => regs[t] \in asked /\ regs[t].token = t
  <2>1. \A c \in Calls \cap authorized : only(c)
    BY DEF AuthInv, Spent
  <2>2. \A c \in Calls \cap authorized : Profile[c] \in asked /\ Profile[c].token = Device[c]
    BY <2>1, RegistryAssumption
  <2> HIDE DEF asked
  <2>3. \A regs : AskedBy(authorized, regs) => sound(regs)
    BY <2>2 DEF AskedBy
  <2>4. sound(registrations) /\ sound(file) /\ \A h \in Handlers : sound(snap[h].regs)
    BY <2>3 DEF AuthInv, Sound
  <2>5. QED BY <2>4 DEF Authentic, asked
<1>2. QED BY <1>1, InitAuth, NextAuth, PTL DEF Spec

-----------------------------------------------------------------------------
(* One notification *)

Slots ==
  disp = [d \in Dispatches |->
            [todo |-> disp[d].todo, sending |-> disp[d].sending, stale |-> disp[d].stale]]

\* Dispatches that look at what was sent before.
Deduplicated == Dispatches \ Presence

\* A delivery is remembered, or named as one that may be repeated.
Remembered ==
  \A s \in delivered : s[2] \notin Presence => <<s[1], Id[s[2]]>> \in recent \union repeatable

\* What is being sent has not been delivered, or may be repeated.
Unsent ==
  \A d \in Deduplicated : \A t \in disp[d].sending : \A s \in delivered :
    s[2] \notin Presence /\ s[1] = t /\ Id[s[2]] = Id[d] => <<t, Id[d]>> \in repeatable

\* What is being sent twice at once may be repeated.
Alone ==
  \A d, o \in Deduplicated : \A t \in disp[d].sending \cap disp[o].sending :
    d # o /\ Id[d] = Id[o] => <<t, Id[d]>> \in repeatable

Once == Remembered /\ Unsent /\ Alone /\ NotifiedOnce
OnceInv == Slots /\ Once

LEMMA InitOnce == Init => OnceInv
<1> SUFFICES ASSUME Init PROVE OnceInv
  OBVIOUS
<1>1. Slots
  BY DEF Init, Slots, Idle
<1>2. Once
  BY DEF Init, Once, Remembered, Unsent, Alone, NotifiedOnce, Deduplicated, Idle
<1>3. QED BY <1>1, <1>2 DEF OnceInv

\* A step that begins no send, and after which each new delivery may be repeated.
LEMMA LossyStep ==
  ASSUME Once,
         \A d \in Dispatches : disp'[d].sending \subseteq disp[d].sending,
         recent \subseteq recent' \union repeatable', repeatable \subseteq repeatable',
         \A s \in delivered' \ delivered : <<s[1], Id[s[2]]>> \in repeatable'
  PROVE  Once'
<1>1. Remembered'
  BY DEF Once, Remembered
<1>2. Unsent'
  BY DEF Once, Unsent, Deduplicated
<1>3. Alone'
  BY DEF Once, Alone, Deduplicated
<1>4. NotifiedOnce'
  BY DEF Once, NotifiedOnce
<1>5. QED BY <1>1, <1>2, <1>3, <1>4 DEF Once

\* The slots of one dispatch are set.
LEMMA SetSlots ==
  ASSUME Slots, NEW d \in Dispatches, NEW todo, NEW sending, NEW stale,
         disp' = [disp EXCEPT ![d] = [todo |-> todo, sending |-> sending, stale |-> stale]]
  PROVE  /\ Slots' /\ disp'[d].sending = sending
         /\ \A o \in Dispatches : o # d => disp'[o].sending = disp[o].sending
  BY DEF Slots

LEMMA ExceptSlots ==
  ASSUME Slots, NEW d \in Dispatches, NEW x
  PROVE  /\ [disp[d] EXCEPT !.todo = x]
              = [todo |-> x, sending |-> disp[d].sending, stale |-> disp[d].stale]
         /\ [disp[d] EXCEPT !.sending = x]
              = [todo |-> disp[d].todo, sending |-> x, stale |-> disp[d].stale]
         /\ [disp[d] EXCEPT !.stale = x]
              = [todo |-> disp[d].todo, sending |-> disp[d].sending, stale |-> x]
<1>1. disp[d] = [todo |-> disp[d].todo, sending |-> disp[d].sending, stale |-> disp[d].stale]
  BY DEF Slots
<1>2. QED BY <1>1

LEMMA NextTargetOnce ==
  ASSUME OnceInv, NEW d \in Dispatches, NextTarget(d)
  PROVE  OnceInv'
<1>1. UNCHANGED <<recent, delivered>> /\ repeatable \subseteq repeatable'
  BY DEF NextTarget, memory
<1>2. PICK r \in disp[d].todo :
        IF was_recently_dispatched(d, r.token)
        THEN disp' = [disp EXCEPT ![d].todo = @ \ {r}] /\ UNCHANGED repeatable
        ELSE /\ disp' = [disp EXCEPT ![d].sending = {r.token}]
             /\ repeatable' = IF AnotherSends(d, r.token)
                              THEN repeatable \union {<<r.token, Id[d]>>} ELSE repeatable
  BY DEF NextTarget
<1>3. CASE was_recently_dispatched(d, r.token)
  <2>1. disp' = [disp EXCEPT ![d] = [todo |-> disp[d].todo \ {r}, sending |-> disp[d].sending,
                                     stale |-> disp[d].stale]]
    BY <1>2, <1>3, ExceptSlots DEF OnceInv
  <2>2. Slots' /\ \A o \in Dispatches : disp'[o].sending = disp[o].sending
    <3>1. Slots
      BY DEF OnceInv
    <3>2. /\ Slots' /\ disp'[d].sending = disp[d].sending
          /\ \A o \in Dispatches : o # d => disp'[o].sending = disp[o].sending
      BY <2>1, <3>1, SetSlots
    <3>3. QED BY <3>2
  <2>3. QED BY <1>1, <2>2, LossyStep DEF OnceInv
<1>4. CASE ~was_recently_dispatched(d, r.token)
  <2>1. disp' = [disp EXCEPT ![d] = [todo |-> disp[d].todo, sending |-> {r.token},
                                     stale |-> disp[d].stale]]
    BY <1>2, <1>4, ExceptSlots DEF OnceInv
  <2>2. /\ Slots' /\ disp'[d].sending = {r.token}
        /\ \A o \in Dispatches : o # d => disp'[o].sending = disp[o].sending
    BY <2>1, SetSlots DEF OnceInv
  <2>3. Remembered' /\ NotifiedOnce'
    BY <1>1 DEF OnceInv, Once, Remembered, NotifiedOnce
  <2>4. d \in Deduplicated => <<r.token, Id[d]>> \notin recent
    BY <1>4 DEF was_recently_dispatched, Deduplicated
  <2>5. Unsent'
    BY <1>1, <2>2, <2>4 DEF OnceInv, Once, Remembered, Unsent, Deduplicated
  <2>6. \A o \in Dispatches : /\ o # d /\ Id[o] = Id[d] /\ r.token \in disp[o].sending
                              => <<r.token, Id[d]>> \in repeatable'
    BY <1>2, <1>4 DEF AnotherSends
  <2>7. Alone'
    BY <1>1, <2>2, <2>6, ZenonT(30) DEF OnceInv, Once, Alone, Deduplicated
  <2>8. QED BY <2>2, <2>3, <2>5, <2>7 DEF OnceInv, Once
<1>5. QED BY <1>3, <1>4

LEMMA SentOnce ==
  ASSUME Once, NEW d \in Dispatches, NEW t \in disp[d].sending, Sent(d, t),
         disp'[d].sending = {},
         \A o \in Dispatches : o # d => disp'[o].sending = disp[o].sending
  PROVE  Once'
<1>1. /\ delivered' = delivered \union {<<t, d>>} /\ UNCHANGED repeatable
      /\ recent \subseteq recent' /\ (d \notin Presence => <<t, Id[d]>> \in recent')
  BY DEF Sent
<1>2. Remembered'
  BY <1>1 DEF Once, Remembered
<1>3. \A s \in delivered :
        s[2] \notin Presence /\ d \notin Presence /\ s[1] = t /\ Id[s[2]] = Id[d]
          => <<t, Id[d]>> \in repeatable
  BY DEF Once, Unsent, Deduplicated
<1>4. Unsent'
  <2> SUFFICES ASSUME NEW o \in Deduplicated, NEW u \in disp'[o].sending, NEW s \in delivered',
                      s[2] \notin Presence, s[1] = u, Id[s[2]] = Id[o]
               PROVE  <<u, Id[o]>> \in repeatable
    BY <1>1 DEF Unsent
  <2>1. o \in Dispatches /\ o # d /\ u \in disp[o].sending
    BY DEF Deduplicated
  <2>2. CASE s \in delivered
    BY <2>1, <2>2 DEF Once, Unsent
  <2>3. CASE s = <<t, d>>
    BY <2>1, <2>3 DEF Once, Alone, Deduplicated
  <2>4. QED BY <1>1, <2>2, <2>3
<1>5. Alone'
  BY <1>1 DEF Once, Alone, Deduplicated
<1>6. NotifiedOnce'
  <2> SUFFICES ASSUME NEW s \in delivered', s[2] \notin Presence, NEW o \in delivered' \ {s},
                      o[1] = s[1], o[2] \notin Presence, Id[o[2]] = Id[s[2]]
               PROVE  <<s[1], Id[s[2]]>> \in repeatable
    BY <1>1 DEF NotifiedOnce
  <2>1. CASE s \in delivered /\ o \in delivered
    BY <2>1 DEF Once, NotifiedOnce
  <2>2. CASE s = <<t, d>> /\ o \in delivered
    BY <1>3, <2>2
  <2>3. CASE o = <<t, d>> /\ s \in delivered
    BY <1>3, <2>3
  <2>4. QED BY <1>1, <2>1, <2>2, <2>3
<1>7. QED BY <1>2, <1>4, <1>5, <1>6 DEF Once

\* The same as LossyStep, for a step that sets the slots of one dispatch.
LEMMA LossySlots ==
  ASSUME OnceInv, NEW d \in Dispatches, NEW todo, NEW sending, NEW stale,
         sending \subseteq disp[d].sending,
         disp' = [disp EXCEPT ![d] = [todo |-> todo, sending |-> sending, stale |-> stale]],
         recent \subseteq recent' \union repeatable', repeatable \subseteq repeatable',
         \A s \in delivered' \ delivered : <<s[1], Id[s[2]]>> \in repeatable'
  PROVE  OnceInv'
<1>1. Slots
  BY DEF OnceInv
<1>2. /\ Slots' /\ disp'[d].sending = sending
      /\ \A o \in Dispatches : o # d => disp'[o].sending = disp[o].sending
  BY <1>1, SetSlots
<1>3. \A o \in Dispatches : disp'[o].sending \subseteq disp[o].sending
  BY <1>2
<1>4. Once'
  BY <1>3, LossyStep DEF OnceInv
<1>5. QED BY <1>2, <1>4 DEF OnceInv

LEMMA ClearedSlots ==
  ASSUME OnceInv, NEW d \in Dispatches, NEW todo, NEW stale,
         disp' = [disp EXCEPT ![d] = [todo |-> todo, sending |-> {}, stale |-> stale]],
         UNCHANGED recent, repeatable \subseteq repeatable',
         \A s \in delivered' \ delivered : <<s[1], Id[s[2]]>> \in repeatable'
  PROVE  OnceInv'
<1>1. PICK sending : sending = {}
  OBVIOUS
<1>2. /\ sending \subseteq disp[d].sending /\ recent \subseteq recent' \union repeatable'
      /\ disp' = [disp EXCEPT ![d] = [todo |-> todo, sending |-> sending, stale |-> stale]]
  BY <1>1
<1>3. QED BY <1>2, LossySlots

LEMMA SendEndsOnce ==
  ASSUME OnceInv, NEW d \in Dispatches, SendEnds(d)
  PROVE  OnceInv'
<1> DEFINE target(t) == {r \in disp[d].todo : r.token = t}
           freed(t) == [todo |-> disp[d].todo \ target(t), sending |-> {},
                        stale |-> disp[d].stale]
           marked(t) == [todo |-> disp[d].todo \ target(t), sending |-> {},
                         stale |-> disp[d].stale \union target(t)]
<1>1. PICK t \in disp[d].sending :
        \/ disp' = [disp EXCEPT ![d] = freed(t)] /\ (Sent(d, t) \/ SendFailed(d, t))
        \/ /\ disp' = [disp EXCEPT ![d] = marked(t)]
           /\ UNCHANGED <<delivered, recent, repeatable>>
  BY DEF SendEnds, TokenInvalid
<1>2. Slots
  BY DEF OnceInv
<1> HIDE DEF target
<1>3. CASE disp' = [disp EXCEPT ![d] = freed(t)] /\ Sent(d, t)
  <2>1. /\ Slots' /\ disp'[d].sending = {}
        /\ \A o \in Dispatches : o # d => disp'[o].sending = disp[o].sending
    BY <1>2, <1>3, SetSlots
  <2>2. Once'
    BY <1>3, <2>1, SentOnce DEF OnceInv
  <2>3. QED BY <2>1, <2>2 DEF OnceInv
<1>4. CASE disp' = [disp EXCEPT ![d] = freed(t)] /\ SendFailed(d, t)
  <2>1. /\ UNCHANGED recent /\ repeatable \subseteq repeatable'
        /\ \A s \in delivered' \ delivered : <<s[1], Id[s[2]]>> \in repeatable'
    BY <1>4 DEF SendFailed
  <2>2. QED BY <1>4, <2>1, ClearedSlots
<1>5. CASE /\ disp' = [disp EXCEPT ![d] = marked(t)]
           /\ UNCHANGED <<delivered, recent, repeatable>>
  BY <1>5, ClearedSlots
<1>6. QED BY <1>1, <1>3, <1>4, <1>5

\* A step that touches no slot but those it clears or fills with targets.
LEMMA DispatchOnce ==
  ASSUME OnceInv, NEW d \in Dispatches,
         StartDispatch(d) \/ EndOfTargets(d) \/ remove_stale_registrations(d)
  PROVE  OnceInv'
<1>1. UNCHANGED <<recent, repeatable, delivered>>
  BY DEF StartDispatch, EndOfTargets, remove_stale_registrations, memory, history
<1>2. CASE \E x : disp' = [disp EXCEPT ![d].todo = x]
  <2>1. PICK x : disp' = [disp EXCEPT ![d].todo = x]
    BY <1>2
  <2>2. disp' = [disp EXCEPT ![d] = [todo |-> x, sending |-> disp[d].sending,
                                     stale |-> disp[d].stale]]
    BY <2>1, ExceptSlots DEF OnceInv
  <2>3. QED BY <1>1, <2>2, LossySlots
<1>3. CASE disp' = [disp EXCEPT ![d] = Idle]
  <2>1. disp' = [disp EXCEPT ![d] = [todo |-> {}, sending |-> {}, stale |-> {}]]
    BY <1>3 DEF Idle
  <2>2. QED BY <1>1, <2>1, ClearedSlots
<1>4. CASE disp' = disp
  <2>1. Once'
    BY <1>1, <1>4, LossyStep DEF OnceInv
  <2>2. QED BY <1>4, <2>1 DEF OnceInv, Slots
<1>5. QED BY <1>2, <1>3, <1>4 DEF StartDispatch, EndOfTargets, remove_stale_registrations

LEMMA DropOnce ==
  ASSUME OnceInv, NEW h \in Handlers, DropRequest(h)
  PROVE  OnceInv'
<1> DEFINE sent == IF h \in Dispatches THEN {<<t, h>> : t \in disp[h].sending} ELSE {}
<1>1. /\ disp' = [d \in Dispatches |-> IF d = h THEN Idle ELSE disp[d]]
      /\ delivered' = delivered \union sent
      /\ repeatable' = repeatable \union {<<s[1], Id[s[2]]>> : s \in sent}
      /\ UNCHANGED recent
  BY DEF DropRequest, memory
<1> HIDE DEF sent
<1>2. \A s \in delivered' \ delivered : <<s[1], Id[s[2]]>> \in repeatable'
  BY <1>1
<1>3. \A d \in Dispatches : disp'[d].sending \subseteq disp[d].sending
  BY <1>1 DEF Idle
<1>4. Slots'
  BY <1>1 DEF OnceInv, Slots, Idle
<1>5. Once'
  BY <1>1, <1>2, <1>3, LossyStep DEF OnceInv
<1>6. QED BY <1>4, <1>5 DEF OnceInv

LEMMA RestartOnce ==
  ASSUME OnceInv, Restart
  PROVE  OnceInv'
<1> DEFINE cut == UNION {{<<t, Id[d]>> : t \in disp[d].sending} : d \in Dispatches}
           sent == UNION {{<<t, d>> : t \in disp[d].sending} : d \in Dispatches}
<1>1. /\ disp' = [d \in Dispatches |-> Idle]
      /\ delivered' = delivered \union sent
      /\ repeatable' = (repeatable \union recent) \union cut
  BY DEF Restart
<1>2. \A s \in sent : <<s[1], Id[s[2]]>> \in cut
  <2> SUFFICES ASSUME NEW s \in sent PROVE <<s[1], Id[s[2]]>> \in cut
    OBVIOUS
  <2>1. PICK d \in Dispatches : s \in {<<t, d>> : t \in disp[d].sending}
    OBVIOUS
  <2>2. PICK t \in disp[d].sending : s = <<t, d>>
    BY <2>1
  <2>3. <<t, Id[d]>> \in {<<u, Id[d]>> : u \in disp[d].sending}
    OBVIOUS
  <2>4. QED BY <2>2, <2>3
<1> HIDE DEF cut, sent
<1>3. \A s \in delivered' \ delivered : <<s[1], Id[s[2]]>> \in repeatable'
  BY <1>1, <1>2
<1>4. Slots' /\ \A d \in Dispatches : disp'[d].sending \subseteq disp[d].sending
  BY <1>1 DEF Slots, Idle
<1>5. Once'
  BY <1>1, <1>3, <1>4, LossyStep DEF OnceInv
<1>6. QED BY <1>4, <1>5 DEF OnceInv

LEMMA StayOnce ==
  ASSUME OnceInv, UNCHANGED <<disp, delivered>>, repeatable \subseteq repeatable',
         recent \subseteq recent' \union repeatable'
  PROVE  OnceInv'
<1>1. Once'
  BY LossyStep DEF OnceInv
<1>2. QED BY <1>1 DEF OnceInv, Slots

LEMMA NextOnce ==
  ASSUME OnceInv, [Next]_vars
  PROVE  OnceInv'
<1>1. ASSUME NEW n, create_challenge(n) \/ ExpireChallenge(n) \/ ForgetDelivery(n)
      PROVE  OnceInv'
  BY <1>1, StayOnce DEF create_challenge, ExpireChallenge, ForgetDelivery, history
<1>2. ASSUME NEW c \in Calls, register(c) \/ update(c) \/ unregister(c)
      PROVE  OnceInv'
  BY <1>2, StayOnce DEF register, update, unregister
<1>3. ASSUME NEW h \in Handlers, validate_auth(h) \/ OpenFile(h) \/ WriteFile(h) \/ WriteFails(h)
      PROVE  OnceInv'
  BY <1>3, StayOnce DEF validate_auth, OpenFile, WriteFile, WriteFails, memory, history
<1>4. CASE UNCHANGED vars
  BY <1>4, StayOnce DEF vars, memory, history
<1>5. QED BY <1>1, <1>2, <1>3, <1>4, NextTargetOnce, SendEndsOnce, DispatchOnce, DropOnce,
             RestartOnce DEF Next

\* A device is notified of a transaction once (was_recently_dispatched,
\* mark_recent_dispatch), except after the losses that repeatable names, for any number of
\* dispatches that run side by side.
THEOREM DevicesNotifiedOnce == Spec => []NotifiedOnce
<1>1. OnceInv => NotifiedOnce
  BY DEF OnceInv, Once
<1>2. QED BY <1>1, InitOnce, NextOnce, PTL DEF Spec
-----------------------------------------------------------------------------
(* What a restart finds *)

Saving(h) == pc[h] \in {"save", "write"}

\* The registry's file: a handler that saves holds a snapshot, numbered in the order of the
\* changes.
Numbered ==
  /\ stored \in [last : Nat, file : Nat, newest : Nat, failed : Nat]
  /\ stored.file <= stored.last /\ stored.newest <= stored.last /\ stored.failed <= stored.last
  /\ \A h \in Handlers : /\ snap[h].n \in Nat /\ snap[h].n <= stored.last
                         /\ snap[h] # NoSnap <=> Saving(h)

\* The snapshot of the last change holds the registrations; it is written, has failed, or
\* is on its way.
Latest ==
  /\ stored.file = stored.last => file = registrations
  /\ \A h \in Handlers : Saving(h) /\ snap[h].n = stored.last => snap[h].regs = registrations
  /\ \/ stored.last \in {stored.newest, stored.failed}
     \/ \E h \in Handlers : Saving(h) /\ snap[h].n = stored.last

Flags == crossed \subseteq Writers /\ torn \in BOOLEAN /\ up \in BOOLEAN /\ faults \in 0..MaxFaults

FileInv == Numbered /\ Flags /\ (up => Latest)

LEMMA InitFile == Init => FileInv
<1> SUFFICES ASSUME Init PROVE FileInv
  OBVIOUS
<1>1. \A h \in Handlers : pc[h] \in {"new", "done"} /\ snap[h] = NoSnap
  BY DEF Init
<1>2. stored = [last |-> 0, file |-> 0, newest |-> 0, failed |-> 0]
  BY DEF Init, Fresh
<1>3. Numbered
  BY <1>1, <1>2 DEF Numbered, NoSnap, Saving
<1>4. Flags
  <2>1. faults \in 0..MaxFaults
    BY RegistryAssumption DEF Init
  <2>2. crossed \subseteq Writers /\ torn \in BOOLEAN /\ up \in BOOLEAN
    BY DEF Init
  <2>3. QED BY <2>1, <2>2 DEF Flags
<1>5. Latest
  BY <1>1, <1>2 DEF Init, Latest, Saving
<1>6. QED BY <1>3, <1>4, <1>5 DEF FileInv

\* A change, and the snapshot taken under the same lock.
LEMMA ChangeFile ==
  ASSUME AuthInv, FileInv, up, NEW h \in Handlers, ~Saving(h), NEW regs,
         registrations' = regs, pc' = [pc EXCEPT ![h] = "save"],
         snap' = [snap EXCEPT ![h] = [regs |-> regs, n |-> stored.last + 1]],
         stored' = [stored EXCEPT !.last = @ + 1],
         UNCHANGED <<file, torn, crossed, up, faults>>
  PROVE  FileInv'
<1>1. /\ stored \in [last : Nat, file : Nat, newest : Nat, failed : Nat]
      /\ stored.file <= stored.last /\ stored.newest <= stored.last
      /\ stored.failed <= stored.last
  BY DEF FileInv, Numbered
<1>2. /\ stored' \in [last : Nat, file : Nat, newest : Nat, failed : Nat]
      /\ stored'.last = stored.last + 1 /\ stored'.file = stored.file
      /\ stored'.newest = stored.newest /\ stored'.failed = stored.failed
  BY <1>1
<1>3. /\ snap'[h].regs = regs /\ snap'[h].n = stored.last + 1 /\ pc'[h] = "save"
      /\ \A k \in Handlers : k # h => snap'[k] = snap[k] /\ pc'[k] = pc[k]
  BY DEF AuthInv, Shape
<1>4. snap'[h] # NoSnap
  BY <1>1, <1>3 DEF NoSnap
<1>5. \A k \in Handlers : k # h => snap[k].n \in Nat /\ snap[k].n <= stored.last
  BY DEF FileInv, Numbered
<1>6. Numbered'
  <2>1. \A k \in Handlers : k # h => /\ snap'[k].n \in Nat /\ snap'[k].n <= stored'.last
                                     /\ snap'[k] # NoSnap <=> Saving(k)'
    <3>1. \A k \in Handlers : k # h => (snap'[k] # NoSnap <=> Saving(k)')
      BY <1>3 DEF FileInv, Numbered, Saving
    <3>2. \A k \in Handlers : k # h => snap'[k].n \in Nat /\ snap'[k].n <= stored'.last
      BY <1>1, <1>2, <1>3, <1>5
    <3>3. QED BY <3>1, <3>2
  <2>2. /\ snap'[h].n \in Nat /\ snap'[h].n <= stored'.last
        /\ snap'[h] # NoSnap <=> Saving(h)'
    BY <1>1, <1>2, <1>3, <1>4 DEF Saving
  <2>3. /\ stored'.file <= stored'.last /\ stored'.newest <= stored'.last
        /\ stored'.failed <= stored'.last
    BY <1>1, <1>2
  <2>4. QED BY <1>2, <2>1, <2>2, <2>3 DEF Numbered
<1>7. Flags'
  BY <1>3 DEF FileInv, Flags, Writers, Saving
<1>8. Latest'
  <2>1. stored'.file # stored'.last
    BY <1>1, <1>2
  <2>2. \A k \in Handlers : snap'[k].n = stored'.last => k = h
    BY <1>1, <1>2, <1>3, <1>5
  <2>3. Saving(h)' /\ snap'[h].n = stored'.last
    BY <1>2, <1>3 DEF Saving
  <2>4. QED BY <1>3, <2>1, <2>2, <2>3 DEF Latest
<1>9. QED BY <1>6, <1>7, <1>8 DEF FileInv

\* A step that is none of the file's.
LEMMA StayFile ==
  ASSUME FileInv, UNCHANGED <<registrations, snap, file, torn, crossed, stored, up>>,
         faults' \in 0..MaxFaults,
         \A h \in Handlers : \/ pc'[h] = pc[h]
                             \/ /\ pc[h] \notin {"save", "write"}
                                /\ pc'[h] \notin {"save", "write"}
  PROVE  FileInv'
<1>1. \A h \in Handlers : Saving(h)' = Saving(h)
  BY DEF Saving
<1>2. Numbered'
  BY <1>1 DEF FileInv, Numbered
<1>3. Flags'
  BY DEF FileInv, Flags, Writers
<1>4. Latest => Latest'
  BY <1>1 DEF Latest
<1>5. QED BY <1>2, <1>3, <1>4 DEF FileInv

LEMMA OpenFileInv ==
  ASSUME AuthInv, FileInv, NEW h \in Handlers, OpenFile(h)
  PROVE  FileInv'
<1>1. /\ UNCHANGED <<registrations, snap, file, crossed, stored, up, faults>> /\ torn' = TRUE
      /\ pc[h] = "save" /\ pc' = [pc EXCEPT ![h] = "write"]
  BY DEF OpenFile, memory
<1>2. pc'[h] = "write" /\ \A k \in Handlers : k # h => pc'[k] = pc[k]
  BY <1>1 DEF AuthInv, Shape
<1>3. \A k \in Handlers : Saving(k)' = Saving(k)
  BY <1>1, <1>2 DEF Saving
<1>4. Numbered'
  BY <1>1, <1>3 DEF FileInv, Numbered
<1>5. Flags'
  BY <1>1, <1>2 DEF FileInv, Flags, Writers
<1>6. Latest => Latest'
  BY <1>1, <1>3 DEF Latest
<1>7. QED BY <1>1, <1>4, <1>5, <1>6 DEF FileInv

\* A handler is through with its snapshot: written, or failed.
LEMMA SavedFile ==
  ASSUME AuthInv, FileInv, NEW h \in Handlers, Saving(h),
         UNCHANGED <<registrations, up>>, pc' = [pc EXCEPT ![h] = "done"],
         snap' = [snap EXCEPT ![h] = NoSnap], NEW f \in Nat, NEW w \in Nat, NEW x \in Nat,
         stored' = [last |-> stored.last, file |-> f, newest |-> w, failed |-> x],
         f <= stored.last, w <= stored.last, x <= stored.last,
         f = stored.last /\ up => file' = registrations,
         stored.last \in {stored.newest, stored.failed, snap[h].n} => stored.last \in {w, x},
         Flags'
  PROVE  FileInv'
<1>1. stored \in [last : Nat, file : Nat, newest : Nat, failed : Nat]
  BY DEF FileInv, Numbered
<1>2. /\ stored' \in [last : Nat, file : Nat, newest : Nat, failed : Nat]
      /\ stored'.last = stored.last /\ stored'.file = f /\ stored'.newest = w
      /\ stored'.failed = x
  BY <1>1
<1>3. /\ snap'[h] = NoSnap /\ pc'[h] = "done"
      /\ \A k \in Handlers : k # h => snap'[k] = snap[k] /\ pc'[k] = pc[k]
  BY DEF AuthInv, Shape
<1>4. Numbered'
  <2>1. \A k \in Handlers : k # h => /\ snap'[k].n \in Nat /\ snap'[k].n <= stored'.last
                                     /\ snap'[k] # NoSnap <=> Saving(k)'
    BY <1>2, <1>3 DEF FileInv, Numbered, Saving
  <2>2. snap'[h].n \in Nat /\ snap'[h].n <= stored'.last
    BY <1>1, <1>2, <1>3 DEF NoSnap
  <2>3. snap'[h] # NoSnap <=> Saving(h)'
    BY <1>3 DEF Saving
  <2>4. QED BY <1>2, <2>1, <2>2, <2>3 DEF Numbered
<1>5. ASSUME up PROVE Latest'
  <2>1. Latest
    BY <1>5 DEF FileInv
  <2>2. stored'.file = stored'.last => file' = registrations'
    BY <1>2, <1>5
  <2>3. \A k \in Handlers : Saving(k)' => k # h /\ Saving(k) /\ snap'[k] = snap[k]
    BY <1>3 DEF Saving
  <2>4. \A k \in Handlers :
          Saving(k)' /\ snap'[k].n = stored'.last => snap'[k].regs = registrations'
    BY <1>2, <2>1, <2>3 DEF Latest
  <2>5. \A k \in Handlers : k # h /\ Saving(k) => Saving(k)' /\ snap'[k] = snap[k]
    BY <1>3 DEF Saving
  <2>6. \/ stored'.last \in {stored'.newest, stored'.failed}
        \/ \E k \in Handlers : Saving(k)' /\ snap'[k].n = stored'.last
    <3>1. CASE stored.last \in {stored.newest, stored.failed, snap[h].n}
      BY <1>2, <3>1
    <3>2. CASE \E k \in Handlers : k # h /\ Saving(k) /\ snap[k].n = stored.last
      BY <1>2, <2>5, <3>2
    <3>3. QED BY <2>1, <3>1, <3>2 DEF Latest
  <2>7. QED BY <2>2, <2>4, <2>6 DEF Latest
<1>6. QED BY <1>4, <1>5 DEF FileInv

LEMMA WriteFileInv ==
  ASSUME AuthInv, FileInv, NEW h \in Handlers, WriteFile(h)
  PROVE  FileInv'
<1> DEFINE w == IF snap[h].n > stored.newest THEN snap[h].n ELSE stored.newest
<1>1. /\ up /\ pc[h] = "write" /\ Saving(h)
      /\ pc' = [pc EXCEPT ![h] = "done"] /\ file' = snap[h].regs
      /\ snap' = [snap EXCEPT ![h] = NoSnap]
      /\ UNCHANGED <<registrations, up, faults>>
  BY DEF WriteFile, memory, Saving
<1>2. /\ stored \in [last : Nat, file : Nat, newest : Nat, failed : Nat]
      /\ stored.newest <= stored.last /\ stored.failed <= stored.last
      /\ snap[h].n \in Nat /\ snap[h].n <= stored.last
  BY DEF FileInv, Numbered
<1>3. stored' = [last |-> stored.last, file |-> snap[h].n, newest |-> w,
                 failed |-> stored.failed]
  <2>1. stored' = [stored EXCEPT !.file = snap[h].n, !.newest = w]
    BY DEF WriteFile
  <2> HIDE DEF w
  <2>2. QED BY <1>2, <2>1
<1>4. /\ w \in Nat /\ w <= stored.last /\ stored.failed \in Nat
      /\ stored.last \in {stored.newest, stored.failed, snap[h].n}
           => stored.last \in {w, stored.failed}
  BY <1>2
<1>5. snap[h].n = stored.last /\ up => file' = registrations
  BY <1>1 DEF FileInv, Latest
<1>6. Flags'
  <2>1. torn' \in BOOLEAN
    BY DEF WriteFile
  <2>2. pc'[h] = "done" /\ \A k \in Handlers : k # h => pc'[k] = pc[k]
    BY <1>1 DEF AuthInv, Shape
  <2>3. crossed' \subseteq Writers'
    BY <2>2 DEF WriteFile, FileInv, Flags, Writers
  <2>4. QED BY <1>1, <2>1, <2>3 DEF FileInv, Flags
<1> HIDE DEF w
<1>7. QED BY <1>1, <1>2, <1>3, <1>4, <1>5, <1>6, SavedFile

LEMMA WriteFailsInv ==
  ASSUME AuthInv, FileInv, NEW h \in Handlers, WriteFails(h)
  PROVE  FileInv'
<1> DEFINE x == IF snap[h].n > stored.failed THEN snap[h].n ELSE stored.failed
<1>1. /\ up /\ Saving(h)
      /\ pc' = [pc EXCEPT ![h] = "done"] /\ snap' = [snap EXCEPT ![h] = NoSnap]
      /\ UNCHANGED <<registrations, file, up, torn>>
  BY DEF WriteFails, memory, Saving
<1>2. /\ stored \in [last : Nat, file : Nat, newest : Nat, failed : Nat]
      /\ stored.newest <= stored.last /\ stored.failed <= stored.last
      /\ stored.file <= stored.last /\ stored.file \in Nat /\ stored.newest \in Nat
      /\ snap[h].n \in Nat /\ snap[h].n <= stored.last
  BY DEF FileInv, Numbered
<1>3. stored' = [last |-> stored.last, file |-> stored.file, newest |-> stored.newest,
                 failed |-> x]
  <2>1. stored' = [stored EXCEPT !.failed = x]
    BY DEF WriteFails
  <2> HIDE DEF x
  <2>2. QED BY <1>2, <2>1
<1>4. /\ x \in Nat /\ x <= stored.last
      /\ stored.last \in {stored.newest, stored.failed, snap[h].n}
           => stored.last \in {stored.newest, x}
  BY <1>2
<1>5. stored.file = stored.last /\ up => file' = registrations
  BY <1>1 DEF FileInv, Latest
<1>6. Flags'
  <2>1. faults' \in 0..MaxFaults
    BY RegistryAssumption DEF WriteFails, FileInv, Flags
  <2>2. pc'[h] = "done" /\ \A k \in Handlers : k # h => pc'[k] = pc[k]
    BY <1>1 DEF AuthInv, Shape
  <2>3. crossed' \subseteq Writers'
    BY <2>2 DEF WriteFails, FileInv, Flags, Writers
  <2>4. QED BY <1>1, <2>1, <2>3 DEF FileInv, Flags
<1> HIDE DEF x
<1>7. QED BY <1>1, <1>2, <1>3, <1>4, <1>5, <1>6, SavedFile

LEMMA RestartFile ==
  ASSUME AuthInv, FileInv, Restart
  PROVE  FileInv'
<1>1. /\ up' = ~torn /\ registrations' = (IF torn THEN Empty ELSE file)
      /\ pc' = [h \in Handlers |-> IF pc[h] = "new" THEN "new" ELSE "done"]
      /\ snap' = [h \in Handlers |-> NoSnap] /\ crossed' = {}
      /\ UNCHANGED <<file, torn>>
  BY DEF Restart
<1>2. stored' = [last |-> 0, file |-> 0, newest |-> 0, failed |-> 0]
  BY DEF Restart, Fresh
<1>3. \A h \in Handlers : snap'[h] = NoSnap /\ ~Saving(h)'
  BY <1>1 DEF Saving
<1>4. Numbered'
  BY <1>2, <1>3 DEF Numbered, NoSnap
<1>5. Flags'
  <2>1. faults' \in 0..MaxFaults
    BY RegistryAssumption DEF Restart, FileInv, Flags
  <2>2. QED BY <1>1, <2>1 DEF FileInv, Flags
<1>6. up' => Latest'
  BY <1>1, <1>2, <1>3 DEF Latest
<1>7. QED BY <1>4, <1>5, <1>6 DEF FileInv

LEMMA CallFile ==
  ASSUME AuthInv, FileInv, NEW c \in Calls, register(c) \/ update(c) \/ unregister(c)
  PROVE  FileInv'
<1>1. UNCHANGED <<file, torn, crossed, up, faults>>
  BY DEF register, update, unregister, disk
<1>2. c \in Handlers
  BY DEF Handlers
<1>3. ASSUME NEW regs, Apply(c, regs) PROVE FileInv'
  <2>1. ~Saving(c)
    BY <1>3 DEF Apply, Saving
  <2>2. QED BY <1>1, <1>2, <1>3, <2>1, ChangeFile DEF Apply
<1>4. ASSUME Refuse(c) PROVE FileInv'
  <2>1. pc[c] = "auth" /\ pc'[c] = "done" /\ \A k \in Handlers : k # c => pc'[k] = pc[k]
    BY <1>2, <1>4 DEF Refuse, AuthInv, Shape
  <2>2. QED BY <1>1, <1>4, <2>1, StayFile DEF Refuse, FileInv, Flags
<1>5. QED BY <1>3, <1>4 DEF register, update, unregister

LEMMA PruneFile ==
  ASSUME AuthInv, FileInv, NEW d \in Dispatches, remove_stale_registrations(d)
  PROVE  FileInv'
<1> DEFINE gone == {r.token : r \in disp[d].stale}
           pruned == [t \in Tokens |-> IF t \in gone THEN NoReg ELSE registrations[t]]
<1>1. /\ registrations' = pruned /\ up
      /\ snap' = [snap EXCEPT ![d] = [regs |-> pruned, n |-> stored.last + 1]]
      /\ stored' = [stored EXCEPT !.last = @ + 1]
      /\ pc' = [pc EXCEPT ![d] = "save"]
      /\ UNCHANGED <<file, torn, crossed, up, faults>>
  BY DEF remove_stale_registrations, disk
<1>2. d \in Handlers /\ ~Saving(d)
  BY DEF Handlers, remove_stale_registrations, Saving
<1> HIDE DEF pruned
<1>3. QED BY <1>1, <1>2, ChangeFile

LEMMA NextFile ==
  ASSUME AuthInv, FileInv, [Next]_vars
  PROVE  FileInv'
<1>1. ASSUME NEW n, create_challenge(n) \/ ExpireChallenge(n) \/ ForgetDelivery(n)
      PROVE  FileInv'
  <2>1. /\ UNCHANGED <<pc, registrations, snap, file, torn, crossed, stored, up>>
        /\ faults' = faults \/ (faults' = faults + 1 /\ faults < MaxFaults)
    BY <1>1 DEF create_challenge, ExpireChallenge, ForgetDelivery, disk
  <2>2. faults' \in 0..MaxFaults
    BY <2>1, RegistryAssumption DEF FileInv, Flags
  <2>3. QED BY <2>1, <2>2, StayFile
<1>2. ASSUME NEW h \in Handlers, validate_auth(h) \/ DropRequest(h)
      PROVE  FileInv'
  <2>1. /\ UNCHANGED <<registrations, snap, file, torn, crossed, stored, up>>
        /\ faults' = faults \/ (faults' = faults + 1 /\ faults < MaxFaults)
    BY <1>2 DEF validate_auth, DropRequest, disk, memory
  <2>2. faults' \in 0..MaxFaults
    BY <2>1, RegistryAssumption DEF FileInv, Flags
  <2>3. PICK s \in {"auth", "done"} : pc' = [pc EXCEPT ![h] = s]
    BY <1>2 DEF validate_auth, DropRequest
  <2>4. pc[h] \notin {"save", "write"}
    BY <1>2 DEF validate_auth, DropRequest
  <2>5. pc'[h] = s /\ \A k \in Handlers : k # h => pc'[k] = pc[k]
    BY <2>3 DEF AuthInv, Shape
  <2>6. QED BY <2>1, <2>2, <2>4, <2>5, StayFile
<1>3. ASSUME NEW d \in Dispatches,
             StartDispatch(d) \/ NextTarget(d) \/ SendEnds(d) \/ EndOfTargets(d)
      PROVE  FileInv'
  <2>1. UNCHANGED <<registrations, snap, file, torn, crossed, stored, up, faults>>
    BY <1>3 DEF StartDispatch, NextTarget, SendEnds, EndOfTargets, memory, disk
  <2>2. \/ UNCHANGED pc
        \/ /\ pc[d] \notin {"save", "write"}
           /\ \E s \in {"apns", "fcm", "prune", "done"} : pc' = [pc EXCEPT ![d] = s]
    BY <1>3 DEF StartDispatch, NextTarget, SendEnds, EndOfTargets
  <2>3. d \in Handlers
    BY DEF Handlers
  <2>4. \A h \in Handlers : \/ pc'[h] = pc[h]
                            \/ pc[h] \notin {"save", "write"} /\ pc'[h] \notin {"save", "write"}
    BY <2>2, <2>3 DEF AuthInv, Shape
  <2>5. QED BY <2>1, <2>4, StayFile DEF FileInv, Flags
<1>4. CASE UNCHANGED vars
  BY <1>4, StayFile DEF vars, memory, disk, FileInv, Flags
<1>5. QED BY <1>1, <1>2, <1>3, <1>4, CallFile, PruneFile, OpenFileInv, WriteFileInv,
             WriteFailsInv, RestartFile DEF Next

-----------------------------------------------------------------------------
(* What dispatches send to *)

\* A dispatch sends to tokens of the registry, one at a time, and only they are remembered.
Sending ==
  /\ \A d \in Dispatches : /\ \A r \in disp[d].todo : r.token \in Tokens
                           /\ disp[d].sending \subseteq Tokens
                           /\ \A t, u \in disp[d].sending : t = u
  /\ recent \subseteq Tokens \X {Id[d] : d \in Dispatches}

LEMMA FoundRegistered ==
  ASSUME AuthInv, NEW d, NEW type
  PROVE  \A r \in Found(d, type) : r.token \in Tokens
<1>1. \A r \in Registered(registrations) : r.token \in Tokens
  <2> SUFFICES ASSUME NEW t \in Tokens, registrations[t] # NoReg
               PROVE  registrations[t].token \in Tokens
    BY DEF Registered
  <2>1. PICK c \in Calls : registrations[t] = Profile[c]
    BY DEF AuthInv, Sound, AskedBy
  <2>2. QED BY <2>1, RegistryAssumption
<1>2. Found(d, type) \subseteq Registered(registrations)
  BY DEF Found, EventTargets, PresenceTargets, ReplyTargets, matching_registrations,
         registrations_for_wallet
<1>3. QED BY <1>1, <1>2

\* The slots of one dispatch are set to targets with a token of the registry.
LEMMA SetSending ==
  ASSUME Slots, Sending, NEW d \in Dispatches, NEW todo, NEW sending, NEW stale,
         disp' = [disp EXCEPT ![d] = [todo |-> todo, sending |-> sending, stale |-> stale]],
         \A r \in todo : r.token \in Tokens,
         sending \subseteq Tokens, \A t, u \in sending : t = u,
         recent' \subseteq Tokens \X {Id[o] : o \in Dispatches}
  PROVE  Sending'
<1>1. /\ disp'[d].todo = todo /\ disp'[d].sending = sending
      /\ \A o \in Dispatches : o # d => disp'[o] = disp[o]
  BY DEF Slots
<1>2. QED BY <1>1 DEF Sending

LEMMA DispatchSending ==
  ASSUME AuthInv, Slots, Sending, NEW d \in Dispatches,
         StartDispatch(d) \/ EndOfTargets(d) \/ remove_stale_registrations(d)
  PROVE  Sending'
<1>1. UNCHANGED recent
  BY DEF StartDispatch, EndOfTargets, remove_stale_registrations, memory
<1>2. ASSUME NEW type, disp' = [disp EXCEPT ![d].todo = Found(d, type)]
      PROVE  Sending'
  <2>1. PICK x : x = Found(d, type)
    OBVIOUS
  <2>2. \A r \in x : r.token \in Tokens
    BY <2>1, FoundRegistered
  <2>3. disp' = [disp EXCEPT ![d] = [todo |-> x, sending |-> disp[d].sending,
                                     stale |-> disp[d].stale]]
    BY <1>2, <2>1, ExceptSlots
  <2>4. PICK y, z : y = disp[d].sending /\ z = disp[d].stale
    OBVIOUS
  <2>5. /\ y \subseteq Tokens /\ \A t, u \in y : t = u
        /\ recent' \subseteq Tokens \X {Id[o] : o \in Dispatches}
    BY <1>1, <2>4 DEF Sending
  <2>6. disp' = [disp EXCEPT ![d] = [todo |-> x, sending |-> y, stale |-> z]]
    BY <2>3, <2>4
  <2>7. QED BY <2>2, <2>5, <2>6, SetSending
<1>3. CASE disp' = [disp EXCEPT ![d] = Idle]
  <2>1. PICK none : none = {}
    OBVIOUS
  <2>2. disp' = [disp EXCEPT ![d] = [todo |-> none, sending |-> none, stale |-> none]]
    BY <1>3, <2>1 DEF Idle
  <2>3. QED BY <1>1, <2>1, <2>2, SetSending DEF Sending
<1>4. CASE disp' = disp
  BY <1>1, <1>4 DEF Sending
<1>5. QED BY <1>2, <1>3, <1>4 DEF StartDispatch, EndOfTargets, remove_stale_registrations

LEMMA NextTargetSending ==
  ASSUME Slots, Sending, NEW d \in Dispatches, NextTarget(d)
  PROVE  Sending'
<1>1. UNCHANGED recent /\ recent \subseteq Tokens \X {Id[o] : o \in Dispatches}
  BY DEF NextTarget, memory, Sending
<1>2. PICK r \in disp[d].todo : \/ disp' = [disp EXCEPT ![d].todo = @ \ {r}]
                                \/ disp' = [disp EXCEPT ![d].sending = {r.token}]
  BY DEF NextTarget
<1>3. CASE disp' = [disp EXCEPT ![d].todo = @ \ {r}]
  <2>1. disp' = [disp EXCEPT ![d] = [todo |-> disp[d].todo \ {r}, sending |-> disp[d].sending,
                                     stale |-> disp[d].stale]]
    BY <1>3, ExceptSlots
  <2>2. \A q \in disp[d].todo \ {r} : q.token \in Tokens
    BY DEF Sending
  <2>3. disp[d].sending \subseteq Tokens /\ \A t, u \in disp[d].sending : t = u
    BY DEF Sending
  <2>4. QED BY <1>1, <2>1, <2>2, <2>3, SetSending
<1>4. CASE disp' = [disp EXCEPT ![d].sending = {r.token}]
  <2>1. PICK one : one = {r.token}
    OBVIOUS
  <2>2. disp' = [disp EXCEPT ![d] = [todo |-> disp[d].todo, sending |-> one,
                                     stale |-> disp[d].stale]]
    BY <1>4, <2>1, ExceptSlots
  <2>3. \A q \in disp[d].todo : q.token \in Tokens
    BY DEF Sending
  <2>4. one \subseteq Tokens /\ \A t, u \in one : t = u
    BY <2>1, <2>3
  <2>5. QED BY <1>1, <2>2, <2>3, <2>4, SetSending
<1>5. QED BY <1>2, <1>3, <1>4

LEMMA SendEndsSending ==
  ASSUME Slots, Sending, NEW d \in Dispatches, SendEnds(d)
  PROVE  Sending'
<1>1. PICK t \in disp[d].sending : recent' \subseteq recent \union {<<t, Id[d]>>}
  BY DEF SendEnds, Sent, SendFailed, TokenInvalid
<1>2. recent' \subseteq Tokens \X {Id[o] : o \in Dispatches}
  BY <1>1 DEF Sending
<1>3. PICK todo, stale, none :
        /\ todo \subseteq disp[d].todo /\ none = {}
        /\ disp' = [disp EXCEPT ![d] = [todo |-> todo, sending |-> none, stale |-> stale]]
  <2>1. PICK u : LET target == {r \in disp[d].todo : r.token = u} IN
          \/ disp' = [disp EXCEPT ![d] = [todo |-> @.todo \ target, sending |-> {},
                                          stale |-> @.stale]]
          \/ disp' = [disp EXCEPT ![d] = [todo |-> @.todo \ target, sending |-> {},
                                          stale |-> @.stale \union target]]
    BY DEF SendEnds, TokenInvalid
  <2>2. PICK todo, target :
          /\ todo \subseteq disp[d].todo
          /\ \/ disp' = [disp EXCEPT ![d] = [todo |-> todo, sending |-> {},
                                             stale |-> disp[d].stale]]
             \/ disp' = [disp EXCEPT ![d] = [todo |-> todo, sending |-> {},
                                             stale |-> disp[d].stale \union target]]
    BY <2>1
  <2>3. QED BY <2>2
<1>4. \A r \in todo : r.token \in Tokens
  BY <1>3 DEF Sending
<1>5. none \subseteq Tokens /\ \A u, v \in none : u = v
  BY <1>3
<1>6. disp' = [disp EXCEPT ![d] = [todo |-> todo, sending |-> none, stale |-> stale]]
  BY <1>3
<1>7. QED BY <1>2, <1>4, <1>5, <1>6, SetSending

LEMMA NextSending ==
  ASSUME AuthInv, OnceInv, Sending, [Next]_vars
  PROVE  Sending'
<1>1. ASSUME NEW n, create_challenge(n) \/ ExpireChallenge(n) \/ ForgetDelivery(n)
      PROVE  Sending'
  BY <1>1 DEF create_challenge, ExpireChallenge, ForgetDelivery, Sending
<1>2. ASSUME NEW c \in Calls, register(c) \/ update(c) \/ unregister(c)
      PROVE  Sending'
  BY <1>2 DEF register, update, unregister, Sending
<1>3. ASSUME NEW h \in Handlers, validate_auth(h) \/ OpenFile(h) \/ WriteFile(h) \/ WriteFails(h)
      PROVE  Sending'
  BY <1>3 DEF validate_auth, OpenFile, WriteFile, WriteFails, memory, Sending
<1>4. ASSUME recent' \subseteq recent, \A d \in Dispatches : disp'[d] \in {disp[d], Idle}
      PROVE  Sending'
  BY <1>4 DEF Sending, Idle
<1>5. ASSUME NEW h \in Handlers, DropRequest(h) PROVE Sending'
  BY <1>4, <1>5 DEF DropRequest, memory
<1>6. CASE Restart
  BY <1>4, <1>6 DEF Restart
<1>7. CASE UNCHANGED vars
  BY <1>7 DEF vars, memory, Sending
<1>8. Slots
  BY DEF OnceInv
<1>9. QED BY <1>1, <1>2, <1>3, <1>5, <1>6, <1>7, <1>8, DispatchSending, NextTargetSending,
             SendEndsSending DEF Next

-----------------------------------------------------------------------------
(* Registrations *)

\* A registration is what the calls made of it, or excused.
Kept == \A t \in Tokens : t \in excused \/ registrations[t] = expected[t]

LEMMA CallKept ==
  ASSUME Kept, NEW c \in Calls, register(c) \/ update(c) \/ unregister(c)
  PROVE  Kept'
<1>1. ASSUME NEW regs, Apply(c, regs) PROVE Kept'
  BY <1>1 DEF Apply, Kept
<1>2. ASSUME Refuse(c) PROVE Kept'
  BY <1>2 DEF Refuse, Kept
<1>3. QED BY <1>1, <1>2 DEF register, update, unregister

LEMMA PruneKept ==
  ASSUME Kept, NEW d \in Dispatches, remove_stale_registrations(d)
  PROVE  Kept'
<1> DEFINE gone == {r.token : r \in disp[d].stale}
           renewed == {t \in gone : registrations[t] \notin disp[d].stale \union {NoReg}}
<1>1. /\ registrations' = [t \in Tokens |-> IF t \in gone THEN NoReg ELSE registrations[t]]
      /\ expected' = [t \in Tokens |-> IF t \in gone \ renewed THEN NoReg ELSE expected[t]]
      /\ excused' = (excused \ gone) \union renewed
  BY DEF remove_stale_registrations
<1> HIDE DEF gone, renewed
<1>2. QED BY <1>1 DEF Kept

\* A restart that loses nothing finds the registrations in the file.
LEMMA RestartKept ==
  ASSUME FileInv, Kept, Restart
  PROVE  Kept'
<1> DEFINE lossy == \/ \E h \in Handlers : pc[h] \in {"save", "write"}
                    \/ stored.file < stored.newest \/ stored.file < stored.failed
                    \/ torn
<1>1. /\ up /\ UNCHANGED expected
      /\ excused' = IF lossy THEN excused \union {t \in Tokens : registrations'[t] # expected[t]}
                    ELSE excused
  BY DEF Restart
<1>2. CASE lossy
  BY <1>1, <1>2 DEF Kept
<1>3. CASE ~lossy
  <2>1. stored.last \in {stored.newest, stored.failed}
    BY <1>1, <1>3 DEF FileInv, Latest, Saving
  <2>2. stored.file = stored.last
    BY <1>3, <2>1 DEF FileInv, Numbered
  <2>3. registrations' = registrations
    BY <1>1, <1>3, <2>2 DEF Restart, FileInv, Latest
  <2>4. QED BY <1>1, <1>3, <2>3 DEF Kept
<1>4. QED BY <1>2, <1>3

LEMMA NextKept ==
  ASSUME FileInv, Kept, [Next]_vars
  PROVE  Kept'
<1>1. ASSUME NEW n, create_challenge(n) \/ ExpireChallenge(n) \/ ForgetDelivery(n)
      PROVE  Kept'
  BY <1>1 DEF create_challenge, ExpireChallenge, ForgetDelivery, history, Kept
<1>2. ASSUME NEW h \in Handlers, \/ validate_auth(h) \/ OpenFile(h) \/ WriteFile(h)
                                 \/ WriteFails(h) \/ DropRequest(h)
      PROVE  Kept'
  BY <1>2 DEF validate_auth, OpenFile, WriteFile, WriteFails, DropRequest, memory, history, Kept
<1>3. ASSUME NEW d \in Dispatches,
             StartDispatch(d) \/ NextTarget(d) \/ SendEnds(d) \/ EndOfTargets(d)
      PROVE  Kept'
  BY <1>3 DEF StartDispatch, NextTarget, SendEnds, EndOfTargets, memory, history, Kept
<1>4. CASE UNCHANGED vars
  BY <1>4 DEF vars, memory, history, Kept
<1>5. QED BY <1>1, <1>2, <1>3, <1>4, CallKept, PruneKept, RestartKept DEF Next

KeptInv == AuthInv /\ OnceInv /\ FileInv /\ Sending /\ Kept

\* A registration is what the last call about its token made of it (register, update,
\* unregister), also after a restart (load_registrations), except for the losses that
\* excused names: for any devices, calls and dispatches that run side by side, and any
\* number of faults.
THEOREM RegistrationsAreKept == Spec => []RegistrationKept
<1>1. Init => KeptInv
  <2> SUFFICES ASSUME Init PROVE Sending /\ Kept
    BY InitAuth, InitOnce, InitFile DEF KeptInv
  <2>1. Sending
    BY DEF Init, Sending, Idle
  <2>2. QED BY <2>1 DEF Init, Kept
<1>2. KeptInv /\ [Next]_vars => KeptInv'
  BY NextAuth, NextOnce, NextFile, NextSending, NextKept DEF KeptInv
<1>3. KeptInv => RegistrationKept
  <2> SUFFICES ASSUME KeptInv PROVE TypeOK
    BY DEF KeptInv, Kept, RegistrationKept
  <2>1. \A regs : AskedBy(authorized, regs)
                    => regs \in [Tokens -> {Profile[c] : c \in Calls} \union {NoReg}]
    BY DEF AskedBy
  <2>2. /\ registrations \in [Tokens -> {Profile[c] : c \in Calls} \union {NoReg}]
        /\ file \in [Tokens -> {Profile[c] : c \in Calls} \union {NoReg}]
    BY <2>1 DEF KeptInv, AuthInv, Sound
  <2>3. /\ pc \in [Handlers -> {"new", "auth", "apns", "fcm", "prune", "save", "write", "done"}]
        /\ challenges \subseteq issued
    BY DEF KeptInv, AuthInv, Shape, Spent
  <2>4. /\ recent \subseteq Tokens \X {Id[d] : d \in Dispatches}
        /\ \A d \in Dispatches : \A t, u \in disp[d].sending : t = u
    BY DEF KeptInv, Sending
  <2>5. \A h \in Handlers : snap[h] # NoSnap <=> pc[h] \in {"save", "write"}
    BY DEF KeptInv, FileInv, Numbered, Saving
  <2>6. QED BY <2>2, <2>3, <2>4, <2>5 DEF KeptInv, FileInv, Flags, TypeOK
<1>4. QED BY <1>1, <1>2, <1>3, PTL DEF Spec
-----------------------------------------------------------------------------
(* The greatest number of a finite set *)

LEMMA Least ==
  ASSUME NEW S, S \subseteq Nat, S # {}
  PROVE  \E n \in S : \A m \in S : n <= m
<1> DEFINE R == {ss \in Nat \X Nat : ss[1] < ss[2]}
<1>1. IsWellFoundedOn(R, Nat)
  BY NatLessThanWellFounded DEF OpToRel
<1>2. PICK n \in S : \A y \in S : ~(<<y, n>> \in R)
  BY <1>1, WFMin, ZenonT(30)
<1>3. ASSUME NEW m \in S PROVE n <= m
  <2>1. <<m, n>> \in Nat \X Nat /\ <<m, n>>[1] = m /\ <<m, n>>[2] = n
    OBVIOUS
  <2>2. ~(m < n)
    BY <1>2, <2>1
  <2>3. QED BY <2>2
<1>4. QED BY <1>3

\* The number with the fewest above it has none above it.
LEMMA Greatest ==
  ASSUME NEW S, S \subseteq Nat, S # {}, IsFiniteSet(S)
  PROVE  Max(S) \in S /\ \A n \in S : n <= Max(S)
<1> DEFINE above(n) == {m \in S : m > n}
           counts == {Cardinality(above(n)) : n \in S}
<1>1. \A n \in S : IsFiniteSet(above(n)) /\ Cardinality(above(n)) \in Nat
  BY FS_Subset, FS_CardinalityType
<1>2. counts \subseteq Nat /\ counts # {}
  BY <1>1
<1>3. PICK n \in S : \A m \in S : Cardinality(above(n)) <= Cardinality(above(m))
  <2> HIDE DEF above
  <2>1. PICK c \in counts : \A k \in counts : c <= k
    BY <1>2, Least
  <2>2. QED BY <2>1
<1>4. ASSUME NEW m \in S, m > n PROVE FALSE
  <2>1. PICK A, B : A = above(m) /\ B = above(n)
    OBVIOUS
  <2>2. A \subseteq B /\ m \in B /\ m \notin A
    <3>1. m \in Nat /\ n \in Nat /\ m > n /\ ~(m > m)
      BY <1>4
    <3>2. \A k \in S : k > m => k > n
      BY <3>1
    <3>3. QED BY <2>1, <3>1, <3>2
  <2>3. /\ IsFiniteSet(B) /\ Cardinality(A) \in Nat /\ Cardinality(B) \in Nat
        /\ Cardinality(B) <= Cardinality(A)
    <3> HIDE DEF above
    <3>1. QED BY <1>1, <1>3, <1>4, <2>1
  <2>4. Cardinality(A) <= Cardinality(B) /\ (Cardinality(B) = Cardinality(A) => B = A)
    BY <2>2, <2>3, FS_Subset
  <2>5. QED BY <2>2, <2>3, <2>4
<1>5. \A m \in S : n >= m
  BY <1>4
<1>6. QED BY <1>5 DEF Max

-----------------------------------------------------------------------------
(* Routing *)

RouteInv ==
  /\ fleet \in Fleets
  /\ targets.done =>
       \A type \in {"apns", "fcm"} : targets[type] =
         IF Dispatchable(event) THEN matching_registrations(fleet, event, type) ELSE {}

LEMMA RouteInductive == RouteSpec => []RouteInv
<1>1. RouteInit => RouteInv
  BY DEF RouteInit, RouteInv
<1>2. RouteInv /\ [Route]_routeVars => RouteInv'
  <2> SUFFICES ASSUME RouteInv, [Route]_routeVars PROVE RouteInv'
    OBVIOUS
  <2>1. CASE Route
    <3>1. UNCHANGED <<fleet, event>>
      BY <2>1 DEF Route
    <3>2. CASE Dispatchable(event)
      <4>1. /\ targets'["apns"] = matching_registrations(fleet, event, "apns")
            /\ targets'["fcm"] = matching_registrations(fleet, event, "fcm")
        BY <2>1, <3>2 DEF Route
      <4>2. QED BY <3>1, <3>2, <4>1 DEF RouteInv
    <3>3. CASE ~Dispatchable(event)
      <4>1. targets'["apns"] = {} /\ targets'["fcm"] = {}
        BY <2>1, <3>3 DEF Route
      <4>2. QED BY <3>1, <3>3, <4>1 DEF RouteInv
    <3>4. QED BY <3>2, <3>3
  <2>2. CASE UNCHANGED routeVars
    BY <2>2 DEF routeVars, RouteInv
  <2>3. QED BY <2>1, <2>2
<1>3. QED BY <1>1, <1>2, PTL DEF RouteSpec

\* What a target is.
LEMMA TargetOf ==
  ASSUME RouteInv, targets.done
  PROVE  /\ \A t \in Targets : Dispatchable(event) /\ t \in fleet
                            /\ t \in matching_registrations(fleet, event, t.type)
         /\ \A r \in fleet : /\ Dispatchable(event)
                             /\ r \in matching_registrations(fleet, event, r.type)
                             => r \in Targets
<1>1. \A r \in fleet : r.type \in {"apns", "fcm"}
  BY FleetAssumption DEF RouteInv
<1>2. \A type : \A r \in matching_registrations(fleet, event, type) : r \in fleet /\ r.type = type
  BY DEF matching_registrations
<1>3. /\ targets.apns = IF Dispatchable(event) THEN matching_registrations(fleet, event, "apns")
                        ELSE {}
      /\ targets.fcm = IF Dispatchable(event) THEN matching_registrations(fleet, event, "fcm")
                       ELSE {}
  BY DEF RouteInv
<1>4. QED BY <1>1, <1>2, <1>3 DEF Targets

Wallets(regs) == {r.wallet : r \in regs}

LEMMA FiniteWallets ==
  ASSUME NEW regs, IsFiniteSet(regs)
  PROVE  IsFiniteSet(Wallets(regs))
<1> DEFINE f == [r \in regs |-> r.wallet]
<1>1. f \in Surjection(regs, Wallets(regs))
  BY DEF Surjection, Wallets
<1>2. QED BY <1>1, FS_Surjection

LEMMA FiniteUpdates ==
  ASSUME NEW regs, IsFiniteSet(regs)
  PROVE  IsFiniteSet({r.updated : r \in regs})
<1> DEFINE f == [r \in regs |-> r.updated]
           T == {r.updated : r \in regs}
<1>1. f \in Surjection(regs, T)
  BY DEF Surjection
<1> HIDE DEF f
<1>2. QED BY <1>1, FS_Surjection

\* The wallet in scope is the only one there, or leads the others.
LEMMA ScopeLeads ==
  ASSUME RouteInv, NEW w \in contextual_wallet_scope(fleet, event),
         NEW scope, scope = Candidates(fleet, event)
  PROVE  /\ \E r \in scope : r.wallet = w
         /\ \A r \in scope : r.wallet # w =>
              \E f \in scope : f.wallet = w /\ f.updated >= r.updated + Margin
<1>1. scope \subseteq fleet /\ IsFiniteSet(scope) /\ \A r \in scope : r.updated \in Nat
  <2>1. scope \subseteq fleet
    BY DEF Candidates
  <2>2. IsFiniteSet(fleet) /\ \A r \in fleet : r.updated \in Nat
    BY FleetAssumption DEF RouteInv
  <2>3. QED BY <2>1, <2>2, FS_Subset
<1>2. w \in IF Cardinality(Wallets(scope)) > 1 THEN freshest_contextual_wallet(scope)
            ELSE Wallets(scope)
  BY DEF contextual_wallet_scope, Wallets
<1>3. \E r \in scope : r.wallet = w
  BY <1>2 DEF freshest_contextual_wallet, Wallets
<1>4. CASE Cardinality(Wallets(scope)) > 1
  <2> DEFINE fresh(v) == Max({r.updated : r \in {q \in scope : q.wallet = v}})
  <2>1. \A v \in Wallets(scope) \ {w} : fresh(w) >= fresh(v) + Margin
    BY <1>2, <1>4 DEF freshest_contextual_wallet, Wallets
  <2>2. ASSUME NEW v \in Wallets(scope)
        PROVE  /\ fresh(v) \in Nat /\ \E f \in scope : f.wallet = v /\ f.updated = fresh(v)
               /\ \A r \in scope : r.wallet = v => r.updated <= fresh(v)
    <3> DEFINE of == {q \in scope : q.wallet = v}
               times == {r.updated : r \in of}
    <3>1. IsFiniteSet(of)
      BY <1>1, FS_Subset
    <3>2. IsFiniteSet(times)
      <4> HIDE DEF of
      <4>1. QED BY <3>1, FiniteUpdates
    <3>3. times \subseteq Nat /\ times # {}
      BY <1>1, <2>2 DEF Wallets
    <3> HIDE DEF times
    <3>4. Max(times) \in times /\ \A n \in times : n <= Max(times)
      BY <3>2, <3>3, Greatest
    <3>5. QED BY <3>3, <3>4 DEF times
  <2> HIDE DEF fresh
  <2>3. ASSUME NEW r \in scope, r.wallet # w
        PROVE  \E f \in scope : f.wallet = w /\ f.updated >= r.updated + Margin
    <3>1. r.wallet \in Wallets(scope) \ {w} /\ w \in Wallets(scope)
      BY <1>3, <2>3 DEF Wallets
    <3>2. PICK f \in scope : f.wallet = w /\ f.updated = fresh(w)
      BY <2>2, <3>1
    <3>3. fresh(w) \in Nat /\ fresh(r.wallet) \in Nat /\ r.updated <= fresh(r.wallet)
      BY <2>2, <3>1
    <3>4. fresh(w) >= fresh(r.wallet) + Margin
      BY <2>1, <3>1
    <3>5. f.updated >= r.updated + Margin
      BY <1>1, <3>2, <3>3, <3>4, RoutingAssumption
    <3>6. QED BY <3>2, <3>5
  <2>4. QED BY <1>3, <2>3
<1>5. CASE ~(Cardinality(Wallets(scope)) > 1)
  <2>1. IsFiniteSet(Wallets(scope)) /\ w \in Wallets(scope)
    BY <1>1, <1>3, FiniteWallets DEF Wallets
  <2>2. {w} \subseteq Wallets(scope) /\ Cardinality({w}) = 1
    BY <2>1, FS_Singleton
  <2>3. Cardinality(Wallets(scope)) = 1
    BY <1>5, <2>1, <2>2, FS_Subset, FS_CardinalityType
  <2>4. \A r \in scope : r.wallet = w
    BY <2>1, <2>3, FS_Singleton DEF Wallets
  <2>5. QED BY <1>3, <2>4
<1>6. QED BY <1>4, <1>5

\* A contextual push goes to one wallet: to the one that the receiver and the freshness of
\* the registrations select (contextual_wallet_scope, freshest_contextual_wallet), for any
\* fleet of devices and any event.
THEOREM PushesGoToRightWallet == RouteSpec => []RightWallet
<1>1. RouteInv => RightWallet
  <2> SUFFICES ASSUME RouteInv, event.type = "contextual", targets.done, NEW t \in Targets,
                      NEW scope, scope = Candidates(fleet, event)
               PROVE  /\ \E r \in scope : r.wallet = t.wallet
                      /\ \A r \in scope : r.wallet # t.wallet =>
                           \E f \in scope : f.wallet = t.wallet /\ f.updated >= r.updated + Margin
    BY DEF RightWallet, Candidates, Eligible
  <2>1. t.wallet \in contextual_wallet_scope(fleet, event)
    BY TargetOf DEF matching_registrations
  <2>2. QED BY <2>1, ScopeLeads
<1>2. QED BY <1>1, RouteInductive, PTL

\* Candidates are eligible, and there are some if any device is eligible.
LEMMA CandidatesEligible ==
  ASSUME NEW scope, scope = Candidates(fleet, event)
  PROVE  scope \subseteq Eligible /\ (Eligible # {} => scope # {})
  BY DEF Candidates, Eligible

\* The alias of a contextual push is obeyed (parse_contextual_alias_policy,
\* registration_allows_contextual_alias): silent ones reach no device, and visible ones all
\* devices of the only wallet that is eligible, for any fleet and any event.
THEOREM PushesObeyAlias == RouteSpec => []AliasObeyed
<1> DEFINE alias == extract_contextual_alias(event.payload)
           asked == alias[2] = "__kbp1" \/ (alias[2] = "__push" /\ AllowLegacy)
           muted == alias[2] = "__kbs1" \/ (alias[2] = "__silent" /\ AllowLegacy)
<1>1. asked => parse_contextual_alias_policy(alias) = "Visible" /\ alias # NoAlias
  <2>1. NoAlias[2] = ""
    BY DEF NoAlias
  <2> HIDE DEF alias
  <2>2. QED BY <2>1 DEF parse_contextual_alias_policy
<1>2. ~asked => parse_contextual_alias_policy(alias) # "Visible"
  <2> HIDE DEF alias
  <2>1. QED BY DEF parse_contextual_alias_policy
<1>3. muted /\ ~asked => parse_contextual_alias_policy(alias) = "Silent"
  <2> HIDE DEF alias
  <2>1. QED BY DEF parse_contextual_alias_policy
<1> HIDE DEF asked, muted
<1>4. RouteInv => AliasObeyed
  <2> SUFFICES ASSUME RouteInv, event.type = "contextual", targets.done
               PROVE  /\ ~asked /\ (muted \/ ~UnknownVisible) => Targets = {}
                      /\ /\ asked /\ event.sender # NoAddress
                         /\ Cardinality({r.wallet : r \in Eligible}) = 1
                         => \A r \in Eligible : BundleMatches(r, BundleRequired) => r \in Targets
    BY DEF AliasObeyed, asked, muted
  <2>1. ASSUME ~asked, muted \/ ~UnknownVisible PROVE Targets = {}
    <3>1. ~Dispatchable(event)
      BY <1>2, <1>3, <2>1 DEF Dispatchable
    <3>2. QED BY <3>1, TargetOf
  <2>2. ASSUME asked, event.sender # NoAddress, Cardinality({r.wallet : r \in Eligible}) = 1,
               NEW r \in Eligible, BundleMatches(r, BundleRequired)
        PROVE  r \in Targets
    <3>1. Dispatchable(event)
      BY <1>1, <2>2 DEF Dispatchable
    <3>2. PICK scope : scope = Candidates(fleet, event)
      OBVIOUS
    <3>3. scope \subseteq Eligible /\ scope # {} /\ Eligible \subseteq fleet
      BY <2>2, <3>2, CandidatesEligible DEF Eligible
    <3>4. IsFiniteSet(fleet) /\ IsFiniteSet(Eligible) /\ IsFiniteSet(scope)
      BY <3>3, FleetAssumption, FS_Subset DEF RouteInv
    <3>5. Wallets(Eligible) = {r.wallet}
      <4>1. IsFiniteSet(Wallets(Eligible)) /\ Cardinality(Wallets(Eligible)) = 1
        BY <2>2, <3>4, FiniteWallets DEF Wallets
      <4>2. \E w : Wallets(Eligible) = {w}
        BY <4>1, FS_Singleton
      <4>3. r.wallet \in Wallets(Eligible)
        BY DEF Wallets
      <4>4. QED BY <4>2, <4>3
    <3>6. Wallets(scope) = {r.wallet}
      BY <3>3, <3>5 DEF Wallets
    <3>7. Cardinality(Wallets(scope)) = 1
      BY <3>6, FS_Singleton
    <3>8. contextual_wallet_scope(fleet, event) = Wallets(scope)
      <4>1. ~(Cardinality(Wallets(scope)) > 1)
        BY <3>7
      <4>2. contextual_wallet_scope(fleet, event)
              = IF Cardinality(Wallets(scope)) > 1 THEN freshest_contextual_wallet(scope)
                ELSE Wallets(scope)
        BY <3>2 DEF contextual_wallet_scope, Wallets
      <4>3. QED BY <4>1, <4>2
    <3>9. r \in fleet /\ registration_allows_contextual_alias(r, event.sender, alias)
      BY DEF Eligible
    <3>10. r \in matching_registrations(fleet, event, r.type)
      <4>1. r.wallet \in contextual_wallet_scope(fleet, event)
        BY <3>6, <3>8
      <4>2. QED BY <2>2, <3>9, <4>1 DEF matching_registrations
    <3>11. QED BY <3>1, <3>9, <3>10, TargetOf
  <2>3. QED BY <2>1, <2>2
<1>5. QED BY <1>4, RouteInductive, PTL

\* A wallet that peer_status_for_wallet_address reports as reachable has a device that
\* payments and presence messages are sent to, for any fleet.
THEOREM ReportedWalletsAreReached == RouteSpec => []StatusDelivers
<1>1. RouteInv => StatusDelivers
  <2> SUFFICES ASSUME RouteInv, NEW w \in {r.wallet : r \in fleet},
                      peer_status_for_wallet_address(fleet, w)
               PROVE  \E type \in {"apns", "fcm"} :
                        /\ registrations_for_wallet(fleet, w, type) # {}
                        /\ matching_registrations(fleet, [type |-> "payment", receiver |-> w], type)
                             # {}
    BY DEF StatusDelivers
  <2>1. PICK r \in fleet : BundleMatches(r, TRUE) /\ registration_matches_address(r, w)
    BY DEF peer_status_for_wallet_address
  <2>2. r.type \in {"apns", "fcm"} /\ w # NoAddress
    BY FleetAssumption DEF RouteInv
  <2>3. BundleMatches(r, BundleRequired)
    BY <2>1 DEF BundleMatches
  <2>4. r \in registrations_for_wallet(fleet, w, r.type)
    BY <2>1, <2>3 DEF registrations_for_wallet
  <2>5. PICK e : e = [type |-> "payment", receiver |-> w]
    OBVIOUS
  <2>6. e.type = "payment" /\ e.receiver = w
    BY <2>5
  <2>7. r \in matching_registrations(fleet, e, r.type)
    BY <2>1, <2>2, <2>3, <2>6 DEF matching_registrations
  <2>8. QED BY <2>2, <2>4, <2>5, <2>7
<1>2. QED BY <1>1, RouteInductive, PTL
=============================================================================
