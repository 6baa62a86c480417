---------------------------- MODULE PushRouting ----------------------------
(***************************************************************************)
(* One event routed over one set of registrations: the targets that        *)
(* dispatch_event of indexer/src/push.rs computes for APNs and for FCM.    *)
(***************************************************************************)
EXTENDS PushMatching

CONSTANTS
  Fleets,         \* sets of registrations to route over
  Events          \* events to route

ASSUME FleetAssumption ==
  \A regs \in Fleets : /\ IsFiniteSet(regs)
                       /\ \A r \in regs : /\ r.type \in {"apns", "fcm"} /\ r.updated \in Nat
                                          /\ r.wallet # NoAddress

VARIABLES fleet, event, targets
routeVars == <<fleet, event, targets>>

RouteInit ==
  /\ fleet \in Fleets /\ event \in Events
  /\ targets = [done |-> FALSE, apns |-> {}, fcm |-> {}]

\* The targets of both services, or none after an early return.
Route ==
  /\ ~targets.done
  /\ targets' = IF Dispatchable(event)
       THEN [done |-> TRUE, apns |-> matching_registrations(fleet, event, "apns"),
             fcm |-> matching_registrations(fleet, event, "fcm")]
       ELSE [done |-> TRUE, apns |-> {}, fcm |-> {}]
  /\ UNCHANGED <<fleet, event>>

RouteSpec == RouteInit /\ [][Route]_routeVars

Targets == targets.apns \union targets.fcm

-----------------------------------------------------------------------------
(* Properties *)

\* Devices that allow the alias for this sender and are not the sender's.
Eligible ==
  {r \in fleet : /\ registration_allows_contextual_alias(r, event.sender,
                                                extract_contextual_alias(event.payload))
                 /\ ~registration_matches_address(r, event.sender)}

\* A contextual push is never fanned out, even when several wallets registered its alias,
\* and never goes to the sender's devices alone: if the receiver of the transaction has an
\* eligible device, it goes to the wallet of such a device, and if several wallets compete,
\* only to the one whose last update leads each of the others by the margin.
RightWallet ==
  LET received == {r \in Eligible : registration_matches_address(r, event.receiver)}
      rivals == IF event.receiver # NoAddress /\ received # {} THEN received ELSE Eligible
  IN event.type = "contextual" /\ targets.done =>
       \A t \in Targets :
         /\ \E r \in rivals : r.wallet = t.wallet
         /\ \A r \in rivals : r.wallet # t.wallet =>
              \E f \in rivals : f.wallet = t.wallet /\ f.updated >= r.updated + Margin

\* A contextual push whose alias asks for it reaches the only wallet that is eligible,
\* if it has a device of this app; one whose alias does not ask for it reaches none.
AliasObeyed ==
  event.type = "contextual" /\ targets.done =>
    LET alias == extract_contextual_alias(event.payload)
        asked == alias[2] = "__kbp1" \/ (alias[2] = "__push" /\ AllowLegacy)
        muted == alias[2] = "__kbs1" \/ (alias[2] = "__silent" /\ AllowLegacy)
    IN /\ ~asked /\ (muted \/ ~UnknownVisible) => Targets = {}
       /\ /\ asked /\ event.sender # NoAddress
          /\ Cardinality({r.wallet : r \in Eligible}) = 1
          => \A r \in Eligible : BundleMatches(r, BundleRequired) => r \in Targets

\* A wallet reported as reachable has a device that a payment, a handshake and a
\* presence message are sent to.
StatusDelivers ==
  \A w \in {r.wallet : r \in fleet} :
    peer_status_for_wallet_address(fleet, w) =>
      \E type \in {"apns", "fcm"} :
        /\ registrations_for_wallet(fleet, w, type) # {}
        /\ matching_registrations(fleet, [type |-> "payment", receiver |-> w], type) # {}
=============================================================================
