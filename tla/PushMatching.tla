---------------------------- MODULE PushMatching ---------------------------
(***************************************************************************)
(* Which devices a push notification is sent to: pure functions of the     *)
(* registrations and of the event.                                         *)
(*                                                                         *)
(* Source: indexer/src/push.rs (dispatch_event up to the first target,     *)
(* matching_registrations and the functions it calls,                      *)
(* registrations_for_wallet, peer_status_for_wallet_address).  An address  *)
(* is normalised already; an alias is a pair of its base and its suffix.   *)
(***************************************************************************)
EXTENDS Naturals, Sequences, FiniteSets, FiniteSetsExt

CONSTANTS
  NoAddress,      \* a script without an address, or a field left empty
  Margin,         \* CONTEXTUAL_ALIAS_DUPLICATE_FRESHNESS_MARGIN_MS
  ActiveWindow,   \* PUSH_STATUS_ACTIVE_WINDOW_MS
  AllowLegacy,    \* PUSH_CONTEXTUAL_ALLOW_LEGACY_SUFFIX
  UnknownVisible, \* PUSH_CONTEXTUAL_UNKNOWN_POLICY is "visible"
  BundleRequired, \* APNS_BUNDLE_ID is configured
  Now             \* time of a status query

ASSUME RoutingAssumption ==
  /\ Margin \in Nat \ {0} /\ ActiveWindow \in Nat /\ Now \in Nat
  /\ AllowLegacy \in BOOLEAN /\ UnknownVisible \in BOOLEAN /\ BundleRequired \in BOOLEAN

-----------------------------------------------------------------------------
(* Aliases *)

NoAlias == <<"", "">>

\* The alias of a payload, split at its colons; the fourth part must not be empty.
extract_contextual_alias(p) ==
  IF Len(p) >= 4 /\ p[1] = "ciph_msg" /\ p[2] = "1" /\ p[3] = "comm" THEN p[4] ELSE NoAlias

\* Legacy suffixes count only if they are allowed.
parse_contextual_alias_policy(alias) ==
  CASE alias[2] = "__kbs1" -> "Silent"
    [] alias[2] = "__kbp1" -> "Visible"
    [] alias[2] = "__silent" /\ AllowLegacy -> "Silent"
    [] alias[2] = "__push" /\ AllowLegacy -> "Visible"
    [] OTHER -> "Unknown"

\* Mutant: only the silent policy stops a push.
MutDispatchable(e) ==
  /\ e.sender # NoAddress
  /\ e.type = "contextual" =>
       LET alias == extract_contextual_alias(e.payload)
       IN alias # NoAlias /\ parse_contextual_alias_policy(alias) # "Silent"

\* The early returns of dispatch_event.
Dispatchable(e) ==
  /\ e.sender # NoAddress
  /\ e.type = "contextual" =>
       LET alias == extract_contextual_alias(e.payload)
           policy == parse_contextual_alias_policy(alias)
       IN alias # NoAlias /\ (policy = "Visible" \/ (policy = "Unknown" /\ UnknownVisible))

\* The aliases of a wallet's contact request inbox, with any suffix.
contact_request_inbox_watch_aliases(wallet) ==
  {<<wallet, s>> : s \in {"", "__kbs1", "__kbp1", "__silent", "__push"}}

registration_allows_contextual_alias(r, sender, alias) ==
  \/ alias \in contact_request_inbox_watch_aliases(r.wallet)
  \/ <<sender, alias>> \in r.routes

-----------------------------------------------------------------------------
(* Targets *)

registration_matches_address(r, a) == r.wallet = a \/ r.primary = a

\* The wallet whose last update leads every other wallet's by the margin, if any.
freshest_contextual_wallet(scope) ==
  LET fresh(w) == Max({r.updated : r \in {q \in scope : q.wallet = w}})
      wallets == {r.wallet : r \in scope}
  IN {w \in wallets : \A v \in wallets \ {w} : fresh(w) >= fresh(v) + Margin}

\* Mutant: the receiver is not preferred.
MutCandidatesAnyReceiver(regs, e) ==
  LET alias == extract_contextual_alias(e.payload) IN
  {r \in regs : /\ registration_allows_contextual_alias(r, e.sender, alias)
                /\ ~registration_matches_address(r, e.sender)}

\* Registrations that allow the alias, without the sender's; of those the receiver's,
\* if there are any.
Candidates(regs, e) ==
  LET alias == extract_contextual_alias(e.payload)
      others == {r \in regs : /\ registration_allows_contextual_alias(r, e.sender, alias)
                              /\ ~registration_matches_address(r, e.sender)}
      received == {r \in others : registration_matches_address(r, e.receiver)}
  IN IF e.receiver # NoAddress /\ received # {} THEN received ELSE others

\* The wallet a contextual push is meant for: none or one.
contextual_wallet_scope(regs, e) ==
  LET scope == Candidates(regs, e)
      wallets == {r.wallet : r \in scope}
  IN IF Cardinality(wallets) > 1 THEN freshest_contextual_wallet(scope) ELSE wallets

\* The bundle filter, for APNs only.
BundleMatches(r, required) == r.type = "apns" /\ required => r.bundle

matching_registrations(regs, e, type) ==
  {r \in regs :
     /\ r.type = type /\ BundleMatches(r, BundleRequired)
     /\ CASE e.type = "contextual" ->
               /\ registration_allows_contextual_alias(r, e.sender,
                                                       extract_contextual_alias(e.payload))
               /\ r.wallet \in contextual_wallet_scope(regs, e)
          [] e.type \in {"handshake", "payment"} ->
               e.receiver # NoAddress /\ registration_matches_address(r, e.receiver)
          [] e.type = "pulse_reply" -> e.receiver \in r.pulse}

\* The targets of a presence message.
registrations_for_wallet(regs, wallet, type) ==
  {r \in regs : /\ r.type = type /\ BundleMatches(r, BundleRequired)
                /\ registration_matches_address(r, wallet)}

\* Mutant: a device of another app counts.
MutPeerStatus(regs, wallet) ==
  {r \in regs : registration_matches_address(r, wallet)
                /\ Now <= r.updated + ActiveWindow} # {}

\* Whether a wallet is reported as reachable; a bundle is always required here.
peer_status_for_wallet_address(regs, wallet) ==
  {r \in regs : /\ BundleMatches(r, TRUE)
                /\ registration_matches_address(r, wallet)
                /\ Now <= r.updated + ActiveWindow} # {}
=============================================================================
