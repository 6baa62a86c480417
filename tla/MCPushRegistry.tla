--------------------------- MODULE MCPushRegistry --------------------------
(***************************************************************************)
(* Device p is registered (c1), updated (c3) and unregistered (c6) by      *)
(* wallet a, rebound (c5) and unregistered (c4) by wallet b; device q is   *)
(* registered by wallet a, in place of all its devices (c2) or not (c7).   *)
(* The worker has two payments of one transaction (d1, d2), two requests   *)
(* the same reply (r1, r2), and there is a presence message (m), all for   *)
(* wallet a.                                                               *)
(***************************************************************************)
EXTENDS PushRegistry

MCReg(token, type, key, updated) ==
  [token |-> token, type |-> type, bundle |-> TRUE, key |-> key, wallet |-> key,
   primary |-> "none", routes |-> {}, pulse |-> {key}, updated |-> updated]
MCOp == [c1 |-> "register", c2 |-> "replace", c3 |-> "update", c4 |-> "unregister",
         c5 |-> "register", c6 |-> "unregister", c7 |-> "register"]
MCDevice == [c1 |-> "p", c2 |-> "q", c3 |-> "p", c4 |-> "p", c5 |-> "p", c6 |-> "p",
             c7 |-> "q"]
MCProfile ==
  [c1 |-> MCReg("p", "apns", "a", 1), c2 |-> MCReg("q", "fcm", "a", 2),
   c3 |-> MCReg("p", "apns", "a", 3), c4 |-> MCReg("p", "apns", "b", 4),
   c5 |-> MCReg("p", "apns", "b", 5), c6 |-> MCReg("p", "apns", "a", 6),
   c7 |-> MCReg("q", "apns", "a", 7)]
MCNonce == [c1 |-> 1, c2 |-> 2, c3 |-> 2, c4 |-> 3, c5 |-> 2, c6 |-> 3, c7 |-> 2, m |-> 3]
MCTo(type) == [type |-> type, sender |-> "s", receiver |-> "a", payload |-> <<>>]
MCEvent ==
  [d1 |-> MCTo("payment"), d2 |-> MCTo("payment"), r1 |-> MCTo("pulse_reply"),
   r2 |-> MCTo("pulse_reply"), m |-> MCTo("presence")]
MCId == [d1 |-> 1, d2 |-> 1, r1 |-> 2, r2 |-> 2, m |-> 3]
MCScenarios ==
  {{"c1", "c2", "c3"}, {"c1", "c5", "c4"}, {"c1", "c2", "d1"}, {"c1", "c3", "d1"},
   {"c1", "c6", "d1"}, {"c1", "d1", "d2"}, {"c1", "r1", "r2"}, {"c1", "c3", "m"},
   {"c1", "c7", "d1"}}
=============================================================================
