--------------------------- MODULE MCPushRouting ---------------------------
(***************************************************************************)
(* Fleets of up to two registrations of every shape and of three of one    *)
(* service: wallets a (the sender), b and c, a primary address that may be *)
(* another wallet's, a route for the alias or not, updates below, at and   *)
(* above the margin, and APNs tokens of another app.                       *)
(***************************************************************************)
EXTENDS PushRouting

MCAlias == <<"x", "__kbp1">>
MCShape(type, bundle, wallet, primary, routed, updated) ==
  [type |-> type, bundle |-> bundle, wallet |-> wallet, primary |-> primary,
   routes |-> IF routed THEN {<<"a", MCAlias>>, <<"a", <<"x", "__silent">>>>} ELSE {},
   pulse |-> {wallet}, updated |-> updated]
MCShapes ==
  {MCShape(tb[1], tb[2], w, p, routed, u) :
     tb \in {<<"apns", TRUE>>, <<"apns", FALSE>>, <<"fcm", FALSE>>}, w \in {"a", "b", "c"},
     p \in {"none", "a", "b"}, routed \in BOOLEAN, u \in {0, 1, 2}}
MCPlain ==
  {MCShape("apns", TRUE, w, p, routed, u) :
     w \in {"a", "b", "c"}, p \in {"none", "a"}, routed \in BOOLEAN, u \in {0, 1, 2}}
MCFleets ==
  {{r, s} : r \in MCShapes, s \in MCShapes}
    \union {{r, s, t} : r \in MCPlain, s \in MCPlain, t \in MCPlain}

MCContextual(receiver, alias) ==
  [type |-> "contextual", sender |-> "a", receiver |-> receiver,
   payload |-> <<"ciph_msg", "1", "comm", alias, "x">>]
MCEvents ==
  {MCContextual("none", MCAlias), MCContextual("b", MCAlias), MCContextual("a", MCAlias),
   MCContextual("b", <<"b", "__kbp1">>), MCContextual("b", <<"x", "__silent">>),
   [type |-> "payment", sender |-> "a", receiver |-> "b", payload |-> <<>>]}
=============================================================================
