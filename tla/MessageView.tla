---------------------------- MODULE MessageView ----------------------------
(***************************************************************************)
(* What the message index promises to whoever queries it, without blocks   *)
(* to fill, transactions to retry or senders to ask for: a message is      *)
(* listed, may be accepted by a chain block and later by another one, and  *)
(* gets its sender once.                                                   *)
(***************************************************************************)
CONSTANTS
  Msgs,         \* transactions that carry a message
  NoAcceptor,   \* a message no chain block has been reported for
  Acceptors     \* chain blocks

VARIABLES
  listed,       \* messages some query can return
  attributed,   \* messages with a known sender
  acceptor      \* the chain block each message is reported to be accepted by

viewVars == <<listed, attributed, acceptor>>

ViewInit ==
  /\ listed = {}
  /\ attributed = {}
  /\ acceptor = [m \in Msgs |-> NoAcceptor]

\* Messages come with a block, with or without their sender, and senders are found
\* out later; nothing of it is ever taken back.
Publish ==
  /\ listed \subseteq listed' /\ listed' \subseteq Msgs
  /\ attributed \subseteq attributed' /\ attributed' \subseteq listed'
  /\ UNCHANGED acceptor

\* A change of the virtual chain is reported, for messages that are listed.
Accept ==
  /\ DOMAIN acceptor' = Msgs
  /\ \A m \in Msgs : acceptor'[m] # acceptor[m] =>
                       m \in listed /\ acceptor'[m] \in Acceptors
  /\ UNCHANGED <<listed, attributed>>

ViewNext == Publish \/ Accept

ViewSpec == ViewInit /\ [][ViewNext]_viewVars
=============================================================================
