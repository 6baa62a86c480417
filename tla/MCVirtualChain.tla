-------------------------- MODULE MCVirtualChain --------------------------
(* Trees of blocks for TLC to check VirtualChain on.                        *)
EXTENDS VirtualChain

\* The chain 1 is left for 2.
MCPair == <<0, 0>>

\* The chain 1 is left for 2, which grows to 2 - 3.
MCShort == <<0, 0, 2>>
=============================================================================
