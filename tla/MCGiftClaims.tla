--------------------------- MODULE MCGiftClaims ---------------------------
(* Requests for TLC to check GiftClaims on: two are rivals for a wallet,    *)
(* two for a device.                                                        *)
EXTENDS GiftClaims

MCClaims == 1 .. 3
MCWallet == <<"w1", "w1", "w2">>
MCDevice == <<"d1", "d2", "d2">>
=============================================================================
