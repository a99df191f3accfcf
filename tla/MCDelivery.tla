------------------------------ MODULE MCDelivery ------------------------------
(* Small instances of Delivery.                                            *)
EXTENDS Delivery, TLC

TwoChannels == {0, 1}
=============================================================================
