--------------------------- MODULE MCPlayerOrders ---------------------------
(***************************************************************************)
(* PlayerOrders with the discs of MCKCompactDisc.                          *)
(***************************************************************************)
EXTENDS PlayerOrders, MCKCompactDisc
=============================================================================
