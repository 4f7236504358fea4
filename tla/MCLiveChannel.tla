--------------------------- MODULE MCLiveChannel ---------------------------
(* Instance of LiveChannel for TLC: two browsers and two attempts at a connection. *)
EXTENDS LiveChannel

CONSTANTS page1, page2

MCPages == {page1, page2}
=============================================================================
