----------------------------- MODULE MCSession -----------------------------
(* Instance of Session for TLC: two tabs of a browser. *)
EXTENDS Session

CONSTANTS tab1, tab2

MCTabs == {tab1, tab2}
=============================================================================
