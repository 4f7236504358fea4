------------------------------ MODULE MCPools ------------------------------
(* Instance of Pools for TLC: two administrators, two accounts and a second pool. *)
EXTENDS Pools

CONSTANTS page1, page2, oldKey, newKey

MCPages == {page1, page2}
MCKeys == {newKey}
=============================================================================
