---------------------------- MODULE MCAlertRules ----------------------------
(* Instance of AlertRules for TLC: two administrators, one imported rule and one of theirs. *)
EXTENDS AlertRules, TLC

CONSTANTS page1, page2, imported, own

MCPages == {page1, page2}
MCNames == {imported, own}
Symmetry == Permutations(MCPages)
=============================================================================
