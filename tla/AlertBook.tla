------------------------------ MODULE AlertBook ------------------------------
(***************************************************************************)
(* What the alert record of the backend promises, without requests, tables *)
(* or history: opening an episode creates exactly one debt, the firing     *)
(* announcement; the debt is paid once; an episode that is open creates no *)
(* further debt; only a crash cancels debts; only a restart may change     *)
(* which episodes are open without an opening or a closing.                *)
(***************************************************************************)
CONSTANTS Alerts, Debts
VARIABLES serving, open, owed   \* owed: the alert each outstanding debt is about

bookVars == <<serving, open, owed>>

BookInit == serving = TRUE /\ open = {} /\ owed = [d \in {} |-> {}]

Open(a, d) ==
  /\ serving /\ a \notin open /\ d \notin DOMAIN owed
  /\ open' = open \cup {a}
  /\ owed' = [e \in DOMAIN owed \cup {d} |-> IF e = d THEN a ELSE owed[e]]
  /\ UNCHANGED serving

Announce(d) ==
  /\ serving /\ d \in DOMAIN owed
  /\ owed' = [e \in DOMAIN owed \ {d} |-> owed[e]]
  /\ UNCHANGED <<serving, open>>

Close(a) ==
  /\ serving /\ a \in open
  /\ open' = open \ {a}
  /\ UNCHANGED <<serving, owed>>

Stop ==
  /\ serving /\ serving' = FALSE
  /\ owed' = [d \in {} |-> {}]
  /\ UNCHANGED open

Restart ==
  /\ ~serving /\ serving' = TRUE
  /\ open' \in SUBSET Alerts
  /\ UNCHANGED owed

BookNext ==
  \/ \E a \in Alerts : Close(a) \/ (\E d \in Debts : Open(a, d))
  \/ \E d \in Debts : Announce(d)
  \/ Stop
  \/ Restart

BookSpec == BookInit /\ [][BookNext]_bookVars
=============================================================================
