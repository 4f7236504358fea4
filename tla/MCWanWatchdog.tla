--------------------------- MODULE MCWanWatchdog ---------------------------
(* Instance of WanWatchdog for TLC: two failed rounds, a ladder of two     *)
(* rungs, a budget of two actions, ticks one or six units apart.           *)
EXTENDS WanWatchdog

\* Beyond FailRounds the count of failed rounds decides nothing: states that differ only
\* there are explored once.
FewFailures ==
  LET capped(s) == [s EXCEPT !.consecutive_failures = IF @ > FailRounds THEN FailRounds ELSE @]
  IN <<now, pc, capped(st), capped(file), armed, acts, missed, upSeen, stale, faultsLeft>>
=============================================================================
