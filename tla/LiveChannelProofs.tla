------------------------- MODULE LiveChannelProofs -------------------------
(***************************************************************************)
(* What LiveChannel guarantees for any number of pages and any limit of    *)
(* attempts: PagesKeepTrying, with the two facts it rests on.              *)
(*                                                                         *)
(*   - A connection or a plan for one is handed on, never copied: an open  *)
(*     or closing socket leaves no timer behind (OneChain).                *)
(*   - The attempts counted are at most one ahead of the failures in a     *)
(*     row, and only while the attempt is under way (Honest); so the limit *)
(*     on attempts is a limit on failures.                                 *)
(***************************************************************************)
EXTENDS LiveChannel, TLAPS

Chains(p) == timers[p] + Count(sock[p] # "none") + Count(gaveUp[p])

OneChain(p) ==
  /\ connected[p] <=> sock[p] = "open"
  /\ Chains(p) <= 1
  /\ ~unloaded[p] => Chains(p) = 1 /\ sock[p] # "closing"

Honest(p) ==
  /\ sock[p] = "open" => attempts[p] = 0
  /\ ~unloaded[p] => attempts[p] <= failed[p] + Count(sock[p] = "connecting")
  /\ gaveUp[p] /\ ~unloaded[p] => failed[p] >= MaxAttempts

PagesTyped ==
  /\ sock \in [Pages -> {"none", "connecting", "open", "closing"}]
  /\ timers \in [Pages -> Nat] /\ attempts \in [Pages -> Nat] /\ failed \in [Pages -> Nat]
  /\ connected \in [Pages -> BOOLEAN] /\ gaveUp \in [Pages -> BOOLEAN]
  /\ unloaded \in [Pages -> BOOLEAN]

IInv == PagesTyped /\ \A p \in Pages : OneChain(p) /\ Honest(p)

USE AttemptsAssumption

-----------------------------------------------------------------------------
(* A step of one page.                                                     *)

LEMMA CountTyped == \A b \in BOOLEAN : Count(b) \in {0, 1}
BY DEF Count

\* What a page's invariant depends on.
Kept(p) == /\ sock'[p] = sock[p] /\ timers'[p] = timers[p] /\ attempts'[p] = attempts[p]
           /\ failed'[p] = failed[p] /\ connected'[p] = connected[p] /\ gaveUp'[p] = gaveUp[p]
           /\ unloaded'[p] = unloaded[p]

PageInv(p) == OneChain(p) /\ Honest(p)

LEMMA KeptPage == ASSUME NEW p \in Pages, PageInv(p), Kept(p) PROVE PageInv(p)'
BY DEF PageInv, Kept, OneChain, Honest, Chains, Count

\* A step that keeps the types and the other pages need only keep the page it is about.
LEMMA OnePageMoves ==
  ASSUME IInv, NEW p \in Pages, PagesTyped', PageInv(p)', \A q \in Pages \ {p} : Kept(q)
  PROVE  IInv'
<1>1. ASSUME NEW q \in Pages PROVE PageInv(q)'
  BY <1>1, KeptPage DEF IInv, PageInv
<1> QED BY <1>1 DEF IInv, PageInv

\* A socket that closes hands the chain to a timer, or ends it when the attempts are used up.
LEMMA ClosedMoves ==
  ASSUME IInv, NEW p \in Pages, sock[p] # "none", Closed(p),
         failed' \in [Pages -> Nat], \A q \in Pages \ {p} : failed'[q] = failed[q],
         failed'[p] = failed[p] + Count(sock[p] = "connecting")
  PROVE  IInv'
<1>1. /\ sock' = [sock EXCEPT ![p] = "none"] /\ connected' = [connected EXCEPT ![p] = FALSE]
      /\ attempts' = attempts /\ unloaded' = unloaded
  BY DEF Closed, Set
<1>2. PagesTyped /\ OneChain(p) /\ Honest(p)
  BY DEF IInv
<1>3. timers[p] = 0 /\ gaveUp[p] = FALSE
  BY <1>2 DEF OneChain, Chains, Count, PagesTyped
<1>4. unloaded[p] \/ attempts[p] <= failed'[p]
  BY <1>2 DEF Honest, OneChain, Count, PagesTyped
<1>5. CASE attempts[p] < MaxAttempts
  <2>1. timers' = [timers EXCEPT ![p] = 1] /\ gaveUp' = gaveUp
    BY <1>3, <1>5 DEF Closed, Set, Scheduled
  <2>2. PagesTyped'
    BY <1>1, <1>2, <2>1 DEF PagesTyped
  <2>3. /\ sock'[p] = "none" /\ connected'[p] = FALSE /\ timers'[p] = 1 /\ gaveUp'[p] = FALSE
        /\ attempts'[p] = attempts[p] /\ unloaded'[p] = unloaded[p]
    BY <1>1, <1>2, <1>3, <2>1 DEF PagesTyped
  <2>4. PageInv(p)'
    BY <1>2, <1>4, <2>2, <2>3 DEF PageInv, OneChain, Honest, Chains, Count, PagesTyped
  <2> QED BY <1>1, <1>2, <2>1, <2>2, <2>4, OnePageMoves DEF Kept, PagesTyped
<1>6. CASE ~(attempts[p] < MaxAttempts)
  <2>1. timers' = timers /\ gaveUp' = [gaveUp EXCEPT ![p] = TRUE]
    BY <1>6 DEF Closed, Set
  <2>2. PagesTyped'
    BY <1>1, <1>2, <2>1 DEF PagesTyped
  <2>3. /\ sock'[p] = "none" /\ connected'[p] = FALSE /\ timers'[p] = 0 /\ gaveUp'[p] = TRUE
        /\ attempts'[p] = attempts[p] /\ unloaded'[p] = unloaded[p]
    BY <1>1, <1>2, <1>3, <2>1 DEF PagesTyped
  <2>4. PageInv(p)'
    BY <1>2, <1>4, <1>6, <2>2, <2>3 DEF PageInv, OneChain, Honest, Chains, Count, PagesTyped
  <2> QED BY <1>1, <1>2, <2>1, <2>2, <2>4, OnePageMoves DEF Kept, PagesTyped
<1> QED BY <1>5, <1>6

-----------------------------------------------------------------------------
(* Every step.                                                             *)

LEMMA InitInv == Init => IInv
<1> SUFFICES ASSUME Init PROVE IInv
  OBVIOUS
<1>1. PagesTyped
  BY DEF Init, PagesTyped
<1>2. ASSUME NEW p \in Pages PROVE OneChain(p) /\ Honest(p)
  <2>1. /\ sock[p] = "connecting" /\ timers[p] = 0 /\ attempts[p] = 0 /\ failed[p] = 0
        /\ connected[p] = FALSE /\ gaveUp[p] = FALSE /\ unloaded[p] = FALSE
    BY <1>2 DEF Init
  <2> QED BY <2>1 DEF OneChain, Honest, Chains, Count
<1> QED BY <1>1, <1>2 DEF IInv

LEMMA UnchangedPage == IInv /\ UNCHANGED page => IInv'
BY DEF IInv, page, PagesTyped, OneChain, Honest, Chains, Count

LEMMA TimerFiresInv == ASSUME IInv, NEW p \in Pages, TimerFires(p) PROVE IInv'
<1>1. /\ timers[p] > 0 /\ timers' = [timers EXCEPT ![p] = timers[p] - 1]
      /\ attempts' = [attempts EXCEPT ![p] = attempts[p] + 1]
      /\ UNCHANGED <<failed, connected, gaveUp, unloaded>>
  BY DEF TimerFires, Set
<1>2. PagesTyped /\ OneChain(p) /\ Honest(p)
  BY DEF IInv
<1>3. timers[p] = 1 /\ sock[p] = "none" /\ gaveUp[p] = FALSE
  BY <1>1, <1>2 DEF OneChain, Chains, Count, PagesTyped
<1>4. sock' = [sock EXCEPT ![p] = "connecting"]
  BY <1>3 DEF TimerFires, Set
<1>5. PagesTyped'
  BY <1>1, <1>2, <1>3, <1>4 DEF PagesTyped
<1>6. PageInv(p)'
  BY <1>1, <1>2, <1>3, <1>4 DEF PageInv, OneChain, Honest, Chains, Count, PagesTyped
<1> QED BY <1>1, <1>2, <1>4, <1>5, <1>6, OnePageMoves DEF Kept, PagesTyped

LEMMA ConnectsInv == ASSUME IInv, NEW p \in Pages, Connects(p) PROVE IInv'
<1>1. /\ sock[p] = "connecting" /\ sock' = [sock EXCEPT ![p] = "open"]
      /\ connected' = [connected EXCEPT ![p] = TRUE] /\ attempts' = [attempts EXCEPT ![p] = 0]
      /\ failed' = [failed EXCEPT ![p] = 0] /\ UNCHANGED <<timers, gaveUp, unloaded>>
  BY DEF Connects, Set, AttemptsAfterOpen
<1>2. PagesTyped /\ OneChain(p) /\ Honest(p)
  BY DEF IInv
<1>3. timers[p] = 0 /\ gaveUp[p] = FALSE
  BY <1>1, <1>2 DEF OneChain, Chains, Count, PagesTyped
<1>4. PagesTyped'
  BY <1>1, <1>2 DEF PagesTyped
<1>5. /\ sock'[p] = "open" /\ connected'[p] = TRUE /\ attempts'[p] = 0 /\ failed'[p] = 0
      /\ timers'[p] = 0 /\ gaveUp'[p] = FALSE
  BY <1>1, <1>2, <1>3 DEF PagesTyped
<1>6. PageInv(p)'
  BY <1>5 DEF PageInv, OneChain, Honest, Chains, Count
<1> QED BY <1>1, <1>2, <1>4, <1>6, OnePageMoves DEF Kept, PagesTyped

LEMMA UnloadsInv == ASSUME IInv, NEW p \in Pages, Unloads(p) PROVE IInv'
<1>1. /\ timers' = [timers EXCEPT ![p] = 0] /\ connected' = [connected EXCEPT ![p] = FALSE]
      /\ unloaded' = [unloaded EXCEPT ![p] = TRUE] /\ UNCHANGED <<attempts, failed, gaveUp>>
      /\ sock' = [sock EXCEPT ![p] = IF sock[p] \in {"connecting", "open"} THEN "closing" ELSE sock[p]]
  BY DEF Unloads, Set
<1>2. PagesTyped /\ OneChain(p) /\ Honest(p)
  BY DEF IInv
<1>3. PagesTyped'
  BY <1>1, <1>2 DEF PagesTyped
<1>4. /\ sock'[p] \in {"closing", sock[p]} /\ sock'[p] # "open" /\ (sock[p] = "none" => sock'[p] = "none")
      /\ sock'[p] # "connecting"
      /\ timers'[p] = 0 /\ connected'[p] = FALSE /\ unloaded'[p] = TRUE /\ gaveUp'[p] = gaveUp[p]
  BY <1>1, <1>2 DEF PagesTyped
<1>5. timers[p] \in Nat /\ gaveUp[p] \in BOOLEAN
  BY <1>2 DEF PagesTyped
<1>6. PageInv(p)'
  BY <1>2, <1>4, <1>5 DEF PageInv, OneChain, Honest, Chains, Count
<1> QED BY <1>1, <1>2, <1>3, <1>6, OnePageMoves DEF Kept, PagesTyped

LEMMA ReloadsInv == ASSUME IInv, NEW p \in Pages, Reloads(p) PROVE IInv'
<1>1. /\ sock' = [sock EXCEPT ![p] = "connecting"] /\ timers' = [timers EXCEPT ![p] = 0]
      /\ attempts' = [attempts EXCEPT ![p] = 0] /\ failed' = [failed EXCEPT ![p] = 0]
      /\ connected' = [connected EXCEPT ![p] = FALSE] /\ gaveUp' = [gaveUp EXCEPT ![p] = FALSE]
      /\ unloaded' = [unloaded EXCEPT ![p] = FALSE]
  BY DEF Reloads, Set
<1>2. PagesTyped
  BY DEF IInv
<1>3. PagesTyped'
  BY <1>1, <1>2 DEF PagesTyped
<1>4. /\ sock'[p] = "connecting" /\ timers'[p] = 0 /\ attempts'[p] = 0 /\ failed'[p] = 0
      /\ connected'[p] = FALSE /\ gaveUp'[p] = FALSE /\ unloaded'[p] = FALSE
  BY <1>1, <1>2 DEF PagesTyped
<1>5. PageInv(p)'
  BY <1>4 DEF PageInv, OneChain, Honest, Chains, Count
<1> QED BY <1>1, <1>2, <1>3, <1>5, OnePageMoves DEF Kept, PagesTyped

\* The socket closes, whoever closed it; only a connection that failed counts as a failure.
LEMMA ClosesInv ==
  ASSUME IInv, NEW p \in Pages, ConnectFails(p) \/ ClosingEnds(p) \/ LinkFails(p) \/ PongLate(p)
  PROVE  IInv'
<1>1. PagesTyped
  BY DEF IInv
<1>2. CASE ConnectFails(p)
  <2>1. sock[p] = "connecting" /\ Closed(p) /\ failed' = [failed EXCEPT ![p] = failed[p] + 1]
    BY <1>2 DEF ConnectFails, Set
  <2>2. /\ failed' \in [Pages -> Nat] /\ \A q \in Pages \ {p} : failed'[q] = failed[q]
        /\ failed'[p] = failed[p] + Count(sock[p] = "connecting")
    BY <1>1, <2>1 DEF PagesTyped, Count
  <2> QED BY <2>1, <2>2, ClosedMoves
<1>3. CASE ClosingEnds(p) \/ LinkFails(p) \/ PongLate(p)
  <2>1. sock[p] \in {"closing", "open"} /\ Closed(p) /\ failed' = failed
    BY <1>3 DEF ClosingEnds, LinkFails, PongLate
  <2>2. /\ failed' \in [Pages -> Nat] /\ \A q \in Pages \ {p} : failed'[q] = failed[q]
        /\ failed'[p] = failed[p] + Count(sock[p] = "connecting")
    BY <1>1, <2>1 DEF PagesTyped, Count
  <2> QED BY <2>1, <2>2, ClosedMoves
<1> QED BY <1>2, <1>3

\* The server exits: every page whose socket it closes is in the case of Closed.
LEMMA ForcedShutdownInv == IInv /\ ForcedShutdown => IInv'
<1> SUFFICES ASSUME IInv, ForcedShutdown PROVE IInv'
  OBVIOUS
<1>1. /\ sock' = [p \in Pages |-> IF Gone(p) THEN "none" ELSE sock[p]]
      /\ connected' = [p \in Pages |-> connected[p] /\ ~Gone(p)]
      /\ timers' = [p \in Pages |-> IF Gone(p) /\ attempts[p] < MaxAttempts THEN timers[p] + 1 ELSE timers[p]]
      /\ gaveUp' = [p \in Pages |-> gaveUp[p] \/ (Gone(p) /\ attempts[p] >= MaxAttempts)]
      /\ UNCHANGED <<attempts, failed, unloaded>>
  BY DEF ForcedShutdown, Scheduled
<1>2. PagesTyped
  BY DEF IInv
<1>3. PagesTyped'
  BY <1>1, <1>2 DEF PagesTyped, Gone
<1>4. ASSUME NEW p \in Pages PROVE PageInv(p)'
  <2>1. PageInv(p) /\ sock[p] \in {"none", "connecting", "open", "closing"} /\ timers[p] \in Nat
        /\ attempts[p] \in Nat /\ failed[p] \in Nat
        /\ connected[p] \in BOOLEAN /\ gaveUp[p] \in BOOLEAN /\ unloaded[p] \in BOOLEAN
    BY <1>2 DEF IInv, PageInv, PagesTyped
  <2>2. CASE Gone(p)
    <3>1. sock[p] = "open" /\ sock'[p] = "none" /\ connected'[p] = FALSE
      BY <1>1, <2>2 DEF Gone
    <3>2. timers[p] = 0 /\ gaveUp[p] = FALSE /\ attempts[p] = 0
      BY <2>1, <3>1 DEF PageInv, OneChain, Honest, Chains, Count
    <3>3. CASE 0 < MaxAttempts
      <4>1. timers'[p] = 1
        BY <1>1, <2>2, <3>2, <3>3
      <4>2. gaveUp'[p] = FALSE
        <5>1. ~(attempts[p] >= MaxAttempts)
          BY <3>2, <3>3
        <5> QED BY <1>1, <3>2, <5>1, Zenon
      <4> QED BY <1>1, <2>1, <3>1, <3>2, <4>1, <4>2 DEF PageInv, OneChain, Honest, Chains, Count
    <3>4. CASE ~(0 < MaxAttempts)
      <4>1. timers'[p] = 0 /\ MaxAttempts = 0
        BY <1>1, <2>2, <3>2, <3>4
      <4>2. gaveUp'[p] = TRUE
        <5>1. attempts[p] >= MaxAttempts
          BY <3>2, <4>1
        <5> QED BY <1>1, <2>2, <5>1, Zenon
      <4> QED BY <1>1, <2>1, <3>1, <3>2, <4>1, <4>2 DEF PageInv, OneChain, Honest, Chains, Count
    <3> QED BY <3>3, <3>4
  <2>3. CASE ~Gone(p)
    <3>1. Kept(p)
      BY <1>1, <2>1, <2>3 DEF Kept
    <3> QED BY <2>1, <3>1, KeptPage
  <2> QED BY <2>2, <2>3
<1> QED BY <1>3, <1>4 DEF IInv, PageInv

LEMMA NextInv == IInv /\ [Next]_vars => IInv'
<1> SUFFICES ASSUME IInv, [Next]_vars PROVE IInv'
  OBVIOUS
<1>1. ASSUME NEW p \in Pages, TimerFires(p) \/ Connects(p) \/ Unloads(p) \/ Reloads(p) PROVE IInv'
  BY <1>1, TimerFiresInv, ConnectsInv, UnloadsInv, ReloadsInv
<1>2. ASSUME NEW p \in Pages, ConnectFails(p) \/ ClosingEnds(p) \/ LinkFails(p) \/ PongLate(p)
      PROVE IInv'
  BY <1>2, ClosesInv
<1>3. CASE ForcedShutdown
  BY <1>3, ForcedShutdownInv
<1>4. ASSUME NEW p \in Pages, LinkDrops(p) PROVE IInv'
  <2>1. UNCHANGED <<sock, timers, attempts, failed, connected, gaveUp, unloaded>>
    BY <1>4 DEF LinkDrops
  <2> QED BY <2>1 DEF IInv, PagesTyped, OneChain, Honest, Chains, Count
<1>5. ASSUME NEW p \in Pages, Delivered(p) \/ RebootClicked(p) \/ Pong(p) PROVE IInv'
  BY <1>5, UnchangedPage DEF Delivered, RebootClicked, Pong
<1>6. CASE Broadcast \/ StopMining \/ StartMining \/ Ping \/ Signal \/ AllClosed \/ Restart \/ UNCHANGED vars
  BY <1>6, UnchangedPage DEF Broadcast, StopMining, StartMining, Ping, Signal, AllClosed, Restart, vars
<1> QED BY <1>1, <1>2, <1>3, <1>4, <1>5, <1>6 DEF Next

(* A page keeps exactly one connection alive or planned until it has seen MAX_RECONNECT_ATTEMPTS
   failures in a row, for any number of pages, faults and server restarts. *)
THEOREM PagesAlwaysKeepTrying == Spec => []PagesKeepTrying
<1>1. IInv => PagesKeepTrying
  BY DEF IInv, PagesTyped, PagesKeepTrying, OneChain, Honest, Chains, Count
<1> QED BY <1>1, InitInv, NextInv, PTL DEF Spec
=============================================================================
