-------------------------- MODULE AlertRulesProofs --------------------------
(***************************************************************************)
(* What AlertRules guarantees for any number of browsers, rules, clicks    *)
(* and faults: the form saves the rule it was filled from, and a page at   *)
(* rest shows what it reported as done.  The second rests on Covered: what *)
(* a page has reported is older than the load it waits for, because the    *)
(* load is sent with the report and the table's version never goes back.   *)
(***************************************************************************)
EXTENDS AlertRules, TLAPS

MaybeId == Nat \cup {Nothing}
RuleRows == [id : Nat, name : Names, enabled : BOOLEAN, system : BOOLEAN]
Forms == [from : MaybeId, crossed : BOOLEAN]
PageStates ==
  [list : SUBSET RuleRows, shown : Nat, loading : BOOLEAN, form : Forms \cup {Nothing},
   editing : MaybeId, deleting : MaybeId, deleteOpen : BOOLEAN, historyOpen : BOOLEAN, done : Nat,
   strayed : BOOLEAN]
CallStates ==
  [kind : {"load", "toggle", "history", "save", "delete"}, at : Nat, ok : BOOLEAN,
   list : SUBSET RuleRows, target : MaybeId]

TypeInv ==
  /\ rules \subseteq RuleRows /\ nextId \in Nat /\ version \in Nat
  /\ page \in [Pages -> PageStates] /\ calls \in [Pages -> SUBSET CallStates]

FormFits(state) == state.form # Nothing /\ ~state.form.crossed => state.editing = state.form.from

LoadCalls(cs) == {c \in cs : c.kind = "load"}

\* Unless loads overlapped or failed: one load at most is out, and it covers what was reported;
\* without one the page itself does.
Covered(state, cs) ==
  ~state.strayed =>
    /\ \A c, d \in LoadCalls(cs) : c = d
    /\ \A c \in LoadCalls(cs) : c.at >= state.done
    /\ LoadCalls(cs) = {} => state.shown >= state.done

\* What holds of a page's state and its calls at a version of the table.
Sound(state, cs, v) ==
  /\ FormFits(state) /\ state.done <= v /\ (\A c \in cs : c.at <= v) /\ Covered(state, cs)

IInv == TypeInv /\ \A p \in Pages : Sound(page[p], calls[p], version)

USE SystemAssumption

-----------------------------------------------------------------------------
(* The parts of a step.                                                    *)

\* A later version of the table harms no page.
LEMMA LaterIsSound ==
  ASSUME NEW state \in PageStates, NEW cs \in SUBSET CallStates, NEW v \in Nat, NEW w \in Nat,
         v <= w, Sound(state, cs, v)
  PROVE  Sound(state, cs, w)
BY DEF Sound, PageStates, CallStates

\* A step of one page: its new state and calls are sound, and the version does not go back.
LEMMA OnePageMoves ==
  ASSUME IInv, NEW p \in Pages, TypeInv', version <= version',
         Sound(page'[p], calls'[p], version'),
         \A q \in Pages \ {p} : page'[q] = page[q] /\ calls'[q] = calls[q]
  PROVE  IInv'
<1>1. ASSUME NEW q \in Pages \ {p} PROVE Sound(page[q], calls[q], version')
  <2>1. page[q] \in PageStates /\ calls[q] \in SUBSET CallStates
        /\ version \in Nat /\ version' \in Nat /\ Sound(page[q], calls[q], version)
    BY DEF IInv, TypeInv
  <2> QED BY <2>1, LaterIsSound
<1>2. \A q \in Pages : Sound(page'[q], calls'[q], version')
  BY <1>1
<1> QED BY <1>2 DEF IInv

\* Every change of the table keeps its shape and makes one version more.
LEMMA ChangesTyped ==
  ASSUME TypeInv,
         \/ \E name \in Names, enabled \in BOOLEAN : Create(name, enabled)
         \/ \E id \in Nat, enabled \in BOOLEAN : Update(id, enabled) \/ Toggle(id, enabled) \/ Delete(id)
         \/ UNCHANGED server
  PROVE  rules' \subseteq RuleRows /\ nextId' \in Nat /\ version' \in Nat /\ version <= version'
<1>1. ASSUME NEW name \in Names, NEW enabled \in BOOLEAN, Create(name, enabled)
      PROVE  rules' \subseteq RuleRows /\ nextId' \in Nat /\ version' \in Nat /\ version <= version'
  <2> DEFINE new == [id |-> nextId, name |-> name, enabled |-> enabled, system |-> FALSE]
  <2>1. rules' = rules \cup {new} /\ nextId' = nextId + 1 /\ version' = version + 1
    BY <1>1 DEF Create, Changed
  <2>2. nextId \in Nat /\ rules \subseteq RuleRows /\ version \in Nat
    BY DEF TypeInv
  <2>3. new \in RuleRows
    BY <2>2 DEF RuleRows
  <2> HIDE DEF new
  <2>4. rules' \subseteq RuleRows
    BY <2>1, <2>2, <2>3
  <2> QED BY <2>1, <2>2, <2>4
<1>2. ASSUME NEW id, NEW enabled \in BOOLEAN, Update(id, enabled) \/ Toggle(id, enabled)
      PROVE  rules' \subseteq RuleRows /\ nextId' \in Nat /\ version' \in Nat /\ version <= version'
  <2>1. \A r \in RuleRows : [r EXCEPT !.enabled = enabled] \in RuleRows
    BY DEF RuleRows
  <2>2. /\ rules' = {IF r.id = id THEN [r EXCEPT !.enabled = enabled] ELSE r : r \in rules}
        /\ nextId' = nextId /\ version' = version + 1
    BY <1>2 DEF Update, Toggle, Changed
  <2>3. rules' \subseteq RuleRows
    BY <2>1, <2>2 DEF TypeInv
  <2> QED BY <2>2, <2>3 DEF TypeInv
<1>3. ASSUME NEW id, Delete(id)
      PROVE  rules' \subseteq RuleRows /\ nextId' \in Nat /\ version' \in Nat /\ version <= version'
  BY <1>3 DEF TypeInv, Delete, Changed
<1>4. CASE UNCHANGED server
  BY <1>4 DEF TypeInv, server
<1> QED BY <1>1, <1>2, <1>3, <1>4

\* A request that is no load: the page stays as it is.
LEMMA SentKeeps ==
  ASSUME IInv, NEW p \in Pages, NEW kind \in {"toggle", "history", "save", "delete"},
         NEW ok \in BOOLEAN, NEW target \in MaybeId, Sent(p, kind, ok, target), page' = page,
         rules' \subseteq RuleRows /\ nextId' \in Nat /\ version' \in Nat /\ version <= version'
  PROVE  IInv'
<1> DEFINE new == [kind |-> kind, ok |-> ok, at |-> version', list |-> {}, target |-> target]
<1>1. calls' = [calls EXCEPT ![p] = calls[p] \cup {new}]
  BY DEF Sent
<1>2. new \in CallStates /\ new.kind # "load" /\ new.at = version'
  BY DEF CallStates
<1> HIDE DEF new
<1>3. TypeInv /\ page[p] \in PageStates /\ calls[p] \subseteq CallStates
  BY DEF IInv, TypeInv
<1>4. TypeInv'
  BY <1>1, <1>2, <1>3 DEF TypeInv
<1>5. Sound(page[p], calls[p], version')
  BY <1>3, LaterIsSound DEF IInv, TypeInv
<1>6. calls'[p] = calls[p] \cup {new}
  BY <1>1, <1>3 DEF TypeInv
<1>7. LoadCalls(calls'[p]) = LoadCalls(calls[p])
  BY <1>2, <1>6 DEF LoadCalls
<1>8. Sound(page[p], calls'[p], version')
  <2>1. \A c \in calls'[p] : c.at <= version'
    BY <1>2, <1>5, <1>6 DEF Sound
  <2> QED BY <1>5, <1>7, <2>1 DEF Sound, Covered
<1>9. \A q \in Pages \ {p} : page'[q] = page[q] /\ calls'[q] = calls[q]
  BY <1>1, <1>3 DEF TypeInv
<1> QED BY <1>4, <1>8, <1>9, OnePageMoves

\* A page opens or closes a dialog: nothing about loads changes.
LEMMA DialogMoves ==
  ASSUME IInv, NEW p \in Pages, NEW state \in PageStates, page' = [page EXCEPT ![p] = state],
         UNCHANGED <<server, calls>>, FormFits(state),
         state.done = page[p].done, state.shown = page[p].shown, state.strayed = page[p].strayed
  PROVE  IInv'
<1>1. TypeInv /\ Sound(page[p], calls[p], version)
  BY DEF IInv
<1>2. TypeInv'
  BY <1>1 DEF TypeInv, server
<1>3. page'[p] = state /\ calls'[p] = calls[p] /\ version' = version /\ version \in Nat
  BY <1>1 DEF TypeInv, server
<1>4. Sound(page'[p], calls'[p], version')
  BY <1>1, <1>3 DEF Sound, Covered
<1>5. \A q \in Pages \ {p} : page'[q] = page[q] /\ calls'[q] = calls[q]
  BY <1>1 DEF TypeInv
<1> QED BY <1>2, <1>3, <1>4, <1>5, OnePageMoves

\* loadRules: the new load is of this version of the table, and no report is younger.
LEMMA LoadingMoves ==
  ASSUME IInv, NEW p \in Pages, NEW state \in PageStates, NEW others \in SUBSET calls[p],
         Loading(p, state, others), UNCHANGED server, FormFits(state), state.done <= version
  PROVE  IInv'
<1> DEFINE shown == [state EXCEPT !.loading = TRUE, !.strayed = \E c \in others : c.kind = "load"]
<1>1. TypeInv /\ Sound(page[p], calls[p], version) /\ calls[p] \subseteq CallStates /\ version \in Nat
  BY DEF IInv, TypeInv
<1>2. shown \in PageStates
  BY DEF PageStates
<1>3. /\ shown.form = state.form /\ shown.editing = state.editing /\ shown.done = state.done
      /\ shown.strayed <=> \E c \in others : c.kind = "load"
  BY DEF PageStates
<1>4. LoadSent \in CallStates /\ LoadSent.kind = "load" /\ LoadSent.at = version
  BY <1>1 DEF LoadSent, CallStates, TypeInv, MaybeId
<1>5. page' = [page EXCEPT ![p] = shown] /\ calls' = [calls EXCEPT ![p] = others \cup {LoadSent}]
  BY DEF Loading
<1> HIDE DEF shown
<1>6. TypeInv'
  BY <1>1, <1>2, <1>4, <1>5 DEF TypeInv, server
<1>7. page'[p] = shown /\ calls'[p] = others \cup {LoadSent} /\ version' = version
  BY <1>1, <1>5 DEF TypeInv, server
<1>8. Sound(shown, others \cup {LoadSent}, version)
  <2>1. FormFits(shown) /\ shown.done <= version
    BY <1>3 DEF FormFits
  <2>2. \A c \in others \cup {LoadSent} : c.at <= version
    BY <1>1, <1>4 DEF Sound
  <2>3. ASSUME ~shown.strayed PROVE LoadCalls(others \cup {LoadSent}) = {LoadSent}
    BY <1>3, <1>4, <2>3 DEF LoadCalls
  <2>4. Covered(shown, others \cup {LoadSent})
    BY <1>3, <1>4, <2>3 DEF Covered
  <2> QED BY <2>1, <2>2, <2>4 DEF Sound
<1>9. \A q \in Pages \ {p} : page'[q] = page[q] /\ calls'[q] = calls[q]
  BY <1>1, <1>5 DEF TypeInv
<1> QED BY <1>1, <1>6, <1>7, <1>8, <1>9, OnePageMoves

-----------------------------------------------------------------------------
(* Answers.                                                                *)

LEMMA LaterOfTwo == \A a, b \in Nat : Max({a, b}) \in {a, b} /\ Max({a, b}) >= a /\ Max({a, b}) >= b
BY DEF Max

\* An answer leaves a form that fits, and reports nothing younger than the answer.
LEMMA AnsweredFits ==
  ASSUME NEW state \in PageStates, NEW c \in CallStates, FormFits(state)
  PROVE  /\ Answered(state, c) \in PageStates /\ FormFits(Answered(state, c))
         /\ Answered(state, c).done \in {state.done, c.at}
         /\ Answered(state, c).strayed = state.strayed
         /\ c.kind # "load" => Answered(state, c).shown = state.shown
         /\ ~Reloads(c) => Answered(state, c).done = state.done
         /\ c.kind = "load" => Answered(state, c).shown = c.at
<1>1. Max({state.done, c.at}) \in {state.done, c.at} /\ Max({state.done, c.at}) \in Nat
  BY LaterOfTwo DEF PageStates, CallStates
<1>2. CASE c.kind = "load"
  <2>1. Answered(state, c) = [state EXCEPT !.list = c.list, !.shown = c.at, !.loading = FALSE]
    BY <1>2 DEF Answered
  <2>2. ~Reloads(c)
    BY <1>2 DEF Reloads
  <2> QED BY <1>2, <2>1, <2>2 DEF PageStates, CallStates, FormFits
<1>3. CASE c.kind = "history"
  <2>1. CASE state.form = Nothing
    <3>1. Answered(state, c) = [state EXCEPT !.editing = c.target, !.historyOpen = TRUE, !.form = Nothing]
      BY <1>3, <2>1 DEF Answered
    <3> QED BY <1>3, <2>1, <3>1 DEF PageStates, CallStates, FormFits, Reloads
  <2>2. CASE state.form # Nothing
    <3> DEFINE form == [state.form EXCEPT !.crossed = TRUE]
    <3>1. Answered(state, c) = [state EXCEPT !.editing = c.target, !.historyOpen = TRUE, !.form = form]
      BY <1>3, <2>2 DEF Answered
    <3>2. form \in Forms /\ form.crossed
      BY <2>2 DEF PageStates, Forms
    <3> HIDE DEF form
    <3> QED BY <1>3, <3>1, <3>2 DEF PageStates, CallStates, FormFits, Reloads
  <2> QED BY <2>1, <2>2
<1>4. CASE c.kind \notin {"load", "history"} /\ ~c.ok
  BY <1>4 DEF Answered, FormFits, Reloads
<1>5. CASE c.kind = "save" /\ c.ok
  <2>1. Answered(state, c) = [state EXCEPT !.form = Nothing, !.editing = Nothing, !.done = Max({state.done, c.at})]
    BY <1>5 DEF Answered
  <2> QED BY <1>1, <1>5, <2>1 DEF PageStates, MaybeId, FormFits, Reloads
<1>6. CASE c.kind = "delete" /\ c.ok
  <2>1. Answered(state, c) = [state EXCEPT !.deleteOpen = FALSE, !.deleting = Nothing, !.done = Max({state.done, c.at})]
    BY <1>6 DEF Answered
  <2> QED BY <1>1, <1>6, <2>1 DEF PageStates, MaybeId, FormFits, Reloads
<1>7. CASE c.kind = "toggle" /\ c.ok
  <2>1. Answered(state, c) = [state EXCEPT !.done = Max({state.done, c.at})]
    BY <1>7 DEF Answered
  <2> QED BY <1>1, <1>7, <2>1 DEF PageStates, FormFits, Reloads
<1> QED BY <1>2, <1>3, <1>4, <1>5, <1>6, <1>7 DEF CallStates

LEMMA ArrivesInv == ASSUME IInv, NEW p \in Pages, AnswerArrives(p) PROVE IInv'
<1>1. PICK c \in calls[p] :
        IF Reloads(c) THEN Loading(p, Answered(page[p], c), calls[p] \ {c})
        ELSE /\ page' = [page EXCEPT ![p] = Answered(page[p], c)]
             /\ calls' = [calls EXCEPT ![p] = calls[p] \ {c}]
  BY DEF AnswerArrives
<1>2. UNCHANGED server
  BY DEF AnswerArrives
<1>3. /\ TypeInv /\ page[p] \in PageStates /\ calls[p] \subseteq CallStates /\ c \in CallStates
      /\ version \in Nat /\ Sound(page[p], calls[p], version)
  BY DEF IInv, TypeInv
<1>4. PICK state : state = Answered(page[p], c)
  OBVIOUS
<1>5. /\ state \in PageStates /\ FormFits(state) /\ state.done \in {page[p].done, c.at}
      /\ state.strayed = page[p].strayed
      /\ c.kind # "load" => state.shown = page[p].shown
      /\ ~Reloads(c) => state.done = page[p].done
      /\ c.kind = "load" => state.shown = c.at
  BY <1>3, <1>4, AnsweredFits DEF Sound
<1>6. state.done <= version
  BY <1>3, <1>5 DEF Sound
<1>7. CASE Reloads(c)
  <2>1. PICK others : others = calls[p] \ {c}
    OBVIOUS
  <2>2. Loading(p, state, others) /\ others \in SUBSET calls[p]
    BY <1>1, <1>4, <1>7, <2>1
  <2> QED BY <1>2, <1>5, <1>6, <2>2, LoadingMoves
<1>8. CASE ~Reloads(c)
  <2>1. page' = [page EXCEPT ![p] = state] /\ calls' = [calls EXCEPT ![p] = calls[p] \ {c}]
    BY <1>1, <1>4, <1>8
  <2>2. TypeInv'
    BY <1>2, <1>3, <1>5, <2>1 DEF TypeInv, server
  <2>3. page'[p] = state /\ calls'[p] = calls[p] \ {c} /\ version' = version
    BY <1>2, <1>3, <2>1 DEF TypeInv, server
  <2>4. \A q \in Pages \ {p} : page'[q] = page[q] /\ calls'[q] = calls[q]
    BY <1>3, <2>1 DEF TypeInv
  <2>5. Covered(state, calls[p] \ {c})
    <3> SUFFICES ASSUME ~state.strayed
                 PROVE  /\ \A a, b \in LoadCalls(calls[p] \ {c}) : a = b
                        /\ \A a \in LoadCalls(calls[p] \ {c}) : a.at >= state.done
                        /\ LoadCalls(calls[p] \ {c}) = {} => state.shown >= state.done
      BY DEF Covered
    <3>1. /\ \A a, b \in LoadCalls(calls[p]) : a = b
          /\ \A a \in LoadCalls(calls[p]) : a.at >= page[p].done
          /\ LoadCalls(calls[p]) = {} => page[p].shown >= page[p].done
      BY <1>3, <1>5 DEF Sound, Covered
    <3>2. LoadCalls(calls[p] \ {c}) \subseteq LoadCalls(calls[p])
      BY DEF LoadCalls
    <3>3. CASE c.kind = "load"
      BY <1>5, <1>8, <3>1, <3>2, <3>3 DEF LoadCalls
    <3>4. CASE c.kind # "load"
      <4>1. LoadCalls(calls[p] \ {c}) = LoadCalls(calls[p])
        BY <3>4 DEF LoadCalls
      <4> QED BY <1>5, <1>8, <3>1, <3>4, <4>1
    <3> QED BY <3>3, <3>4
  <2>6. Sound(state, calls[p] \ {c}, version)
    BY <1>3, <1>5, <1>6, <2>5 DEF Sound
  <2> QED BY <1>3, <2>2, <2>3, <2>4, <2>6, OnePageMoves
<1> QED BY <1>7, <1>8

LEMMA LostInv == ASSUME IInv, NEW p \in Pages, AnswerLost(p) PROVE IInv'
<1>1. PICK c \in calls[p] :
        /\ calls' = [calls EXCEPT ![p] = calls[p] \ {c}]
        /\ page' = IF c.kind = "load" THEN [page EXCEPT ![p].loading = FALSE, ![p].strayed = TRUE]
                   ELSE page
  BY DEF AnswerLost
<1>2. UNCHANGED server /\ TypeInv /\ page[p] \in PageStates /\ calls[p] \subseteq CallStates
      /\ version \in Nat /\ Sound(page[p], calls[p], version)
  BY DEF AnswerLost, IInv, TypeInv
<1>3. calls'[p] = calls[p] \ {c} /\ version' = version
      /\ \A q \in Pages \ {p} : page'[q] = page[q] /\ calls'[q] = calls[q]
  BY <1>1, <1>2 DEF TypeInv, server
<1>4. CASE c.kind = "load"
  <2>1. /\ page' \in [Pages -> PageStates] /\ page'[p].strayed /\ page'[p].form = page[p].form
        /\ page'[p].editing = page[p].editing /\ page'[p].done = page[p].done
    BY <1>1, <1>2, <1>4 DEF TypeInv, PageStates
  <2>2. TypeInv'
    BY <1>1, <1>2, <2>1 DEF TypeInv, server
  <2>3. Sound(page'[p], calls'[p], version')
    BY <1>2, <1>3, <2>1 DEF Sound, Covered, FormFits
  <2> QED BY <1>2, <1>3, <2>2, <2>3, OnePageMoves
<1>5. CASE c.kind # "load"
  <2>1. TypeInv' /\ page' = page
    BY <1>1, <1>2, <1>5 DEF TypeInv, server
  <2>2. LoadCalls(calls'[p]) = LoadCalls(calls[p])
    BY <1>3, <1>5 DEF LoadCalls
  <2>3. Sound(page'[p], calls'[p], version')
    BY <1>2, <1>3, <2>1, <2>2 DEF Sound, Covered
  <2> QED BY <1>2, <1>3, <2>1, <2>3, OnePageMoves
<1> QED BY <1>4, <1>5

-----------------------------------------------------------------------------
(* Every step.                                                             *)

LEMMA InitInv == Init => IInv
<1> SUFFICES ASSUME Init PROVE IInv
  OBVIOUS
<1>1. rules \subseteq RuleRows /\ nextId \in Nat /\ version = 0
  BY DEF Init, RuleRows
<1>2. LoadSent \in CallStates /\ LoadSent.kind = "load" /\ LoadSent.at = 0
  BY <1>1 DEF LoadSent, CallStates, MaybeId
<1>3. FreshPage \in PageStates /\ FreshPage.form = Nothing /\ FreshPage.done = 0 /\ FreshPage.shown = 0
  BY DEF FreshPage, PageStates, MaybeId
<1>4. TypeInv
  BY <1>1, <1>2, <1>3 DEF Init, TypeInv
<1>5. Sound(FreshPage, {LoadSent}, 0)
  BY <1>2, <1>3 DEF Sound, Covered, LoadCalls, FormFits
<1>6. \A p \in Pages : page[p] = FreshPage /\ calls[p] = {LoadSent}
  BY DEF Init
<1> QED BY <1>1, <1>4, <1>5, <1>6 DEF IInv

LEMMA RequestsInv ==
  ASSUME IInv, NEW p \in Pages,
         ToggleClicked(p) \/ HistoryClicked(p) \/ SaveClicked(p) \/ DeleteConfirmed(p)
  PROVE  IInv'
<1>1. TypeInv /\ page[p] \in PageStates /\ page[p].list \subseteq RuleRows
      /\ page[p].editing \in MaybeId /\ page[p].deleting \in MaybeId
  BY DEF IInv, TypeInv, PageStates
<1>2. page' = page
  BY DEF ToggleClicked, HistoryClicked, SaveClicked, DeleteConfirmed
<1>3. CASE ToggleClicked(p)
  <2>1. PICK r \in page[p].list :
          \/ Toggle(r.id, ~r.enabled) /\ Sent(p, "toggle", TRUE, r.id)
          \/ Refused /\ Sent(p, "toggle", FALSE, r.id)
    BY <1>3 DEF ToggleClicked
  <2>2. r.id \in Nat /\ r.id \in MaybeId /\ (~r.enabled) \in BOOLEAN
    BY <1>1 DEF RuleRows, MaybeId
  <2>3. rules' \subseteq RuleRows /\ nextId' \in Nat /\ version' \in Nat /\ version <= version'
    BY <1>1, <2>1, <2>2, ChangesTyped DEF Refused
  <2> QED BY <1>2, <2>1, <2>2, <2>3, SentKeeps
<1>4. CASE HistoryClicked(p)
  <2>1. PICK r \in page[p].list : Refused /\ Sent(p, "history", TRUE, r.id)
    BY <1>4 DEF HistoryClicked
  <2>2. r.id \in MaybeId
    BY <1>1 DEF RuleRows, MaybeId
  <2>3. rules' \subseteq RuleRows /\ nextId' \in Nat /\ version' \in Nat /\ version <= version'
    BY <1>1, <2>1, ChangesTyped DEF Refused
  <2> QED BY <1>2, <2>1, <2>2, <2>3, SentKeeps
<1>5. CASE SaveClicked(p)
  <2> DEFINE id == page[p].editing
  <2>1. PICK enabled \in BOOLEAN :
          \/ id # Nothing /\ Update(id, enabled) /\ Sent(p, "save", TRUE, id)
          \/ \E name \in Names : Create(name, enabled) /\ Sent(p, "save", TRUE, Nothing)
          \/ Refused /\ Sent(p, "save", FALSE, id)
    BY <1>5 DEF SaveClicked
  <2>2. id \in MaybeId /\ Nothing \in MaybeId /\ (id # Nothing => id \in Nat)
    BY <1>1 DEF MaybeId
  <2> HIDE DEF id
  <2>3. rules' \subseteq RuleRows /\ nextId' \in Nat /\ version' \in Nat /\ version <= version'
    BY <1>1, <2>1, <2>2, ChangesTyped DEF Refused
  <2> QED BY <1>2, <2>1, <2>2, <2>3, SentKeeps
<1>6. CASE DeleteConfirmed(p)
  <2> DEFINE id == page[p].deleting
  <2>1. \/ Delete(id) /\ Sent(p, "delete", TRUE, id)
        \/ Refused /\ Sent(p, "delete", FALSE, id)
    BY <1>6 DEF DeleteConfirmed
  <2>2. id \in MaybeId /\ id \in Nat
    BY <1>1, <1>6 DEF MaybeId, DeleteConfirmed
  <2> HIDE DEF id
  <2>3. rules' \subseteq RuleRows /\ nextId' \in Nat /\ version' \in Nat /\ version <= version'
    BY <1>1, <2>1, <2>2, ChangesTyped DEF Refused
  <2> QED BY <1>2, <2>1, <2>2, <2>3, SentKeeps
<1> QED BY <1>3, <1>4, <1>5, <1>6

LEMMA DialogsInv ==
  ASSUME IInv, NEW p \in Pages,
         \/ NewClicked(p) \/ EditClicked(p) \/ FormCancelled(p) \/ DeleteClicked(p)
         \/ DeleteCancelled(p) \/ HistoryClosed(p)
  PROVE  IInv'
<1> DEFINE Dialog(state) ==
      /\ state \in PageStates /\ page' = [page EXCEPT ![p] = state] /\ FormFits(state)
      /\ state.done = page[p].done /\ state.shown = page[p].shown /\ state.strayed = page[p].strayed
<1>1. page[p] \in PageStates /\ FormFits(page[p]) /\ page[p].list \subseteq RuleRows
  BY DEF IInv, TypeInv, Sound, PageStates
<1>2. UNCHANGED <<server, calls>>
  BY DEF NewClicked, EditClicked, FormCancelled, DeleteClicked, DeleteCancelled, HistoryClosed
<1>3. CASE NewClicked(p)
  <2> DEFINE form == [from |-> Nothing, crossed |-> FALSE]
  <2>1. form \in Forms /\ form.from = Nothing
    BY DEF Forms, MaybeId
  <2>2. page' = [page EXCEPT ![p] = [page[p] EXCEPT !.form = form, !.editing = Nothing]]
    BY <1>3 DEF NewClicked, NewForm
  <2> HIDE DEF form
  <2>3. Dialog([page[p] EXCEPT !.form = form, !.editing = Nothing])
    BY <1>1, <2>1, <2>2 DEF PageStates, MaybeId, FormFits
  <2> QED BY <1>2, <2>3, DialogMoves
<1>4. CASE EditClicked(p)
  <2>1. PICK r \in page[p].list :
          page' = [page EXCEPT ![p].form = [from |-> r.id, crossed |-> FALSE], ![p].editing = r.id]
    BY <1>4 DEF EditClicked
  <2> DEFINE form == [from |-> r.id, crossed |-> FALSE]
  <2>2. r.id \in MaybeId /\ form \in Forms /\ form.from = r.id
    BY <1>1 DEF RuleRows, Forms, MaybeId
  <2>3. page' = [page EXCEPT ![p] = [page[p] EXCEPT !.form = form, !.editing = r.id]]
    BY <2>1 DEF IInv, TypeInv
  <2> HIDE DEF form
  <2>4. Dialog([page[p] EXCEPT !.form = form, !.editing = r.id])
    BY <1>1, <2>2, <2>3 DEF PageStates, FormFits
  <2> QED BY <1>2, <2>4, DialogMoves
<1>5. CASE FormCancelled(p)
  <2>1. page' = [page EXCEPT ![p] = [page[p] EXCEPT !.form = Nothing, !.editing = Nothing]]
    BY <1>5 DEF FormCancelled, IInv, TypeInv
  <2>2. Dialog([page[p] EXCEPT !.form = Nothing, !.editing = Nothing])
    BY <1>1, <2>1 DEF PageStates, MaybeId, FormFits
  <2> QED BY <1>2, <2>2, DialogMoves
<1>6. CASE DeleteClicked(p)
  <2>1. PICK r \in page[p].list : page' = [page EXCEPT ![p].deleting = r.id, ![p].deleteOpen = TRUE]
    BY <1>6 DEF DeleteClicked
  <2>2. page' = [page EXCEPT ![p] = [page[p] EXCEPT !.deleting = r.id, !.deleteOpen = TRUE]]
    BY <2>1 DEF IInv, TypeInv
  <2>3. Dialog([page[p] EXCEPT !.deleting = r.id, !.deleteOpen = TRUE])
    BY <1>1, <2>2 DEF PageStates, RuleRows, MaybeId, FormFits
  <2> QED BY <1>2, <2>3, DialogMoves
<1>7. CASE DeleteCancelled(p)
  <2>1. page' = [page EXCEPT ![p] = [page[p] EXCEPT !.deleteOpen = FALSE]]
    BY <1>7 DEF DeleteCancelled, IInv, TypeInv
  <2>2. Dialog([page[p] EXCEPT !.deleteOpen = FALSE])
    BY <1>1, <2>1 DEF PageStates, FormFits
  <2> QED BY <1>2, <2>2, DialogMoves
<1>8. CASE HistoryClosed(p)
  <2>1. page' = [page EXCEPT ![p] = [page[p] EXCEPT !.historyOpen = FALSE]]
    BY <1>8 DEF HistoryClosed, IInv, TypeInv
  <2>2. Dialog([page[p] EXCEPT !.historyOpen = FALSE])
    BY <1>1, <2>1 DEF PageStates, FormFits
  <2> QED BY <1>2, <2>2, DialogMoves
<1> QED BY <1>3, <1>4, <1>5, <1>6, <1>7, <1>8

LEMMA NextInv == IInv /\ [Next]_vars => IInv'
<1> SUFFICES ASSUME IInv, [Next]_vars PROVE IInv'
  OBVIOUS
<1>1. ASSUME NEW p \in Pages, RefreshClicked(p) PROVE IInv'
  <2>1. PICK state, others : state = page[p] /\ others = calls[p]
    OBVIOUS
  <2>2. Loading(p, state, others) /\ UNCHANGED server /\ others \in SUBSET calls[p]
    BY <1>1, <2>1 DEF RefreshClicked
  <2>3. state \in PageStates /\ FormFits(state) /\ state.done <= version
    BY <2>1 DEF IInv, TypeInv, Sound
  <2> QED BY <2>2, <2>3, LoadingMoves
<1>2. CASE UNCHANGED vars
  BY <1>2 DEF vars, server, IInv, TypeInv
<1> QED BY <1>1, <1>2, RequestsInv, DialogsInv, ArrivesInv, LostInv DEF Next

LEMMA Invariant == Spec => []IInv
BY InitInv, NextInv, PTL DEF Spec

(* A form saves the rule it was filled from, or a new one when it was opened empty, for any number
   of browsers and rules; unless the history of another rule was answered while it was open. *)
THEOREM FormsSaveTheirRule == Spec => []SaveHitsItsRule
<1>1. IInv => SaveHitsItsRule
  BY DEF IInv, Sound, FormFits, SaveHitsItsRule
<1> QED BY <1>1, Invariant, PTL

(* A page at rest shows every change it has reported as done, whatever order the answers took. *)
THEOREM PagesShowTheirChanges == Spec => []PageShowsItsChanges
<1>1. IInv => PageShowsItsChanges
  BY DEF IInv, Sound, Covered, LoadCalls, PageShowsItsChanges
<1> QED BY <1>1, Invariant, PTL
=============================================================================
