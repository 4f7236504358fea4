----------------------------- MODULE AlertRules -----------------------------
(***************************************************************************)
(* The rules of alerts as the console edits them: the tables alert_rules   *)
(* and alert_rule_history, the routes under /mining/alert-rules and the    *)
(* page of administrators, open in several browsers                        *)
(* (alert-rules.service.ts, alert-rule.repository.ts, mining.routes.ts,    *)
(* AlertRulesManagement.tsx, services/api.ts).                             *)
(*                                                                         *)
(* The server carries a request out in one step; its answer takes its time *)
(* and may overtake an earlier one, or be lost.  Of a rule the model keeps *)
(* what the operations look at: its name, whether it is enabled, whether   *)
(* it came from the rule files.                                            *)
(***************************************************************************)
EXTENDS Naturals, FiniteSets, FiniteSetsExt

CONSTANTS
  Pages,         \* the browsers that have the page open
  Names,         \* names of rules
  SystemRule,    \* the name of the rule imported from the files
  Nothing,       \* no form, no rule
  MaxRules,      \* bound: rules ever made
  MaxClicks,     \* bound: requests the users ask for
  MaxInFlight,   \* bound: requests of a page in flight
  MaxFaults      \* bound: lost answers

ASSUME SystemAssumption == SystemRule \in Names

VARIABLES
  rules,         \* alert_rules: [id, name, enabled, system]
  nextId,        \* AUTOINCREMENT: an id is never given again
  version,       \* history: changes of the table so far
  page,          \* what each browser shows
  calls,         \* the requests of each page whose answer has not come
  clicksLeft, faultsLeft

server == <<rules, nextId, version>>
bounds == <<clicksLeft, faultsLeft>>
vars == <<server, page, calls, bounds>>

Click == clicksLeft > 0 /\ clicksLeft' = clicksLeft - 1 /\ UNCHANGED faultsLeft
Fault == faultsLeft > 0 /\ faultsLeft' = faultsLeft - 1
Ids == {r.id : r \in rules}
Rule(id) == CHOOSE r \in rules : r.id = id

----------------------------------------------------------------------------
(* The routes.  Each leaves the table changed, or refuses.                 *)

\* Each change is logged (logAlertRuleHistory); a row that cannot be written is forgotten, and the
\* change stays.
Changed == version' = version + 1

\* createAlertRule: a name is taken once; the expression or the duration may be refused.
CreateOk(name) == /\ \A r \in rules : r.name # name
                  /\ nextId <= MaxRules
Create(name, enabled) ==
  /\ rules' = rules \cup {[id |-> nextId, name |-> name, enabled |-> enabled, system |-> FALSE]}
  /\ nextId' = nextId + 1 /\ Changed

\* updateAlertRule: every field the form sent, enabled among them.
UpdateOk(id) == id \in Ids
Update(id, enabled) ==
  /\ rules' = {IF r.id = id THEN [r EXCEPT !.enabled = enabled] ELSE r : r \in rules}
  /\ Changed
  /\ UNCHANGED nextId

ToggleOk(id) == id \in Ids
Toggle(id, enabled) ==
  /\ rules' = {IF r.id = id THEN [r EXCEPT !.enabled = enabled] ELSE r : r \in rules}
  /\ Changed
  /\ UNCHANGED nextId

\* deleteAlertRule: not of a system rule.
DeleteOk(id) == id \in Ids /\ ~Rule(id).system
Delete(id) ==
  /\ rules' = {r \in rules : r.id # id}
  /\ Changed
  /\ UNCHANGED nextId

\* A request that is refused changes nothing.
Refused == UNCHANGED server

----------------------------------------------------------------------------
(* The page: requests.                                                     *)

Loads(p) == {c \in calls[p] : c.kind = "load"}
LoadSent == [kind |-> "load", at |-> version, ok |-> TRUE, list |-> rules, target |-> Nothing]

\* loadRules, called by the page or by an answer: the spinner hides the table.  Two loads in
\* flight may end in either order.
Loading(p, state, others) ==
  /\ page' = [page EXCEPT ![p] = [state EXCEPT !.loading = TRUE,
                !.strayed = \E c \in others : c.kind = "load"]]
  /\ calls' = [calls EXCEPT ![p] = others \cup {LoadSent}]

RoomFor(p) == Cardinality(calls[p]) < MaxInFlight
Modal(p) == page[p].form # Nothing \/ page[p].deleteOpen \/ page[p].historyOpen

\* A row can be clicked while the table is shown and no dialog covers it.
Clickable(p, r) == r \in page[p].list /\ ~page[p].loading /\ ~Modal(p)

\* A request sent now, with the answer it will get: at is the table's version after it.
Sent(p, kind, ok, target) ==
  /\ RoomFor(p)
  /\ calls' = [calls EXCEPT ![p] = @ \cup {[kind |-> kind, ok |-> ok, at |-> version', list |-> {},
                                             target |-> target]}]

RefreshClicked(p) ==
  /\ Click /\ RoomFor(p) /\ ~Modal(p)
  /\ Loading(p, page[p], calls[p])
  /\ UNCHANGED server

\* The opposite of what the page shows.
ToggleClicked(p) ==
  /\ Click
  /\ \E r \in page[p].list :
       /\ Clickable(p, r)
       /\ \/ ToggleOk(r.id) /\ Toggle(r.id, ~r.enabled) /\ Sent(p, "toggle", TRUE, r.id)
          \/ ~ToggleOk(r.id) /\ Refused /\ Sent(p, "toggle", FALSE, r.id)
  /\ UNCHANGED page

HistoryClicked(p) ==
  /\ Click
  /\ \E r \in page[p].list :
       Clickable(p, r) /\ Refused /\ Sent(p, "history", TRUE, r.id)
  /\ UNCHANGED page

\* handleOpenDialog: the form is filled from a row, or empty for a new rule.
\* Defect: a new rule's form forgets to reset the rule that is edited.
NewFormKeeps(state) == [state EXCEPT !.form = [from |-> Nothing, crossed |-> FALSE]]
NewForm(state) == [state EXCEPT !.form = [from |-> Nothing, crossed |-> FALSE],
                                !.editing = Nothing]

NewClicked(p) ==
  /\ ~Modal(p)
  /\ page' = [page EXCEPT ![p] = NewForm(@)]
  /\ UNCHANGED <<server, calls, bounds>>

EditClicked(p) ==
  /\ \E r \in page[p].list :
       /\ Clickable(p, r)
       /\ page' = [page EXCEPT ![p].form = [from |-> r.id, crossed |-> FALSE],
                               ![p].editing = r.id]
  /\ UNCHANGED <<server, calls, bounds>>

\* The dialog's buttons work while the history does not cover it.
FormOnTop(p) == page[p].form # Nothing /\ ~page[p].historyOpen

FormCancelled(p) ==
  /\ FormOnTop(p)
  /\ page' = [page EXCEPT ![p].form = Nothing, ![p].editing = Nothing]
  /\ UNCHANGED <<server, calls, bounds>>

\* handleSaveRule: an update of the rule that is edited, a new rule when there is none, with the
\* switch where the user put it.
SaveClicked(p) ==
  /\ Click /\ FormOnTop(p)
  /\ \E enabled \in BOOLEAN : LET id == page[p].editing
     IN \/ id # Nothing /\ UpdateOk(id) /\ Update(id, enabled) /\ Sent(p, "save", TRUE, id)
        \/ id = Nothing /\ \E name \in Names \ {SystemRule} :
             CreateOk(name) /\ Create(name, enabled) /\ Sent(p, "save", TRUE, Nothing)
        \* The rule is gone, the name is taken, or a field is not valid.
        \/ Refused /\ Sent(p, "save", FALSE, id)
  /\ UNCHANGED page

DeleteClicked(p) ==
  /\ \E r \in page[p].list :
       /\ Clickable(p, r) /\ ~r.system
       /\ page' = [page EXCEPT ![p].deleting = r.id, ![p].deleteOpen = TRUE]
  /\ UNCHANGED <<server, calls, bounds>>

DeleteCancelled(p) ==
  /\ page[p].deleteOpen /\ ~page[p].historyOpen
  /\ page' = [page EXCEPT ![p].deleteOpen = FALSE]
  /\ UNCHANGED <<server, calls, bounds>>

DeleteConfirmed(p) ==
  /\ Click /\ page[p].deleteOpen /\ ~page[p].historyOpen /\ page[p].deleting # Nothing
  /\ LET id == page[p].deleting
     IN \/ DeleteOk(id) /\ Delete(id) /\ Sent(p, "delete", TRUE, id)
        \/ ~DeleteOk(id) /\ Refused /\ Sent(p, "delete", FALSE, id)
  /\ UNCHANGED page

HistoryClosed(p) ==
  /\ page[p].historyOpen
  /\ page' = [page EXCEPT ![p].historyOpen = FALSE]
  /\ UNCHANGED <<server, calls, bounds>>

----------------------------------------------------------------------------
(* The page: answers.                                                      *)

\* What an answer changes on the page, before the reload it may ask for.  The answer of a save
\* closes whatever form is open, and so does that of a delete with the question.
Answered(state, c) ==
  CASE c.kind = "load" -> [state EXCEPT !.list = c.list, !.shown = c.at, !.loading = FALSE]
    [] c.kind = "history" -> [state EXCEPT !.editing = c.target, !.historyOpen = TRUE,
                                !.form = IF @ = Nothing THEN @ ELSE [@ EXCEPT !.crossed = TRUE]]
    [] c.kind = "save" /\ c.ok -> [state EXCEPT !.form = Nothing, !.editing = Nothing,
                                                !.done = Max({@, c.at})]
    [] c.kind = "delete" /\ c.ok -> [state EXCEPT !.deleteOpen = FALSE, !.deleting = Nothing,
                                !.done = Max({@, c.at})]
    [] c.kind = "toggle" /\ c.ok -> [state EXCEPT !.done = Max({@, c.at})]
    [] OTHER -> state

\* Every change that succeeded is followed by a load.
\* Defect: a toggle is not.
ReloadsButToggle(c) == c.ok /\ c.kind \in {"save", "delete"}
Reloads(c) == c.ok /\ c.kind \in {"save", "delete", "toggle"}

AnswerArrives(p) ==
  /\ \E c \in calls[p] :
       IF Reloads(c) THEN Loading(p, Answered(page[p], c), calls[p] \ {c})
       ELSE /\ page' = [page EXCEPT ![p] = Answered(@, c)]
            /\ calls' = [calls EXCEPT ![p] = @ \ {c}]
  /\ UNCHANGED <<server, bounds>>

\* The answer is lost: the page reports an error, and only a load had more to undo.
AnswerLost(p) ==
  /\ Fault
  /\ \E c \in calls[p] :
       /\ calls' = [calls EXCEPT ![p] = @ \ {c}]
       /\ page' = IF c.kind = "load" THEN [page EXCEPT ![p].loading = FALSE, ![p].strayed = TRUE]
                  ELSE page
  /\ UNCHANGED <<server, clicksLeft>>

----------------------------------------------------------------------------
FreshPage == [list |-> {}, shown |-> 0, loading |-> TRUE, form |-> Nothing, editing |-> Nothing,
              deleting |-> Nothing, deleteOpen |-> FALSE, historyOpen |-> FALSE, done |-> 0,
              strayed |-> FALSE]

\* The rules of the files were imported (migrate-alert-rules.ts), and the pages have just opened.
Init ==
  /\ rules = {[id |-> 1, name |-> SystemRule, enabled |-> TRUE, system |-> TRUE]}
  /\ nextId = 2 /\ version = 0
  /\ page = [p \in Pages |-> FreshPage]
  /\ calls = [p \in Pages |-> {LoadSent}]
  /\ clicksLeft = MaxClicks /\ faultsLeft = MaxFaults

Next ==
  \E p \in Pages :
    \/ RefreshClicked(p) \/ ToggleClicked(p) \/ HistoryClicked(p) \/ NewClicked(p) \/ EditClicked(p)
    \/ FormCancelled(p) \/ SaveClicked(p) \/ DeleteClicked(p)
    \/ DeleteCancelled(p) \/ DeleteConfirmed(p) \/ HistoryClosed(p)
    \/ AnswerArrives(p) \/ AnswerLost(p)

Spec == Init /\ [][Next]_vars

----------------------------------------------------------------------------
(* The tables keep their keys (PRIMARY KEY, UNIQUE), a system
   rule stays, and a page without a load in flight shows no spinner. *)
RulesTypeOK ==
  /\ \A r, s \in rules : r = s \/ (r.id # s.id /\ r.name # s.name)
  /\ \A r \in rules : r.id < nextId
  /\ \E r \in rules : r.system
  /\ \A p \in Pages : Loads(p) = {} => ~page[p].loading

(* A save changes the rule its form was filled from, and a form that was opened empty makes a new
   rule: whatever dialogs came before it, and whatever answers of other requests arrived, except
   when the history of another rule arrived while the form was open (handleViewHistory sets
   editingRule, which handleSaveRule reads). *)
SaveHitsItsRule ==
  \A p \in Pages :
    page[p].form # Nothing /\ ~page[p].form.crossed => page[p].editing = page[p].form.from

(* What a page has reported as done is on it when it is at rest, with two administrators and
   answers in any order: unless two of its loads overlapped, or the last one failed. *)
PageShowsItsChanges ==
  \A p \in Pages : calls[p] = {} /\ ~page[p].strayed => page[p].shown >= page[p].done
=============================================================================
