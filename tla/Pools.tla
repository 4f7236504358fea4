------------------------------- MODULE Pools -------------------------------
(***************************************************************************)
(* Pools and their accounts: the tables pool_apis and pool_accounts, the   *)
(* routes over them, the requests to the pool, and the page of earnings    *)
(* open in several browsers (pool.repository.ts, pool.service.ts,          *)
(* pool.routes.ts, PoolEarnings.tsx, services/api.ts).                     *)
(*                                                                         *)
(* The server carries a request out in one step; its answer takes its time *)
(* and may overtake an earlier one, or be lost.  The three requests of     *)
(* loadData are one call here, and so are the three of loadPoolData: the   *)
(* page waits for all three and one failure fails them all.  Of an account *)
(* the model keeps its pool, its key and the usernames it is matched by.   *)
(***************************************************************************)
EXTENDS Naturals, FiniteSets, FiniteSetsExt

CONSTANTS
  Pages,         \* the browsers that have the page open
  NumAccounts,   \* accounts 1..NumAccounts were stored before the routes were as they are
  Keys,          \* keys an administrator may enter
  OldKey,        \* the key of every account at the start
  Blank,         \* a key field that was left empty
  Nothing,       \* no account, no form, no data
  NewAccount,    \* the form was opened for a new account
  MaxApis,       \* bound: pools ever made
  MaxClicks,     \* bound: requests the users ask for
  MaxInFlight,   \* bound: requests of a page in flight
  MaxFaults      \* bound: failed calls

ASSUME BlankAssumption == Blank \notin Keys

Ids == 1..NumAccounts

VARIABLES
  tables,        \* the pool tables exist: no code of the repository creates them
  apis,          \* pool_apis: their ids
  nextApi,       \* the id of the next pool
  accounts,      \* pool_accounts: [id, api, key, users]
  entered,       \* history: the last key an administrator entered for each account
  page,          \* what each browser shows
  calls,         \* the requests of each page whose answer has not come
  clicksLeft, faultsLeft

server == <<tables, apis, nextApi, accounts, entered>>
bounds == <<clicksLeft, faultsLeft>>
vars == <<server, page, calls, bounds>>

Click == clicksLeft > 0 /\ clicksLeft' = clicksLeft - 1
Fault == faultsLeft > 0 /\ faultsLeft' = faultsLeft - 1

----------------------------------------------------------------------------
(* The routes.                                                             *)

\* getAllPoolAccounts and getPoolAccountById join the pool: without it an account is not there.
Visible == IF tables THEN {a \in accounts : a.api \in apis} ELSE {}
Account(id) == CHOOSE a \in accounts : a.id = id
Found(id) == \E a \in Visible : a.id = id

\* GET /pool-accounts leaves the key out, and the usernames with it.
Listed(a) == [id |-> a.id, api |-> a.api, users |-> Nothing]

\* GET /pool-apis, /pool-accounts and the statistics, for loadData.
LoadSent(selected) ==
  [kind |-> "load", ok |-> tables, list |-> {Listed(a) : a \in Visible}, apis |-> apis,
   id |-> Nothing, selected |-> selected]

\* The account's key opens the pool's three answers: info, rewards, payouts.
DataSent(id, then, selected) ==
  [kind |-> IF then THEN "refresh" ELSE "data", ok |-> Found(id), list |-> {}, apis |-> {},
   id |-> id, selected |-> selected]

\* The update of an account keeps the key when none was entered; then the account must be visible,
\* while an update with a key reaches it anyway.
UpdateOk(id, key) == tables /\ (key = Blank => Found(id))

Stored(id, key) == IF key = Blank THEN Account(id).key ELSE key

\* COALESCE keeps what the route does not pass on: the usernames, among others.
Update(id, api, key) ==
  /\ accounts' = {IF a.id = id THEN [a EXCEPT !.api = api, !.key = Stored(id, key)] ELSE a : a \in accounts}
  /\ entered' = IF key = Blank THEN entered ELSE [entered EXCEPT ![id] = key]
  /\ UNCHANGED <<tables, apis, nextApi>>

\* deletePoolAccount: also when the account is not there.
Delete(id) ==
  /\ accounts' = {a \in accounts : a.id # id}
  /\ UNCHANGED <<tables, apis, nextApi, entered>>

\* insertPoolApi and deletePoolApi, called from outside the page.
PoolAdded ==
  /\ Click /\ tables /\ nextApi <= MaxApis
  /\ apis' = apis \cup {nextApi} /\ nextApi' = nextApi + 1
  /\ UNCHANGED <<tables, accounts, entered, page, calls, faultsLeft>>

PoolDeleted ==
  /\ Click /\ tables
  /\ \E api \in apis : apis' = apis \ {api}
  /\ UNCHANGED <<tables, nextApi, accounts, entered, page, calls, faultsLeft>>

----------------------------------------------------------------------------
(* The page.                                                               *)

DataCalls(cs) == {c \in cs : c.kind \in {"data", "refresh"}}
ListCalls(cs) == {c \in cs : c.kind = "load"}

\* A page takes on a state and sends a set of at most one call.  Two loads of data that overlap may
\* end in either order.
Becomes(p, state, others, sent) ==
  /\ page' = [page EXCEPT ![p] =
       [state EXCEPT !.loading = @ \/ ListCalls(sent) # {},
                     !.dataLoading = @ \/ DataCalls(sent) # {},
                     !.strayed = IF DataCalls(sent) = {} THEN @ ELSE DataCalls(others) # {}]]
  /\ calls' = [calls EXCEPT ![p] = others \cup sent]

RoomFor(p) == Cardinality(calls[p]) < MaxInFlight

\* While the list loads the page is a spinner; while the form is open it covers the rest.
Reachable(p) == ~page[p].loading /\ page[p].form = Nothing
FormReachable(p) == ~page[p].loading /\ page[p].form # Nothing

\* A card is clicked.  The page loads an account's data when the selected object changes: the card
\* of the same account in a list that was loaded since is another object.
Selected(state, id) == [state EXCEPT !.sel = id, !.same = TRUE]
CardClicked(p) ==
  /\ Reachable(p) /\ RoomFor(p)
  /\ \E a \in page[p].list :
       /\ ~(page[p].sel = a.id /\ page[p].same)
       /\ Click
       /\ Becomes(p, Selected(page[p], a.id), calls[p], {DataSent(a.id, FALSE, a.id)})
  /\ UNCHANGED <<server, faultsLeft>>

\* handleRefresh: the data of the selection and then the list, or the list alone.
RefreshClicked(p) ==
  /\ Click /\ Reachable(p) /\ RoomFor(p) /\ ~page[p].dataLoading
  /\ LET sel == page[p].sel
     IN Becomes(p, page[p], calls[p],
                {IF sel = Nothing THEN LoadSent(sel) ELSE DataSent(sel, TRUE, sel)})
  /\ UNCHANGED <<server, faultsLeft>>

FormOpened(p) ==
  /\ Reachable(p)
  /\ \E form \in {NewAccount} \cup {a.id : a \in page[p].list} :
       page' = [page EXCEPT ![p].form = form]
  /\ UNCHANGED <<server, calls, bounds>>

FormCancelled(p) ==
  /\ FormReachable(p)
  /\ page' = [page EXCEPT ![p].form = Nothing]
  /\ UNCHANGED <<server, calls, bounds>>

\* A call that changes something, answered by ok.  What follows the answer still sees the selection
\* of the moment of the click.
Sent(p, kind, ok, id) ==
  /\ RoomFor(p)
  /\ calls' = [calls EXCEPT ![p] = @ \cup {[kind |-> kind, ok |-> ok, list |-> {}, apis |-> {},
                                             id |-> id, selected |-> page[p].sel]}]

\* handleSave.  A new account is always refused: insertPoolAccount binds one value too few.
SaveClicked(p) ==
  /\ Click /\ FormReachable(p)
  /\ LET id == page[p].form
     IN \/ /\ id = NewAccount
           /\ Sent(p, "save", FALSE, id) /\ UNCHANGED server
        \/ /\ id # NewAccount
           /\ \E key \in Keys \cup {Blank}, api \in page[p].apis :
                IF UpdateOk(id, key) THEN
                  /\ Sent(p, "save", TRUE, id)
                  /\ IF \E a \in accounts : a.id = id THEN Update(id, api, key) ELSE UNCHANGED server
                ELSE Sent(p, "save", FALSE, id) /\ UNCHANGED server
  /\ UNCHANGED <<page, faultsLeft>>

DeleteClicked(p) ==
  /\ Click /\ Reachable(p)
  /\ \E a \in page[p].list : Delete(a.id) /\ Sent(p, "delete", TRUE, a.id)
  /\ UNCHANGED <<page, faultsLeft>>

----------------------------------------------------------------------------
(* The page: answers.                                                      *)

\* loadData selects the first account of the list when nothing was selected at the time of the
\* call, whatever was selected since.
Picks(c) == c.kind = "load" /\ c.ok /\ c.list # {} /\ c.selected = Nothing
First(c) == Min({a.id : a \in c.list})

\* Data that did not come leaves none.
\* Defect: a failed load of data leaves the old data in place.
DataKept(state, c, ok) == IF ok THEN c.id ELSE state.data
DataAfter(state, c, ok) == IF ok THEN c.id ELSE Nothing

\* The answer of a save closes whatever form is open.
Answered(state, c, ok) ==
  CASE c.kind = "load" ->
         [state EXCEPT !.loading = FALSE, !.list = IF ok THEN c.list ELSE @,
                       !.apis = IF ok THEN c.apis ELSE @, !.same = IF ok THEN FALSE ELSE @]
    [] c.kind \in {"data", "refresh"} ->
         [state EXCEPT !.dataLoading = FALSE, !.data = DataAfter(state, c, ok)]
    [] c.kind = "save" /\ ok -> [state EXCEPT !.form = Nothing]
    [] c.kind = "delete" /\ ok -> [state EXCEPT !.sel = IF c.selected = c.id THEN Nothing ELSE @]
    [] OTHER -> state

\* What the page asks for next: a refresh goes on to the list even when the data failed.
\* Defect: the effect that loads the list runs on every render.
FollowUpForever(c, ok) == {LoadSent(c.selected)}
FollowUp(c, ok) ==
  IF c.kind = "refresh" \/ (c.kind \in {"save", "delete"} /\ ok) THEN {LoadSent(c.selected)} ELSE {}

Arrives(p, c, ok) ==
  IF ok /\ Picks(c)
  THEN Becomes(p, Selected(Answered(page[p], c, ok), First(c)), calls[p] \ {c},
               {DataSent(First(c), FALSE, First(c))})
  ELSE Becomes(p, Answered(page[p], c, ok), calls[p] \ {c}, FollowUp(c, ok))

AnswerArrives(p) ==
  /\ \E c \in calls[p] : Arrives(p, c, c.ok)
  /\ UNCHANGED <<server, bounds>>

\* The answer is lost, the pool does not answer in ten seconds, or the key cannot be decrypted.
AnswerLost(p) ==
  /\ Fault
  /\ \E c \in calls[p] : c.ok /\ Arrives(p, c, FALSE)
  /\ UNCHANGED <<server, clicksLeft>>

----------------------------------------------------------------------------
\* The data on the screen, under the title of the selection; while it loads there is a spinner.
Shown(p) == IF page[p].sel = Nothing \/ page[p].dataLoading THEN Nothing ELSE page[p].data

FreshPage == [list |-> {}, apis |-> {}, sel |-> Nothing, same |-> FALSE, data |-> Nothing,
              loading |-> TRUE, dataLoading |-> FALSE, form |-> Nothing, strayed |-> FALSE]

\* The database is new, or it was made by an earlier version and holds accounts.
Init ==
  /\ tables \in BOOLEAN
  /\ apis = IF tables THEN {1} ELSE {}
  /\ nextApi = 2
  /\ accounts = IF tables THEN {[id |-> i, api |-> 1, key |-> OldKey, users |-> i] : i \in Ids} ELSE {}
  /\ entered = [i \in Ids |-> OldKey]
  /\ page = [p \in Pages |-> FreshPage]
  /\ calls = [p \in Pages |-> {LoadSent(Nothing)}]
  /\ clicksLeft = MaxClicks /\ faultsLeft = MaxFaults

Next ==
  \/ PoolAdded \/ PoolDeleted
  \/ \E p \in Pages :
       \/ CardClicked(p) \/ RefreshClicked(p) \/ FormOpened(p) \/ FormCancelled(p)
       \/ SaveClicked(p) \/ DeleteClicked(p) \/ AnswerArrives(p) \/ AnswerLost(p)

\* Every request is answered: the client's axios has no timeout, but the backend's calls of a pool
\* have one of ten seconds, and a connection that breaks is an error.
Fairness == \A p \in Pages : WF_vars(AnswerArrives(p))
Spec == Init /\ [][Next]_vars /\ Fairness

----------------------------------------------------------------------------
(* Ids stay unique, a key was entered by somebody, and a spinner on a page belongs to a request
   that is still out: no order of answers and no failure leaves one behind. *)
PoolsTypeOK ==
  /\ \A a, b \in accounts : a.id = b.id => a = b
  /\ \A a \in accounts : a.key \in Keys \cup {OldKey}
  /\ \A p \in Pages : /\ page[p].loading => ListCalls(calls[p]) # {}
                      /\ page[p].dataLoading => DataCalls(calls[p]) # {}

(* The key of an account is the last one an administrator entered for it: saves that leave the
   field blank keep it, with two administrators editing one account and a pool that is deleted. *)
KeysAreTheEntered == \A a \in accounts : a.key = entered[a.id]

(* The earnings on a page at rest are those of the account in its title, or none: after failures,
   deletions, refreshes and selections that were replaced on the way, unless two of its loads of
   data overlapped (loadPoolData does not look at the selection when its answers arrive). *)
ShownDataIsOfSelection ==
  \A p \in Pages :
    calls[p] = {} /\ ~page[p].strayed => Shown(p) \in {page[p].sel, Nothing}

(* A page that is left alone comes to rest: the calls its answers lead to end. *)
PageSettles == \A p \in Pages : []<>(calls[p] = {})
=============================================================================
