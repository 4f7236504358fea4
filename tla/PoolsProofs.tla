----------------------------- MODULE PoolsProofs -----------------------------
(***************************************************************************)
(* What Pools guarantees for any number of browsers, accounts and keys.    *)
(*                                                                         *)
(*   - The key of an account is the one entered last for it, because ids   *)
(*     are unique: the row an update reads the old key from is the row it  *)
(*     changes (AccountsInv).                                              *)
(*   - A page shows the data of its selection, because unless loads of     *)
(*     data overlap, the one that is out is of the selection (DataFits).   *)
(***************************************************************************)
EXTENDS Pools, WellFoundedInduction, TLAPS

MaybeId == Ids \cup {Nothing, NewAccount}
Accounts == [id : Ids, api : Nat, key : Keys \cup {OldKey}, users : Ids]
Cards == [id : Ids, api : Nat, users : {Nothing}]
PageStates ==
  [list : SUBSET Cards, apis : SUBSET Nat, sel : MaybeId, same : BOOLEAN, data : MaybeId,
   loading : BOOLEAN, dataLoading : BOOLEAN, form : MaybeId, strayed : BOOLEAN]
CallStates ==
  [kind : {"load", "data", "refresh", "save", "delete"}, ok : BOOLEAN, list : SUBSET Cards,
   apis : SUBSET Nat, id : MaybeId, selected : MaybeId]

\* The tables.
ServerInv ==
  /\ accounts \subseteq Accounts /\ apis \subseteq Nat /\ nextApi \in Nat
  /\ tables \in BOOLEAN /\ entered \in [Ids -> Keys \cup {OldKey}]
  /\ \A a, b \in accounts : a.id = b.id => a = b
  /\ KeysAreTheEntered

PagesTyped == page \in [Pages -> PageStates] /\ calls \in [Pages -> SUBSET CallStates]

\* Unless loads of data overlapped: one is out at most, it is of the selection, and without one
\* the data are.
DataFits(state, cs) ==
  ~state.strayed =>
    /\ \A c, d \in DataCalls(cs) : c = d
    /\ state.sel # Nothing =>
         /\ \A c \in DataCalls(cs) : c.id = state.sel
         /\ DataCalls(cs) = {} => state.data \in {state.sel, Nothing}

PagesInv == PagesTyped /\ \A p \in Pages : DataFits(page[p], calls[p])

IInv == ServerInv /\ PagesInv

USE BlankAssumption

-----------------------------------------------------------------------------
(* The tables.                                                             *)

LEMMA UpdateInv ==
  ASSUME ServerInv, NEW id, NEW api \in Nat, NEW key \in Keys \cup {Blank},
         \E a \in accounts : a.id = id, Update(id, api, key)
  PROVE  ServerInv'
<1>1. PICK b \in accounts : b.id = id
  OBVIOUS
<1>2. b \in Accounts /\ id \in Ids /\ Account(id) = b /\ \A a \in accounts : a.id = id => a = b
  BY <1>1 DEF ServerInv, Accounts, Account
<1> DEFINE stored == Stored(id, key)
           new == [b EXCEPT !.api = api, !.key = stored]
<1>3. stored \in Keys \cup {OldKey} /\ stored = IF key = Blank THEN b.key ELSE key
  BY <1>2 DEF Stored, Accounts
<1> HIDE DEF stored
<1>4. new \in Accounts /\ new.id = id /\ new.key = stored
  BY <1>1, <1>2, <1>3 DEF Accounts
<1>5. accounts' = {IF a.id = id THEN new ELSE a : a \in accounts}
  BY <1>2 DEF Update, stored
<1> HIDE DEF new
<1>6. accounts' = (accounts \ {b}) \cup {new}
  BY <1>1, <1>2, <1>5
<1>7. accounts' \subseteq Accounts /\ \A a, c \in accounts' : a.id = c.id => a = c
  BY <1>1, <1>2, <1>4, <1>6 DEF ServerInv
<1>8. entered' \in [Ids -> Keys \cup {OldKey}] /\ entered'[id] = stored
      /\ \A i \in Ids \ {id} : entered'[i] = entered[i]
  BY <1>1, <1>2, <1>3 DEF Update, ServerInv, KeysAreTheEntered
<1>9. KeysAreTheEntered'
  <2> SUFFICES ASSUME NEW a \in accounts' PROVE a.key = entered'[a.id]
    BY DEF KeysAreTheEntered
  <2>1. CASE a = new
    BY <1>4, <1>8, <2>1
  <2>2. CASE a \in accounts \ {b}
    <3>1. a.id \in Ids \ {id} /\ a.key = entered[a.id]
      BY <1>2, <2>2 DEF ServerInv, Accounts, KeysAreTheEntered
    <3> QED BY <1>8, <3>1
  <2> QED BY <1>6, <2>1, <2>2
<1>10. apis' = apis /\ nextApi' = nextApi /\ tables' = tables
  BY DEF Update
<1> QED BY <1>7, <1>8, <1>9, <1>10 DEF ServerInv

LEMMA DeleteInv == ASSUME ServerInv, NEW id, Delete(id) PROVE ServerInv'
BY DEF ServerInv, Delete, KeysAreTheEntered

LEMMA ServerKept == ServerInv /\ UNCHANGED server => ServerInv'
BY DEF ServerInv, server, KeysAreTheEntered

LEMMA PoolsInv == ASSUME ServerInv, PoolAdded \/ PoolDeleted PROVE ServerInv'
<1>1. UNCHANGED <<tables, accounts, entered>>
  BY DEF PoolAdded, PoolDeleted
<1>2. apis' \subseteq Nat /\ nextApi' \in Nat
  <2>1. CASE PoolAdded
    BY <2>1 DEF PoolAdded, ServerInv
  <2>2. CASE PoolDeleted
    BY <2>2 DEF PoolDeleted, ServerInv
  <2> QED BY <2>1, <2>2
<1> QED BY <1>1, <1>2 DEF ServerInv, KeysAreTheEntered

-----------------------------------------------------------------------------
(* The parts of a step of a page.                                          *)

LEMMA OnePageMoves ==
  ASSUME PagesInv, NEW p \in Pages, NEW state \in PageStates, NEW cs \in SUBSET CallStates,
         page' = [page EXCEPT ![p] = state], calls' = [calls EXCEPT ![p] = cs], DataFits(state, cs)
  PROVE  PagesInv'
<1>1. PagesTyped'
  BY DEF PagesInv, PagesTyped
<1>2. ASSUME NEW q \in Pages PROVE DataFits(page'[q], calls'[q])
  BY DEF PagesInv, PagesTyped
<1> QED BY <1>1, <1>2 DEF PagesInv

\* A call that asks for no data goes out, or a dialog opens or closes.
LEMMA DialogMoves ==
  ASSUME PagesInv, NEW p \in Pages, NEW form \in MaybeId, page' = [page EXCEPT ![p].form = form],
         calls' = calls
  PROVE  PagesInv'
<1>1. page[p] \in PageStates /\ calls[p] \in SUBSET CallStates /\ DataFits(page[p], calls[p])
  BY DEF PagesInv, PagesTyped
<1> DEFINE state == [page[p] EXCEPT !.form = form]
<1>2. /\ state \in PageStates /\ state.sel = page[p].sel /\ state.data = page[p].data
      /\ state.strayed = page[p].strayed
  BY <1>1 DEF PageStates
<1>3. page' = [page EXCEPT ![p] = state] /\ calls' = [calls EXCEPT ![p] = calls[p]]
  BY DEF PagesInv, PagesTyped
<1> HIDE DEF state
<1>4. DataFits(state, calls[p])
  BY <1>1, <1>2 DEF DataFits
<1>5. PICK s, cs : s = state /\ cs = calls[p]
  OBVIOUS
<1> QED BY <1>1, <1>2, <1>3, <1>4, <1>5, OnePageMoves

LEMMA SentKeeps ==
  ASSUME PagesInv, NEW p \in Pages, NEW kind \in {"save", "delete"}, NEW ok \in BOOLEAN,
         NEW id \in MaybeId, Sent(p, kind, ok, id), page' = page
  PROVE  PagesInv'
<1>1. page[p] \in PageStates /\ page[p].sel \in MaybeId
      /\ calls[p] \in SUBSET CallStates /\ DataFits(page[p], calls[p])
  BY DEF PagesInv, PagesTyped, PageStates
<1> DEFINE new == [kind |-> kind, ok |-> ok, list |-> {}, apis |-> {}, id |-> id,
                   selected |-> page[p].sel]
<1>2. new \in CallStates /\ new.kind \in {"save", "delete"}
  BY <1>1 DEF CallStates
<1>3. calls' = [calls EXCEPT ![p] = calls[p] \cup {new}]
  BY DEF Sent
<1> HIDE DEF new
<1>4. DataCalls(calls[p] \cup {new}) = DataCalls(calls[p])
  BY <1>2 DEF DataCalls
<1>5. DataFits(page[p], calls[p] \cup {new})
  BY <1>1, <1>4 DEF DataFits
<1>6. page' = [page EXCEPT ![p] = page[p]]
  BY DEF PagesInv, PagesTyped
<1>7. PICK s, cs : s = page[p] /\ cs = calls[p] \cup {new}
  OBVIOUS
<1>8. s \in PageStates /\ cs \in SUBSET CallStates /\ DataFits(s, cs)
      /\ page' = [page EXCEPT ![p] = s] /\ calls' = [calls EXCEPT ![p] = cs]
  BY <1>1, <1>2, <1>3, <1>5, <1>6, <1>7
<1> QED BY <1>8, OnePageMoves

\* A step that sends a call: one of data is of the selection.
LEMMA BecomesFits ==
  ASSUME PagesInv, NEW p \in Pages, NEW state \in PageStates, NEW others \in SUBSET calls[p],
         NEW sent \in SUBSET CallStates, Becomes(p, state, others, sent),
         \/ DataCalls(sent) = {} /\ DataFits(state, others)
         \/ \E d : sent = {d} /\ d.kind \in {"data", "refresh"} /\ d.id = state.sel
  PROVE  PagesInv'
<1> DEFINE strayed == IF DataCalls(sent) = {} THEN state.strayed ELSE DataCalls(others) # {}
           s == [state EXCEPT !.loading = @ \/ ListCalls(sent) # {},
                              !.dataLoading = @ \/ DataCalls(sent) # {}, !.strayed = strayed]
<1>1. page' = [page EXCEPT ![p] = s] /\ calls' = [calls EXCEPT ![p] = others \cup sent]
  BY DEF Becomes
<1>2. strayed \in BOOLEAN
  BY DEF PageStates
<1> HIDE DEF strayed
<1>3. s \in PageStates /\ s.sel = state.sel /\ s.data = state.data /\ s.strayed = strayed
  BY <1>2 DEF PageStates
<1> HIDE DEF s
<1>4. DataCalls(others \cup sent) = DataCalls(others) \cup DataCalls(sent)
  BY DEF DataCalls
<1>5. DataFits(s, others \cup sent)
  <2>1. CASE DataCalls(sent) = {} /\ DataFits(state, others)
    BY <1>3, <1>4, <2>1 DEF DataFits, strayed
  <2>2. ASSUME NEW d, sent = {d}, d.kind \in {"data", "refresh"}, d.id = state.sel
        PROVE  DataFits(s, others \cup sent)
    <3>1. DataCalls(sent) = {d}
      BY <2>2 DEF DataCalls
    <3>2. ~s.strayed => DataCalls(others) = {}
      BY <1>3, <3>1 DEF strayed
    <3> QED BY <1>3, <1>4, <2>2, <3>1, <3>2 DEF DataFits
  <2> QED BY <2>1, <2>2
<1>6. others \cup sent \in SUBSET CallStates
  BY DEF PagesInv, PagesTyped
<1>7. PICK t, cs : t = s /\ cs = others \cup sent
  OBVIOUS
<1> QED BY <1>1, <1>3, <1>5, <1>6, <1>7, OnePageMoves

-----------------------------------------------------------------------------
(* Calls.                                                                  *)

LEMMA LoadTyped ==
  ASSUME ServerInv, NEW selected \in MaybeId
  PROVE  LoadSent(selected) \in CallStates /\ LoadSent(selected).kind = "load"
<1>1. Visible \subseteq Accounts
  BY DEF Visible, ServerInv
<1>2. \A a \in Accounts : Listed(a) \in Cards
  BY DEF Listed, Accounts, Cards
<1>3. {Listed(a) : a \in Visible} \subseteq Cards
  BY <1>1, <1>2
<1> QED BY <1>3 DEF LoadSent, CallStates, ServerInv, MaybeId

LEMMA DataTyped ==
  ASSUME NEW id \in MaybeId, NEW then \in BOOLEAN, NEW selected \in MaybeId
  PROVE  /\ DataSent(id, then, selected) \in CallStates /\ DataSent(id, then, selected).id = id
         /\ DataSent(id, then, selected).kind \in {"data", "refresh"}
BY DEF DataSent, CallStates, Found

\* The first account of a list is one of it.
LEMMA FirstListed == ASSUME NEW c \in CallStates, c.list # {} PROVE First(c) \in Ids
<1> DEFINE S == {a.id : a \in c.list}
<1>1. S \subseteq Ids /\ S \subseteq Nat /\ S # {}
  BY DEF CallStates, Cards, Ids
<1> HIDE DEF S
<1> DEFINE R == {ss \in Nat \X Nat : ss[1] < ss[2]}
<1>2. IsWellFoundedOn(R, Nat)
  BY NatLessThanWellFounded DEF OpToRel
<1> HIDE DEF R
<1>3. PICK n \in S : \A m \in S : ~(<<m, n>> \in R)
  BY <1>1, <1>2, WFMin
<1>4. ASSUME NEW m \in S PROVE n <= m
  <2>1. m \in Nat /\ n \in Nat /\ <<m, n>> \notin R
    BY <1>1, <1>3
  <2>2. <<m, n>> \in R <=> <<m, n>> \in Nat \X Nat /\ <<m, n>>[1] < <<m, n>>[2]
    BY DEF R
  <2>3. ~(m < n)
    BY <2>1, <2>2
  <2> QED BY <2>1, <2>3
<1>5. Min(S) \in S
  BY <1>4 DEF Min
<1> QED BY <1>1, <1>5 DEF First, S

\* What an answer leaves of a page, when it was one of its calls.
LEMMA AnsweredFits ==
  ASSUME NEW state \in PageStates, NEW cs \in SUBSET CallStates, NEW c \in cs, NEW ok \in BOOLEAN,
         DataFits(state, cs)
  PROVE  Answered(state, c, ok) \in PageStates /\ DataFits(Answered(state, c, ok), cs \ {c})
<1> DEFINE s == Answered(state, c, ok)
<1>1. c \in CallStates /\ DataCalls(cs \ {c}) = DataCalls(cs) \ {c}
  BY DEF DataCalls
<1>2. CASE c.kind = "load"
  <2>1. s = [state EXCEPT !.loading = FALSE, !.list = IF ok THEN c.list ELSE state.list,
              !.apis = IF ok THEN c.apis ELSE state.apis, !.same = IF ok THEN FALSE ELSE state.same]
    BY <1>2 DEF Answered
  <2>2. s \in PageStates /\ s.sel = state.sel /\ s.data = state.data /\ s.strayed = state.strayed
    BY <1>1, <2>1 DEF PageStates, CallStates
  <2>3. DataCalls(cs \ {c}) = DataCalls(cs)
    BY <1>2 DEF DataCalls
  <2> HIDE DEF s
  <2>4. DataFits(s, cs \ {c})
    BY <2>2, <2>3 DEF DataFits
  <2> QED BY <2>2, <2>4 DEF s
<1>3. CASE c.kind \in {"data", "refresh"}
  <2>1. s = [state EXCEPT !.dataLoading = FALSE, !.data = DataAfter(state, c, ok)]
    BY <1>3 DEF Answered
  <2>2. DataAfter(state, c, ok) \in {c.id, Nothing} /\ DataAfter(state, c, ok) \in MaybeId
    BY <1>1 DEF DataAfter, CallStates, MaybeId
  <2>3. /\ s \in PageStates /\ s.sel = state.sel /\ s.data \in {c.id, Nothing}
        /\ s.strayed = state.strayed
    BY <2>1, <2>2 DEF PageStates
  <2>4. c \in DataCalls(cs)
    BY <1>3 DEF DataCalls
  <2> HIDE DEF s
  <2>5. DataFits(s, cs \ {c})
    BY <1>1, <2>3, <2>4 DEF DataFits
  <2> QED BY <2>3, <2>5 DEF s
<1>4. CASE c.kind \in {"save", "delete"}
  <2>1. DataCalls(cs \ {c}) = DataCalls(cs)
    BY <1>4 DEF DataCalls
  <2>2. /\ s \in PageStates /\ s.sel \in {state.sel, Nothing} /\ s.data = state.data
        /\ s.strayed = state.strayed
    <3>1. CASE c.kind = "save" /\ ok
      BY <3>1 DEF Answered, PageStates, MaybeId
    <3>2. CASE c.kind = "delete" /\ ok
      <4>1. s = [state EXCEPT !.sel = IF c.selected = c.id THEN Nothing ELSE state.sel]
        BY <3>2 DEF Answered
      <4> QED BY <4>1 DEF PageStates, MaybeId
    <3>3. CASE ~ok
      BY <1>4, <3>3 DEF Answered
    <3> QED BY <1>4, <3>1, <3>2, <3>3
  <2> HIDE DEF s
  <2>3. DataFits(s, cs \ {c})
    BY <2>1, <2>2 DEF DataFits
  <2> QED BY <2>2, <2>3 DEF s
<1> QED BY <1>1, <1>2, <1>3, <1>4 DEF CallStates

LEMMA ArrivesInv ==
  ASSUME IInv, NEW p \in Pages, NEW c \in calls[p], NEW ok \in BOOLEAN, Arrives(p, c, ok)
  PROVE  PagesInv'
<1>1. /\ page[p] \in PageStates /\ calls[p] \in SUBSET CallStates /\ c \in CallStates
      /\ DataFits(page[p], calls[p]) /\ ServerInv /\ PagesInv
  BY DEF IInv, PagesInv, PagesTyped
<1>2. PICK state : state = Answered(page[p], c, ok)
  OBVIOUS
<1>3. PICK others : others = calls[p] \ {c}
  OBVIOUS
<1>4. state \in PageStates /\ DataFits(state, others) /\ others \in SUBSET calls[p]
  BY <1>1, <1>2, <1>3, AnsweredFits
<1>5. CASE ok /\ Picks(c)
  <2>1. PICK first : first = First(c)
    OBVIOUS
  <2>2. first \in Ids /\ first \in MaybeId
    BY <1>1, <1>5, <2>1, FirstListed DEF Picks, MaybeId
  <2>3. PICK d : d = DataSent(first, FALSE, first)
    OBVIOUS
  <2>4. d \in CallStates /\ d.id = first /\ d.kind \in {"data", "refresh"}
    BY <2>2, <2>3, DataTyped
  <2>5. Selected(state, first) \in PageStates /\ Selected(state, first).sel = first
    BY <1>4, <2>2 DEF Selected, PageStates
  <2>6. Becomes(p, Selected(state, first), others, {d})
    BY <1>2, <1>3, <1>5, <2>1, <2>3 DEF Arrives
  <2>7. others \in SUBSET calls[p] /\ PagesInv /\ {d} \in SUBSET CallStates
    BY <1>1, <1>4, <2>4
  <2>8. \E e : {d} = {e} /\ e.kind \in {"data", "refresh"} /\ e.id = Selected(state, first).sel
    BY <2>4, <2>5
  <2> QED BY ONLY <2>5, <2>6, <2>7, <2>8, p \in Pages, BecomesFits
<1>6. CASE ~(ok /\ Picks(c))
  <2>1. PICK sent : sent = FollowUp(c, ok)
    OBVIOUS
  <2>2. c.selected \in MaybeId
    BY <1>1 DEF CallStates
  <2>3. sent \in SUBSET CallStates /\ DataCalls(sent) = {}
    BY <1>1, <2>1, <2>2, LoadTyped DEF FollowUp, DataCalls
  <2>4. Becomes(p, state, others, sent)
    BY <1>2, <1>3, <1>6, <2>1 DEF Arrives
  <2> QED BY <1>1, <1>4, <2>3, <2>4, BecomesFits
<1> QED BY <1>5, <1>6

-----------------------------------------------------------------------------
(* Every step.                                                             *)

LEMMA InitInv == Init => IInv
<1> SUFFICES ASSUME Init PROVE IInv
  OBVIOUS
<1>1. accounts \subseteq {[id |-> i, api |-> 1, key |-> OldKey, users |-> i] : i \in Ids}
      /\ tables \in BOOLEAN /\ entered = [i \in Ids |-> OldKey] /\ apis \subseteq {1} /\ nextApi = 2
  BY DEF Init
<1>2. ASSUME NEW a \in accounts PROVE a \in Accounts /\ a = [id |-> a.id, api |-> 1, key |-> OldKey, users |-> a.id]
  BY <1>1 DEF Accounts
<1>3. ServerInv
  BY <1>1, <1>2 DEF ServerInv, KeysAreTheEntered, Accounts
<1>4. LoadSent(Nothing) \in CallStates /\ LoadSent(Nothing).kind = "load"
  BY <1>3, LoadTyped DEF MaybeId
<1>5. FreshPage \in PageStates /\ FreshPage.sel = Nothing
  BY DEF FreshPage, PageStates, MaybeId
<1>6. DataCalls({LoadSent(Nothing)}) = {}
  BY <1>4 DEF DataCalls
<1>7. page = [p \in Pages |-> FreshPage] /\ calls = [p \in Pages |-> {LoadSent(Nothing)}]
  BY DEF Init
<1>8. PagesInv
  BY <1>4, <1>5, <1>6, <1>7 DEF PagesInv, PagesTyped, DataFits
<1> QED BY <1>3, <1>8 DEF IInv

LEMMA ClicksInv ==
  ASSUME IInv, NEW p \in Pages, CardClicked(p) \/ RefreshClicked(p) \/ FormOpened(p) \/ FormCancelled(p)
  PROVE  IInv'
<1>1. /\ page[p] \in PageStates /\ page[p].list \subseteq Cards /\ page[p].sel \in MaybeId
      /\ DataFits(page[p], calls[p]) /\ ServerInv /\ PagesInv
  BY DEF IInv, PagesInv, PagesTyped, PageStates
<1>2. ServerInv'
  <2>1. UNCHANGED server
    BY DEF CardClicked, RefreshClicked, FormOpened, FormCancelled
  <2> QED BY <1>1, <2>1, ServerKept
<1>3. PICK others : others = calls[p]
  OBVIOUS
<1>4. CASE CardClicked(p)
  <2>1. PICK a \in page[p].list :
          Becomes(p, Selected(page[p], a.id), calls[p], {DataSent(a.id, FALSE, a.id)})
    BY <1>4 DEF CardClicked
  <2>2. PICK id, d : id = a.id /\ d = DataSent(a.id, FALSE, a.id)
    OBVIOUS
  <2>3. id \in MaybeId
    BY <1>1, <2>2 DEF Cards, MaybeId
  <2>4. d \in CallStates /\ d.id = id /\ d.kind \in {"data", "refresh"}
    BY <2>2, <2>3, DataTyped
  <2>5. PICK state : state = Selected(page[p], id)
    OBVIOUS
  <2>6. state \in PageStates /\ state.sel = id
    BY <1>1, <2>3, <2>5 DEF Selected, PageStates
  <2>7. Becomes(p, state, others, {d}) /\ others \in SUBSET calls[p]
    BY <1>3, <2>1, <2>2, <2>5
  <2>8. PagesInv'
    BY <1>1, <2>4, <2>6, <2>7, BecomesFits
  <2> QED BY <1>2, <2>8 DEF IInv
<1>5. CASE RefreshClicked(p)
  <2>1. PICK state, sel : state = page[p] /\ sel = page[p].sel
    OBVIOUS
  <2>2. CASE sel = Nothing
    <3>1. PICK l : l = LoadSent(sel)
      OBVIOUS
    <3>2. l \in CallStates /\ l.kind = "load"
      BY <1>1, <2>1, <3>1, LoadTyped
    <3>3. Becomes(p, state, others, {l})
      BY <1>3, <1>5, <2>1, <2>2, <3>1 DEF RefreshClicked
    <3>4. DataCalls({l}) = {} /\ DataFits(state, others)
      BY <1>1, <1>3, <2>1, <3>2 DEF DataCalls
    <3>5. PagesInv'
      BY <1>1, <1>3, <2>1, <3>2, <3>3, <3>4, BecomesFits
    <3> QED BY <1>2, <3>5 DEF IInv
  <2>3. CASE sel # Nothing
    <3>1. PICK d : d = DataSent(sel, TRUE, sel)
      OBVIOUS
    <3>2. d \in CallStates /\ d.id = sel /\ d.kind \in {"data", "refresh"}
      BY <1>1, <2>1, <3>1, DataTyped
    <3>3. Becomes(p, state, others, {d})
      BY <1>3, <1>5, <2>1, <2>3, <3>1 DEF RefreshClicked
    <3>4. PagesInv'
      BY <1>1, <1>3, <2>1, <3>2, <3>3, BecomesFits
    <3> QED BY <1>2, <3>4 DEF IInv
  <2> QED BY <2>2, <2>3
<1>6. CASE FormOpened(p) \/ FormCancelled(p)
  <2>1. PICK form \in MaybeId : page' = [page EXCEPT ![p].form = form]
    BY <1>1, <1>6 DEF FormOpened, FormCancelled, MaybeId, Cards
  <2>2. calls' = calls
    BY <1>6 DEF FormOpened, FormCancelled
  <2>3. PagesInv'
    BY <1>1, <2>1, <2>2, DialogMoves
  <2> QED BY <1>2, <2>3 DEF IInv
<1> QED BY <1>4, <1>5, <1>6

LEMMA ChangesInv ==
  ASSUME IInv, NEW p \in Pages, SaveClicked(p) \/ DeleteClicked(p)
  PROVE  IInv'
<1>1. /\ page[p].list \subseteq Cards /\ page[p].form \in MaybeId /\ page[p].apis \subseteq Nat
      /\ ServerInv /\ PagesInv
  BY DEF IInv, PagesInv, PagesTyped, PageStates
<1>2. page' = page
  BY DEF SaveClicked, DeleteClicked
<1>3. CASE SaveClicked(p)
  <2>1. PICK id : id = page[p].form
    OBVIOUS
  <2>2. \E ok \in BOOLEAN : Sent(p, "save", ok, id)
    BY <1>3, <2>1 DEF SaveClicked
  <2>3. \/ UNCHANGED server
        \/ /\ \E a \in accounts : a.id = id
           /\ \E key \in Keys \cup {Blank}, api \in page[p].apis : Update(id, api, key)
    BY <1>3, <2>1 DEF SaveClicked
  <2>4. ServerInv'
    BY <1>1, <2>3, ServerKept, UpdateInv
  <2>5. PagesInv'
    BY <1>1, <1>2, <2>1, <2>2, SentKeeps
  <2> QED BY <2>4, <2>5 DEF IInv
<1>4. CASE DeleteClicked(p)
  <2>1. PICK a \in page[p].list : Delete(a.id) /\ Sent(p, "delete", TRUE, a.id)
    BY <1>4 DEF DeleteClicked
  <2>2. ServerInv'
    BY <1>1, <2>1, DeleteInv
  <2>3. a.id \in MaybeId
    BY <1>1 DEF Cards, MaybeId
  <2>4. PagesInv'
    BY <1>1, <1>2, <2>1, <2>3, SentKeeps
  <2> QED BY <2>2, <2>4 DEF IInv
<1> QED BY <1>3, <1>4

LEMMA NextInv == IInv /\ [Next]_vars => IInv'
<1> SUFFICES ASSUME IInv, [Next]_vars PROVE IInv'
  OBVIOUS
<1>1. ASSUME NEW p \in Pages, AnswerArrives(p) \/ AnswerLost(p) PROVE IInv'
  <2>1. PICK c \in calls[p], ok \in BOOLEAN : Arrives(p, c, ok)
    <3>1. \A c \in calls[p] : c.ok \in BOOLEAN
      BY DEF IInv, PagesInv, PagesTyped, CallStates
    <3> QED BY <1>1, <3>1 DEF AnswerArrives, AnswerLost
  <2>2. UNCHANGED server
    BY <1>1 DEF AnswerArrives, AnswerLost
  <2> QED BY <2>1, <2>2, ArrivesInv, ServerKept DEF IInv
<1>2. CASE PoolAdded \/ PoolDeleted
  <2>1. page' = page /\ calls' = calls
    BY <1>2 DEF PoolAdded, PoolDeleted
  <2> QED BY <1>2, <2>1, PoolsInv DEF IInv, PagesInv, PagesTyped
<1>3. CASE UNCHANGED vars
  BY <1>3, ServerKept DEF vars, IInv, PagesInv, PagesTyped
<1> QED BY <1>1, <1>2, <1>3, ClicksInv, ChangesInv DEF Next

LEMMA Invariant == Spec => []IInv
BY InitInv, NextInv, PTL DEF Spec

(* The key of every account is the one an administrator entered last, for any number of accounts,
   keys and browsers that edit them at once. *)
THEOREM KeysAreAlwaysTheEntered == Spec => []KeysAreTheEntered
<1>1. IInv => KeysAreTheEntered
  BY DEF IInv, ServerInv
<1> QED BY <1>1, Invariant, PTL

(* The earnings on a page at rest are those of the account in its title, or none, whatever order the
   answers took, unless loads of data overlapped. *)
THEOREM DataAreOfTheSelection == Spec => []ShownDataIsOfSelection
<1>1. IInv => ShownDataIsOfSelection
  <2> SUFFICES ASSUME IInv, NEW p \in Pages, calls[p] = {}, ~page[p].strayed
               PROVE  Shown(p) \in {page[p].sel, Nothing}
    BY DEF ShownDataIsOfSelection
  <2>1. DataCalls(calls[p]) = {} /\ DataFits(page[p], calls[p])
    BY DEF DataCalls, IInv, PagesInv
  <2> QED BY <2>1 DEF DataFits, Shown
<1> QED BY <1>1, Invariant, PTL
=============================================================================
