----------------------------- MODULE EntityTable -----------------------------
(***************************************************************************)
(* The table of a browser in the shop-admin UI: cy/Browser.js,             *)
(* cy/TableBinder.js and its data providers (cy/EntityTableDataProvider.js *)
(* and cy/SearchTableDataProvider.js).  Clicks change the provider and     *)
(* load a page; answers come in any order and every one is rendered.       *)
(***************************************************************************)
EXTENDS Naturals, Bags, BagsExt, FiniteSetsExt

CONSTANTS
  Columns,     \* columns with a sort icon
  SortedBy,    \* the one a search is sorted by at first
  Unsorted,    \* the sort field of a provider without one
  Terms,       \* search terms
  NoTerm,      \* the empty one of them
  PageSize,
  MaxRows,     \* bound: rows there are in the beginning
  MaxActs      \* bound: clicks, refused requests and rows other clients remove

ASSUME TableAssumption ==
  SortedBy \in Columns /\ Unsorted \notin Columns /\ NoTerm \in Terms /\ PageSize \in Nat \ {0}

VARIABLES
  provider,  \* offset, term, sort field and direction; "search" and its link
  found,     \* the server: for each term how many rows it finds
  icon,      \* the columns whose icon is the arrow up
  shown,     \* the answer the rows come from
  bar,       \* the pagination bar: its current page and the pages it has links for
  call,      \* the bag of requests and answers
  loads, seen,         \* history: loadPage() calls, the newest one that was rendered
  acts, faults, removed

counts == <<acts, faults, removed>>
vars == <<provider, found, icon, shown, bar, call, loads, seen, counts>>

More == acts + faults + removed < MaxActs

\* What a query carries.  History: n is the load it belongs to, for and listed say which
\* term's bar the offset was chosen from and whether that page was in it.
Query(n, p) ==
  [n |-> n, term |-> p.term, field |-> p.field, asc |-> p.asc, offset |-> p.offset,
   for |-> p.for, listed |-> p.listed]

\* Until the search link is known, its resource is asked for first.
Load(p) ==
  /\ loads' = loads + 1
  /\ call' = BagAdd(call, IF p.linked THEN [kind |-> "query", query |-> Query(loads + 1, p)]
                          ELSE [kind |-> "first", n |-> loads + 1])

\* getTotalPages(): Math.round(count / ps + 0.5) unless it divides.
TotalPages(total) ==
  IF total % PageSize = 0 THEN total \div PageSize ELSE (total + PageSize) \div PageSize

CurrentPage(p) == p.offset \div PageSize + 1

\* The answer to a query that finds so many rows: how many, and how many of them it brings.
Result(q, total) ==
  LET left == IF q.offset < total THEN total - q.offset ELSE 0
  IN  [kind |-> "result", query |-> q, total |-> total, count |-> Min({left, PageSize})]

Bar(p, r) ==
  [current |-> CurrentPage(p), total |-> TotalPages(r.total), for |-> r.query.term]

\* renderTo() loads the first page.
Init ==
  /\ \E search \in BOOLEAN :
       provider = [search |-> search, linked |-> ~search, term |-> NoTerm, offset |-> 0,
                   field |-> IF search THEN SortedBy ELSE Unsorted, asc |-> FALSE,
                   for |-> NoTerm, listed |-> TRUE]
  /\ found \in [Terms -> 0 .. MaxRows] /\ found[NoTerm] = MaxRows
  /\ icon = {}
  /\ shown = Result(Query(0, provider), 0)
  /\ bar = [current |-> 1, total |-> 0, for |-> NoTerm]
  /\ call = IF provider.search THEN SetToBag({[kind |-> "first", n |-> 1]})
            ELSE SetToBag({[kind |-> "query", query |-> Query(1, provider)]})
  /\ loads = 1 /\ seen = 0 /\ acts = 0 /\ faults = 0 /\ removed = 0
-----------------------------------------------------------------------------
(* The user *)

Click == More /\ acts' = acts + 1

Reload ==
  /\ Click /\ Load(provider)
  /\ UNCHANGED <<provider, found, icon, shown, bar, seen, faults, removed>>

\* Slip: the page is loaded before the term is set.
SearchBeforeSet(t) ==
  /\ provider.search /\ Click
  /\ Load(provider)
  /\ provider' = [provider EXCEPT !.term = t]
  /\ UNCHANGED <<found, icon, shown, bar, seen, faults, removed>>

\* searchTermSubmitted() keeps the offset.
Search(t) ==
  /\ provider.search /\ Click
  /\ provider' = [provider EXCEPT !.term = t]
  /\ Load(provider')
  /\ UNCHANGED <<found, icon, shown, bar, seen, faults, removed>>

\* The first click on a column keeps the direction the last column had.
SortBy(c) ==
  /\ Click
  /\ provider' = IF provider.field = c THEN [provider EXCEPT !.asc = ~@]
                 ELSE [provider EXCEPT !.field = c]
  /\ icon' = IF provider'.asc THEN icon \cup {c} ELSE icon \ {c}
  /\ Load(provider')
  /\ UNCHANGED <<found, shown, bar, seen, faults, removed>>

\* The bar has its pages, the one before the current page and the one after it.
Links == ((1 .. bar.total) \ {bar.current})
           \cup (IF bar.current = 1 THEN {} ELSE {bar.current - 1})

OffsetOf(k) == (k - 1) * PageSize

TurnTo(k) ==
  /\ k \in Links /\ Click
  /\ provider' = [provider EXCEPT !.offset = OffsetOf(k),
                                  !.for = bar.for, !.listed = k <= bar.total]
  /\ Load(provider')
  /\ UNCHANGED <<found, icon, shown, bar, seen, faults, removed>>
-----------------------------------------------------------------------------
(* The server, other clients, and the network *)

Without(m) == BagRemove(call, m)

Serve(m) ==
  /\ m.kind = "query"
  /\ call' = BagAdd(Without(m), Result(m.query, found[m.query.term]))
  /\ UNCHANGED <<provider, found, icon, shown, bar, loads, seen, counts>>

\* A refused request has no callback that does anything.
Refuse(m) ==
  /\ m.kind # "result" /\ More
  /\ call' = Without(m)
  /\ faults' = faults + 1
  /\ UNCHANGED <<provider, found, icon, shown, bar, loads, seen, acts, removed>>

\* A row is removed that these terms find; no term finds more rows than there are.
OtherClient(S) ==
  /\ More /\ NoTerm \in S /\ \A t \in S : found[t] > 0
  /\ found' = [t \in Terms |-> IF t \in S THEN found[t] - 1 ELSE found[t]]
  /\ \A t \in Terms : found'[t] <= found'[NoTerm]
  /\ removed' = removed + 1
  /\ UNCHANGED <<provider, icon, shown, bar, call, loads, seen, acts, faults>>
-----------------------------------------------------------------------------
(* The callbacks *)

\* Slip: the link is kept and the query forgotten.
FirstPageOnly(m) ==
  /\ m.kind = "first"
  /\ provider' = [provider EXCEPT !.linked = TRUE]
  /\ call' = Without(m)
  /\ UNCHANGED <<found, icon, shown, bar, loads, seen, counts>>

\* loadedFirstPage(): the query carries what is set by now.
LoadedFirstPage(m) ==
  /\ m.kind = "first"
  /\ provider' = [provider EXCEPT !.linked = TRUE]
  /\ call' = BagAdd(Without(m), [kind |-> "query", query |-> Query(m.n, provider)])
  /\ UNCHANGED <<found, icon, shown, bar, loads, seen, counts>>

\* Slip: the bar is rendered before the provider takes the page.
LoadedBarFirst(m) ==
  /\ m.kind = "result"
  /\ shown' = m
  /\ bar' = [bar EXCEPT !.current = CurrentPage(provider), !.total = TotalPages(shown.total)]
  /\ call' = Without(m)
  /\ seen' = Max({seen, m.query.n})
  /\ UNCHANGED <<provider, found, icon, loads, counts>>

\* "load": whatever comes is rendered, the bar with the provider's page and this total.
Loaded(m) ==
  /\ m.kind = "result"
  /\ shown' = m
  /\ bar' = Bar(provider, m)
  /\ call' = Without(m)
  /\ seen' = Max({seen, m.query.n})
  /\ UNCHANGED <<provider, found, icon, loads, counts>>

Messages == BagToSet(call)

Next ==
  \/ Reload
  \/ \E t \in Terms : Search(t)
  \/ \E S \in SUBSET Terms : OtherClient(S)
  \/ \E c \in Columns : SortBy(c)
  \/ \E k \in Links : TurnTo(k)
  \/ \E m \in Messages : Serve(m) \/ Refuse(m) \/ LoadedFirstPage(m) \/ Loaded(m)

Fairness == WF_vars(\E m \in Messages : Serve(m) \/ LoadedFirstPage(m) \/ Loaded(m))

Spec == Init /\ [][Next]_vars /\ Fairness
-----------------------------------------------------------------------------
(* Properties *)

Quiet == Messages = {}

\* The bar leads to every row of the result it was rendered for, and to no page that
\* would be empty except the ones before the current page.
TypeOK ==
  /\ provider.field \in Columns \cup {Unsorted}
  /\ provider.offset % PageSize = 0
  /\ icon \subseteq Columns
  /\ bar.total * PageSize >= shown.total
  /\ bar.total > 0 => (bar.total - 1) * PageSize < shown.total
  /\ seen <= loads /\ shown.query.n <= seen

\* When all answers are there, the rows are what the provider was set to - term, column,
\* direction and page - unless an older answer overtook the newest one or a request failed;
\* and whichever answer came last, the bar shows the page that was asked for, and the icon
\* of the sorted column the direction.  At any moment the table is without rows although
\* the term finds some only if the offset was chosen for another term (a search keeps it)
\* or beyond the last page, or the rows were removed.
WrongTableHasACause ==
  /\ Quiet /\ faults = 0 =>
       /\ \/ shown.query.n < seen
          \/ LET q == shown.query IN
             /\ q.term = provider.term /\ q.offset = provider.offset
             /\ q.field = provider.field /\ q.asc = provider.asc
       /\ bar.current = CurrentPage(provider)
       /\ provider.field \in icon <=> provider.asc
  /\ shown.total > 0 /\ shown.count = 0 =>
       removed > 0 \/ shown.query.for # shown.query.term \/ ~shown.query.listed

\* Once the user has stopped clicking, the newest load is rendered, unless a request fails.
NewestLoadIsRendered == <>[](seen = loads \/ faults > 0)
=============================================================================
