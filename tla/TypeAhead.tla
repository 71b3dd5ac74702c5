------------------------------ MODULE TypeAhead ------------------------------
(***************************************************************************)
(* The type-ahead input of the shop-admin UI: cy/ui/input/                 *)
(* TypeAheadInput.js with its delayed search (cy/Task.js) and the data     *)
(* provider it searches with (cy/SearchTableDataProvider.js).  Keys, a     *)
(* timer of half a second and answers in any order meet in one field.      *)
(***************************************************************************)
EXTENDS Integers, Sequences, BagsExt, Bags, FiniteSetsExt, TLC

CONSTANTS
  Entries,     \* entities to choose from
  NoEntry,
  Texts,       \* contents of the field
  Empty,       \* the empty one of them
  Matches,     \* what the server finds for a text: a sequence of entries
  Label,       \* the text that stands for an entry
  MaxActs      \* bound: keys and clicks of the user, and requests that are refused

ASSUME TextAssumption ==
  /\ Empty \in Texts /\ NoEntry \notin Entries
  /\ Matches \in [Texts -> Seq(Entries)] /\ Label \in [Entries -> Texts \ {Empty}]

VARIABLES
  text, value,       \* the field, and the entity's member it is bound to
  results, noResult, \* searchResultBindings (NoList until there is one) and "no results"
  used, sel, lit,    \* usedArrows, selectedIndex, and the entry that is highlighted
  timer,             \* the last Task waits and was not cancelled
  provider,          \* the data provider's search term and whether it has its link
  call,              \* the bag of requests and answers
  searches, shown, seen,  \* history: searches submitted, the one whose answer is shown,
                          \* the newest one that was
  typed, late, after, broken,  \* history, see the properties
  acts, faults

field == <<text, value>>
list == <<results, noResult>>
selection == <<used, sel, lit>>
net == <<provider, call, searches, shown, seen>>
history == <<typed, late, after, broken>>
vars == <<field, list, selection, timer, net, history, acts, faults>>

NoList == <<NoEntry>>
NoTerm == "none"

LabelOf(e) == IF e = NoEntry THEN Empty ELSE Label[e]

Init ==
  /\ value \in Entries \cup {NoEntry} /\ text = LabelOf(value)
  /\ results = NoList /\ noResult = FALSE
  /\ used = FALSE /\ sel = -1 /\ lit = NoEntry
  /\ timer = FALSE
  /\ provider = [term |-> NoTerm, linked |-> FALSE]
  /\ call = EmptyBag /\ searches = 0 /\ shown = 0 /\ seen = 0
  /\ typed = "no" /\ late = FALSE /\ after = FALSE /\ broken = FALSE
  /\ acts = 0 /\ faults = 0
-----------------------------------------------------------------------------
(* The user *)

More == acts + faults < MaxActs
Act == More /\ acts' = acts + 1 /\ UNCHANGED faults

\* submitSearch() forgets the selection; the highlight stays until an answer comes.
SubmitSearch ==
  /\ used' = FALSE /\ sel' = -1 /\ UNCHANGED lit
  /\ provider' = [provider EXCEPT !.term = text]
  /\ searches' = searches + 1
  /\ call' = BagAdd(call, IF provider.linked
                            THEN [kind |-> "query", n |-> searches', term |-> text]
                            ELSE [kind |-> "first", n |-> searches'])
  /\ UNCHANGED <<shown, seen>>

\* Slip: the new task is cancelled instead of the old one.
DelayAndCancel(t) == IF provider.term = t THEN timer ELSE ~timer

\* submitDelayedSearch(): a text that was searched leaves even a waiting task alone.
Delay(t) == IF provider.term = t THEN timer ELSE TRUE

\* A key, which may leave the text as it is.  Keys released with Shift, Ctrl or Alt held
\* start no search; an empty text cancels the one that waits.
Key(t, modified) ==
  /\ Act
  /\ text' = t
  /\ timer' = IF t = Empty THEN FALSE ELSE IF modified THEN timer ELSE Delay(t)
  /\ typed' = IF t = text /\ (modified \/ typed = "no") THEN typed
              ELSE IF modified THEN "modified" ELSE "plain"
  /\ broken' = (broken /\ modified /\ t = text)
  /\ UNCHANGED <<value, list, selection, net, late, after>>

\* Slip: the index is compared before it is moved.
DownLate ==
  /\ results # NoList
  /\ sel' = IF sel = Len(results) THEN 0 ELSE sel + 1

Down ==
  /\ results # NoList
  /\ sel' = IF sel + 1 = Len(results) THEN 0 ELSE sel + 1

\* Nothing is selected at -1, and this goes on to -2.
Up ==
  /\ results # NoList
  /\ sel' = (IF sel = 0 THEN Len(results) ELSE sel) - 1

EntryAt(i) == IF results # NoList /\ i + 1 \in DOMAIN results THEN results[i + 1] ELSE NoEntry

\* selectEntry() highlights the entry of that index, if there is one.
Arrow ==
  /\ Act
  /\ Down \/ Up
  /\ used' = TRUE /\ lit' = EntryAt(sel')
  /\ late' = (late /\ lit' = NoEntry)
  /\ UNCHANGED <<field, list, timer, net, typed, after, broken>>

\* History: the value was chosen from the list.
Chosen == typed' = "no" /\ after' = FALSE

Choose(e) == value' = e /\ text' = Label[e] /\ Chosen

\* Enter takes the selected entry and drops the waiting search.
EnterTakes ==
  /\ Act /\ used /\ EntryAt(sel) # NoEntry
  /\ Choose(EntryAt(sel))
  /\ timer' = FALSE
  /\ UNCHANGED <<list, selection, net, late, broken>>

\* With an index that no entry has the handler ends after the task was cancelled.
EnterBreaks ==
  /\ Act /\ used /\ EntryAt(sel) = NoEntry
  /\ timer' = FALSE /\ broken' = TRUE
  /\ UNCHANGED <<field, list, selection, net, typed, late, after>>

EnterSearches ==
  /\ Act /\ ~used
  /\ SubmitSearch
  /\ timer' = FALSE
  /\ UNCHANGED <<field, list, history>>

\* A click on an entry cancels no task.
MouseDown(i) ==
  /\ Act /\ EntryAt(i) # NoEntry
  /\ Choose(EntryAt(i))
  /\ sel' = i /\ late' = TRUE
  /\ UNCHANGED <<list, used, lit, timer, net, broken>>

\* Leaving the field: a text without results is deleted, and with no text the value.
Blur ==
  /\ Act
  /\ text' = IF noResult THEN Empty ELSE text
  /\ value' = IF text' = Empty THEN NoEntry ELSE value
  /\ typed' = IF text' = Empty THEN "no" ELSE typed
  /\ UNCHANGED <<list, selection, timer, net, late, after, broken>>

TaskExecutes ==
  /\ timer /\ timer' = FALSE
  /\ SubmitSearch
  /\ UNCHANGED <<field, list, history, acts, faults>>
-----------------------------------------------------------------------------
(* The server and the callbacks *)

Without(m) == BagRemove(call, m)

\* loadedFirstPage(): the query carries the term that is set by now.
LoadedFirstPage(m) ==
  /\ m.kind = "first"
  /\ provider' = [provider EXCEPT !.linked = TRUE]
  /\ call' = BagAdd(Without(m), [kind |-> "query", n |-> m.n, term |-> provider.term])
  /\ UNCHANGED <<field, list, selection, timer, searches, shown, seen, history, acts, faults>>

Refuse(m) ==
  /\ More /\ faults' = faults + 1
  /\ call' = Without(m)
  /\ UNCHANGED <<field, list, selection, timer, provider, searches, shown, seen, history, acts>>

Received(m) ==
  /\ m.kind = "query"
  /\ call' = Without(m)
  /\ shown' = m.n /\ seen' = Max({seen, m.n})
  /\ late' = TRUE
  /\ after' = (after \/ Matches[m.term] = <<>>)
  /\ lit' = NoEntry
  /\ UNCHANGED <<field, used, sel, timer, provider, searches, typed, broken, acts, faults>>

\* Slip: results do not take back that there were none.
NoResultForGood(m) ==
  /\ Received(m)
  /\ results' = Matches[m.term]
  /\ noResult' = (noResult \/ Matches[m.term] = <<>>)

\* Every answer replaces the list, but neither the index nor usedArrows.
SearchResultReceived(m) ==
  /\ Received(m)
  /\ results' = Matches[m.term]
  /\ noResult' = (Matches[m.term] = <<>>)

Messages == BagToSet(call)

Next ==
  \/ \E t \in Texts, modified \in BOOLEAN : Key(t, modified)
  \/ Arrow \/ EnterTakes \/ EnterBreaks \/ EnterSearches \/ Blur
  \/ results # NoList /\ \E i \in 0 .. Len(results) - 1 : MouseDown(i)
  \/ TaskExecutes
  \/ \E m \in Messages : LoadedFirstPage(m) \/ Refuse(m) \/ SearchResultReceived(m)

\* Timers run out, and requests are answered.
Fairness ==
  /\ WF_vars(TaskExecutes)
  /\ WF_vars(\E m \in Messages : LoadedFirstPage(m) \/ SearchResultReceived(m))

Spec == Init /\ [][Next]_vars /\ Fairness
-----------------------------------------------------------------------------
(* Properties *)

Quiet == Messages = {} /\ ~timer

\* The list is the answer to the newest search, unless an older one's overtook it or a
\* request failed; "no results" is there exactly for an empty list; and once an arrow has
\* highlighted an entry, until another answer or a click comes, the index stays in the
\* list and Enter takes what is highlighted.  (Arrows on an empty list move the index past
\* every list to come, so that only the next search brings it back.)  What the field shows
\* is the value's label, until the user types; a text that was left without a choice stays
\* beside the earlier value.
TypeOK ==
  /\ text \in Texts /\ value \in Entries \cup {NoEntry} /\ typed \in {"no", "plain", "modified"}
  /\ typed = "no" => text = LabelOf(value)
  /\ results \in Seq(Entries) \cup {NoList} /\ (noResult <=> results = <<>>)
  /\ used => late \/ ((results # <<>> => sel < Len(results)) /\ EntryAt(sel) = lit)
  /\ Quiet /\ faults = 0 /\ searches > 0 => shown < seen \/ results = Matches[provider.term]

\* What was chosen is lost only to what the user typed since, or to an answer without
\* results that came since, when the field is left: it may answer the search that was
\* waiting when the entry was clicked, or one for the entry's own label.
LostChoiceHasACause ==
  [][value # NoEntry /\ value' = NoEntry => typed # "no" \/ after]_vars

\* When the user stops, the last text is searched, unless its last key was released with
\* Shift held, or Enter ended with an error after it had cancelled the task and no key
\* came since.  It is the provider's term then; the server may still refuse the request.
LastTextIsSearched ==
  <>[](typed = "plain" /\ text # Empty => provider.term = text \/ broken)
=============================================================================
