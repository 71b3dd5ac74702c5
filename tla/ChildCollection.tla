--------------------------- MODULE ChildCollection ---------------------------
(***************************************************************************)
(* The children of an entity in its dialogs: cy/ui/input/                  *)
(* InverseCollectionInput.js and CollectionInput.js with EntityCollection  *)
(* (the translations of a TranslatedObject, the attributes of a            *)
(* ProductFamily).  Each dialog loads child objects of its own; the        *)
(* "persisted" event of the parent makes every input persist its children. *)
(* A closed dialog is taken from the page but is never destroyed, so its   *)
(* input still listens.                                                    *)
(***************************************************************************)
EXTENDS Observable, SequencesExt

CONSTANTS
  Values,      \* values of a child's member
  Initially,   \* the value of a new child and of the rows in the beginning
  PageSize,    \* children in a page of the answer
  Watched,     \* the child objects whose fate the liveness property follows
  MaxRows,     \* bound: rows in the beginning
  MaxActs      \* bound: dialogs and editors opened, children added and removed, submits, and
               \* requests the server refuses, all together

ASSUME PageAssumption ==
  PageSize \in Nat \ {0} /\ MaxRows \in Nat /\ Initially \in Values

VARIABLES
  parent,   \* "new" in its dialog, "created" by its submit, or "listed" in a table
  rows,     \* the children the server has: value, the object it was created from, and
            \* the save that created it (history)
  child,    \* the child objects: value, update link (a row), label, "changed" listeners
  input,    \* one per dialog: children listed, child in the editor (0: none), open
  call,     \* the bag of requests that have not come to their end
  closed,             \* history: children whose editor was closed
  acts, saves, faults, user

browser == <<parent, child, input, closed>>
counts == <<acts, saves, faults, user>>
vars == <<rows, call, browser, counts>>

Children == DOMAIN child
Inputs == DOMAIN input
Open == {i \in Inputs : input[i].open}
Listed == UNION {Range(input[i].items) : i \in Inputs}

Busy == BagToSet(call)

More == acts + faults < MaxActs

ParentRequest == [kind |-> "parent"]
PageRequest(i, offset) == [kind |-> "page", input |-> i, offset |-> offset]
ListRequest(c, save) == [kind |-> "list", child |-> c, save |-> save]
AddRequest(c, save) ==
  [kind |-> "add", child |-> c, value |-> child[c].value, save |-> save]
UpdateRequest(c) ==
  [kind |-> "update", child |-> c, value |-> child[c].value]

\* renderEntry(): the label listens to the entry.
Entry(value, row) ==
  [value |-> value, row |-> row, label |-> value, on |-> AddListener(<<>>, "label")]

NewInput == [items |-> <<>>, editing |-> 0, open |-> TRUE]

Init ==
  /\ parent \in {"new", "listed"}
  /\ rows \in IF parent = "new" THEN {<<>>}
              ELSE {[r \in 1 .. k |-> [value |-> Initially, by |-> 0, save |-> 0]] :
                      k \in 0 .. MaxRows}
  /\ input = IF parent = "new" THEN <<NewInput>> ELSE <<>>
  /\ child = <<>> /\ call = EmptyBag /\ closed = {}
  /\ acts = 0 /\ saves = 0 /\ faults = 0 /\ user = "clean"
-----------------------------------------------------------------------------
(* The user *)

\* History: whether the user waited for all answers before each step, and then whether
\* anything was edited since the last submit.
Patient(next) == user' = IF user = "hasty" \/ Busy # {} THEN "hasty" ELSE next

\* initCollection() of the new dialog's input, which loads the children.
OpenDialog ==
  /\ parent = "listed" /\ More
  /\ input' = Append(input, NewInput)
  /\ call' = call (+) SetToBag({PageRequest(Len(input) + 1, 0)})
  /\ acts' = acts + 1 /\ Patient(user)
  /\ UNCHANGED <<parent, rows, child, closed, saves, faults>>

CloseDialog(i) ==
  /\ input' = [input EXCEPT ![i].open = FALSE]
  /\ UNCHANGED <<parent, rows, child, call, closed, counts>>

AddNewEntry(i) ==
  /\ input[i].editing = 0 /\ More
  /\ child' = Append(child, Entry(Initially, 0))
  /\ input' = [input EXCEPT ![i].items = Append(@, Len(child'))]
  /\ acts' = acts + 1 /\ Patient("dirty")
  /\ UNCHANGED <<parent, rows, call, closed, saves, faults>>

\* The icon of an entry takes it from the list, and no request follows.
RemoveEntry(i, index) ==
  /\ input[i].editing = 0 /\ More
  /\ input' = [input EXCEPT ![i].items = RemoveAt(@, index)]
  /\ acts' = acts + 1 /\ Patient(user)
  /\ UNCHANGED <<parent, rows, child, call, closed, saves, faults>>

\* The editor has two inputs that are bound to the entry.
Bind(c) == AddListener(AddListener(child[c].on, "input"), "input")

EditEntry(i, c) ==
  /\ input[i].editing = 0 /\ More
  /\ input' = [input EXCEPT ![i].editing = c]
  /\ child' = [child EXCEPT ![c].on = Bind(c)]
  /\ acts' = acts + 1
  /\ UNCHANGED <<parent, rows, call, closed, saves, faults, user>>

\* inputChanged(): set() fires "changed".
Type(i, v) ==
  LET c == input[i].editing IN
  /\ c # 0 /\ child[c].value # v
  /\ child' = [child EXCEPT ![c].value = v,
                            ![c].label = IF Hears(child[c].on, "label") THEN v ELSE @]
  /\ Patient("dirty")
  /\ UNCHANGED <<parent, rows, input, call, closed, acts, saves, faults>>

\* "back": the field set destroys its items, and then once more as its components.
EntryEdited(i) ==
  LET c == input[i].editing
      Destroyed(on) == RemoveListener(RemoveListener(on, "input"), "input")
  IN
  /\ c # 0
  /\ input' = [input EXCEPT ![i].editing = 0]
  /\ child' = [child EXCEPT ![c].on = Destroyed(Destroyed(@))]
  /\ closed' = closed \cup {c}
  /\ UNCHANGED <<parent, rows, call, counts>>

Submit(i) ==
  /\ More
  /\ call' = call (+) SetToBag({ParentRequest})
  /\ acts' = acts + 1 /\ Patient("clean")
  /\ UNCHANGED <<browser, rows, saves, faults>>
-----------------------------------------------------------------------------
(* The server.  What an answer does not change is left out: of a page the moment it is *)
(* read and its arrival are apart, of the other requests there is only one moment.     *)

\* The server reads a page of the children.
ServePage(n) ==
  /\ n.kind = "page"
  /\ LET first == n.offset + 1
         last == Min({n.offset + PageSize, Len(rows)})
         answer == [kind |-> "answer", input |-> n.input, next |-> last < Len(rows),
                    items |-> [k \in 1 .. last + 1 - first |->
                                 Entry(rows[first + k - 1].value, first + k - 1)]]
     IN  call' = (call (-) SetToBag({n})) (+) SetToBag({answer})
  /\ UNCHANGED <<browser, rows, counts>>

\* A new child gets its "self" link only, which no later step here looks at.
ServeAdd(n) ==
  /\ n.kind = "add"
  /\ rows' = Append(rows, [value |-> n.value, by |-> n.child, save |-> n.save])
  /\ call' = call (-) SetToBag({n})
  /\ UNCHANGED <<browser, counts>>

ServeUpdate(n) ==
  /\ n.kind = "update"
  /\ rows' = [rows EXCEPT ![child[n.child].row].value = n.value]
  /\ call' = call (-) SetToBag({n})
  /\ UNCHANGED <<browser, counts>>

Refuse(n) ==
  /\ n.kind # "answer" /\ More
  /\ call' = call (-) SetToBag({n})
  /\ faults' = faults + 1
  /\ UNCHANGED <<browser, rows, acts, saves, user>>
-----------------------------------------------------------------------------
(* The callbacks *)

\* Slip: all inputs listen to one prototype.
PageLoadedByAll(n) ==
  /\ n.kind = "answer"
  /\ child' = child \o n.items
  /\ input' = [i \in Inputs |-> [input[i] EXCEPT !.items =
                 @ \o [k \in DOMAIN n.items |-> Len(child) + k]]]
  /\ call' = call (-) SetToBag({n})
  /\ UNCHANGED <<parent, rows, closed, counts>>

\* loadPageItemsToCollection(): the next page is asked for, this page's items are added.
PageLoaded(n) ==
  /\ n.kind = "answer"
  /\ LET i == n.input
         items == n.items
     IN  /\ child' = child \o items
         /\ input' = [input EXCEPT ![i].items =
                        @ \o [k \in DOMAIN items |-> Len(child) + k]]
         /\ call' = IF n.next
                      THEN (call (-) SetToBag({n})) (+) SetToBag({PageRequest(i, Last(items).row)})
                      ELSE call (-) SetToBag({n})
  /\ UNCHANGED <<parent, rows, closed, counts>>

\* What persist() of a child sends first: only a child that was loaded has an update
\* link, for persist() does not reload it.
ChildRequest(c) == IF child[c].row # 0 THEN UpdateRequest(c) ELSE ListRequest(c, saves + 1)

\* Slip: each input persists the children of all inputs.
RequestsOfEachInput ==
  [q \in {ChildRequest(c) : c \in Listed} |-> Len(input)]

\* Slip: a closed dialog listens no more.
RequestsOfOpenDialogs ==
  SetToBag({ChildRequest(c) : c \in UNION {Range(input[i].items) : i \in Open}})

\* Slip: children that are there are left alone.
RequestsOfNewChildren ==
  SetToBag({ListRequest(c, saves + 1) : c \in {d \in Listed : child[d].row = 0}})

\* What the inputs of all dialogs, open or closed, send on "persisted".
ChildRequests == SetToBag({ChildRequest(c) : c \in Listed})

Persisted(n) ==
  /\ n.kind = "parent"
  /\ parent' = IF parent = "new" THEN "created" ELSE parent
  /\ call' = (call (-) SetToBag({n})) (+) ChildRequests
  /\ saves' = saves + 1
  /\ UNCHANGED <<rows, child, input, closed, acts, faults, user>>

\* The primary resource is there: the child as it is now is posted.
PrimaryResource(n) ==
  /\ n.kind = "list"
  /\ call' = (call (-) SetToBag({n})) (+) SetToBag({AddRequest(n.child, n.save)})
  /\ UNCHANGED <<browser, rows, counts>>

Answered(n) ==
  \/ ServePage(n) \/ ServeAdd(n) \/ ServeUpdate(n)
  \/ PageLoaded(n) \/ Persisted(n) \/ PrimaryResource(n)

Next ==
  \/ OpenDialog
  \/ \E i \in Open :
       \/ CloseDialog(i) \/ AddNewEntry(i) \/ EntryEdited(i) \/ Submit(i)
       \/ \E c \in Range(input[i].items) : EditEntry(i, c)
       \/ \E index \in DOMAIN input[i].items : RemoveEntry(i, index)
       \/ \E v \in Values : Type(i, v)
  \/ \E n \in Busy : Answered(n) \/ Refuse(n)

\* The server answers what it is asked and the browser calls back.
Fairness == WF_vars(\E n \in Busy : Answered(n))

Spec == Init /\ [][Next]_vars /\ Fairness
-----------------------------------------------------------------------------
(* Properties *)

RowsOf(c) == {r \in DOMAIN rows : rows[r].by = c}

\* Each child object is in one list at most, and update links point to rows.  The label of an
\* entry follows the entry until its editor was closed once: that takes the label's listener
\* away together with the inputs'.
TypeOK ==
  /\ parent \in {"new", "created", "listed"}
  /\ rows \in Seq([value : Values, by : 0 .. Len(child), save : 0 .. saves])
  /\ child \in Seq([value : Values, row : 0 .. Len(rows), label : Values,
                    on : Seq({"label", "input"})])
  /\ \A i \in Inputs : /\ Range(input[i].items) \subseteq Children
                       /\ IsInjective(input[i].items)
                       /\ input[i].editing \in {0} \cup Range(input[i].items)
  /\ \A i, j \in Inputs :
       i # j => Range(input[i].items) \cap Range(input[j].items) = {}
  /\ \A c \in Children : child[c].label # child[c].value => c \in closed

\* A child never has more rows than its parent was saved times: no retry, reload or further
\* dialog makes another one, and what was loaded is never created again.
DuplicateRowsHaveACause ==
  \A c \in Children : Cardinality(RowsOf(c)) <= IF child[c].row = 0 THEN saves ELSE 0

\* The row of a child, or the last one that was created from it, has the value of the child
\* or of another object of the same row.
Stored(c) ==
  LET its == IF child[c].row # 0 THEN {child[c].row} ELSE RowsOf(c)
      r == Max(its)
  IN  its # {} /\ rows[r].value \in
        {child[d].value : d \in {c} \cup {d \in Children : child[d].row = r}}

\* If the user waits for each answer, what was submitted of a child is in its row, unless
\* another dialog, perhaps a closed one, has an object of the same row.
SubmittedChildrenAreStored ==
  Busy = {} /\ user = "clean" /\ faults = 0 => \A c \in Listed : Stored(c)

\* A submitted new child gets a row, even if its dialog is closed meanwhile, unless it
\* is taken from the list or a request is refused.
ChildrenFollowTheParent ==
  \A c \in Watched :
    (c \in Listed /\ child[c].row = 0 /\ ParentRequest \in Busy)
      ~> (c \notin Listed \/ RowsOf(c) # {} \/ faults > 0)
=============================================================================
