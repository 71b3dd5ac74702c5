------------------------- MODULE ListSynchronization -------------------------
(***************************************************************************)
(* The properties of a property set (resources, listeners).  When a set is *)
(* persisted or merged with a list of properties, the engine's listener    *)
(* makes the rows that associate properties with it follow that list: it   *)
(* reads the rows, goes through the list, and deletes the rows it did not  *)
(* find there.  Each statement is a transaction of its own, several        *)
(* requests may synchronize one set, and each may break off anywhere.      *)
(***************************************************************************)
EXTENDS Naturals

CONSTANTS
  Requests,     \* requests that persist or merge the set, each with a list
  NoRequest,
  Properties,
  Fresh,        \* properties that have no row yet: a request brings them along
  Initial,      \* properties associated at first
  MaxFailures   \* bound: statements the database refuses

ASSUME RequestAssumption == NoRequest \notin Requests
ASSUME PropertyAssumption == Fresh \subseteq Properties /\ Initial \subseteq Properties \ Fresh
ASSUME BoundAssumption == MaxFailures \in Nat

VARIABLES
  rows,     \* PropertySetAssociation: the property, and who made it (once per request)
  stored,   \* properties that have a row
  pc,
  list,     \* the properties a request submits
  todo,     \* those of them it has not looked at
  found,    \* existingAssociationsAsMap: one row of a property
  twins,    \* history: properties a request found several rows of
  crossed,  \* history: requests under way at the same time as a request
  latest,   \* history: the request submitted last
  failures

history == <<twins, crossed, latest>>
vars == <<rows, stored, pc, list, todo, found, history, failures>>

Rows == [of : Properties, by : Requests \cup {NoRequest}]
Of(some) == {a.of : a \in some}
OneEach(some) == \A a, b \in some : a.of = b.of => a = b

Busy == {"load", "clear", "keep"}
UnderWay == {r \in Requests : pc[r] \in Busy}

\* A request has one row of each property at hand, also of those it made itself, and
\* only properties that have a row of their own are associated.
TypeOK ==
  /\ rows \subseteq Rows /\ stored \subseteq Properties /\ Of(rows) \subseteq stored
  /\ pc \in [Requests -> Busy \cup {"idle", "done", "failed"}]
  /\ list \in [Requests -> SUBSET Properties] /\ todo \in [Requests -> SUBSET Properties]
  /\ found \in [Requests -> SUBSET Rows] /\ \A r \in Requests : OneEach(found[r])
  /\ twins \in [Requests -> SUBSET Properties]
  /\ crossed \in [Requests -> SUBSET Requests] /\ latest \in Requests \cup {NoRequest}
  /\ failures \in 0 .. MaxFailures

Init ==
  /\ rows = {[of |-> p, by |-> NoRequest] : p \in Initial}
  /\ stored = Properties \ Fresh
  /\ pc = [r \in Requests |-> "idle"]
  /\ list = [r \in Requests |-> {}] /\ todo = [r \in Requests |-> {}]
  /\ found = [r \in Requests |-> {}]
  /\ twins = [r \in Requests |-> {}] /\ crossed = [r \in Requests |-> {}]
  /\ latest = NoRequest
  /\ failures = 0

\* onPersist(), onMerge(): the set comes with the attribute "properties".  A property
\* that has no row yet is an object of one request.
Submit(r, l) ==
  /\ pc[r] = "idle"
  /\ \A u \in Requests : l \cap list[u] \subseteq stored
  /\ pc' = [pc EXCEPT ![r] = IF l = {} THEN "clear" ELSE "load"]
  /\ list' = [list EXCEPT ![r] = l]
  /\ todo' = [todo EXCEPT ![r] = l]
  /\ crossed' = [u \in Requests |-> IF u = r THEN UnderWay
                                    ELSE IF u \in UnderWay THEN crossed[u] \cup {r} ELSE crossed[u]]
  /\ latest' = r
  /\ UNCHANGED <<rows, stored, found, twins, failures>>

Several(p) == \E a, b \in rows : a.of = p /\ b.of = p /\ a # b

\* Slip: each row is filed under a key of its own.
LoadAll(r) ==
  /\ pc[r] = "load"
  /\ pc' = [pc EXCEPT ![r] = "keep"]
  /\ found' = [found EXCEPT ![r] = rows]
  /\ twins' = [twins EXCEPT ![r] = {p \in Properties : Several(p)}]
  /\ UNCHANGED <<rows, stored, list, todo, crossed, latest, failures>>

\* Slip: the rows are deleted to be written anew.
LoadAndClear(r) ==
  /\ pc[r] = "load"
  /\ pc' = [pc EXCEPT ![r] = "keep"]
  /\ rows' = {}
  /\ UNCHANGED <<stored, list, todo, found, history, failures>>

\* The rows of the set, by property: of several, one remains in the map.
Load(r) ==
  /\ pc[r] = "load"
  /\ pc' = [pc EXCEPT ![r] = "keep"]
  /\ \E some \in SUBSET rows : /\ OneEach(some) /\ Of(some) = Of(rows)
                               /\ found' = [found EXCEPT ![r] = some]
  /\ twins' = [twins EXCEPT ![r] = {p \in Properties : Several(p)}]
  /\ UNCHANGED <<rows, stored, list, todo, crossed, latest, failures>>

\* A property without a key is persisted.
PersistProperty(r, p) ==
  /\ pc[r] = "keep"
  /\ p \in todo[r] \ stored
  /\ stored' = stored \cup {p}
  /\ UNCHANGED <<rows, pc, list, todo, found, history, failures>>

\* saveOrUpdate() of one that is associated.
UpdateProperty(r, p) ==
  /\ pc[r] = "keep"
  /\ p \in todo[r] \cap Of(found[r])
  /\ todo' = [todo EXCEPT ![r] = @ \ {p}]
  /\ UNCHANGED <<rows, stored, pc, list, found, history, failures>>

\* Slip: whether the property is associated is not asked.
AssociateAnyway(r, p) ==
  /\ pc[r] = "keep"
  /\ p \in todo[r] \cap stored
  /\ rows' = rows \cup {[of |-> p, by |-> r]}
  /\ todo' = [todo EXCEPT ![r] = @ \ {p}]
  /\ UNCHANGED <<stored, pc, list, found, history, failures>>

\* A new row for one that is not; it joins the map.
Associate(r, p) ==
  LET new == [of |-> p, by |-> r] IN
  /\ pc[r] = "keep"
  /\ p \in (todo[r] \cap stored) \ Of(found[r])
  /\ rows' = rows \cup {new}
  /\ found' = [found EXCEPT ![r] = @ \cup {new}]
  /\ todo' = [todo EXCEPT ![r] = @ \ {p}]
  /\ UNCHANGED <<stored, pc, list, history, failures>>

\* Slip: what is to be kept is deleted.
SuperfluousKept(r) == {a \in found[r] : a.of \in list[r]}

Superfluous(r) == {a \in found[r] : a.of \notin list[r]}

\* Rows of properties the list does not have, one by one; another request may have
\* been faster.
Delete(r, a) ==
  /\ pc[r] = "keep" /\ todo[r] = {}
  /\ a \in Superfluous(r)
  /\ rows' = rows \ {a}
  /\ found' = [found EXCEPT ![r] = @ \ {a}]
  /\ UNCHANGED <<stored, pc, list, todo, history, failures>>

Finish(r) ==
  /\ pc[r] = "keep" /\ todo[r] = {}
  /\ Superfluous(r) = {}
  /\ pc' = [pc EXCEPT ![r] = "done"]
  /\ UNCHANGED <<rows, stored, list, todo, found, history, failures>>

\* An empty list deletes all rows of the set in one statement.
Clear(r) ==
  /\ pc[r] = "clear"
  /\ pc' = [pc EXCEPT ![r] = "done"]
  /\ rows' = {}
  /\ UNCHANGED <<stored, list, todo, found, history, failures>>

\* An exception of any statement leaves the listener; what was written stays.
Fail(r) ==
  /\ pc[r] \in Busy
  /\ failures < MaxFailures
  /\ failures' = failures + 1
  /\ pc' = [pc EXCEPT ![r] = "failed"]
  /\ UNCHANGED <<rows, stored, list, todo, found, history>>

Step(r) ==
  \/ Load(r) \/ Finish(r) \/ Clear(r) \/ Fail(r)
  \/ \E l \in SUBSET Properties : Submit(r, l)
  \/ \E p \in Properties : PersistProperty(r, p) \/ UpdateProperty(r, p) \/ Associate(r, p)
  \/ \E a \in found[r] : Delete(r, a)

Next == \E r \in Requests : Step(r)

Spec == Init /\ [][Next]_vars

(***************************************************************************)
(* Properties                                                              *)
(***************************************************************************)

\* A property has two rows only if two requests that were under way at the same time
\* made them.
TwinsHaveACause ==
  \A a, b \in rows : a.of = b.of /\ a # b =>
    b.by \in Requests /\ a.by \in crossed[b.by]

\* What a set had at first, and every list submitted since has, it has at any moment: no
\* reader misses it, however requests overlap and wherever they break off.
KeptPropertiesStay ==
  \A p \in Initial : (\A r \in Requests : pc[r] # "idle" => p \in list[r]) => p \in Of(rows)

\* When the request that was submitted last has come to its end, and overlapped with no
\* other, the set has the properties of its list, and others only if an earlier overlap
\* had left two rows of them, of which one request deletes only one.
ListIsAsSubmitted ==
  latest # NoRequest /\ pc[latest] = "done" /\ crossed[latest] = {} =>
    /\ list[latest] \subseteq Of(rows)
    /\ Of(rows) \subseteq list[latest] \cup twins[latest]
=============================================================================
