----------------------------- MODULE EntityForm -----------------------------
(***************************************************************************)
(* An entity of the shop-admin UI between its dialogs and the server:      *)
(* cy/RestBeans.js (persist, reload, remove, loadData, links) with the     *)
(* dialogs cy/Navigation.js opens over it.  The browser runs one callback  *)
(* at a time; between two callbacks the user clicks, other clients write,  *)
(* and requests of different clicks overtake each other.                   *)
(*                                                                         *)
(* The entity has a simple member ("plain") and an embedded entity         *)
(* ("nested").  loadData() writes the simple member into the same object   *)
(* but makes a new embedded object, so nested objects have identities; the *)
(* inputs of a dialog stay with the object they were built for.            *)
(***************************************************************************)
EXTENDS Naturals, Sequences, Functions

CONSTANTS
  Values,      \* values of a member
  Initially,   \* the value of both members in the beginning
  NoData,
  MaxCalls     \* bound: clicks that start requests (submit, edit, remove), requests the
               \* server refuses or whose answer is lost, and writes of other clients,
               \* all together

ASSUME ValueAssumption == Initially \in Values /\ NoData \notin [plain : Values, nested : Values]

VARIABLES
  rows,      \* the server's rows, in the order of their creation
  bean,      \* the entity: its member, the identity of its embedded object, its links
  nested,    \* the values in the embedded objects that the entity or a dialog still has
  forms,     \* the embedded objects that open dialogs are bound to
  waiting,   \* single-invocation listeners of openForm() for "reloaded"
  call,      \* for each click, in order, the request it has reached
  opened, clicked,        \* history: dialogs opened, and asked for
  creates, user,          \* history: creating submits, the user's patience
  faults, writes

client == <<bean, nested, forms, waiting>>
history == <<opened, clicked, creates, user>>
bounds == <<faults, writes>>
vars == <<rows, client, call, history, bounds>>

Data == [plain : Values, nested : Values]
Kinds == {"list", "add", "update", "self", "remove"}
Requests == [kind : Kinds, row : Nat, data : Data \cup {NoData}, at : {"sent", "ok", "error"}]
Done == [kind |-> "done"]

Calls == DOMAIN call
Busy == {c \in Calls : call[c] # Done}

More == Len(call) + faults + writes < MaxCalls

Request(kind, row, data) == [kind |-> kind, row |-> row, data |-> data, at |-> "sent"]

\* What wrappedSerialize() writes.
Payload == [plain |-> bean.plain, nested |-> nested[bean.nest]]

\* Slip: any link will do.
HasAnyLink == bean.self # 0

\* hasLink("update") and hasLink("remove"): links other than "self" come with the
\* last loadData() only; bean.loaded is the row they belong to.
HasLink == bean.loaded # 0

Init ==
  /\ nested = [n \in {0} |-> Initially]
  /\ \E listed \in BOOLEAN :   \* an entry of the table, or a new one in its dialog
       /\ bean = [plain |-> Initially, nest |-> 0, listed |-> listed,
                  self |-> IF listed THEN 1 ELSE 0, loaded |-> IF listed THEN 1 ELSE 0]
       /\ rows = IF listed
                   THEN <<[plain |-> Initially, nested |-> Initially, gone |-> FALSE]>>
                   ELSE <<>>
       /\ forms = IF listed THEN {} ELSE {0}
       /\ opened = IF listed THEN 0 ELSE 1
  /\ clicked = opened
  /\ waiting = 0
  /\ call = <<>>
  /\ creates = 0 /\ user = "clean"
  /\ faults = 0 /\ writes = 0
-----------------------------------------------------------------------------
(* The user *)

Start(request) == More /\ call' = Append(call, request)

\* History: whether the user waited for all answers before each step, and then whether
\* anything was edited since the last submit.
Patient(next) == IF user = "hasty" \/ Busy # {} THEN "hasty" ELSE next

\* A change of an input reaches the object the input was built for.
EditPlain(v) ==
  /\ forms # {} /\ v # bean.plain
  /\ bean' = [bean EXCEPT !.plain = v]
  /\ user' = Patient("dirty")
  /\ UNCHANGED <<rows, nested, forms, waiting, call, opened, clicked, creates, bounds>>

EditNested(f, v) ==
  /\ f \in forms /\ v # nested[f]
  /\ nested' = [nested EXCEPT ![f] = v]
  /\ user' = Patient("dirty")
  /\ UNCHANGED <<rows, bean, forms, waiting, call, opened, clicked, creates, bounds>>

\* Slip: the update link is not looked for.
AlwaysAdd == Request("list", 0, NoData)

\* What persistCallback() sends first.
Persist ==
  IF HasLink THEN Request("update", bean.loaded, Payload) ELSE Request("list", 0, NoData)

\* "Submit" does not close the dialog and can be clicked at any time.
Submit ==
  /\ forms # {}
  /\ Start(Persist)
  /\ creates' = IF HasLink THEN creates ELSE creates + 1
  /\ user' = Patient("clean")
  /\ UNCHANGED <<rows, client, opened, clicked, bounds>>

\* "Show" and "Edit" of a table row reload the entity before the dialog opens.
OpenForm ==
  /\ bean.listed
  /\ Start(Request("self", bean.self, NoData))
  /\ waiting' = waiting + 1 /\ clicked' = clicked + 1
  /\ user' = Patient(user)
  /\ UNCHANGED <<rows, bean, nested, forms, opened, creates, bounds>>

CloseForm(f) ==
  /\ f \in forms
  /\ forms' = forms \ {f}
  /\ nested' = Restrict(nested, forms' \cup {bean.nest})
  /\ UNCHANGED <<rows, bean, waiting, call, history, bounds>>

RemoveTableEntry ==
  /\ bean.listed /\ HasLink
  /\ Start(Request("remove", bean.loaded, NoData))
  /\ user' = "hasty"
  /\ UNCHANGED <<rows, client, opened, clicked, creates, bounds>>
-----------------------------------------------------------------------------
(* The server, other clients, and the network *)

Row(data) == [plain |-> data.plain, nested |-> data.nested, gone |-> FALSE]
DataOf(r) == [plain |-> rows[r].plain, nested |-> rows[r].nested]

Answered(c, row, data, at) ==
  call' = [call EXCEPT ![c] = [kind |-> call[c].kind, row |-> row, data |-> data, at |-> at]]

ServeList(c) == call[c].kind = "list" /\ Answered(c, 0, NoData, "ok") /\ UNCHANGED rows

ServeAdd(c) ==
  /\ call[c].kind = "add"
  /\ rows' = Append(rows, Row(call[c].data))
  /\ Answered(c, Len(rows) + 1, NoData, "ok")

\* Requests to the link of a row.
ServeRow(c, r) ==
  \/ rows[r].gone /\ Answered(c, r, NoData, "error") /\ UNCHANGED rows
  \/ /\ call[c].kind = "update" /\ ~rows[r].gone
     /\ rows' = [rows EXCEPT ![r] = Row(call[c].data)] /\ Answered(c, r, NoData, "ok")
  \/ /\ call[c].kind = "self" /\ ~rows[r].gone
     /\ Answered(c, r, DataOf(r), "ok") /\ UNCHANGED rows
  \/ /\ call[c].kind = "remove" /\ ~rows[r].gone
     /\ rows' = [rows EXCEPT ![r].gone = TRUE] /\ Answered(c, r, NoData, "ok")

Serve(c) ==
  /\ c \in Busy /\ call[c].at = "sent"
  /\ \/ ServeList(c) \/ ServeAdd(c)
     \/ call[c].kind \notin {"list", "add"} /\ ServeRow(c, call[c].row)
  /\ UNCHANGED <<client, history, bounds>>

Refuse(c) ==
  /\ More /\ c \in Busy /\ call[c].at = "sent"
  /\ Answered(c, call[c].row, NoData, "error")
  /\ faults' = faults + 1
  /\ UNCHANGED <<rows, client, history, writes>>

\* An answer without a status calls no callback, whether or not the server acted.
Lose(c) ==
  /\ More /\ c \in Busy
  /\ call' = [call EXCEPT ![c] = Done]
  /\ faults' = faults + 1
  /\ UNCHANGED <<rows, client, history, writes>>

OtherClient(r, v) ==
  /\ More /\ ~rows[r].gone /\ rows[r].plain # v
  /\ rows' = [rows EXCEPT ![r].plain = v]
  /\ writes' = writes + 1
  /\ UNCHANGED <<client, call, history, faults>>
-----------------------------------------------------------------------------
(* The callbacks of follow() *)

Arrives(c, kind) == c \in Busy /\ call[c].kind = kind /\ call[c].at = "ok"

\* The primary resource is there: the entity as it is now is posted.
PrimaryResource(c) ==
  /\ Arrives(c, "list")
  /\ call' = [call EXCEPT ![c] = Request("add", 0, Payload)]
  /\ UNCHANGED <<rows, client, history, bounds>>

\* Slip: persist() instead of persistCallback(true).
AddedWithoutReload(c) ==
  /\ Arrives(c, "add")
  /\ bean' = [bean EXCEPT !.self = call[c].row]
  /\ call' = [call EXCEPT ![c] = Done]
  /\ UNCHANGED <<rows, nested, forms, waiting, history, bounds>>

\* persistCallback() sets the link of the new row, fires "persisted" and reloads.
Added(c) ==
  /\ Arrives(c, "add")
  /\ bean' = [bean EXCEPT !.self = call[c].row]
  /\ call' = [call EXCEPT ![c] = Request("self", call[c].row, NoData)]
  /\ UNCHANGED <<rows, nested, forms, waiting, history, bounds>>

Updated(c) ==
  /\ Arrives(c, "update")
  /\ call' = [call EXCEPT ![c] = Request("self", bean.self, NoData)]
  /\ UNCHANGED <<rows, client, history, bounds>>

\* Slip: only missing links are taken over.
LoadedBesideOldLinks(q) ==
  /\ bean' = [bean EXCEPT !.plain = q.data.plain, !.nest = @ + 1, !.loaded = q.row]
  /\ nested' = [n \in forms \cup {bean.nest + 1} |->
                 IF n \in forms THEN nested[n] ELSE q.data.nested]

\* Slip: the new embedded object is set but not loaded.
LoadedWithoutNested(q) ==
  /\ bean' = [bean EXCEPT !.plain = q.data.plain, !.nest = @ + 1,
                          !.self = q.row, !.loaded = q.row]
  /\ nested' = [n \in forms \cup {bean.nest + 1} |->
                 IF n \in forms THEN nested[n] ELSE Initially]

\* loadData(): a new embedded object, the row's links instead of all earlier ones.
Loaded(q) ==
  /\ bean' = [bean EXCEPT !.plain = q.data.plain, !.nest = @ + 1,
                          !.self = q.row, !.loaded = q.row]
  /\ nested' = [n \in forms \cup {bean.nest + 1} |->
                 IF n \in forms THEN nested[n] ELSE q.data.nested]

\* Slip: addListener() instead of addSingleInvocationListener().
ReloadedForEver(c) ==
  /\ Arrives(c, "self")
  /\ Loaded(call[c])
  /\ forms' = IF waiting > 0 THEN forms \cup {bean.nest + 1} ELSE forms
  /\ opened' = opened + waiting /\ UNCHANGED waiting
  /\ call' = [call EXCEPT ![c] = Done]
  /\ UNCHANGED <<rows, clicked, creates, user, bounds>>

\* reload(): loadData() and "reloaded", which every waiting openForm() listens to.
Reloaded(c) ==
  /\ Arrives(c, "self")
  /\ Loaded(call[c])
  /\ forms' = IF waiting > 0 THEN forms \cup {bean.nest + 1} ELSE forms
  /\ opened' = opened + waiting /\ waiting' = 0
  /\ call' = [call EXCEPT ![c] = Done]
  /\ UNCHANGED <<rows, clicked, creates, user, bounds>>

\* "removed" closes the warning, "persistenceFailed" and "reloadFailed" have no
\* listener here, and a failing GET of the primary resource has no callback for it.
Ends(c) ==
  /\ c \in Busy
  /\ Arrives(c, "remove") \/ call[c].at = "error"
  /\ call' = [call EXCEPT ![c] = Done]
  /\ UNCHANGED <<rows, client, history, bounds>>

Callback(c) == PrimaryResource(c) \/ Added(c) \/ Updated(c) \/ Reloaded(c) \/ Ends(c)

Next ==
  \/ \E v \in Values : EditPlain(v) \/ \E f \in forms : EditNested(f, v)
  \/ \E f \in forms : CloseForm(f)
  \/ Submit \/ OpenForm \/ RemoveTableEntry
  \/ \E c \in Calls : Serve(c) \/ Refuse(c) \/ Lose(c) \/ Callback(c)
  \/ \E r \in 1 .. Len(rows), v \in Values : OtherClient(r, v)

\* The server answers what it is asked and the browser calls back.
Fairness == WF_vars(\E c \in Calls : Serve(c) \/ Callback(c))

Spec == Init /\ [][Next]_vars /\ Fairness
-----------------------------------------------------------------------------
(* Properties *)

\* Links point to rows there are, dialogs to embedded objects that were made.
TypeOK ==
  /\ rows \in Seq([plain : Values, nested : Values, gone : BOOLEAN])
  /\ bean \in [plain : Values, nest : Nat, listed : BOOLEAN,
               self : 0 .. Len(rows), loaded : 0 .. Len(rows)]
  /\ nested \in [forms \cup {bean.nest} -> Values]
  /\ forms \subseteq 0 .. bean.nest
  /\ waiting \in 0 .. Len(call)
  /\ call \in Seq(Requests \cup {Done})
  /\ \A c \in Busy : call[c].row \in (IF call[c].kind = "list" THEN {0}
                                     ELSE IF call[c].kind = "add" THEN 0 .. Len(rows)
                                     ELSE 1 .. Len(rows))

\* A new entity has no update link until it was reloaded, so each submit before that
\* creates a row; no other submit, retry or late answer creates one.
OneRowPerCreate == Len(rows) <= creates + (IF bean.listed THEN 1 ELSE 0)

\* While the answers of two creations overtake each other the entity's links belong
\* to two rows; if no answer was lost they belong to one row in the end.
LinksAgreeWhenQuiet == Busy = {} /\ faults = 0 => bean.self = bean.loaded

\* If the user waits for each answer, then what was submitted is in the row, what the
\* dialogs show of the simple member is too, and so is what they show of the embedded
\* entity, unless a reload has detached their inputs from it.
SequentialSubmitsArePersisted ==
  Busy = {} /\ user = "clean" /\ faults = 0 /\ writes = 0 /\ bean.self # 0 =>
    /\ DataOf(bean.self) = Payload
    /\ \A f \in forms : nested[f] = rows[bean.self].nested \/ f < bean.nest

\* However often a row's "Edit" is clicked before the entity is reloaded, and whether
\* or not that answer comes, no click opens two dialogs.
DialogsMatchClicks == opened + waiting = clicked

\* A submitted new entity becomes one that can be updated and removed, unless a
\* request of its creation failed.
CreatedBecomesUpdatable == creates > 0 ~> bean.loaded # 0 \/ faults > 0
=============================================================================
