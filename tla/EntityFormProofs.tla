-------------------------- MODULE EntityFormProofs --------------------------
(***************************************************************************)
(* Theorems about EntityForm, for all values and any number of clicks,     *)
(* requests and failures: types, dialogs, rows, links, what was submitted. *)
(***************************************************************************)
EXTENDS EntityForm, FiniteSetTheorems, TLAPS

\* What a request or its answer carries, when there are n rows and the entity's own
\* link is self.
CallOK(q, n, self) ==
  q # Done =>
    /\ q.kind = "list" => q.row = 0
    /\ q.kind = "add" => q.row \in 0 .. n
    /\ q.kind = "add" /\ q.at = "sent" => q.data \in Data
    /\ q.kind = "add" /\ q.at = "ok" => q.row # 0
    /\ q.kind \in {"update", "self", "remove"} => q.row \in 1 .. n
    /\ q.kind = "update" => self # 0
    /\ q.kind = "update" /\ q.at = "sent" => q.data \in Data
    /\ q.kind = "self" /\ q.at = "ok" => q.data \in Data

CallsOK == \A c \in Calls : CallOK(call[c], Len(rows), bean.self)

\* An entity with further links, or of the table, has its own link.
LinksComeWithSelf == bean.loaded # 0 \/ bean.listed => bean.self # 0

Numbers == <<opened, clicked, creates, faults, writes>> \in Nat \X Nat \X Nat \X Nat \X Nat

TypeInvariant == TypeOK /\ CallsOK /\ LinksComeWithSelf /\ Numbers

\* Creations that have not reached the server's table yet, or never will.
IsCreation(q) == q # Done /\ (q.kind = "list" \/ (q.kind = "add" /\ q.at = "sent"))
Creating == {c \in Calls : IsCreation(call[c])}

Room == creates + (IF bean.listed THEN 1 ELSE 0)

CreationsAreCounted == Len(rows) + Cardinality(Creating) <= Room

\* An entity of the table keeps the one row it has, another one is not removed.
ListedKeepsItsRow == bean.listed => bean.self = 1 /\ bean.loaded = 1
NewIsNotRemoved == bean.listed \/ \A r \in DOMAIN rows : ~rows[r].gone

LinkedCall(q, listed) ==
  q # Done => IF listed THEN q.kind \in {"update", "self", "remove"} /\ q.row = 1
                        ELSE q.kind # "remove"
CallsAreLinked == \A c \in Calls : LinkedCall(call[c], bean.listed)

\* Links of two rows: an answer that brings those of one row is on its way.
Reloading(q) == q # Done /\ q.kind = "self" /\ q.at \in {"sent", "ok"}
ReloadIsUnderWay ==
  bean.self # bean.loaded /\ faults = 0 => \E c \in Calls : Reloading(call[c])

LinkInvariant == ListedKeepsItsRow /\ NewIsNotRemoved /\ CallsAreLinked /\ ReloadIsUnderWay

\* While the user waits for each answer: what a request and its answer carry, and, if
\* nothing was edited since the last submit, that it is what was submitted.
Undisturbed == user # "hasty" /\ faults = 0 /\ writes = 0

WaitedFor(c) ==
  /\ call[c].kind # "remove" /\ call[c].at # "error"
  /\ call[c].kind \in {"update", "self"} => call[c].row = bean.self

CarriesSubmit(c) ==
  /\ call[c].kind \in {"add", "update"} /\ call[c].at = "sent" => call[c].data = Payload
  /\ call[c].kind \in {"add", "update"} /\ call[c].at = "ok" => DataOf(call[c].row) = Payload
  /\ call[c].kind = "self" => DataOf(call[c].row) = Payload
  /\ call[c].kind = "self" /\ call[c].at = "ok" => call[c].data = Payload

PatientInvariant ==
  Undisturbed =>
    /\ \A c, d \in Busy : c = d
    /\ \A r \in DOMAIN rows : ~rows[r].gone
    /\ \A c \in Busy : WaitedFor(c)
    /\ user = "clean" =>
         /\ Busy = {} /\ bean.self # 0 => DataOf(bean.self) = Payload
         /\ \A c \in Busy : CarriesSubmit(c)
-----------------------------------------------------------------------------
(* Types *)

RowType == [plain : Values, nested : Values, gone : BOOLEAN]
Steps == Requests \cup {Done}

\* One call goes on.
LEMMA CallGoesOn ==
  ASSUME call \in Seq(Steps), NEW c \in Calls, NEW q \in Steps, call' = [call EXCEPT ![c] = q]
  PROVE  /\ call' \in Seq(Steps) /\ Len(call') = Len(call) /\ Calls' = Calls
         /\ call'[c] = q /\ \A d \in Calls : d # c => call'[d] = call[d]
BY DEF Calls

\* One call is added.
LEMMA CallStarts ==
  ASSUME call \in Seq(Steps), NEW q \in Steps, call' = Append(call, q)
  PROVE  /\ call' \in Seq(Steps) /\ Len(call') = Len(call) + 1
         /\ Calls' = Calls \cup {Len(call) + 1} /\ Len(call) + 1 \notin Calls
         /\ call'[Len(call) + 1] = q /\ \A d \in Calls : call'[d] = call[d]
BY DEF Calls

\* What is right of a request stays so when rows are added and the entity keeps a link.
LEMMA CallStaysOK ==
  ASSUME NEW q, NEW n \in Nat, NEW m \in Nat, NEW s, NEW t,
         CallOK(q, n, s), n <= m, s # 0 => t # 0
  PROVE  CallOK(q, m, t)
BY DEF CallOK

\* A click that has come to its end carries nothing.
LEMMA DoneIsOK == \A n, s : CallOK(Done, n, s)
BY DEF CallOK

\* The part of the type invariant about calls, when one goes on.
LEMMA CallsAfter ==
  ASSUME call \in Seq(Steps), CallsOK, Len(rows) \in Nat, Len(rows)' \in Nat,
         NEW c \in Calls, NEW q \in Steps, call' = [call EXCEPT ![c] = q],
         Len(rows) <= Len(rows)', bean.self # 0 => bean'.self # 0,
         CallOK(q, Len(rows)', bean'.self)
  PROVE  call' \in Seq(Steps) /\ Len(call') = Len(call) /\ CallsOK'
<1>1. /\ call' \in Seq(Steps) /\ Len(call') = Len(call) /\ Calls' = Calls
      /\ call'[c] = q /\ \A d \in Calls : d # c => call'[d] = call[d]
  BY CallGoesOn
<1>2. ASSUME NEW d \in Calls PROVE CallOK(call'[d], Len(rows)', bean'.self)
  <2>1. CASE d = c BY <2>1, <1>1
  <2>2. CASE d # c
    <3>1. CallOK(call[d], Len(rows), bean.self) BY DEF CallsOK
    <3> QED BY <3>1, <2>2, <1>1, CallStaysOK
  <2> QED BY <2>1, <2>2
<1> QED BY <1>1, <1>2 DEF CallsOK

\* The same, when one is added and nothing else changes.
LEMMA CallsAfterStart ==
  ASSUME call \in Seq(Steps), CallsOK, NEW q \in Steps, call' = Append(call, q),
         UNCHANGED <<rows, bean>>, CallOK(q, Len(rows), bean.self)
  PROVE  call' \in Seq(Steps) /\ Len(call') = Len(call) + 1 /\ CallsOK'
<1>1. /\ call' \in Seq(Steps) /\ Len(call') = Len(call) + 1
      /\ Calls' = Calls \cup {Len(call) + 1}
      /\ call'[Len(call) + 1] = q /\ \A d \in Calls : call'[d] = call[d]
  BY CallStarts
<1> QED BY <1>1 DEF CallsOK

\* What TypeOK says of the calls follows from CallsOK.
RowsOfCalls ==
  \A c \in Busy : call[c].row \in (IF call[c].kind = "list" THEN {0}
                                  ELSE IF call[c].kind = "add" THEN 0 .. Len(rows)
                                  ELSE 1 .. Len(rows))

\* Each request of a row is about a row there is.
LEMMA CallsHaveRows == call \in Seq(Steps) /\ CallsOK => RowsOfCalls
<1> SUFFICES ASSUME call \in Seq(Steps), CallsOK, NEW c \in Busy
             PROVE  call[c].row \in (IF call[c].kind = "list" THEN {0}
                                     ELSE IF call[c].kind = "add" THEN 0 .. Len(rows)
                                     ELSE 1 .. Len(rows))
  BY DEF RowsOfCalls
<1>1. c \in Calls /\ call[c] # Done /\ call[c] \in Requests
  BY DEF Busy, Calls, Steps
<1>2. call[c].kind \in Kinds
  BY <1>1 DEF Requests
<1>3. CallOK(call[c], Len(rows), bean.self)
  BY <1>1 DEF CallsOK
<1> QED BY <1>1, <1>2, <1>3 DEF CallOK, Kinds

\* The type invariant by its parts: the data, and the calls.
DataTyped ==
  /\ rows \in Seq(RowType)
  /\ bean \in [plain : Values, nest : Nat, listed : BOOLEAN,
               self : 0 .. Len(rows), loaded : 0 .. Len(rows)]
  /\ nested \in [forms \cup {bean.nest} -> Values]
  /\ forms \subseteq 0 .. bean.nest
  /\ waiting \in 0 .. Len(call)
  /\ LinksComeWithSelf
  /\ Numbers

\* The invariant in the form the steps are proved in.
LEMMA TypeByParts == TypeInvariant <=> DataTyped /\ call \in Seq(Steps) /\ CallsOK
BY CallsHaveRows DEF TypeInvariant, TypeOK, DataTyped, RowsOfCalls, RowType, Steps

\* The same after a step.
LEMMA TypeByPartsNext == (TypeInvariant <=> DataTyped /\ call \in Seq(Steps) /\ CallsOK)'
BY TypeByParts, PTL

\* What a form serializes is data of a row.
LEMMA PayloadIsData == TypeInvariant => Payload \in Data
BY DEF TypeInvariant, TypeOK, Payload, Data

\* A table entry or a new entity with its dialog, and no request.
LEMMA TypeInit == Init => TypeInvariant
<1> SUFFICES ASSUME Init PROVE TypeInvariant OBVIOUS
<1>1. PICK listed \in BOOLEAN :
       /\ bean = [plain |-> Initially, nest |-> 0, listed |-> listed,
                  self |-> IF listed THEN 1 ELSE 0, loaded |-> IF listed THEN 1 ELSE 0]
       /\ rows = IF listed
                   THEN <<[plain |-> Initially, nested |-> Initially, gone |-> FALSE]>>
                   ELSE <<>>
       /\ forms = IF listed THEN {} ELSE {0}
       /\ opened = IF listed THEN 0 ELSE 1
  BY DEF Init
<1>2. call = <<>> /\ call \in Seq(Steps) /\ Calls = {}
  BY DEF Init, Calls
<1>3. CallsOK
  BY <1>2 DEF CallsOK
<1>4. Initially \in Values
  BY ValueAssumption
<1>5. rows \in Seq(RowType) /\ Len(rows) = IF listed THEN 1 ELSE 0
  <2>1. CASE listed
    <3>1. [plain |-> Initially, nested |-> Initially, gone |-> FALSE] \in RowType
      BY <1>4 DEF RowType
    <3> QED BY <3>1, <2>1, <1>1
  <2>2. CASE ~listed
    BY <2>2, <1>1
  <2> QED BY <2>1, <2>2
<1>6. /\ bean \in [plain : Values, nest : Nat, listed : BOOLEAN,
                   self : 0 .. Len(rows), loaded : 0 .. Len(rows)]
      /\ LinksComeWithSelf
  BY <1>1, <1>4, <1>5 DEF LinksComeWithSelf
<1>7. /\ nested \in [forms \cup {bean.nest} -> Values] /\ forms \subseteq 0 .. bean.nest
      /\ waiting \in 0 .. Len(call) /\ Numbers
  BY <1>1, <1>2, <1>4 DEF Init, Numbers
<1> QED BY <1>2, <1>3, <1>5, <1>6, <1>7, TypeByParts DEF DataTyped

\* A step of the client that starts no request.
LEMMA TypeQuiet ==
  ASSUME TypeInvariant, DataTyped', UNCHANGED call, UNCHANGED Len(rows),
         bean.self # 0 => bean'.self # 0
  PROVE  TypeInvariant'
<1>1. call \in Seq(Steps) /\ CallsOK /\ Len(rows) \in Nat /\ Calls' = Calls
  BY TypeByParts DEF DataTyped, Calls
<1>2. CallsOK'
  BY <1>1, CallStaysOK DEF CallsOK
<1> QED BY <1>1, <1>2, TypeByPartsNext

\* A step that moves one request and changes no data but, perhaps, counters.
LEMMA TypeMoved ==
  ASSUME TypeInvariant, UNCHANGED <<rows, client>>, Numbers',
         NEW c \in Calls, NEW q \in Steps, call' = [call EXCEPT ![c] = q],
         CallOK(q, Len(rows), bean.self)
  PROVE  TypeInvariant'
<1>1. DataTyped /\ call \in Seq(Steps) /\ CallsOK
  BY TypeByParts
<1>2. /\ Len(rows) \in Nat /\ Len(rows)' = Len(rows) /\ bean' = bean
      /\ Len(rows) <= Len(rows)' /\ CallOK(q, Len(rows)', bean'.self)
  BY <1>1 DEF DataTyped, client
<1>3. call' \in Seq(Steps) /\ Len(call') = Len(call) /\ CallsOK'
  BY <1>1, <1>2, CallsAfter
<1>4. DataTyped'
  BY <1>1, <1>3 DEF DataTyped, client, LinksComeWithSelf
<1> QED BY <1>3, <1>4, TypeByPartsNext

\* A click that starts a request.
LEMMA TypeStarted ==
  ASSUME TypeInvariant, UNCHANGED <<rows, bean, nested, forms>>, Numbers',
         waiting' \in {waiting, waiting + 1},
         NEW q \in Steps, call' = Append(call, q), CallOK(q, Len(rows), bean.self)
  PROVE  TypeInvariant'
<1>1. DataTyped /\ call \in Seq(Steps) /\ CallsOK
  BY TypeByParts
<1>2. call' \in Seq(Steps) /\ Len(call') = Len(call) + 1 /\ CallsOK'
  BY <1>1, CallsAfterStart
<1>3. waiting' \in 0 .. Len(call')
  BY <1>1, <1>2 DEF DataTyped
<1>4. DataTyped'
  BY <1>1, <1>3 DEF DataTyped, LinksComeWithSelf
<1> QED BY <1>2, <1>4, TypeByPartsNext

\* Each action of the user keeps the types.
LEMMA TypeOfClicks ==
  ASSUME TypeInvariant,
         \/ \E v \in Values : EditPlain(v) \/ \E f \in forms : EditNested(f, v)
         \/ \E f \in forms : CloseForm(f)
         \/ Submit \/ OpenForm \/ RemoveTableEntry
  PROVE  TypeInvariant'
<1>0. DataTyped /\ call \in Seq(Steps) /\ CallsOK
  BY TypeByParts
<1>1. ASSUME NEW v \in Values, EditPlain(v) PROVE TypeInvariant'
  <2>1. DataTyped'
    BY <1>0, <1>1 DEF DataTyped, EditPlain, Numbers, LinksComeWithSelf, bounds
  <2> QED BY <1>0, <1>1, <2>1, TypeQuiet DEF EditPlain, DataTyped
<1>2. ASSUME NEW v \in Values, NEW f \in forms, EditNested(f, v) PROVE TypeInvariant'
  <2>1. DataTyped'
    BY <1>0, <1>2 DEF DataTyped, EditNested, Numbers, LinksComeWithSelf, bounds
  <2> QED BY <1>0, <1>2, <2>1, TypeQuiet DEF EditNested, DataTyped
<1>3. ASSUME NEW f \in forms, CloseForm(f) PROVE TypeInvariant'
  <2>1. nested' \in [forms' \cup {bean'.nest} -> Values]
    BY <1>0, <1>3 DEF DataTyped, CloseForm, Restrict
  <2>2. DataTyped'
    BY <1>0, <1>3, <2>1 DEF DataTyped, CloseForm, Numbers, LinksComeWithSelf, bounds, history
  <2> QED BY <1>0, <1>3, <2>2, TypeQuiet DEF CloseForm, DataTyped
<1>4. CASE Submit
  <2>1. Persist \in Steps /\ CallOK(Persist, Len(rows), bean.self)
    <3>1. Payload \in Data /\ 0 \in Nat /\ bean.loaded \in Nat
      BY <1>0, PayloadIsData DEF DataTyped
    <3>2. CASE HasLink
      BY <1>0, <3>1, <3>2
      DEF Persist, HasLink, Request, Steps, Requests, Kinds, CallOK, DataTyped, LinksComeWithSelf
    <3>3. CASE ~HasLink
      BY <1>0, <3>1, <3>3 DEF Persist, Request, Steps, Requests, Kinds, CallOK, DataTyped
    <3> QED BY <3>2, <3>3
  <2>2. Numbers'
    BY <1>4 DEF TypeInvariant, Submit, Numbers, bounds
  <2>3. call' = Append(call, Persist) /\ UNCHANGED <<rows, bean, nested, forms, waiting>>
    BY <1>4 DEF Submit, Start, client
  <2> QED BY <2>1, <2>2, <2>3, TypeStarted
<1>5. CASE OpenForm
  <2> DEFINE q == Request("self", bean.self, NoData)
  <2>1. q \in Steps /\ CallOK(q, Len(rows), bean.self)
    BY <1>0, <1>5
    DEF OpenForm, Request, Steps, Requests, Kinds, CallOK, DataTyped, LinksComeWithSelf
  <2>2. Numbers'
    BY <1>5 DEF TypeInvariant, OpenForm, Numbers, bounds
  <2>3. /\ call' = Append(call, q) /\ UNCHANGED <<rows, bean, nested, forms>>
        /\ waiting' = waiting + 1
    BY <1>5 DEF OpenForm, Start
  <2> QED BY <2>1, <2>2, <2>3, TypeStarted
<1>6. CASE RemoveTableEntry
  <2> DEFINE q == Request("remove", bean.loaded, NoData)
  <2>1. q \in Steps /\ CallOK(q, Len(rows), bean.self)
    BY <1>0, <1>6
    DEF RemoveTableEntry, HasLink, Request, Steps, Requests, Kinds, CallOK, DataTyped
  <2>2. Numbers'
    BY <1>6 DEF TypeInvariant, RemoveTableEntry, Numbers, bounds
  <2>3. call' = Append(call, q) /\ UNCHANGED <<rows, bean, nested, forms, waiting>>
    BY <1>6 DEF RemoveTableEntry, Start, client
  <2> QED BY <2>1, <2>2, <2>3, TypeStarted
<1> QED BY <1>1, <1>2, <1>3, <1>4, <1>5, <1>6

\* A step that moves one request and perhaps adds or changes rows.
LEMMA TypeServed ==
  ASSUME TypeInvariant, client' = client, history' = history, bounds' = bounds,
         rows' \in Seq(RowType), Len(rows) <= Len(rows'),
         NEW c \in Calls, NEW q \in Steps, call' = [call EXCEPT ![c] = q],
         CallOK(q, Len(rows'), bean.self)
  PROVE  TypeInvariant'
<1>1. DataTyped /\ call \in Seq(Steps) /\ CallsOK
  BY TypeByParts
<1>2. /\ Len(rows) \in Nat /\ Len(rows)' \in Nat /\ Len(rows)' = Len(rows')
      /\ bean' = bean /\ Len(rows) <= Len(rows)' /\ CallOK(q, Len(rows)', bean'.self)
  BY <1>1 DEF DataTyped, client
<1>3. call' \in Seq(Steps) /\ Len(call') = Len(call) /\ CallsOK'
  BY <1>1, <1>2, CallsAfter
<1>4. Numbers' /\ LinksComeWithSelf'
  BY <1>1 DEF DataTyped, client, history, bounds, LinksComeWithSelf, Numbers
<1>5. /\ bean' \in [plain : Values, nest : Nat, listed : BOOLEAN,
                    self : 0 .. Len(rows)', loaded : 0 .. Len(rows)']
      /\ nested' \in [forms' \cup {bean'.nest} -> Values] /\ forms' \subseteq 0 .. bean'.nest
  BY <1>1, <1>2 DEF DataTyped, client
<1>6. waiting' \in 0 .. Len(call')
  BY <1>1, <1>3 DEF DataTyped, client
<1>7. DataTyped'
  BY <1>2, <1>4, <1>5, <1>6 DEF DataTyped
<1> QED BY <1>3, <1>7, TypeByPartsNext

\* What is known of a request under way.
LEMMA BusyCall ==
  ASSUME TypeInvariant, NEW c \in Busy
  PROVE  /\ c \in Calls /\ call[c] \in Requests /\ call[c].kind \in Kinds
         /\ call[c].row \in Nat /\ call[c] # Done
         /\ CallOK(call[c], Len(rows), bean.self)
<1>1. c \in Calls /\ call[c] # Done /\ call[c] \in Requests
  BY TypeByParts DEF Busy, Calls, Steps
<1> QED BY <1>1, TypeByParts DEF Requests, CallsOK

\* An error carries no data and the row it was about.
LEMMA ErrorsAreOK ==
  ASSUME TypeInvariant, NEW c \in Busy, NEW q,
         q = [kind |-> call[c].kind, row |-> call[c].row, data |-> NoData, at |-> "error"]
  PROVE  q \in Steps /\ CallOK(q, Len(rows), bean.self)
BY BusyCall DEF Steps, Requests, CallOK

\* The server keeps the types.
LEMMA TypeOfServe ==
  ASSUME TypeInvariant, NEW c \in Calls, Serve(c)
  PROVE  TypeInvariant'
<1>0. DataTyped
  BY TypeByParts
<1>1. /\ c \in Busy /\ call[c].at = "sent"
      /\ client' = client /\ history' = history /\ bounds' = bounds
  BY DEF Serve
<1>2. /\ call[c] \in Requests /\ call[c].kind \in Kinds /\ call[c] # Done
      /\ CallOK(call[c], Len(rows), bean.self)
  BY <1>1, BusyCall
<1>3. CASE ServeList(c)
  <2> DEFINE q == [kind |-> "list", row |-> 0, data |-> NoData, at |-> "ok"]
  <2>1. q \in Steps /\ CallOK(q, Len(rows), bean.self)
    BY DEF Steps, Requests, Kinds, CallOK
  <2>2. call' = [call EXCEPT ![c] = q] /\ UNCHANGED rows
    BY <1>3 DEF ServeList, Answered
  <2>3. rows' \in Seq(RowType) /\ Len(rows) <= Len(rows') /\ CallOK(q, Len(rows'), bean.self)
    BY <1>0, <2>1, <2>2 DEF DataTyped
  <2> HIDE DEF q
  <2> QED BY <1>1, <2>1, <2>2, <2>3, TypeServed
<1>4. CASE ServeAdd(c)
  <2> DEFINE n == Len(rows) + 1
             q == [kind |-> "add", row |-> n, data |-> NoData, at |-> "ok"]
  <2>1. Row(call[c].data) \in RowType
    BY <1>1, <1>2, <1>4 DEF ServeAdd, CallOK, Data, Row, RowType
  <2>2. rows' \in Seq(RowType) /\ Len(rows') = n /\ Len(rows) \in Nat
    BY <1>0, <1>4, <2>1 DEF ServeAdd, DataTyped
  <2>3. q \in Steps /\ CallOK(q, Len(rows'), bean.self)
    BY <2>2 DEF Steps, Requests, Kinds, CallOK
  <2>4. call' = [call EXCEPT ![c] = q]
    BY <1>4 DEF ServeAdd, Answered
  <2>5. Len(rows) <= Len(rows')
    BY <2>2
  <2> HIDE DEF q
  <2> QED BY <1>1, <2>2, <2>3, <2>4, <2>5, TypeServed
<1>5. CASE call[c].kind \notin {"list", "add"} /\ ServeRow(c, call[c].row)
  <2> DEFINE r == call[c].row
  <2>1. r \in 1 .. Len(rows) /\ rows[r] \in RowType /\ rows \in Seq(RowType)
    BY <1>0, <1>2, <1>5 DEF CallOK, Kinds, DataTyped
  <2>2. DataOf(r) \in Data
    BY <2>1 DEF DataOf, Data, RowType
  <2> HIDE DEF r
  <2>3. PICK q : /\ call' = [call EXCEPT ![c] = q] /\ q \in Steps
                 /\ CallOK(q, Len(rows), bean.self)
    <3>1. ASSUME NEW d \in Data \cup {NoData}, NEW at \in {"ok", "error"}, Answered(c, r, d, at),
                 call[c].kind = "self" /\ at = "ok" => d \in Data
          PROVE  \E q : /\ call' = [call EXCEPT ![c] = q] /\ q \in Steps
                        /\ CallOK(q, Len(rows), bean.self)
      <4> DEFINE q == [kind |-> call[c].kind, row |-> r, data |-> d, at |-> at]
      <4>1. call' = [call EXCEPT ![c] = q]
        BY <3>1 DEF Answered
      <4>2. q \in Steps /\ CallOK(q, Len(rows), bean.self)
        BY <1>2, <1>5, <2>1, <3>1 DEF Steps, Requests, CallOK
      <4> QED BY <4>1, <4>2
    <3> QED BY <1>5, <2>2, <3>1 DEF ServeRow, r
  <2>4. rows' \in Seq(RowType) /\ Len(rows') = Len(rows)
    <3>1. CASE UNCHANGED rows
      BY <2>1, <3>1
    <3>2. CASE call[c].kind = "update" /\ rows' = [rows EXCEPT ![r] = Row(call[c].data)]
      <4>1. Row(call[c].data) \in RowType
        BY <1>1, <1>2, <3>2 DEF CallOK, Data, Row, RowType
      <4> QED BY <2>1, <3>2, <4>1
    <3>3. CASE rows' = [rows EXCEPT ![r].gone = TRUE]
      <4>1. [rows[r] EXCEPT !.gone = TRUE] \in RowType
        BY <2>1 DEF RowType
      <4> QED BY <2>1, <3>3, <4>1
    <3> QED BY <1>5, <3>1, <3>2, <3>3 DEF ServeRow, r
  <2>5. Len(rows) <= Len(rows') /\ CallOK(q, Len(rows'), bean.self)
    BY <1>0, <2>3, <2>4 DEF DataTyped
  <2> QED BY <1>1, <2>3, <2>4, <2>5, TypeServed
<1> QED BY <1>3, <1>4, <1>5 DEF Serve

\* Failures and other clients keep the types.
LEMMA TypeOfFaults ==
  ASSUME TypeInvariant,
         \/ \E c \in Calls : Refuse(c) \/ Lose(c)
         \/ \E r \in 1 .. Len(rows), v \in Values : OtherClient(r, v)
  PROVE  TypeInvariant'
<1>0. DataTyped
  BY TypeByParts
<1>1. ASSUME NEW c \in Calls, Refuse(c) PROVE TypeInvariant'
  <2> DEFINE q == [kind |-> call[c].kind, row |-> call[c].row, data |-> NoData, at |-> "error"]
  <2>1. c \in Busy /\ call' = [call EXCEPT ![c] = q] /\ UNCHANGED <<rows, client>>
    BY <1>1 DEF Refuse, Answered
  <2>2. Numbers'
    BY <1>1 DEF Refuse, TypeInvariant, Numbers, history
  <2>3. q \in Steps /\ CallOK(q, Len(rows), bean.self)
    BY <2>1, ErrorsAreOK
  <2> HIDE DEF q
  <2> QED BY <2>1, <2>2, <2>3, TypeMoved
<1>2. ASSUME NEW c \in Calls, Lose(c) PROVE TypeInvariant'
  <2>1. call' = [call EXCEPT ![c] = Done] /\ UNCHANGED <<rows, client>>
    BY <1>2 DEF Lose
  <2>2. Numbers'
    BY <1>2 DEF Lose, TypeInvariant, Numbers, history
  <2>3. Done \in Steps /\ CallOK(Done, Len(rows), bean.self)
    BY DoneIsOK DEF Steps
  <2> QED BY <2>1, <2>2, <2>3, TypeMoved
<1>3. ASSUME NEW r \in 1 .. Len(rows), NEW v \in Values, OtherClient(r, v) PROVE TypeInvariant'
  <2>1. [rows[r] EXCEPT !.plain = v] \in RowType
    <3>1. rows[r] \in RowType
      BY <1>0 DEF DataTyped
    <3> QED BY <3>1 DEF RowType
  <2>2. rows' \in Seq(RowType) /\ Len(rows') = Len(rows)
    BY <1>0, <1>3, <2>1 DEF OtherClient, DataTyped
  <2>3. UNCHANGED call /\ UNCHANGED Len(rows) /\ bean' = bean
    BY <1>3, <2>2 DEF OtherClient, client
  <2>4. Numbers' /\ LinksComeWithSelf'
    BY <1>3 DEF OtherClient, TypeInvariant, Numbers, LinksComeWithSelf, client, history
  <2>5. DataTyped'
    BY <1>0, <1>3, <2>2, <2>3, <2>4 DEF OtherClient, DataTyped, client
  <2> QED BY <2>3, <2>5, TypeQuiet
<1> QED BY <1>1, <1>2, <1>3

\* The callbacks keep the types.
LEMMA TypeOfCallback ==
  ASSUME TypeInvariant, NEW c \in Calls, Callback(c)
  PROVE  TypeInvariant'
<1>0. DataTyped /\ call \in Seq(Steps) /\ CallsOK /\ Len(rows) \in Nat
  BY TypeByParts DEF DataTyped
<1>1. /\ c \in Busy /\ call[c] \in Requests /\ call[c].kind \in Kinds /\ call[c] # Done
      /\ CallOK(call[c], Len(rows), bean.self)
  BY BusyCall DEF Callback, PrimaryResource, Added, Updated, Reloaded, Ends, Arrives
<1>2. Done \in Steps /\ \A n, s : CallOK(Done, n, s)
  BY DoneIsOK DEF Steps
<1>3. CASE PrimaryResource(c)
  <2> DEFINE q == Request("add", 0, Payload)
  <2>1. /\ call' = [call EXCEPT ![c] = q] /\ UNCHANGED <<rows, client>>
    BY <1>3 DEF PrimaryResource
  <2>2. Numbers'
    BY <1>3 DEF PrimaryResource, TypeInvariant, Numbers, history, bounds
  <2>3. q \in Steps /\ CallOK(q, Len(rows), bean.self)
    BY <1>0, PayloadIsData DEF Request, Steps, Requests, Kinds, CallOK
  <2> HIDE DEF q
  <2> QED BY <2>1, <2>2, <2>3, TypeMoved
<1>4. CASE Added(c)
  <2> DEFINE q == Request("self", call[c].row, NoData)
  <2>1. /\ call' = [call EXCEPT ![c] = q] /\ bean' = [bean EXCEPT !.self = call[c].row]
        /\ UNCHANGED <<rows, nested, forms, waiting, history, bounds>>
    BY <1>4 DEF Added
  <2>2. call[c].row \in 1 .. Len(rows)
    BY <1>0, <1>1, <1>4 DEF Added, Arrives, CallOK
  <2>3. bean'.self = call[c].row /\ Len(rows)' = Len(rows)
    BY <1>0, <2>1 DEF DataTyped
  <2>4. q \in Steps /\ CallOK(q, Len(rows)', bean'.self)
    BY <1>0, <2>2, <2>3 DEF Request, Steps, Requests, Kinds, CallOK
  <2>5. Len(rows)' \in Nat /\ Len(rows) <= Len(rows)' /\ bean'.self # 0
    BY <1>0, <2>2, <2>3
  <2> HIDE DEF q
  <2>6. call' \in Seq(Steps) /\ Len(call') = Len(call) /\ CallsOK'
    BY <1>0, <2>1, <2>4, <2>5, CallsAfter
  <2>7. /\ bean' \in [plain : Values, nest : Nat, listed : BOOLEAN,
                      self : 0 .. Len(rows), loaded : 0 .. Len(rows)]
        /\ LinksComeWithSelf' /\ bean'.nest = bean.nest
    <3>1. bean \in [plain : Values, nest : Nat, listed : BOOLEAN,
                    self : 0 .. Len(rows), loaded : 0 .. Len(rows)]
      BY <1>0 DEF DataTyped
    <3>2. call[c].row \in 0 .. Len(rows)
      BY <1>0, <2>2
    <3>3. /\ bean' \in [plain : Values, nest : Nat, listed : BOOLEAN,
                        self : 0 .. Len(rows), loaded : 0 .. Len(rows)]
          /\ bean'.nest = bean.nest
      BY <2>1, <3>1, <3>2
    <3> QED BY <2>3, <2>5, <3>3 DEF LinksComeWithSelf
  <2>8. /\ rows' \in Seq(RowType) /\ nested' \in [forms' \cup {bean'.nest} -> Values]
        /\ forms' \subseteq 0 .. bean'.nest /\ waiting' \in 0 .. Len(call')
    BY <1>0, <2>1, <2>6, <2>7 DEF DataTyped
  <2>9. Numbers'
    BY <2>1 DEF TypeInvariant, Numbers, history, bounds
  <2>10. DataTyped'
    BY <2>1, <2>7, <2>8, <2>9 DEF DataTyped
  <2> QED BY <2>6, <2>10, TypeByPartsNext
<1>5. CASE Updated(c)
  <2> DEFINE q == Request("self", bean.self, NoData)
  <2>1. /\ call' = [call EXCEPT ![c] = q] /\ UNCHANGED <<rows, client>>
    BY <1>5 DEF Updated
  <2>2. Numbers'
    BY <1>5 DEF Updated, TypeInvariant, Numbers, history, bounds
  <2>3. q \in Steps /\ CallOK(q, Len(rows), bean.self)
    BY <1>0, <1>1, <1>5 DEF Updated, Arrives, Request, Steps, Requests, Kinds, CallOK, DataTyped
  <2> HIDE DEF q
  <2> QED BY <2>1, <2>2, <2>3, TypeMoved
<1>6. CASE Reloaded(c)
  <2> DEFINE q == call[c]
  <2>1. q.row \in 1 .. Len(rows) /\ q.data \in Data
    BY <1>0, <1>1, <1>6 DEF Reloaded, Arrives, CallOK
  <2>2. /\ bean' = [bean EXCEPT !.plain = q.data.plain, !.nest = @ + 1,
                                !.self = q.row, !.loaded = q.row]
        /\ nested' = [n \in forms \cup {bean.nest + 1} |->
                        IF n \in forms THEN nested[n] ELSE q.data.nested]
        /\ forms' = IF waiting > 0 THEN forms \cup {bean.nest + 1} ELSE forms
        /\ opened' = opened + waiting /\ waiting' = 0
        /\ call' = [call EXCEPT ![c] = Done]
        /\ UNCHANGED <<rows, clicked, creates, faults, writes>>
    BY <1>6 DEF Reloaded, Loaded, bounds
  <2>3. q.data.plain \in Values /\ q.data.nested \in Values
    BY <2>1 DEF Data
  <2> HIDE DEF q
  <2>4. /\ bean'.self = q.row /\ bean'.nest = bean.nest + 1
        /\ Len(rows)' = Len(rows) /\ Len(rows) <= Len(rows)' /\ bean'.self # 0
    BY <1>0, <2>1, <2>2 DEF DataTyped
  <2>5. call' \in Seq(Steps) /\ Len(call') = Len(call) /\ CallsOK'
    BY <1>0, <1>2, <2>2, <2>4, CallsAfter
  <2>6. /\ bean' \in [plain : Values, nest : Nat, listed : BOOLEAN,
                      self : 0 .. Len(rows), loaded : 0 .. Len(rows)]
        /\ LinksComeWithSelf'
    <3>1. bean \in [plain : Values, nest : Nat, listed : BOOLEAN,
                    self : 0 .. Len(rows), loaded : 0 .. Len(rows)]
      BY <1>0 DEF DataTyped
    <3>2. bean.nest + 1 \in Nat /\ q.row \in 0 .. Len(rows)
      BY <1>0, <2>1, <3>1
    <3>3. bean' \in [plain : Values, nest : Nat, listed : BOOLEAN,
                     self : 0 .. Len(rows), loaded : 0 .. Len(rows)]
      BY <2>2, <2>3, <3>1, <3>2
    <3> QED BY <2>4, <3>3 DEF LinksComeWithSelf
  <2>7. nested' \in [forms' \cup {bean'.nest} -> Values]
    BY <1>0, <2>2, <2>3, <2>4 DEF DataTyped
  <2>8. forms' \subseteq 0 .. bean'.nest /\ waiting' \in 0 .. Len(call')
    BY <1>0, <2>2, <2>4, <2>5 DEF DataTyped
  <2>9. Numbers'
    <3>1. Numbers /\ waiting \in Nat
      BY <1>0 DEF TypeInvariant, DataTyped
    <3>2. opened' \in Nat /\ UNCHANGED <<clicked, creates, faults, writes>>
      BY <2>2, <3>1 DEF Numbers
    <3> QED BY <3>1, <3>2 DEF Numbers
  <2> QED BY <1>0, <2>2, <2>5, <2>6, <2>7, <2>8, <2>9, TypeByPartsNext DEF DataTyped
<1>7. CASE Ends(c)
  <2>1. call' = [call EXCEPT ![c] = Done] /\ UNCHANGED <<rows, client>>
    BY <1>7 DEF Ends
  <2>2. Numbers'
    BY <1>7 DEF Ends, TypeInvariant, Numbers, history, bounds
  <2> QED BY <1>2, <2>1, <2>2, TypeMoved
<1> QED BY <1>3, <1>4, <1>5, <1>6, <1>7 DEF Callback

\* Each step keeps the types.
LEMMA TypeStep == TypeInvariant /\ [Next]_vars => TypeInvariant'
<1> SUFFICES ASSUME TypeInvariant, [Next]_vars PROVE TypeInvariant' OBVIOUS
<1>1. CASE UNCHANGED vars
  <2>1. DataTyped' /\ UNCHANGED call /\ UNCHANGED Len(rows) /\ bean' = bean
    BY <1>1, TypeByParts
    DEF vars, client, history, bounds, DataTyped, LinksComeWithSelf, Numbers
  <2> QED BY <2>1, TypeQuiet
<1>2. CASE Next
  BY <1>2, TypeOfClicks, TypeOfServe, TypeOfFaults, TypeOfCallback DEF Next
<1> QED BY <1>1, <1>2

\* Whatever is clicked, answered late, refused or lost, links point to rows that exist,
\* dialogs to embedded objects that were made, and each answer to the row it is about.
THEOREM TypeCorrect == Spec => []TypeOK
<1>1. TypeInvariant => TypeOK
  BY DEF TypeInvariant
<1> QED BY <1>1, TypeInit, TypeStep, PTL DEF Spec
-----------------------------------------------------------------------------
(* Dialogs *)

\* Only a click adds a listener, and only the answer that opens its dialog removes it.
LEMMA DialogsStep == TypeInvariant /\ DialogsMatchClicks /\ [Next]_vars => DialogsMatchClicks'
<1> SUFFICES ASSUME TypeInvariant, DialogsMatchClicks, [Next]_vars PROVE DialogsMatchClicks'
  OBVIOUS
<1>1. opened \in Nat /\ clicked \in Nat /\ waiting \in Nat
  BY TypeByParts DEF DataTyped, Numbers
<1>2. CASE OpenForm
  BY <1>1, <1>2 DEF OpenForm, DialogsMatchClicks
<1>3. ASSUME NEW c \in Calls, Reloaded(c) PROVE DialogsMatchClicks'
  BY <1>1, <1>3 DEF Reloaded, DialogsMatchClicks
<1>4. CASE UNCHANGED <<opened, clicked, waiting>>
  BY <1>4 DEF DialogsMatchClicks
<1>5. OpenForm \/ (\E c \in Calls : Reloaded(c)) \/ UNCHANGED <<opened, clicked, waiting>>
  BY DEF Next, vars, client, history, EditPlain, EditNested, CloseForm, Submit,
         RemoveTableEntry, Serve, Refuse, Lose, OtherClient, Callback, PrimaryResource,
         Added, Updated, Ends
<1> QED BY <1>2, <1>3, <1>4, <1>5

\* However "Edit" clicks, submits, late answers and failures interleave, each click
\* opens at most one dialog, and one that has not still waits for the entity.
THEOREM ClicksOpenOneDialog == Spec => []DialogsMatchClicks
<1>1. Init => DialogsMatchClicks
  BY DEF Init, DialogsMatchClicks
<1> QED BY <1>1, TypeInit, TypeStep, DialogsStep, PTL DEF Spec
-----------------------------------------------------------------------------
(* Rows *)

\* The numbers that are compared.
LEMMA RoomIsNatural ==
  ASSUME TypeInvariant
  PROVE  Len(rows) \in Nat /\ creates \in Nat /\ Room \in Nat
<1>1. Len(rows) \in Nat
  BY TypeByParts DEF DataTyped
<1>2. creates \in Nat /\ Room \in Nat
  BY DEF TypeInvariant, Numbers, Room
<1> QED BY <1>1, <1>2

\* Only as many creations are under way as there were clicks.
LEMMA CreatingIsFinite ==
  ASSUME TypeInvariant
  PROVE  IsFiniteSet(Creating) /\ Cardinality(Creating) \in Nat
<1>1. Calls = 1 .. Len(call) /\ Len(call) \in Nat
  BY TypeByParts DEF Calls
<1>2. IsFiniteSet(Calls)
  BY <1>1, FS_Interval
<1>3. Creating \in SUBSET Calls
  BY DEF Creating
<1>4. IsFiniteSet(Creating)
  BY <1>2, <1>3, FS_Subset
<1> QED BY <1>4, FS_CardinalityType

\* A step that moves a request makes no creation of another one.
LEMMA CreatingAfter ==
  ASSUME TypeInvariant, NEW c \in Calls, NEW q \in Steps, call' = [call EXCEPT ![c] = q],
         IsCreation(q) => IsCreation(call[c])
  PROVE  /\ Cardinality(Creating') <= Cardinality(Creating)
         /\ Cardinality(Creating') \in Nat
         /\ IsCreation(call[c]) /\ ~IsCreation(q) =>
              Cardinality(Creating') = Cardinality(Creating) - 1
<1>1. /\ Calls' = Calls /\ call'[c] = q
      /\ \A d \in Calls : d # c => call'[d] = call[d]
  BY TypeByParts, CallGoesOn
<1>2. IsFiniteSet(Creating)
  BY CreatingIsFinite
<1>3. Creating' \in SUBSET Creating
  BY <1>1 DEF Creating
<1>4. IsFiniteSet(Creating') /\ Cardinality(Creating') <= Cardinality(Creating)
  BY <1>2, <1>3, FS_Subset
<1>5. Cardinality(Creating') \in Nat
  BY <1>4, FS_CardinalityType
<1>6. ASSUME IsCreation(call[c]), ~IsCreation(q)
      PROVE  Cardinality(Creating') = Cardinality(Creating) - 1
  <2>1. Creating' = Creating \ {c} /\ c \in Creating
    BY <1>1, <1>6 DEF Creating
  <2> QED BY <1>2, <2>1, FS_RemoveElement
<1> QED BY <1>4, <1>5, <1>6

\* A new request is at most one more creation.
LEMMA CreatingAfterStart ==
  ASSUME TypeInvariant, NEW q \in Steps, call' = Append(call, q)
  PROVE  Cardinality(Creating') = Cardinality(Creating) + (IF IsCreation(q) THEN 1 ELSE 0)
<1> DEFINE n == Len(call) + 1
<1>1. /\ Calls' = Calls \cup {n} /\ n \notin Calls
      /\ call'[n] = q /\ \A d \in Calls : call'[d] = call[d]
  BY TypeByParts, CallStarts
<1>2. IsFiniteSet(Creating) /\ Cardinality(Creating) \in Nat /\ n \notin Creating
  BY <1>1, CreatingIsFinite DEF Creating
<1> HIDE DEF n
<1>3. CASE IsCreation(q)
  <2>1. Creating' = Creating \cup {n}
    BY <1>1, <1>3 DEF Creating
  <2> QED BY <1>2, <1>3, <2>1, FS_AddElement
<1>4. CASE ~IsCreation(q)
  <2>1. Creating' = Creating
    BY <1>1, <1>4 DEF Creating
  <2> QED BY <1>2, <1>4, <2>1
<1> QED BY <1>3, <1>4

\* Steps that start no request and create no row.
LEMMA CountedAfter ==
  ASSUME TypeInvariant, CreationsAreCounted, NEW c \in Calls, NEW q \in Steps,
         call' = [call EXCEPT ![c] = q], IsCreation(q) => IsCreation(call[c]),
         Len(rows') = Len(rows), creates' = creates, bean'.listed = bean.listed
  PROVE  CreationsAreCounted'
<1>1. /\ Cardinality(Creating') <= Cardinality(Creating) /\ Cardinality(Creating') \in Nat
      /\ Cardinality(Creating) \in Nat
  BY CreatingAfter, CreatingIsFinite
<1>2. Len(rows) \in Nat /\ creates \in Nat /\ Room \in Nat /\ Room' = Room
  BY RoomIsNatural DEF Room
<1> QED BY <1>1, <1>2 DEF CreationsAreCounted

\* No step adds a row that is not counted.
LEMMA CountedStep == TypeInvariant /\ CreationsAreCounted /\ [Next]_vars => CreationsAreCounted'
<1> SUFFICES ASSUME TypeInvariant, CreationsAreCounted, [Next]_vars PROVE CreationsAreCounted'
  OBVIOUS
<1>0. /\ Len(rows) \in Nat /\ creates \in Nat /\ Room \in Nat /\ rows \in Seq(RowType)
      /\ Cardinality(Creating) \in Nat /\ bean.loaded \in Nat
      /\ bean \in [plain : Values, nest : Nat, listed : BOOLEAN,
                   self : 0 .. Len(rows), loaded : 0 .. Len(rows)]
  BY TypeByParts, RoomIsNatural, CreatingIsFinite DEF DataTyped
<1>1. ASSUME UNCHANGED call, Len(rows') = Len(rows), creates' = creates,
             bean'.listed = bean.listed
      PROVE  CreationsAreCounted'
  BY <1>1 DEF CreationsAreCounted, Creating, Calls, Room
<1>2. CASE UNCHANGED vars
  BY <1>1, <1>2 DEF vars, client, history
<1>3. ASSUME NEW v \in Values, EditPlain(v) PROVE CreationsAreCounted'
  BY <1>0, <1>1, <1>3 DEF EditPlain
<1>4. ASSUME NEW v \in Values, NEW f \in forms, EditNested(f, v) PROVE CreationsAreCounted'
  BY <1>1, <1>4 DEF EditNested
<1>5. ASSUME NEW f \in forms, CloseForm(f) PROVE CreationsAreCounted'
  BY <1>1, <1>5 DEF CloseForm, history
<1>6. ASSUME NEW r \in 1 .. Len(rows), NEW v \in Values, OtherClient(r, v)
      PROVE  CreationsAreCounted'
  <2>1. Len(rows') = Len(rows)
    BY <1>0, <1>6 DEF OtherClient
  <2> QED BY <1>1, <1>6, <2>1 DEF OtherClient, client, history
<1>7. ASSUME NEW q \in Steps, call' = Append(call, q), UNCHANGED <<rows, bean>>,
             creates' = creates + (IF IsCreation(q) THEN 1 ELSE 0)
      PROVE  CreationsAreCounted'
  <2>1. Cardinality(Creating') = Cardinality(Creating) + (IF IsCreation(q) THEN 1 ELSE 0)
    BY <1>7, CreatingAfterStart
  <2>2. Room' = Room + (IF IsCreation(q) THEN 1 ELSE 0)
    BY <1>0, <1>7 DEF Room
  <2> QED BY <1>0, <1>7, <2>1, <2>2 DEF CreationsAreCounted
<1>8. CASE Submit
  <2>1. Payload \in Data
    BY PayloadIsData
  <2>2. /\ Persist \in Steps /\ call' = Append(call, Persist) /\ UNCHANGED <<rows, bean>>
        /\ IsCreation(Persist) <=> ~HasLink
        /\ creates' = creates + (IF IsCreation(Persist) THEN 1 ELSE 0)
    BY <1>0, <1>8, <2>1
    DEF Submit, Start, Persist, HasLink, Request, Steps, Requests, Kinds, Done, IsCreation, client
  <2> QED BY <2>2, <1>7
<1>9. CASE OpenForm
  <2> DEFINE q == Request("self", bean.self, NoData)
  <2>1. /\ q \in Steps /\ call' = Append(call, q) /\ UNCHANGED <<rows, bean>>
        /\ ~IsCreation(q) /\ creates' = creates + 0
    BY <1>0, <1>9 DEF OpenForm, Start, Request, Steps, Requests, Kinds, Done, IsCreation
  <2> QED BY <2>1, <1>7
<1>10. CASE RemoveTableEntry
  <2> DEFINE q == Request("remove", bean.loaded, NoData)
  <2>1. /\ q \in Steps /\ call' = Append(call, q) /\ UNCHANGED <<rows, bean>>
        /\ ~IsCreation(q) /\ creates' = creates + 0
    BY <1>0, <1>10
    DEF RemoveTableEntry, Start, Request, Steps, Requests, Kinds, Done, IsCreation, client
  <2> QED BY <2>1, <1>7
<1>11. ASSUME NEW c \in Calls, Serve(c) PROVE CreationsAreCounted'
  <2>1. /\ c \in Busy /\ call[c] \in Requests /\ call[c].at = "sent" /\ call[c] # Done
        /\ UNCHANGED <<bean, creates>>
    BY <1>11, BusyCall DEF Serve, client, history
  <2>2. CASE ServeAdd(c)
    <3> DEFINE q == [kind |-> "add", row |-> Len(rows) + 1, data |-> NoData, at |-> "ok"]
    <3>1. q \in Steps /\ ~IsCreation(q) /\ IsCreation(call[c])
      BY <1>0, <2>1, <2>2 DEF ServeAdd, Steps, Requests, Kinds, IsCreation
    <3>2. call' = [call EXCEPT ![c] = q] /\ Len(rows') = Len(rows) + 1
      BY <1>0, <2>2 DEF ServeAdd, Answered
    <3> HIDE DEF q
    <3>3. Cardinality(Creating') = Cardinality(Creating) - 1
      BY <3>1, <3>2, CreatingAfter
    <3>4. Room' = Room
      BY <2>1 DEF Room
    <3> QED BY <1>0, <3>2, <3>3, <3>4 DEF CreationsAreCounted
  <2>3. CASE ~ServeAdd(c)
    <3>1. \E row, data, at : Answered(c, row, data, at)
      BY <1>11, <2>3 DEF Serve, ServeList, ServeRow
    <3>2. PICK q : call' = [call EXCEPT ![c] = q] /\ q.kind = call[c].kind
      BY <3>1 DEF Answered
    <3>3. TypeInvariant'
      BY <1>11, TypeOfServe
    <3>4. call' \in Seq(Steps) /\ call'[c] = q
      BY <3>2, <3>3, TypeByParts, TypeByPartsNext DEF Calls
    <3>5. q \in Steps
      BY <3>4, <3>2, TypeByParts DEF Calls
    <3>6. call[c].kind # "add"
      BY <1>11, <2>3, <2>1 DEF Serve, ServeList
    <3>7. IsCreation(q) => IsCreation(call[c])
      BY <2>1, <3>2, <3>6 DEF IsCreation
    <3>8. Len(rows') = Len(rows)
      BY <1>0, <1>11, <2>3 DEF Serve, ServeList, ServeRow
    <3> QED BY <2>1, <3>2, <3>5, <3>7, <3>8, CountedAfter
  <2> QED BY <2>2, <2>3
<1>12. ASSUME NEW c \in Calls, call' = [call EXCEPT ![c] = Done],
              UNCHANGED <<rows, creates>>, bean'.listed = bean.listed
       PROVE  CreationsAreCounted'
  <2>1. Done \in Steps /\ ~IsCreation(Done)
    BY DEF Steps, IsCreation
  <2> QED BY <1>12, <2>1, CountedAfter
<1>13. ASSUME NEW c \in Calls, Refuse(c) PROVE CreationsAreCounted'
  <2> DEFINE q == [kind |-> call[c].kind, row |-> call[c].row, data |-> NoData, at |-> "error"]
  <2>1. /\ c \in Busy /\ call' = [call EXCEPT ![c] = q] /\ UNCHANGED <<rows, bean, creates>>
    BY <1>13 DEF Refuse, Answered, client, history
  <2>2. q \in Steps /\ call[c] # Done
    BY <2>1, ErrorsAreOK, BusyCall
  <2>3. IsCreation(q) => IsCreation(call[c])
    BY <2>2 DEF IsCreation
  <2> HIDE DEF q
  <2> QED BY <2>1, <2>2, <2>3, CountedAfter
<1>14. ASSUME NEW c \in Calls, Lose(c) PROVE CreationsAreCounted'
  BY <1>12, <1>14 DEF Lose, client, history
<1>15. ASSUME NEW c \in Calls, PrimaryResource(c) PROVE CreationsAreCounted'
  <2> DEFINE q == Request("add", 0, Payload)
  <2>1. call' = [call EXCEPT ![c] = q] /\ UNCHANGED <<rows, bean, creates>>
    BY <1>15 DEF PrimaryResource, client, history
  <2>2. q \in Steps
    BY PayloadIsData DEF Request, Steps, Requests, Kinds
  <2>3. IsCreation(call[c])
    BY <1>15 DEF PrimaryResource, Arrives, Busy, IsCreation
  <2> HIDE DEF q
  <2> QED BY <2>1, <2>2, <2>3, CountedAfter
<1>16. ASSUME NEW c \in Calls, NEW r \in Nat, call' = [call EXCEPT ![c] = Request("self", r, NoData)],
              UNCHANGED <<rows, creates>>, bean'.listed = bean.listed
       PROVE  CreationsAreCounted'
  <2>1. Request("self", r, NoData) \in Steps /\ ~IsCreation(Request("self", r, NoData))
    BY DEF Request, Steps, Requests, Kinds, Done, IsCreation
  <2> QED BY <1>16, <2>1, CountedAfter
<1>17. ASSUME NEW c \in Calls, Added(c) PROVE CreationsAreCounted'
  <2>1. call[c].row \in Nat
    BY <1>17, BusyCall DEF Added, Arrives
  <2> QED BY <1>0, <1>16, <1>17, <2>1 DEF Added, history
<1>18. ASSUME NEW c \in Calls, Updated(c) PROVE CreationsAreCounted'
  <2>1. bean.self \in Nat
    BY <1>0
  <2> QED BY <1>16, <1>18, <2>1 DEF Updated, client, history
<1>19. ASSUME NEW c \in Calls, Reloaded(c) PROVE CreationsAreCounted'
  BY <1>0, <1>12, <1>19 DEF Reloaded, Loaded
<1>20. ASSUME NEW c \in Calls, Ends(c) PROVE CreationsAreCounted'
  BY <1>12, <1>20 DEF Ends, client, history
<1>21. CASE Next
  BY <1>21, <1>3, <1>4, <1>5, <1>6, <1>8, <1>9, <1>10, <1>11, <1>13, <1>14, <1>15, <1>17,
     <1>18, <1>19, <1>20
  DEF Next, Callback
<1> QED BY <1>2, <1>21

\* Whichever answers are late, refused or lost, only a submit of an entity without
\* further links adds a row, and each at most one.
THEOREM CreatesAddOneRow == Spec => []OneRowPerCreate
<1>1. Init => CreationsAreCounted
  <2> SUFFICES ASSUME Init PROVE CreationsAreCounted OBVIOUS
  <2>1. Creating = {} /\ Cardinality(Creating) = 0
    BY FS_EmptySet DEF Init, Creating, Calls
  <2>2. Len(rows) = IF bean.listed THEN 1 ELSE 0
    BY DEF Init
  <2> QED BY <2>1, <2>2 DEF Init, CreationsAreCounted, Room
<1>2. TypeInvariant /\ CreationsAreCounted => OneRowPerCreate
  <2> SUFFICES ASSUME TypeInvariant, CreationsAreCounted PROVE OneRowPerCreate OBVIOUS
  <2>1. Len(rows) \in Nat /\ Cardinality(Creating) \in Nat /\ Room \in Nat
    BY RoomIsNatural, CreatingIsFinite
  <2> QED BY <2>1 DEF CreationsAreCounted, OneRowPerCreate, Room
<1> QED BY <1>1, <1>2, TypeInit, TypeStep, CountedStep, PTL DEF Spec
-----------------------------------------------------------------------------
(* Links *)

SameLinks == bean'.listed = bean.listed /\ bean'.self = bean.self /\ bean'.loaded = bean.loaded

\* Steps that move no request and remove no row.
LEMMA LinksQuiet ==
  ASSUME LinkInvariant, UNCHANGED call, SameLinks, NewIsNotRemoved', faults' = faults
  PROVE  LinkInvariant'
BY DEF LinkInvariant, ListedKeepsItsRow, CallsAreLinked, ReloadIsUnderWay, Calls, SameLinks

\* A step that moves a request.
LEMMA LinkedAfter ==
  ASSUME TypeInvariant, LinkInvariant, bean'.listed = bean.listed,
         NEW c \in Calls, NEW q \in Steps, call' = [call EXCEPT ![c] = q],
         LinkedCall(q, bean.listed)
  PROVE  CallsAreLinked'
BY TypeByParts, CallGoesOn DEF LinkInvariant, CallsAreLinked

\* A step that does not stop a reload.
LEMMA ReloadGoesOn ==
  ASSUME TypeInvariant, LinkInvariant, SameLinks, faults' = faults,
         NEW c \in Calls, NEW q \in Steps, call' = [call EXCEPT ![c] = q],
         Reloading(call[c]) => Reloading(q)
  PROVE  ReloadIsUnderWay'
<1>1. /\ Calls' = Calls /\ call'[c] = q
      /\ \A d \in Calls : d # c => call'[d] = call[d]
  BY TypeByParts, CallGoesOn
<1> SUFFICES ASSUME bean.self # bean.loaded, faults = 0
             PROVE  \E d \in Calls : Reloading(call'[d])
  BY <1>1 DEF ReloadIsUnderWay, SameLinks
<1>2. PICK d \in Calls : Reloading(call[d])
  BY DEF LinkInvariant, ReloadIsUnderWay
<1> QED BY <1>1, <1>2

\* Such a step that also removes no row.
LEMMA LinksAfter ==
  ASSUME TypeInvariant, LinkInvariant, SameLinks, faults' = faults, NewIsNotRemoved',
         NEW c \in Calls, NEW q \in Steps, call' = [call EXCEPT ![c] = q],
         LinkedCall(q, bean.listed), Reloading(call[c]) => Reloading(q)
  PROVE  LinkInvariant'
<1>1. CallsAreLinked'
  BY LinkedAfter DEF SameLinks
<1>2. ReloadIsUnderWay'
  BY ReloadGoesOn
<1> QED BY <1>1, <1>2 DEF LinkInvariant, ListedKeepsItsRow, SameLinks

\* A click that starts a request.
LEMMA LinksAfterStart ==
  ASSUME TypeInvariant, LinkInvariant, UNCHANGED <<rows, bean>>, faults' = faults,
         NEW q \in Steps, call' = Append(call, q), LinkedCall(q, bean.listed)
  PROVE  LinkInvariant'
<1>1. /\ Calls' = Calls \cup {Len(call) + 1} /\ Len(call) + 1 \notin Calls
      /\ call'[Len(call) + 1] = q /\ \A d \in Calls : call'[d] = call[d]
  BY TypeByParts, CallStarts
<1>2. CallsAreLinked'
  BY <1>1 DEF LinkInvariant, CallsAreLinked
<1>3. ReloadIsUnderWay'
  BY <1>1 DEF LinkInvariant, ReloadIsUnderWay
<1> QED BY <1>2, <1>3 DEF LinkInvariant, ListedKeepsItsRow, NewIsNotRemoved

\* The server: rows of a new entity are there when they are reloaded.
LEMMA LinksServed ==
  ASSUME TypeInvariant, LinkInvariant, NEW c \in Calls, Serve(c)
  PROVE  LinkInvariant'
<1>0. /\ c \in Busy /\ call[c] \in Requests /\ call[c].at = "sent" /\ call[c] # Done
      /\ SameLinks /\ faults' = faults /\ call[c].kind \in Kinds
      /\ CallOK(call[c], Len(rows), bean.self)
  BY BusyCall DEF Serve, client, bounds, SameLinks
<1>1. LinkedCall(call[c], bean.listed) /\ rows \in Seq(RowType)
  BY TypeByParts DEF LinkInvariant, CallsAreLinked, DataTyped
<1>2. PICK row, data, at : Answered(c, row, data, at)
  BY DEF Serve, ServeList, ServeAdd, ServeRow
<1> DEFINE q == [kind |-> call[c].kind, row |-> row, data |-> data, at |-> at]
<1>3. call' = [call EXCEPT ![c] = q]
  BY <1>2 DEF Answered
<1>4. call'[c] = q /\ q \in Steps
  <2>1. call \in Seq(Steps) /\ call' \in Seq(Steps) /\ call'[c] = q
    BY <1>3, TypeByParts, TypeByPartsNext, TypeOfServe DEF Calls
  <2> QED BY <1>3, <2>1 DEF Calls
<1>5. q.row = call[c].row \/ call[c].kind \in {"add", "list"}
  BY <1>0, <1>3, <1>4 DEF Serve, ServeList, ServeAdd, ServeRow, Answered, Calls
<1>6. LinkedCall(q, bean.listed)
  BY <1>0, <1>1, <1>5 DEF LinkedCall
<1>7. CASE bean.listed
  <2>1. NewIsNotRemoved' /\ ListedKeepsItsRow' /\ ReloadIsUnderWay'
    BY <1>0, <1>7
    DEF LinkInvariant, NewIsNotRemoved, ListedKeepsItsRow, ReloadIsUnderWay, SameLinks
  <2>2. CallsAreLinked'
    BY <1>0, <1>3, <1>4, <1>6, LinkedAfter DEF SameLinks
  <2> QED BY <2>1, <2>2 DEF LinkInvariant
<1>8. CASE ~bean.listed
  <2>1. \A r \in DOMAIN rows : ~rows[r].gone
    BY <1>8 DEF LinkInvariant, NewIsNotRemoved
  <2>2. call[c].kind \in {"update", "self"} => call[c].row \in DOMAIN rows
    BY <1>0, <1>1 DEF CallOK
  <2>3. call[c].kind # "remove"
    BY <1>0, <1>1, <1>8 DEF LinkedCall
  <2>4. Reloading(call[c]) => Reloading(q)
    <3> SUFFICES ASSUME call[c].kind = "self" PROVE at = "ok"
      BY <1>0, <1>4 DEF Reloading, Done
    <3>1. Answered(c, call[c].row, DataOf(call[c].row), "ok")
      BY <2>1, <2>2 DEF Serve, ServeList, ServeAdd, ServeRow
    <3>2. call'[c].at = "ok"
      BY <3>1, TypeByParts DEF Answered, Calls
    <3> QED BY <1>4, <3>2
  <2>5. NewIsNotRemoved'
    <3>1. CASE ServeAdd(c)
      BY <1>1, <2>1, <3>1 DEF ServeAdd, Row, NewIsNotRemoved
    <3>2. CASE UNCHANGED rows
      BY <2>1, <3>2 DEF NewIsNotRemoved
    <3>3. CASE rows' = [rows EXCEPT ![call[c].row] = Row(call[c].data)]
      BY <1>1, <2>1, <3>3 DEF Row, NewIsNotRemoved
    <3> QED BY <2>3, <3>1, <3>2, <3>3 DEF Serve, ServeList, ServeRow
  <2> HIDE DEF q
  <2> QED BY <1>0, <1>3, <1>4, <1>6, <2>4, <2>5, LinksAfter
<1> QED BY <1>7, <1>8

\* The user's steps.
LEMMA LinksOfClicks ==
  ASSUME TypeInvariant, LinkInvariant,
         \/ \E v \in Values : EditPlain(v) \/ \E f \in forms : EditNested(f, v)
         \/ \E f \in forms : CloseForm(f)
         \/ Submit \/ OpenForm \/ RemoveTableEntry
  PROVE  LinkInvariant'
<1>0. /\ bean \in [plain : Values, nest : Nat, listed : BOOLEAN,
                   self : 0 .. Len(rows), loaded : 0 .. Len(rows)]
      /\ bean.self \in Nat /\ bean.loaded \in Nat /\ bean.listed \in BOOLEAN
      /\ ListedKeepsItsRow /\ NewIsNotRemoved
  BY TypeByParts DEF DataTyped, LinkInvariant
<1>1. ASSUME UNCHANGED <<rows, call, faults>>, SameLinks PROVE LinkInvariant'
  BY <1>0, <1>1, LinksQuiet DEF NewIsNotRemoved, SameLinks
<1>2. ASSUME NEW v \in Values, EditPlain(v) PROVE LinkInvariant'
  BY <1>0, <1>1, <1>2 DEF EditPlain, SameLinks, bounds
<1>3. ASSUME NEW v \in Values, NEW f \in forms, EditNested(f, v) PROVE LinkInvariant'
  BY <1>1, <1>3 DEF EditNested, SameLinks, bounds
<1>4. ASSUME NEW f \in forms, CloseForm(f) PROVE LinkInvariant'
  BY <1>1, <1>4 DEF CloseForm, SameLinks, bounds
<1>5. CASE Submit
  <2>1. Payload \in Data
    BY PayloadIsData
  <2>2. /\ Persist \in Steps /\ call' = Append(call, Persist) /\ UNCHANGED <<rows, bean, faults>>
        /\ LinkedCall(Persist, bean.listed)
    BY <1>0, <1>5, <2>1
    DEF Submit, Start, Persist, HasLink, Request, Steps, Requests, Kinds, LinkedCall, client,
        bounds, ListedKeepsItsRow
  <2> QED BY <2>2, LinksAfterStart
<1>6. CASE OpenForm
  <2> DEFINE q == Request("self", bean.self, NoData)
  <2>1. /\ q \in Steps /\ call' = Append(call, q) /\ UNCHANGED <<rows, bean, faults>>
        /\ LinkedCall(q, bean.listed)
    BY <1>0, <1>6
    DEF OpenForm, Start, Request, Steps, Requests, Kinds, LinkedCall, ListedKeepsItsRow, bounds
  <2> HIDE DEF q
  <2> QED BY <2>1, LinksAfterStart
<1>7. CASE RemoveTableEntry
  <2> DEFINE q == Request("remove", bean.loaded, NoData)
  <2>1. /\ q \in Steps /\ call' = Append(call, q) /\ UNCHANGED <<rows, bean, faults>>
        /\ LinkedCall(q, bean.listed)
    BY <1>0, <1>7
    DEF RemoveTableEntry, Start, Request, Steps, Requests, Kinds, LinkedCall, client,
        ListedKeepsItsRow, bounds
  <2> HIDE DEF q
  <2> QED BY <2>1, LinksAfterStart
<1> QED BY <1>2, <1>3, <1>4, <1>5, <1>6, <1>7

\* Failures and other clients: a reload that stops is a failure.
LEMMA LinksOfFaults ==
  ASSUME TypeInvariant, LinkInvariant,
         \/ \E c \in Calls : Refuse(c) \/ Lose(c)
         \/ \E r \in 1 .. Len(rows), v \in Values : OtherClient(r, v)
  PROVE  LinkInvariant'
<1>0. /\ ListedKeepsItsRow /\ NewIsNotRemoved /\ CallsAreLinked /\ faults \in Nat
      /\ rows \in Seq(RowType)
  BY TypeByParts DEF LinkInvariant, DataTyped, Numbers
<1>1. ASSUME NEW c \in Calls, NEW q \in Steps, call' = [call EXCEPT ![c] = q],
             LinkedCall(q, bean.listed), UNCHANGED <<rows, bean>>, faults' = faults + 1
      PROVE  LinkInvariant'
  <2>1. CallsAreLinked'
    BY <1>1, LinkedAfter
  <2>2. ListedKeepsItsRow' /\ NewIsNotRemoved'
    BY <1>0, <1>1 DEF ListedKeepsItsRow, NewIsNotRemoved
  <2>3. ReloadIsUnderWay'
    BY <1>0, <1>1 DEF ReloadIsUnderWay
  <2> QED BY <2>1, <2>2, <2>3 DEF LinkInvariant
<1>2. ASSUME NEW c \in Calls, Refuse(c) PROVE LinkInvariant'
  <2> DEFINE q == [kind |-> call[c].kind, row |-> call[c].row, data |-> NoData, at |-> "error"]
  <2>1. /\ c \in Busy /\ call' = [call EXCEPT ![c] = q] /\ UNCHANGED <<rows, bean>>
        /\ faults' = faults + 1
    BY <1>2 DEF Refuse, Answered, client
  <2>2. q \in Steps /\ call[c] # Done
    BY <2>1, ErrorsAreOK, BusyCall
  <2>3. LinkedCall(q, bean.listed)
    BY <1>0, <2>2 DEF CallsAreLinked, LinkedCall
  <2> HIDE DEF q
  <2> QED BY <1>1, <2>1, <2>2, <2>3
<1>3. ASSUME NEW c \in Calls, Lose(c) PROVE LinkInvariant'
  <2>1. Done \in Steps /\ LinkedCall(Done, bean.listed)
    BY DEF Steps, LinkedCall
  <2> QED BY <1>1, <1>3, <2>1 DEF Lose, client
<1>4. ASSUME NEW r \in 1 .. Len(rows), NEW v \in Values, OtherClient(r, v) PROVE LinkInvariant'
  <2>1. rows[r] \in RowType /\ r \in DOMAIN rows
    BY <1>0
  <2>2. [rows[r] EXCEPT !.plain = v].gone = rows[r].gone
    BY <2>1 DEF RowType
  <2>3. rows' = [rows EXCEPT ![r] = [rows[r] EXCEPT !.plain = v]]
    BY <1>4 DEF OtherClient
  <2>4. NewIsNotRemoved'
    BY <1>0, <1>4, <2>1, <2>2, <2>3 DEF NewIsNotRemoved, OtherClient, client
  <2> QED BY <1>4, <2>4, LinksQuiet DEF OtherClient, client, SameLinks
<1> QED BY <1>2, <1>3, <1>4

\* The callbacks: a creation that is answered asks for the links of its row.
LEMMA LinksOfCallback ==
  ASSUME TypeInvariant, LinkInvariant, NEW c \in Calls, Callback(c)
  PROVE  LinkInvariant'
<1>0. /\ bean \in [plain : Values, nest : Nat, listed : BOOLEAN,
                   self : 0 .. Len(rows), loaded : 0 .. Len(rows)]
      /\ bean.self \in Nat /\ bean.listed \in BOOLEAN /\ rows \in Seq(RowType)
      /\ ListedKeepsItsRow /\ NewIsNotRemoved
  BY TypeByParts DEF DataTyped, LinkInvariant
<1>1. /\ c \in Busy /\ call[c] \in Requests /\ call[c] # Done /\ call[c].row \in Nat
      /\ CallOK(call[c], Len(rows), bean.self)
  BY BusyCall DEF Callback, PrimaryResource, Added, Updated, Reloaded, Ends, Arrives
<1>2. LinkedCall(call[c], bean.listed)
  BY DEF LinkInvariant, CallsAreLinked
<1>3. Done \in Steps /\ LinkedCall(Done, bean.listed)
  BY DEF Steps, LinkedCall
<1>4. UNCHANGED <<rows, bean>> => SameLinks /\ NewIsNotRemoved'
  BY <1>0 DEF SameLinks, NewIsNotRemoved
<1>5. CASE PrimaryResource(c)
  <2> DEFINE q == Request("add", 0, Payload)
  <2>1. /\ call' = [call EXCEPT ![c] = q] /\ UNCHANGED <<rows, bean, faults>>
        /\ call[c].kind = "list"
    BY <1>5 DEF PrimaryResource, client, bounds, Arrives
  <2>2. q \in Steps /\ LinkedCall(q, bean.listed)
    BY <1>1, <1>2, <2>1, PayloadIsData DEF Request, Steps, Requests, Kinds, LinkedCall
  <2>3. ~Reloading(call[c])
    BY <2>1 DEF Reloading
  <2> HIDE DEF q
  <2> QED BY <1>4, <2>1, <2>2, <2>3, LinksAfter
<1>6. CASE Added(c)
  <2> DEFINE q == Request("self", call[c].row, NoData)
  <2>1. /\ call' = [call EXCEPT ![c] = q] /\ bean' = [bean EXCEPT !.self = call[c].row]
        /\ UNCHANGED <<rows, faults>> /\ call[c].kind = "add"
    BY <1>6 DEF Added, Arrives, bounds
  <2>2. ~bean.listed /\ bean'.listed = bean.listed
    BY <1>0, <1>1, <1>2, <2>1 DEF LinkedCall
  <2>3. q \in Steps /\ LinkedCall(q, bean.listed) /\ Reloading(q)
    BY <1>1, <2>2 DEF Request, Steps, Requests, Kinds, LinkedCall, Reloading, Done
  <2> HIDE DEF q
  <2>4. CallsAreLinked'
    BY <2>1, <2>2, <2>3, LinkedAfter
  <2>5. Calls' = Calls /\ call'[c] = q
    BY <2>1, <2>3, TypeByParts, CallGoesOn
  <2>6. ReloadIsUnderWay'
    BY <2>3, <2>5 DEF ReloadIsUnderWay
  <2>7. ListedKeepsItsRow' /\ NewIsNotRemoved'
    BY <1>0, <2>1, <2>2 DEF ListedKeepsItsRow, NewIsNotRemoved
  <2> QED BY <2>4, <2>6, <2>7 DEF LinkInvariant
<1>7. CASE Updated(c)
  <2> DEFINE q == Request("self", bean.self, NoData)
  <2>1. /\ call' = [call EXCEPT ![c] = q] /\ UNCHANGED <<rows, bean, faults>>
        /\ call[c].kind = "update"
    BY <1>7 DEF Updated, client, bounds, Arrives
  <2>2. q \in Steps /\ LinkedCall(q, bean.listed)
    BY <1>0 DEF Request, Steps, Requests, Kinds, LinkedCall, ListedKeepsItsRow
  <2>3. ~Reloading(call[c])
    BY <2>1 DEF Reloading
  <2> HIDE DEF q
  <2> QED BY <1>4, <2>1, <2>2, <2>3, LinksAfter
<1>8. CASE Reloaded(c)
  <2>1. /\ call' = [call EXCEPT ![c] = Done] /\ UNCHANGED <<rows, faults>>
        /\ call[c].kind = "self"
        /\ bean' = [bean EXCEPT !.plain = call[c].data.plain, !.nest = @ + 1,
                                !.self = call[c].row, !.loaded = call[c].row]
    BY <1>8 DEF Reloaded, Loaded, Arrives, bounds
  <2>2. /\ bean'.listed = bean.listed /\ bean'.self = call[c].row
        /\ bean'.loaded = call[c].row
    BY <1>0, <2>1
  <2>3. ListedKeepsItsRow'
    BY <1>1, <1>2, <2>2 DEF ListedKeepsItsRow, LinkedCall
  <2>4. NewIsNotRemoved' /\ ReloadIsUnderWay'
    BY <1>0, <2>1, <2>2 DEF NewIsNotRemoved, ReloadIsUnderWay
  <2>5. CallsAreLinked'
    BY <1>3, <2>1, <2>2, LinkedAfter
  <2> QED BY <2>3, <2>4, <2>5 DEF LinkInvariant
<1>9. CASE Ends(c)
  <2>1. call' = [call EXCEPT ![c] = Done] /\ UNCHANGED <<rows, bean, faults>>
    BY <1>9 DEF Ends, client, bounds
  <2>2. ~Reloading(call[c])
    BY <1>9 DEF Ends, Arrives, Reloading
  <2> QED BY <1>3, <1>4, <2>1, <2>2, LinksAfter
<1> QED BY <1>5, <1>6, <1>7, <1>8, <1>9 DEF Callback

\* Each step keeps what the links say.
LEMMA LinksStep == TypeInvariant /\ LinkInvariant /\ [Next]_vars => LinkInvariant'
<1> SUFFICES ASSUME TypeInvariant, LinkInvariant, [Next]_vars PROVE LinkInvariant' OBVIOUS
<1>1. CASE UNCHANGED vars
  <2>1. UNCHANGED call /\ SameLinks /\ NewIsNotRemoved' /\ faults' = faults
    BY <1>1 DEF vars, client, bounds, SameLinks, LinkInvariant, NewIsNotRemoved
  <2> QED BY <2>1, LinksQuiet
<1>2. CASE Next
  BY <1>2, LinksOfClicks, LinksServed, LinksOfFaults, LinksOfCallback DEF Next
<1> QED BY <1>1, <1>2

\* In the beginning there is no request, and links come together or not at all.
LEMMA LinksInit == Init => LinkInvariant
<1> SUFFICES ASSUME Init PROVE LinkInvariant OBVIOUS
<1>1. Calls = {}
  BY DEF Init, Calls
<1> QED BY <1>1
    DEF Init, LinkInvariant, ListedKeepsItsRow, NewIsNotRemoved, CallsAreLinked, ReloadIsUnderWay

\* However the answers of several creations overtake each other: once all requests have
\* ended, and none failed, the entity's links are those of one row.
THEOREM LinksAgree == Spec => []LinksAgreeWhenQuiet
<1>1. Init => LinkInvariant
  BY LinksInit
<1>2. LinkInvariant => LinksAgreeWhenQuiet
  BY DEF LinkInvariant, ReloadIsUnderWay, LinksAgreeWhenQuiet, Busy, Reloading
<1> QED BY <1>1, <1>2, TypeInit, TypeStep, LinksStep, PTL DEF Spec
-----------------------------------------------------------------------------
(* What was submitted *)

\* The only request under way goes on, or ends.
LEMMA OnlyCallGoesOn ==
  ASSUME TypeInvariant, PatientInvariant, Undisturbed, NEW c \in Busy, NEW q \in Steps,
         call' = [call EXCEPT ![c] = q]
  PROVE  call'[c] = q /\ Busy' = IF q = Done THEN {} ELSE {c}
<1>1. /\ Calls' = Calls /\ call'[c] = q /\ c \in Calls
      /\ \A d \in Calls : d # c => call'[d] = call[d]
  BY TypeByParts, CallGoesOn DEF Busy
<1>2. Busy = {c}
  BY DEF PatientInvariant
<1> QED BY <1>1, <1>2 DEF Busy

\* A click when nothing is under way.
LEMMA OnlyCallStarts ==
  ASSUME TypeInvariant, Busy = {}, NEW q \in Steps, q # Done, call' = Append(call, q)
  PROVE  call'[Len(call) + 1] = q /\ Busy' = {Len(call) + 1}
<1>1. /\ Calls' = Calls \cup {Len(call) + 1} /\ Len(call) + 1 \notin Calls
      /\ call'[Len(call) + 1] = q /\ \A d \in Calls : call'[d] = call[d]
  BY TypeByParts, CallStarts
<1> QED BY <1>1 DEF Busy

\* A patient user waits.
LEMMA PatientWaits ==
  ASSUME NEW next, Patient(next) # "hasty"
  PROVE  user # "hasty" /\ Busy = {} /\ Patient(next) = next
BY DEF Patient

\* The steps of a user who waits: an edit ends what was submitted, a submit renews it.
LEMMA SubmittedByClicks ==
  ASSUME TypeInvariant, LinkInvariant, PatientInvariant, Undisturbed',
         \/ \E v \in Values : EditPlain(v) \/ \E f \in forms : EditNested(f, v)
         \/ \E f \in forms : CloseForm(f)
         \/ Submit \/ OpenForm \/ RemoveTableEntry
  PROVE  PatientInvariant'
<1>0. /\ bean.self \in Nat /\ bean.loaded \in Nat /\ bean.listed \in BOOLEAN
      /\ nested \in [forms \cup {bean.nest} -> Values] /\ LinksComeWithSelf
  BY TypeByParts DEF DataTyped
<1>1. ASSUME UNCHANGED <<rows, call, bounds>>, Busy = {}, user' = "dirty", user # "hasty"
      PROVE  PatientInvariant'
  <2>1. Busy' = {} /\ Undisturbed
    BY <1>1 DEF Busy, Calls, Undisturbed, bounds
  <2> QED BY <1>1, <2>1 DEF PatientInvariant
<1>2. ASSUME NEW v \in Values, EditPlain(v) PROVE PatientInvariant'
  BY <1>1, <1>2, PatientWaits DEF EditPlain, Undisturbed
<1>3. ASSUME NEW v \in Values, NEW f \in forms, EditNested(f, v) PROVE PatientInvariant'
  BY <1>1, <1>3, PatientWaits DEF EditNested, Undisturbed
<1>4. ASSUME NEW f \in forms, CloseForm(f) PROVE PatientInvariant'
  <2>1. nested'[bean.nest] = nested[bean.nest] /\ UNCHANGED <<rows, bean, call, user, bounds>>
    BY <1>0, <1>4 DEF CloseForm, Restrict, history
  <2>2. Payload' = Payload /\ Busy' = Busy /\ Undisturbed
    BY <2>1 DEF Payload, Busy, Calls, Undisturbed, bounds
  <2>3. \A r : DataOf(r)' = DataOf(r)
    BY <2>1 DEF DataOf
  <2>4. \A c \in Busy : (WaitedFor(c)' <=> WaitedFor(c)) /\ (CarriesSubmit(c)' <=> CarriesSubmit(c))
    BY <2>1, <2>2, <2>3 DEF WaitedFor, CarriesSubmit
  <2> QED BY <2>1, <2>2, <2>3, <2>4 DEF PatientInvariant
<1>n. PICK n : n = Len(call) + 1 OBVIOUS
<1>5. CASE Submit
  <2>1. /\ call' = Append(call, Persist) /\ UNCHANGED <<rows, bean, nested, bounds>>
        /\ user' = "clean" /\ user # "hasty" /\ Busy = {}
    BY <1>5, PatientWaits DEF Submit, Start, client, Undisturbed
  <2>2. Undisturbed /\ Payload' = Payload
    BY <2>1 DEF Undisturbed, bounds, Payload
  <2>3. bean.self = bean.loaded
    BY <2>1, <2>2 DEF LinkInvariant, ReloadIsUnderWay, Undisturbed, Busy, Reloading
  <2>4. /\ Persist \in Steps /\ Persist # Done
    BY <1>0, PayloadIsData DEF Persist, Request, Steps, Requests, Kinds, Done
  <2>5. call'[n] = Persist /\ Busy' = {n}
    BY <1>n, <2>1, <2>4, OnlyCallStarts
  <2>6. WaitedFor(n)' /\ CarriesSubmit(n)'
    <3>1. \/ call'[n].kind = "list" /\ call'[n].at = "sent"
          \/ /\ call'[n].kind = "update" /\ call'[n].row = bean.self /\ call'[n].at = "sent"
             /\ call'[n].data = Payload
      BY <2>3, <2>5 DEF Persist, Request
    <3> QED BY <2>1, <2>2, <3>1 DEF WaitedFor, CarriesSubmit
  <2> QED BY <2>1, <2>2, <2>5, <2>6 DEF PatientInvariant
<1>6. CASE OpenForm
  <2> DEFINE q == Request("self", bean.self, NoData)
  <2>1. /\ call' = Append(call, q) /\ UNCHANGED <<rows, bean, nested, bounds>>
        /\ user' = user /\ user # "hasty" /\ Busy = {} /\ bean.self # 0
    BY <1>0, <1>6, PatientWaits DEF OpenForm, Start, Undisturbed, LinksComeWithSelf
  <2>2. Undisturbed /\ Payload' = Payload
    BY <2>1 DEF Undisturbed, bounds, Payload
  <2>3. q \in Steps /\ q # Done
    BY <1>0 DEF Request, Steps, Requests, Kinds, Done
  <2>4. call'[n] = q /\ Busy' = {n}
    BY <1>n, <2>1, <2>3, OnlyCallStarts
  <2>5. WaitedFor(n)'
    <3>1. call'[n].kind = "self" /\ call'[n].at = "sent" /\ call'[n].row = bean.self
      BY <2>4 DEF Request
    <3> QED BY <2>1, <3>1 DEF WaitedFor
  <2>6. user = "clean" => CarriesSubmit(n)'
    <3> SUFFICES ASSUME user = "clean" PROVE CarriesSubmit(n)'
      OBVIOUS
    <3>1. DataOf(bean.self) = Payload
      BY <2>1, <2>2 DEF PatientInvariant
    <3>2. call'[n].kind = "self" /\ call'[n].at = "sent" /\ call'[n].row = bean.self
      BY <2>4 DEF Request
    <3> QED BY <2>1, <2>2, <3>1, <3>2 DEF CarriesSubmit, DataOf
  <2> HIDE DEF q
  <2> QED BY <2>1, <2>2, <2>4, <2>5, <2>6 DEF PatientInvariant
<1>7. CASE RemoveTableEntry
  BY <1>7 DEF RemoveTableEntry, Undisturbed
<1> QED BY <1>2, <1>3, <1>4, <1>5, <1>6, <1>7

\* What was submitted reaches the row the links belong to.
LEMMA SubmittedIsServed ==
  ASSUME TypeInvariant, PatientInvariant, Undisturbed', NEW c \in Calls, Serve(c)
  PROVE  PatientInvariant'
<1>0. /\ c \in Busy /\ call[c] \in Requests /\ call[c].at = "sent" /\ call[c] # Done
      /\ call[c].kind \in Kinds /\ CallOK(call[c], Len(rows), bean.self)
      /\ rows \in Seq(RowType) /\ UNCHANGED <<client, history, bounds>>
  BY BusyCall, TypeByParts DEF Serve, DataTyped
<1>1. Undisturbed /\ Payload' = Payload /\ bean' = bean /\ user' = user
  BY <1>0 DEF Undisturbed, client, history, bounds, Payload
<1>2. /\ \A r \in DOMAIN rows : ~rows[r].gone
      /\ WaitedFor(c) /\ (user = "clean" => CarriesSubmit(c))
  BY <1>0, <1>1 DEF PatientInvariant
<1>3. PICK row, data, at : Answered(c, row, data, at)
  BY DEF Serve, ServeList, ServeAdd, ServeRow
<1> DEFINE q == [kind |-> call[c].kind, row |-> row, data |-> data, at |-> at]
<1>4. call' = [call EXCEPT ![c] = q]
  BY <1>3 DEF Answered
<1>5. q \in Steps
  <2>1. call \in Seq(Steps) /\ call' \in Seq(Steps) /\ call'[c] = q
    BY <1>4, TypeByParts, TypeByPartsNext, TypeOfServe DEF Calls
  <2> QED BY <1>4, <2>1 DEF Calls
<1>6. call'[c] = q /\ Busy' = {c}
  BY <1>0, <1>1, <1>4, <1>5, OnlyCallGoesOn DEF Done
<1>7. ASSUME call'[c].kind = call[c].kind, call'[c].at = "ok",
             call'[c].kind \in {"update", "self"} => call'[c].row = bean.self,
             \A r \in DOMAIN rows' : ~rows'[r].gone,
             user = "clean" => CarriesSubmit(c)'
      PROVE  PatientInvariant'
  BY <1>1, <1>2, <1>6, <1>7 DEF PatientInvariant, WaitedFor
<1>8. CASE ServeList(c)
  <2>1. call'[c].kind = "list" /\ call'[c].at = "ok" /\ UNCHANGED rows
    BY <1>0, <1>8, TypeByParts DEF ServeList, Answered, Calls
  <2> QED BY <1>2, <1>7, <1>8, <2>1 DEF ServeList, CarriesSubmit
<1>9. CASE ServeAdd(c)
  <2>0. PICK m : m = Len(rows) + 1 OBVIOUS
  <2>1. /\ call'[c] = [kind |-> "add", row |-> m, data |-> NoData, at |-> "ok"]
        /\ rows' = Append(rows, Row(call[c].data)) /\ call[c].data \in Data
    BY <1>0, <1>9, <2>0, TypeByParts DEF ServeAdd, Answered, Calls, CallOK
  <2>2. \A r \in DOMAIN rows' : ~rows'[r].gone
    BY <1>0, <1>2, <2>1 DEF Row
  <2>3. rows'[m] = Row(call[c].data)
    BY <1>0, <2>0, <2>1
  <2>4. DataOf(m)' = call[c].data
    <3>1. rows'[m].plain = call[c].data.plain /\ rows'[m].nested = call[c].data.nested
      BY <2>3 DEF Row
    <3>2. call[c].data = [plain |-> call[c].data.plain, nested |-> call[c].data.nested]
      BY <2>1 DEF Data
    <3> QED BY <3>1, <3>2 DEF DataOf
  <2>5. user = "clean" => CarriesSubmit(c)'
    <3>1. /\ call'[c].kind = "add" /\ call'[c].at = "ok" /\ call'[c].row = m
          /\ call[c].kind = "add"
      BY <1>9, <2>1 DEF ServeAdd
    <3>2. user = "clean" => call[c].data = Payload
      BY <1>0, <1>2, <3>1 DEF CarriesSubmit
    <3> QED BY <1>1, <2>4, <3>1, <3>2 DEF CarriesSubmit, DataOf
  <2> QED BY <1>7, <1>9, <2>1, <2>2, <2>5 DEF ServeAdd
<1>10. CASE call[c].kind \notin {"list", "add"} /\ ServeRow(c, call[c].row)
  <2>0. PICK r : r = call[c].row OBVIOUS
  <2>1. r = bean.self /\ r \in DOMAIN rows /\ ~rows[r].gone /\ call[c].kind \in {"update", "self"}
    BY <1>0, <1>2, <1>10, <2>0 DEF WaitedFor, CallOK, Kinds
  <2>2. CASE call[c].kind = "update"
    <3>1. /\ rows' = [rows EXCEPT ![r] = Row(call[c].data)] /\ call[c].data \in Data
          /\ call'[c] = [kind |-> "update", row |-> r, data |-> NoData, at |-> "ok"]
      BY <1>0, <1>10, <2>0, <2>1, <2>2, TypeByParts DEF ServeRow, Answered, Calls, CallOK
    <3>2. rows'[r] = Row(call[c].data) /\ \A s \in DOMAIN rows' : ~rows'[s].gone
      BY <1>0, <1>2, <2>1, <3>1 DEF Row
    <3>3. DataOf(r)' = call[c].data
      BY <3>1, <3>2 DEF DataOf, Row, Data
    <3>4. user = "clean" => CarriesSubmit(c)'
      BY <1>0, <1>1, <1>2, <2>2, <3>1, <3>2, <3>3 DEF CarriesSubmit, DataOf
    <3> QED BY <1>7, <2>1, <2>2, <3>1, <3>2, <3>4
  <2>3. CASE call[c].kind = "self"
    <3>1. /\ UNCHANGED rows
          /\ call'[c] = [kind |-> "self", row |-> r, data |-> DataOf(r), at |-> "ok"]
      BY <1>0, <1>10, <2>0, <2>1, <2>3, TypeByParts DEF ServeRow, Answered, Calls
    <3>2. user = "clean" => CarriesSubmit(c)'
      BY <1>1, <1>2, <2>0, <2>3, <3>1 DEF CarriesSubmit, DataOf
    <3> QED BY <1>2, <1>7, <2>1, <2>3, <3>1, <3>2
  <2> QED BY <2>1, <2>2, <2>3
<1> QED BY <1>8, <1>9, <1>10 DEF Serve

\* What was submitted comes back with the reload.
LEMMA SubmittedInCallbacks ==
  ASSUME TypeInvariant, LinkInvariant, PatientInvariant, Undisturbed', NEW c \in Calls, Callback(c)
  PROVE  PatientInvariant'
<1>0. /\ c \in Busy /\ call[c] \in Requests /\ call[c] # Done
      /\ call[c].row \in Nat /\ CallOK(call[c], Len(rows), bean.self)
  BY BusyCall DEF Callback, PrimaryResource, Added, Updated, Reloaded, Ends, Arrives
<1>1. UNCHANGED <<rows, user, bounds>>
  BY DEF Callback, PrimaryResource, Added, Updated, Reloaded, Ends, history
<1>2. Undisturbed
  BY <1>1 DEF Undisturbed, bounds
<1>3. /\ \A r \in DOMAIN rows : ~rows[r].gone
      /\ WaitedFor(c) /\ (user = "clean" => CarriesSubmit(c))
  BY <1>0, <1>2 DEF PatientInvariant
<1>4. /\ bean \in [plain : Values, nest : Nat, listed : BOOLEAN,
                   self : 0 .. Len(rows), loaded : 0 .. Len(rows)]
      /\ bean.self \in Nat /\ forms \subseteq 0 .. bean.nest /\ bean.nest \in Nat
  BY TypeByParts DEF DataTyped
<1>5. ASSUME NEW q \in Steps, q # Done, call' = [call EXCEPT ![c] = q],
             WaitedFor(c)', user = "clean" => CarriesSubmit(c)'
      PROVE  PatientInvariant'
  <2>1. call'[c] = q /\ Busy' = {c}
    BY <1>0, <1>2, <1>5, OnlyCallGoesOn
  <2> QED BY <1>1, <1>3, <1>5, <2>1 DEF PatientInvariant
<1>6. ASSUME call' = [call EXCEPT ![c] = Done],
             user = "clean" => DataOf(bean.self)' = Payload'
      PROVE  PatientInvariant'
  <2>1. Busy' = {}
    BY <1>0, <1>2, <1>6, OnlyCallGoesOn DEF Steps
  <2> QED BY <1>1, <1>3, <1>6, <2>1 DEF PatientInvariant
<1>7. ASSUME NEW q \in Steps, call' = [call EXCEPT ![c] = q]
      PROVE  call'[c] = q
  BY <1>7, TypeByParts DEF Calls
<1>8. CASE PrimaryResource(c)
  <2>1. PICK q : q = Request("add", 0, Payload)
    OBVIOUS
  <2>2. q \in Steps /\ q # Done /\ call' = [call EXCEPT ![c] = q] /\ UNCHANGED client
    BY <1>8, <2>1, PayloadIsData DEF PrimaryResource, Request, Steps, Requests, Kinds, Done
  <2>3. /\ call'[c].kind = "add" /\ call'[c].at = "sent" /\ call'[c].data = Payload
    <3>1. call'[c] = q
      BY <1>7, <2>2
    <3> QED BY <2>1, <3>1 DEF Request
  <2>4. Payload' = Payload
    BY <2>2 DEF Payload, client
  <2>5. WaitedFor(c)' /\ CarriesSubmit(c)'
    BY <2>3, <2>4 DEF WaitedFor, CarriesSubmit
  <2> QED BY <1>5, <2>2, <2>5
<1>9. CASE Added(c)
  <2>1. PICK q : q = Request("self", call[c].row, NoData)
    OBVIOUS
  <2>2. /\ q \in Steps /\ q # Done /\ call' = [call EXCEPT ![c] = q] /\ UNCHANGED nested
        /\ bean' = [bean EXCEPT !.self = call[c].row]
    BY <1>0, <1>9, <2>1 DEF Added, Request, Steps, Requests, Kinds, Done
  <2>3. call'[c].kind = "self" /\ call'[c].at = "sent" /\ call'[c].row = call[c].row
    <3>1. call'[c] = q
      BY <1>7, <2>2
    <3> QED BY <2>1, <3>1 DEF Request
  <2>4. bean'.self = call[c].row /\ bean'.plain = bean.plain /\ bean'.nest = bean.nest
    BY <1>4, <2>2
  <2>5. Payload' = Payload
    BY <2>2, <2>4 DEF Payload
  <2>6. WaitedFor(c)'
    BY <2>3, <2>4 DEF WaitedFor
  <2>7. ASSUME user = "clean" PROVE CarriesSubmit(c)'
    <3>1. DataOf(call[c].row) = Payload
      BY <1>3, <1>9, <2>7 DEF Added, Arrives, CarriesSubmit
    <3> QED BY <1>1, <2>3, <2>5, <3>1 DEF CarriesSubmit, DataOf
  <2> QED BY <1>5, <2>2, <2>6, <2>7
<1>10. CASE Updated(c)
  <2>1. PICK q : q = Request("self", bean.self, NoData)
    OBVIOUS
  <2>2. q \in Steps /\ q # Done /\ call' = [call EXCEPT ![c] = q] /\ UNCHANGED client
    BY <1>4, <1>10, <2>1 DEF Updated, Request, Steps, Requests, Kinds, Done
  <2>3. call'[c].kind = "self" /\ call'[c].at = "sent" /\ call'[c].row = bean.self
    <3>1. call'[c] = q
      BY <1>7, <2>2
    <3> QED BY <2>1, <3>1 DEF Request
  <2>4. Payload' = Payload /\ bean' = bean
    BY <2>2 DEF Payload, client
  <2>5. WaitedFor(c)'
    BY <2>3, <2>4 DEF WaitedFor
  <2>6. ASSUME user = "clean" PROVE CarriesSubmit(c)'
    <3>1. DataOf(call[c].row) = Payload /\ call[c].row = bean.self
      BY <1>3, <1>10, <2>6 DEF Updated, Arrives, CarriesSubmit, WaitedFor
    <3> QED BY <1>1, <2>3, <2>4, <3>1 DEF CarriesSubmit, DataOf
  <2> QED BY <1>5, <2>2, <2>5, <2>6
<1>11. CASE Reloaded(c)
  <2>1. /\ call' = [call EXCEPT ![c] = Done] /\ call[c].kind = "self" /\ call[c].at = "ok"
        /\ bean' = [bean EXCEPT !.plain = call[c].data.plain, !.nest = @ + 1,
                                !.self = call[c].row, !.loaded = call[c].row]
        /\ nested' = [n \in forms \cup {bean.nest + 1} |->
                        IF n \in forms THEN nested[n] ELSE call[c].data.nested]
    BY <1>11 DEF Reloaded, Loaded, Arrives
  <2>2. /\ bean'.plain = call[c].data.plain /\ bean'.nest = bean.nest + 1
        /\ bean'.self = call[c].row
    BY <1>4, <2>1
  <2>3. bean.nest + 1 \notin forms
    BY <1>4
  <2>4. nested'[bean.nest + 1] = call[c].data.nested
    BY <2>1, <2>3
  <2>5. call[c].data \in Data
    BY <1>0, <2>1 DEF CallOK
  <2>6. call[c].data = [plain |-> call[c].data.plain, nested |-> call[c].data.nested]
    BY <2>5 DEF Data
  <2>7. Payload' = call[c].data
    BY <2>2, <2>4, <2>6 DEF Payload
  <2>8. ASSUME user = "clean" PROVE DataOf(bean.self)' = Payload'
    <3>1. DataOf(call[c].row) = call[c].data
      BY <1>3, <2>1, <2>8 DEF CarriesSubmit
    <3> QED BY <1>1, <2>2, <2>7, <3>1 DEF DataOf
  <2> QED BY <1>6, <2>1, <2>8
<1>12. CASE Ends(c)
  BY <1>3, <1>12 DEF Ends, Arrives, WaitedFor
<1> QED BY <1>8, <1>9, <1>10, <1>11, <1>12 DEF Callback

\* Each step of a user who waits keeps the data of the submit.
LEMMA PatientStep ==
  TypeInvariant /\ LinkInvariant /\ PatientInvariant /\ [Next]_vars => PatientInvariant'
<1> SUFFICES ASSUME TypeInvariant, LinkInvariant, PatientInvariant, [Next]_vars, Undisturbed'
             PROVE  PatientInvariant'
  BY DEF PatientInvariant
<1>1. CASE UNCHANGED vars
  <2>1. UNCHANGED <<rows, bean, nested, call, user, bounds>>
    BY <1>1 DEF vars, client, history
  <2>2. Payload' = Payload /\ Busy' = Busy /\ Undisturbed /\ \A r : DataOf(r)' = DataOf(r)
    BY <2>1 DEF Payload, Busy, Calls, Undisturbed, bounds, DataOf
  <2>3. \A c \in Busy : (WaitedFor(c)' <=> WaitedFor(c)) /\ (CarriesSubmit(c)' <=> CarriesSubmit(c))
    BY <2>1, <2>2 DEF WaitedFor, CarriesSubmit
  <2> QED BY <2>1, <2>2, <2>3 DEF PatientInvariant
<1>2. faults \in Nat /\ writes \in Nat
  BY TypeByParts DEF DataTyped, Numbers
<1>3. ASSUME NEW c \in Calls, Refuse(c) \/ Lose(c) PROVE FALSE
  BY <1>2, <1>3 DEF Refuse, Lose, Undisturbed
<1>4. ASSUME NEW r \in 1 .. Len(rows), NEW v \in Values, OtherClient(r, v) PROVE FALSE
  BY <1>2, <1>4 DEF OtherClient, Undisturbed
<1>5. CASE Next
  BY <1>3, <1>4, <1>5, SubmittedByClicks, SubmittedIsServed, SubmittedInCallbacks DEF Next
<1> QED BY <1>1, <1>5

\* If the user waits for each answer, nothing fails and nobody else writes, then after
\* any number of edits, submits and reloads of any number of dialogs what was submitted
\* is in the row and in the dialogs, except in inputs that a reload has detached.
THEOREM SubmitsArePersisted == Spec => []SequentialSubmitsArePersisted
<1>1. Init => PatientInvariant
  <2> SUFFICES ASSUME Init PROVE PatientInvariant OBVIOUS
  <2>1. Busy = {}
    BY DEF Init, Busy, Calls
  <2>2. /\ \A r \in DOMAIN rows : ~rows[r].gone
        /\ bean.self # 0 => DataOf(bean.self) = Payload
    BY DEF Init, DataOf, Payload
  <2> QED BY <2>1, <2>2 DEF PatientInvariant
<1>2. TypeInvariant /\ PatientInvariant => SequentialSubmitsArePersisted
  <2> SUFFICES ASSUME TypeInvariant, PatientInvariant,
                      Busy = {}, user = "clean", faults = 0, writes = 0, bean.self # 0
               PROVE  /\ DataOf(bean.self) = Payload
                      /\ \A f \in forms : nested[f] = rows[bean.self].nested \/ f < bean.nest
    BY DEF SequentialSubmitsArePersisted
  <2>1. DataOf(bean.self) = Payload
    BY DEF PatientInvariant, Undisturbed
  <2>2. forms \subseteq 0 .. bean.nest /\ bean.nest \in Nat
    BY TypeByParts DEF DataTyped
  <2>3. rows[bean.self].nested = nested[bean.nest]
    BY <2>1 DEF DataOf, Payload
  <2> QED BY <2>1, <2>2, <2>3
<1>3. Init => LinkInvariant
  BY LinksInit
<1> QED BY <1>1, <1>2, <1>3, TypeInit, TypeStep, LinksStep, PatientStep, PTL DEF Spec
=============================================================================
