------------------------ MODULE ChildCollectionProofs ------------------------
(* What holds of ChildCollection for all values, page sizes, rows and acts. *)
EXTENDS ChildCollection, FiniteSetTheorems, SequenceTheorems, TLAPS

\* What a bag has after messages are added, and how often.
LEMMA Added ==
  ASSUME NEW b, IsABag(b), NEW S
  PROVE  /\ IsABag(b (+) SetToBag(S))
         /\ BagToSet(b (+) SetToBag(S)) = BagToSet(b) \cup S
         /\ \A m \in S : m \notin BagToSet(b) => (b (+) SetToBag(S))[m] = 1
         /\ \A m \in BagToSet(b) : m \notin S => (b (+) SetToBag(S))[m] = b[m]
BY DEF IsABag, BagToSet, SetToBag, (+)

\* One copy of a message is taken out: the last one, if there is only one.
LEMMA Removed ==
  ASSUME NEW b, IsABag(b), NEW m
  PROVE  /\ IsABag(b (-) SetToBag({m}))
         /\ BagToSet(b (-) SetToBag({m})) \subseteq BagToSet(b)
         /\ \A n \in BagToSet(b) : n # m =>
              n \in BagToSet(b (-) SetToBag({m})) /\ (b (-) SetToBag({m}))[n] = b[n]
         /\ m \in BagToSet(b) /\ b[m] = 1 => m \notin BagToSet(b (-) SetToBag({m}))
BY DEF IsABag, BagToSet, SetToBag, (-)

\* A set of naturals has a least element.
LEMMA LeastNumber ==
  ASSUME NEW S \in SUBSET Nat, S # {}
  PROVE  Min(S) \in S /\ \A k \in S : Min(S) <= k
<1> DEFINE upTo == {0 .. k : k \in S}
<1>1. upTo \subseteq FiniteSubsetsOf(Nat) /\ upTo # {}
  <2>1. ASSUME NEW k \in S PROVE IsFiniteSet(0 .. k) /\ 0 .. k \subseteq Nat
    BY FS_Interval
  <2> QED BY <2>1 DEF FiniteSubsetsOf
<1>2. PICK x \in upTo : \A y \in upTo : ~ (<<y, x>> \in StrictSubsetOrdering(Nat))
  <2> HIDE DEF upTo
  <2>1. IsWellFoundedOn(StrictSubsetOrdering(Nat), FiniteSubsetsOf(Nat))
    BY FS_StrictSubsetOrderingWellFounded
  <2> QED BY <1>1, <2>1, WFMin
<1>3. PICK l \in S : x = 0 .. l BY <1>2
<1>4. ASSUME NEW k \in S, k < l PROVE FALSE
  <2>1. 0 .. k \in upTo BY <1>4
  <2>2. 0 .. k \subseteq 0 .. l /\ l \in 0 .. l /\ l \notin 0 .. k BY <1>4
  <2>3. 0 .. k \in SUBSET Nat /\ 0 .. l \in SUBSET Nat BY <1>4
  <2>4. <<0 .. k, x>> \in StrictSubsetOrdering(Nat)
    BY <1>3, <2>2, <2>3, Zenon DEF StrictSubsetOrdering
  <2> QED BY <1>2, <2>1, <2>4
<1>5. \A k \in S : l <= k BY <1>4
<1> QED BY <1>5 DEF Min

\* The smaller one of two numbers.
LEMMA Smaller ==
  ASSUME NEW a \in Nat, NEW b \in Nat PROVE Min({a, b}) = IF a <= b THEN a ELSE b
BY DEF Min

\* Listeners stay a list of functions, whatever is cut out.
LEMMA CutListeners ==
  ASSUME NEW S, NEW on \in Seq(S), NEW fn
  PROVE  RemoveListener(on, fn) \in Seq(S)
<1> DEFINE heard == {i \in DOMAIN on : on[i] = fn}
           i == Min(heard) - 1
           j == Min({2 * i, Len(on)})
<1>1. CASE heard = {} BY <1>1 DEF RemoveListener
<1>2. CASE heard # {}
  <2>1. Min(heard) \in DOMAIN on
    BY <1>2, LeastNumber
  <2>2. i \in Nat /\ Len(on) \in Nat /\ 2 * i \in Nat
    BY <2>1
  <2> HIDE DEF i
  <2>3. j \in Nat /\ j <= Len(on)
    BY <2>2, Smaller
  <2> HIDE DEF j
  <2>4. \A k \in i + 1 .. j : on[k] \in S
    BY <2>2, <2>3
  <2>5. SubSeq(on, i + 1, j) \in Seq(S)
    BY <2>2, <2>3, <2>4, SubSeqProperties
  <2> QED BY <1>2, <2>5 DEF RemoveListener, i, j
<1> QED BY <1>1, <1>2

\* A list without the entry at one place has the others in their order, none twice.
LEMMA WithoutOne ==
  ASSUME NEW S, NEW s \in Seq(S), NEW k \in DOMAIN s
  PROVE  /\ RemoveAt(s, k) \in Seq(S)
         /\ Range(RemoveAt(s, k)) \subseteq Range(s)
         /\ IsInjective(s) => IsInjective(RemoveAt(s, k))
<1> DEFINE a == SubSeq(s, 1, k - 1)
           b == SubSeq(s, k + 1, Len(s))
<1>0. k \in Nat /\ k >= 1 /\ k <= Len(s) /\ Len(s) \in Nat OBVIOUS
<1>1. /\ a \in Seq(S) /\ Len(a) = k - 1
      /\ \A j \in 1 .. k - 1 : a[j] = s[j]
  BY <1>0, SubSeqProperties
<1>2. /\ b \in Seq(S) /\ Len(b) = Len(s) - k
      /\ \A j \in 1 .. Len(s) - k : b[j] = s[k + j]
  BY <1>0, SubSeqProperties
<1> HIDE DEF a, b
<1>3. /\ a \o b \in Seq(S) /\ Len(a \o b) = Len(s) - 1
      /\ \A j \in 1 .. Len(s) - 1 : (a \o b)[j] = s[IF j < k THEN j ELSE j + 1]
  <2>1. /\ a \o b \in Seq(S) /\ Len(a \o b) = Len(a) + Len(b)
        /\ \A j \in 1 .. Len(a) + Len(b) :
             (a \o b)[j] = IF j <= Len(a) THEN a[j] ELSE b[j - Len(a)]
    BY <1>1, <1>2, ConcatProperties, Zenon
  <2> DEFINE c == a \o b
  <2> HIDE DEF c
  <2>2. Len(c) = Len(s) - 1 BY <1>0, <1>1, <1>2, <2>1 DEF c
  <2>3. ASSUME NEW j \in 1 .. Len(s) - 1 PROVE c[j] = s[IF j < k THEN j ELSE j + 1]
    <3>1. CASE j < k BY <1>0, <1>1, <1>2, <2>1, <3>1 DEF c
    <3>2. CASE j >= k
      <4>1. j - (k - 1) \in 1 .. Len(s) - k /\ k + (j - (k - 1)) = j + 1 BY <1>0, <3>2
      <4>2. /\ j \in 1 .. Len(a) + Len(b) /\ ~(j <= Len(a)) /\ j - Len(a) = j - (k - 1)
        BY <1>0, <1>1, <1>2, <3>2
      <4>3. c[j] = b[j - (k - 1)]
        BY <2>1, <4>2 DEF c
      <4> QED BY <1>0, <1>2, <3>2, <4>1, <4>3
    <3> QED BY <1>0, <3>1, <3>2
  <2> QED BY <2>1, <2>2, <2>3 DEF c
<1>4. RemoveAt(s, k) = a \o b BY DEF RemoveAt, a, b
<1> DEFINE t == RemoveAt(s, k)
<1>5. DOMAIN t = 1 .. Len(s) - 1 /\ DOMAIN s = 1 .. Len(s)
  BY <1>0, <1>3, <1>4
<1>6. \A j \in DOMAIN t : t[j] = s[IF j < k THEN j ELSE j + 1]
  BY <1>3, <1>4, <1>5
<1> HIDE DEF t
<1>7. Range(t) \subseteq Range(s)
  BY <1>0, <1>5, <1>6 DEF Range
<1>8. ASSUME IsInjective(s) PROVE IsInjective(t)
  BY <1>0, <1>5, <1>6, <1>8 DEF IsInjective
<1> QED BY <1>3, <1>4, <1>7, <1>8 DEF t

\* New objects at the end of a list of older ones.
LEMMA WithNewObjects ==
  ASSUME NEW n \in Nat, NEW m \in Nat, NEW s \in Seq(1 .. n)
  PROVE  LET t == s \o [k \in 1 .. m |-> n + k]
         IN  /\ t \in Seq(1 .. n + m)
             /\ Range(t) = Range(s) \cup (n + 1 .. n + m)
             /\ IsInjective(s) => IsInjective(t)
<1> DEFINE u == [k \in 1 .. m |-> n + k]
           t == s \o u
<1>1. /\ s \in Seq(1 .. n + m) /\ Len(s) \in Nat
      /\ \A j \in 1 .. Len(s) : s[j] \in Nat /\ s[j] >= 1 /\ s[j] <= n
  OBVIOUS
<1>2. u \in Seq(1 .. n + m) /\ Len(u) = m /\ \A k \in 1 .. m : u[k] = n + k
  OBVIOUS
<1> HIDE DEF u
<1>3. /\ t \in Seq(1 .. n + m) /\ Len(t) = Len(s) + m
      /\ \A j \in 1 .. Len(s) + m : t[j] = IF j <= Len(s) THEN s[j] ELSE n + (j - Len(s))
  <2>1. /\ t \in Seq(1 .. n + m) /\ Len(t) = Len(s) + Len(u)
        /\ \A j \in 1 .. Len(s) + Len(u) : t[j] = IF j <= Len(s) THEN s[j] ELSE u[j - Len(s)]
    BY <1>1, <1>2, ConcatProperties, Zenon
  <2> HIDE DEF t
  <2>2. ASSUME NEW j \in 1 .. Len(s) + m
        PROVE  t[j] = IF j <= Len(s) THEN s[j] ELSE n + (j - Len(s))
    <3>1. j > Len(s) => j - Len(s) \in 1 .. m BY <1>1
    <3>2. j > Len(s) => u[j - Len(s)] = n + (j - Len(s)) BY <1>2, <3>1
    <3>3. ~(j <= Len(s)) => j > Len(s) BY <1>1
    <3> QED BY <1>2, <2>1, <3>2, <3>3
  <2> QED BY <1>2, <2>1, <2>2
<1>4. DOMAIN t = 1 .. Len(s) + m /\ DOMAIN s = 1 .. Len(s) BY <1>1, <1>3
<1> HIDE DEF t
<1>5. Range(t) \subseteq Range(s) \cup (n + 1 .. n + m)
  BY <1>1, <1>3, <1>4 DEF Range
<1>6. Range(s) \subseteq Range(t)
  <2>1. ASSUME NEW j \in 1 .. Len(s) PROVE j \in DOMAIN t /\ t[j] = s[j]
    BY <1>1, <1>3, <1>4
  <2> QED BY <1>4, <2>1 DEF Range
<1>7. ASSUME NEW c \in n + 1 .. n + m PROVE c \in Range(t)
  <2> DEFINE j == Len(s) + (c - n)
  <2>1. j \in 1 .. Len(s) + m /\ ~(j <= Len(s)) /\ n + (j - Len(s)) = c BY <1>1
  <2> HIDE DEF j
  <2>2. t[j] = c BY <1>3, <2>1
  <2> QED BY <1>4, <2>1, <2>2 DEF Range
<1>8. ASSUME IsInjective(s) PROVE IsInjective(t)
  BY <1>1, <1>3, <1>4, <1>8 DEF IsInjective
<1> QED BY <1>3, <1>5, <1>6, <1>7, <1>8 DEF t, u
-----------------------------------------------------------------------------
(* The inductive invariant *)

Listeners == Seq({"label", "input"})

StoredRows == [value : Values, by : 0 .. Len(child), save : 0 .. saves]
Objects == [value : Values, row : 0 .. Len(rows), label : Values, on : Listeners]
Dialogs == [items : Seq(Children), editing : Nat, open : BOOLEAN]
Loadable == {Entry(v, r) : v \in Values, r \in 1 .. Len(rows)}

Pages == [kind : {"page"}, input : Inputs, offset : 0 .. Len(rows)]
Answers == [kind : {"answer"}, input : Inputs, next : BOOLEAN, items : Seq(Loadable)]
Lists == [kind : {"list"}, child : Children, save : 1 .. saves]
Adds == [kind : {"add"}, child : Children, value : Values, save : 1 .. saves]
Updates == [kind : {"update"}, child : Children, value : Values]

IsMessage(n) ==
  /\ n \in {ParentRequest} \cup Pages \cup Answers \cup Lists \cup Adds \cup Updates
  /\ n.kind = "answer" => (n.next => n.items # <<>>)
  /\ n.kind = "update" => child[n.child].row # 0
  /\ n.kind \in {"list", "add"} => child[n.child].row = 0

Types ==
  /\ parent \in {"new", "created", "listed"}
  /\ rows \in Seq(StoredRows) /\ child \in Seq(Objects) /\ input \in Seq(Dialogs)
  /\ IsABag(call) /\ \A n \in Busy : IsMessage(n)
  /\ saves \in Nat /\ faults \in Nat

\* An object is in one list, at one place.
ListsAreDisjoint ==
  /\ \A i \in Inputs : /\ IsInjective(input[i].items)
                       /\ input[i].editing \in {0} \cup Range(input[i].items)
  /\ \A i, j \in Inputs :
       i # j => Range(input[i].items) \cap Range(input[j].items) = {}

\* The label of an entry follows it until its editor was closed.
LabelsListen ==
  \A c \in Children :
    c \notin closed => child[c].label = child[c].value /\ Hears(child[c].on, "label")

Creations == {n \in Busy : n.kind \in {"list", "add"}}

\* A save creates at most one row of a child: a request that was sent once asks for it,
\* or it is there.
OncePerSave ==
  /\ \A n \in Creations : call[n] = 1
  /\ \A m, n \in Creations : m.child = n.child /\ m.save = n.save => m = n
  /\ \A n \in Creations : \A r \in RowsOf(n.child) : rows[r].save # n.save
  /\ \A r \in DOMAIN rows : rows[r].by # 0 =>
       /\ rows[r].save > 0 /\ child[rows[r].by].row = 0
       /\ \A s \in RowsOf(rows[r].by) : rows[r].save = rows[s].save => r = s

\* The row a child is stored in, and whether it has the value of an object of the row.
IsItsRow(c, r) == IF child[c].row # 0 THEN r = child[c].row
                  ELSE rows[r].by = c /\ \A s \in RowsOf(c) : s <= r
Reflects(r, c) == \/ rows[r].value = child[c].value
                  \/ \E d \in Children : child[d].row = r /\ rows[r].value = child[d].value
HasRow(c) == \E r \in DOMAIN rows : IsItsRow(c, r) /\ Reflects(r, c)

\* A request is under way that will store the child.
Stores(n, c) == /\ n.kind \in {"list", "add", "update"} /\ n.child = c
                /\ n.kind = "update" <=> child[c].row # 0
IsSent(c) == \E n \in Busy : Stores(n, c)

Loading == {"page", "answer"}

\* If the user waits for all answers and none is refused: requests carry what the children
\* are, nothing is stored while a page is read, and a child is stored or about to be.
PatientUser ==
  user # "hasty" /\ faults = 0 =>
    /\ \A n \in Busy : n.kind \in {"add", "update"} => n.value = child[n.child].value
    /\ \A m, n \in Busy : m.kind \in Loading => n.kind \in Loading
    /\ \A n \in Busy : n.kind = "answer" =>
         \A k \in DOMAIN n.items : n.items[k].value = rows[n.items[k].row].value
    /\ user = "clean" /\ ParentRequest \notin Busy => \A c \in Listed : HasRow(c) \/ IsSent(c)

ChildInvariant == Types /\ ListsAreDisjoint /\ LabelsListen /\ OncePerSave /\ PatientUser

\* What no step does: dialogs, objects and rows stay, and an object keeps its row.
NothingIsLost ==
  /\ Len(input) <= Len(input') /\ Len(child) <= Len(child') /\ Len(rows) <= Len(rows')
  /\ saves <= saves'
  /\ \A c \in Children : child'[c].row = child[c].row

\* The numbers of rows, objects and dialogs.
LEMMA Lengths ==
  ASSUME Types
  PROVE  /\ Len(rows) \in Nat /\ DOMAIN rows = 1 .. Len(rows)
         /\ Len(child) \in Nat /\ Children = 1 .. Len(child)
         /\ Len(input) \in Nat /\ Inputs = 1 .. Len(input)
BY DEF Types, Children, Inputs

\* What they are.
LEMMA Elements ==
  ASSUME Types
  PROVE  /\ \A r \in DOMAIN rows : rows[r] \in StoredRows
         /\ \A c \in Children : child[c] \in Objects
         /\ \A i \in Inputs : input[i] \in Dialogs /\ input[i].items \in Seq(Children)
<1>1. \A r \in 1 .. Len(rows) : rows[r] \in StoredRows BY ElementOfSeq DEF Types
<1>2. \A c \in 1 .. Len(child) : child[c] \in Objects BY ElementOfSeq DEF Types
<1>3. \A i \in 1 .. Len(input) : input[i] \in Dialogs BY ElementOfSeq DEF Types
<1> QED BY <1>1, <1>2, <1>3, Lengths DEF Dialogs

\* What kind a message is of.
LEMMA Kinds ==
  ASSUME NEW n, IsMessage(n)
  PROVE  /\ n.kind = "parent" => n = ParentRequest
         /\ n.kind = "page" => n \in Pages
         /\ n.kind = "answer" => n \in Answers
         /\ n.kind = "list" => n \in Lists
         /\ n.kind = "add" => n \in Adds
         /\ n.kind = "update" => n \in Updates
         /\ n.kind \in {"parent", "page", "answer", "list", "add", "update"}
BY DEF IsMessage, ParentRequest, Pages, Answers, Lists, Adds, Updates

\* A new entry's label has its value and listens.
LEMMA NewEntry ==
  ASSUME NEW v \in Values, NEW r
  PROVE  /\ Entry(v, r).value = v /\ Entry(v, r).label = v /\ Entry(v, r).row = r
         /\ Entry(v, r) = [value |-> v, row |-> r, label |-> v, on |-> Entry(v, r).on]
         /\ Entry(v, r).on \in Listeners /\ Hears(Entry(v, r).on, "label")
<1> DEFINE on == <<"label">>
<1>1. Entry(v, r) = [value |-> v, row |-> r, label |-> v, on |-> on] BY DEF Entry, AddListener
<1>2. on \in Listeners /\ 1 \in DOMAIN on /\ on[1] = "label" BY DEF Listeners
<1> HIDE DEF on
<1> QED BY <1>1, <1>2 DEF Hears

\* What was typed correctly stays so.
LEMMA TypesStay ==
  ASSUME Types, NothingIsLost,
         Len(input') \in Nat, Len(child') \in Nat, Len(rows') \in Nat, saves' \in Nat,
         Inputs' = 1 .. Len(input'), Children' = 1 .. Len(child')
  PROVE  /\ rows \in Seq(StoredRows') /\ child \in Seq(Objects') /\ input \in Seq(Dialogs')
         /\ \A n : IsMessage(n) => IsMessage(n)'
<1>0. /\ Len(rows) \in Nat /\ Len(child) \in Nat /\ Len(input) \in Nat /\ saves \in Nat
      /\ Children = 1 .. Len(child) /\ Inputs = 1 .. Len(input)
  BY Lengths DEF Types
<1>1. /\ Children \subseteq Children' /\ Inputs \subseteq Inputs'
      /\ 0 .. Len(child) \subseteq 0 .. Len(child') /\ 0 .. Len(rows) \subseteq 0 .. Len(rows')
      /\ 1 .. Len(rows) \subseteq 1 .. Len(rows')
      /\ 0 .. saves \subseteq 0 .. saves' /\ 1 .. saves \subseteq 1 .. saves'
  BY <1>0 DEF NothingIsLost
<1>2. StoredRows \subseteq StoredRows' /\ Objects \subseteq Objects'
  BY <1>1 DEF StoredRows, Objects
<1>3. Seq(Children) \subseteq Seq(Children')
  BY <1>1, SeqMonotonic
<1>4. Dialogs \subseteq Dialogs' BY <1>3 DEF Dialogs
<1>5. rows \in Seq(StoredRows') /\ child \in Seq(Objects') /\ input \in Seq(Dialogs')
  BY <1>2, <1>4, SeqMonotonic DEF Types
<1>6. ASSUME NEW n, IsMessage(n) PROVE IsMessage(n)'
  <2>1. Loadable \subseteq Loadable' BY <1>1 DEF Loadable
  <2>2. Seq(Loadable) \subseteq Seq(Loadable') BY <2>1, SeqMonotonic
  <2>3. Pages \subseteq Pages' BY <1>1 DEF Pages
  <2>4. Answers \subseteq Answers' BY <1>1, <2>2 DEF Answers
  <2>5. Lists \subseteq Lists' /\ Adds \subseteq Adds' /\ Updates \subseteq Updates'
    BY <1>1 DEF Lists, Adds, Updates
  <2>6. n.kind \in {"list", "add", "update"} => n.child \in Children
    BY <1>6, Kinds DEF Lists, Adds, Updates
  <2>7. n \in ({ParentRequest} \cup Pages \cup Answers \cup Lists \cup Adds \cup Updates)'
    BY <1>6, <2>3, <2>4, <2>5 DEF IsMessage, ParentRequest
  <2> QED BY <1>6, <2>6, <2>7 DEF IsMessage, NothingIsLost
<1> QED BY <1>5, <1>6

-----------------------------------------------------------------------------
(* What steps leave alone *)

\* Rows keep what they were created for, and no creation is asked for or asked again.
LEMMA OnceStays ==
  ASSUME Types, OncePerSave, NothingIsLost,
         DOMAIN rows' = DOMAIN rows,
         \A r \in DOMAIN rows : rows'[r].by = rows[r].by /\ rows'[r].save = rows[r].save,
         \A n \in Creations' : n \in Creations /\ call'[n] = call[n]
  PROVE  OncePerSave'
<1>1. \A c : RowsOf(c)' = RowsOf(c) BY DEF RowsOf
<1>2. \A r \in DOMAIN rows : rows[r].by \in {0} \cup Children
  <2>1. \A r \in DOMAIN rows : rows[r].by \in 0 .. Len(child) BY Elements DEF StoredRows
  <2> QED BY <2>1, Lengths
<1>3. \A c : \A r \in RowsOf(c) : r \in DOMAIN rows BY DEF RowsOf
<1>4. \A n \in Creations' : call'[n] = 1 BY DEF OncePerSave
<1>5. (\A m, n \in Creations : m.child = n.child /\ m.save = n.save => m = n)'
  BY DEF OncePerSave
<1>6. (\A n \in Creations : \A r \in RowsOf(n.child) : rows[r].save # n.save)'
  BY <1>1, <1>3 DEF OncePerSave
<1>7. (\A r \in DOMAIN rows : rows[r].by # 0 =>
         /\ rows[r].save > 0 /\ child[rows[r].by].row = 0
         /\ \A s \in RowsOf(rows[r].by) : rows[r].save = rows[s].save => r = s)'
  BY <1>1, <1>2, <1>3 DEF OncePerSave, NothingIsLost
<1> QED BY <1>4, <1>5, <1>6, <1>7 DEF OncePerSave

\* Objects and rows have the values they had.
Unedited ==
  /\ rows' = rows /\ Children \subseteq Children'
  /\ \A c \in Children : child'[c].value = child[c].value /\ child'[c].row = child[c].row

\* Then what is stored stays so,
LEMMA RowsStay ==
  ASSUME Types, Unedited, NEW c \in Children, HasRow(c)
  PROVE  HasRow(c)'
<1>1. PICK r \in DOMAIN rows : IsItsRow(c, r) /\ Reflects(r, c) BY DEF HasRow
<1>2. RowsOf(c)' = RowsOf(c) BY DEF Unedited, RowsOf
<1>3. IsItsRow(c, r)' BY <1>1, <1>2 DEF Unedited, IsItsRow
<1>4. Reflects(r, c)' BY <1>1 DEF Unedited, Reflects
<1> QED BY <1>3, <1>4 DEF HasRow, Unedited

\* and so do the promises of a user who does nothing else.
LEMMA PatientStays ==
  ASSUME Types, PatientUser, Unedited, Busy' = Busy,
         Listed' \subseteq Listed, Listed \subseteq Children,
         user' = user, faults' = faults
  PROVE  PatientUser'
<1> SUFFICES ASSUME user # "hasty", faults = 0 PROVE PatientUser' BY DEF PatientUser
<1>1. \A n \in Busy : n.kind \in {"add", "update"} => n.child \in Children
  BY Kinds DEF Types, Adds, Updates
<1>2. (\A n \in Busy : n.kind \in {"add", "update"} => n.value = child[n.child].value)'
  BY <1>1 DEF PatientUser, Unedited
<1>3. (\A m, n \in Busy : m.kind \in Loading => n.kind \in Loading)'
  BY DEF PatientUser, Loading
<1>4. (\A n \in Busy : n.kind = "answer" =>
         \A k \in DOMAIN n.items : n.items[k].value = rows[n.items[k].row].value)'
  BY DEF PatientUser, Unedited
<1>5. ASSUME user = "clean", ParentRequest \notin Busy, NEW c \in Listed'
      PROVE  HasRow(c)' \/ IsSent(c)'
  <2>1. c \in Children /\ (HasRow(c) \/ IsSent(c)) BY <1>5 DEF PatientUser
  <2>2. CASE HasRow(c) BY <2>1, <2>2, RowsStay
  <2>3. CASE IsSent(c) BY <2>1, <2>3 DEF IsSent, Stores, Unedited
  <2> QED BY <2>1, <2>2, <2>3
<1>6. ParentRequest' = ParentRequest BY DEF ParentRequest
<1> QED BY <1>2, <1>3, <1>4, <1>5, <1>6 DEF PatientUser

\* A user who does not wait is hasty from then on.
LEMMA Hasty ==
  ASSUME user' = "hasty" \/ faults' # 0 PROVE PatientUser'
BY DEF PatientUser

\* What is listed was made.
LEMMA ListedObjects ==
  ASSUME Types PROVE Listed \subseteq Children
<1>1. ASSUME NEW i \in Inputs PROVE Range(input[i].items) \subseteq Children
  <2>1. input[i].items \in Seq(Children) BY <1>1, Elements
  <2>2. \A k \in DOMAIN input[i].items : input[i].items[k] \in Children BY <2>1
  <2> QED BY <2>2 DEF Range
<1> QED BY <1>1 DEF Listed
-----------------------------------------------------------------------------
(* The steps of the user *)

\* Nothing but a dialog and the request for its first page is new.
LEMMA OpenKeeps ==
  ASSUME ChildInvariant, OpenDialog PROVE ChildInvariant'
<1>q. PICK q : q = PageRequest(Len(input) + 1, 0) OBVIOUS
<1>0. /\ Types /\ ListsAreDisjoint /\ LabelsListen /\ OncePerSave /\ PatientUser
      /\ input' = Append(input, NewInput) /\ call' = call (+) SetToBag({q})
      /\ UNCHANGED <<parent, rows, child, closed, saves, faults>> /\ Patient(user)
  BY <1>q DEF ChildInvariant, OpenDialog
<1>1. /\ IsABag(call') /\ Busy' = Busy \cup {q}
      /\ \A n \in Busy : n # q => call'[n] = call[n]
  <2>1. IsABag(call) BY <1>0 DEF Types
  <2> QED BY <1>0, <2>1, Added DEF Busy
<1>2. NewInput \in Dialogs BY DEF NewInput, Dialogs
<1>3. /\ input' \in Seq(Dialogs) /\ Len(input') = Len(input) + 1
      /\ Inputs' = 1 .. Len(input) + 1 /\ Len(input) \in Nat /\ Inputs = 1 .. Len(input)
      /\ \A i \in Inputs : input'[i] = input[i]
      /\ input'[Len(input) + 1] = NewInput
  BY <1>0, <1>2, Lengths DEF Types, Inputs
<1>4. NothingIsLost /\ Children' = Children /\ DOMAIN rows' = DOMAIN rows
  BY <1>0, <1>3, Lengths DEF NothingIsLost, Types, Children
<1>5. Types'
  <2>1. /\ rows \in Seq(StoredRows') /\ child \in Seq(Objects') /\ input \in Seq(Dialogs')
        /\ \A n : IsMessage(n) => IsMessage(n)'
    BY <1>0, <1>3, <1>4, TypesStay, Lengths DEF Types
  <2>2. IsMessage(q)'
    <3>1. q \in Pages' BY <1>q, <1>0, <1>3, Lengths DEF Pages, PageRequest
    <3>2. q.kind = "page" BY <1>q DEF PageRequest
    <3> QED BY <3>1, <3>2 DEF IsMessage
  <2>3. Dialogs' = Dialogs BY <1>4 DEF Dialogs
  <2>4. \A n \in Busy' : IsMessage(n)' BY <1>0, <1>1, <2>1, <2>2 DEF Types
  <2> QED BY <1>0, <1>1, <1>3, <2>1, <2>3, <2>4 DEF Types
<1>6. ListsAreDisjoint'
  <2>1. NewInput.items = <<>> /\ NewInput.editing = 0 BY DEF NewInput
  <2>2. Range(NewInput.items) = {} /\ IsInjective(NewInput.items)
    BY <2>1 DEF Range, IsInjective
  <2>3. ASSUME NEW i \in Inputs'
        PROVE  /\ IsInjective(input'[i].items)
               /\ input'[i].editing \in {0} \cup Range(input'[i].items)
    <3>1. CASE i = Len(input) + 1 BY <1>3, <2>1, <2>2, <3>1
    <3>2. CASE i \in Inputs BY <1>0, <1>3, <3>2 DEF ListsAreDisjoint
    <3> QED BY <1>3, <3>1, <3>2
  <2>4. ASSUME NEW i \in Inputs', NEW j \in Inputs', i # j
        PROVE  Range(input'[i].items) \cap Range(input'[j].items) = {}
    <3>1. CASE i = Len(input) + 1 \/ j = Len(input) + 1 BY <1>3, <2>2, <3>1
    <3>2. CASE i \in Inputs /\ j \in Inputs BY <1>0, <1>3, <2>4, <3>2 DEF ListsAreDisjoint
    <3> QED BY <1>3, <3>1, <3>2
  <2> QED BY <2>3, <2>4 DEF ListsAreDisjoint
<1>7. LabelsListen' BY <1>0, <1>4 DEF LabelsListen
<1>8. OncePerSave'
  <2>1. \A n \in Creations' : n \in Creations /\ call'[n] = call[n]
    BY <1>q, <1>1 DEF Creations, PageRequest
  <2> QED BY <1>0, <1>4, <2>1, OnceStays
<1>9. PatientUser'
  <2>1. CASE user' = "hasty" BY <2>1, Hasty
  <2>2. CASE user' # "hasty"
    <3>1. Busy = {} /\ user' = user BY <1>0, <2>2 DEF Patient
    <3>2. Busy' = {q} /\ q.kind = "page" BY <1>q, <1>1, <3>1 DEF PageRequest
    <3>3. Unedited BY <1>0, <1>4 DEF Unedited
    <3>4. Listed' = Listed
      <4>1. Range(input'[Len(input) + 1].items) = {} BY <1>3 DEF NewInput, Range
      <4> QED BY <1>3, <4>1 DEF Listed
    <3>5. ASSUME user = "clean", faults = 0, NEW c \in Listed PROVE HasRow(c)'
      <4>1. c \in Children BY <1>0, ListedObjects
      <4>2. HasRow(c) BY <1>0, <2>2, <3>1, <3>5 DEF PatientUser, IsSent
      <4> QED BY <1>0, <3>3, <4>1, <4>2, RowsStay
    <3> QED BY <1>0, <3>1, <3>2, <3>4, <3>5 DEF PatientUser, Loading
  <2> QED BY <2>1, <2>2
<1> QED BY <1>5, <1>6, <1>7, <1>8, <1>9 DEF ChildInvariant

\* A step on one dialog and its child that leaves lists, values and rows as they are.
EditorStep(i, dialog, c, object) ==
  /\ i \in Inputs /\ dialog \in Dialogs /\ dialog.items = input[i].items
  /\ dialog.editing \in {0} \cup Range(dialog.items)
  /\ input' = [input EXCEPT ![i] = dialog]
  /\ \/ child' = child
     \/ c \in Children /\ object \in Objects /\ child' = [child EXCEPT ![c] = object]
        /\ object.row = child[c].row
  /\ UNCHANGED <<parent, rows, call, saves, faults>> /\ closed \subseteq closed'

\* It keeps whatever is not about values and labels.
LEMMA EditorStepKeeps ==
  ASSUME ChildInvariant, NEW i, NEW dialog, NEW c, NEW object, EditorStep(i, dialog, c, object)
  PROVE  /\ Types' /\ ListsAreDisjoint' /\ OncePerSave'
         /\ Listed' = Listed /\ Busy' = Busy /\ Children' = Children
<1>0. Types /\ ListsAreDisjoint /\ OncePerSave BY DEF ChildInvariant
<1>1. /\ input' \in Seq(Dialogs) /\ Len(input') = Len(input) /\ Inputs' = Inputs
      /\ \A j \in Inputs : input'[j] = IF j = i THEN dialog ELSE input[j]
  BY <1>0, Lengths, ExceptSeq DEF Types, EditorStep, Inputs
<1>2. /\ child' \in Seq(Objects) /\ Len(child') = Len(child) /\ Children' = Children
      /\ \A d \in Children : child'[d] \in {child[d], object}
  <2>1. child \in Seq(Objects) /\ Children = 1 .. Len(child) BY <1>0, Lengths DEF Types
  <2>2. CASE child' = child
    <3>1. Children' = Children BY <2>2 DEF Children
    <3> QED BY <2>1, <2>2, <3>1
  <2>3. CASE c \in Children /\ object \in Objects /\ child' = [child EXCEPT ![c] = object]
    <3>1. child' \in Seq(Objects) /\ Len(child') = Len(child)
      BY <2>1, <2>3, ExceptSeq
    <3>2. Children' = Children BY <2>3 DEF Children
    <3>3. \A d \in Children : child'[d] = IF d = c THEN object ELSE child[d]
      BY <2>3 DEF Children
    <3> QED BY <3>1, <3>2, <3>3
  <2> QED BY <2>2, <2>3 DEF EditorStep
<1>3. NothingIsLost /\ DOMAIN rows' = DOMAIN rows /\ Busy' = Busy
  <2>1. \A d \in Children : child'[d].row = child[d].row
    <3>1. CASE child' = child BY <3>1
    <3>2. CASE child' = [child EXCEPT ![c] = object] /\ object.row = child[c].row
      BY <3>2 DEF Children
    <3> QED BY <3>1, <3>2 DEF EditorStep
  <2>2. rows' = rows /\ call' = call /\ saves' = saves BY DEF EditorStep
  <2>3. Len(input) \in Nat /\ Len(child) \in Nat /\ Len(rows) \in Nat /\ saves \in Nat
    BY <1>0, Lengths DEF Types
  <2> QED BY <1>1, <1>2, <2>1, <2>2, <2>3 DEF NothingIsLost, Busy
<1>4. Types'
  <2>1. /\ rows \in Seq(StoredRows') /\ \A n : IsMessage(n) => IsMessage(n)'
    BY <1>0, <1>1, <1>2, <1>3, TypesStay, Lengths DEF EditorStep, Types
  <2>2. Dialogs' = Dialogs /\ Objects' = Objects
    BY <1>2 DEF Dialogs, Objects, EditorStep
  <2> QED BY <1>0, <1>1, <1>2, <1>3, <2>1, <2>2 DEF Types, EditorStep
<1>5. \A j \in Inputs : input'[j].items = input[j].items
  BY <1>1 DEF EditorStep
<1>6. \A j \in Inputs : input'[j].editing \in {0} \cup Range(input[j].items)
  BY <1>0, <1>1 DEF EditorStep, ListsAreDisjoint
<1>7. ListsAreDisjoint' BY <1>0, <1>1, <1>5, <1>6 DEF ListsAreDisjoint
<1>8. Listed' = Listed BY <1>1, <1>5 DEF Listed
<1>9. OncePerSave'
  <2>1. \A n \in Creations' : n \in Creations /\ call'[n] = call[n]
    BY <1>3 DEF Creations, EditorStep
  <2> QED BY <1>0, <1>3, <2>1, OnceStays DEF EditorStep
<1> QED BY <1>2, <1>3, <1>4, <1>7, <1>8, <1>9

\* What is in a list was made.
LEMMA ListedIn ==
  ASSUME Types, NEW i \in Inputs, NEW c \in Range(input[i].items)
  PROVE  c \in Children /\ c \in Nat \ {0} /\ child[c] \in Objects /\ input[i] \in Dialogs
<1>1. c \in Listed BY DEF Listed
<1> QED BY <1>1, ListedObjects, Lengths, Elements

\* A closed dialog keeps its list.
LEMMA CloseKeeps ==
  ASSUME ChildInvariant, NEW i \in Inputs, CloseDialog(i) PROVE ChildInvariant'
<1>0. Types /\ ListsAreDisjoint /\ LabelsListen /\ OncePerSave /\ PatientUser
  BY DEF ChildInvariant
<1> PICK dialog : dialog = [input[i] EXCEPT !.open = FALSE] OBVIOUS
<1>1. /\ dialog \in Dialogs /\ dialog.items = input[i].items
      /\ dialog.editing = input[i].editing
  BY <1>0, Elements DEF Dialogs
<1>2. EditorStep(i, dialog, 0, 0)
  BY <1>0, <1>1 DEF EditorStep, CloseDialog, ListsAreDisjoint, counts
<1>3. /\ Types' /\ ListsAreDisjoint' /\ OncePerSave'
      /\ Listed' = Listed /\ Busy' = Busy /\ Children' = Children
  BY <1>2, EditorStepKeeps
<1>4. child' = child /\ closed' = closed /\ rows' = rows /\ user' = user /\ faults' = faults
  BY DEF CloseDialog, counts
<1>5. LabelsListen' BY <1>0, <1>3, <1>4 DEF LabelsListen
<1>6. Unedited BY <1>3, <1>4 DEF Unedited
<1>7. PatientUser' BY <1>0, <1>3, <1>4, <1>6, PatientStays, ListedObjects
<1> QED BY <1>3, <1>5, <1>7 DEF ChildInvariant

\* The editor of a listed child adds two listeners.
LEMMA EditKeeps ==
  ASSUME ChildInvariant, NEW i \in Inputs, NEW c \in Range(input[i].items), EditEntry(i, c)
  PROVE  ChildInvariant'
<1>0. Types /\ ListsAreDisjoint /\ LabelsListen /\ OncePerSave /\ PatientUser
  BY DEF ChildInvariant
<1>1. c \in Children /\ c \in Nat \ {0} /\ child[c] \in Objects /\ input[i] \in Dialogs
  BY <1>0, ListedIn
<1> PICK dialog : dialog = [input[i] EXCEPT !.editing = c] OBVIOUS
<1> PICK object : object = [child[c] EXCEPT !.on = Bind(c)] OBVIOUS
<1>2. dialog \in Dialogs /\ dialog.items = input[i].items /\ dialog.editing = c
  BY <1>1 DEF Dialogs
<1>3. Bind(c) \in Listeners /\ (Hears(child[c].on, "label") => Hears(Bind(c), "label"))
  <2>1. child[c].on \in Seq({"label", "input"}) BY <1>1 DEF Objects, Listeners
  <2> QED BY <2>1 DEF Bind, AddListener, Listeners, Hears
<1>4. /\ object \in Objects /\ object.row = child[c].row /\ object.value = child[c].value
      /\ object.label = child[c].label /\ object.on = Bind(c)
  BY <1>1, <1>3 DEF Objects
<1>5. EditorStep(i, dialog, c, object)
  BY <1>1, <1>2, <1>4 DEF EditorStep, EditEntry
<1>6. /\ Types' /\ ListsAreDisjoint' /\ OncePerSave'
      /\ Listed' = Listed /\ Busy' = Busy /\ Children' = Children
  BY <1>5, EditorStepKeeps
<1>7. /\ closed' = closed /\ rows' = rows /\ user' = user /\ faults' = faults
      /\ child' = [child EXCEPT ![c] = object]
  BY DEF EditEntry
<1>8. \A d \in Children : child'[d] = IF d = c THEN object ELSE child[d]
  BY <1>1, <1>7, Lengths, <1>0 DEF Children
<1>9. LabelsListen' BY <1>0, <1>3, <1>4, <1>6, <1>7, <1>8 DEF LabelsListen
<1>10. Unedited BY <1>4, <1>6, <1>7, <1>8 DEF Unedited
<1>11. PatientUser' BY <1>0, <1>6, <1>7, <1>10, PatientStays, ListedObjects
<1> QED BY <1>6, <1>9, <1>11 DEF ChildInvariant

\* "back" cuts listeners out of a child that counts as closed from then on.
LEMMA EditedKeeps ==
  ASSUME ChildInvariant, NEW i \in Inputs, EntryEdited(i) PROVE ChildInvariant'
<1>0. Types /\ ListsAreDisjoint /\ LabelsListen /\ OncePerSave /\ PatientUser
  BY DEF ChildInvariant
<1> PICK c : c = input[i].editing OBVIOUS
<1>1. c \in Range(input[i].items) BY <1>0 DEF ListsAreDisjoint, EntryEdited
<1>2. c \in Children /\ child[c] \in Objects /\ input[i] \in Dialogs
  BY <1>0, <1>1, ListedIn
<1> DEFINE Once(on) == RemoveListener(RemoveListener(on, "input"), "input")
<1> PICK dialog : dialog = [input[i] EXCEPT !.editing = 0] OBVIOUS
<1> PICK object : object = [child[c] EXCEPT !.on = Once(Once(child[c].on))] OBVIOUS
<1>3. dialog \in Dialogs /\ dialog.items = input[i].items /\ dialog.editing = 0
  BY <1>2 DEF Dialogs
<1>4. Once(Once(child[c].on)) \in Listeners
  <2>1. child[c].on \in Listeners BY <1>2 DEF Objects
  <2>2. \A on \in Listeners : RemoveListener(on, "input") \in Listeners
    BY CutListeners DEF Listeners
  <2> QED BY <2>1, <2>2
<1>5. /\ object \in Objects /\ object.row = child[c].row /\ object.value = child[c].value
  BY <1>2, <1>4 DEF Objects
<1>6. /\ closed' = closed \cup {c} /\ rows' = rows /\ user' = user /\ faults' = faults
      /\ child' = [child EXCEPT ![c] = object] /\ input' = [input EXCEPT ![i] = dialog]
      /\ UNCHANGED <<parent, call, saves>>
  BY DEF EntryEdited, counts
<1>7. EditorStep(i, dialog, c, object)
  BY <1>2, <1>3, <1>5, <1>6 DEF EditorStep
<1>8. /\ Types' /\ ListsAreDisjoint' /\ OncePerSave'
      /\ Listed' = Listed /\ Busy' = Busy /\ Children' = Children
  BY <1>7, EditorStepKeeps
<1>9. \A d \in Children : child'[d] = IF d = c THEN object ELSE child[d]
  BY <1>2, <1>6, Lengths, <1>0 DEF Children
<1>10. LabelsListen' BY <1>0, <1>6, <1>8, <1>9 DEF LabelsListen
<1>11. Unedited BY <1>5, <1>6, <1>8, <1>9 DEF Unedited
<1>12. PatientUser' BY <1>0, <1>6, <1>8, <1>11, PatientStays, ListedObjects
<1> QED BY <1>8, <1>10, <1>12 DEF ChildInvariant

\* Typing edits a child that nothing was asked about, or makes the user a hasty one.
LEMMA TypeKeeps ==
  ASSUME ChildInvariant, NEW i \in Inputs, NEW v \in Values, Type(i, v) PROVE ChildInvariant'
<1>0. Types /\ ListsAreDisjoint /\ LabelsListen /\ OncePerSave /\ PatientUser
  BY DEF ChildInvariant
<1> PICK c : c = input[i].editing OBVIOUS
<1>1. c \in Range(input[i].items) BY <1>0 DEF ListsAreDisjoint, Type
<1>2. c \in Children /\ child[c] \in Objects /\ input[i] \in Dialogs
  BY <1>0, <1>1, ListedIn
<1> PICK label : label = IF Hears(child[c].on, "label") THEN v ELSE child[c].label OBVIOUS
<1> PICK object : object = [child[c] EXCEPT !.value = v, !.label = label] OBVIOUS
<1>3. /\ object \in Objects /\ object.row = child[c].row /\ object.value = v
      /\ object.label = label /\ object.on = child[c].on
  BY <1>2 DEF Objects
<1>4. /\ closed' = closed /\ rows' = rows /\ faults' = faults
      /\ child' = [child EXCEPT ![c] = object] /\ input' = [input EXCEPT ![i] = input[i]]
      /\ UNCHANGED <<parent, call, saves>> /\ Patient("dirty")
  <2>1. input \in [1 .. Len(input) -> Dialogs] BY <1>0, LenProperties DEF Types
  <2>2. input = [input EXCEPT ![i] = input[i]] BY <2>1
  <2>3. input' = [input EXCEPT ![i] = input[i]] BY <2>2, Zenon DEF Type
  <2> QED BY <2>3 DEF Type
<1>5. EditorStep(i, input[i], c, object)
  BY <1>0, <1>2, <1>3, <1>4 DEF EditorStep, ListsAreDisjoint
<1>6. /\ Types' /\ ListsAreDisjoint' /\ OncePerSave'
      /\ Listed' = Listed /\ Busy' = Busy /\ Children' = Children
  BY <1>5, EditorStepKeeps
<1>7. \A d \in Children : child'[d] = IF d = c THEN object ELSE child[d]
  BY <1>2, <1>4 DEF Children
<1>8. LabelsListen' BY <1>0, <1>3, <1>4, <1>6, <1>7 DEF LabelsListen
<1>9. PatientUser'
  <2>1. CASE user' = "hasty" BY <2>1, Hasty
  <2>2. CASE user' = "dirty" /\ Busy' = {} BY <2>2 DEF PatientUser
  <2> QED BY <1>4, <1>6, <2>1, <2>2 DEF Patient
<1> QED BY <1>6, <1>8, <1>9 DEF ChildInvariant

\* A removed entry leaves its place, and nothing else.
LEMMA RemoveKeeps ==
  ASSUME ChildInvariant, NEW i \in Inputs, NEW index \in DOMAIN input[i].items,
         RemoveEntry(i, index)
  PROVE  ChildInvariant'
<1>0. Types /\ ListsAreDisjoint /\ LabelsListen /\ OncePerSave /\ PatientUser
  BY DEF ChildInvariant
<1>1. input[i] \in Dialogs /\ input[i].items \in Seq(Children) /\ input[i].editing = 0
  BY <1>0, Elements DEF RemoveEntry
<1> PICK dialog : dialog = [input[i] EXCEPT !.items = RemoveAt(input[i].items, index)] OBVIOUS
<1>2. /\ dialog.items \in Seq(Children) /\ Range(dialog.items) \subseteq Range(input[i].items)
      /\ IsInjective(input[i].items) => IsInjective(dialog.items)
  <2>1. dialog.items = RemoveAt(input[i].items, index) BY <1>1 DEF Dialogs
  <2> QED BY <1>1, <2>1, WithoutOne
<1>3. dialog \in Dialogs /\ dialog.editing = 0 BY <1>1, <1>2 DEF Dialogs
<1>4. /\ input' = [input EXCEPT ![i] = dialog]
      /\ UNCHANGED <<parent, rows, child, call, closed, saves, faults>> /\ Patient(user)
  BY DEF RemoveEntry
<1>5. /\ input' \in Seq(Dialogs) /\ Len(input') = Len(input) /\ Inputs' = Inputs
      /\ \A j \in Inputs : input'[j] = IF j = i THEN dialog ELSE input[j]
  BY <1>0, <1>3, <1>4, Lengths, ExceptSeq DEF Types, Inputs
<1>6. NothingIsLost /\ Children' = Children /\ DOMAIN rows' = DOMAIN rows /\ Busy' = Busy
  BY <1>0, <1>4, <1>5, Lengths DEF NothingIsLost, Types, Children, Busy
<1>7. Types'
  <2>1. /\ rows \in Seq(StoredRows') /\ child \in Seq(Objects')
        /\ \A n : IsMessage(n) => IsMessage(n)'
    BY <1>0, <1>4, <1>5, <1>6, TypesStay, Lengths DEF Types
  <2>2. Dialogs' = Dialogs BY <1>6 DEF Dialogs
  <2> QED BY <1>0, <1>4, <1>5, <1>6, <2>1, <2>2 DEF Types
<1>8. ListsAreDisjoint'
  BY <1>0, <1>2, <1>3, <1>5 DEF ListsAreDisjoint
<1>9. LabelsListen' BY <1>0, <1>4, <1>6 DEF LabelsListen
<1>10. OncePerSave'
  <2>1. \A n \in Creations' : n \in Creations /\ call'[n] = call[n]
    BY <1>4, <1>6 DEF Creations
  <2> QED BY <1>0, <1>4, <1>6, <2>1, OnceStays
<1>11. PatientUser'
  <2>1. CASE user' = "hasty" BY <2>1, Hasty
  <2>2. CASE user' = user
    <3>1. Unedited BY <1>4, <1>6 DEF Unedited
    <3>2. Listed' \subseteq Listed BY <1>2, <1>5 DEF Listed
    <3> QED BY <1>0, <1>4, <1>6, <2>2, <3>1, <3>2, PatientStays, ListedObjects
  <2> QED BY <1>4, <2>1, <2>2 DEF Patient
<1> QED BY <1>7, <1>8, <1>9, <1>10, <1>11 DEF ChildInvariant

\* A new entry is in the list it was added to only.
LEMMA AddKeeps ==
  ASSUME ChildInvariant, NEW i \in Inputs, AddNewEntry(i) PROVE ChildInvariant'
<1>0. Types /\ ListsAreDisjoint /\ LabelsListen /\ OncePerSave /\ PatientUser
  BY DEF ChildInvariant
<1> PICK entry : entry = Entry(Initially, 0) OBVIOUS
<1> PICK n \in Nat : n = Len(child) + 1 BY <1>0, Lengths
<1>1. /\ entry \in Objects /\ entry.row = 0
      /\ entry.label = entry.value /\ Hears(entry.on, "label")
  BY <1>0, NewEntry, PageAssumption, Lengths DEF PageAssumption, Objects
<1>2. /\ child' \in Seq(Objects) /\ Len(child') = n /\ Children' = 1 .. n
      /\ Children = 1 .. Len(child) /\ child'[n] = entry
      /\ \A c \in Children : child'[c] = child[c]
  BY <1>0, <1>1, Lengths, AppendProperties DEF AddNewEntry, Types, Children
<1>3. input[i] \in Dialogs /\ input[i].items \in Seq(Children) /\ input[i].editing = 0
  BY <1>0, Elements DEF AddNewEntry
<1> PICK items : items = Append(input[i].items, n) OBVIOUS
<1>4. /\ items \in Seq(Children') /\ Range(items) = Range(input[i].items) \cup {n}
      /\ IsInjective(input[i].items) => IsInjective(items)
  <2>1. input[i].items \in Seq(1 .. Len(child)) BY <1>2, <1>3
  <2>2. Len(child) \in Nat /\ n \in 1 .. n BY <1>0, Lengths
  <2> DEFINE s == input[i].items
  <2> HIDE DEF s
  <2>3. /\ Len(items) = Len(s) + 1 /\ Len(s) \in Nat /\ DOMAIN s = 1 .. Len(s)
        /\ DOMAIN items = 1 .. Len(s) + 1
        /\ items[Len(s) + 1] = n /\ \A k \in 1 .. Len(s) : items[k] = s[k] /\ s[k] < n
    BY <2>1, <2>2 DEF s
  <2>4. items \in Seq(1 .. n) BY <2>1, <2>2
  <2>5. Range(items) = Range(s) \cup {n} BY <2>3 DEF Range
  <2>6. IsInjective(s) => IsInjective(items) BY <2>2, <2>3 DEF IsInjective
  <2> QED BY <1>2, <2>4, <2>5, <2>6 DEF s
<1> PICK dialog : dialog = [input[i] EXCEPT !.items = items] OBVIOUS
<1>5. dialog \in Dialogs' /\ dialog.items = items /\ dialog.editing = 0
  BY <1>3, <1>4 DEF Dialogs
<1>6. /\ input' = [input EXCEPT ![i] = dialog]
      /\ UNCHANGED <<parent, rows, call, closed, saves, faults>> /\ Patient("dirty")
  BY <1>2 DEF AddNewEntry
<1>7. /\ Len(input') = Len(input) /\ Inputs' = Inputs /\ Busy' = Busy
      /\ \A j \in Inputs : input'[j] = IF j = i THEN dialog ELSE input[j]
  BY <1>0, <1>6, Lengths DEF Types, Inputs, Busy
<1>8. NothingIsLost /\ DOMAIN rows' = DOMAIN rows
  BY <1>0, <1>2, <1>6, <1>7, Lengths DEF NothingIsLost, Types
<1>9. Types'
  <2>1. /\ rows \in Seq(StoredRows') /\ input \in Seq(Dialogs')
        /\ \A m : IsMessage(m) => IsMessage(m)'
    BY <1>0, <1>2, <1>6, <1>7, <1>8, TypesStay, Lengths DEF Types
  <2>2. Objects' = Objects BY <1>6 DEF Objects
  <2>3. input' \in Seq(Dialogs')
    BY <1>0, <1>5, <1>6, <2>1, ExceptSeq, Lengths
  <2> QED BY <1>0, <1>2, <1>6, <1>7, <2>1, <2>2, <2>3 DEF Types
<1>10. \A j \in Inputs : n \notin Range(input[j].items)
  BY <1>0, <1>2, ListedIn, Lengths
<1>11. ListsAreDisjoint'
  <2>1. \A j \in Inputs : /\ IsInjective(input'[j].items)
                          /\ input'[j].editing \in {0} \cup Range(input'[j].items)
    BY <1>0, <1>4, <1>5, <1>7 DEF ListsAreDisjoint
  <2>2. ASSUME NEW j \in Inputs, NEW k \in Inputs, j # k
        PROVE  Range(input'[j].items) \cap Range(input'[k].items) = {}
    <3>1. Range(input[j].items) \cap Range(input[k].items) = {}
      BY <1>0, <2>2 DEF ListsAreDisjoint
    <3>2. \A l \in {j, k} : Range(input'[l].items) =
            IF l = i THEN Range(input[l].items) \cup {n} ELSE Range(input[l].items)
      BY <1>4, <1>5, <1>7
    <3> QED BY <1>10, <2>2, <3>1, <3>2
  <2> QED BY <1>7, <2>1, <2>2 DEF ListsAreDisjoint
<1>12. LabelsListen'
  BY <1>0, <1>1, <1>2, <1>6, Lengths DEF LabelsListen
<1>13. OncePerSave'
  <2>1. \A m \in Creations' : m \in Creations /\ call'[m] = call[m]
    BY <1>6, <1>7 DEF Creations
  <2> QED BY <1>0, <1>6, <1>8, <2>1, OnceStays
<1>14. PatientUser'
  <2>1. CASE user' = "hasty" BY <2>1, Hasty
  <2>2. CASE user' = "dirty" /\ Busy' = {} BY <2>2 DEF PatientUser
  <2> QED BY <1>6, <1>7, <2>1, <2>2 DEF Patient
<1> QED BY <1>9, <1>11, <1>12, <1>13, <1>14 DEF ChildInvariant

\* Only the request to save the parent is new.
LEMMA SubmitKeeps ==
  ASSUME ChildInvariant, NEW i \in Inputs, Submit(i) PROVE ChildInvariant'
<1>0. /\ Types /\ ListsAreDisjoint /\ LabelsListen /\ OncePerSave /\ PatientUser
      /\ call' = call (+) SetToBag({ParentRequest}) /\ Patient("clean")
      /\ UNCHANGED <<parent, child, input, closed, rows, saves, faults>>
  BY DEF ChildInvariant, Submit, browser
<1>1. /\ IsABag(call') /\ Busy' = Busy \cup {ParentRequest}
      /\ \A n \in Busy : n # ParentRequest => call'[n] = call[n]
  <2>1. IsABag(call) BY <1>0 DEF Types
  <2> QED BY <1>0, <2>1, Added DEF Busy
<1>2. /\ NothingIsLost /\ Children' = Children /\ Inputs' = Inputs /\ Listed' = Listed
      /\ DOMAIN rows' = DOMAIN rows
  BY <1>0, Lengths DEF NothingIsLost, Children, Inputs, Listed, Types
<1>3. Types'
  <2>1. /\ rows \in Seq(StoredRows') /\ child \in Seq(Objects') /\ input \in Seq(Dialogs')
        /\ \A n : IsMessage(n) => IsMessage(n)'
    BY <1>0, <1>2, TypesStay, Lengths DEF Types
  <2>2. IsMessage(ParentRequest) BY DEF IsMessage, ParentRequest
  <2>3. \A n \in Busy' : IsMessage(n)' BY <1>0, <1>1, <2>1, <2>2 DEF Types
  <2> QED BY <1>0, <1>1, <2>1, <2>3 DEF Types
<1>4. ListsAreDisjoint' BY <1>0, <1>2 DEF ListsAreDisjoint
<1>5. LabelsListen' BY <1>0, <1>2 DEF LabelsListen
<1>6. OncePerSave'
  <2>1. \A n \in Creations' : n \in Creations /\ call'[n] = call[n]
    BY <1>1 DEF Creations, ParentRequest
  <2> QED BY <1>0, <1>2, <2>1, OnceStays
<1>7. PatientUser'
  <2>1. CASE user' = "hasty" BY <2>1, Hasty
  <2>2. CASE Busy = {}
    BY <1>1, <2>2 DEF PatientUser, Loading, ParentRequest
  <2> QED BY <1>0, <2>1, <2>2 DEF Patient
<1> QED BY <1>3, <1>4, <1>5, <1>6, <1>7 DEF ChildInvariant
-----------------------------------------------------------------------------
(* The steps of the server and the callbacks *)

\* A message is taken from the bag; the answer or the next request is put in.
LEMMA Replaced ==
  ASSUME IsABag(call), NEW n \in Busy, NEW S, call' = (call (-) SetToBag({n})) (+) SetToBag(S)
  PROVE  /\ IsABag(call') /\ S \subseteq Busy'
         /\ \A m \in Busy' \ S : m \in Busy /\ call'[m] \in Nat
         /\ \A m \in Busy \ {n} : m \in Busy' /\ (m \notin S => call'[m] = call[m])
         /\ call[n] = 1 => /\ n \notin S => n \notin Busy'
                           /\ \A m \in S : m \notin Busy => call'[m] = 1
<1> DEFINE b == call (-) SetToBag({n})
<1>1. /\ IsABag(b) /\ BagToSet(b) \subseteq Busy
      /\ \A m \in Busy : m # n => m \in BagToSet(b) /\ b[m] = call[m]
      /\ call[n] = 1 => n \notin BagToSet(b)
  BY Removed DEF Busy
<1> HIDE DEF b
<1>2. /\ IsABag(call') /\ Busy' = BagToSet(b) \cup S
      /\ \A m \in S : m \notin BagToSet(b) => call'[m] = 1
      /\ \A m \in BagToSet(b) : m \notin S => call'[m] = b[m]
  <2>1. call' = b (+) SetToBag(S) BY DEF b
  <2> PICK d : d = b (+) SetToBag(S) OBVIOUS
  <2>2. /\ IsABag(d) /\ BagToSet(d) = BagToSet(b) \cup S
        /\ \A m \in S : m \notin BagToSet(b) => d[m] = 1
        /\ \A m \in BagToSet(b) : m \notin S => d[m] = b[m]
    BY <1>1, Added
  <2> QED BY <2>1, <2>2 DEF Busy
<1>3. \A m \in BagToSet(b) : b[m] \in Nat BY <1>1 DEF IsABag, BagToSet
<1> QED BY <1>1, <1>2, <1>3

\* A message is taken from the bag.
LEMMA Taken ==
  ASSUME IsABag(call), NEW n \in Busy, call' = call (-) SetToBag({n})
  PROVE  /\ IsABag(call') /\ Busy' \subseteq Busy
         /\ \A m \in Busy \ {n} : m \in Busy' /\ call'[m] = call[m]
         /\ call[n] = 1 => n \notin Busy'
BY Removed DEF Busy

\* Creations that are still asked for are asked for as often as before.
LEMMA CreationsLeft ==
  ASSUME OncePerSave, NEW n \in Busy,
         \A m \in Busy' : m.kind \in {"list", "add"} => m \in Busy,
         \A m \in Busy \ {n} : call'[m] = call[m], call[n] = 1 => n \notin Busy'
  PROVE  \A m \in Creations' : m \in Creations /\ call'[m] = call[m]
BY DEF OncePerSave, Creations

\* A refused request is one thing less to come.
LEMMA RefuseKeeps ==
  ASSUME ChildInvariant, NEW n \in Busy, Refuse(n) PROVE ChildInvariant'
<1>0. /\ Types /\ ListsAreDisjoint /\ LabelsListen /\ OncePerSave /\ PatientUser
      /\ call' = call (-) SetToBag({n}) /\ faults' = faults + 1
      /\ UNCHANGED <<parent, child, input, closed, rows, saves, user>>
  BY DEF ChildInvariant, Refuse, browser
<1>1. /\ IsABag(call') /\ Busy' \subseteq Busy
      /\ \A m \in Busy \ {n} : m \in Busy' /\ call'[m] = call[m]
      /\ call[n] = 1 => n \notin Busy'
  <2>1. IsABag(call) BY <1>0 DEF Types
  <2> QED BY <1>0, <2>1, Taken
<1>2. /\ NothingIsLost /\ Children' = Children /\ Inputs' = Inputs
      /\ DOMAIN rows' = DOMAIN rows
  BY <1>0, Lengths DEF NothingIsLost, Children, Inputs, Types
<1>3. Types'
  <2>1. /\ rows \in Seq(StoredRows') /\ child \in Seq(Objects') /\ input \in Seq(Dialogs')
        /\ \A m : IsMessage(m) => IsMessage(m)'
    BY <1>0, <1>2, TypesStay, Lengths DEF Types
  <2> QED BY <1>0, <1>1, <2>1 DEF Types
<1>4. ListsAreDisjoint' BY <1>0, <1>2 DEF ListsAreDisjoint
<1>5. LabelsListen' BY <1>0, <1>2 DEF LabelsListen
<1>6. OncePerSave'
  <2>1. \A m \in Creations' : m \in Creations /\ call'[m] = call[m]
    BY <1>0, <1>1, CreationsLeft
  <2> QED BY <1>0, <1>2, <2>1, OnceStays
<1>7. PatientUser'
  <2>1. faults' # 0 BY <1>0 DEF Types
  <2> QED BY <2>1, Hasty
<1> QED BY <1>3, <1>4, <1>5, <1>6, <1>7 DEF ChildInvariant

\* The answer has the rows of the page as they are.
LEMMA ServePageKeeps ==
  ASSUME ChildInvariant, NEW n \in Busy, ServePage(n) PROVE ChildInvariant'
<1>f. PICK first : first = n.offset + 1 OBVIOUS
<1>l. PICK last : last = Min({n.offset + PageSize, Len(rows)}) OBVIOUS
<1>i. PICK items : items = [k \in 1 .. last + 1 - first |->
                            Entry(rows[first + k - 1].value, first + k - 1)] OBVIOUS
<1>r. PICK a : a = [kind |-> "answer", input |-> n.input, next |-> last < Len(rows),
                  items |-> items] OBVIOUS
<1>0. /\ Types /\ ListsAreDisjoint /\ LabelsListen /\ OncePerSave /\ PatientUser
      /\ call' = (call (-) SetToBag({n})) (+) SetToBag({a}) /\ n.kind = "page"
      /\ UNCHANGED <<parent, child, input, closed, rows, saves, faults, user>>
  BY <1>f, <1>l, <1>i, <1>r DEF ChildInvariant, ServePage, browser, counts
<1>1. /\ IsABag(call') /\ a \in Busy'
      /\ \A m \in Busy' \ {a} : m \in Busy
      /\ \A m \in Busy \ {n} : m \in Busy' /\ (m # a => call'[m] = call[m])
      /\ call[n] = 1 => (n # a => n \notin Busy')
  <2>1. IsABag(call) BY <1>0 DEF Types
  <2>2. /\ IsABag(call') /\ {a} \subseteq Busy'
        /\ \A m \in Busy' \ {a} : m \in Busy /\ call'[m] \in Nat
        /\ \A m \in Busy \ {n} : m \in Busy' /\ (m \notin {a} => call'[m] = call[m])
        /\ call[n] = 1 => (n \notin {a} => n \notin Busy')
    BY <1>0, <2>1, Replaced
  <2> QED BY <2>2
<1>2. /\ NothingIsLost /\ Children' = Children /\ Inputs' = Inputs /\ Listed' = Listed
      /\ DOMAIN rows' = DOMAIN rows
  BY <1>0, Lengths DEF NothingIsLost, Children, Inputs, Listed, Types
<1>a. a.kind = "answer" /\ a.items = items /\ a.input = n.input /\ a.next = (last < Len(rows))
  BY <1>r
<1>3. n \in Pages /\ n.offset \in Nat /\ n.offset <= Len(rows) /\ Len(rows) \in Nat
  <2>1. n \in Pages BY <1>0, Kinds DEF Types
  <2> QED BY <1>0, <2>1, Lengths DEF Pages
<1>4. /\ last \in Nat /\ n.offset <= last /\ last <= Len(rows)
      /\ last < Len(rows) => last > n.offset
  <2>1. n.offset + PageSize \in Nat /\ PageSize \in Nat /\ PageSize > 0
    BY <1>3, PageAssumption DEF PageAssumption
  <2>x. PICK x : x = n.offset + PageSize OBVIOUS
  <2>2. x \in Nat /\ x > n.offset BY <1>3, <2>1, <2>x
  <2>4. last = Min({x, Len(rows)}) BY <1>l, <2>x, Zenon
  <2>3. last = IF x <= Len(rows) THEN x ELSE Len(rows) BY <1>3, <2>2, <2>4, Smaller
  <2> QED BY <1>3, <2>2, <2>3
<1>5. /\ items \in Seq(Loadable) /\ Len(items) = last - n.offset
      /\ \A k \in DOMAIN items : items[k].value = rows[items[k].row].value
  <2>1. ASSUME NEW k \in 1 .. last + 1 - first
        PROVE  /\ items[k] \in Loadable
               /\ items[k].row = first + k - 1 /\ items[k].value = rows[first + k - 1].value
    <3>1. first + k - 1 \in 1 .. Len(rows) BY <1>f, <1>3, <1>4
    <3>2. rows[first + k - 1].value \in Values
      BY <1>0, <3>1, Elements, Lengths DEF StoredRows
    <3>3. items[k] = Entry(rows[first + k - 1].value, first + k - 1) BY <1>i
    <3> QED BY <3>1, <3>2, <3>3, NewEntry DEF Loadable
  <2>2. last + 1 - first = last - n.offset /\ last - n.offset \in Nat BY <1>f, <1>3, <1>4
  <2>3. items \in [1 .. last + 1 - first -> Loadable] BY <1>i, <2>1
  <2>m. PICK m \in Nat : m = last - n.offset BY <2>2
  <2>4. items \in [1 .. m -> Loadable] BY <2>2, <2>3, <2>m
  <2>5. items \in Seq(Loadable) /\ Len(items) = m /\ DOMAIN items = 1 .. m BY <2>4
  <2>6. \A k \in 1 .. m : items[k].value = rows[items[k].row].value BY <2>1, <2>2, <2>m
  <2> QED BY <2>m, <2>5, <2>6
<1>6. a \in Answers /\ (a.next => a.items # <<>>)
  <2>0. last < Len(rows) => Len(items) > 0 BY <1>3, <1>4, <1>5
  <2>1. a.next => Len(items) > 0 BY <1>a, <2>0, Zenon
  <2>2. a.next => a.items # <<>> BY <1>a, <2>1
  <2>3. a.input \in Inputs /\ a.next \in BOOLEAN BY <1>a, <1>3 DEF Pages
  <2>4. a \in Answers BY <1>r, <1>5, <2>3, <1>a DEF Answers
  <2> QED BY <2>2, <2>4
<1>7. Types'
  <2>1. /\ rows \in Seq(StoredRows') /\ child \in Seq(Objects') /\ input \in Seq(Dialogs')
        /\ \A m : IsMessage(m) => IsMessage(m)'
    BY <1>0, <1>2, TypesStay, Lengths DEF Types
  <2>2. IsMessage(a) BY <1>6, <1>a DEF IsMessage
  <2>3. \A m \in Busy' : IsMessage(m)' BY <1>0, <1>1, <2>1, <2>2 DEF Types
  <2> QED BY <1>0, <1>1, <2>1, <2>3 DEF Types
<1>8. ListsAreDisjoint' BY <1>0, <1>2 DEF ListsAreDisjoint
<1>9. LabelsListen' BY <1>0, <1>2 DEF LabelsListen
<1>10. OncePerSave'
  <2>1. \A m \in Creations' : m \in Creations /\ call'[m] = call[m]
    BY <1>0, <1>1, <1>a DEF Creations
  <2> QED BY <1>0, <1>2, <2>1, OnceStays
<1>11. PatientUser'
  <2> SUFFICES ASSUME user # "hasty", faults = 0 PROVE PatientUser'
    BY <1>0 DEF PatientUser
  <2>1. (\A m \in Busy : m.kind \in {"add", "update"} => m.value = child[m.child].value)'
    BY <1>0, <1>1, <1>a DEF PatientUser
  <2>2. (\A m, l \in Busy : m.kind \in Loading => l.kind \in Loading)'
    <3>1. \A m \in Busy : m.kind \in Loading BY <1>0 DEF PatientUser, Loading
    <3> QED BY <1>1, <1>a, <3>1 DEF Loading
  <2>3. (\A m \in Busy : m.kind = "answer" =>
           \A k \in DOMAIN m.items : m.items[k].value = rows[m.items[k].row].value)'
    BY <1>0, <1>1, <1>5, <1>a DEF PatientUser
  <2>4. ASSUME user = "clean", NEW c \in Listed PROVE HasRow(c)'
    <3>1. ParentRequest \notin Busy /\ \A m \in Busy : m.kind \in Loading
      BY <1>0 DEF PatientUser, Loading, ParentRequest
    <3>2. HasRow(c) BY <1>0, <2>4, <3>1 DEF PatientUser, IsSent, Stores, Loading
    <3>3. Unedited BY <1>0, <1>2 DEF Unedited
    <3> QED BY <1>0, <3>2, <3>3, RowsStay, ListedObjects
  <2> QED BY <1>0, <1>2, <2>1, <2>2, <2>3, <2>4 DEF PatientUser
<1> QED BY <1>7, <1>8, <1>9, <1>10, <1>11 DEF ChildInvariant

\* Rows change their values only, and by one update: they keep their children.
LEMMA ServeUpdateKeeps ==
  ASSUME ChildInvariant, NEW n \in Busy, ServeUpdate(n) PROVE ChildInvariant'
<1>p. PICK u : u = child[n.child].row OBVIOUS
<1>0. /\ Types /\ ListsAreDisjoint /\ LabelsListen /\ OncePerSave /\ PatientUser
      /\ call' = call (-) SetToBag({n}) /\ n.kind = "update"
      /\ rows' = [rows EXCEPT ![u].value = n.value]
      /\ UNCHANGED <<parent, child, input, closed, saves, faults, user>>
  BY <1>p DEF ChildInvariant, ServeUpdate, browser, counts
<1>1. /\ IsABag(call') /\ Busy' \subseteq Busy
      /\ \A m \in Busy \ {n} : m \in Busy' /\ call'[m] = call[m]
      /\ call[n] = 1 => n \notin Busy'
  <2>1. IsABag(call) BY <1>0 DEF Types
  <2> QED BY <1>0, <2>1, Taken
<1>2. n.child \in Children /\ n.value \in Values /\ u \in DOMAIN rows
  <2>1. n \in Updates /\ child[n.child].row # 0 BY <1>0, Kinds DEF Types, IsMessage
  <2>2. child[n.child].row \in 0 .. Len(rows) BY <1>0, <2>1, Elements DEF Updates, Objects
  <2>3. child[n.child].row \in 1 .. Len(rows) BY <1>0, <2>1, <2>2, Lengths
  <2> QED BY <1>0, <1>p, <2>1, <2>3, Lengths DEF Updates
<1>3. /\ rows' \in Seq(StoredRows) /\ Len(rows') = Len(rows) /\ DOMAIN rows' = DOMAIN rows
      /\ \A r \in DOMAIN rows : /\ rows'[r].by = rows[r].by /\ rows'[r].save = rows[r].save
                                /\ rows'[r].value = IF r = u THEN n.value ELSE rows[r].value
  <2>s. PICK stored : stored = [rows[u] EXCEPT !.value = n.value] OBVIOUS
  <2>1. rows[u] \in StoredRows BY <1>0, <1>2, Elements
  <2>2. /\ stored \in StoredRows /\ stored.value = n.value
        /\ stored.by = rows[u].by /\ stored.save = rows[u].save
    BY <1>2, <2>s, <2>1 DEF StoredRows
  <2>3. rows' = [rows EXCEPT ![u] = stored] BY <1>0, <2>s
  <2>4. u \in 1 .. Len(rows) /\ rows \in Seq(StoredRows) /\ DOMAIN rows = 1 .. Len(rows)
    BY <1>0, <1>2, Lengths DEF Types
  <2>5. rows' \in Seq(StoredRows) /\ Len(rows') = Len(rows)
    BY <2>2, <2>3, <2>4, ExceptSeq
  <2>6. /\ DOMAIN rows' = DOMAIN rows
        /\ \A r \in DOMAIN rows : rows'[r] = IF r = u THEN stored ELSE rows[r]
    BY <2>3
  <2> QED BY <2>2, <2>5, <2>6
<1>4. NothingIsLost /\ Children' = Children /\ Inputs' = Inputs /\ Listed' = Listed
  BY <1>0, <1>3, Lengths DEF NothingIsLost, Children, Inputs, Listed, Types
<1>5. Types'
  <2>1. /\ child \in Seq(Objects') /\ input \in Seq(Dialogs') /\ StoredRows' = StoredRows
        /\ \A m : IsMessage(m) => IsMessage(m)'
    BY <1>0, <1>3, <1>4, TypesStay, Lengths DEF Types, StoredRows
  <2> QED BY <1>0, <1>1, <1>3, <2>1 DEF Types
<1>6. ListsAreDisjoint' BY <1>0, <1>4 DEF ListsAreDisjoint
<1>7. LabelsListen' BY <1>0, <1>4 DEF LabelsListen
<1>8. OncePerSave'
  <2>1. \A m \in Creations' : m \in Creations /\ call'[m] = call[m]
    BY <1>0, <1>1, CreationsLeft
  <2> QED BY <1>0, <1>3, <1>4, <2>1, OnceStays
<1>9. PatientUser'
  <2> SUFFICES ASSUME user # "hasty", faults = 0 PROVE PatientUser'
    BY <1>0 DEF PatientUser
  <2>1. n.value = child[n.child].value /\ \A m \in Busy : m.kind \notin Loading
    BY <1>0 DEF PatientUser, Loading
  <2>2. \A c : RowsOf(c)' = RowsOf(c) BY <1>3 DEF RowsOf
  <2>3. ASSUME NEW c \in Children, HasRow(c) PROVE HasRow(c)'
    <3>1. PICK r \in DOMAIN rows : IsItsRow(c, r) /\ Reflects(r, c) BY <2>3 DEF HasRow
    <3>2. IsItsRow(c, r)' BY <1>0, <1>3, <2>2, <3>1 DEF IsItsRow
    <3>a. child' = child BY <1>0
    <3>3. ASSUME r = u PROVE Reflects(r, c)'
      <4>1. rows'[r].value = child[n.child].value BY <1>3, <2>1, <3>3
      <4> QED BY <1>2, <1>4, <1>p, <3>3, <3>a, <4>1 DEF Reflects
    <3>4. ASSUME r # u PROVE Reflects(r, c)'
      <4>1. rows'[r].value = rows[r].value BY <1>3, <3>4
      <4> QED BY <1>4, <3>1, <3>a, <4>1 DEF Reflects
    <3>5. Reflects(r, c)' BY <3>3, <3>4
    <3> QED BY <1>3, <3>2, <3>5 DEF HasRow
  <2>4. ASSUME NEW c \in Children, IsItsRow(c, u), child[c].row # 0 PROVE HasRow(c)'
    <3>1. IsItsRow(c, u)' BY <1>0, <2>4 DEF IsItsRow
    <3>2. Reflects(u, c)' BY <1>0, <1>2, <1>3, <1>4, <1>p, <2>1 DEF Reflects
    <3> QED BY <1>2, <1>3, <3>1, <3>2 DEF HasRow
  <2>5. ASSUME user = "clean", ParentRequest \notin Busy', NEW c \in Listed
        PROVE  HasRow(c)' \/ IsSent(c)'
    <3>1. c \in Children /\ ParentRequest \notin Busy
      BY <1>0, <1>1, <2>5, ListedObjects DEF ParentRequest
    <3>2. HasRow(c) \/ IsSent(c) BY <1>0, <2>5, <3>1 DEF PatientUser
    <3>3. CASE IsSent(c)
      <4>1. PICK m \in Busy : Stores(m, c) BY <3>3 DEF IsSent
      <4>2. CASE m = n
        BY <1>0, <1>p, <2>4, <3>1, <4>1, <4>2 DEF Stores, IsItsRow
      <4>3. CASE m # n BY <1>0, <1>1, <4>1, <4>3 DEF IsSent, Stores
      <4> QED BY <4>2, <4>3
    <3> QED BY <2>3, <3>1, <3>2, <3>3
  <2>6. (\A m \in Busy : m.kind \in {"add", "update"} => m.value = child[m.child].value)'
    BY <1>0, <1>1 DEF PatientUser
  <2>7. (\A m \in Busy : m.kind \notin Loading)' BY <1>1, <2>1 DEF Loading
  <2>8. ParentRequest' = ParentRequest BY DEF ParentRequest
  <2> QED BY <1>0, <1>4, <2>5, <2>6, <2>7, <2>8 DEF PatientUser, Loading
<1> QED BY <1>5, <1>6, <1>7, <1>8, <1>9 DEF ChildInvariant

\* The row that is created is the first of its child and save, and the child's last one.
LEMMA ServeAddKeeps ==
  ASSUME ChildInvariant, NEW n \in Busy, ServeAdd(n) PROVE ChildInvariant'
<1>p. PICK stored : stored = [value |-> n.value, by |-> n.child, save |-> n.save] OBVIOUS
<1>0. /\ Types /\ ListsAreDisjoint /\ LabelsListen /\ OncePerSave /\ PatientUser
      /\ call' = call (-) SetToBag({n}) /\ n.kind = "add"
      /\ rows' = Append(rows, stored)
      /\ UNCHANGED <<parent, child, input, closed, saves, faults, user>>
  BY <1>p DEF ChildInvariant, ServeAdd, browser, counts
<1>1. /\ IsABag(call') /\ Busy' \subseteq Busy
      /\ \A m \in Busy \ {n} : m \in Busy' /\ call'[m] = call[m]
      /\ call[n] = 1 => n \notin Busy'
  <2>1. IsABag(call) BY <1>0 DEF Types
  <2> QED BY <1>0, <2>1, Taken
<1>2. /\ n \in Adds /\ n \in Creations /\ child[n.child].row = 0
      /\ n.child \in Children /\ n.child \in Nat \ {0} /\ n.save \in 1 .. saves
  <2>1. n \in Adds /\ child[n.child].row = 0 BY <1>0, Kinds DEF Types, IsMessage
  <2> QED BY <1>0, <2>1, Lengths DEF Adds, Creations
<1>q. PICK u \in Nat : u = Len(rows) + 1 BY <1>0, Lengths
<1>3. stored.value = n.value /\ stored.by = n.child /\ stored.save = n.save
  BY <1>p
<1>4. stored \in StoredRows
  <2>1. n.child \in 0 .. Len(child) /\ n.save \in 0 .. saves
    BY <1>0, <1>2, Lengths DEF Types
  <2> QED BY <1>p, <1>2, <2>1 DEF StoredRows, Adds
<1>5. /\ rows' \in Seq(StoredRows) /\ Len(rows') = u
      /\ DOMAIN rows = 1 .. Len(rows) /\ DOMAIN rows' = DOMAIN rows \cup {u}
      /\ rows'[u] = stored /\ \A r \in DOMAIN rows : rows'[r] = rows[r]
      /\ u \notin DOMAIN rows /\ \A r \in DOMAIN rows : r \in Nat /\ r < u
  <2>1. rows \in Seq(StoredRows) /\ Len(rows) \in Nat /\ DOMAIN rows = 1 .. Len(rows)
    BY <1>0, Lengths DEF Types
  <2>2. /\ rows' \in Seq(StoredRows) /\ Len(rows') = u /\ DOMAIN rows' = 1 .. u
        /\ rows'[u] = stored /\ \A r \in 1 .. Len(rows) : rows'[r] = rows[r]
    BY <1>0, <1>4, <1>q, <2>1, AppendProperties
  <2> QED BY <1>q, <2>1, <2>2
<1>6. NothingIsLost /\ Children' = Children /\ Inputs' = Inputs /\ Listed' = Listed
  BY <1>0, <1>5, <1>q, Lengths DEF NothingIsLost, Children, Inputs, Listed, Types
<1>7. Types'
  <2>1. /\ child \in Seq(Objects') /\ input \in Seq(Dialogs') /\ StoredRows' = StoredRows
        /\ \A m : IsMessage(m) => IsMessage(m)'
    BY <1>0, <1>5, <1>6, TypesStay, Lengths DEF Types, StoredRows
  <2> QED BY <1>0, <1>1, <1>5, <2>1 DEF Types
<1>8. ListsAreDisjoint' BY <1>0, <1>6 DEF ListsAreDisjoint
<1>9. LabelsListen' BY <1>0, <1>6 DEF LabelsListen
<1>10. \A c : RowsOf(c)' = IF c = n.child THEN RowsOf(c) \cup {u} ELSE RowsOf(c)
  BY <1>3, <1>5 DEF RowsOf
<1>11. OncePerSave'
  <2>1. \A m \in Creations' : m \in Creations /\ call'[m] = call[m] /\ m # n
    BY <1>0, <1>1, <1>2 DEF Creations, OncePerSave
  <2>2. \A m \in Creations' : ~(m.child = n.child /\ m.save = n.save)
    BY <1>0, <1>2, <2>1 DEF OncePerSave
  <2>3. \A m \in Creations' : call'[m] = 1 BY <1>0, <2>1 DEF OncePerSave
  <2>4. (\A m, l \in Creations : m.child = l.child /\ m.save = l.save => m = l)'
    BY <1>0, <2>1 DEF OncePerSave
  <2>5. (\A m \in Creations : \A r \in RowsOf(m.child) : rows[r].save # m.save)'
    <3> SUFFICES ASSUME NEW m \in Creations', NEW r \in RowsOf(m.child)'
                 PROVE  rows'[r].save # m.save
      OBVIOUS
    <3>1. CASE r = u
      <4>1. m.child = n.child BY <1>5, <1>10, <3>1 DEF RowsOf
      <4> QED BY <1>3, <1>5, <2>2, <3>1, <4>1
    <3>2. CASE r # u
      <4>1. r \in RowsOf(m.child) /\ r \in DOMAIN rows BY <1>10, <3>2 DEF RowsOf
      <4> QED BY <1>0, <1>5, <2>1, <4>1 DEF OncePerSave
    <3> QED BY <3>1, <3>2
  <2>6. \A r \in RowsOf(n.child) : rows[r].save # n.save
    BY <1>0, <1>2 DEF OncePerSave
  <2>7. ASSUME NEW r \in DOMAIN rows', NEW k, k = rows'[r].by, k # 0
        PROVE  /\ rows'[r].save > 0 /\ child[k].row = 0
               /\ \A s \in RowsOf(k)' : rows'[r].save = rows'[s].save => r = s
    <3>1. CASE r = u
      <4>1. rows'[r].save = n.save /\ n.save > 0 /\ k = n.child
        BY <1>0, <1>2, <1>3, <1>5, <2>7, <3>1 DEF Types
      <4>2. \A s \in RowsOf(k)' : n.save = rows'[s].save => u = s
        BY <1>5, <1>10, <2>6, <4>1 DEF RowsOf
      <4> QED BY <1>2, <3>1, <4>1, <4>2
    <3>2. CASE r \in DOMAIN rows
      <4>1. rows'[r] = rows[r] /\ rows[r].by = k BY <1>5, <2>7, <3>2
      <4>2. /\ rows[r].save > 0 /\ child[k].row = 0
            /\ \A s \in RowsOf(k) : rows[r].save = rows[s].save => r = s
        BY <1>0, <2>7, <3>2, <4>1 DEF OncePerSave
      <4>3. ASSUME NEW s \in RowsOf(k)', rows[r].save = rows'[s].save PROVE r = s
        <5>1. CASE s = u
          <6>1. k = n.child BY <1>5, <1>3, <4>3, <5>1 DEF RowsOf
          <6>2. r \in RowsOf(n.child) BY <3>2, <4>1, <6>1 DEF RowsOf
          <6> QED BY <1>3, <1>5, <2>6, <4>3, <5>1, <6>2
        <5>2. CASE s # u
          <6>1. s \in RowsOf(k) /\ s \in DOMAIN rows BY <1>5, <4>3, <5>2 DEF RowsOf
          <6> QED BY <1>5, <4>2, <4>3, <6>1
        <5> QED BY <5>1, <5>2
      <4> QED BY <4>1, <4>2, <4>3
    <3> QED BY <1>5, <3>1, <3>2
  <2>8. (\A r \in DOMAIN rows : rows[r].by # 0 =>
           /\ rows[r].save > 0 /\ child[rows[r].by].row = 0
           /\ \A s \in RowsOf(rows[r].by) : rows[r].save = rows[s].save => r = s)'
    BY <1>0, <2>7 DEF RowsOf
  <2> QED BY <2>3, <2>4, <2>5, <2>8 DEF OncePerSave
<1>12. PatientUser'
  <2> SUFFICES ASSUME user # "hasty", faults = 0 PROVE PatientUser'
    BY <1>0 DEF PatientUser
  <2>1. n.value = child[n.child].value /\ \A m \in Busy : m.kind \notin Loading
    BY <1>0 DEF PatientUser, Loading
  <2>2. HasRow(n.child)'
    <3>1. IsItsRow(n.child, u)'
      <4>1. \A s \in RowsOf(n.child)' : s <= u
        BY <1>5, <1>10 DEF RowsOf
      <4> QED BY <1>0, <1>2, <1>3, <1>5, <4>1 DEF IsItsRow
    <3>2. Reflects(u, n.child)' BY <1>0, <1>3, <1>5, <2>1 DEF Reflects
    <3> QED BY <1>5, <3>1, <3>2 DEF HasRow
  <2>3. ASSUME NEW c \in Children, c # n.child, HasRow(c) PROVE HasRow(c)'
    <3>1. PICK r \in DOMAIN rows : IsItsRow(c, r) /\ Reflects(r, c) BY <2>3 DEF HasRow
    <3>2. IsItsRow(c, r)' BY <1>0, <1>5, <1>10, <2>3, <3>1 DEF IsItsRow
    <3>3. Reflects(r, c)' BY <1>0, <1>5, <1>6, <3>1 DEF Reflects
    <3> QED BY <1>5, <3>2, <3>3 DEF HasRow
  <2>4. ASSUME user = "clean", ParentRequest \notin Busy', NEW c \in Listed
        PROVE  HasRow(c)' \/ IsSent(c)'
    <3>1. c \in Children /\ ParentRequest \notin Busy
      BY <1>0, <1>1, <2>4, ListedObjects DEF ParentRequest
    <3>2. HasRow(c) \/ IsSent(c) BY <1>0, <2>4, <3>1 DEF PatientUser
    <3>3. CASE IsSent(c) /\ c # n.child
      <4>1. PICK m \in Busy : Stores(m, c) BY <3>3 DEF IsSent
      <4>2. m # n BY <3>3, <4>1 DEF Stores
      <4> QED BY <1>0, <1>1, <4>1, <4>2 DEF IsSent, Stores
    <3> QED BY <2>2, <2>3, <3>1, <3>2, <3>3
  <2>5. (\A m \in Busy : m.kind \in {"add", "update"} => m.value = child[m.child].value)'
    BY <1>0, <1>1 DEF PatientUser
  <2>6. (\A m \in Busy : m.kind \notin Loading)' BY <1>1, <2>1 DEF Loading
  <2>7. ParentRequest' = ParentRequest BY DEF ParentRequest
  <2> QED BY <1>0, <1>6, <2>4, <2>5, <2>6, <2>7 DEF PatientUser, Loading
<1> QED BY <1>7, <1>8, <1>9, <1>11, <1>12 DEF ChildInvariant

\* The request for the primary resource makes way for the one that creates the row.
LEMMA PrimaryResourceKeeps ==
  ASSUME ChildInvariant, NEW n \in Busy, PrimaryResource(n) PROVE ChildInvariant'
<1>p. PICK q : q = AddRequest(n.child, n.save) OBVIOUS
<1>0. /\ Types /\ ListsAreDisjoint /\ LabelsListen /\ OncePerSave /\ PatientUser
      /\ call' = (call (-) SetToBag({n})) (+) SetToBag({q}) /\ n.kind = "list"
      /\ UNCHANGED <<parent, child, input, closed, rows, saves, faults, user>>
  BY <1>p DEF ChildInvariant, PrimaryResource, browser, counts
<1>1. /\ q.kind = "add" /\ q.child = n.child /\ q.save = n.save
      /\ q.value = child[n.child].value /\ q # n
  BY <1>0, <1>p DEF AddRequest
<1>2. /\ n \in Creations /\ call[n] = 1 /\ child[n.child].row = 0
      /\ n.child \in Children /\ n.save \in 1 .. saves
      /\ \A m \in Creations : m.child = n.child /\ m.save = n.save => m = n
  <2>1. n \in Lists /\ child[n.child].row = 0 BY <1>0, Kinds DEF Types, IsMessage
  <2>2. n \in Creations BY <1>0 DEF Creations
  <2> QED BY <1>0, <2>1, <2>2 DEF Lists, OncePerSave
<1>3. q \notin Busy BY <1>1, <1>2 DEF Creations
<1>4. /\ IsABag(call') /\ q \in Busy' /\ n \notin Busy' /\ call'[q] = 1
      /\ \A m \in Busy' \ {q} : m \in Busy
      /\ \A m \in Busy \ {n} : m \in Busy' /\ call'[m] = call[m]
  <2>1. IsABag(call) BY <1>0 DEF Types
  <2>2. /\ IsABag(call') /\ {q} \subseteq Busy'
        /\ \A m \in Busy' \ {q} : m \in Busy /\ call'[m] \in Nat
        /\ \A m \in Busy \ {n} : m \in Busy' /\ (m \notin {q} => call'[m] = call[m])
        /\ call[n] = 1 => /\ n \notin {q} => n \notin Busy'
                          /\ \A m \in {q} : m \notin Busy => call'[m] = 1
    BY <1>0, <2>1, Replaced
  <2> QED BY <1>1, <1>2, <1>3, <2>2
<1>5. /\ NothingIsLost /\ Children' = Children /\ Inputs' = Inputs /\ Listed' = Listed
  BY <1>0, Lengths DEF NothingIsLost, Children, Inputs, Listed, Types
<1>6. Types'
  <2>1. /\ rows \in Seq(StoredRows') /\ child \in Seq(Objects') /\ input \in Seq(Dialogs')
        /\ \A m : IsMessage(m) => IsMessage(m)'
    BY <1>0, <1>5, TypesStay, Lengths DEF Types
  <2>2. q \in Adds
    <3>1. child[n.child].value \in Values BY <1>0, <1>2, Elements DEF Objects
    <3> QED BY <1>p, <1>2, <3>1 DEF AddRequest, Adds
  <2>3. IsMessage(q) BY <1>1, <1>2, <2>2 DEF IsMessage
  <2>4. \A m \in Busy' : IsMessage(m)' BY <1>0, <1>4, <2>1, <2>3 DEF Types
  <2> QED BY <1>0, <1>4, <2>1, <2>4 DEF Types
<1>7. ListsAreDisjoint' BY <1>0, <1>5 DEF ListsAreDisjoint
<1>8. LabelsListen' BY <1>0, <1>5 DEF LabelsListen
<1>9. OncePerSave'
  <2>1. ASSUME NEW m \in Creations', m # q
        PROVE  m \in Creations /\ m # n /\ call'[m] = call[m]
    <3>1. m \in Busy' /\ m \in Busy /\ m # n BY <1>4, <2>1 DEF Creations
    <3> QED BY <1>4, <3>1 DEF Creations
  <2>2. \A m \in Creations' : call'[m] = 1 BY <1>0, <1>4, <2>1 DEF OncePerSave
  <2>3. \A m \in Creations' : m.child = q.child /\ m.save = q.save => m = q
    BY <1>1, <1>2, <2>1
  <2>4. (\A m, l \in Creations : m.child = l.child /\ m.save = l.save => m = l)'
    BY <1>0, <2>1, <2>3 DEF OncePerSave
  <2>5. \A c : RowsOf(c)' = RowsOf(c) BY <1>0 DEF RowsOf
  <2>6. (\A m \in Creations : \A r \in RowsOf(m.child) : rows[r].save # m.save)'
    BY <1>0, <1>1, <1>2, <2>1, <2>5 DEF OncePerSave
  <2>7. (\A r \in DOMAIN rows : rows[r].by # 0 =>
           /\ rows[r].save > 0 /\ child[rows[r].by].row = 0
           /\ \A s \in RowsOf(rows[r].by) : rows[r].save = rows[s].save => r = s)'
    BY <1>0, <2>5 DEF OncePerSave
  <2> QED BY <2>2, <2>4, <2>6, <2>7 DEF OncePerSave
<1>10. PatientUser'
  <2> SUFFICES ASSUME user # "hasty", faults = 0 PROVE PatientUser'
    BY <1>0 DEF PatientUser
  <2>1. (\A m \in Busy : m.kind \in {"add", "update"} => m.value = child[m.child].value)'
    BY <1>0, <1>1, <1>4 DEF PatientUser
  <2>2. \A m \in Busy : m.kind \notin Loading BY <1>0 DEF PatientUser, Loading
  <2>3. \A m \in Busy' : m.kind \notin Loading BY <1>1, <1>4, <2>2 DEF Loading
  <2>4. ASSUME user = "clean", ParentRequest \notin Busy', NEW c \in Listed
        PROVE  HasRow(c)' \/ IsSent(c)'
    <3>1. c \in Children /\ ParentRequest \notin Busy
      BY <1>0, <1>4, <2>4, ListedObjects DEF ParentRequest
    <3>2. CASE HasRow(c)
      <4>1. Unedited BY <1>0, <1>5 DEF Unedited
      <4> QED BY <1>0, <3>1, <3>2, <4>1, RowsStay
    <3>3. CASE IsSent(c)
      <4>1. PICK m \in Busy : Stores(m, c) BY <3>3 DEF IsSent
      <4>2. CASE m = n
        <5>1. Stores(q, c)' BY <1>0, <1>1, <4>1, <4>2 DEF Stores
        <5> QED BY <1>4, <5>1 DEF IsSent
      <4>3. CASE m # n BY <1>0, <1>4, <4>1, <4>3 DEF IsSent, Stores
      <4> QED BY <4>2, <4>3
    <3>4. HasRow(c) \/ IsSent(c) BY <1>0, <2>4, <3>1 DEF PatientUser
    <3> QED BY <3>2, <3>3, <3>4
  <2>5. ParentRequest' = ParentRequest BY DEF ParentRequest
  <2> QED BY <1>0, <1>5, <2>1, <2>3, <2>4, <2>5 DEF PatientUser, Loading
<1> QED BY <1>6, <1>7, <1>8, <1>9, <1>10 DEF ChildInvariant

\* What the inputs send for a child.
LEMMA RequestsOfChildren ==
  ASSUME Types, NEW c \in Listed
  PROVE  /\ ChildRequest(c).child = c
         /\ ChildRequest(c).kind = IF child[c].row # 0 THEN "update" ELSE "list"
         /\ child[c].row # 0 => /\ ChildRequest(c) \in Updates
                                /\ ChildRequest(c).value = child[c].value
         /\ child[c].row = 0 => /\ ChildRequest(c).save = saves + 1
                                /\ ChildRequest(c) =
                                     [kind |-> "list", child |-> c, save |-> saves + 1]
<1>1. c \in Children /\ child[c] \in Objects BY ListedObjects, Elements
<1>2. CASE child[c].row # 0
  BY <1>1, <1>2 DEF ChildRequest, UpdateRequest, Updates, Objects
<1>3. CASE child[c].row = 0
  BY <1>1, <1>3 DEF ChildRequest, ListRequest
<1> QED BY <1>2, <1>3

\* A save sends one request for each listed child, with a number of its own.
LEMMA PersistedKeeps ==
  ASSUME ChildInvariant, NEW n \in Busy, Persisted(n) PROVE ChildInvariant'
<1>p. PICK S : S = {ChildRequest(c) : c \in Listed} OBVIOUS
<1>0. /\ Types /\ ListsAreDisjoint /\ LabelsListen /\ OncePerSave /\ PatientUser
      /\ call' = (call (-) SetToBag({n})) (+) SetToBag(S) /\ n.kind = "parent"
      /\ saves' = saves + 1 /\ saves \in Nat
      /\ UNCHANGED <<child, input, closed, rows, faults, user>>
  BY <1>p DEF ChildInvariant, Persisted, ChildRequests, Types
<1>1. /\ IsABag(call') /\ S \subseteq Busy'
      /\ \A m \in Busy' : m \in S \/ m \in Busy
      /\ \A m \in Busy \ {n} : m \in Busy' /\ (m \notin S => call'[m] = call[m])
  <2>1. IsABag(call) BY <1>0 DEF Types
  <2> QED BY <1>0, <2>1, Replaced
<1>2. ASSUME NEW m \in S
      PROVE  /\ m.kind \in {"list", "update"} /\ m.child \in Listed
             /\ m.kind = "update" => m \in Updates /\ m.value = child[m.child].value
             /\ m.kind = "list" <=> child[m.child].row = 0
             /\ m.kind = "list" => m = [kind |-> "list", child |-> m.child, save |-> saves + 1]
             /\ m = ChildRequest(m.child)
  BY <1>0, <1>p, RequestsOfChildren
<1>3. /\ NothingIsLost /\ Children' = Children /\ Inputs' = Inputs /\ Listed' = Listed
  BY <1>0, Lengths DEF NothingIsLost, Children, Inputs, Listed
<1>4. Types'
  <2>1. /\ rows \in Seq(StoredRows') /\ child \in Seq(Objects') /\ input \in Seq(Dialogs')
        /\ \A m : IsMessage(m) => IsMessage(m)'
    BY <1>0, <1>3, TypesStay, Lengths
  <2>2. ASSUME NEW m \in S PROVE IsMessage(m)'
    <3>1. m.child \in Children BY <1>0, <1>2, ListedObjects
    <3>2. CASE m.kind = "list"
      <4>1. saves + 1 \in 1 .. saves' BY <1>0
      <4>2. m \in Lists' BY <1>2, <1>3, <3>1, <3>2, <4>1 DEF Lists
      <4> QED BY <1>0, <1>2, <3>2, <4>2 DEF IsMessage
    <3>3. CASE m.kind = "update"
      <4>1. m \in Updates' BY <1>2, <1>3, <3>3 DEF Updates
      <4> QED BY <1>0, <1>2, <3>3, <4>1 DEF IsMessage
    <3> QED BY <1>2, <3>2, <3>3
  <2>3. \A m \in Busy' : IsMessage(m)' BY <1>0, <1>1, <2>1, <2>2 DEF Types
  <2>4. parent' \in {"new", "created", "listed"} BY <1>0 DEF Persisted, Types
  <2> QED BY <1>0, <1>1, <2>1, <2>3, <2>4 DEF Types
<1>5. ListsAreDisjoint' BY <1>0, <1>3 DEF ListsAreDisjoint
<1>6. LabelsListen' BY <1>0, <1>3 DEF LabelsListen
<1>7. OncePerSave'
  <2>1. \A m \in Creations : m.save \in Nat /\ m.save <= saves /\ m \notin S /\ m # n
    <3>1. ASSUME NEW m \in Creations PROVE m.save \in 1 .. saves
      BY <1>0, <3>1, Kinds DEF Creations, Types, Lists, Adds
    <3>2. ASSUME NEW m \in Creations, m \in S PROVE m.save = saves + 1
      <4>1. m.kind = "list" BY <1>2, <3>2 DEF Creations
      <4> QED BY <1>2, <3>2, <4>1
    <3>3. n \notin Creations BY <1>0 DEF Creations
    <3> QED BY <1>0, <3>1, <3>2, <3>3
  <2>2. ASSUME NEW m \in Creations'
        PROVE  \/ m \in Creations /\ call'[m] = call[m]
               \/ m \in S /\ m.save = saves + 1 /\ m \notin Busy /\ m = ChildRequest(m.child)
    <3>1. CASE m \in Busy
      <4>1. m \in Creations BY <3>1 DEF Creations
      <4> QED BY <1>1, <2>1, <3>1, <4>1
    <3>2. CASE m \notin Busy
      <4>1. m \in S /\ m.kind = "list" BY <1>1, <1>2, <3>2 DEF Creations
      <4> QED BY <1>2, <3>2, <4>1
    <3> QED BY <3>1, <3>2
  <2>3. \A m \in S : m \notin Busy => call'[m] = 1
    <3>1. IsABag(call) BY <1>0 DEF Types
    <3>2. PICK b : b = call (-) SetToBag({n}) OBVIOUS
    <3>3. IsABag(b) /\ BagToSet(b) \subseteq Busy BY <3>1, <3>2, Removed DEF Busy
    <3>4. \A m \in S : m \notin BagToSet(b) => (b (+) SetToBag(S))[m] = 1 BY <3>3, Added
    <3>5. call' = b (+) SetToBag(S) BY <1>0, <3>2
    <3> QED BY <3>3, <3>4, <3>5
  <2>4. \A m \in Creations' : call'[m] = 1 BY <1>0, <2>2, <2>3 DEF OncePerSave
  <2>5. (\A m, l \in Creations : m.child = l.child /\ m.save = l.save => m = l)'
    <3> SUFFICES ASSUME NEW m \in Creations', NEW l \in Creations',
                        m.child = l.child, m.save = l.save
                 PROVE  m = l
      OBVIOUS
    <3>1. CASE m \in Creations /\ l \in Creations BY <1>0, <3>1 DEF OncePerSave
    <3>2. CASE m \notin Creations /\ l \notin Creations BY <2>2, <3>2
    <3>3. CASE m \in Creations /\ l \notin Creations BY <1>0, <2>1, <2>2, <3>3
    <3>4. CASE m \notin Creations /\ l \in Creations BY <1>0, <2>1, <2>2, <3>4
    <3> QED BY <3>1, <3>2, <3>3, <3>4
  <2>6. \A c : RowsOf(c)' = RowsOf(c) BY <1>0 DEF RowsOf
  <2>7. \A r \in DOMAIN rows : rows[r].save \in Nat /\ rows[r].save <= saves
    BY <1>0, Elements DEF StoredRows
  <2>8. (\A m \in Creations : \A r \in RowsOf(m.child) : rows[r].save # m.save)'
    <3> SUFFICES ASSUME NEW m \in Creations', NEW r \in RowsOf(m.child) PROVE rows[r].save # m.save
      BY <1>0, <2>6
    <3>1. CASE m \in Creations BY <1>0, <3>1 DEF OncePerSave
    <3>2. CASE m \notin Creations
      <4>1. r \in DOMAIN rows BY DEF RowsOf
      <4> QED BY <1>0, <2>2, <2>7, <3>2, <4>1
    <3> QED BY <3>1, <3>2
  <2>9. (\A r \in DOMAIN rows : rows[r].by # 0 =>
           /\ rows[r].save > 0 /\ child[rows[r].by].row = 0
           /\ \A s \in RowsOf(rows[r].by) : rows[r].save = rows[s].save => r = s)'
    BY <1>0, <2>6 DEF OncePerSave
  <2> QED BY <2>4, <2>5, <2>8, <2>9 DEF OncePerSave
<1>8. PatientUser'
  <2> SUFFICES ASSUME user # "hasty", faults = 0 PROVE PatientUser'
    BY <1>0 DEF PatientUser
  <2>1. (\A m \in Busy : m.kind \in {"add", "update"} => m.value = child[m.child].value)'
    BY <1>0, <1>1, <1>2 DEF PatientUser
  <2>2. \A m \in Busy : m.kind \notin Loading BY <1>0 DEF PatientUser, Loading
  <2>3. \A m \in Busy' : m.kind \notin Loading BY <1>1, <1>2, <2>2 DEF Loading
  <2>4. ASSUME NEW c \in Listed PROVE IsSent(c)'
    <3>1. ChildRequest(c) \in S BY <1>p
    <3>m. PICK m \in S : m = ChildRequest(c) BY <3>1
    <3>2. m.child = c /\ m.kind = IF child[c].row # 0 THEN "update" ELSE "list"
      BY <1>0, <3>m, RequestsOfChildren
    <3>3. Stores(m, c)' BY <1>0, <3>2 DEF Stores
    <3> QED BY <1>1, <3>3 DEF IsSent
  <2> QED BY <1>0, <1>3, <2>1, <2>3, <2>4 DEF PatientUser, Loading
<1> QED BY <1>4, <1>5, <1>6, <1>7, <1>8 DEF ChildInvariant

\* A page adds objects of the rows as they were read, and asks for the next one.
LEMMA PageLoadedKeeps ==
  ASSUME ChildInvariant, NEW n \in Busy, PageLoaded(n) PROVE ChildInvariant'
<1>d. Types /\ ListsAreDisjoint /\ LabelsListen /\ OncePerSave /\ PatientUser /\ n.kind = "answer"
  BY DEF ChildInvariant, PageLoaded
<1>p. PICK i, items, q : i = n.input /\ items = n.items /\ q = PageRequest(i, Last(items).row)
  OBVIOUS
<1>m. PICK size \in Nat : size = Len(child) BY <1>d, Lengths
<1>0. /\ child' = child \o items
      /\ input' = [input EXCEPT ![i].items = @ \o [k \in DOMAIN items |-> size + k]]
      /\ call' = IF n.next THEN (call (-) SetToBag({n})) (+) SetToBag({q})
                 ELSE call (-) SetToBag({n})
      /\ UNCHANGED <<parent, rows, closed, saves, faults, user>>
  BY <1>p, <1>m DEF PageLoaded, counts
<1>1. /\ i \in Inputs /\ items \in Seq(Loadable) /\ (n.next => items # <<>>)
  <2>1. n \in Answers /\ (n.next => n.items # <<>>) BY <1>d, Kinds DEF Types, IsMessage
  <2> QED BY <1>p, <2>1 DEF Answers
<1>2. PICK more \in Nat :
        /\ more = Len(items) /\ DOMAIN items = 1 .. more
        /\ \A k \in 1 .. more : items[k] \in Loadable
  BY <1>1
<1>3. ASSUME NEW k \in 1 .. more
      PROVE  /\ items[k] \in Objects /\ items[k].row \in 1 .. Len(rows)
             /\ items[k].label = items[k].value /\ Hears(items[k].on, "label")
  <2>1. PICK v \in Values, r \in 1 .. Len(rows) : items[k] = Entry(v, r)
    BY <1>2 DEF Loadable
  <2>2. Len(rows) \in Nat BY <1>d, Lengths
  <2> QED BY <2>1, <2>2, NewEntry DEF Objects
<1>4. /\ child' \in Seq(Objects) /\ Len(child') = size + more /\ Children' = 1 .. size + more
      /\ Children = 1 .. size /\ \A c \in Children : child'[c] = child[c]
      /\ \A c \in size + 1 .. size + more : c - size \in 1 .. more /\ child'[c] = items[c - size]
  <2>1. child \in Seq(Objects) /\ Children = 1 .. size /\ Len(child) = size
    BY <1>d, <1>m, Lengths DEF Types
  <2>2. items \in Seq(Objects) BY <1>1, <1>2, <1>3
  <2>3. /\ child' \in Seq(Objects) /\ Len(child') = Len(child) + Len(items)
        /\ \A c \in 1 .. Len(child) + Len(items) :
             child'[c] = IF c <= Len(child) THEN child[c] ELSE items[c - Len(child)]
    BY <1>0, <2>1, <2>2, ConcatProperties
  <2>4. /\ Len(child') = size + more
        /\ \A c \in 1 .. size + more : child'[c] = IF c <= size THEN child[c] ELSE items[c - size]
    BY <1>2, <2>1, <2>3
  <2>5. Children' = 1 .. size + more BY <2>3, <2>4 DEF Children
  <2>6. \A c \in 1 .. size : c \in 1 .. size + more /\ c <= size OBVIOUS
  <2>7. \A c \in size + 1 .. size + more :
          c \in 1 .. size + more /\ ~(c <= size) /\ c - size \in 1 .. more
    OBVIOUS
  <2> QED BY <2>1, <2>3, <2>4, <2>5, <2>6, <2>7
<1>l. PICK list : list = input[i].items \o [k \in 1 .. more |-> size + k] OBVIOUS
<1>5. /\ input[i] \in Dialogs /\ list \in Seq(Children')
      /\ Range(list) = Range(input[i].items) \cup (size + 1 .. size + more)
      /\ IsInjective(input[i].items) => IsInjective(list)
  <2>1. input[i] \in Dialogs /\ input[i].items \in Seq(1 .. size) BY <1>d, <1>1, <1>4, Elements
  <2> QED BY <1>4, <1>l, <2>1, WithNewObjects
<1>e. PICK dialog : dialog = [input[i] EXCEPT !.items = list] OBVIOUS
<1>6. dialog \in Dialogs' /\ dialog.items = list /\ dialog.editing = input[i].editing
  BY <1>5, <1>e DEF Dialogs
<1>7. /\ input' = [input EXCEPT ![i] = dialog] /\ Inputs' = Inputs /\ Len(input') = Len(input)
      /\ \A j \in Inputs : input'[j] = IF j = i THEN dialog ELSE input[j]
  <2>1. input' = [input EXCEPT ![i] = dialog] BY <1>0, <1>2, <1>l, <1>e
  <2>2. input \in Seq(Dialogs) /\ Inputs = 1 .. Len(input) BY <1>d, Lengths DEF Types
  <2>3. Inputs' = Inputs /\ \A j \in Inputs : input'[j] = IF j = i THEN dialog ELSE input[j]
    BY <2>1 DEF Inputs
  <2>4. Len(input') = Len(input) BY <2>1, <2>2
  <2> QED BY <2>1, <2>3, <2>4
<1>8. NothingIsLost /\ DOMAIN rows' = DOMAIN rows
  BY <1>d, <1>0, <1>m, <1>4, <1>7, Lengths DEF NothingIsLost, Types
<1>9. /\ IsABag(call')
      /\ \A m \in Busy' : m \in Busy \/ (n.next /\ m = q)
      /\ \A m \in Busy \ {n} : m \in Busy' /\ (m # q => call'[m] = call[m])
  <2>1. IsABag(call) BY <1>d DEF Types
  <2>2. CASE n.next
    <3>1. call' = (call (-) SetToBag({n})) (+) SetToBag({q}) BY <1>0, <2>2
    <3>2. /\ IsABag(call')
          /\ \A m \in Busy' \ {q} : m \in Busy /\ call'[m] \in Nat
          /\ \A m \in Busy \ {n} : m \in Busy' /\ (m \notin {q} => call'[m] = call[m])
      BY <2>1, <3>1, Replaced
    <3> QED BY <2>2, <3>2
  <2>3. CASE ~n.next
    <3>1. call' = call (-) SetToBag({n}) BY <1>0, <2>3
    <3> QED BY <2>1, <3>1, Taken
  <2> QED BY <2>2, <2>3
<1>10. q.kind = "page" BY <1>p DEF PageRequest
<1>11. Types'
  <2>1. /\ rows \in Seq(StoredRows') /\ child \in Seq(Objects') /\ input \in Seq(Dialogs')
        /\ \A m : IsMessage(m) => IsMessage(m)'
    BY <1>d, <1>0, <1>4, <1>7, <1>8, TypesStay, Lengths DEF Types
  <2>2. Objects' = Objects BY <1>0 DEF Objects
  <2>3. input' \in Seq(Dialogs') BY <1>d, <1>1, <1>6, <1>7, <2>1, ExceptSeq, Lengths
  <2>4. ASSUME n.next PROVE IsMessage(q)'
    <3>1. more # 0 BY <1>1, <1>2, <2>4
    <3>2. Last(items) = items[more] BY <1>2 DEF Last
    <3>3. items[more].row \in 1 .. Len(rows) BY <1>2, <1>3, <3>1
    <3>4. items[more].row \in 0 .. Len(rows) BY <1>d, <3>3, Lengths
    <3>5. q \in Pages' BY <1>p, <1>0, <1>1, <1>7, <3>2, <3>4 DEF PageRequest, Pages
    <3> QED BY <1>10, <3>5 DEF IsMessage
  <2>5. \A m \in Busy' : IsMessage(m)' BY <1>d, <1>9, <2>1, <2>4 DEF Types
  <2> QED BY <1>d, <1>0, <1>4, <1>9, <2>1, <2>2, <2>3, <2>5 DEF Types
<1>12. \A j \in Inputs : \A c \in Range(input[j].items) : c \notin size + 1 .. size + more
  BY <1>d, <1>4, ListedIn
<1>13. ListsAreDisjoint'
  <2>1. \A j \in Inputs : /\ IsInjective(input'[j].items)
                          /\ input'[j].editing \in {0} \cup Range(input'[j].items)
    BY <1>d, <1>5, <1>6, <1>7 DEF ListsAreDisjoint
  <2>2. ASSUME NEW j \in Inputs, NEW k \in Inputs, j # k
        PROVE  Range(input'[j].items) \cap Range(input'[k].items) = {}
    <3>1. Range(input[j].items) \cap Range(input[k].items) = {}
      BY <1>d, <2>2 DEF ListsAreDisjoint
    <3>2. \A l \in {j, k} : Range(input'[l].items) =
            IF l = i THEN Range(input[l].items) \cup (size + 1 .. size + more)
            ELSE Range(input[l].items)
      <4> SUFFICES ASSUME NEW l \in Inputs
                   PROVE  Range(input'[l].items) =
                            IF l = i THEN Range(input[l].items) \cup (size + 1 .. size + more)
                            ELSE Range(input[l].items)
        BY <2>2
      <4>1. CASE l = i BY <1>5, <1>6, <1>7, <4>1
      <4>2. CASE l # i BY <1>7, <4>2
      <4> QED BY <4>1, <4>2
    <3> QED BY <1>12, <2>2, <3>1, <3>2
  <2> QED BY <1>7, <2>1, <2>2 DEF ListsAreDisjoint
<1>14. \A c \in Children' : c \in Children \/ c \in size + 1 .. size + more BY <1>4
<1>15. LabelsListen'
  <2>1. \A c \in Children : c \notin closed =>
          child'[c].label = child'[c].value /\ Hears(child'[c].on, "label")
    BY <1>d, <1>4 DEF LabelsListen
  <2>2. \A c \in size + 1 .. size + more :
          child'[c].label = child'[c].value /\ Hears(child'[c].on, "label")
    BY <1>3, <1>4
  <2> QED BY <1>0, <1>14, <2>1, <2>2 DEF LabelsListen
<1>16. OncePerSave'
  <2>1. \A m \in Creations' : m \in Creations /\ call'[m] = call[m]
    BY <1>d, <1>9, <1>10 DEF Creations
  <2> QED BY <1>d, <1>0, <1>8, <2>1, OnceStays
<1>17. PatientUser'
  <2> SUFFICES ASSUME user # "hasty", faults = 0 PROVE PatientUser'
    BY <1>0 DEF PatientUser
  <2>1. \A m \in Busy : m.kind \in Loading BY <1>d DEF PatientUser, Loading
  <2>2. \A m \in Busy' : m.kind \in Loading BY <1>9, <1>10, <2>1 DEF Loading
  <2>3. (\A m \in Busy : m.kind = "answer" =>
           \A k \in DOMAIN m.items : m.items[k].value = rows[m.items[k].row].value)'
    BY <1>d, <1>0, <1>9, <1>10 DEF PatientUser
  <2>4. Unedited BY <1>d, <1>0, <1>4 DEF Unedited
  <2>5. ASSUME NEW c \in size + 1 .. size + more PROVE HasRow(c)'
    <3>k. PICK k \in 1 .. more : k = c - size /\ child'[c] = items[k] BY <1>4
    <3>r. PICK r \in DOMAIN rows : r = items[k].row BY <1>3, <1>d, Lengths
    <3>1. r # 0 /\ rows[r].value = items[k].value
      BY <1>d, <1>p, <1>2, <3>r, Lengths DEF PatientUser
    <3>2. IsItsRow(c, r)' BY <3>k, <3>r, <3>1 DEF IsItsRow
    <3>3. Reflects(r, c)' BY <1>0, <3>k, <3>1 DEF Reflects
    <3> QED BY <1>0, <3>2, <3>3 DEF HasRow
  <2>6. ASSUME user = "clean", NEW c \in Listed' PROVE HasRow(c)'
    <3>1. c \in Listed \/ c \in size + 1 .. size + more BY <1>5, <1>6, <1>7 DEF Listed
    <3>2. CASE c \in Listed
      <4>1. ParentRequest \notin Busy BY <2>1 DEF Loading, ParentRequest
      <4>2. c \in Children /\ HasRow(c)
        BY <1>d, <2>1, <2>6, <3>2, <4>1, ListedObjects DEF PatientUser, IsSent, Stores, Loading
      <4> QED BY <1>d, <2>4, <4>2, RowsStay
    <3> QED BY <2>5, <3>1, <3>2
  <2>7. (\A m \in Busy : m.kind \notin {"add", "update"})' BY <2>2 DEF Loading
  <2> QED BY <1>0, <2>2, <2>3, <2>6, <2>7 DEF PatientUser, Loading
<1> QED BY <1>11, <1>13, <1>15, <1>16, <1>17 DEF ChildInvariant
-----------------------------------------------------------------------------
(* The theorems *)

\* In the beginning nothing was created, asked for or edited.
LEMMA InitHolds == Init => ChildInvariant
<1> SUFFICES ASSUME Init PROVE ChildInvariant OBVIOUS
<1>1. child = <<>> /\ Children = {} /\ Busy = {} /\ IsABag(call)
  BY DEF Init, Children, Busy, EmptyBag, SetToBag, BagToSet, IsABag
<1>2. Len(child) = 0 /\ saves = 0 /\ faults = 0 /\ saves \in Nat /\ faults \in Nat
  BY <1>1 DEF Init
<1>3. rows \in Seq(StoredRows) /\ \A r \in DOMAIN rows : rows[r].by = 0
  <2>1. CASE parent = "new" BY <2>1 DEF Init
  <2>2. CASE parent = "listed"
    <3>1. PICK k \in 0 .. MaxRows :
            rows = [r \in 1 .. k |-> [value |-> Initially, by |-> 0, save |-> 0]]
      BY <2>2 DEF Init
    <3>2. [value |-> Initially, by |-> 0, save |-> 0] \in StoredRows
      BY <1>2, PageAssumption DEF StoredRows, PageAssumption
    <3>3. k \in Nat BY PageAssumption DEF PageAssumption
    <3> QED BY <3>1, <3>2, <3>3
  <2> QED BY <2>1, <2>2 DEF Init
<1>4. /\ input \in Seq(Dialogs)
      /\ \A i \in Inputs : input[i].items = <<>> /\ input[i].editing = 0
      /\ \A i, j \in Inputs : i = j
  <2>1. CASE parent = "new"
    <3>1. NewInput \in Dialogs BY DEF NewInput, Dialogs
    <3>2. input = <<NewInput>> BY <2>1 DEF Init
    <3> QED BY <3>1, <3>2 DEF Inputs, NewInput
  <2>2. CASE parent = "listed" BY <2>2 DEF Init, Inputs
  <2> QED BY <2>1, <2>2 DEF Init
<1>5. Types BY <1>1, <1>2, <1>3, <1>4 DEF Types, Init
<1>6. ListsAreDisjoint BY <1>4 DEF ListsAreDisjoint, IsInjective
<1>7. LabelsListen BY <1>1 DEF LabelsListen
<1>8. OncePerSave BY <1>1, <1>3 DEF OncePerSave, Creations
<1>9. Listed = {} BY <1>4 DEF Listed, Range
<1>10. PatientUser BY <1>1, <1>9 DEF PatientUser
<1> QED BY <1>5, <1>6, <1>7, <1>8, <1>10 DEF ChildInvariant

\* Every step of the user, the server and the callbacks keeps the invariant.
LEMMA StepKeeps == ChildInvariant /\ [Next]_vars => ChildInvariant'
<1> SUFFICES ASSUME ChildInvariant, [Next]_vars PROVE ChildInvariant' OBVIOUS
<1>1. CASE OpenDialog BY <1>1, OpenKeeps
<1>2. ASSUME NEW i \in Open, CloseDialog(i) PROVE ChildInvariant'
  BY <1>2, CloseKeeps DEF Open
<1>3. ASSUME NEW i \in Open, AddNewEntry(i) PROVE ChildInvariant'
  BY <1>3, AddKeeps DEF Open
<1>4. ASSUME NEW i \in Open, EntryEdited(i) PROVE ChildInvariant'
  BY <1>4, EditedKeeps DEF Open
<1>5. ASSUME NEW i \in Open, Submit(i) PROVE ChildInvariant'
  BY <1>5, SubmitKeeps DEF Open
<1>6. ASSUME NEW i \in Open, NEW c \in Range(input[i].items), EditEntry(i, c)
      PROVE  ChildInvariant'
  BY <1>6, EditKeeps DEF Open
<1>7. ASSUME NEW i \in Open, NEW index \in DOMAIN input[i].items, RemoveEntry(i, index)
      PROVE  ChildInvariant'
  BY <1>7, RemoveKeeps DEF Open
<1>8. ASSUME NEW i \in Open, NEW v \in Values, Type(i, v) PROVE ChildInvariant'
  BY <1>8, TypeKeeps DEF Open
<1>9. ASSUME NEW n \in Busy, Answered(n) PROVE ChildInvariant'
  BY <1>9, ServePageKeeps, ServeAddKeeps, ServeUpdateKeeps, PageLoadedKeeps,
     PersistedKeeps, PrimaryResourceKeeps DEF Answered
<1>10. ASSUME NEW n \in Busy, Refuse(n) PROVE ChildInvariant'
  BY <1>10, RefuseKeeps
<1>11. CASE UNCHANGED vars
  <2>1. /\ parent' = parent /\ child' = child /\ input' = input /\ closed' = closed
        /\ rows' = rows /\ call' = call /\ saves' = saves /\ faults' = faults /\ user' = user
    BY <1>11 DEF vars, browser, counts
  <2>2. NothingIsLost BY <2>1, Lengths DEF NothingIsLost, ChildInvariant, Types
  <2>3. /\ Inputs' = Inputs /\ Children' = Children /\ Busy' = Busy /\ Listed' = Listed
        /\ Creations' = Creations
    BY <2>1 DEF Inputs, Children, Busy, Listed, Creations
  <2>4. /\ rows \in Seq(StoredRows') /\ child \in Seq(Objects') /\ input \in Seq(Dialogs')
        /\ \A n : IsMessage(n) => IsMessage(n)'
    BY <2>1, <2>2, <2>3, TypesStay, Lengths DEF ChildInvariant, Types
  <2>5. Types' BY <2>1, <2>3, <2>4 DEF ChildInvariant, Types
  <2>6. ListsAreDisjoint' BY <2>1, <2>3 DEF ChildInvariant, ListsAreDisjoint
  <2>7. LabelsListen' BY <2>1, <2>3 DEF ChildInvariant, LabelsListen
  <2>8. OncePerSave' BY <2>1, <2>2, <2>3, OnceStays DEF ChildInvariant
  <2>9. PatientUser'
    BY <2>1, <2>3, PatientStays, ListedObjects DEF ChildInvariant, Unedited
  <2> QED BY <2>5, <2>6, <2>7, <2>8, <2>9 DEF ChildInvariant
<1> QED BY <1>1, <1>2, <1>3, <1>4, <1>5, <1>6, <1>7, <1>8, <1>9, <1>10, <1>11 DEF Next

\* So it holds in every state.
LEMMA ChildInductive == Spec => []ChildInvariant
<1>1. Init => ChildInvariant BY InitHolds
<1>2. ChildInvariant /\ [Next]_vars => ChildInvariant' BY StepKeeps
<1> QED BY <1>1, <1>2, PTL DEF Spec

\* Every child object is in one list at most, at one place; an editor has a listed child;
\* what the server has and what objects say of rows exists; the label of an entry follows
\* it until an editor of it was closed.
THEOREM ChildTypeCorrect == Spec => []TypeOK
<1>1. ASSUME ChildInvariant PROVE TypeOK
  <2>1. Types /\ ListsAreDisjoint /\ LabelsListen BY <1>1 DEF ChildInvariant
  <2>2. /\ rows \in Seq([value : Values, by : 0 .. Len(child), save : 0 .. saves])
        /\ child \in Seq([value : Values, row : 0 .. Len(rows), label : Values,
                          on : Seq({"label", "input"})])
    BY <2>1 DEF Types, StoredRows, Objects, Listeners
  <2>3. \A i \in Inputs : Range(input[i].items) \subseteq Children BY <2>1, ListedIn
  <2>4. parent \in {"new", "created", "listed"} BY <2>1 DEF Types
  <2>5. \A c \in Children : child[c].label # child[c].value => c \in closed
    BY <2>1 DEF LabelsListen
  <2>6. /\ \A i \in Inputs : /\ IsInjective(input[i].items)
                             /\ input[i].editing \in {0} \cup Range(input[i].items)
        /\ \A i, j \in Inputs :
             i # j => Range(input[i].items) \cap Range(input[j].items) = {}
    BY <2>1 DEF ListsAreDisjoint
  <2> QED BY <2>2, <2>3, <2>4, <2>5, <2>6 DEF TypeOK
<1> QED BY <1>1, ChildInductive, PTL

\* Each row that was created from a child has a save of its own: persist() is called once
\* for every "persisted" of the parent, whatever answers overtake each other.
THEOREM RowsHaveASave == Spec => []DuplicateRowsHaveACause
<1>1. ASSUME ChildInvariant PROVE DuplicateRowsHaveACause
  <2>1. Types /\ OncePerSave BY <1>1 DEF ChildInvariant
  <2>2. saves \in Nat BY <2>1 DEF Types
  <2> SUFFICES ASSUME NEW c \in Children
               PROVE  Cardinality(RowsOf(c)) <= IF child[c].row = 0 THEN saves ELSE 0
    BY DEF DuplicateRowsHaveACause
  <2>3. c # 0 BY <2>1, Lengths
  <2>4. \A r \in RowsOf(c) : r \in DOMAIN rows /\ rows[r].by = c BY DEF RowsOf
  <2>5. CASE child[c].row # 0
    <3>1. RowsOf(c) = {} BY <2>1, <2>3, <2>4, <2>5 DEF OncePerSave
    <3> QED BY <2>5, <3>1, FS_EmptySet
  <2>6. CASE child[c].row = 0
    <3> DEFINE f == [r \in RowsOf(c) |-> rows[r].save]
    <3>1. \A r \in RowsOf(c) : rows[r].save \in 1 .. saves
      BY <2>1, <2>2, <2>3, <2>4, Elements DEF OncePerSave, StoredRows
    <3>2. \A r, s \in RowsOf(c) : rows[r].save = rows[s].save => r = s
      BY <2>1, <2>3, <2>4 DEF OncePerSave
    <3>3. f \in Injection(RowsOf(c), 1 .. saves)
      BY <3>1, <3>2 DEF Injection, IsInjective
    <3>4. IsFiniteSet(1 .. saves) /\ Cardinality(1 .. saves) = saves
      BY <2>2, FS_Interval
    <3>5. Cardinality(RowsOf(c)) <= Cardinality(1 .. saves)
      <4> HIDE DEF f
      <4> QED BY <3>3, <3>4, FS_Injection
    <3> QED BY <2>6, <3>4, <3>5
  <2> QED BY <2>5, <2>6
<1> QED BY <1>1, ChildInductive, PTL

\* Who waits for the answers, and is refused nothing, finds what was submitted of every
\* listed child in its row, or what another object of that row has.
THEOREM SubmittedIsStored == Spec => []SubmittedChildrenAreStored
<1>1. ASSUME ChildInvariant PROVE SubmittedChildrenAreStored
  <2> SUFFICES ASSUME Busy = {}, user = "clean", faults = 0, NEW c \in Listed
               PROVE  Stored(c)
    BY DEF SubmittedChildrenAreStored
  <2>1. Types /\ PatientUser /\ c \in Children BY <1>1, ListedObjects DEF ChildInvariant
  <2>2. HasRow(c) BY <2>1 DEF PatientUser, IsSent
  <2>3. PICK r \in DOMAIN rows : IsItsRow(c, r) /\ Reflects(r, c) BY <2>2 DEF HasRow
  <2>4. PICK its : its = IF child[c].row # 0 THEN {child[c].row} ELSE RowsOf(c) OBVIOUS
  <2>5. its \subseteq Nat
    <3>1. \A s \in DOMAIN rows : s \in Nat BY <2>1, Lengths
    <3>2. child[c].row \in Nat BY <2>1, Elements, Lengths DEF Objects
    <3> QED BY <2>4, <3>1, <3>2 DEF RowsOf
  <2>6. r \in its /\ \A s \in its : s <= r
    <3>1. r \in Nat BY <2>1, Lengths
    <3>2. CASE child[c].row # 0 BY <2>3, <2>4, <3>1, <3>2 DEF IsItsRow
    <3>3. CASE child[c].row = 0 BY <2>3, <2>4, <3>3 DEF IsItsRow, RowsOf
    <3> QED BY <3>2, <3>3
  <2>7. ASSUME NEW x \in its, \A y \in its : x >= y PROVE x = r
    <3>1. x \in Nat /\ r \in Nat BY <2>5, <2>6
    <3>2. x >= r /\ x <= r BY <2>6, <2>7
    <3> QED BY <3>1, <3>2
  <2>8. Max(its) = r
    <3>1. \A y \in its : r >= y BY <2>5, <2>6
    <3> QED BY <2>6, <2>7, <3>1 DEF Max
  <2>9. rows[r].value \in {child[d].value : d \in {c} \cup {d \in Children : child[d].row = r}}
    BY <2>3 DEF Reflects
  <2> QED BY <2>4, <2>6, <2>8, <2>9 DEF Stored
<1> QED BY <1>1, ChildInductive, PTL
=============================================================================
