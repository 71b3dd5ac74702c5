------------------------- MODULE ShoppingCartProofs -------------------------
(***************************************************************************)
(* Theorems about ShoppingCart, for every number of requests, carts, items *)
(* and keys, every limit and all amounts.                                  *)
(***************************************************************************)
EXTENDS ShoppingCart, TLAPS

\* Adding to an item leads to a quantity that is allowed, whatever the sum.
LEMMA CappedIsAllowed ==
  ASSUME NEW q \in Int, q >= 0
  PROVE  Capped(q) \in Quantities
BY LimitAssumption DEF Capped, Quantities

\* Quantities can be computed with.
LEMMA QuantitiesAreNumbers == Quantities \subseteq Int
BY AmountAssumption, LimitAssumption DEF Quantities

\* The initial rows and requests have their types.
LEMMA TypeInit == Init => TypeOK
<1> SUFFICES ASSUME Init PROVE TypeOK OBVIOUS
<1>1. (CHOOSE k \in Keys : TRUE) \in Keys /\ (CHOOSE n \in Amounts : TRUE) \in Amounts
  BY AmountAssumption
<1>2. 0 \in Quantities
  BY LimitAssumption DEF Quantities
<1>3. quantity \in [Items -> Quantities]
  BY <1>2 DEF Init
<1>4. keyOf \in [Items -> Keys] /\ key \in [Requests -> Keys] /\ amount \in [Requests -> Amounts]
  BY <1>1 DEF Init
<1>5. inCart \in [Items -> 0 .. carts] /\ \A i \in Items : i > made => inCart[i] = 0
  BY DEF Init
<1>6. carts \in 0 .. MaxCarts /\ made \in 0 .. MaxItems /\ target \in [Requests -> 0 .. MaxItems]
  BY BoundAssumption DEF Init
<1>7. base \in [Requests -> [Items -> Quantities]]
  BY <1>3 DEF Init
<1>8. pc \in [Requests -> Steps] /\ \A r \in Requests : pc[r] # "update"
  BY DEF Init, Steps
<1>9. calm \in BOOLEAN /\ crowded \in BOOLEAN /\ contested \subseteq Keys
  BY DEF Init
<1>10. goal \in [Requests -> Int] /\ cart \in [Requests -> 0 .. carts]
  BY DEF Init
<1>11. kind \in [Requests -> {"add", "set", "remove", "delete", "refresh"}]
  BY DEF Init
<1>12. seen \in [Requests -> SUBSET Items] /\ todo \in [Requests -> SUBSET Items]
  BY DEF Init
<1> QED BY <1>3, <1>4, <1>5, <1>6, <1>7, <1>8, <1>9, <1>10, <1>11, <1>12 DEF TypeOK

\* Each step keeps the types.
LEMMA TypeStep == TypeOK /\ [Next]_vars => TypeOK'
<1> SUFFICES ASSUME TypeOK, [Next]_vars PROVE TypeOK' OBVIOUS
<1> USE DEF TypeOK, Items, Steps
<1> USE DEF rows, asked, copy, plan, history
<1>0. CASE UNCHANGED vars
  BY <1>0 DEF vars
<1>1. ASSUME NEW r \in Requests, NEW k \in Keys, NEW n \in Amounts, BeginAdd(r, k, n)
      PROVE  TypeOK'
  BY <1>1 DEF BeginAdd, Begin
<1>2. ASSUME NEW r \in Requests, NEW i \in Items, NEW n \in Amounts, BeginSet(r, i, n)
      PROVE  TypeOK'
  <2>1. keyOf[i] \in Keys /\ n \in Int /\ n \in Quantities /\ i \in 0 .. MaxItems
    BY AmountAssumption, BoundAssumption DEF Quantities
  <2>2. pc' \in [Requests -> Steps] /\ goal' \in [Requests -> Int]
    BY <1>2, <2>1 DEF BeginSet, Begin
  <2>3. \A s \in Requests : pc'[s] = "update" => goal'[s] \in Quantities
    BY <1>2, <2>1 DEF BeginSet, Begin
  <2>4. /\ key' \in [Requests -> Keys] /\ amount' \in [Requests -> Amounts]
        /\ target' \in [Requests -> 0 .. MaxItems] /\ calm' \in BOOLEAN
    BY <1>2, <2>1 DEF BeginSet, Begin
  <2>5. kind' \in [Requests -> {"add", "set", "remove", "delete", "refresh"}]
    BY <1>2 DEF BeginSet, Begin
  <2>6. UNCHANGED <<rows, copy, crowded, contested>>
    BY <1>2 DEF BeginSet, Begin
  <2> QED BY <2>2, <2>3, <2>4, <2>5, <2>6
<1>3. ASSUME NEW r \in Requests, NEW i \in Items, BeginRemove(r, i)
      PROVE  TypeOK'
  <2>1. keyOf[i] \in Keys /\ i \in 0 .. MaxItems
    BY BoundAssumption
  <2>2. pc' \in [Requests -> Steps]
    <3>1. pc' = [pc EXCEPT ![r] = "delete"] \/ pc' = [pc EXCEPT ![r] = "find"]
      BY <1>3 DEF BeginRemove, Begin
    <3> QED BY <3>1
  <2>3. \A s \in Requests : pc'[s] = "update" => goal'[s] \in Quantities
    BY <1>3 DEF BeginRemove, Begin
  <2>4. /\ key' \in [Requests -> Keys] /\ target' \in [Requests -> 0 .. MaxItems]
        /\ calm' \in BOOLEAN
    BY <1>3, <2>1 DEF BeginRemove, Begin
  <2>5. kind' \in [Requests -> {"add", "set", "remove", "delete", "refresh"}]
    BY <1>3 DEF BeginRemove, Begin
  <2>6. UNCHANGED <<rows, copy, amount, goal, crowded, contested>>
    BY <1>3 DEF BeginRemove, Begin
  <2> QED BY <2>2, <2>3, <2>4, <2>5, <2>6
<1>4. ASSUME NEW r \in Requests, BeginRefresh(r)
      PROVE  TypeOK'
  BY <1>4 DEF BeginRefresh, Begin
<1>5. ASSUME NEW r \in Requests, MissCart(r)
      PROVE  TypeOK'
  BY <1>5 DEF MissCart
<1>6. ASSUME NEW r \in Requests, FindItem(r)
      PROVE  TypeOK'
  <2>1. PICK i \in ItemsWith(key[r]) :
          LET q == quantity[i] + amount[r] IN
          /\ target' = [target EXCEPT ![r] = i] /\ goal' = [goal EXCEPT ![r] = Capped(q)]
          /\ pc' = [pc EXCEPT ![r] = IF q < 0 THEN "delete" ELSE "update"]
    BY <1>6 DEF FindItem
  <2> DEFINE q == quantity[i] + amount[r]
  <2>2. i \in Items /\ q \in Int
    <3>1. i \in Items
      BY DEF ItemsWith
    <3>2. quantity[i] \in Int /\ amount[r] \in Int
      BY <3>1, AmountAssumption, QuantitiesAreNumbers
    <3> QED BY <3>1, <3>2
  <2>3. Capped(q) \in Int /\ (q >= 0 => Capped(q) \in Quantities)
    BY <2>2, LimitAssumption, CappedIsAllowed DEF Capped
  <2>4. /\ target' = [target EXCEPT ![r] = i] /\ goal' = [goal EXCEPT ![r] = Capped(q)]
        /\ pc' = [pc EXCEPT ![r] = IF q < 0 THEN "delete" ELSE "update"]
    BY <2>1
  <2>5. UNCHANGED <<rows, asked, copy, history>>
    BY <1>6 DEF FindItem
  <2> HIDE DEF q
  <2> QED BY <2>2, <2>3, <2>4, <2>5
<1>7. ASSUME NEW r \in Requests, MissItem(r)
      PROVE  TypeOK'
  BY <1>7 DEF MissItem
<1>8. ASSUME NEW r \in Requests, CreateCart(r)
      PROVE  TypeOK'
  BY <1>8, BoundAssumption DEF CreateCart
<1>9. ASSUME NEW r \in Requests, CreateItem(r)
      PROVE  TypeOK'
  <2>1. amount[r] \in Quantities /\ made' \in Items /\ cart[r] \in 0 .. carts
    BY <1>9, BoundAssumption DEF CreateItem, Quantities
  <2> QED BY <1>9, <2>1 DEF CreateItem
<1>10. ASSUME NEW r \in Requests, UpdateItem(r)
      PROVE  TypeOK'
  BY <1>10 DEF UpdateItem
<1>11. ASSUME NEW r \in Requests, DeleteItem(r)
      PROVE  TypeOK'
  <2>0. 0 \in 0 .. carts
    BY BoundAssumption
  <2>1. inCart' \in [Items -> 0 .. carts]
    BY <1>11, <2>0 DEF DeleteItem
  <2>2. ASSUME NEW i \in Items, i > made PROVE inCart'[i] = 0
    <3>1. inCart[i] = 0
      BY <2>2
    <3> QED BY <1>11, <3>1 DEF DeleteItem
  <2> QED BY <1>11, <2>1, <2>2 DEF DeleteItem
<1>12. ASSUME NEW r \in Requests, CopyCart(r)
      PROVE  TypeOK'
  BY <1>12 DEF CopyCart, ItemsOf
<1>13. ASSUME NEW r \in Requests, NEW i \in Items, SendItem(r, i)
      PROVE  TypeOK'
  BY <1>13 DEF SendItem
<1>14. ASSUME NEW r \in Requests, Refresh(r)
      PROVE  TypeOK'
  <2>1. quantity' \in [Items -> Quantities]
    <3>1. ASSUME NEW i \in Items PROVE base[r][i] \in Quantities /\ quantity[i] \in Quantities
      OBVIOUS
    <3> HIDE DEF Items
    <3> QED BY <1>14, <3>1 DEF Refresh
  <2>0. 0 \in 0 .. carts
    BY BoundAssumption
  <2>2. inCart' \in [Items -> 0 .. carts]
    BY <1>14, <2>0 DEF Refresh
  <2>3. ASSUME NEW i \in Items, i > made PROVE inCart'[i] = 0
    <3>1. inCart[i] = 0
      BY <2>3
    <3>2. inCart'[i] = inCart[i] \/ inCart'[i] = 0
      BY <1>14 DEF Refresh
    <3> QED BY <3>1, <3>2
  <2>4. pc' \in [Requests -> Steps] /\ \A s \in Requests : pc'[s] = "update" => pc[s] = "update"
    BY <1>14 DEF Refresh
  <2> QED BY <1>14, <2>1, <2>2, <2>3, <2>4 DEF Refresh
<1>15. ASSUME NEW r \in Requests, Break(r)
      PROVE  TypeOK'
  BY <1>15 DEF Break
<1> HIDE DEF TypeOK
<1> QED BY <1>0, <1>1, <1>2, <1>3, <1>4, <1>5, <1>6, <1>7, <1>8, <1>9, <1>10, <1>11, <1>12,
           <1>13, <1>14, <1>15 DEF Next, Step

\* Rows and requests have their types, and no quantity outside of zero to the limit arises
\* that no request asked for.
THEOREM TypeCorrect == Spec => []TypeOK
<1>1. Init => TypeOK
  BY TypeInit
<1>2. TypeOK /\ [Next]_vars => TypeOK'
  BY TypeStep
<1> QED BY <1>1, <1>2, PTL DEF Spec
-----------------------------------------------------------------------------
(* Duplicates.  The invariant says what each request may still rely on of what it read: *)
(* there is no cart, or no item of its key in its cart, unless others add as well.      *)

AddsAreCounted ==
  \A r, s \in Requests :
    r # s /\ Adding(r) /\ Adding(s) => crowded /\ (key[r] = key[s] => key[r] \in contested)

MissedCarts == \A r \in Requests : pc[r] = "createCart" => kind[r] = "add" /\ (carts = 0 \/ crowded)

MissedItems ==
  \A r \in Requests : pc[r] = "createItem" =>
    /\ kind[r] = "add" /\ cart[r] \in 1 .. carts
    /\ key[r] \in contested \/ \A i \in ItemsOf(cart[r]) : keyOf[i] # key[r]

DuplicatesInvariant == DuplicatesHaveACause /\ AddsAreCounted /\ MissedCarts /\ MissedItems

\* Whatever creates no row and begins no request that adds keeps it.
LEMMA DuplicatesQuiet ==
  ASSUME TypeOK, DuplicatesInvariant,
         UNCHANGED <<carts, keyOf, crowded, contested>>,
         \A i \in Items : inCart'[i] = inCart[i] \/ inCart'[i] = 0,
         \A s \in Requests : Adding(s)' => Adding(s) /\ key'[s] = key[s],
         \A s \in Requests : pc'[s] \in {"createCart", "createItem"} =>
           pc'[s] = pc[s] /\ cart'[s] = cart[s] /\ kind'[s] = kind[s] /\ key'[s] = key[s]
  PROVE  DuplicatesInvariant'
<1>1. DuplicatesHaveACause'
  BY DEF DuplicatesInvariant, DuplicatesHaveACause, Exists
<1>2. AddsAreCounted'
  BY DEF DuplicatesInvariant, AddsAreCounted
<1>3. MissedCarts'
  BY DEF DuplicatesInvariant, MissedCarts
<1>4. MissedItems'
  <2> SUFFICES ASSUME NEW r \in Requests, pc'[r] = "createItem"
               PROVE  /\ kind'[r] = "add" /\ cart'[r] \in 1 .. carts'
                      /\ key'[r] \in contested' \/ \A i \in ItemsOf(cart[r])' : keyOf'[i] # key'[r]
    BY DEF MissedItems, ItemsOf
  <2>1. /\ kind[r] = "add" /\ cart[r] \in 1 .. carts
        /\ key[r] \in contested \/ \A i \in ItemsOf(cart[r]) : keyOf[i] # key[r]
    BY DEF DuplicatesInvariant, MissedItems
  <2>2. ItemsOf(cart[r])' \subseteq ItemsOf(cart[r])
    BY <2>1 DEF ItemsOf, TypeOK
  <2> QED BY <2>1, <2>2
<1> QED BY <1>1, <1>2, <1>3, <1>4 DEF DuplicatesInvariant

\* Every step keeps that duplicates have a cause.
LEMMA DuplicatesStep ==
  TypeOK /\ DuplicatesInvariant /\ [Next]_vars => DuplicatesInvariant'
<1> SUFFICES ASSUME TypeOK, DuplicatesInvariant, [Next]_vars PROVE DuplicatesInvariant'
  OBVIOUS
<1> USE DEF rows, asked, copy, plan, history
<1>0. CASE UNCHANGED vars
  BY <1>0, DuplicatesQuiet DEF vars, Adding, InFlight
<1>1. ASSUME NEW r \in Requests, NEW k \in Keys, NEW n \in Amounts, BeginAdd(r, k, n)
      PROVE  DuplicatesInvariant'
  <2>1. DuplicatesHaveACause'
    BY <1>1 DEF BeginAdd, Begin, DuplicatesInvariant, DuplicatesHaveACause, Exists
  <2>2. AddsAreCounted'
    <3> SUFFICES ASSUME NEW s \in Requests, NEW t \in Requests, s # t, Adding(s)', Adding(t)'
                 PROVE  crowded' /\ (key'[s] = key'[t] => key'[s] \in contested')
      BY DEF AddsAreCounted, Adding, InFlight
    <3>1. \A u \in Requests : u # r => (Adding(u)' <=> Adding(u)) /\ key'[u] = key[u]
      BY <1>1 DEF BeginAdd, Begin, Adding, InFlight, TypeOK
    <3>2. key'[r] = k
      BY <1>1 DEF BeginAdd, TypeOK
    <3>3. crowded => crowded'
      BY <1>1 DEF BeginAdd
    <3>4. contested \subseteq contested'
      BY <1>1 DEF BeginAdd
    <3>5. \A u \in Requests : Adding(u) => crowded' /\ (key[u] = k => k \in contested')
      BY <1>1 DEF BeginAdd
    <3>6. CASE s = r \/ t = r
      BY <3>1, <3>2, <3>5, <3>6
    <3>7. CASE s # r /\ t # r
      BY <3>1, <3>3, <3>4, <3>7 DEF DuplicatesInvariant, AddsAreCounted
    <3> QED BY <3>6, <3>7
  <2>3. \A s \in Requests : pc'[s] \in {"createCart", "createItem"} =>
          s # r /\ pc'[s] = pc[s] /\ cart'[s] = cart[s] /\ kind'[s] = kind[s] /\ key'[s] = key[s]
    BY <1>1 DEF BeginAdd, Begin, TypeOK
  <2>4. (crowded => crowded') /\ contested \subseteq contested' /\ UNCHANGED rows
    BY <1>1 DEF BeginAdd, Begin
  <2>5. MissedCarts'
    BY <2>3, <2>4 DEF DuplicatesInvariant, MissedCarts
  <2>6. MissedItems'
    BY <2>3, <2>4 DEF DuplicatesInvariant, MissedItems, ItemsOf
  <2> QED BY <2>1, <2>2, <2>5, <2>6 DEF DuplicatesInvariant
<1>2. ASSUME NEW r \in Requests, NEW i \in Items, NEW n \in Amounts, BeginSet(r, i, n)
      PROVE  DuplicatesInvariant'
  BY <1>2, DuplicatesQuiet DEF BeginSet, Begin, Adding, InFlight, TypeOK
<1>3. ASSUME NEW r \in Requests, NEW i \in Items, BeginRemove(r, i)
      PROVE  DuplicatesInvariant'
  BY <1>3, DuplicatesQuiet DEF BeginRemove, Begin, Adding, InFlight, TypeOK
<1>4. ASSUME NEW r \in Requests, BeginRefresh(r)
      PROVE  DuplicatesInvariant'
  BY <1>4, DuplicatesQuiet DEF BeginRefresh, Begin, Adding, InFlight, TypeOK
<1>5. ASSUME NEW r \in Requests, MissCart(r)
      PROVE  DuplicatesInvariant'
  <2>1. \A s \in Requests : Adding(s)' => Adding(s)
    BY <1>5 DEF MissCart, Adding, InFlight, TypeOK
  <2>2. MissedCarts'
    BY <1>5 DEF MissCart, DuplicatesInvariant, MissedCarts, TypeOK
  <2>3. MissedItems'
    BY <1>5 DEF MissCart, DuplicatesInvariant, MissedItems, ItemsOf, TypeOK
  <2>4. AddsAreCounted'
    BY <1>5, <2>1 DEF MissCart, DuplicatesInvariant, AddsAreCounted
  <2>5. DuplicatesHaveACause'
    BY <1>5 DEF MissCart, DuplicatesInvariant, DuplicatesHaveACause, Exists
  <2> QED BY <2>2, <2>3, <2>4, <2>5 DEF DuplicatesInvariant
<1>6. ASSUME NEW r \in Requests, FindItem(r)
      PROVE  DuplicatesInvariant'
  BY <1>6, DuplicatesQuiet DEF FindItem, Adding, InFlight, TypeOK
<1>7. ASSUME NEW r \in Requests, MissItem(r)
      PROVE  DuplicatesInvariant'
  <2>1. PICK c \in 1 .. carts :
          /\ \A i \in ItemsOf(c) : keyOf[i] # key[r]
          /\ cart' = [cart EXCEPT ![r] = c]
    BY <1>7 DEF MissItem
  <2>2. \A s \in Requests : Adding(s)' => Adding(s)
    BY <1>7 DEF MissItem, Adding, InFlight, TypeOK
  <2>3. MissedCarts'
    BY <1>7 DEF MissItem, DuplicatesInvariant, MissedCarts, TypeOK
  <2>4. MissedItems'
    BY <1>7, <2>1 DEF MissItem, DuplicatesInvariant, MissedItems, ItemsOf, TypeOK
  <2>5. AddsAreCounted'
    BY <1>7, <2>2 DEF MissItem, DuplicatesInvariant, AddsAreCounted
  <2>6. DuplicatesHaveACause'
    BY <1>7 DEF MissItem, DuplicatesInvariant, DuplicatesHaveACause, Exists
  <2> QED BY <2>3, <2>4, <2>5, <2>6 DEF DuplicatesInvariant
<1>8. ASSUME NEW r \in Requests, CreateCart(r)
      PROVE  DuplicatesInvariant'
  <2>1. pc[r] = "createCart" /\ carts \in Nat /\ carts' = carts + 1 /\ cart'[r] = carts + 1
    BY <1>8, BoundAssumption DEF CreateCart, TypeOK
  <2>2. UNCHANGED <<inCart, keyOf, kind, key, crowded, contested>>
    BY <1>8 DEF CreateCart
  <2>3. \A s \in Requests : s # r => pc'[s] = pc[s] /\ cart'[s] = cart[s]
    BY <1>8 DEF CreateCart, TypeOK
  <2>4. kind[r] = "add" /\ (carts = 0 \/ crowded)
    BY <2>1 DEF DuplicatesInvariant, MissedCarts
  <2>5. pc'[r] = "createItem"
    BY <1>8 DEF CreateCart, TypeOK
  <2>6. \A s \in Requests : Adding(s)' => Adding(s)
    BY <2>1, <2>2, <2>3, <2>4, <2>5 DEF Adding, InFlight
  <2>7. DuplicatesHaveACause'
    BY <2>1, <2>2, <2>4 DEF DuplicatesInvariant, DuplicatesHaveACause, Exists
  <2>8. AddsAreCounted'
    BY <2>2, <2>6 DEF DuplicatesInvariant, AddsAreCounted
  <2>9. MissedCarts'
    <3> SUFFICES ASSUME NEW s \in Requests, pc'[s] = "createCart"
                 PROVE  kind'[s] = "add" /\ crowded'
      BY DEF MissedCarts
    <3>1. s # r /\ pc[s] = "createCart" /\ kind[s] = "add"
      BY <2>3, <2>5 DEF DuplicatesInvariant, MissedCarts
    <3>2. Adding(s) /\ Adding(r)
      BY <2>1, <2>4, <3>1 DEF Adding, InFlight
    <3> QED BY <2>2, <3>1, <3>2 DEF DuplicatesInvariant, AddsAreCounted
  <2>10. MissedItems'
    <3> SUFFICES ASSUME NEW s \in Requests, pc'[s] = "createItem"
                 PROVE  /\ kind'[s] = "add" /\ cart'[s] \in 1 .. carts'
                        /\ key'[s] \in contested' \/ \A i \in ItemsOf(cart'[s]) : keyOf[i] # key[s]
      BY <2>2 DEF MissedItems, ItemsOf
    <3>1. CASE s = r
      <4>1. ItemsOf(carts + 1) = {}
        BY <2>1 DEF ItemsOf, TypeOK
      <4> QED BY <2>1, <2>2, <2>4, <3>1, <4>1
    <3>2. CASE s # r
      BY <2>1, <2>2, <2>3, <3>2 DEF DuplicatesInvariant, MissedItems
    <3> QED BY <3>1, <3>2
  <2> QED BY <2>7, <2>8, <2>9, <2>10 DEF DuplicatesInvariant
<1>9. ASSUME NEW r \in Requests, CreateItem(r)
      PROVE  DuplicatesInvariant'
  <2> DEFINE m == made + 1
  <2>1. m \in Items /\ inCart[m] = 0
    BY <1>9, BoundAssumption DEF CreateItem, TypeOK, Items
  <2>2. /\ inCart' = [inCart EXCEPT ![m] = cart[r]] /\ keyOf' = [keyOf EXCEPT ![m] = key[r]]
        /\ pc[r] = "createItem" /\ pc' = [pc EXCEPT ![r] = "done"]
        /\ UNCHANGED <<carts, cart, kind, key, crowded, contested>>
    BY <1>9 DEF CreateItem
  <2> HIDE DEF m
  <2>3. /\ kind[r] = "add" /\ cart[r] \in 1 .. carts
        /\ key[r] \in contested \/ \A i \in ItemsOf(cart[r]) : keyOf[i] # key[r]
    BY <2>2 DEF DuplicatesInvariant, MissedItems
  <2>4. /\ inCart'[m] = cart[r] /\ keyOf'[m] = key[r]
        /\ \A i \in Items : i # m => inCart'[i] = inCart[i] /\ keyOf'[i] = keyOf[i]
    BY <2>1, <2>2 DEF TypeOK
  <2>5. \A s \in Requests : pc'[s] # "done" => s # r /\ pc'[s] = pc[s]
    BY <2>2 DEF TypeOK
  <2>6. \A s \in Requests : Adding(s)' => Adding(s)
    BY <2>2, <2>5 DEF Adding, InFlight
  <2>7. DuplicatesHaveACause'
    <3>1. carts' > 1 => crowded'
      BY <2>2 DEF DuplicatesInvariant, DuplicatesHaveACause
    <3>2. ASSUME NEW i \in Items, NEW j \in Items, i # j, inCart'[i] # 0,
                 inCart'[i] = inCart'[j], keyOf'[i] = keyOf'[j]
          PROVE  keyOf'[i] \in contested
      <4>1. CASE i = m
        BY <2>3, <2>4, <3>2, <4>1 DEF ItemsOf
      <4>2. CASE j = m
        BY <2>3, <2>4, <3>2, <4>2 DEF ItemsOf
      <4>3. CASE i # m /\ j # m
        BY <2>4, <3>2, <4>3 DEF DuplicatesInvariant, DuplicatesHaveACause, Exists
      <4> QED BY <4>1, <4>2, <4>3
    <3> QED BY <2>2, <3>1, <3>2 DEF DuplicatesHaveACause, Exists
  <2>8. AddsAreCounted'
    BY <2>2, <2>6 DEF DuplicatesInvariant, AddsAreCounted
  <2>9. MissedCarts'
    BY <2>2, <2>5 DEF DuplicatesInvariant, MissedCarts
  <2>10. MissedItems'
    <3> SUFFICES ASSUME NEW s \in Requests, pc'[s] = "createItem"
                 PROVE  /\ kind'[s] = "add" /\ cart'[s] \in 1 .. carts'
                        /\ \/ key'[s] \in contested'
                           \/ \A i \in Items : inCart'[i] = cart[s] => keyOf'[i] # key[s]
      BY <2>2 DEF MissedItems, ItemsOf
    <3>1. s # r /\ pc[s] = "createItem"
      BY <2>5
    <3>2. /\ kind[s] = "add" /\ cart[s] \in 1 .. carts
          /\ key[s] \in contested \/ \A i \in ItemsOf(cart[s]) : keyOf[i] # key[s]
      BY <3>1 DEF DuplicatesInvariant, MissedItems
    <3>3. key[s] = key[r] => key[s] \in contested
      BY <2>2, <2>3, <3>1, <3>2 DEF DuplicatesInvariant, AddsAreCounted, Adding, InFlight
    <3>4. \A i \in Items : inCart'[i] = cart[s] /\ i # m => i \in ItemsOf(cart[s])
      BY <2>4 DEF ItemsOf
    <3> QED BY <2>2, <2>4, <3>2, <3>3, <3>4
  <2> QED BY <2>7, <2>8, <2>9, <2>10 DEF DuplicatesInvariant
<1>10. ASSUME NEW r \in Requests, UpdateItem(r)
      PROVE  DuplicatesInvariant'
  BY <1>10, DuplicatesQuiet DEF UpdateItem, Adding, InFlight, TypeOK
<1>11. ASSUME NEW r \in Requests, DeleteItem(r)
      PROVE  DuplicatesInvariant'
  BY <1>11, DuplicatesQuiet DEF DeleteItem, Adding, InFlight, TypeOK
<1>12. ASSUME NEW r \in Requests, CopyCart(r)
      PROVE  DuplicatesInvariant'
  BY <1>12, DuplicatesQuiet DEF CopyCart, Adding, InFlight, TypeOK
<1>13. ASSUME NEW r \in Requests, NEW i \in Items, SendItem(r, i)
      PROVE  DuplicatesInvariant'
  BY <1>13, DuplicatesQuiet DEF SendItem, Adding, InFlight, TypeOK
<1>14. ASSUME NEW r \in Requests, Refresh(r)
      PROVE  DuplicatesInvariant'
  BY <1>14, DuplicatesQuiet DEF Refresh, Adding, InFlight, TypeOK
<1>15. ASSUME NEW r \in Requests, Break(r)
      PROVE  DuplicatesInvariant'
  BY <1>15, DuplicatesQuiet DEF Break, Adding, InFlight, TypeOK
<1> QED BY <1>0, <1>1, <1>2, <1>3, <1>4, <1>5, <1>6, <1>7, <1>8, <1>9, <1>10, <1>11, <1>12,
           <1>13, <1>14, <1>15 DEF Next, Step

\* However many requests add, set, remove, refresh and fail, a second cart and a second
\* item of a key come from requests that add at the same time.
THEOREM DuplicatesAreExplained == Spec => []DuplicatesHaveACause
<1>1. Init => TypeOK /\ DuplicatesInvariant
  BY TypeInit DEF Init, DuplicatesInvariant, DuplicatesHaveACause, AddsAreCounted, MissedCarts,
                  MissedItems, Adding, InFlight, Exists
<1>2. TypeOK /\ DuplicatesInvariant /\ [Next]_vars => (TypeOK /\ DuplicatesInvariant)'
  BY TypeStep, DuplicatesStep
<1>3. DuplicatesInvariant => DuplicatesHaveACause
  BY DEF DuplicatesInvariant
<1> QED BY <1>1, <1>2, <1>3, PTL DEF Spec
-----------------------------------------------------------------------------
(* Refinement.  As long as the user waits for each answer there is one request, and what *)
(* it read is what the rows say.                                                        *)

Alone == \A r, s \in Requests : InFlight(r) /\ InFlight(s) => r = s

Aims(r) == target[r] \in Items /\ keyOf[target[r]] = key[r]

PlanIsCurrent(r) ==
  /\ pc[r] = "find" =>
       \/ kind[r] = "add"
       \/ kind[r] = "refresh" /\ target[r] = 0
       \/ kind[r] = "remove" /\ Aims(r)
  /\ pc[r] = "update" =>
       /\ Aims(r)
       /\ \/ kind[r] = "set" /\ goal[r] = amount[r]
          \/ /\ kind[r] = "add"
             /\ quantity[target[r]] + amount[r] >= 0
             /\ goal[r] = Capped(quantity[target[r]] + amount[r])
  /\ pc[r] = "delete" =>
       /\ Aims(r)
       /\ \/ kind[r] = "delete"
          \/ kind[r] = "add" /\ quantity[target[r]] + amount[r] < 0
  /\ pc[r] = "send" =>
       /\ \/ kind[r] = "refresh" /\ target[r] = 0
          \/ kind[r] = "remove" /\ Aims(r)
       /\ cart[r] \in 1 .. carts
       /\ seen[r] = ItemsOf(cart[r]) \ {target[r]} /\ todo[r] \subseteq seen[r]
       /\ \A i \in seen[r] : base[r][i] = quantity[i]

CalmInvariant ==
  /\ \A r \in Requests : pc[r] = "idle" => target[r] = 0
  /\ calm => /\ Alone /\ ~crowded /\ contested = {}
             /\ \A r \in Requests : PlanIsCurrent(r)

\* What is to be shown of a step of one request.
LEMMA CalmByOne ==
  ASSUME CalmInvariant, NEW r \in Requests,
         calm' => calm /\ \A s \in Requests : s # r => ~InFlight(s),
         \A s \in Requests : s # r => pc'[s] = pc[s] /\ target'[s] = target[s],
         pc'[r] # "idle",
         calm' => ~crowded' /\ contested' = {} /\ PlanIsCurrent(r)'
  PROVE  CalmInvariant'
<1>1. \A s \in Requests : pc'[s] = "idle" => target'[s] = 0
  BY DEF CalmInvariant
<1>2. ASSUME calm' PROVE Alone'
  BY <1>2 DEF Alone, InFlight
<1>3. ASSUME calm', NEW s \in Requests, s # r PROVE PlanIsCurrent(s)'
  BY <1>3 DEF PlanIsCurrent, InFlight
<1> QED BY <1>1, <1>2, <1>3 DEF CalmInvariant

\* A step that begins nothing is one of the request that is under way.
LEMMA CalmByCurrent ==
  ASSUME CalmInvariant, NEW r \in Requests, InFlight(r),
         UNCHANGED history,
         \A s \in Requests : s # r => pc'[s] = pc[s] /\ target'[s] = target[s],
         pc'[r] # "idle",
         calm /\ PlanIsCurrent(r) => PlanIsCurrent(r)'
  PROVE  CalmInvariant'
<1>1. calm => \A s \in Requests : s # r => ~InFlight(s)
  BY DEF CalmInvariant, Alone
<1>2. calm => ~crowded' /\ contested' = {} /\ PlanIsCurrent(r)'
  BY DEF CalmInvariant, history
<1> QED BY <1>1, <1>2, CalmByOne DEF history

\* Every step keeps that lone requests work with current rows.
LEMMA CalmStep ==
  TypeOK /\ DuplicatesInvariant /\ CalmInvariant /\ [Next]_vars => CalmInvariant'
<1> SUFFICES ASSUME TypeOK, DuplicatesInvariant, CalmInvariant, [Next]_vars PROVE CalmInvariant'
  OBVIOUS
<1> USE DEF rows, asked, copy, plan, history
<1>0. CASE UNCHANGED vars
  BY <1>0 DEF vars, CalmInvariant, Alone, PlanIsCurrent, Aims, ItemsOf, InFlight
<1>1. ASSUME NEW r \in Requests, NEW k \in Keys, NEW n \in Amounts, BeginAdd(r, k, n)
      PROVE  CalmInvariant'
  <2>1. calm' => calm /\ \A s \in Requests : ~InFlight(s)
    BY <1>1 DEF BeginAdd, Begin
  <2>2. calm' => ~crowded' /\ contested' = {}
    BY <1>1, <2>1 DEF BeginAdd, Begin, CalmInvariant, Adding
  <2>3. pc'[r] = "find" /\ kind'[r] = "add"
    BY <1>1 DEF BeginAdd, Begin, TypeOK
  <2>4. \A s \in Requests : s # r => pc'[s] = pc[s] /\ target'[s] = target[s]
    BY <1>1 DEF BeginAdd, Begin, TypeOK
  <2>5. PlanIsCurrent(r)'
    BY <2>3 DEF PlanIsCurrent
  <2> QED BY <2>1, <2>2, <2>3, <2>4, <2>5, CalmByOne
<1>2. ASSUME NEW r \in Requests, NEW i \in Items, NEW n \in Amounts, BeginSet(r, i, n)
      PROVE  CalmInvariant'
  <2>1. calm' => calm /\ \A s \in Requests : ~InFlight(s)
    BY <1>2 DEF BeginSet, Begin
  <2>2. calm' => ~crowded' /\ contested' = {}
    BY <1>2, <2>1 DEF BeginSet, CalmInvariant
  <2>3. /\ pc'[r] = "update" /\ kind'[r] = "set" /\ target'[r] = i /\ key'[r] = keyOf'[i]
        /\ goal'[r] = n /\ amount'[r] = n
    BY <1>2 DEF BeginSet, Begin, TypeOK
  <2>4. \A s \in Requests : s # r => pc'[s] = pc[s] /\ target'[s] = target[s]
    BY <1>2 DEF BeginSet, Begin, TypeOK
  <2>5. PlanIsCurrent(r)'
    BY <2>3 DEF PlanIsCurrent, Aims
  <2> QED BY <2>1, <2>2, <2>3, <2>4, <2>5, CalmByOne
<1>3. ASSUME NEW r \in Requests, NEW i \in Items, BeginRemove(r, i)
      PROVE  CalmInvariant'
  <2>1. calm' => calm /\ \A s \in Requests : ~InFlight(s)
    BY <1>3 DEF BeginRemove, Begin
  <2>2. calm' => ~crowded' /\ contested' = {}
    BY <1>3, <2>1 DEF BeginRemove, CalmInvariant
  <2>3. /\ \/ pc'[r] = "delete" /\ kind'[r] = "delete"
           \/ pc'[r] = "find" /\ kind'[r] = "remove"
        /\ target'[r] = i /\ key'[r] = keyOf'[i]
    BY <1>3 DEF BeginRemove, Begin, TypeOK
  <2>4. \A s \in Requests : s # r => pc'[s] = pc[s] /\ target'[s] = target[s]
    BY <1>3 DEF BeginRemove, Begin, TypeOK
  <2>5. PlanIsCurrent(r)'
    BY <2>3 DEF PlanIsCurrent, Aims
  <2> QED BY <2>1, <2>2, <2>3, <2>4, <2>5, CalmByOne
<1>4. ASSUME NEW r \in Requests, BeginRefresh(r)
      PROVE  CalmInvariant'
  <2>1. calm' => calm /\ \A s \in Requests : ~InFlight(s)
    BY <1>4 DEF BeginRefresh, Begin
  <2>2. calm' => ~crowded' /\ contested' = {}
    BY <1>4, <2>1 DEF BeginRefresh, CalmInvariant
  <2>3. pc'[r] = "find" /\ kind'[r] = "refresh" /\ target'[r] = 0
    BY <1>4 DEF BeginRefresh, Begin, TypeOK, CalmInvariant
  <2>4. \A s \in Requests : s # r => pc'[s] = pc[s] /\ target'[s] = target[s]
    BY <1>4 DEF BeginRefresh, Begin, TypeOK
  <2>5. PlanIsCurrent(r)'
    BY <2>3 DEF PlanIsCurrent
  <2> QED BY <2>1, <2>2, <2>3, <2>4, <2>5, CalmByOne
<1>5. ASSUME NEW r \in Requests, MissCart(r)
      PROVE  CalmInvariant'
  <2>1. pc'[r] \in {"createCart", "done"}
    BY <1>5 DEF MissCart, TypeOK
  <2>2. PlanIsCurrent(r)'
    BY <2>1 DEF PlanIsCurrent
  <2> QED BY <1>5, <2>1, <2>2, CalmByCurrent DEF MissCart, InFlight, TypeOK
<1>6. ASSUME NEW r \in Requests, FindItem(r)
      PROVE  CalmInvariant'
  <2>1. PICK i \in ItemsWith(key[r]) :
          LET q == quantity[i] + amount[r] IN
          /\ target' = [target EXCEPT ![r] = i] /\ goal' = [goal EXCEPT ![r] = Capped(q)]
          /\ pc' = [pc EXCEPT ![r] = IF q < 0 THEN "delete" ELSE "update"]
    BY <1>6 DEF FindItem
  <2>2. i \in Items /\ keyOf[i] = key[r]
    BY DEF ItemsWith
  <2>3. quantity[i] \in Int /\ amount[r] \in Int
    BY <2>2, QuantitiesAreNumbers, AmountAssumption DEF TypeOK
  <2>4. /\ kind[r] = "add" /\ UNCHANGED <<rows, asked, copy, history>> /\ InFlight(r)
        /\ pc[r] = "find"
    BY <1>6 DEF FindItem, InFlight
  <2>5. /\ target'[r] = i /\ goal'[r] = Capped(quantity[i] + amount[r])
        /\ pc'[r] = IF quantity[i] + amount[r] < 0 THEN "delete" ELSE "update"
        /\ \A s \in Requests : s # r => pc'[s] = pc[s] /\ target'[s] = target[s]
    BY <2>1 DEF TypeOK
  <2>6. PlanIsCurrent(r)'
    BY <2>2, <2>3, <2>4, <2>5 DEF PlanIsCurrent, Aims, Capped
  <2> QED BY <2>4, <2>5, <2>6, CalmByCurrent
<1>7. ASSUME NEW r \in Requests, MissItem(r)
      PROVE  CalmInvariant'
  <2>1. pc'[r] = "createItem"
    BY <1>7 DEF MissItem, TypeOK
  <2>2. PlanIsCurrent(r)'
    BY <2>1 DEF PlanIsCurrent
  <2> QED BY <1>7, <2>1, <2>2, CalmByCurrent DEF MissItem, InFlight, TypeOK
<1>8. ASSUME NEW r \in Requests, CreateCart(r)
      PROVE  CalmInvariant'
  <2>1. pc'[r] = "createItem"
    BY <1>8 DEF CreateCart, TypeOK
  <2>2. PlanIsCurrent(r)'
    BY <2>1 DEF PlanIsCurrent
  <2> QED BY <1>8, <2>1, <2>2, CalmByCurrent DEF CreateCart, InFlight, TypeOK
<1>9. ASSUME NEW r \in Requests, CreateItem(r)
      PROVE  CalmInvariant'
  <2>1. pc'[r] = "done"
    BY <1>9 DEF CreateItem, TypeOK
  <2>2. PlanIsCurrent(r)'
    BY <2>1 DEF PlanIsCurrent
  <2> QED BY <1>9, <2>1, <2>2, CalmByCurrent DEF CreateItem, InFlight, TypeOK
<1>10. ASSUME NEW r \in Requests, UpdateItem(r)
      PROVE  CalmInvariant'
  <2>1. pc'[r] = "done"
    BY <1>10 DEF UpdateItem, TypeOK
  <2>2. PlanIsCurrent(r)'
    BY <2>1 DEF PlanIsCurrent
  <2> QED BY <1>10, <2>1, <2>2, CalmByCurrent DEF UpdateItem, InFlight, TypeOK
<1>11. ASSUME NEW r \in Requests, DeleteItem(r)
      PROVE  CalmInvariant'
  <2>1. pc'[r] = "done"
    BY <1>11 DEF DeleteItem, TypeOK
  <2>2. PlanIsCurrent(r)'
    BY <2>1 DEF PlanIsCurrent
  <2> QED BY <1>11, <2>1, <2>2, CalmByCurrent DEF DeleteItem, InFlight, TypeOK
<1>12. ASSUME NEW r \in Requests, CopyCart(r)
      PROVE  CalmInvariant'
  <2>1. PICK c \in 1 .. carts :
          cart' = [cart EXCEPT ![r] = c] /\ seen' = [seen EXCEPT ![r] = ItemsOf(c) \ {target[r]}]
    BY <1>12 DEF CopyCart
  <2>2. /\ pc[r] = "find" /\ kind[r] # "add" /\ pc'[r] = "send" /\ InFlight(r)
        /\ UNCHANGED <<rows, asked, plan, history>>
    BY <1>12 DEF CopyCart, InFlight, TypeOK
  <2>3. /\ cart'[r] = c /\ seen'[r] = ItemsOf(c) \ {target[r]} /\ todo'[r] = seen'[r]
        /\ base'[r] = quantity
    BY <1>12, <2>1 DEF CopyCart, TypeOK
  <2>4. \A s \in Requests : s # r => pc'[s] = pc[s] /\ target'[s] = target[s]
    BY <1>12 DEF CopyCart, TypeOK
  <2>5. PlanIsCurrent(r) => PlanIsCurrent(r)'
    BY <2>2, <2>3 DEF PlanIsCurrent, Aims, ItemsOf
  <2> QED BY <2>2, <2>4, <2>5, CalmByCurrent
<1>13. ASSUME NEW r \in Requests, NEW i \in Items, SendItem(r, i)
      PROVE  CalmInvariant'
  <2>1. /\ pc[r] = "send" /\ i \in todo[r] /\ InFlight(r)
        /\ UNCHANGED <<carts, made, inCart, keyOf, pc, asked, cart, seen, base, plan, history>>
    BY <1>13 DEF SendItem, InFlight
  <2>2. quantity' = [quantity EXCEPT ![i] = base[r][i]] /\ todo'[r] = todo[r] \ {i}
    BY <1>13 DEF SendItem, TypeOK
  <2>3. PlanIsCurrent(r) => quantity' = quantity
    BY <2>1, <2>2 DEF PlanIsCurrent, TypeOK
  <2>4. PlanIsCurrent(r) => PlanIsCurrent(r)'
    BY <2>1, <2>2, <2>3 DEF PlanIsCurrent, Aims, ItemsOf
  <2> QED BY <2>1, <2>4, CalmByCurrent
<1>14. ASSUME NEW r \in Requests, Refresh(r)
      PROVE  CalmInvariant'
  <2>1. pc'[r] = "done"
    BY <1>14 DEF Refresh, TypeOK
  <2>2. PlanIsCurrent(r)'
    BY <2>1 DEF PlanIsCurrent
  <2> QED BY <1>14, <2>1, <2>2, CalmByCurrent DEF Refresh, InFlight, TypeOK
<1>15. ASSUME NEW r \in Requests, Break(r)
      PROVE  CalmInvariant'
  <2>1. pc'[r] = "done"
    BY <1>15 DEF Break, TypeOK
  <2>2. PlanIsCurrent(r)'
    BY <2>1 DEF PlanIsCurrent
  <2> QED BY <1>15, <2>1, <2>2, CalmByCurrent DEF Break, InFlight, TypeOK
<1> QED BY <1>0, <1>1, <1>2, <1>3, <1>4, <1>5, <1>6, <1>7, <1>8, <1>9, <1>10, <1>11, <1>12,
           <1>13, <1>14, <1>15 DEF Next, Step

\* One item of a key at most, so that the content is its quantity.
LEMMA ContentIsQuantity ==
  TypeOK /\ DuplicatesInvariant /\ CalmInvariant /\ calm =>
    \A k \in Keys : \A i \in ItemsWith(k) : ItemsWith(k) = {i} /\ Content[k] = quantity[i]
<1> SUFFICES ASSUME TypeOK, DuplicatesInvariant, CalmInvariant, calm,
                    NEW k \in Keys, NEW i \in ItemsWith(k)
             PROVE  ItemsWith(k) = {i} /\ Content[k] = quantity[i]
  OBVIOUS
<1>1. carts \in {0, 1}
  BY BoundAssumption DEF CalmInvariant, DuplicatesInvariant, DuplicatesHaveACause, TypeOK
<1>2. ASSUME NEW j \in ItemsWith(k) PROVE i = j
  <2>1. i \in Items /\ j \in Items /\ Exists(i) /\ Exists(j) /\ keyOf[i] = k /\ keyOf[j] = k
    BY DEF ItemsWith
  <2>2. inCart[i] = inCart[j]
    <3>1. inCart[i] \in 0 .. carts /\ inCart[j] \in 0 .. carts /\ inCart[i] # 0 /\ inCart[j] # 0
      BY <2>1 DEF Exists, TypeOK
    <3>2. inCart[i] = 1 /\ inCart[j] = 1
      BY <1>1, <3>1
    <3> QED BY <3>2
  <2> QED BY <2>1, <2>2 DEF CalmInvariant, DuplicatesInvariant, DuplicatesHaveACause
<1>3. ItemsWith(k) = {i}
  BY <1>2
<1>4. (CHOOSE j \in ItemsWith(k) : TRUE) = i
  BY <1>3
<1> QED BY <1>3, <1>4 DEF Content

\* The content of a cart says a quantity of a key, or that the cart has none.
LEMMA ContentIsNumbers == TypeOK => Content \in [Keys -> Int \cup {Absent}]
<1> SUFFICES ASSUME TypeOK, NEW k \in Keys, ItemsWith(k) # {}
             PROVE  quantity[CHOOSE i \in ItemsWith(k) : TRUE] \in Int
  BY DEF Content
<1>1. (CHOOSE i \in ItemsWith(k) : TRUE) \in Items
  BY DEF ItemsWith
<1> QED BY <1>1, QuantitiesAreNumbers DEF TypeOK

\* While no requests overlap, the one in flight is the current one.
LEMMA CurrentIsOne ==
  calm /\ Alone => \A r \in Requests : InFlight(r) => Current = Op(r)
<1> SUFFICES ASSUME calm, Alone, NEW r \in Requests, InFlight(r) PROVE Current = Op(r)
  OBVIOUS
<1>1. (CHOOSE s \in Requests : InFlight(s)) = r
  BY DEF Alone
<1> QED BY <1>1 DEF Current

\* A step is shown to be an atomic one from what it does to the content and the requests.
AllInvariants == TypeOK /\ DuplicatesInvariant /\ CalmInvariant

ContentFacts ==
  /\ Content \in [Keys -> Int \cup {Absent}]
  /\ calm => /\ \A k \in Keys : \A i \in ItemsWith(k) :
                  ItemsWith(k) = {i} /\ Content[k] = quantity[i]
             /\ \A r \in Requests : InFlight(r) => Current = Op(r)

\* The invariants say all this of every state,
LEMMA Facts == AllInvariants => ContentFacts
BY ContentIsQuantity, ContentIsNumbers, CurrentIsOne
   DEF AllInvariants, CalmInvariant, ContentFacts

\* and so of the state after a step.
LEMMA FactsNext == AllInvariants' => ContentFacts'
BY Facts, PTL

\* Once requests have overlapped everything is allowed.
LEMMA OverlapStep ==
  ASSUME AllInvariants', ~calm'
  PROVE  Atomic!Overlap
<1>1. calm' = FALSE
  BY DEF AllInvariants, TypeOK
<1>2. Current' = [kind |-> "none"]
  BY <1>1 DEF Current
<1>3. Content' \in [Keys -> Int \cup {Absent}]
  BY FactsNext DEF ContentFacts
<1> QED BY <1>1, <1>2, <1>3 DEF Atomic!Overlap, Atomic!NoOp

\* The content depends on the items and their rows only,
LEMMA ContentStays ==
  ASSUME UNCHANGED <<inCart, keyOf, quantity>>
  PROVE  Content' = Content
BY DEF Content, ItemsWith, Exists

\* and that of one key on the items with the key.
LEMMA ContentOfKeyStays ==
  ASSUME NEW k \in Keys, ItemsWith(k)' = ItemsWith(k),
         \A i \in ItemsWith(k) : quantity'[i] = quantity[i]
  PROVE  Content'[k] = Content[k]
<1>1. ItemsWith(k) # {} => (CHOOSE i \in ItemsWith(k) : TRUE) \in ItemsWith(k)
  OBVIOUS
<1> QED BY <1>1 DEF Content

\* The request that is under way goes on: nothing happens to the content.
LEMMA InnerStep ==
  ASSUME AllInvariants, AllInvariants', calm, calm', NEW r \in Requests, InFlight(r), InFlight(r)',
         UNCHANGED asked, Content' = Content
  PROVE  UNCHANGED Atomic!vars
<1>1. Current = Op(r) /\ Current' = Op(r)'
  BY Facts, FactsNext DEF ContentFacts
<1>2. Op(r)' = Op(r)
  BY DEF Op, asked
<1>3. calm' = calm
  BY DEF AllInvariants, TypeOK
<1> QED BY <1>1, <1>2, <1>3 DEF Atomic!vars

\* It ends, and so there is none.
LEMMA NobodyAfter ==
  ASSUME AllInvariants, calm, NEW r \in Requests, InFlight(r), ~InFlight(r)',
         \A s \in Requests : s # r => pc'[s] = pc[s]
  PROVE  Current = Op(r) /\ Current' = [kind |-> "none"]
<1>1. Current = Op(r)
  BY Facts DEF ContentFacts
<1>2. \A s \in Requests : s # r => ~InFlight(s)
  BY DEF AllInvariants, CalmInvariant, Alone
<1>3. \A s \in Requests : ~InFlight(s)'
  BY <1>2 DEF InFlight
<1>4. Current' = [kind |-> "none"]
  BY <1>3 DEF Current
<1> QED BY <1>1, <1>4

\* It ends without a trace.
LEMMA FailStep ==
  ASSUME AllInvariants, AllInvariants', calm, calm', NEW r \in Requests, InFlight(r), ~InFlight(r)',
         \A s \in Requests : s # r => pc'[s] = pc[s], Content' = Content
  PROVE  Atomic!Fail
<1>1. Current' = [kind |-> "none"]
  BY NobodyAfter
<1>2. calm' = calm
  BY DEF AllInvariants, TypeOK
<1> QED BY <1>1, <1>2 DEF Atomic!Fail, Atomic!NoOp

\* It ends with its effect.
LEMMA SucceedStep ==
  ASSUME AllInvariants, AllInvariants', calm, calm', NEW r \in Requests, InFlight(r), ~InFlight(r)',
         \A s \in Requests : s # r => pc'[s] = pc[s],
         \A k \in Keys : k # key[r] => Content'[k] = Content[k],
         Content'[key[r]] = Atomic!Effect(Content[key[r]], Op(r))
  PROVE  Atomic!Succeed
<1>1. Current = Op(r) /\ Current' = [kind |-> "none"]
  BY NobodyAfter
<1>2. calm' = calm
  BY DEF AllInvariants, TypeOK
<1>3. kind[r] # "none" /\ key[r] \in Keys
  BY DEF AllInvariants, TypeOK
<1>4. Current # [kind |-> "none"]
  BY <1>1, <1>3 DEF Op
<1>5. Current.key = key[r]
  BY <1>1 DEF Op
<1>6. Content \in [Keys -> Int \cup {Absent}] /\ Content' \in [Keys -> Int \cup {Absent}]
  BY Facts, FactsNext DEF ContentFacts
<1>7. Content' = [Content EXCEPT ![key[r]] = Atomic!Effect(Content[key[r]], Op(r))]
  BY <1>3, <1>6
<1> QED BY <1>1, <1>2, <1>4, <1>5, <1>7 DEF Atomic!Succeed, Atomic!NoOp

\* A request begins.
LEMMA AskStep ==
  ASSUME AllInvariants, AllInvariants', calm, calm', NEW r \in Requests,
         \A s \in Requests : ~InFlight(s), InFlight(r)', UNCHANGED rows
  PROVE  Atomic!Ask
<1>1. Current = [kind |-> "none"]
  BY DEF Current
<1>2. Current' = Op(r)'
  BY FactsNext DEF ContentFacts
<1>3. Op(r)' \in Atomic!Ops
  BY DEF AllInvariants, TypeOK, Op, Atomic!Ops, Atomic!Kinds
<1>4. Content' = Content
  BY ContentStays DEF rows
<1>5. calm' = calm
  BY DEF AllInvariants, TypeOK
<1> QED BY <1>1, <1>2, <1>3, <1>4, <1>5 DEF Atomic!Ask, Atomic!NoOp

\* The steps with an effect, while the user waits for each answer.
LEMMA CreateItemIsAtomic ==
  ASSUME AllInvariants, AllInvariants', calm, calm', NEW r \in Requests, CreateItem(r)
  PROVE  Atomic!Succeed
<1> DEFINE m == made + 1
<1>1. m \in Items /\ inCart[m] = 0
  BY BoundAssumption DEF CreateItem, AllInvariants, TypeOK, Items
<1>2. /\ inCart' = [inCart EXCEPT ![m] = cart[r]] /\ keyOf' = [keyOf EXCEPT ![m] = key[r]]
      /\ quantity' = [quantity EXCEPT ![m] = amount[r]]
      /\ pc[r] = "createItem" /\ pc' = [pc EXCEPT ![r] = "done"]
      /\ UNCHANGED <<carts, cart, kind, key, amount, contested>>
  BY DEF CreateItem, asked, copy, history
<1> HIDE DEF m
<1>3. /\ kind[r] = "add" /\ cart[r] \in 1 .. carts
      /\ \A i \in ItemsOf(cart[r]) : keyOf[i] # key[r]
  BY <1>2 DEF AllInvariants, DuplicatesInvariant, MissedItems, CalmInvariant
<1>4. carts \in {0, 1}
  BY BoundAssumption
     DEF AllInvariants, CalmInvariant, DuplicatesInvariant, DuplicatesHaveACause, TypeOK
<1>5. key[r] \in Keys /\ amount[r] \in Amounts
  BY DEF AllInvariants, TypeOK
<1>6. ItemsWith(key[r]) = {}
  <2> SUFFICES ASSUME NEW i \in Items, inCart[i] # 0, keyOf[i] = key[r] PROVE FALSE
    BY DEF ItemsWith, Exists
  <2>1. inCart[i] \in 0 .. carts
    BY DEF AllInvariants, TypeOK
  <2>2. inCart[i] = cart[r]
    BY <1>3, <1>4, <2>1
  <2> QED BY <1>3, <2>2 DEF ItemsOf
<1>7. m \in ItemsWith(key[r])'
  BY <1>1, <1>2, <1>3, BoundAssumption DEF ItemsWith, Exists, AllInvariants, TypeOK
<1>8. Content'[key[r]] = amount[r]
  <2>1. Content'[key[r]] = quantity'[m]
    BY <1>2, <1>5, <1>7, FactsNext DEF ContentFacts
  <2> QED BY <1>1, <1>2, <2>1 DEF AllInvariants, TypeOK
<1>9. Content[key[r]] = Absent
  BY <1>5, <1>6 DEF Content
<1>10. ASSUME NEW k \in Keys, k # key[r] PROVE Content'[k] = Content[k]
  <2>1. ItemsWith(k)' = ItemsWith(k)
    BY <1>1, <1>2, <1>10 DEF ItemsWith, Exists, AllInvariants, TypeOK
  <2>2. \A i \in ItemsWith(k) : quantity'[i] = quantity[i]
    BY <1>1, <1>2 DEF ItemsWith, Exists, AllInvariants, TypeOK
  <2> QED BY <2>1, <2>2, ContentOfKeyStays
<1>11. Atomic!Effect(Content[key[r]], Op(r)) = amount[r]
  BY <1>3, <1>9 DEF Atomic!Effect, Op
<1>12. InFlight(r) /\ ~InFlight(r)' /\ \A s \in Requests : s # r => pc'[s] = pc[s]
  BY <1>2 DEF InFlight, AllInvariants, TypeOK
<1> QED BY <1>8, <1>10, <1>11, <1>12, SucceedStep

\* An update of an item has its effect in one step.
LEMMA UpdateItemIsAtomic ==
  ASSUME AllInvariants, AllInvariants', calm, calm', NEW r \in Requests, UpdateItem(r)
  PROVE  Atomic!Succeed
<1> DEFINE i == target[r]
<1>1. /\ i \in Items /\ Exists(i) /\ keyOf[i] = key[r]
      /\ \/ kind[r] = "set" /\ goal[r] = amount[r]
         \/ /\ kind[r] = "add"
            /\ quantity[i] + amount[r] >= 0 /\ goal[r] = Capped(quantity[i] + amount[r])
  BY DEF UpdateItem, AllInvariants, CalmInvariant, PlanIsCurrent, Aims
<1>2. /\ quantity' = [quantity EXCEPT ![i] = goal[r]]
      /\ pc[r] = "update" /\ pc' = [pc EXCEPT ![r] = "done"] /\ UNCHANGED <<inCart, keyOf>>
  BY DEF UpdateItem
<1> HIDE DEF i
<1>3. key[r] \in Keys /\ amount[r] \in Int /\ quantity[i] \in Int
  BY <1>1, QuantitiesAreNumbers, AmountAssumption DEF AllInvariants, TypeOK
<1>4. i \in ItemsWith(key[r]) /\ \A k \in Keys : ItemsWith(k)' = ItemsWith(k)
  BY <1>1, <1>2 DEF ItemsWith, Exists
<1>5. Content[key[r]] = quantity[i] /\ Content'[key[r]] = quantity'[i]
  BY <1>3, <1>4, Facts, FactsNext DEF ContentFacts
<1>6. quantity'[i] = goal[r]
  BY <1>1, <1>2 DEF AllInvariants, TypeOK
<1>7. ASSUME NEW k \in Keys, k # key[r] PROVE Content'[k] = Content[k]
  <2>1. \A j \in ItemsWith(k) : quantity'[j] = quantity[j]
    BY <1>1, <1>2, <1>7 DEF ItemsWith, AllInvariants, TypeOK
  <2> QED BY <1>4, <2>1, ContentOfKeyStays
<1>8. Atomic!Effect(quantity[i], Op(r)) = goal[r]
  BY <1>1, <1>3, LimitAssumption DEF Atomic!Effect, Atomic!Capped, Capped, Op
<1>9. InFlight(r) /\ ~InFlight(r)' /\ \A s \in Requests : s # r => pc'[s] = pc[s]
  BY <1>2 DEF InFlight, AllInvariants, TypeOK
<1> QED BY <1>5, <1>6, <1>7, <1>8, <1>9, SucceedStep

\* What both ways to remove an item have in common.
LEMMA RemovalIsAtomic ==
  ASSUME AllInvariants, AllInvariants', calm, calm', NEW r \in Requests, InFlight(r), ~InFlight(r)',
         \A s \in Requests : s # r => pc'[s] = pc[s],
         NEW k \in Keys, k = key[r], NEW i \in ItemsWith(k),
         inCart' = [inCart EXCEPT ![i] = 0], UNCHANGED <<keyOf, quantity>>,
         \/ kind[r] \in {"remove", "delete"}
         \/ kind[r] = "add" /\ quantity[i] + amount[r] < 0
  PROVE  Atomic!Succeed
<1>1. i \in Items /\ keyOf[i] = k
  BY DEF ItemsWith
<1>2. ItemsWith(k) = {i} /\ Content[k] = quantity[i]
  BY Facts DEF ContentFacts
<1>3. \A j \in Items : inCart'[j] = IF j = i THEN 0 ELSE inCart[j]
  BY <1>1 DEF AllInvariants, TypeOK
<1>4. ItemsWith(k)' = {}
  BY <1>2, <1>3 DEF ItemsWith, Exists
<1>5. Content'[k] = Absent
  BY <1>4 DEF Content
<1>6. ASSUME NEW l \in Keys, l # k PROVE Content'[l] = Content[l]
  <2>1. ItemsWith(l)' = ItemsWith(l)
    BY <1>1, <1>3, <1>6 DEF ItemsWith, Exists
  <2> QED BY <2>1, ContentOfKeyStays
<1>7. quantity[i] \in Int /\ amount[r] \in Int
  BY <1>1, QuantitiesAreNumbers, AmountAssumption DEF AllInvariants, TypeOK
<1>8. Atomic!Effect(Content[k], Op(r)) = Absent
  BY <1>2, <1>7, LimitAssumption DEF Atomic!Effect, Op
<1> QED BY <1>5, <1>6, <1>8, SucceedStep

\* So has a deletion.
LEMMA DeleteItemIsAtomic ==
  ASSUME AllInvariants, AllInvariants', calm, calm', NEW r \in Requests, DeleteItem(r)
  PROVE  Atomic!Succeed
<1> DEFINE i == target[r]
<1>1. /\ i \in Items /\ Exists(i) /\ keyOf[i] = key[r]
      /\ \/ kind[r] \in {"remove", "delete"}
         \/ kind[r] = "add" /\ quantity[i] + amount[r] < 0
  BY DEF DeleteItem, AllInvariants, CalmInvariant, PlanIsCurrent, Aims
<1>2. inCart' = [inCart EXCEPT ![i] = 0] /\ UNCHANGED <<keyOf, quantity>>
  BY DEF DeleteItem
<1>3. InFlight(r) /\ ~InFlight(r)' /\ \A s \in Requests : s # r => pc'[s] = pc[s]
  BY DEF DeleteItem, InFlight, AllInvariants, TypeOK
<1>4. key[r] \in Keys
  BY DEF AllInvariants, TypeOK
<1> HIDE DEF i
<1>5. i \in ItemsWith(key[r])
  BY <1>1 DEF ItemsWith
<1> QED BY <1>1, <1>2, <1>3, <1>4, <1>5, RemovalIsAtomic

\* A refresh writes what is there; only the item that was left out may go.
LEMMA RefreshIsAtomic ==
  ASSUME AllInvariants, AllInvariants', calm, calm', NEW r \in Requests, Refresh(r)
  PROVE  Atomic!Succeed \/ Atomic!Fail
<1>1. /\ \/ kind[r] = "refresh" /\ target[r] = 0
         \/ kind[r] = "remove" /\ Aims(r)
      /\ cart[r] \in 1 .. carts
      /\ seen[r] = ItemsOf(cart[r]) \ {target[r]}
      /\ \A i \in seen[r] : base[r][i] = quantity[i]
  BY DEF Refresh, AllInvariants, CalmInvariant, PlanIsCurrent
<1>2. quantity' = quantity /\ keyOf' = keyOf
  <2>1. quantity \in [Items -> Quantities]
    BY DEF AllInvariants, TypeOK
  <2> QED BY <1>1, <2>1 DEF Refresh
<1>3. InFlight(r) /\ ~InFlight(r)' /\ \A s \in Requests : s # r => pc'[s] = pc[s]
  BY DEF Refresh, InFlight, AllInvariants, TypeOK
<1>4. CASE inCart' = inCart
  <2>1. Content' = Content
    BY <1>2, <1>4, ContentStays
  <2> QED BY <1>3, <2>1, FailStep
<1>5. CASE inCart' # inCart
  <2> DEFINE t == target[r]
  <2>1. inCart' = [i \in Items |-> IF inCart[i] = cart[r] /\ i \notin seen[r] THEN 0 ELSE inCart[i]]
    BY <1>5 DEF Refresh
  <2>2. \A i \in Items : inCart[i] = cart[r] /\ i \notin seen[r] => i = t
    BY <1>1 DEF ItemsOf
  <2>3. inCart \in [Items -> 0 .. carts]
    BY DEF AllInvariants, TypeOK
  <2> HIDE DEF t
  <2>4. t \in Items /\ inCart[t] = cart[r] /\ t \notin seen[r]
    <3>1. \E i \in Items : inCart[i] = cart[r] /\ i \notin seen[r]
      BY <1>5, <2>1, <2>3
    <3> QED BY <2>2, <3>1
  <2>5. inCart' = [inCart EXCEPT ![t] = 0]
    BY <2>1, <2>2, <2>3, <2>4
  <2>6. kind[r] = "remove" /\ keyOf[t] = key[r]
    BY <1>1, <2>4 DEF t, Aims, Items
  <2>7. key[r] \in Keys /\ cart[r] # 0
    BY <1>1 DEF AllInvariants, TypeOK
  <2>8. t \in ItemsWith(key[r])
    BY <2>4, <2>6, <2>7 DEF ItemsWith, Exists
  <2> QED BY <1>2, <1>3, <2>5, <2>6, <2>7, <2>8, RemovalIsAtomic
<1> QED BY <1>4, <1>5

\* Each step of the requests is a step of the atomic cart or none.
LEMMA AtomicStep ==
  AllInvariants /\ AllInvariants' /\ [Next]_vars => [Atomic!Next]_Atomic!vars
<1> SUFFICES ASSUME AllInvariants, AllInvariants', [Next]_vars
             PROVE  Atomic!Next \/ UNCHANGED Atomic!vars
  OBVIOUS
<1> USE DEF rows, asked, copy, plan, history
<1>0. CASE ~calm'
  BY <1>0, OverlapStep DEF Atomic!Next
<1>1. CASE UNCHANGED vars
  BY <1>1 DEF vars, Atomic!vars, Content, Current, ItemsWith, Exists, Op, InFlight
<1>2. ASSUME NEW r \in Requests, Step(r), calm' PROVE Atomic!Next \/ UNCHANGED Atomic!vars
  <2>1. ASSUME NEW what, NEW step \in {"find", "update", "delete"}, Begin(r, what, step)
        PROVE  Atomic!Next
    <3>1. calm /\ (\A s \in Requests : ~InFlight(s)) /\ InFlight(r)' /\ UNCHANGED rows
      BY <1>2, <2>1 DEF Begin, InFlight, AllInvariants, TypeOK
    <3> QED BY <1>2, <3>1, AskStep DEF Atomic!Next
  <2>2. ASSUME NEW k \in Keys, NEW n \in Amounts, BeginAdd(r, k, n) PROVE Atomic!Next
    BY <2>1, <2>2 DEF BeginAdd
  <2>3. ASSUME NEW i \in Items, NEW n \in Amounts, BeginSet(r, i, n) PROVE Atomic!Next
    BY <2>1, <2>3 DEF BeginSet
  <2>4. ASSUME NEW i \in Items, BeginRemove(r, i) PROVE Atomic!Next
    BY <2>1, <2>4 DEF BeginRemove
  <2>5. ASSUME BeginRefresh(r) PROVE Atomic!Next
    BY <2>1, <2>5 DEF BeginRefresh
  <2>6. ASSUME MissCart(r) \/ MissItem(r) \/ FindItem(r) \/ CreateCart(r) \/ CopyCart(r),
               InFlight(r)'
        PROVE  UNCHANGED Atomic!vars
    <3>1. calm /\ InFlight(r) /\ UNCHANGED <<asked, inCart, keyOf, quantity>>
      BY <1>2, <2>6 DEF MissCart, MissItem, FindItem, CreateCart, CopyCart, InFlight
    <3> QED BY <1>2, <2>6, <3>1, ContentStays, InnerStep
  <2>7. CASE MissItem(r) \/ FindItem(r) \/ CreateCart(r) \/ CopyCart(r)
    <3>1. InFlight(r)'
      BY <2>7 DEF MissItem, FindItem, CreateCart, CopyCart, InFlight, AllInvariants, TypeOK
    <3> QED BY <2>6, <2>7, <3>1
  <2>8. CASE MissCart(r)
    <3>1. CASE InFlight(r)'
      BY <2>6, <2>8, <3>1
    <3>2. CASE ~InFlight(r)'
      <4>1. /\ calm /\ InFlight(r) /\ UNCHANGED <<inCart, keyOf, quantity>>
            /\ \A s \in Requests : s # r => pc'[s] = pc[s]
        BY <1>2, <2>8 DEF MissCart, InFlight, AllInvariants, TypeOK
      <4> QED BY <1>2, <3>2, <4>1, ContentStays, FailStep DEF Atomic!Next
    <3> QED BY <3>1, <3>2
  <2>9. ASSUME NEW i \in Items, SendItem(r, i) PROVE UNCHANGED Atomic!vars
    <3>1. calm /\ InFlight(r) /\ InFlight(r)' /\ UNCHANGED <<asked, inCart, keyOf>>
      BY <1>2, <2>9 DEF SendItem, InFlight
    <3>2. base[r][i] = quantity[i] /\ quantity \in [Items -> Quantities]
      BY <2>9, <3>1 DEF SendItem, AllInvariants, CalmInvariant, PlanIsCurrent, TypeOK
    <3>3. quantity' = quantity
      BY <2>9, <3>2 DEF SendItem
    <3> QED BY <1>2, <3>1, <3>3, ContentStays, InnerStep
  <2>10. CASE Break(r)
    <3>1. /\ calm /\ InFlight(r) /\ ~InFlight(r)' /\ UNCHANGED <<inCart, keyOf, quantity>>
          /\ \A s \in Requests : s # r => pc'[s] = pc[s]
      BY <1>2, <2>10 DEF Break, InFlight, AllInvariants, TypeOK
    <3> QED BY <1>2, <3>1, ContentStays, FailStep DEF Atomic!Next
  <2>11. CASE CreateItem(r)
    BY <1>2, <2>11, CreateItemIsAtomic DEF CreateItem, Atomic!Next
  <2>12. CASE UpdateItem(r)
    BY <1>2, <2>12, UpdateItemIsAtomic DEF UpdateItem, Atomic!Next
  <2>13. CASE DeleteItem(r)
    BY <1>2, <2>13, DeleteItemIsAtomic DEF DeleteItem, Atomic!Next
  <2>14. CASE Refresh(r)
    BY <1>2, <2>14, RefreshIsAtomic DEF Refresh, Atomic!Next
  <2> QED BY <1>2, <2>2, <2>3, <2>4, <2>5, <2>7, <2>8, <2>9, <2>10, <2>11, <2>12, <2>13, <2>14
          DEF Step
<1> QED BY <1>0, <1>1, <1>2 DEF Next

\* To a user who waits for each answer the services are an atomic cart, whatever requests
\* break off, and however many keys, carts and items there are.
THEOREM CartIsAtomic == Spec => ImplementsAtomicCart
<1>1. Init => AllInvariants
  BY TypeInit DEF Init, AllInvariants, DuplicatesInvariant, DuplicatesHaveACause, AddsAreCounted,
       MissedCarts, MissedItems, CalmInvariant, Alone, PlanIsCurrent, Adding, InFlight, Exists
<1>2. AllInvariants /\ [Next]_vars => AllInvariants'
  BY TypeStep, DuplicatesStep, CalmStep DEF AllInvariants
<1>3. Init => Atomic!Init
  BY DEF Init, Atomic!Init, Atomic!NoOp, Content, Current, ItemsWith, Exists, InFlight
<1> QED BY <1>1, <1>2, <1>3, AtomicStep, PTL DEF Spec, ImplementsAtomicCart, Atomic!Spec
=============================================================================
