---------------------------- MODULE ShoppingCart ----------------------------
(***************************************************************************)
(* The cart of one user: CustomCartItemServiceImpl and                     *)
(* CustomCartServiceImpl of the client read, decide and write over REST,   *)
(* without a lock or a transaction, and CartResource.refresh() writes the  *)
(* whole cart as it was sent.  Each request is an HTTP request of the shop *)
(* on a thread of its own.                                                 *)
(***************************************************************************)
EXTENDS Integers

CONSTANTS
  Requests,   \* requests of the user, each made once
  Keys, Amounts, Limit, Absent,   \* see AtomicCart
  MaxItems,   \* bound: rows of cart items ever made
  MaxCarts    \* bound: rows of carts

ASSUME AmountAssumption == Amounts \subseteq Int /\ Amounts # {} /\ Keys # {}
ASSUME LimitAssumption == Limit \in Nat /\ Absent \notin Int
ASSUME BoundAssumption == MaxItems \in Nat /\ MaxCarts \in Nat

VARIABLES
  carts,                     \* the number of carts
  made,                      \* the number of items ever made
  inCart, keyOf, quantity,   \* the items: cart (0: no such row), key, quantity
  pc,                        \* where a request is
  kind, key, amount,         \* what it asks for
  target, goal,              \* the item it writes or leaves out, and the quantity it writes
  cart, seen, base, todo,    \* its copy of the cart: items and quantities, items still to send
  calm, crowded, contested   \* history: no two requests so far, two that add, keys of those
                             \* that added the same

rows == <<carts, made, inCart, keyOf, quantity>>
asked == <<kind, key, amount>>
copy == <<cart, seen, base, todo>>
plan == <<target, goal>>
history == <<calm, crowded, contested>>
vars == <<rows, pc, asked, copy, plan, history>>

Items == 1 .. MaxItems
Quantities == Amounts \cup 0 .. Limit

Exists(i) == i \in Items /\ inCart[i] # 0
ItemsOf(c) == {i \in Items : inCart[i] = c}
ItemsWith(k) == {i \in Items : Exists(i) /\ keyOf[i] = k}
InFlight(r) == pc[r] \notin {"idle", "done"}
Adding(r) == InFlight(r) /\ kind[r] = "add"

Init ==
  /\ carts = 0 /\ made = 0
  /\ inCart = [i \in Items |-> 0] /\ quantity = [i \in Items |-> 0]
  /\ keyOf = [i \in Items |-> CHOOSE k \in Keys : TRUE]
  /\ pc = [r \in Requests |-> "idle"]
  /\ kind = [r \in Requests |-> "refresh"]
  /\ key = [r \in Requests |-> CHOOSE k \in Keys : TRUE]
  /\ amount = [r \in Requests |-> CHOOSE n \in Amounts : TRUE]
  /\ target = [r \in Requests |-> 0] /\ goal = [r \in Requests |-> 0]
  /\ cart = [r \in Requests |-> 0] /\ seen = [r \in Requests |-> {}]
  /\ base = [r \in Requests |-> quantity] /\ todo = [r \in Requests |-> {}]
  /\ calm = TRUE /\ crowded = FALSE /\ contested = {}
-----------------------------------------------------------------------------
(* What a user asks for *)

Begin(r, what, step) ==
  /\ pc[r] = "idle"
  /\ pc' = [pc EXCEPT ![r] = step]
  /\ kind' = [kind EXCEPT ![r] = what]
  /\ calm' = (calm /\ \A s \in Requests : ~InFlight(s))
  /\ UNCHANGED <<rows, copy>>

\* addCartItemForCurrentUser()
BeginAdd(r, k, n) ==
  /\ Begin(r, "add", "find")
  /\ key' = [key EXCEPT ![r] = k] /\ amount' = [amount EXCEPT ![r] = n]
  /\ crowded' = (crowded \/ \E s \in Requests : Adding(s))
  /\ contested' = contested \cup {l \in {k} : \E s \in Requests : Adding(s) /\ key[s] = l}
  /\ UNCHANGED plan

\* updateCartItemQuantity() of an item of the user's page; it looks at no limit.
BeginSet(r, i, n) ==
  /\ Exists(i) /\ Begin(r, "set", "update")
  /\ key' = [key EXCEPT ![r] = keyOf[i]] /\ amount' = [amount EXCEPT ![r] = n]
  /\ target' = [target EXCEPT ![r] = i] /\ goal' = [goal EXCEPT ![r] = n]
  /\ UNCHANGED <<crowded, contested>>

\* removeCartItemOfCart() deletes the item, removeCartItemOfCurrentUser() sends the cart
\* without it.
BeginRemove(r, i) ==
  /\ Exists(i)
  /\ Begin(r, "delete", "delete") \/ Begin(r, "remove", "find")
  /\ key' = [key EXCEPT ![r] = keyOf[i]] /\ target' = [target EXCEPT ![r] = i]
  /\ UNCHANGED <<amount, goal, crowded, contested>>

\* refreshCart() of the cart as it was read.
BeginRefresh(r) ==
  /\ Begin(r, "refresh", "find")
  /\ UNCHANGED <<key, amount, plan, crowded, contested>>
-----------------------------------------------------------------------------
(* Adding *)

Capped(q) == IF q > Limit THEN Limit ELSE q

MissCart(r) ==
  /\ pc[r] = "find" /\ carts = 0
  /\ pc' = [pc EXCEPT ![r] = IF kind[r] = "add" THEN "createCart" ELSE "done"]
  /\ UNCHANGED <<rows, asked, copy, plan, history>>

\* Slip: an item is created without a look at the index.
FindNothing(r) ==
  /\ pc[r] = "find" /\ kind[r] = "add"
  /\ \E c \in 1 .. carts : cart' = [cart EXCEPT ![r] = c]
  /\ pc' = [pc EXCEPT ![r] = "createItem"]
  /\ UNCHANGED <<rows, asked, seen, base, todo, plan, history>>

\* Slip: the limit is for what is added, not for the sum.
FindItemUncapped(r) ==
  /\ pc[r] = "find" /\ kind[r] = "add"
  /\ \E i \in ItemsWith(key[r]) :
       LET q == quantity[i] + Capped(amount[r]) IN
       /\ target' = [target EXCEPT ![r] = i] /\ goal' = [goal EXCEPT ![r] = q]
       /\ pc' = [pc EXCEPT ![r] = IF q < 0 THEN "delete" ELSE "update"]
  /\ UNCHANGED <<rows, asked, copy, history>>

\* Slip: the quantity replaces the one there is.
FindItemReplacing(r) ==
  /\ pc[r] = "find" /\ kind[r] = "add"
  /\ \E i \in ItemsWith(key[r]) :
       LET q == amount[r] IN
       /\ target' = [target EXCEPT ![r] = i] /\ goal' = [goal EXCEPT ![r] = Capped(q)]
       /\ pc' = [pc EXCEPT ![r] = IF q < 0 THEN "delete" ELSE "update"]
  /\ UNCHANGED <<rows, asked, copy, history>>

\* Any cart of the user may be found, and any item of the key.  An item that is there
\* gets the sum, at most Limit, or is deleted if that is negative.
FindItem(r) ==
  /\ pc[r] = "find" /\ kind[r] = "add"
  /\ \E i \in ItemsWith(key[r]) :
       LET q == quantity[i] + amount[r] IN
       /\ target' = [target EXCEPT ![r] = i] /\ goal' = [goal EXCEPT ![r] = Capped(q)]
       /\ pc' = [pc EXCEPT ![r] = IF q < 0 THEN "delete" ELSE "update"]
  /\ UNCHANGED <<rows, asked, copy, history>>

MissItem(r) ==
  /\ pc[r] = "find" /\ kind[r] = "add"
  /\ \E c \in 1 .. carts :
       /\ \A i \in ItemsOf(c) : keyOf[i] # key[r]
       /\ cart' = [cart EXCEPT ![r] = c]
  /\ pc' = [pc EXCEPT ![r] = "createItem"]
  /\ UNCHANGED <<rows, asked, seen, base, todo, plan, history>>

\* assertCartOfUserExists()
CreateCart(r) ==
  /\ pc[r] = "createCart" /\ carts < MaxCarts
  /\ carts' = carts + 1
  /\ cart' = [cart EXCEPT ![r] = carts']
  /\ pc' = [pc EXCEPT ![r] = "createItem"]
  /\ UNCHANGED <<made, inCart, keyOf, quantity, asked, seen, base, todo, plan, history>>

\* A new item takes any quantity.
CreateItem(r) ==
  /\ pc[r] = "createItem" /\ made < MaxItems
  /\ made' = made + 1
  /\ inCart' = [inCart EXCEPT ![made'] = cart[r]]
  /\ keyOf' = [keyOf EXCEPT ![made'] = key[r]]
  /\ quantity' = [quantity EXCEPT ![made'] = amount[r]]
  /\ pc' = [pc EXCEPT ![r] = "done"]
  /\ UNCHANGED <<carts, asked, copy, plan, history>>

UpdateItem(r) ==
  /\ pc[r] = "update" /\ Exists(target[r])
  /\ quantity' = [quantity EXCEPT ![target[r]] = goal[r]]
  /\ pc' = [pc EXCEPT ![r] = "done"]
  /\ UNCHANGED <<carts, made, inCart, keyOf, asked, copy, plan, history>>

\* deleteById()
DeleteItem(r) ==
  /\ pc[r] = "delete" /\ Exists(target[r])
  /\ inCart' = [inCart EXCEPT ![target[r]] = 0]
  /\ pc' = [pc EXCEPT ![r] = "done"]
  /\ UNCHANGED <<carts, made, keyOf, quantity, asked, copy, plan, history>>
-----------------------------------------------------------------------------
(* Refreshing *)

\* The copy of the cart, without the item that is to be removed.
CopyCart(r) ==
  /\ pc[r] = "find" /\ kind[r] # "add"
  /\ \E c \in 1 .. carts :
       /\ cart' = [cart EXCEPT ![r] = c]
       /\ seen' = [seen EXCEPT ![r] = ItemsOf(c) \ {target[r]}]
  /\ base' = [base EXCEPT ![r] = quantity] /\ todo' = [todo EXCEPT ![r] = seen'[r]]
  /\ pc' = [pc EXCEPT ![r] = "send"]
  /\ UNCHANGED <<rows, asked, plan, history>>

\* traverse() updates the items of the copy, one request each.
SendItem(r, i) ==
  /\ pc[r] = "send" /\ i \in todo[r] /\ Exists(i)
  /\ quantity' = [quantity EXCEPT ![i] = base[r][i]]
  /\ todo' = [todo EXCEPT ![r] = @ \ {i}]
  /\ UNCHANGED <<carts, made, inCart, keyOf, pc, asked, cart, seen, base, plan, history>>

\* refresh() of the resource writes all of the copy.  Whether updateCascaded() deletes what
\* is in the cart and not in the copy is the schema library's business: it may or may not.
Refresh(r) ==
  /\ pc[r] = "send" /\ todo[r] = {}
  /\ quantity' = [i \in Items |-> IF i \in seen[r] THEN base[r][i] ELSE quantity[i]]
  /\ \/ UNCHANGED inCart
     \/ inCart' = [i \in Items |->
                     IF inCart[i] = cart[r] /\ i \notin seen[r] THEN 0 ELSE inCart[i]]
  /\ pc' = [pc EXCEPT ![r] = "done"]
  /\ UNCHANGED <<carts, made, keyOf, asked, copy, plan, history>>

\* An exception ends a request at any point: the row is gone, or the server is.
Break(r) ==
  /\ InFlight(r)
  /\ pc' = [pc EXCEPT ![r] = "done"]
  /\ UNCHANGED <<rows, asked, copy, plan, history>>

Step(r) ==
  \/ \E k \in Keys, n \in Amounts : BeginAdd(r, k, n)
  \/ \E i \in Items : \/ \E n \in Amounts : BeginSet(r, i, n)
                      \/ BeginRemove(r, i)
                      \/ SendItem(r, i)
  \/ BeginRefresh(r)
  \/ MissCart(r) \/ FindItem(r) \/ MissItem(r) \/ CreateCart(r) \/ CreateItem(r)
  \/ UpdateItem(r) \/ DeleteItem(r)
  \/ CopyCart(r) \/ Refresh(r) \/ Break(r)

Next == \E r \in Requests : Step(r)

Spec == Init /\ [][Next]_vars
-----------------------------------------------------------------------------
(* Properties *)

Steps == {"idle", "find", "createCart", "createItem", "update", "delete", "send", "done"}

\* Rows are numbered, and no sum, stale copy or refresh brings about a quantity above the
\* limit or below zero that no single request asked for.
TypeOK ==
  /\ carts \in 0 .. MaxCarts /\ made \in 0 .. MaxItems
  /\ inCart \in [Items -> 0 .. carts] /\ keyOf \in [Items -> Keys]
  /\ \A i \in Items : i > made => inCart[i] = 0
  /\ quantity \in [Items -> Quantities]
  /\ pc \in [Requests -> Steps]
  /\ kind \in [Requests -> {"add", "set", "remove", "delete", "refresh"}]
  /\ key \in [Requests -> Keys] /\ amount \in [Requests -> Amounts]
  /\ target \in [Requests -> 0 .. MaxItems]
  /\ goal \in [Requests -> Int]
  /\ \A r \in Requests : pc[r] = "update" => goal[r] \in Quantities
  /\ cart \in [Requests -> 0 .. carts] /\ seen \in [Requests -> SUBSET Items]
  /\ todo \in [Requests -> SUBSET Items] /\ base \in [Requests -> [Items -> Quantities]]
  /\ calm \in BOOLEAN /\ crowded \in BOOLEAN /\ contested \subseteq Keys

\* A user gets a second cart only from two requests that add at the same time, and a cart
\* a second item of a key only from two that add this key at the same time: no sequence of
\* updates, removals, refreshes and failures leads there.
DuplicatesHaveACause ==
  /\ carts > 1 => crowded
  /\ \A i, j \in Items :
       i # j /\ Exists(i) /\ inCart[i] = inCart[j] /\ keyOf[i] = keyOf[j]
         => keyOf[i] \in contested

Content ==
  [k \in Keys |-> IF ItemsWith(k) = {} THEN Absent
                  ELSE quantity[CHOOSE i \in ItemsWith(k) : TRUE]]
Op(r) == [kind |-> kind[r], key |-> key[r], amount |-> amount[r]]
Current ==
  IF calm /\ \E r \in Requests : InFlight(r)
    THEN Op(CHOOSE r \in Requests : InFlight(r)) ELSE [kind |-> "none"]

Atomic == INSTANCE AtomicCart WITH content <- Content, op <- Current

\* To a user who does one thing at a time the reads and writes of a request are one atomic
\* change of the quantity of one key, or none, and a refresh changes nothing: quantities
\* get lost only where requests overlap.
ImplementsAtomicCart == Atomic!Spec
=============================================================================
