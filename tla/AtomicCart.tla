----------------------------- MODULE AtomicCart -----------------------------
(***************************************************************************)
(* What the cart services promise to a user who does one thing at a time:  *)
(* a request changes the quantity of one key at once, or fails without a   *)
(* trace.  Nothing is promised once two requests were under way together.  *)
(***************************************************************************)
EXTENDS Integers

CONSTANTS
  Keys,      \* an sku with a wish list's token
  Amounts,   \* quantities a user asks for
  Limit,     \* the most that adding to an item leads to
  Absent     \* the quantity of a key without an item

VARIABLES
  content,   \* the quantity of each key
  op,        \* the request that is under way
  calm       \* no two requests were under way together so far

vars == <<content, op, calm>>

Kinds == {"add", "set", "remove", "delete", "refresh"}
Ops == [kind : Kinds, key : Keys, amount : Amounts]
NoOp == [kind |-> "none"]

Capped(q) == IF q > Limit THEN Limit ELSE q

\* What a request makes of the quantity of its key.  The limit is for items there are.
Effect(q, o) ==
  CASE o.kind = "add" -> IF q = Absent THEN o.amount
                         ELSE IF q + o.amount < 0 THEN Absent ELSE Capped(q + o.amount)
    [] o.kind = "set" -> IF q = Absent THEN Absent ELSE o.amount
    [] o.kind \in {"remove", "delete"} -> Absent
    [] OTHER -> q

Init == content = [k \in Keys |-> Absent] /\ op = NoOp /\ calm = TRUE

Ask ==
  /\ calm /\ op = NoOp
  /\ op' \in Ops
  /\ UNCHANGED <<content, calm>>

Fail ==
  /\ op' = NoOp
  /\ UNCHANGED <<content, calm>>

Succeed ==
  /\ calm /\ op # NoOp
  /\ content' = [content EXCEPT ![op.key] = Effect(@, op)]
  /\ op' = NoOp
  /\ UNCHANGED calm

Overlap ==
  /\ calm' = FALSE /\ op' = NoOp
  /\ content' \in [Keys -> Int \cup {Absent}]

Next == Ask \/ Fail \/ Succeed \/ Overlap

Spec == Init /\ [][Next]_vars
=============================================================================
