------------------------------ MODULE Observable ------------------------------
(***************************************************************************)
(* The listeners of one event of one object: cy/Observable.js of the       *)
(* shop-admin UI.  A listener is known by its function: components share   *)
(* the function of their prototype, and destroy() names no scope.          *)
(***************************************************************************)
EXTENDS Naturals, Sequences, FiniteSetsExt

\* addListener(), listen().
AddListener(listeners, fn) == Append(listeners, fn)

\* removeListener() without a scope keeps what splice(i, i) cuts out: of the i
\* listeners before the first one with this function it keeps none.
RemoveListener(listeners, fn) ==
  LET found == {i \in DOMAIN listeners : listeners[i] = fn}
      i == Min(found) - 1
  IN  IF found = {} THEN listeners
      ELSE SubSeq(listeners, i + 1, Min({2 * i, Len(listeners)}))

\* fireEvent() calls it.
Hears(listeners, fn) == \E i \in DOMAIN listeners : listeners[i] = fn
=============================================================================
