----------------------- MODULE ListSynchronizationProofs -----------------------
(***************************************************************************)
(* Theorems about ListSynchronization, for any requests, properties and    *)
(* number of failures: where several rows of one property come from, what  *)
(* stays in a set, and what a request leaves in it that met no other.      *)
(***************************************************************************)
EXTENDS ListSynchronization, TLAPS

\* Requests that are under way together know of each other, and nobody of one that has not begun.
CrossedAreCrossed ==
  /\ \A r, u \in Requests : u \in crossed[r] => r \in crossed[u]
  /\ \A r, u \in UnderWay : r # u => u \in crossed[r]
  /\ \A r \in Requests : pc[r] = "idle" => crossed[r] = {}

\* A row of which a request does not know, and may make a second one, was made by a request
\* it overlaps with.
UnseenRowsAreNew ==
  \A r \in Requests : pc[r] = "keep" =>
    \A a \in rows : a.of \in todo[r] \ Of(found[r]) => a.by \in crossed[r]

TwinsInvariant == CrossedAreCrossed /\ UnseenRowsAreNew /\ TwinsHaveACause

\* What a request begins with.
ListsAreKept ==
  \A r \in Requests : /\ pc[r] = "clear" => list[r] = {}
                      /\ pc[r] = "load" => todo[r] = list[r]

\* The last request, if it overlaps with no other, is the only one under way; what is in the
\* set and not in its hands is a twin, and what it has looked at is in the set.
LastRequestIsAlone ==
  latest # NoRequest /\ crossed[latest] = {} =>
    /\ UnderWay \subseteq {latest}
    /\ pc[latest] = "keep" =>
         /\ found[latest] \subseteq rows
         /\ \A a \in rows \ found[latest] : a.of \in twins[latest]
         /\ list[latest] \subseteq todo[latest] \cup Of(found[latest])
-----------------------------------------------------------------------------
(* Types *)

\* The initial state has the declared types.
LEMMA TypeInit == Init => TypeOK
BY PropertyAssumption, BoundAssumption
DEF Init, TypeOK, PropertyAssumption, BoundAssumption, Rows, Of, OneEach, Busy

\* Every step keeps them: a request that makes a row had none of that property at hand.
LEMMA TypeStep == TypeOK /\ [Next]_vars => TypeOK'
<1> SUFFICES ASSUME TypeOK, [Next]_vars PROVE TypeOK'
  OBVIOUS
<1> USE DEF TypeOK, history
<1>1. ASSUME NEW r \in Requests, Load(r) PROVE TypeOK'
  <2>1. PICK some \in SUBSET rows : OneEach(some) /\ found' = [found EXCEPT ![r] = some]
    BY <1>1 DEF Load
  <2>2. found' \in [Requests -> SUBSET Rows] /\ \A u \in Requests : OneEach(found'[u])
    BY <2>1
  <2>3. twins' \in [Requests -> SUBSET Properties] /\ pc' \in [Requests -> Busy \cup {"idle", "done", "failed"}]
    BY <1>1 DEF Load, Busy
  <2> QED BY <1>1, <2>2, <2>3 DEF Load
<1>2. ASSUME NEW r \in Requests, Finish(r) PROVE TypeOK'
  BY <1>2 DEF Finish
<1>3. ASSUME NEW r \in Requests, Clear(r) PROVE TypeOK'
  BY <1>3 DEF Clear, Of
<1>4. ASSUME NEW r \in Requests, Fail(r) PROVE TypeOK'
  BY <1>4, BoundAssumption DEF Fail, BoundAssumption
<1>5. ASSUME NEW r \in Requests, NEW l \in SUBSET Properties, Submit(r, l) PROVE TypeOK'
  <2>1. crossed' \in [Requests -> SUBSET Requests]
    BY <1>5 DEF Submit, UnderWay
  <2>2. pc' \in [Requests -> Busy \cup {"idle", "done", "failed"}]
    BY <1>5 DEF Submit, Busy
  <2> QED BY <1>5, <2>1, <2>2 DEF Submit
<1>6. ASSUME NEW r \in Requests, NEW p \in Properties, PersistProperty(r, p) PROVE TypeOK'
  BY <1>6 DEF PersistProperty
<1>7. ASSUME NEW r \in Requests, NEW p \in Properties, UpdateProperty(r, p) PROVE TypeOK'
  BY <1>7 DEF UpdateProperty
<1>8. ASSUME NEW r \in Requests, NEW p \in Properties, Associate(r, p) PROVE TypeOK'
  <2> DEFINE new == [of |-> p, by |-> r]
  <2>1. new \in Rows /\ new.of = p /\ p \in stored /\ p \notin Of(found[r])
    BY <1>8 DEF Associate, Rows
  <2>2. rows' = rows \cup {new} /\ found' = [found EXCEPT ![r] = found[r] \cup {new}]
    BY <1>8 DEF Associate
  <2> HIDE DEF new
  <2>3. rows' \subseteq Rows /\ Of(rows') \subseteq stored
    BY <2>1, <2>2 DEF Of
  <2>4. OneEach(found[r] \cup {new})
    BY <2>1 DEF OneEach, Of
  <2>5. found' \in [Requests -> SUBSET Rows] /\ \A u \in Requests : OneEach(found'[u])
    BY <2>1, <2>2, <2>4
  <2>6. todo' \in [Requests -> SUBSET Properties]
    BY <1>8 DEF Associate
  <2> QED BY <1>8, <2>3, <2>5, <2>6 DEF Associate
<1>9. ASSUME NEW r \in Requests, NEW a \in found[r], Delete(r, a) PROVE TypeOK'
  <2>1. rows' \subseteq rows /\ found' = [found EXCEPT ![r] = found[r] \ {a}]
    BY <1>9 DEF Delete
  <2>2. found' \in [Requests -> SUBSET Rows] /\ \A u \in Requests : OneEach(found'[u])
    BY <2>1 DEF OneEach
  <2>3. rows' \subseteq Rows /\ Of(rows') \subseteq stored
    BY <2>1 DEF Of
  <2> QED BY <1>9, <2>2, <2>3 DEF Delete
<1>10. CASE UNCHANGED vars
  BY <1>10 DEF vars
<1> QED
  BY <1>1, <1>2, <1>3, <1>4, <1>5, <1>6, <1>7, <1>8, <1>9, <1>10 DEF Next, Step

\* In every reachable state a request has one row of each property at hand, and rows associate
\* properties that are there.
THEOREM TypeCorrect == Spec => []TypeOK
BY TypeInit, TypeStep, PTL DEF Spec
-----------------------------------------------------------------------------
(* Several rows of one property *)

\* The steps by what they change: who is under way, or what is in the set.
WorkSteps(r) ==
  \/ Load(r) \/ \E p \in Properties : PersistProperty(r, p) \/ UpdateProperty(r, p)
  \/ \E a \in found[r] : Delete(r, a)
EndSteps(r) == Finish(r) \/ Clear(r) \/ Fail(r)

\* Every step is one of them, a new row or a new request.
LEMMA StepsAre ==
  ASSUME [Next]_vars
  PROVE  \/ \E r \in Requests : \/ WorkSteps(r) \/ EndSteps(r)
                                \/ \E p \in Properties : Associate(r, p)
                                \/ \E l \in SUBSET Properties : Submit(r, l)
         \/ UNCHANGED vars
BY DEF Next, Step, WorkSteps, EndSteps

\* At first a property has one row, and no request has begun.
LEMMA TwinsInit == Init => TwinsInvariant
BY DEF Init, TwinsInvariant, CrossedAreCrossed, UnseenRowsAreNew, TwinsHaveACause, UnderWay, Busy

\* Only a new request changes who crosses whom.
LEMMA CrossedStep ==
  ASSUME TypeOK, CrossedAreCrossed, [Next]_vars
  PROVE  CrossedAreCrossed'
<1>1. ASSUME NEW r \in Requests, NEW l \in SUBSET Properties, Submit(r, l)
      PROVE  CrossedAreCrossed'
  <2>1. /\ pc[r] = "idle" /\ pc'[r] \in {"load", "clear"} /\ \A u \in Requests \ {r} : pc'[u] = pc[u]
        /\ crossed' = [u \in Requests |->
                         IF u = r THEN UnderWay
                         ELSE IF u \in UnderWay THEN crossed[u] \cup {r} ELSE crossed[u]]
    BY <1>1 DEF Submit, TypeOK
  <2>2. r \notin UnderWay /\ UnderWay' = UnderWay \cup {r}
    BY <2>1 DEF UnderWay, Busy
  <2>3. /\ crossed'[r] = UnderWay
        /\ \A u \in UnderWay : crossed'[u] = crossed[u] \cup {r}
        /\ \A u \in Requests \ UnderWay : u # r => crossed'[u] = crossed[u]
    BY <2>1, <2>2 DEF UnderWay
  <2>4. \A u \in Requests : r \notin crossed[u]
    BY <2>1 DEF CrossedAreCrossed
  <2>5. \A u, v \in Requests : v \in crossed'[u] => u \in crossed'[v]
    BY <2>2, <2>3, <2>4 DEF CrossedAreCrossed, UnderWay
  <2>6. \A u, v \in UnderWay' : u # v => v \in crossed'[u]
    BY <2>2, <2>3 DEF CrossedAreCrossed
  <2>7. \A u \in Requests : pc'[u] = "idle" => crossed'[u] = {}
    BY <2>1, <2>3 DEF CrossedAreCrossed, UnderWay, Busy
  <2> QED BY <2>5, <2>6, <2>7 DEF CrossedAreCrossed
<1>2. ASSUME NEW r \in Requests, WorkSteps(r) \/ EndSteps(r) \/ \E p \in Properties : Associate(r, p)
      PROVE  CrossedAreCrossed'
  <2>1. /\ UNCHANGED crossed /\ pc[r] \in Busy /\ pc'[r] # "idle"
        /\ \A u \in Requests \ {r} : pc'[u] = pc[u]
    BY <1>2
    DEF WorkSteps, EndSteps, Load, PersistProperty, UpdateProperty, Associate, Delete, Finish, Clear,
        Fail, history, TypeOK, Busy
  <2>2. UnderWay' \subseteq UnderWay
    BY <2>1 DEF UnderWay
  <2> QED BY <2>1, <2>2 DEF CrossedAreCrossed
<1>3. CASE UNCHANGED vars
  BY <1>3 DEF vars, history, CrossedAreCrossed, UnderWay
<1> QED BY <1>1, <1>2, <1>3, StepsAre

\* A second row is made only by a request that could not know of the first.
LEMMA TwinsStep == TypeOK /\ TwinsInvariant /\ [Next]_vars => TwinsInvariant'
<1> SUFFICES ASSUME TypeOK, CrossedAreCrossed, UnseenRowsAreNew, TwinsHaveACause, [Next]_vars
             PROVE  UnseenRowsAreNew' /\ TwinsHaveACause'
  BY CrossedStep DEF TwinsInvariant
<1>0. /\ pc = [r \in Requests |-> pc[r]] /\ todo = [r \in Requests |-> todo[r]]
      /\ found = [r \in Requests |-> found[r]]
  BY DEF TypeOK
<1>1. ASSUME NEW r \in Requests, NEW l \in SUBSET Properties, Submit(r, l)
      PROVE  UnseenRowsAreNew' /\ TwinsHaveACause'
  <2>1. /\ UNCHANGED <<rows, found>> /\ crossed[r] = {} /\ pc'[r] # "keep"
        /\ \A u \in Requests \ {r} : /\ pc'[u] = pc[u] /\ todo'[u] = todo[u]
                                     /\ crossed[u] \subseteq crossed'[u]
    BY <1>0, <1>1 DEF Submit, CrossedAreCrossed
  <2>2. UnseenRowsAreNew'
    BY <2>1 DEF UnseenRowsAreNew
  <2>3. TwinsHaveACause'
    BY <2>1 DEF TwinsHaveACause
  <2> QED BY <2>2, <2>3
<1>2. ASSUME NEW r \in Requests, WorkSteps(r) PROVE UnseenRowsAreNew' /\ TwinsHaveACause'
  <2>1. CASE Load(r)
    <3>1. UNCHANGED <<rows, todo, crossed>>
      BY <2>1 DEF Load
    <3>2. Of(found'[r]) = Of(rows)
      BY <1>0, <2>1 DEF Load
    <3>3. \A u \in Requests \ {r} : pc'[u] = pc[u] /\ found'[u] = found[u]
      BY <1>0, <2>1 DEF Load
    <3>4. \A a \in rows : a.of \in Of(rows)
      BY DEF Of
    <3> QED BY <3>1, <3>2, <3>3, <3>4 DEF UnseenRowsAreNew, TwinsHaveACause
  <2>2. ASSUME NEW p \in Properties, PersistProperty(r, p) \/ UpdateProperty(r, p)
        PROVE  UnseenRowsAreNew' /\ TwinsHaveACause'
    <3>1. UNCHANGED <<rows, pc, found, crossed>> /\ \A u \in Requests : todo'[u] \subseteq todo[u]
      BY <1>0, <2>2 DEF PersistProperty, UpdateProperty, history
    <3> QED BY <3>1 DEF UnseenRowsAreNew, TwinsHaveACause
  <2>3. ASSUME NEW a \in found[r], Delete(r, a) PROVE UnseenRowsAreNew' /\ TwinsHaveACause'
    <3>1. /\ rows' \subseteq rows /\ UNCHANGED <<pc, todo, crossed>> /\ todo[r] = {}
          /\ \A u \in Requests \ {r} : found'[u] = found[u]
      BY <1>0, <2>3 DEF Delete, history
    <3> QED BY <3>1 DEF UnseenRowsAreNew, TwinsHaveACause
  <2> QED BY <1>2, <2>1, <2>2, <2>3 DEF WorkSteps
<1>3. ASSUME NEW r \in Requests, EndSteps(r) PROVE UnseenRowsAreNew' /\ TwinsHaveACause'
  <2>1. /\ rows' \subseteq rows /\ UNCHANGED <<todo, found, crossed>> /\ pc'[r] # "keep"
        /\ \A u \in Requests \ {r} : pc'[u] = pc[u]
    BY <1>0, <1>3 DEF EndSteps, Finish, Clear, Fail, history
  <2> QED BY <2>1 DEF UnseenRowsAreNew, TwinsHaveACause
<1>4. ASSUME NEW r \in Requests, NEW p \in Properties, Associate(r, p)
      PROVE  UnseenRowsAreNew' /\ TwinsHaveACause'
  <2> DEFINE new == [of |-> p, by |-> r]
  <2>1. /\ rows' = rows \cup {new} /\ new.of = p /\ new.by = r /\ UNCHANGED <<pc, crossed>>
        /\ pc[r] = "keep" /\ p \in todo[r] \ Of(found[r])
    BY <1>4 DEF Associate, history
  <2>2. \A u \in Requests \ {r} : todo'[u] = todo[u] /\ found'[u] = found[u]
    BY <1>0, <1>4 DEF Associate
  <2>3. todo'[r] = todo[r] \ {p} /\ found'[r] = found[r] \cup {new}
    BY <1>0, <1>4 DEF Associate
  <2> HIDE DEF new
  <2>4. ASSUME NEW u \in Requests, pc[u] = "keep", u # r PROVE r \in crossed[u]
    BY <2>1, <2>4 DEF CrossedAreCrossed, UnderWay, Busy
  <2>5. todo'[r] \ Of(found'[r]) \subseteq todo[r] \ Of(found[r])
    BY <2>3 DEF Of
  <2>6. ASSUME NEW u \in Requests, pc'[u] = "keep", NEW a \in rows', a.of \in todo'[u] \ Of(found'[u])
        PROVE  a.by \in crossed'[u]
    <3>1. CASE a = new
      <4>1. u # r
        BY <2>1, <2>3, <2>6, <3>1
      <4> QED BY <2>1, <2>4, <2>6, <3>1, <4>1
    <3>2. CASE a # new
      BY <2>1, <2>2, <2>5, <2>6, <3>2 DEF UnseenRowsAreNew
    <3> QED BY <3>1, <3>2
  <2>7. ASSUME NEW a \in rows, a.of = p PROVE a.by \in Requests /\ a.by \in crossed[r] /\ r \in crossed[a.by]
    <3>1. a.by \in crossed[r]
      BY <2>1, <2>7 DEF UnseenRowsAreNew
    <3>2. a.by \in Requests
      BY <3>1 DEF TypeOK
    <3> QED BY <3>1, <3>2 DEF CrossedAreCrossed
  <2>8. TwinsHaveACause'
    BY <2>1, <2>7 DEF TwinsHaveACause
  <2> QED BY <2>6, <2>8 DEF UnseenRowsAreNew
<1>5. CASE UNCHANGED vars
  BY <1>5 DEF vars, history, UnseenRowsAreNew, TwinsHaveACause
<1> QED BY <1>1, <1>2, <1>3, <1>4, <1>5, StepsAre

\* However many requests synchronize a set, a property has two rows only if two of them
\* overlapped and each made one.
THEOREM TwinsAreExplained == Spec => []TwinsHaveACause
<1>1. TwinsInvariant => TwinsHaveACause
  BY DEF TwinsInvariant
<1> QED BY <1>1, TypeInit, TypeStep, TwinsInit, TwinsStep, PTL DEF Spec
-----------------------------------------------------------------------------
(* What stays in a set *)

\* A request has a list as long as it has not come to its end, and nobody else has a say in it.
LEMMA ListsStep == TypeOK /\ ListsAreKept /\ [Next]_vars => ListsAreKept'
<1> SUFFICES ASSUME TypeOK, ListsAreKept, [Next]_vars PROVE ListsAreKept'
  OBVIOUS
<1>0. /\ pc = [r \in Requests |-> pc[r]] /\ todo = [r \in Requests |-> todo[r]]
      /\ list = [r \in Requests |-> list[r]]
  BY DEF TypeOK
<1>1. ASSUME NEW r \in Requests, NEW l \in SUBSET Properties, Submit(r, l) PROVE ListsAreKept'
  BY <1>0, <1>1 DEF Submit, ListsAreKept
<1>2. ASSUME NEW r \in Requests, WorkSteps(r) \/ EndSteps(r) \/ \E p \in Properties : Associate(r, p)
      PROVE  ListsAreKept'
  <2>1. /\ UNCHANGED list /\ pc'[r] \notin {"load", "clear"}
        /\ \A u \in Requests \ {r} : pc'[u] = pc[u] /\ todo'[u] = todo[u]
    BY <1>0, <1>2
    DEF WorkSteps, EndSteps, Load, PersistProperty, UpdateProperty, Associate, Delete, Finish, Clear,
        Fail, history
  <2> QED BY <2>1 DEF ListsAreKept
<1>3. CASE UNCHANGED vars
  BY <1>3 DEF vars, ListsAreKept
<1> QED BY <1>1, <1>2, <1>3, StepsAre

\* A row is taken away only by a request whose list does not have its property.
LEMMA KeptStep ==
  ASSUME TypeOK, ListsAreKept, KeptPropertiesStay, [Next]_vars
  PROVE  KeptPropertiesStay'
<1>0. /\ pc = [r \in Requests |-> pc[r]] /\ list = [r \in Requests |-> list[r]]
  BY DEF TypeOK
<1>1. ASSUME NEW r \in Requests, NEW l \in SUBSET Properties, Submit(r, l) PROVE KeptPropertiesStay'
  <2>1. /\ UNCHANGED rows /\ pc[r] = "idle"
        /\ \A u \in Requests \ {r} : pc'[u] = pc[u] /\ list'[u] = list[u]
    BY <1>0, <1>1 DEF Submit
  <2> QED BY <2>1 DEF KeptPropertiesStay
<1>2. ASSUME NEW r \in Requests, WorkSteps(r) \/ EndSteps(r) \/ \E p \in Properties : Associate(r, p)
      PROVE  KeptPropertiesStay'
  <2>1. /\ UNCHANGED list /\ pc[r] # "idle" /\ pc'[r] # "idle"
        /\ \A u \in Requests \ {r} : pc'[u] = pc[u]
    BY <1>0, <1>2
    DEF WorkSteps, EndSteps, Load, PersistProperty, UpdateProperty, Associate, Delete, Finish, Clear,
        Fail, history, Busy
  <2>2. \A a \in rows \ rows' : a.of \notin list[r]
    <3>1. CASE Clear(r)
      BY <3>1 DEF Clear, ListsAreKept
    <3>2. CASE \E a \in found[r] : Delete(r, a)
      BY <3>2 DEF Delete, Superfluous
    <3>3. CASE ~Clear(r) /\ ~\E a \in found[r] : Delete(r, a)
      BY <1>2, <3>3
      DEF WorkSteps, EndSteps, Load, PersistProperty, UpdateProperty, Associate, Finish, Fail, history
    <3> QED BY <3>1, <3>2, <3>3
  <2>3. ASSUME NEW p \in Initial, \A u \in Requests : pc'[u] # "idle" => p \in list'[u]
        PROVE  p \in Of(rows')
    <3>1. p \in list[r] /\ \A u \in Requests : pc[u] # "idle" => p \in list[u]
      BY <2>1, <2>3
    <3>2. PICK a \in rows : a.of = p
      BY <3>1 DEF KeptPropertiesStay, Of
    <3> QED BY <2>2, <3>1, <3>2 DEF Of
  <2> QED BY <2>3 DEF KeptPropertiesStay
<1>3. CASE UNCHANGED vars
  BY <1>3 DEF vars, KeptPropertiesStay, Of
<1> QED BY <1>1, <1>2, <1>3, StepsAre

\* A property the set had at first stays in it as long as every list submitted has it, whoever
\* overlaps with whom and whatever fails: no step is without it.
THEOREM NothingKeptIsMissed == Spec => []KeptPropertiesStay
<1>1. Init => ListsAreKept /\ KeptPropertiesStay
  <2> SUFFICES ASSUME Init PROVE ListsAreKept /\ KeptPropertiesStay
    OBVIOUS
  <2>1. ASSUME NEW p \in Initial PROVE p \in Of(rows)
    <3>1. [of |-> p, by |-> NoRequest] \in rows /\ [of |-> p, by |-> NoRequest].of = p
      BY DEF Init
    <3> QED BY <3>1 DEF Of
  <2> QED BY <2>1 DEF Init, ListsAreKept, KeptPropertiesStay
<1>2. TypeOK /\ ListsAreKept /\ KeptPropertiesStay /\ [Next]_vars => KeptPropertiesStay'
  BY KeptStep
<1> QED BY <1>1, <1>2, TypeInit, TypeStep, ListsStep, PTL DEF Spec
-----------------------------------------------------------------------------
(* What the last request leaves *)

LastRequest == LastRequestIsAlone /\ ListIsAsSubmitted

\* Nobody disturbs the last request if it met no other when it began: each of its steps keeps
\* its map equal to the set, but for twins, and its list in what it has done and has to do.
LEMMA LastStep ==
  ASSUME TypeOK, ListsAreKept, LastRequest, [Next]_vars
  PROVE  LastRequest'
<1>0. /\ pc = [r \in Requests |-> pc[r]] /\ todo = [r \in Requests |-> todo[r]]
      /\ list = [r \in Requests |-> list[r]] /\ found = [r \in Requests |-> found[r]]
      /\ twins = [r \in Requests |-> twins[r]] /\ crossed = [r \in Requests |-> crossed[r]]
  BY DEF TypeOK
<1>1. ASSUME NEW r \in Requests, NEW l \in SUBSET Properties, Submit(r, l) PROVE LastRequest'
  <2>1. /\ latest' = r /\ pc'[r] \in {"load", "clear"} /\ crossed'[r] = UnderWay
        /\ \A u \in Requests \ {r} : pc'[u] = pc[u]
    BY <1>0, <1>1 DEF Submit
  <2>2. UnderWay' \subseteq UnderWay \cup {r}
    BY <2>1 DEF UnderWay
  <2> QED BY <2>1, <2>2 DEF LastRequest, LastRequestIsAlone, ListIsAsSubmitted
<1>2. ASSUME NEW r \in Requests, WorkSteps(r) \/ EndSteps(r) \/ \E p \in Properties : Associate(r, p)
      PROVE  LastRequest'
  <2>1. /\ UNCHANGED <<list, crossed, latest>> /\ pc[r] \in Busy
        /\ \A u \in Requests \ {r} : pc'[u] = pc[u]
    BY <1>0, <1>2
    DEF WorkSteps, EndSteps, Load, PersistProperty, UpdateProperty, Associate, Delete, Finish, Clear,
        Fail, history, Busy
  <2> SUFFICES ASSUME latest # NoRequest, crossed[latest] = {} PROVE LastRequest'
    BY <2>1 DEF LastRequest, LastRequestIsAlone, ListIsAsSubmitted
  <2>2. UnderWay' \subseteq UnderWay /\ UnderWay \subseteq {latest} /\ latest = r
    BY <2>1 DEF LastRequest, LastRequestIsAlone, UnderWay
  <2> DEFINE AtWork == /\ found[r] \subseteq rows
                       /\ \A a \in rows \ found[r] : a.of \in twins[r]
                       /\ list[r] \subseteq todo[r] \cup Of(found[r])
             AtTheEnd == list[r] \subseteq Of(rows) /\ Of(rows) \subseteq list[r] \cup twins[r]
  <2>3. pc[r] = "keep" => AtWork
    BY <2>2 DEF LastRequest, LastRequestIsAlone
  <2>4. SUFFICES (pc'[r] = "keep" => AtWork') /\ (pc'[r] = "done" => AtTheEnd')
    BY <2>1, <2>2 DEF LastRequest, LastRequestIsAlone, ListIsAsSubmitted
  <2>5. CASE Load(r)
    <3>1. /\ pc[r] = "load" /\ pc'[r] = "keep" /\ UNCHANGED <<rows, todo>>
          /\ OneEach(found'[r]) /\ Of(found'[r]) = Of(rows) /\ found'[r] \subseteq rows
          /\ twins'[r] = {p \in Properties : Several(p)}
      BY <1>0, <2>5 DEF Load
    <3>2. ASSUME NEW a \in rows \ found'[r] PROVE a.of \in twins'[r]
      <4>1. a.of \in Of(rows) /\ a.of \in Properties
        BY <3>2 DEF Of, TypeOK, Rows
      <4>2. PICK b \in found'[r] : b.of = a.of
        BY <3>1, <4>1 DEF Of
      <4> QED BY <3>1, <3>2, <4>1, <4>2 DEF Several
    <3>3. list'[r] = todo'[r]
      BY <2>1, <3>1 DEF ListsAreKept
    <3> QED BY <3>1, <3>2, <3>3
  <2>6. ASSUME NEW p \in Properties, PersistProperty(r, p) PROVE AtWork' /\ pc'[r] # "done"
    BY <2>3, <2>6 DEF PersistProperty, history
  <2>7. ASSUME NEW p \in Properties, UpdateProperty(r, p) PROVE AtWork' /\ pc'[r] # "done"
    <3>1. /\ pc[r] = "keep" /\ UNCHANGED <<rows, pc, list, found, twins>>
          /\ todo'[r] = todo[r] \ {p} /\ p \in Of(found[r])
      BY <1>0, <2>7 DEF UpdateProperty, history
    <3> QED BY <2>3, <3>1
  <2>8. ASSUME NEW p \in Properties, Associate(r, p) PROVE AtWork' /\ pc'[r] # "done"
    <3> DEFINE new == [of |-> p, by |-> r]
    <3>1. /\ pc[r] = "keep" /\ UNCHANGED <<pc, list, twins>> /\ new.of = p
          /\ rows' = rows \cup {new} /\ found'[r] = found[r] \cup {new} /\ todo'[r] = todo[r] \ {p}
      BY <1>0, <2>8 DEF Associate, history
    <3> HIDE DEF new
    <3>2. Of(found'[r]) = Of(found[r]) \cup {p}
      BY <3>1 DEF Of
    <3> QED BY <2>3, <3>1, <3>2
  <2>9. ASSUME NEW a \in found[r], Delete(r, a) PROVE AtWork' /\ pc'[r] # "done"
    <3>1. /\ pc[r] = "keep" /\ UNCHANGED <<pc, list, twins, todo>> /\ a.of \notin list[r]
          /\ rows' = rows \ {a} /\ found'[r] = found[r] \ {a} /\ todo[r] = {}
      BY <1>0, <2>9 DEF Delete, history, Superfluous
    <3>2. list[r] \subseteq Of(found'[r])
      BY <2>3, <3>1 DEF Of
    <3> QED BY <2>3, <3>1, <3>2
  <2>10. CASE Finish(r)
    <3>1. /\ pc[r] = "keep" /\ pc'[r] = "done" /\ UNCHANGED <<rows, list, twins>>
          /\ todo[r] = {} /\ \A a \in found[r] : a.of \in list[r]
      BY <1>0, <2>10 DEF Finish, history, Superfluous
    <3>2. list[r] \subseteq Of(rows) /\ Of(rows) \subseteq list[r] \cup twins[r]
      BY <2>3, <3>1 DEF Of
    <3> QED BY <3>1, <3>2
  <2>11. CASE Clear(r)
    <3>1. pc'[r] = "done" /\ list'[r] = {} /\ rows' = {}
      BY <1>0, <2>1, <2>11 DEF Clear, ListsAreKept
    <3> QED BY <3>1 DEF Of
  <2>12. CASE Fail(r)
    BY <1>0, <2>12 DEF Fail
  <2> QED BY <1>2, <2>5, <2>6, <2>7, <2>8, <2>9, <2>10, <2>11, <2>12 DEF WorkSteps, EndSteps
<1>3. CASE UNCHANGED vars
  BY <1>3 DEF vars, history, LastRequest, LastRequestIsAlone, ListIsAsSubmitted, UnderWay, Of
<1> QED BY <1>1, <1>2, <1>3, StepsAre

\* The last request, if it overlapped with no other and came to its end, leaves the properties
\* of its list in the set, and others only where there had been two rows of one.
THEOREM LastListHolds == Spec => []ListIsAsSubmitted
<1>1. Init => ListsAreKept /\ LastRequest
  BY DEF Init, ListsAreKept, LastRequest, LastRequestIsAlone, ListIsAsSubmitted
<1>2. TypeOK /\ ListsAreKept /\ LastRequest /\ [Next]_vars => LastRequest'
  BY LastStep
<1>3. LastRequest => ListIsAsSubmitted
  BY DEF LastRequest
<1> QED BY <1>1, <1>2, <1>3, TypeInit, TypeStep, ListsStep, PTL DEF Spec
=============================================================================
