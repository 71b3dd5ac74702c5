-------------------------- MODULE EntityTableProofs --------------------------
(* What holds of EntityTable for every page size and number of rows, columns, *)
(* terms and clicks, and of TypeAhead for all texts, entries and answers.     *)
EXTENDS EntityTable, Sequences, TLAPS

\* What a bag has after a message is added.
LEMMA Added ==
  ASSUME NEW b, NEW m PROVE BagToSet(BagAdd(b, m)) = BagToSet(b) \cup {m}
BY DEF BagToSet, BagAdd

\* One copy is taken out: nothing else comes or goes.
LEMMA Removed ==
  ASSUME NEW b, NEW m
  PROVE  /\ BagToSet(BagRemove(b, m)) \subseteq BagToSet(b)
         /\ BagToSet(b) \ {m} \subseteq BagToSet(BagRemove(b, m))
BY DEF BagToSet, BagRemove

\* What a bag of one message has.
LEMMA Alone ==
  ASSUME NEW m PROVE BagToSet(SetToBag({m})) = {m}
BY DEF BagToSet, SetToBag

\* The larger one of two numbers.
LEMMA Larger ==
  ASSUME NEW a \in Nat, NEW b \in Nat PROVE Max({a, b}) = IF a >= b THEN a ELSE b
BY DEF Max

\* The smaller one of two numbers.
LEMMA Smaller ==
  ASSUME NEW a \in Nat, NEW b \in Nat PROVE Min({a, b}) = IF a <= b THEN a ELSE b
BY DEF Min

\* Pages of p rows: the quotient rounds down, and a multiple of p is a first row.
LEMMA Quotient ==
  ASSUME NEW a \in Nat, NEW p \in Nat, p > 0
  PROVE  /\ a \div p \in Nat /\ p * (a \div p) <= a /\ p * (a \div p) > a - p
         /\ (a % p = 0 => p * (a \div p) = a) /\ (a + p) \div p = a \div p + 1
<1>1. a \div p \in Nat BY Z3
<1>2. p * (a \div p) <= a BY Z3
<1>3. p * (a \div p) > a - p BY Z3
<1>4. ASSUME a % p = 0 PROVE p * (a \div p) = a BY <1>4, Z3
<1>5. (a + p) \div p = a \div p + 1 BY Z3
<1> QED BY <1>1, <1>2, <1>3, <1>4, <1>5

\* Multiples of p start pages, and are ordered as their factors.
LEMMA Multiple ==
  ASSUME NEW k \in Nat, NEW p \in Nat, p > 0
  PROVE  k * p \in Nat /\ (k * p) % p = 0 /\ \A l \in Nat : k <= l => k * p <= l * p
<1>1. k * p \in Nat BY Z3
<1>2. (k * p) % p = 0 BY Z3
<1>3. \A l \in Nat : k <= l => k * p <= l * p BY Z3
<1> QED BY <1>1, <1>2, <1>3

\* TotalPages() is the number of pages that have rows.
LEMMA PagesHoldTheRows ==
  ASSUME NEW total \in Nat
  PROVE  /\ TotalPages(total) \in Nat /\ TotalPages(total) * PageSize >= total
         /\ TotalPages(total) > 0 => (TotalPages(total) - 1) * PageSize < total
<1> DEFINE d == total \div PageSize
<1>0. PageSize \in Nat /\ PageSize > 0
  BY TableAssumption DEF TableAssumption
<1>1. /\ d \in Nat /\ PageSize * d <= total /\ PageSize * d > total - PageSize
      /\ (total % PageSize = 0 => PageSize * d = total)
      /\ (total + PageSize) \div PageSize = d + 1
  BY <1>0, Quotient
<1> HIDE DEF d
<1>2. CASE total % PageSize = 0
  <2>1. TotalPages(total) = d
    BY <1>2 DEF TotalPages, d
  <2>2. d * PageSize = total /\ (d - 1) * PageSize = total - PageSize
    BY <1>0, <1>1, <1>2, Z3
  <2> QED BY <1>0, <1>1, <2>1, <2>2
<1>3. CASE total % PageSize # 0
  <2>1. TotalPages(total) = d + 1
    BY <1>1, <1>3 DEF TotalPages, d
  <2>2. (d + 1) * PageSize = PageSize * d + PageSize /\ (d + 1 - 1) * PageSize = PageSize * d
    BY <1>0, <1>1, Z3
  <2>3. PageSize * d # total
    <3>1. (d * PageSize) % PageSize = 0 BY <1>0, <1>1, Multiple
    <3>2. d * PageSize = PageSize * d BY <1>0, <1>1, Z3
    <3> QED BY <1>3, <3>1, <3>2
  <2> QED BY <1>0, <1>1, <2>1, <2>2, <2>3
<1> QED BY <1>2, <1>3
(* The inductive invariant *)

Fields == Columns \cup {Unsorted}
Queries == [n : Nat, term : Terms, field : Fields, asc : BOOLEAN, offset : Nat,
            for : Terms, listed : BOOLEAN]
Results == [kind : {"result"}, query : Queries, total : Nat, count : Nat]
Firsts == [kind : {"first"}, n : Nat]
Asked == [kind : {"query"}, query : Queries]

Providers == [search : BOOLEAN, linked : BOOLEAN, term : Terms, offset : Nat,
              field : Fields, asc : BOOLEAN, for : Terms, listed : BOOLEAN]

Types ==
  /\ provider \in Providers
  /\ found \in [Terms -> Nat] /\ icon \subseteq Columns
  /\ shown \in Results /\ bar \in [current : Nat \ {0}, total : Nat, for : Terms]
  /\ Messages \subseteq Firsts \cup Asked \cup Results
  /\ loads \in Nat /\ seen \in Nat /\ acts \in Nat /\ faults \in Nat /\ removed \in Nat

\* The load a message belongs to.
Number(m) == IF m.kind = "first" THEN m.n ELSE m.query.n

\* A query that asks for what the provider is set to.
AsSet(q) == /\ q.term = provider.term /\ q.offset = provider.offset
            /\ q.field = provider.field /\ q.asc = provider.asc

\* The newest load asks for what the provider is set to, and is under way or rendered.
NewestIsAsSet ==
  /\ \A m \in Messages : /\ Number(m) <= loads
                         /\ Number(m) = loads /\ m.kind # "first" => AsSet(m.query)
  /\ seen <= loads /\ shown.query.n <= seen
  /\ shown.query.n = loads => AsSet(shown.query)
  /\ faults = 0 => seen = loads \/ \E m \in Messages : Number(m) = loads

\* The bar gets the page when an answer comes, the icon at once.
BarFollows ==
  /\ bar.current = CurrentPage(provider) \/ Messages # {} \/ faults > 0
  /\ bar.for = shown.query.term /\ bar.total = TotalPages(shown.total)
  /\ provider.offset % PageSize = 0
  /\ provider.field \in icon <=> provider.asc

\* An offset whose page was in the bar is below what the bar's term finds.
Offered(q) == q.listed => q.offset = 0 \/ q.offset < found[q.for]

\* An answer without rows to a term that finds some was asked with such an offset
\* for another term, or with another offset.
EmptyHasACause(r) == r.total > 0 /\ r.count = 0 => r.query.for # r.query.term \/ ~r.query.listed

\* As long as no rows are removed.
OffsetsAreOffered ==
  removed = 0 =>
    /\ Offered(provider) /\ \A m \in Messages : m.kind = "query" => Offered(m.query)
    /\ \A m \in Messages : m.kind = "result" =>
         m.total = found[m.query.term] /\ EmptyHasACause(m)
    /\ shown.total \in {0, found[shown.query.term]} /\ EmptyHasACause(shown)

TableInvariant == Types /\ NewestIsAsSet /\ BarFollows /\ OffsetsAreOffered

\* What kind a message is of.
LEMMA MessageKinds ==
  ASSUME Types, NEW m \in Messages
  PROVE  /\ m.kind = "first" => m \in Firsts
         /\ m.kind = "query" => m \in Asked
         /\ m.kind = "result" => m \in Results
         /\ m.kind \in {"first", "query", "result"} /\ Number(m) \in Nat
BY DEF Types, Firsts, Asked, Results, Queries, Number

\* Loading sends one request, for the provider as it is then, unless it is still the first.
LEMMA LoadSends ==
  ASSUME Types, NEW p \in Providers, Load(p)
  PROVE  \E m \in Firsts \cup Asked :
           /\ Messages' = Messages \cup {m} /\ Number(m) = loads + 1
           /\ m.kind # "first" => m.kind = "query" /\ m.query = Query(loads + 1, p)
<1>1. loads + 1 \in Nat BY DEF Types
<1>2. Query(loads + 1, p) \in Queries BY <1>1 DEF Query, Queries, Providers
<1>3. CASE p.linked
  <2> DEFINE m == [kind |-> "query", query |-> Query(loads + 1, p)]
  <2>1. m \in Asked /\ Number(m) = loads + 1 BY <1>2 DEF Asked, Number, Query
  <2>2. Messages' = Messages \cup {m} BY <1>3, Added DEF Load, Messages
  <2> QED BY <2>1, <2>2
<1>4. CASE ~p.linked
  <2> DEFINE m == [kind |-> "first", n |-> loads + 1]
  <2>1. m \in Firsts /\ Number(m) = loads + 1 BY <1>1 DEF Firsts, Number
  <2>2. Messages' = Messages \cup {m} BY <1>4, Added DEF Load, Messages
  <2> QED BY <2>1, <2>2
<1> QED BY <1>3, <1>4

\* What the server answers.
LEMMA ResultAnswers ==
  ASSUME NEW q \in Queries, NEW total \in Nat
  PROVE  /\ Result(q, total) \in Results /\ Result(q, total).kind = "result"
         /\ Result(q, total).query = q /\ Result(q, total).total = total
         /\ Result(q, total).count = 0 /\ total > 0 => q.offset >= total /\ q.offset # 0
<1> DEFINE left == IF q.offset < total THEN total - q.offset ELSE 0
<1>0. PageSize \in Nat /\ PageSize > 0
  BY TableAssumption DEF TableAssumption
<1>1. left \in Nat /\ (left = 0 => q.offset >= total)
  BY DEF Queries
<1>2. Result(q, total) = [kind |-> "result", query |-> q, total |-> total, count |-> Min({left, PageSize})]
  BY DEF Result
<1> HIDE DEF left
<1>3. Min({left, PageSize}) \in Nat /\ (Min({left, PageSize}) = 0 => left = 0)
  BY <1>0, <1>1, Smaller
<1> QED BY <1>1, <1>2, <1>3 DEF Results, Queries
-----------------------------------------------------------------------------
(* The steps keep it *)

\* Whatever a click sets the provider to: it is what the newest load asks for.
LEMMA LoadStep ==
  ASSUME TableInvariant, provider' \in Providers, Load(provider'),
         acts' \in Nat, UNCHANGED <<found, shown, bar, seen, faults, removed>>,
         icon' \subseteq Columns, provider'.field \in icon' <=> provider'.asc,
         provider'.offset % PageSize = 0,
         removed = 0 /\ provider'.listed => provider'.offset = 0 \/ provider'.offset < found[provider'.for]
  PROVE  TableInvariant'
<1> USE DEF TableInvariant
<1>1. PICK m \in Firsts \cup Asked :
           /\ Messages' = Messages \cup {m} /\ Number(m) = loads + 1
           /\ m.kind # "first" => m.kind = "query" /\ m.query = Query(loads + 1, provider')
  BY LoadSends
<1>2. loads' = loads + 1 /\ loads \in Nat /\ seen \in Nat /\ seen <= loads /\ shown.query.n <= seen
  BY DEF Load, Types, NewestIsAsSet
<1>3. Types'
  <2>1. Messages' \subseteq Firsts \cup Asked \cup Results
    BY <1>1 DEF Types
  <2> QED BY <1>2, <2>1 DEF Types
<1>4. NewestIsAsSet'
  <2>1. ASSUME NEW x \in Messages'
        PROVE  Number(x) <= loads' /\ (Number(x) = loads' /\ x.kind # "first" => AsSet(x.query)')
    <3>1. CASE x = m
      BY <1>1, <1>2, <3>1 DEF AsSet, Query
    <3>2. CASE x \in Messages
      <4>1. Number(x) \in Nat /\ Number(x) <= loads
        BY <3>2, MessageKinds DEF NewestIsAsSet
      <4> QED BY <1>2, <4>1
    <3> QED BY <1>1, <2>1, <3>1, <3>2
  <2>2. seen' <= loads' /\ shown'.query.n <= seen' /\ shown'.query.n # loads'
    BY <1>2 DEF Types, Results, Queries
  <2>3. \E x \in Messages' : Number(x) = loads'
    BY <1>1, <1>2
  <2> QED BY <2>1, <2>2, <2>3 DEF NewestIsAsSet, Number
<1>5. BarFollows'
  BY <1>1 DEF BarFollows
<1>6. OffsetsAreOffered'
  <2> SUFFICES ASSUME removed = 0 PROVE OffsetsAreOffered'
    BY DEF OffsetsAreOffered
  <2>1. Offered(provider)' BY DEF Offered
  <2>2. m.kind # "result" /\ (m.kind = "query" => Offered(m.query)')
    BY <1>1, <2>1 DEF Offered, Query, Firsts, Asked
  <2> QED BY <1>1, <2>1, <2>2 DEF OffsetsAreOffered, Offered, EmptyHasACause
<1> QED BY <1>3, <1>4, <1>5, <1>6

\* The clicks.
LEMMA ReloadStep ==
  ASSUME TableInvariant, Reload PROVE TableInvariant'
BY LoadStep DEF Reload, Click, TableInvariant, Types, BarFollows, OffsetsAreOffered, Offered

\* A search starts again with the first page.
LEMMA SearchStep ==
  ASSUME TableInvariant, NEW t \in Terms, Search(t) PROVE TableInvariant'
<1>1. provider' \in Providers
  BY DEF Search, TableInvariant, Types, Providers
<1> QED BY <1>1, LoadStep
        DEF Search, Click, TableInvariant, Types, BarFollows, OffsetsAreOffered, Offered, Providers

\* A click on a column sorts by it, or the other way round.
LEMMA SortStep ==
  ASSUME TableInvariant, NEW c \in Columns, SortBy(c) PROVE TableInvariant'
<1>1. provider' \in Providers
  BY DEF SortBy, TableInvariant, Types, Providers, Fields
<1>2. icon' \subseteq Columns /\ (provider'.field \in icon' <=> provider'.asc)
  <2>1. icon \subseteq Columns /\ (provider.field \in icon <=> provider.asc) /\ provider \in Providers
    BY DEF TableInvariant, Types, BarFollows
  <2>2. provider'.field = c
    BY <2>1 DEF SortBy, Providers
  <2>3. provider'.asc \in BOOLEAN
    BY <1>1 DEF Providers
  <2> QED BY <2>1, <2>2, <2>3 DEF SortBy
<1>3. provider'.offset = provider.offset /\ provider'.for = provider.for /\ provider'.listed = provider.listed
  BY DEF SortBy, TableInvariant, Types, Providers
<1> QED BY <1>1, <1>2, <1>3, LoadStep
        DEF SortBy, Click, TableInvariant, Types, BarFollows, OffsetsAreOffered, Offered

\* The first row of a page that is in the bar is one the bar's term finds.
LEMMA TurnStep ==
  ASSUME TableInvariant, NEW k \in Links, TurnTo(k) PROVE TableInvariant'
<1>0. PageSize \in Nat /\ PageSize > 0
  BY TableAssumption DEF TableAssumption
<1>1. bar.total \in Nat /\ bar.current \in Nat \ {0} /\ bar.for \in Terms
  BY DEF TableInvariant, Types
<1>3. k \in Nat /\ k >= 1
  BY <1>1 DEF Links
<1>4. OffsetOf(k) \in Nat /\ OffsetOf(k) % PageSize = 0
  BY <1>0, <1>3, Multiple DEF OffsetOf
<1>5. /\ provider' \in Providers /\ provider'.offset = OffsetOf(k) /\ provider'.for = bar.for
      /\ provider'.listed => k <= bar.total
      /\ provider'.field = provider.field /\ provider'.asc = provider.asc
  <2> DEFINE listed == k <= bar.total
  <2>1. listed \in BOOLEAN OBVIOUS
  <2>2. provider' = [provider EXCEPT !.offset = OffsetOf(k), !.for = bar.for, !.listed = listed]
    BY DEF TurnTo
  <2>3. listed => k <= bar.total OBVIOUS
  <2> HIDE DEF listed
  <2>4. provider \in Providers BY DEF TableInvariant, Types
  <2>5. provider' \in Providers BY <1>1, <1>4, <2>1, <2>2, <2>4 DEF Providers
  <2>6. provider'.listed = listed BY <2>2, <2>4 DEF Providers
  <2> QED BY <2>2, <2>3, <2>4, <2>5, <2>6 DEF Providers
<1>6. ASSUME removed = 0, k <= bar.total PROVE OffsetOf(k) < found[bar.for]
  <2>1. /\ bar.for = shown.query.term /\ bar.total = TotalPages(shown.total) /\ shown.total \in Nat
        /\ shown.total \in {0, found[shown.query.term]}
    BY <1>6 DEF TableInvariant, BarFollows, OffsetsAreOffered, Types, Results
  <2>2. (bar.total - 1) * PageSize < shown.total
    BY <1>1, <1>3, <1>6, <2>1, PagesHoldTheRows
  <2>3. (k - 1) * PageSize <= (bar.total - 1) * PageSize
    BY <1>0, <1>1, <1>3, <1>6, Multiple
  <2>4. (bar.total - 1) * PageSize \in Nat
    BY <1>0, <1>1, <1>3, <1>6, Multiple
  <2> QED BY <1>4, <2>1, <2>2, <2>3, <2>4 DEF OffsetOf
<1>7. /\ Load(provider') /\ acts' \in Nat /\ UNCHANGED <<found, icon, shown, bar, seen, faults, removed>>
  BY DEF TurnTo, Click, TableInvariant, Types
<1>8. icon' \subseteq Columns /\ (provider'.field \in icon' <=> provider'.asc)
  BY <1>5, <1>7 DEF TableInvariant, Types, BarFollows
<1> QED BY <1>4, <1>5, <1>6, <1>7, <1>8, LoadStep

\* The server answers with what the term finds.
LEMMA ServeStep ==
  ASSUME TableInvariant, NEW m \in Messages, Serve(m) PROVE TableInvariant'
<1> USE DEF TableInvariant
<1> DEFINE r == Result(m.query, found[m.query.term])
<1>0. m \in Asked /\ m.query \in Queries /\ found[m.query.term] \in Nat /\ m.kind = "query"
  BY MessageKinds DEF Serve, Asked, Queries, Types
<1>1. /\ r \in Results /\ r.kind = "result" /\ r.query = m.query /\ r.total = found[m.query.term]
      /\ r.count = 0 /\ r.total > 0 => r.query.offset >= r.total /\ r.query.offset # 0
  BY <1>0, ResultAnswers
<1>2. UNCHANGED <<provider, found, icon, shown, bar, loads, seen, counts>>
  BY DEF Serve
<1>3. Messages' \subseteq Messages \cup {r} /\ (Messages \ {m}) \cup {r} \subseteq Messages'
  BY Added, Removed DEF Serve, Without, Messages
<1> HIDE DEF r
<1>4. Number(r) = Number(m) /\ Number(m) <= loads
  BY <1>0, <1>1 DEF Number, NewestIsAsSet
<1>5. Types'
  BY <1>1, <1>2, <1>3 DEF Types, counts
<1>6. NewestIsAsSet'
  <2>1. Number(m) = loads => AsSet(m.query)
    BY <1>0 DEF NewestIsAsSet
  <2>2. \A x \in Messages : Number(x) = loads => \E y \in Messages' : Number(y) = loads
    BY <1>3, <1>4
  <2> QED BY <1>1, <1>2, <1>3, <1>4, <2>1, <2>2 DEF NewestIsAsSet, AsSet, Number, counts
<1>7. BarFollows'
  BY <1>2, <1>3 DEF BarFollows, CurrentPage, counts
<1>8. OffsetsAreOffered'
  <2> SUFFICES ASSUME removed = 0 PROVE OffsetsAreOffered'
    BY <1>2 DEF OffsetsAreOffered, counts
  <2>1. Offered(m.query) BY <1>0 DEF OffsetsAreOffered
  <2>2. EmptyHasACause(r)
    BY <1>0, <1>1, <2>1 DEF EmptyHasACause, Offered, Queries
  <2> QED BY <1>1, <1>2, <1>3, <2>2 DEF OffsetsAreOffered, Offered, EmptyHasACause, counts
<1> QED BY <1>5, <1>6, <1>7, <1>8

\* A refused request is a fault.
LEMMA RefuseStep ==
  ASSUME TableInvariant, NEW m \in Messages, Refuse(m) PROVE TableInvariant'
<1> USE DEF TableInvariant
<1>1. /\ UNCHANGED <<provider, found, icon, shown, bar, loads, seen, acts, removed>>
      /\ faults' = faults + 1 /\ faults \in Nat
  BY DEF Refuse, Types
<1>2. Messages' \subseteq Messages
  BY Removed DEF Refuse, Without, Messages
<1>3. Types'
  BY <1>1, <1>2 DEF Types
<1>4. NewestIsAsSet'
  BY <1>1, <1>2 DEF NewestIsAsSet, AsSet, Number
<1>5. BarFollows'
  BY <1>1 DEF BarFollows, CurrentPage
<1>6. OffsetsAreOffered'
  BY <1>1, <1>2 DEF OffsetsAreOffered, Offered, EmptyHasACause
<1> QED BY <1>3, <1>4, <1>5, <1>6

\* Once a row is removed the offsets say nothing any more.
LEMMA OtherClientStep ==
  ASSUME TableInvariant, NEW S \in SUBSET Terms, OtherClient(S) PROVE TableInvariant'
<1> USE DEF TableInvariant
<1>1. /\ UNCHANGED <<provider, icon, shown, bar, call, loads, seen, acts, faults>>
      /\ removed' = removed + 1 /\ removed \in Nat
  BY DEF OtherClient, Types
<1>2. found' \in [Terms -> Nat]
  BY DEF OtherClient, Types
<1>3. Messages' = Messages
  BY <1>1 DEF Messages
<1>4. Types'
  BY <1>1, <1>2, <1>3 DEF Types
<1>5. NewestIsAsSet'
  BY <1>1, <1>3 DEF NewestIsAsSet, AsSet, Number
<1>6. BarFollows'
  BY <1>1, <1>3 DEF BarFollows, CurrentPage
<1>7. OffsetsAreOffered'
  BY <1>1 DEF OffsetsAreOffered
<1> QED BY <1>4, <1>5, <1>6, <1>7

\* The query after the first page carries what the provider is set to by then.
LEMMA LoadedFirstPageStep ==
  ASSUME TableInvariant, NEW m \in Messages, LoadedFirstPage(m) PROVE TableInvariant'
<1> USE DEF TableInvariant
<1>0. m.kind = "first" /\ m.n \in Nat /\ provider \in Providers
  BY MessageKinds DEF LoadedFirstPage, Firsts, Types
<1>1. PICK x \in Asked : /\ x = [kind |-> "query", query |-> Query(m.n, provider)]
                        /\ x.kind = "query" /\ Number(x) = m.n /\ x.query = Query(m.n, provider)
  <2> DEFINE x == [kind |-> "query", query |-> Query(m.n, provider)]
  <2>1. x \in Asked /\ x.kind = "query" /\ Number(x) = m.n /\ x.query = Query(m.n, provider)
    BY <1>0 DEF Asked, Queries, Query, Providers, Number
  <2> QED BY <2>1
<1>2. /\ provider' = [provider EXCEPT !.linked = TRUE]
      /\ UNCHANGED <<found, icon, shown, bar, loads, seen, counts>>
  BY DEF LoadedFirstPage
<1>3. Messages' \subseteq Messages \cup {x} /\ (Messages \ {m}) \cup {x} \subseteq Messages'
  BY <1>1, Added, Removed DEF LoadedFirstPage, Without, Messages
<1>4. /\ provider' \in Providers /\ provider'.term = provider.term /\ provider'.field = provider.field
      /\ provider'.asc = provider.asc /\ provider'.offset = provider.offset
      /\ provider'.for = provider.for /\ provider'.listed = provider.listed
  BY <1>0, <1>2 DEF Providers
<1>5. Types'
  BY <1>1, <1>2, <1>3, <1>4 DEF Types, counts
<1>6. NewestIsAsSet'
  <2>1. Number(m) = m.n /\ Number(m) <= loads
    BY <1>0 DEF Number, NewestIsAsSet
  <2>2. AsSet(x.query)'
    BY <1>1, <1>4 DEF AsSet, Query
  <2>3. ASSUME NEW q PROVE AsSet(q)' <=> AsSet(q)
    BY <1>4 DEF AsSet
  <2>4. \A y \in Messages' : /\ Number(y) <= loads
                             /\ Number(y) = loads /\ y.kind # "first" => AsSet(y.query)'
    BY <1>1, <1>3, <2>1, <2>2, <2>3 DEF NewestIsAsSet
  <2>5. \A y \in Messages : Number(y) = loads => \E z \in Messages' : Number(z) = loads
    BY <1>1, <1>3, <2>1
  <2> QED BY <1>2, <2>3, <2>4, <2>5 DEF NewestIsAsSet, Number, counts
<1>7. BarFollows'
  BY <1>2, <1>3, <1>4 DEF BarFollows, CurrentPage, counts
<1>8. OffsetsAreOffered'
  <2> SUFFICES ASSUME removed = 0 PROVE OffsetsAreOffered'
    BY <1>2 DEF OffsetsAreOffered, counts
  <2>1. Offered(provider)' /\ Offered(x.query)
    BY <1>1, <1>2, <1>4 DEF OffsetsAreOffered, Offered, Query
  <2> QED BY <1>1, <1>2, <1>3, <2>1 DEF OffsetsAreOffered, Offered, EmptyHasACause, counts
<1> QED BY <1>5, <1>6, <1>7, <1>8

\* Any answer is rendered, with the bar for the provider's page and the answer's total.
LEMMA LoadedStep ==
  ASSUME TableInvariant, NEW m \in Messages, Loaded(m) PROVE TableInvariant'
<1> USE DEF TableInvariant
<1>0. m \in Results /\ m.kind = "result" /\ m.query \in Queries /\ m.query.n \in Nat /\ m.total \in Nat
  BY MessageKinds DEF Loaded, Results, Queries
<1>1. /\ shown' = m /\ bar' = Bar(provider, m)
      /\ UNCHANGED <<provider, found, icon, loads, counts>>
  BY DEF Loaded
<1>2. Messages' \subseteq Messages /\ Messages \ {m} \subseteq Messages'
  BY Removed DEF Loaded, Without, Messages
<1>3. seen \in Nat /\ seen' = IF seen >= m.query.n THEN seen ELSE m.query.n
  BY <1>0, Larger DEF Loaded, Types
<1>4. /\ bar'.current = CurrentPage(provider) /\ bar'.total = TotalPages(m.total) /\ bar'.for = m.query.term
      /\ bar' \in [current : Nat \ {0}, total : Nat, for : Terms]
  <2>1. CurrentPage(provider) \in Nat \ {0}
    <3>1. provider.offset \in Nat /\ PageSize \in Nat /\ PageSize > 0
      BY TableAssumption DEF TableAssumption, Types, Providers
    <3>2. provider.offset \div PageSize \in Nat
      BY <3>1, Quotient
    <3> QED BY <3>2 DEF CurrentPage
  <2>2. TotalPages(m.total) \in Nat
    BY <1>0, PagesHoldTheRows
  <2> QED BY <1>0, <1>1, <2>1, <2>2 DEF Bar, Queries
<1>5. Types'
  BY <1>0, <1>1, <1>2, <1>3, <1>4 DEF Types, counts
<1>6. NewestIsAsSet'
  <2>1. Number(m) = m.query.n /\ m.query.n <= loads /\ (m.query.n = loads => AsSet(m.query)) /\ loads \in Nat
    BY <1>0 DEF Number, NewestIsAsSet, Types
  <2>2. seen' <= loads /\ shown'.query.n <= seen' /\ (shown'.query.n = loads => AsSet(shown'.query))
    BY <1>0, <1>1, <1>3, <2>1 DEF NewestIsAsSet
  <2>3. faults = 0 => seen' = loads \/ \E x \in Messages' : Number(x) = loads
    BY <1>0, <1>2, <1>3, <2>1 DEF NewestIsAsSet
  <2> QED BY <1>1, <1>2, <2>2, <2>3 DEF NewestIsAsSet, AsSet, Number, counts
<1>7. BarFollows'
  BY <1>1, <1>4 DEF BarFollows, CurrentPage, counts
<1>8. OffsetsAreOffered'
  BY <1>0, <1>1, <1>2 DEF OffsetsAreOffered, Offered, EmptyHasACause, counts
<1> QED BY <1>5, <1>6, <1>7, <1>8
-----------------------------------------------------------------------------
(* The theorems *)

\* The first load asks for what the provider is set to.
LEMMA TableInit == Init => TableInvariant
<1> SUFFICES ASSUME Init PROVE TableInvariant
  OBVIOUS
<1>0. PageSize \in Nat /\ PageSize > 0 /\ SortedBy \in Columns /\ Unsorted \notin Columns /\ NoTerm \in Terms
  BY TableAssumption DEF TableAssumption
<1>1. /\ provider \in Providers /\ provider.offset = 0 /\ provider.asc = FALSE /\ provider.for = NoTerm
      /\ provider.term = NoTerm
  BY <1>0 DEF Init, Providers, Fields
<1>2. Query(0, provider) \in Queries /\ Query(1, provider) \in Queries
  BY <1>1 DEF Query, Queries, Providers
<1>3. /\ shown \in Results /\ shown.total = 0 /\ shown.query = Query(0, provider)
  BY <1>2, ResultAnswers DEF Init
<1>4. \E m \in Firsts \cup Asked :
         /\ Messages = {m} /\ Number(m) = 1 /\ m.kind # "result"
         /\ m.kind # "first" => m.query = Query(1, provider)
  <2>1. CASE provider.search
    <3> DEFINE m == [kind |-> "first", n |-> 1]
    <3>1. m \in Firsts /\ Number(m) = 1 BY DEF Firsts, Number
    <3>2. Messages = {m} BY <2>1, Alone DEF Init, Messages
    <3> QED BY <3>1, <3>2
  <2>2. CASE ~provider.search
    <3> DEFINE m == [kind |-> "query", query |-> Query(1, provider)]
    <3>1. m \in Asked /\ Number(m) = 1 BY <1>2 DEF Asked, Number, Query
    <3>2. Messages = {m} BY <2>2, Alone DEF Init, Messages
    <3> QED BY <3>1, <3>2
  <2> QED BY <2>1, <2>2
<1>5. TotalPages(0) = 0 /\ CurrentPage(provider) = 1
  <2>1. 0 % PageSize = 0 /\ 0 \div PageSize = 0 BY <1>0, Z3
  <2> QED BY <1>1, <2>1 DEF TotalPages, CurrentPage
<1>6. Types
  <2>1. found \in [Terms -> Nat] BY DEF Init
  <2> QED BY <1>0, <1>1, <1>3, <1>4, <2>1 DEF Init, Types
<1>7. NewestIsAsSet
  <2>1. AsSet(Query(1, provider)) /\ Query(0, provider).n = 0
    BY DEF AsSet, Query
  <2>2. loads = 1 /\ seen = 0 /\ shown.query.n = 0
    BY <1>3, <2>1 DEF Init
  <2>3. \A m \in Messages : Number(m) = 1 /\ (m.kind # "first" => AsSet(m.query))
    BY <1>4, <2>1
  <2>4. \E m \in Messages : Number(m) = 1
    BY <1>4
  <2> QED BY <2>2, <2>3, <2>4 DEF NewestIsAsSet
<1>8. BarFollows
  <2>1. 0 % PageSize = 0 BY <1>0, Z3
  <2> QED BY <1>1, <1>3, <1>5, <2>1 DEF Init, BarFollows, Query
<1>9. OffsetsAreOffered
  BY <1>1, <1>3, <1>4 DEF OffsetsAreOffered, Offered, EmptyHasACause, Query
<1> QED BY <1>6, <1>7, <1>8, <1>9 DEF TableInvariant

\* Every step keeps the invariant.
LEMMA TableStep == TableInvariant /\ [Next]_vars => TableInvariant'
<1>1. ASSUME TableInvariant, UNCHANGED vars PROVE TableInvariant'
  <2>1. UNCHANGED <<provider, found, icon, shown, bar, call, loads, seen, acts, faults, removed>>
    BY <1>1 DEF vars, counts
  <2>2. Messages' = Messages BY <2>1 DEF Messages
  <2> QED BY <1>1, <2>1, <2>2 DEF TableInvariant, Types, NewestIsAsSet, BarFollows, OffsetsAreOffered,
             AsSet, Number, Offered, EmptyHasACause, CurrentPage
<1> QED BY <1>1, ReloadStep, SearchStep, SortStep, TurnStep, ServeStep, RefuseStep, OtherClientStep,
           LoadedFirstPageStep, LoadedStep DEF Next

\* For every page size and however answers overtake each other, the bar has links for the
\* rows of the answer it shows and no page without any, offsets are page starts, and what
\* is rendered was loaded.
THEOREM TableTypeCorrect == Spec => []TypeOK
<1>1. TableInvariant => TypeOK
  <2> SUFFICES ASSUME TableInvariant PROVE TypeOK
    OBVIOUS
  <2>1. shown.total \in Nat /\ bar.total = TotalPages(shown.total)
    BY DEF TableInvariant, Types, Results, BarFollows
  <2>2. bar.total * PageSize >= shown.total /\ (bar.total > 0 => (bar.total - 1) * PageSize < shown.total)
    BY <2>1, PagesHoldTheRows
  <2> QED BY <2>2 DEF TypeOK, TableInvariant, Types, Providers, Fields, BarFollows, NewestIsAsSet
<1> QED BY <1>1, TableInit, TableStep, PTL DEF Spec

\* When all answers are there and none failed, the rows are those of the newest load unless
\* an older answer overtook it, and bar and icon are the provider's; and a term that finds
\* rows is shown without any only if they were removed or the offset was not offered for it.
THEOREM TableIsRight == Spec => []WrongTableHasACause
<1>1. TableInvariant => WrongTableHasACause
  <2> SUFFICES ASSUME TableInvariant PROVE WrongTableHasACause
    OBVIOUS
  <2>1. ASSUME Quiet, faults = 0
        PROVE  /\ shown.query.n < seen \/ AsSet(shown.query)
               /\ bar.current = CurrentPage(provider) /\ (provider.field \in icon <=> provider.asc)
    BY <2>1 DEF Quiet, TableInvariant, Types, Results, Queries, NewestIsAsSet, BarFollows
  <2>2. ASSUME shown.total > 0, shown.count = 0
        PROVE  removed > 0 \/ shown.query.for # shown.query.term \/ ~shown.query.listed
    BY <2>2 DEF TableInvariant, Types, OffsetsAreOffered, EmptyHasACause
  <2> QED BY <2>1, <2>2 DEF WrongTableHasACause, AsSet
<1> QED BY <1>1, TableInit, TableStep, PTL DEF Spec
-----------------------------------------------------------------------------
(* The type-ahead input, which searches with one of these data providers.  The    *)
(* theorems are about TypeAhead alone: a name that both modules have, such as     *)
(* provider, is in Input! what TypeAhead says of it.                              *)

CONSTANTS Entries, NoEntry, Texts, Empty, Matches, Label
VARIABLES text, value, results, noResult, used, sel, lit, timer, searches, typed, late, after, broken

Input == INSTANCE TypeAhead

\* Its bags and maxima are those of this module.
LEMMA InputBags ==
  ASSUME NEW b, NEW m
  PROVE  /\ Input!BagToSet(b) = BagToSet(b) /\ Input!Max(b) = Max(b)
         /\ Input!BagAdd(b, m) = BagAdd(b, m) /\ Input!BagRemove(b, m) = BagRemove(b, m)
         /\ Input!BagToSet(Input!EmptyBag) = {}
<1>1. Input!BagToSet(b) = BagToSet(b) BY DEF Input!BagToSet, BagToSet
<1>2. Input!Max(b) = Max(b) BY DEF Input!Max, Max
<1>3. Input!BagAdd(b, m) = BagAdd(b, m) BY DEF Input!BagAdd, BagAdd
<1>4. Input!BagRemove(b, m) = BagRemove(b, m) BY DEF Input!BagRemove, BagRemove
<1>5. Input!BagToSet(Input!EmptyBag) = {}
  BY DEF Input!BagToSet, Input!EmptyBag, Input!SetToBag
<1> QED BY <1>1, <1>2, <1>3, <1>4, <1>5

\* The field, the value and the list.
FieldIsOf ==
  /\ text \in Texts /\ value \in Entries \cup {NoEntry} /\ typed \in {"no", "plain", "modified"}
  /\ typed = "no" => text = Input!LabelOf(value)
  /\ results \in Seq(Entries) \cup {Input!NoList} /\ (noResult <=> results = <<>>)

\* Until an answer or a click comes, the index is in the list, whether arrows were used or not.
IndexFollows ==
  /\ sel \in Int /\ lit \in Entries \cup {NoEntry} /\ used \in BOOLEAN /\ late \in BOOLEAN
  /\ ~late => /\ results # <<>> => sel < Len(results)
              /\ used => Input!EntryAt(sel) = lit

\* A message belongs to a search, and the newest one asks for the term that is set.
MessageOK(m) ==
  \/ m = [kind |-> "first", n |-> m.n] /\ m.n \in 1 .. searches
  \/ /\ m = [kind |-> "query", n |-> m.n, term |-> m.term] /\ m.n \in 1 .. searches
     /\ m.term \in Texts /\ (m.n = searches => m.term = provider.term)

\* The newest search is on its way or was answered.
NewestIsKnown ==
  /\ faults \in Nat /\ acts \in Nat /\ searches \in Nat /\ shown \in 0 .. seen /\ seen \in 0 .. searches
  /\ provider \in [term : Texts \cup {Input!NoTerm}, linked : BOOLEAN]
  /\ searches > 0 => provider.term \in Texts
  /\ \A m \in Input!Messages : MessageOK(m)
  /\ faults = 0 /\ searches > 0 =>
       \/ \E m \in Input!Messages : m.n = searches
       \/ seen = searches /\ (shown = seen => results = Matches[provider.term])

\* If the answer shown is without results, it came since the last choice.
AnswerIsNewer == noResult => after

InputInvariant == FieldIsOf /\ IndexFollows /\ NewestIsKnown /\ AnswerIsNewer

\* An entry of the list is one, and an index of it has one.
LEMMA EntriesOfTheList ==
  ASSUME Input!TextAssumption, FieldIsOf, NEW i \in Int
  PROVE  /\ Input!EntryAt(i) \in Entries \cup {NoEntry} /\ NoEntry \notin Entries
         /\ Input!EntryAt(i) # NoEntry =>
              results \in Seq(Entries) /\ results # <<>> /\ i < Len(results)
<1>1. NoEntry \notin Entries
  BY DEF Input!TextAssumption
<1>2. results # Input!NoList => results \in Seq(Entries)
  BY DEF FieldIsOf
<1>3. CASE results # Input!NoList /\ i + 1 \in DOMAIN results
  <2>1. Input!EntryAt(i) = results[i + 1]
    BY <1>3 DEF Input!EntryAt
  <2>2. results[i + 1] \in Entries /\ results # <<>>
    BY <1>2, <1>3
  <2>3. i < Len(results)
    BY <1>2, <1>3
  <2> QED BY <1>1, <1>2, <1>3, <2>1, <2>2, <2>3
<1>4. CASE ~(results # Input!NoList /\ i + 1 \in DOMAIN results)
  BY <1>1, <1>4 DEF Input!EntryAt
<1> QED BY <1>3, <1>4

\* A search makes one request, for the text there is, and forgets the index.
LEMMA RequestStep ==
  ASSUME InputInvariant, Input!SubmitSearch, acts' \in Nat,
         UNCHANGED <<Input!field, Input!list, Input!history, faults>>
  PROVE  InputInvariant'
<1> USE DEF InputInvariant, Input!field, Input!list, Input!history
<1>1. FieldIsOf'
  BY DEF FieldIsOf, Input!LabelOf
<1>2. IndexFollows'
  <2>1. results # <<>> => Len(results) > -1
    <3>1. CASE results = Input!NoList BY <3>1 DEF Input!NoList
    <3>2. CASE results \in Seq(Entries) BY <3>2
    <3> QED BY <3>1, <3>2 DEF FieldIsOf
  <2>2. used' = FALSE /\ sel' = -1 /\ lit' = lit /\ late' = late /\ results' = results
    BY DEF Input!SubmitSearch
  <2>3. sel' \in Int
    BY <2>2
  <2>4. results # <<>> => sel' < Len(results)
    BY <2>1, <2>2
  <2> QED BY <2>2, <2>3, <2>4 DEF IndexFollows
<1>3. NewestIsKnown'
  <2>1. text \in Texts
    BY DEF FieldIsOf
  <2>0. PICK m : m = IF provider.linked THEN [kind |-> "query", n |-> searches', term |-> text]
                                        ELSE [kind |-> "first", n |-> searches']
    OBVIOUS
  <2>2. Input!Messages' = Input!Messages \cup {m} /\ m.n = searches' /\ m \in Input!Messages'
    BY <2>0, Added, InputBags DEF Input!SubmitSearch, Input!Messages
  <2>3. /\ searches' = searches + 1 /\ searches \in Nat /\ provider'.term = text
        /\ shown' = shown /\ seen' = seen
    BY DEF Input!SubmitSearch, NewestIsKnown
  <2>4. MessageOK(m)'
    <3>2. m.n \in 1 .. searches' BY <2>2, <2>3
    <3> QED BY <2>0, <2>1, <2>2, <2>3, <3>2 DEF MessageOK
  <2>5. ASSUME NEW k \in Input!Messages PROVE MessageOK(k)'
    <3>1. MessageOK(k) /\ k.n # searches'
      BY <2>3 DEF NewestIsKnown, MessageOK
    <3> QED BY <2>3, <3>1 DEF MessageOK
  <2>6. provider' \in [term : Texts \cup {Input!NoTerm}, linked : BOOLEAN]
    BY <2>1 DEF Input!SubmitSearch, NewestIsKnown
  <2> QED BY <2>1, <2>2, <2>3, <2>4, <2>5, <2>6 DEF Input!SubmitSearch, NewestIsKnown
<1>4. AnswerIsNewer'
  BY DEF AnswerIsNewer
<1> QED BY <1>1, <1>2, <1>3, <1>4

\* What the user does without a search keeps what is known of the newest one.
LEMMA NetStays ==
  ASSUME NewestIsKnown, acts' \in Nat, UNCHANGED <<Input!net, results, faults>>
  PROVE  NewestIsKnown'
BY DEF NewestIsKnown, Input!net, Input!Messages, MessageOK

\* What the user does.
LEMMA UserStep ==
  ASSUME Input!TextAssumption, InputInvariant,
         \/ \E t \in Texts, modified \in BOOLEAN : Input!Key(t, modified)
         \/ Input!Arrow \/ Input!EnterTakes \/ Input!EnterBreaks \/ Input!Blur
         \/ results # Input!NoList /\ \E i \in 0 .. Len(results) - 1 : Input!MouseDown(i)
  PROVE  InputInvariant' /\ (value # NoEntry /\ value' = NoEntry => typed # "no" \/ after)
<1> USE DEF InputInvariant, Input!field, Input!list, Input!history, Input!selection
<1>0. acts \in Nat
  BY DEF NewestIsKnown
<1>1. ASSUME NEW t \in Texts, NEW modified \in BOOLEAN, Input!Key(t, modified)
      PROVE  InputInvariant' /\ value' = value
  <2>1. FieldIsOf'
    BY <1>1 DEF Input!Key, FieldIsOf
  <2>2. IndexFollows'
    BY <1>1 DEF Input!Key, IndexFollows, Input!EntryAt
  <2>3. NewestIsKnown'
    BY <1>0, <1>1, NetStays DEF Input!Key, Input!Act
  <2>4. AnswerIsNewer'
    BY <1>1 DEF Input!Key, AnswerIsNewer
  <2> QED BY <1>1, <2>1, <2>2, <2>3, <2>4 DEF Input!Key
<1>2. CASE Input!Arrow
  <2>1. FieldIsOf'
    BY <1>2 DEF Input!Arrow, FieldIsOf, Input!LabelOf
  <2>2. IndexFollows'
    <3>1. lit' = Input!EntryAt(sel') /\ Input!EntryAt(sel') = Input!EntryAt(sel)' /\ results' = results
      BY <1>2 DEF Input!Arrow, Input!EntryAt
    <3>2. results \in Seq(Entries) /\ Len(results) \in Nat /\ (results # <<>> => Len(results) > 0)
      BY <1>2 DEF Input!Arrow, Input!Down, Input!Up, FieldIsOf
    <3>3. sel' \in Int /\ (sel' < Len(results) \/ results = <<>> \/ (late /\ sel' >= Len(results)))
      BY <1>2, <3>2 DEF Input!Arrow, Input!Down, Input!Up, IndexFollows
    <3>4. lit' \in Entries \cup {NoEntry} /\ (lit' # NoEntry => sel' < Len(results))
      BY <3>1, <3>3, EntriesOfTheList
    <3>5. used' \in BOOLEAN /\ late' \in BOOLEAN /\ late' = (late /\ lit' = NoEntry)
      BY <1>2 DEF Input!Arrow, IndexFollows
    <3> QED BY <3>1, <3>3, <3>4, <3>5 DEF IndexFollows
  <2>3. NewestIsKnown'
    BY <1>0, <1>2, NetStays DEF Input!Arrow, Input!Act
  <2>4. AnswerIsNewer'
    BY <1>2 DEF Input!Arrow, AnswerIsNewer
  <2> QED BY <1>2, <2>1, <2>2, <2>3, <2>4 DEF Input!Arrow
<1>3. ASSUME NEW i \in Int, Input!EntryAt(i) # NoEntry, Input!Choose(Input!EntryAt(i)),
             UNCHANGED <<results, noResult>>
      PROVE  FieldIsOf' /\ AnswerIsNewer' /\ value' # NoEntry
  <2>1. Input!EntryAt(i) \in Entries /\ NoEntry \notin Entries /\ results # <<>>
    BY <1>3, EntriesOfTheList
  <2>2. Label[Input!EntryAt(i)] \in Texts
    BY <2>1 DEF Input!TextAssumption
  <2> QED BY <1>3, <2>1, <2>2 DEF Input!Choose, Input!Chosen, FieldIsOf, Input!LabelOf,
     AnswerIsNewer
<1>4. CASE Input!EnterTakes
  <2>1. FieldIsOf' /\ AnswerIsNewer' /\ value' # NoEntry
    BY <1>3, <1>4 DEF Input!EnterTakes, IndexFollows
  <2>2. IndexFollows'
    BY <1>4 DEF Input!EnterTakes, IndexFollows, Input!EntryAt
  <2>3. NewestIsKnown'
    BY <1>0, <1>4, NetStays DEF Input!EnterTakes, Input!Act
  <2> QED BY <2>1, <2>2, <2>3
<1>5. CASE Input!EnterBreaks
  <2>1. FieldIsOf'
    BY <1>5 DEF Input!EnterBreaks, FieldIsOf, Input!LabelOf
  <2>2. IndexFollows'
    BY <1>5 DEF Input!EnterBreaks, IndexFollows, Input!EntryAt
  <2>3. NewestIsKnown'
    BY <1>0, <1>5, NetStays DEF Input!EnterBreaks, Input!Act
  <2>4. AnswerIsNewer'
    BY <1>5 DEF Input!EnterBreaks, AnswerIsNewer
  <2> QED BY <1>5, <2>1, <2>2, <2>3, <2>4 DEF Input!EnterBreaks
<1>6. CASE Input!Blur
  <2>0. /\ Empty \in Texts /\ NoEntry \notin Entries
        /\ \A e \in Entries : Label[e] # Empty
    BY DEF Input!TextAssumption
  <2>1. FieldIsOf'
    BY <1>6, <2>0 DEF Input!Blur, FieldIsOf, Input!LabelOf
  <2>2. IndexFollows'
    BY <1>6 DEF Input!Blur, IndexFollows, Input!EntryAt
  <2>3. NewestIsKnown'
    BY <1>0, <1>6, NetStays DEF Input!Blur, Input!Act
  <2>4. AnswerIsNewer'
    BY <1>6 DEF Input!Blur, AnswerIsNewer
  <2>5. value # NoEntry /\ value' = NoEntry => typed # "no" \/ after
    BY <1>6, <2>0 DEF Input!Blur, FieldIsOf, Input!LabelOf, AnswerIsNewer
  <2> QED BY <2>1, <2>2, <2>3, <2>4, <2>5
<1>7. ASSUME results # Input!NoList, NEW i \in 0 .. Len(results) - 1, Input!MouseDown(i)
      PROVE  InputInvariant' /\ value' # NoEntry
  <2>1. FieldIsOf' /\ AnswerIsNewer' /\ value' # NoEntry
    BY <1>3, <1>7 DEF Input!MouseDown
  <2>2. IndexFollows'
    BY <1>7 DEF Input!MouseDown, IndexFollows
  <2>3. NewestIsKnown'
    BY <1>0, <1>7, NetStays DEF Input!MouseDown, Input!Act
  <2> QED BY <2>1, <2>2, <2>3
<1> QED BY <1>1, <1>2, <1>4, <1>5, <1>6, <1>7

\* The link becomes known, and the query is for the term of the newest search.
LEMMA LinkStep ==
  ASSUME InputInvariant, NEW m \in Input!Messages, Input!LoadedFirstPage(m)
  PROVE  InputInvariant' /\ value' = value
<1> USE DEF InputInvariant, Input!field, Input!list, Input!history, Input!selection
<1>1. FieldIsOf' /\ AnswerIsNewer' /\ value' = value
  BY DEF Input!LoadedFirstPage, FieldIsOf, AnswerIsNewer, Input!LabelOf
<1>2. IndexFollows'
  BY DEF Input!LoadedFirstPage, IndexFollows, Input!EntryAt
<1>3. NewestIsKnown'
  <2>0. PICK q : q = [kind |-> "query", n |-> m.n, term |-> provider.term]
    OBVIOUS
  <2>1. /\ q \in Input!Messages' /\ Input!Messages' \subseteq Input!Messages \cup {q}
        /\ Input!Messages \ {m} \subseteq Input!Messages'
    BY <2>0, Added, Removed, InputBags DEF Input!LoadedFirstPage, Input!Messages, Input!Without
  <2>2. provider'.term = provider.term /\ provider' \in [term : Texts \cup {Input!NoTerm}, linked : BOOLEAN]
    BY DEF Input!LoadedFirstPage, NewestIsKnown
  <2>3. MessageOK(m) /\ searches' = searches /\ searches \in Nat
    BY DEF NewestIsKnown, Input!LoadedFirstPage
  <2>4. provider.term \in Texts
    BY <2>3 DEF NewestIsKnown, MessageOK
  <2>5. MessageOK(q)'
    BY <2>0, <2>2, <2>3, <2>4 DEF MessageOK
  <2>6. ASSUME NEW k \in Input!Messages PROVE MessageOK(k)'
    <3>1. MessageOK(k) BY DEF NewestIsKnown
    <3> QED BY <2>2, <2>3, <3>1 DEF MessageOK
  <2>7. q.n = m.n BY <2>0
  <2>8. ASSUME \E k \in Input!Messages : k.n = searches
        PROVE  \E k \in Input!Messages' : k.n = searches
    BY <2>1, <2>7, <2>8
  <2> QED BY <2>1, <2>2, <2>3, <2>4, <2>5, <2>6, <2>8 DEF Input!LoadedFirstPage, NewestIsKnown
<1> QED BY <1>1, <1>2, <1>3

\* A request that is refused.
LEMMA RefusalStep ==
  ASSUME InputInvariant, NEW m \in Input!Messages, Input!Refuse(m)
  PROVE  InputInvariant' /\ value' = value
<1> USE DEF InputInvariant, Input!field, Input!list, Input!history, Input!selection
<1>1. FieldIsOf' /\ AnswerIsNewer' /\ value' = value
  BY DEF Input!Refuse, FieldIsOf, AnswerIsNewer, Input!LabelOf
<1>2. IndexFollows'
  BY DEF Input!Refuse, IndexFollows, Input!EntryAt
<1>3. NewestIsKnown'
  <2>1. Input!Messages' \subseteq Input!Messages
    BY Removed, InputBags DEF Input!Refuse, Input!Messages, Input!Without
  <2>2. faults' \in Nat /\ faults' # 0
    BY DEF Input!Refuse, NewestIsKnown
  <2> QED BY <2>1, <2>2 DEF Input!Refuse, NewestIsKnown, MessageOK
<1> QED BY <1>1, <1>2, <1>3

\* An answer replaces the list; that of the newest search is for the term that is set.
LEMMA AnswerStep ==
  ASSUME Input!TextAssumption, InputInvariant, NEW m \in Input!Messages,
         Input!SearchResultReceived(m)
  PROVE  InputInvariant' /\ value' = value
<1> USE DEF InputInvariant, Input!field, Input!list, Input!history, Input!selection
<1>0. MessageOK(m) /\ m.kind = "query"
  BY DEF NewestIsKnown, Input!SearchResultReceived, Input!Received
<1>1. m.term \in Texts /\ m.n \in 1 .. searches /\ (m.n = searches => m.term = provider.term)
  BY <1>0 DEF MessageOK
<1>2. Matches[m.term] \in Seq(Entries)
  BY <1>1 DEF Input!TextAssumption
<1>3. FieldIsOf' /\ value' = value
  BY <1>2 DEF Input!SearchResultReceived, Input!Received, FieldIsOf, Input!LabelOf
<1>4. AnswerIsNewer'
  BY DEF Input!SearchResultReceived, Input!Received, AnswerIsNewer
<1>5. IndexFollows'
  BY DEF Input!SearchResultReceived, Input!Received, IndexFollows
<1>6. NewestIsKnown'
  <2>1. Input!Messages' \subseteq Input!Messages /\ Input!Messages \ {m} \subseteq Input!Messages'
    <3>1. call' = BagRemove(call, m)
      BY InputBags DEF Input!SearchResultReceived, Input!Received, Input!Without
    <3>2. Input!Messages = BagToSet(call) /\ Input!Messages' = BagToSet(call')
      BY InputBags DEF Input!Messages
    <3> QED BY <3>1, <3>2, Removed
  <2>2. /\ seen' = (IF seen >= m.n THEN seen ELSE m.n) /\ shown' = m.n
        /\ searches \in Nat /\ seen \in 0 .. searches
    <3>1. searches \in Nat /\ seen \in 0 .. searches /\ seen \in Nat /\ m.n \in Nat
      BY <1>1 DEF NewestIsKnown
    <3> QED BY <3>1, Larger, InputBags DEF Input!SearchResultReceived, Input!Received
  <2>3. \A k \in Input!Messages' : MessageOK(k)'
    BY <2>1 DEF Input!SearchResultReceived, Input!Received, NewestIsKnown, MessageOK
  <2>4. ASSUME faults = 0, searches > 0
        PROVE  \/ \E k \in Input!Messages' : k.n = searches
               \/ seen' = searches /\ (shown' = seen' => results' = Matches[provider.term])
    <3>1. CASE m.n = searches
      BY <1>1, <2>2, <3>1 DEF Input!SearchResultReceived, Input!Received
    <3>2. CASE m.n # searches
      BY <1>1, <2>1, <2>2, <2>4, <3>2 DEF NewestIsKnown
    <3> QED BY <3>1, <3>2
  <2>5. UNCHANGED <<provider, searches, faults, acts>>
    BY DEF Input!SearchResultReceived, Input!Received
  <2> QED BY <1>1, <2>2, <2>3, <2>4, <2>5 DEF NewestIsKnown
<1> QED BY <1>3, <1>4, <1>5, <1>6

\* Every step keeps the invariant, and loses no choice without a cause.
LEMMA InputStep ==
  ASSUME Input!TextAssumption, InputInvariant, [Input!Next]_(Input!vars)
  PROVE  InputInvariant' /\ (value # NoEntry /\ value' = NoEntry => typed # "no" \/ after)
<1>1. CASE Input!EnterSearches
  <2>1. acts' \in Nat
    BY <1>1 DEF Input!EnterSearches, Input!Act, InputInvariant, NewestIsKnown
  <2> QED BY <1>1, <2>1, RequestStep DEF Input!EnterSearches, Input!Act, Input!field
<1>2. CASE Input!TaskExecutes
  <2>1. acts' \in Nat
    BY <1>2 DEF Input!TaskExecutes, InputInvariant, NewestIsKnown
  <2> QED BY <1>2, <2>1, RequestStep DEF Input!TaskExecutes, Input!field
<1>3. CASE UNCHANGED Input!vars
  BY <1>3 DEF Input!vars, Input!field, Input!list, Input!selection, Input!net, Input!history,
     InputInvariant, FieldIsOf, Input!LabelOf,
     IndexFollows, Input!EntryAt, NewestIsKnown, Input!Messages, MessageOK, AnswerIsNewer
<1> QED BY <1>1, <1>2, <1>3, UserStep, LinkStep, RefusalStep, AnswerStep DEF Input!Next

\* So it holds from the value's label on.
LEMMA InputInvariantHolds == ASSUME Input!TextAssumption PROVE Input!Spec => []InputInvariant
<1>1. Input!Init => InputInvariant
  <2> SUFFICES ASSUME Input!Init PROVE InputInvariant
    OBVIOUS
  <2>1. FieldIsOf
    <3>1. Input!LabelOf(value) \in Texts
      BY DEF Input!Init, Input!LabelOf, Input!TextAssumption
    <3> QED BY <3>1 DEF Input!Init, FieldIsOf, Input!NoList
  <2>2. IndexFollows
    <3>1. sel \in Int /\ sel < 1
      BY DEF Input!Init
    <3>2. Len(results) = 1
      BY DEF Input!Init, Input!NoList
    <3>3. lit = NoEntry /\ ~used /\ used \in BOOLEAN /\ late \in BOOLEAN
      BY DEF Input!Init
    <3> QED BY <3>1, <3>2, <3>3 DEF IndexFollows
  <2>3. NewestIsKnown
    <3>1. Input!Messages = {}
      BY InputBags DEF Input!Init, Input!Messages
    <3> QED BY <3>1 DEF Input!Init, NewestIsKnown
  <2> QED BY <2>1, <2>2, <2>3 DEF Input!Init, InputInvariant, AnswerIsNewer
<1> QED BY <1>1, InputStep, PTL DEF Input!Spec

\* However keys, the timer and answers meet: "no results" is there exactly for an empty list;
\* once an arrow has highlighted an entry, until an answer or a click comes, the index stays
\* in the list and Enter takes what is highlighted; the field shows the label of the value
\* until the user types; and when all is answered, the list is for the newest search unless an
\* older answer overtook it or a request failed.
THEOREM InputTypeCorrect == ASSUME Input!TextAssumption PROVE Input!Spec => []Input!TypeOK
<1>1. InputInvariant => Input!TypeOK
  BY DEF InputInvariant, FieldIsOf, IndexFollows, NewestIsKnown, Input!TypeOK, Input!Quiet
<1> QED BY <1>1, InputInvariantHolds, PTL

\* A chosen value is lost only to what was typed since, or to an answer without results that
\* came since, when the field is left.
THEOREM ChoicesAreNotLost == ASSUME Input!TextAssumption PROVE Input!Spec => Input!LostChoiceHasACause
<1>1. InputInvariant /\ [Input!Next]_(Input!vars) =>
        [value # NoEntry /\ value' = NoEntry => typed # "no" \/ after]_(Input!vars)
  BY InputStep
<1> QED BY <1>1, InputInvariantHolds, PTL DEF Input!Spec, Input!LostChoiceHasACause
=============================================================================
