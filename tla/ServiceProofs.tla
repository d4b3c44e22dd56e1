--------------------------- MODULE ServiceProofs ---------------------------
(***************************************************************************)
(* Proofs about six services around the agent, each part on its own: the   *)
(* turns of a task between the model and its tools, with the route the     *)
(* catalogue chooses; the logins of the API; the long-term memory, a file  *)
(* that several processes write; the MCP client, which reads what a child  *)
(* process answers; the pages over the event table and what operators are  *)
(* told of its rows; and the reports over it, with the sums they are of.   *)
(***************************************************************************)
EXTENDS ApiServices, SequenceTheorems, FiniteSetTheorems,
        FunctionTheorems, WellFoundedInduction, TLAPS

\* Induction over the naturals, in the form the parts need: of a set of them.
LessThan == {ss \in Nat \X Nat : ss[1] < ss[2]}

LEMMA BelowIsWellFounded == IsWellFoundedOn(LessThan, Nat)
BY NatLessThanWellFounded DEF OpToRel, LessThan

LEMMA SetInduction ==
  ASSUME NEW S, 0 \in S, \A n \in Nat : n \in S => n + 1 \in S
  PROVE  Nat \subseteq S
<1> DEFINE T == Nat \ S
<1>1. SUFFICES ASSUME T # {} PROVE FALSE
  OBVIOUS
<1>2. PICK m \in T : \A y \in T : <<y, m>> \notin LessThan
  BY <1>1, BelowIsWellFounded, WFMin
<1>3. \A y \in T : ~(y < m)
  BY <1>2 DEF LessThan
<1>4. m \in Nat /\ m # 0 /\ m - 1 \in Nat
  OBVIOUS
<1>5. m - 1 \in S
  BY <1>3, <1>4
<1> QED
  BY <1>4, <1>5


(***************************************************************************)
(* ToolCatalog and ToolTurn: a call is charged before it begins and begins *)
(* only within the rules, for any catalogue, rules, schemas, scores,       *)
(* limits and answers.  First routes.                                      *)
(***************************************************************************)

Orders(before, set) ==
  /\ \A t \in set : <<t, t>> \notin before
  /\ \A t, u \in set : t # u => <<t, u>> \in before \/ <<u, t>> \in before
  /\ \A t, u, v \in set : <<t, u>> \in before /\ <<u, v>> \in before => <<t, v>> \in before

Distinct(s) == \A i, j \in DOMAIN s : s[i] = s[j] => i = j

\* No two elements of an order have as many others before them.
LEMMA PlacesDiffer ==
  ASSUME NEW set, NEW before, IsFiniteSet(set), Orders(before, set)
  PROVE  /\ \A t \in set : Cardinality({u \in set : <<u, t>> \in before}) \in 0..(Cardinality(set) - 1)
         /\ \A t, u \in set : t # u => Cardinality({v \in set : <<v, t>> \in before})
                                       # Cardinality({v \in set : <<v, u>> \in before})
<1> DEFINE ahead(t) == {u \in set : <<u, t>> \in before}
           n == Cardinality(set)
<1>1. n \in Nat BY FS_CardinalityType
<1>2. ASSUME NEW t \in set PROVE IsFiniteSet(ahead(t)) /\ Cardinality(ahead(t)) \in 0..(n - 1)
  <2>1. IsFiniteSet(ahead(t)) /\ Cardinality(ahead(t)) <= n /\ (n = Cardinality(ahead(t)) => set = ahead(t))
    BY FS_Subset
  <2>2. t \notin ahead(t) BY DEF Orders
  <2>3. Cardinality(ahead(t)) \in Nat /\ Cardinality(ahead(t)) # n
    BY <2>1, <2>2, FS_CardinalityType
  <2> HIDE DEF ahead, n
  <2> QED BY <1>1, <2>1, <2>3
<1>3. ASSUME NEW t \in set, NEW u \in set, <<t, u>> \in before
      PROVE  Cardinality(ahead(t)) # Cardinality(ahead(u))
  <2>1. ahead(t) \subseteq ahead(u) BY <1>3 DEF Orders
  <2>2. t \in ahead(u) /\ t \notin ahead(t) BY <1>3 DEF Orders
  <2>3. ahead(t) # ahead(u) BY <2>2
  <2>4. IsFiniteSet(ahead(u)) BY <1>2
  <2> HIDE DEF ahead
  <2> QED BY <2>1, <2>3, <2>4, FS_Subset
<1>4. \A t, u \in set : t # u => Cardinality(ahead(t)) # Cardinality(ahead(u))
  <2>1. SUFFICES ASSUME NEW t \in set, NEW u \in set, t # u
                 PROVE  Cardinality(ahead(t)) # Cardinality(ahead(u))
    OBVIOUS
  <2>2. <<t, u>> \in before \/ <<u, t>> \in before BY <2>1 DEF Orders
  <2> HIDE DEF ahead
  <2> QED BY <1>3, <2>2
<1> QED BY <1>2, <1>4

\* As many places as elements, and no two elements share one.
LEMMA PlacesAreTaken ==
  ASSUME NEW set, NEW before, IsFiniteSet(set), Orders(before, set)
  PROVE  \A i \in 1..Cardinality(set) :
           \E t \in set : Cardinality({u \in set : <<u, t>> \in before}) = i - 1
<1> DEFINE ahead(t) == {u \in set : <<u, t>> \in before}
           n == Cardinality(set)
           place == [t \in set |-> Cardinality(ahead(t)) + 1]
<1>1. n \in Nat BY FS_CardinalityType
<1>2. \A t \in set : Cardinality(ahead(t)) \in 0..(n - 1) BY PlacesDiffer
<1>4. \A t, u \in set : t # u => Cardinality(ahead(t)) # Cardinality(ahead(u)) BY PlacesDiffer
<1> HIDE DEF ahead, n
<1>5. place \in [set -> 1..n] BY <1>1, <1>2
<1>6. \A t, u \in set : place[t] = place[u] => t = u BY <1>2, <1>4
<1>7. place \in Injection(set, 1..n) BY <1>5, <1>6 DEF Injection, IsInjective
<1>8. IsFiniteSet(1..n) /\ Cardinality(1..n) = n BY <1>1, FS_Interval
<1>9. place \in Surjection(set, 1..n) BY <1>7, <1>8, FS_Injection DEF n
<1>10. \A i \in 1..n : \E t \in set : place[t] = i BY <1>9 DEF Surjection
<1>11. ASSUME NEW i \in 1..n PROVE \E t \in set : Cardinality(ahead(t)) = i - 1
  <2>1. PICK t \in set : place[t] = i BY <1>10
  <2>2. Cardinality(ahead(t)) \in Nat /\ Cardinality(ahead(t)) + 1 = i BY <1>1, <1>2, <2>1
  <2> QED BY <1>1, <2>2
<1> QED BY <1>11 DEF ahead, n

\* InOrder names every element of the set, each once.
LEMMA InOrderIsExact ==
  ASSUME NEW set, NEW before, IsFiniteSet(set), Orders(before, set)
  PROVE  LET s == InOrder(set, before)
         IN  s \in Seq(set) /\ Len(s) = Cardinality(set) /\ Distinct(s)
<1> DEFINE place(t) == Cardinality({u \in set : <<u, t>> \in before})
           n == Cardinality(set)
           s == InOrder(set, before)
<1>1. n \in Nat BY FS_CardinalityType
<1>2. s = [i \in 1..n |-> CHOOSE t \in set : place(t) = i - 1] BY DEF InOrder
<1>3. \A i \in 1..n : \E t \in set : place(t) = i - 1 BY PlacesAreTaken
<1> HIDE DEF place, n, s
<1>4. \A i \in 1..n : s[i] \in set /\ place(s[i]) = i - 1 BY <1>2, <1>3
<1>5. DOMAIN s = 1..n BY <1>2
<1>6. s \in Seq(set) /\ Len(s) = n
  <2>1. s \in [1..n -> set] BY <1>2, <1>4
  <2> QED BY <1>1, <2>1
<1>7. Distinct(s)
  <2>1. \A i, j \in 1..n : i - 1 = j - 1 => i = j BY <1>1
  <2> QED BY <1>4, <1>5, <2>1 DEF Distinct
<1> QED BY <1>6, <1>7 DEF s, n

LEMMA CatalogIsFinite == IsFiniteSet(Catalog)
<1>1. Len(Tools) \in Nat /\ DOMAIN Tools = 1..Len(Tools) BY CatalogAssumption
<1>2. IsFiniteSet(DOMAIN Tools) BY <1>1, FS_Interval
<1> DEFINE f == [i \in DOMAIN Tools |-> Tools[i]]
<1>3. f \in Surjection(DOMAIN Tools, Catalog) BY DEF Surjection, Catalog, ToSet
<1> QED BY <1>2, <1>3, FS_Surjection

LEMMA PlaceOrders ==
  /\ \A t \in Catalog : Place(t) \in Nat
  /\ \A t, u \in Catalog : t # u => Place(t) # Place(u)
<1>1. ASSUME NEW t \in Catalog PROVE Place(t) \in DOMAIN Tools /\ Tools[Place(t)] = t
  BY DEF Catalog, ToSet, Place
<1>2. DOMAIN Tools = 1..Len(Tools) BY CatalogAssumption
<1> QED BY <1>1, <1>2

LEMMA NamesOrder == ASSUME NEW set \in SUBSET Catalog PROVE Orders(ByName(set), set)
BY PlaceOrders DEF Orders, ByName

LEMMA ScoresOrder ==
  ASSUME NEW set \in SUBSET Catalog, NEW scores \in [Catalog -> Nat]
  PROVE  Orders(ByScore(set, scores), set)
<1>1. \A t \in set : scores[t] \in Nat /\ Place(t) \in Nat BY PlaceOrders
<1>2. \A t, u \in set : t # u => Place(t) # Place(u) BY PlaceOrders
<1>3. \A t, u \in set : <<t, u>> \in ByScore(set, scores) <=>
         \/ scores[t] > scores[u]
         \/ scores[t] = scores[u] /\ Place(t) < Place(u)
  BY DEF ByScore
<1>4. \A t \in set : <<t, t>> \notin ByScore(set, scores) BY <1>1, <1>3
<1>5. \A t, u \in set : t # u => <<t, u>> \in ByScore(set, scores) \/ <<u, t>> \in ByScore(set, scores)
  BY <1>1, <1>2, <1>3
<1>6. \A t, u, v \in set : <<t, u>> \in ByScore(set, scores) /\ <<u, v>> \in ByScore(set, scores)
                           => <<t, v>> \in ByScore(set, scores)
  BY <1>1, <1>3
<1> QED BY <1>4, <1>5, <1>6 DEF Orders

\* A sequence without repetitions has as many elements as places.
LEMMA DistinctCounts ==
  ASSUME NEW S, NEW s \in Seq(S), Distinct(s)
  PROVE  Len(s) = Cardinality(ToSet(s))
<1>1. Len(s) \in Nat /\ DOMAIN s = 1..Len(s) OBVIOUS
<1>2. IsFiniteSet(1..Len(s)) /\ Cardinality(1..Len(s)) = Len(s) BY <1>1, FS_Interval
<1> DEFINE f == [i \in 1..Len(s) |-> s[i]]
<1>3. f \in Surjection(1..Len(s), ToSet(s)) BY <1>1 DEF Surjection, ToSet
<1>4. f \in Injection(1..Len(s), ToSet(s))
  <2>1. f \in [1..Len(s) -> ToSet(s)] BY <1>1 DEF ToSet
  <2> QED BY <1>1, <2>1 DEF Distinct, Injection, IsInjective
<1> QED BY <1>2, <1>3, <1>4, FS_Surjection

SelectedAlong(selected, found, n) ==
  selected = [i \in 0..n |-> IF i = 0 THEN found ELSE WithDependency(selected[i - 1], found[i])]

\* The function that WithDependencies defines by recursion exists.
LEMMA SelectedExists ==
  ASSUME NEW found
  PROVE  \A n \in Nat : \E selected : SelectedAlong(selected, found, n)
<1> DEFINE S == {n \in Nat : \E selected : SelectedAlong(selected, found, n)}
<1>1. 0 \in S
  <2>1. SelectedAlong([i \in 0..0 |-> found], found, 0) BY DEF SelectedAlong
  <2> QED BY <2>1
<1>2. ASSUME NEW n \in Nat, n \in S PROVE n + 1 \in S
  <2>1. PICK selected : SelectedAlong(selected, found, n) BY <1>2
  <2> DEFINE more == [i \in 0..n + 1 |-> IF i = n + 1 THEN WithDependency(selected[n], found[n + 1])
                                         ELSE selected[i]]
  <2>2. \A i \in 0..n : more[i] = selected[i] OBVIOUS
  <2>3. \A i \in 0..n :
          selected[i] = IF i = 0 THEN found ELSE WithDependency(selected[i - 1], found[i])
    BY <2>1 DEF SelectedAlong
  <2>4. ASSUME NEW i \in 0..n + 1
        PROVE  more[i] = IF i = 0 THEN found ELSE WithDependency(more[i - 1], found[i])
    <3>1. CASE i = n + 1 BY <3>1, <2>2
    <3>2. CASE i # n + 1 BY <3>2, <2>2, <2>3
    <3> QED BY <3>1, <3>2
  <2>5. SelectedAlong(more, found, n + 1) BY <2>4 DEF SelectedAlong
  <2> QED BY <2>5
<1> HIDE DEF S
<1>3. Nat \subseteq S BY <1>1, <1>2, SetInduction
<1> QED BY <1>3 DEF S

LEMMA WithDependenciesIs ==
  ASSUME NEW found \in Seq(Catalog)
  PROVE  \E selected : /\ WithDependencies(found) = selected[Len(found)] /\ selected[0] = found
                       /\ \A i \in 1..Len(found) :
                            selected[i] = WithDependency(selected[i - 1], found[i])
<1> DEFINE selected == CHOOSE selected : SelectedAlong(selected, found, Len(found))
<1>1. SelectedAlong(selected, found, Len(found))
  <2>1. Len(found) \in Nat OBVIOUS
  <2>2. \E f : SelectedAlong(f, found, Len(found)) BY <2>1, SelectedExists
  <2> QED BY <2>2
<1>2. WithDependencies(found) = selected[Len(found)] BY DEF WithDependencies, SelectedAlong
<1> HIDE DEF selected
<1>3. \A i \in 0..Len(found) :
        selected[i] = IF i = 0 THEN found ELSE WithDependency(selected[i - 1], found[i])
  BY <1>1 DEF SelectedAlong
<1>4. selected[0] = found
      /\ \A i \in 1..Len(found) : selected[i] = WithDependency(selected[i - 1], found[i])
  <2>1. 0 \in 0..Len(found) /\ \A i \in 1..Len(found) : i \in 0..Len(found) /\ i # 0 OBVIOUS
  <2> QED BY <1>3, <2>1
<1> QED BY <1>2, <1>4

\* What is selected once the first n tools found brought theirs along.
Serves(selected, found, n) ==
  /\ selected \in Seq(Catalog) /\ Distinct(selected) /\ Len(selected) <= MaxRouted
  /\ ToSet(found) \subseteq ToSet(selected)
  /\ \A t \in ToSet(selected) \ ToSet(found) : t \notin DOMAIN Depends
  /\ \A i \in 1..n : found[i] \in DOMAIN Depends =>
       Depends[found[i]] \in ToSet(selected) \/ Len(selected) = MaxRouted

LEMMA OneMoreServes ==
  ASSUME NEW found \in Seq(Catalog), NEW n \in Nat, n + 1 <= Len(found),
         NEW selected, Serves(selected, found, n)
  PROVE  Serves(WithDependency(selected, found[n + 1]), found, n + 1)
<1> DEFINE tool == found[n + 1]
           next == WithDependency(selected, tool)
<1>1. CASE tool \in DOMAIN Depends /\ Depends[tool] \in Catalog \ ToSet(selected) /\ Len(selected) < MaxRouted
  <2> DEFINE t == Depends[tool]
  <2>1. next = Append(selected, t) BY <1>1 DEF WithDependency
  <2>2. t \in Catalog \ DOMAIN Depends /\ t \notin ToSet(selected) BY <1>1, CatalogAssumption
  <2>3. selected \in Seq(Catalog) BY DEF Serves
  <2> HIDE DEF t, next, tool
  <2>4. /\ next \in Seq(Catalog) /\ Len(next) = Len(selected) + 1 /\ Len(selected) \in Nat
        /\ DOMAIN next = 1..(Len(selected) + 1) /\ DOMAIN selected = 1..Len(selected)
        /\ next[Len(selected) + 1] = t /\ \A i \in 1..Len(selected) : next[i] = selected[i]
    BY <2>1, <2>2, <2>3
  <2>5. ToSet(next) = ToSet(selected) \cup {t} BY <2>4 DEF ToSet
  <2>6. Distinct(next)
    <3>1. \A i \in 1..Len(selected) : selected[i] # t BY <2>2, <2>4 DEF ToSet
    <3> QED BY <2>4, <3>1 DEF Distinct, Serves
  <2>7. MaxRouted \in Nat /\ Len(next) <= MaxRouted BY <1>1, <2>4, CatalogAssumption
  <2>8. \A i \in 1..(n + 1) : found[i] \in DOMAIN Depends =>
          Depends[found[i]] \in ToSet(next) \/ Len(next) = MaxRouted
    <3>1. \A i \in 1..n : found[i] \in DOMAIN Depends =>
            Depends[found[i]] \in ToSet(selected) \/ Len(selected) = MaxRouted
      BY DEF Serves
    <3>2. Len(selected) # MaxRouted
      <4>1. \A x, y \in Nat : x < y => x # y OBVIOUS
      <4>2. Len(selected) < MaxRouted BY <1>1
      <4> QED BY <2>4, <2>7, <4>1, <4>2, Zenon
    <3>3. Depends[found[n + 1]] \in ToSet(next) BY <2>5 DEF t, tool
    <3> QED BY <2>5, <3>1, <3>2, <3>3
  <2> QED BY <2>2, <2>4, <2>5, <2>6, <2>7, <2>8 DEF Serves, next, tool
<1>2. CASE ~(tool \in DOMAIN Depends /\ Depends[tool] \in Catalog \ ToSet(selected) /\ Len(selected) < MaxRouted)
  <2>1. next = selected BY <1>2 DEF WithDependency
  <2>2. selected \in Seq(Catalog) /\ Len(selected) \in Nat /\ MaxRouted \in Nat /\ Len(selected) <= MaxRouted
    BY CatalogAssumption DEF Serves
  <2>3. tool \in DOMAIN Depends => Depends[tool] \in ToSet(selected) \/ Len(selected) = MaxRouted
    BY <1>2, <2>2, CatalogAssumption
  <2>4. \A i \in 1..(n + 1) : i \in 1..n \/ i = n + 1 OBVIOUS
  <2> QED BY <2>1, <2>3, <2>4 DEF Serves
<1> QED BY <1>1, <1>2

LEMMA DependenciesServe ==
  ASSUME NEW found \in Seq(Catalog), Distinct(found), Len(found) <= MaxRouted
  PROVE  Serves(WithDependencies(found), found, Len(found))
<1>1. PICK selected : /\ WithDependencies(found) = selected[Len(found)] /\ selected[0] = found
                      /\ \A i \in 1..Len(found) : selected[i] = WithDependency(selected[i - 1], found[i])
  BY WithDependenciesIs
<1> DEFINE S == {n \in Nat : n <= Len(found) => Serves(selected[n], found, n)}
<1>2. 0 \in S BY <1>1 DEF Serves
<1>3. ASSUME NEW n \in Nat, n \in S PROVE n + 1 \in S
  <2> SUFFICES ASSUME n + 1 <= Len(found) PROVE Serves(selected[n + 1], found, n + 1) OBVIOUS
  <2>1. Serves(selected[n], found, n) BY <1>3
  <2>2. n + 1 \in 1..Len(found) /\ n + 1 - 1 = n OBVIOUS
  <2>3. selected[n + 1] = WithDependency(selected[n], found[n + 1]) BY <1>1, <2>2
  <2> QED BY <2>1, <2>3, OneMoreServes
<1> HIDE DEF S
<1>4. Nat \subseteq S BY <1>2, <1>3, SetInduction
<1>5. Len(found) \in Nat OBVIOUS
<1>6. Len(found) \in S BY <1>4, <1>5
<1> QED BY <1>1, <1>5, <1>6 DEF S

Usable(tools, pinned) ==
  /\ tools \in Seq(Catalog) /\ ValidRoute(tools)
  /\ ~pinned => \A t \in ToSet(tools) \cap DOMAIN Depends :
                  Depends[t] \in ToSet(tools) \/ Len(tools) = MaxRouted

\* What the router returns keeps its limits and brings along what it must.
LEMMA RoutesAreUsable ==
  ASSUME NEW required, Routable(required), NEW scores \in [Catalog -> Nat]
  PROVE  Usable(Route(required, scores), required # {})
<1>0. MaxRouted \in Nat BY CatalogAssumption
<1>1. CASE required # {}
  <2>1. required \in SUBSET Catalog /\ Cardinality(required) <= MaxRouted BY DEF Routable
  <2>2. IsFiniteSet(required) BY <2>1, CatalogIsFinite, FS_Subset
  <2> DEFINE r == InOrder(required, ByName(required))
  <2>3. r \in Seq(required) /\ Len(r) = Cardinality(required) /\ Distinct(r)
    BY <2>1, <2>2, NamesOrder, InOrderIsExact
  <2>4. r = Route(required, scores) BY <1>1 DEF Route
  <2> HIDE DEF r
  <2>5. r \in Seq(Catalog) BY <2>1, <2>3
  <2>6. ToSet(r) \subseteq Catalog BY <2>5 DEF ToSet
  <2>7. Len(r) = Cardinality(ToSet(r)) BY <2>3, <2>5, DistinctCounts
  <2> QED BY <1>1, <2>1, <2>3, <2>4, <2>5, <2>6, <2>7 DEF Usable, ValidRoute
<1>2. CASE required = {}
  <2> DEFINE hits == {t \in Catalog : scores[t] > 0}
             ranked == Ranked(scores)
             n == IF Len(ranked) < MaxRouted THEN Len(ranked) ELSE MaxRouted
             first == SubSeq(ranked, 1, n)
             r == WithDependencies(first)
  <2>1. hits \in SUBSET Catalog /\ IsFiniteSet(hits) BY CatalogIsFinite, FS_Subset
  <2>2. ranked \in Seq(hits) /\ Distinct(ranked)
    BY <2>1, ScoresOrder, InOrderIsExact DEF Ranked
  <2>3. ranked \in Seq(Catalog) BY <2>2
  <2>4. r = Route(required, scores) BY <1>2 DEF Route
  <2> HIDE DEF ranked
  <2>5. n \in 0..Len(ranked) /\ n <= MaxRouted BY <1>0, <2>3
  <2> HIDE DEF n
  <2>6. /\ first \in Seq(Catalog) /\ Len(first) = n /\ DOMAIN first = 1..n
        /\ DOMAIN ranked = 1..Len(ranked) /\ Len(ranked) \in Nat
        /\ \A i \in 1..n : first[i] = ranked[i]
    BY <2>3, <2>5
  <2> HIDE DEF first
  <2>7. Distinct(first) BY <2>2, <2>5, <2>6 DEF Distinct
  <2>8. Serves(r, first, Len(first)) BY <2>5, <2>6, <2>7, DependenciesServe
  <2> HIDE DEF r
  <2>9. r \in Seq(Catalog) /\ Distinct(r) /\ Len(r) <= MaxRouted BY <2>8 DEF Serves
  <2>10. ToSet(r) \subseteq Catalog BY <2>9 DEF ToSet
  <2>11. Len(r) = Cardinality(ToSet(r)) BY <2>9, DistinctCounts
  <2>12. ASSUME NEW t \in ToSet(r) \cap DOMAIN Depends
         PROVE  Depends[t] \in ToSet(r) \/ Len(r) = MaxRouted
    <3>1. t \in ToSet(first) BY <2>8 DEF Serves
    <3>2. PICK i \in 1..Len(first) : first[i] = t BY <2>6, <3>1 DEF ToSet
    <3> QED BY <2>8, <3>2 DEF Serves
  <2> QED BY <2>4, <2>9, <2>10, <2>11, <2>12 DEF Usable, ValidRoute
<1> QED BY <1>1, <1>2

-----------------------------------------------------------------------------
(* Turns                                                                   *)

Governed(call) ==
  /\ call.tool \in Visible
  /\ Rules[call.tool] = [enabled |-> TRUE, auto |-> TRUE, confirm |-> FALSE]
  /\ ValidArguments(Schemas[call.tool], call.arguments)

\* One handler, or one outside request, that was charged and did not begin yet.
Charged == IF at = "invoke" THEN 1 ELSE 0
ChargedOutside == IF at = "invoke" /\ Head(calls).tool \in External THEN 1 ELSE 0
\* One request to the model that was charged and not sent yet.
Unsent == IF at = "ask" THEN 1 ELSE 0

Uses == [model : Nat, tool : Nat, external : Nat, prompt : Nat, completion : Nat,
         total : Nat, micro : Nat]

TurnTypes ==
  /\ at \in {"start", "model", "ask", "answer", "call", "invoke", "result", "end"}
  /\ turn \in 1..MaxSteps /\ cancelled \in {"no", "yes"}
  /\ calls \in Seq(Requests) /\ ran \in Seq(Requests) /\ asked \in Nat
  /\ late \in [model : Nat, tool : Nat]
  /\ used \in Uses

\* What an answer holds is still there while its calls run; the call whose
\* handler is next passed the guard.
CallsWait ==
  /\ at \in {"call", "invoke", "result"} => calls # <<>>
  /\ at = "invoke" => Head(calls).tool \in Visible
  /\ at = "start" => ran = <<>>

\* The counters of the control run ahead of what really happened.
CountersLead ==
  /\ Len(ran) + Charged <= used.tool /\ used.tool <= MaxToolCalls
  /\ Cardinality(RanOf(External)) + ChargedOutside <= used.external
  /\ used.external <= MaxExternalCalls
  /\ asked + Unsent <= used.model /\ used.model <= MaxModelCalls
  /\ asked <= turn /\ (at \in {"start", "model", "ask"} => asked < turn)
  /\ used.total > MaxTokens \/ used.micro > MaxCost => at = "end"

\* Whoever was overtaken by the cancellation meets it at the next check.
LateOnce ==
  /\ late.model + late.tool <= 1
  /\ late.model + late.tool = 1 => cancelled = "yes" /\ at \in {"answer", "result", "end"}

TurnSound ==
  /\ TurnTypes /\ CallsWait /\ CountersLead /\ LateOnce
  /\ \A i \in DOMAIN ran : Governed(ran[i])
  /\ Usable(route, skill # {})

LEMMA UsesAreCounts ==
  ASSUME NEW u \in Uses
  PROVE  /\ u.model \in Nat /\ u.tool \in Nat /\ u.external \in Nat
         /\ [u EXCEPT !.model = @ + 1] \in Uses
         /\ [u EXCEPT !.model = @ + 1].model = u.model + 1
         /\ [u EXCEPT !.model = @ + 1].tool = u.tool
         /\ [u EXCEPT !.model = @ + 1].external = u.external
         /\ [u EXCEPT !.model = @ + 1].total = u.total
         /\ [u EXCEPT !.model = @ + 1].micro = u.micro
BY DEF Uses

LEMMA ChargeIsCounted ==
  ASSUME NEW u \in Uses, NEW v, NEW n \in {u.external, u.external + 1},
         v = [u EXCEPT !.tool = @ + 1, !.external = n]
  PROVE  /\ v \in Uses /\ v.model = u.model /\ v.tool = u.tool + 1 /\ v.external = n
         /\ v.total = u.total /\ v.micro = u.micro
<1>1. PICK w : w = [u EXCEPT !.tool = @ + 1] OBVIOUS
<1>2. /\ w \in Uses /\ w.model = u.model /\ w.tool = u.tool + 1
      /\ w.total = u.total /\ w.micro = u.micro
  BY <1>1 DEF Uses
<1>3. v = [w EXCEPT !.external = n] BY <1>1
<1>4. n \in Nat BY DEF Uses
<1> QED BY <1>2, <1>3, <1>4 DEF Uses

LEMMA SpendIsCounted ==
  ASSUME used \in Uses, NEW usage \in Usages
  PROVE  LET v == Spent(usage)
         IN  v \in Uses /\ v.model = used.model /\ v.tool = used.tool /\ v.external = used.external
<1>1. usage.prompt \in Nat /\ usage.completion \in Nat /\ usage.total \in Nat BY TurnAssumption
<1>2. PICK m : m = used.micro + usage.prompt * InputRate + usage.completion * OutputRate OBVIOUS
<1>3. m \in Nat
  <2>1. usage.prompt * InputRate \in Nat /\ usage.completion * OutputRate \in Nat
    BY <1>1, TurnAssumption
  <2> QED BY <1>2, <2>1 DEF Uses
<1>4. PICK x, w : x = [used EXCEPT !.prompt = @ + usage.prompt]
                  /\ w = [x EXCEPT !.completion = used.completion + usage.completion]
  OBVIOUS
<1>5. /\ x \in Uses /\ x.model = used.model /\ x.tool = used.tool /\ x.external = used.external
      /\ x.total = used.total
  BY <1>1, <1>4 DEF Uses
<1>6. used.completion + usage.completion \in Nat BY <1>1 DEF Uses
<1>7. /\ w \in Uses /\ w.model = used.model /\ w.tool = used.tool /\ w.external = used.external
  BY <1>4, <1>5, <1>6 DEF Uses
<1>8. Spent(usage) = [w EXCEPT !.total = used.total + usage.total, !.micro = m]
  BY <1>2, <1>4, Zenon DEF Spent
<1>9. used.total + usage.total \in Nat BY <1>1 DEF Uses
<1> QED BY <1>3, <1>7, <1>8, <1>9 DEF Uses

\* The runs of some tools among any are finitely many; one more is one more.
LEMMA RunsAreFinite ==
  ASSUME NEW s \in Seq(Requests)
  PROVE  /\ Len(s) \in Nat
         /\ IsFiniteSet({i \in DOMAIN s : s[i].tool \in External})
         /\ Cardinality({i \in DOMAIN s : s[i].tool \in External}) \in Nat
<1>1. IsFiniteSet(1..Len(s)) /\ DOMAIN s = 1..Len(s) BY FS_Interval
<1>2. IsFiniteSet({i \in DOMAIN s : s[i].tool \in External}) BY <1>1, FS_Subset
<1> QED BY <1>2, FS_CardinalityType

LEMMA OneMoreRun ==
  ASSUME NEW s \in Seq(Requests), NEW call \in Requests
  PROVE  LET runs == {i \in DOMAIN s : s[i].tool \in External}
             more == {i \in DOMAIN Append(s, call) : Append(s, call)[i].tool \in External}
         IN  Cardinality(more) = Cardinality(runs) + (IF call.tool \in External THEN 1 ELSE 0)
<1> DEFINE runs == {i \in DOMAIN s : s[i].tool \in External}
           more == {i \in DOMAIN Append(s, call) : Append(s, call)[i].tool \in External}
<1>1. /\ DOMAIN Append(s, call) = DOMAIN s \cup {Len(s) + 1} /\ DOMAIN s = 1..Len(s) /\ Len(s) \in Nat
      /\ Append(s, call)[Len(s) + 1] = call /\ \A i \in 1..Len(s) : Append(s, call)[i] = s[i]
  OBVIOUS
<1>2. CASE call.tool \in External
  <2>1. more = runs \cup {Len(s) + 1} /\ Len(s) + 1 \notin runs BY <1>1, <1>2
  <2>2. IsFiniteSet(runs) /\ Cardinality(runs) \in Nat BY RunsAreFinite
  <2>3. Cardinality(more) = Cardinality(runs) + 1 BY <2>1, <2>2, FS_AddElement
  <2> QED BY <2>3, <1>2
<1>3. CASE call.tool \notin External
  <2>1. more = runs BY <1>1, <1>3
  <2>2. Cardinality(runs) \in Nat BY RunsAreFinite
  <2>3. Cardinality(more) = Cardinality(runs) BY <2>1
  <2> HIDE DEF runs, more
  <2>4. Cardinality(more) = Cardinality(runs) + 0 BY <2>2, <2>3
  <2> QED BY <2>4, <1>3 DEF runs, more
<1> QED BY <1>2, <1>3

LEMMA TurnStarts == TurnInit => TurnSound
<1> SUFFICES ASSUME TurnInit PROVE TurnSound OBVIOUS
<1> USE DEF TurnInit
<1>1. TurnTypes
  <2>1. used \in Uses BY DEF NoUse, Uses
  <2>2. turn \in 1..MaxSteps BY TurnAssumption
  <2>3. calls \in Seq(Requests) /\ ran \in Seq(Requests) OBVIOUS
  <2> QED BY <2>1, <2>2, <2>3 DEF TurnTypes
<1>2. CallsWait BY DEF CallsWait
<1>3. RanOf(External) = {} BY DEF RanOf
<1>4. CountersLead
  BY <1>3, FS_EmptySet, TurnAssumption DEF CountersLead, NoUse, Charged, ChargedOutside, Unsent
<1>5. LateOnce BY DEF LateOnce
<1>6. Usable(route, skill # {})
  <2>1. ToSet(route) = {} /\ Len(route) = 0 /\ route \in Seq(Catalog) BY DEF ToSet
  <2>2. MaxRouted \in Nat BY CatalogAssumption
  <2> QED BY <2>1, <2>2, FS_EmptySet DEF Usable, ValidRoute
<1> QED BY <1>1, <1>2, <1>4, <1>5, <1>6 DEF TurnSound

\* A task that ends has nothing charged any more.
LEMMA EndKeeps ==
  ASSUME TurnSound, NEW code, Ends(code), UNCHANGED cancelled, used' \in Uses,
         used'.tool >= used.tool, used'.tool <= MaxToolCalls,
         used'.external >= used.external, used'.external <= MaxExternalCalls,
         used'.model >= used.model, used'.model <= MaxModelCalls
  PROVE  TurnSound'
<1> USE DEF TurnSound, Ends, limitVars
<1>1. TurnTypes' BY DEF TurnTypes, Uses
<1>2. CallsWait' BY DEF CallsWait
<1>3. RanOf(External)' = RanOf(External) BY DEF RanOf
<1>4. Charged' = 0 /\ ChargedOutside' = 0 /\ Unsent' = 0 BY DEF Charged, ChargedOutside, Unsent
<1>5. Charged \in Nat /\ ChargedOutside \in Nat /\ Unsent \in Nat BY DEF Charged, ChargedOutside, Unsent
<1>6. Len(ran) \in Nat /\ Cardinality(RanOf(External)) \in Nat
  BY RunsAreFinite DEF RanOf, TurnTypes
<1>7. CountersLead'
  <2>1. /\ used.tool \in Nat /\ used.external \in Nat /\ used.model \in Nat
        /\ used'.tool \in Nat /\ used'.external \in Nat /\ used'.model \in Nat
        /\ MaxToolCalls \in Nat /\ MaxExternalCalls \in Nat /\ MaxModelCalls \in Nat /\ asked \in Nat
    BY UsesAreCounts, TurnAssumption DEF TurnTypes
  <2>2. at' = "end" /\ UNCHANGED <<ran, asked, turn>> /\ asked <= turn BY DEF CountersLead
  <2>a. /\ Len(ran) + Charged <= used.tool
        /\ Cardinality(RanOf(External)) + ChargedOutside <= used.external
        /\ asked + Unsent <= used.model
    BY DEF CountersLead
  <2>3. Len(ran) <= used.tool /\ Cardinality(RanOf(External)) <= used.external /\ asked <= used.model
    <3> HIDE DEF TurnSound, Ends
    <3>1. \A x, y, z \in Nat : x + y <= z => x <= z OBVIOUS
    <3> QED BY <1>5, <1>6, <2>1, <2>a, <3>1, Zenon
  <2>4. /\ Len(ran') + Charged' <= used'.tool /\ used'.tool <= MaxToolCalls
        /\ Cardinality(RanOf(External)') + ChargedOutside' <= used'.external
        /\ used'.external <= MaxExternalCalls
        /\ asked' + Unsent' <= used'.model /\ used'.model <= MaxModelCalls
    BY <1>3, <1>4, <1>6, <2>1, <2>2, <2>3
  <2> QED BY <2>2, <2>4 DEF CountersLead
<1>8. LateOnce' BY DEF LateOnce
<1>9. (\A i \in DOMAIN ran : Governed(ran[i]))' BY DEF Governed, Visible
<1> QED BY <1>1, <1>2, <1>7, <1>8, <1>9

LEMMA StartTurnKeeps ==
  ASSUME TurnSound, NEW required, NEW scores \in Scores, StartTurn(required, scores)
  PROVE  TurnSound'
<1> USE DEF TurnSound, StartTurn
<1>1. TurnTypes' BY DEF TurnTypes
<1>2. CallsWait' BY DEF CallsWait
<1>3. RanOf(External)' = RanOf(External) BY DEF RanOf
<1>4. CountersLead' BY <1>3 DEF CountersLead, Charged, ChargedOutside, Unsent
<1>5. LateOnce' BY DEF LateOnce
<1>6. (\A i \in DOMAIN ran : Governed(ran[i]))' BY DEF CallsWait
<1>7. Usable(route, skill # {})'
  <2>1. Routable(required) /\ scores \in [Catalog -> Nat] BY TurnAssumption
  <2>2. Usable(Route(required, scores), required # {}) BY <2>1, RoutesAreUsable
  <2>3. route' = Route(required, scores) /\ skill' = required OBVIOUS
  <2> QED BY <2>2, <2>3
<1> QED BY <1>1, <1>2, <1>4, <1>5, <1>6, <1>7

LEMMA AskModelKeeps == ASSUME TurnSound, NEW inTime, AskModel(inTime) PROVE TurnSound'
<1> USE DEF AskModel
<1>1. CASE \E code : Ends(code)
  <2>1. PICK code : Ends(code) BY <1>1
  <2>2. \/ UNCHANGED used
        \/ ModelStop = "none" /\ used' = [used EXCEPT !.model = @ + 1] BY DEF Ends
  <2>3. used' \in Uses /\ used'.tool = used.tool /\ used'.external = used.external
        /\ used'.model >= used.model /\ used'.model <= MaxModelCalls
    <3>1. /\ used \in Uses /\ used.model \in Nat /\ used.model <= MaxModelCalls /\ MaxModelCalls \in Nat
      BY UsesAreCounts, TurnAssumption DEF TurnSound, TurnTypes, CountersLead
    <3>2. CASE UNCHANGED used BY <3>1, <3>2
    <3>3. CASE ModelStop = "none" /\ used' = [used EXCEPT !.model = @ + 1]
      <4>1. used.model < MaxModelCalls BY <3>1, <3>3 DEF ModelStop
      <4>2. used' \in Uses /\ used'.tool = used.tool /\ used'.external = used.external
            /\ used'.model = used.model + 1
        BY <3>1, <3>3, UsesAreCounts
      <4> QED BY <3>1, <4>1, <4>2
    <3> QED BY <2>2, <3>2, <3>3
  <2>4. used.tool \in Nat /\ used.external \in Nat /\ UNCHANGED cancelled
    BY UsesAreCounts DEF TurnSound, TurnTypes
  <2> QED BY <2>1, <2>3, <2>4, EndKeeps DEF TurnSound, CountersLead
<1>2. CASE ~\E code : Ends(code)
  <2>1. /\ at' = "ask" /\ ModelStop = "none" /\ used' = [used EXCEPT !.model = @ + 1]
        /\ UNCHANGED <<limitVars, turn, calls, outcome, ran, asked, late, elapsed, cancelled>>
    BY <1>2
  <2> USE DEF TurnSound, limitVars
  <2>2. TurnTypes' BY <2>1, UsesAreCounts DEF TurnTypes
  <2>3. CallsWait' BY <2>1 DEF CallsWait
  <2>4. RanOf(External)' = RanOf(External) BY <2>1 DEF RanOf
  <2>5. CountersLead'
    <3>1. used \in Uses /\ asked \in Nat /\ MaxModelCalls \in Nat BY TurnAssumption DEF TurnTypes
    <3>2. /\ used.model \in Nat /\ used'.model = used.model + 1 /\ used'.tool = used.tool
          /\ used'.external = used.external /\ used'.total = used.total /\ used'.micro = used.micro
      BY <2>1, <3>1, UsesAreCounts
    <3>3. used.model < MaxModelCalls BY <2>1, <3>1, <3>2 DEF ModelStop
    <3>4. at = "model" BY DEF AskModel
    <3> QED BY <2>1, <2>4, <3>1, <3>2, <3>3, <3>4 DEF CountersLead, Charged, ChargedOutside, Unsent
  <2>6. LateOnce' BY <2>1 DEF LateOnce
  <2>7. (\A i \in DOMAIN ran : Governed(ran[i]))' BY <2>1 DEF Governed, Visible
  <2>8. Usable(route, skill # {})' BY <2>1
  <2> QED BY <2>2, <2>3, <2>5, <2>6, <2>7, <2>8
<1> QED BY <1>1, <1>2

LEMMA SendRequestKeeps == ASSUME TurnSound, SendRequest PROVE TurnSound'
<1> USE DEF TurnSound, SendRequest, limitVars
<1>1. TurnTypes'
  <2>1. late' \in [model : Nat, tool : Nat] BY DEF TurnTypes
  <2> QED BY <2>1 DEF TurnTypes
<1>2. CallsWait' BY DEF CallsWait
<1>3. RanOf(External)' = RanOf(External) BY DEF RanOf
<1>4. CountersLead' BY <1>3 DEF CountersLead, Charged, ChargedOutside, Unsent, TurnTypes
<1>5. LateOnce' BY DEF LateOnce, TurnTypes
<1>6. (\A i \in DOMAIN ran : Governed(ran[i]))' BY DEF Governed, Visible
<1> QED BY <1>1, <1>2, <1>4, <1>5, <1>6

LEMMA ModelAnswersKeeps ==
  ASSUME TurnSound, NEW answer \in SeqOf(Requests, MaxCalls + 1), NEW usage \in Usages, NEW inTime,
         ModelAnswers(answer, usage, inTime)
  PROVE  TurnSound'
<1> USE DEF ModelAnswers
<1>1. /\ used' \in Uses /\ used'.tool = used.tool /\ used'.external = used.external
      /\ used'.model = used.model
  <2>4. used' = used \/ used' = Spent(usage) BY DEF Ends
  <2>5. used \in Uses BY DEF TurnSound, TurnTypes
  <2>6. used.model = used.model /\ Spent(usage) \in Uses /\ Spent(usage).model = used.model
        /\ Spent(usage).tool = used.tool /\ Spent(usage).external = used.external
    BY <2>5, SpendIsCounted
  <2> QED BY <2>4, <2>5, <2>6
<1>2. CASE \E code : Ends(code)
  <2>1. /\ used.tool \in Nat /\ used.external \in Nat /\ used.model \in Nat /\ UNCHANGED cancelled
    BY UsesAreCounts DEF TurnSound, TurnTypes
  <2> QED BY <1>1, <1>2, <2>1, EndKeeps DEF TurnSound, CountersLead
<1>3. CASE ~\E code : Ends(code)
  <2>1. /\ at' = "call" /\ calls' = answer /\ Stop = "none" /\ Verdict(answer, inTime) = "tools"
        /\ SpendStop(used') = "none"
        /\ UNCHANGED <<limitVars, turn, outcome, ran, asked, late, elapsed, cancelled>>
    BY <1>3 DEF Judge
  <2>2. answer \in Seq(Requests)
    <3>1. PICK m \in 0..(MaxCalls + 1) : answer \in [1..m -> Requests] BY DEF SeqOf
    <3> QED BY <3>1, TurnAssumption
  <2>3. answer # <<>> BY <2>1 DEF Verdict
  <2> USE DEF TurnSound, limitVars
  <2>4. TurnTypes' BY <1>1, <2>1, <2>2 DEF TurnTypes, Uses
  <2>5. CallsWait' BY <2>1, <2>3 DEF CallsWait
  <2>6. RanOf(External)' = RanOf(External) BY <2>1 DEF RanOf
  <2>7. CountersLead'
    BY <1>1, <2>1, <2>6 DEF CountersLead, Charged, ChargedOutside, Unsent, SpendStop, TurnTypes
  <2>8. LateOnce' BY <2>1 DEF LateOnce, Stop, TurnTypes
  <2>9. (\A i \in DOMAIN ran : Governed(ran[i]))' BY <2>1 DEF Governed, Visible
  <2>10. Usable(route, skill # {})' BY <2>1
  <2> QED BY <2>4, <2>5, <2>7, <2>8, <2>9, <2>10
<1> QED BY <1>2, <1>3

LEMMA ChargeCallKeeps == ASSUME TurnSound, NEW inTime, ChargeCall(inTime) PROVE TurnSound'
<1> DEFINE tool == Head(calls).tool
           charged == [used EXCEPT !.tool = @ + 1,
                         !.external = IF tool \in External \cap Visible THEN @ + 1 ELSE @]
<1>1. \/ used' = used
      \/ ToolStop(tool) = "none" /\ used' = charged BY DEF ChargeCall
<1>2. /\ used' \in Uses /\ used'.model = used.model
      /\ used'.tool >= used.tool /\ used'.tool <= MaxToolCalls
      /\ used'.external >= used.external /\ used'.external <= MaxExternalCalls
  <2>1. /\ used \in Uses /\ used.tool \in Nat /\ used.external \in Nat
        /\ MaxToolCalls \in Nat /\ MaxExternalCalls \in Nat
    BY UsesAreCounts, TurnAssumption DEF TurnSound, TurnTypes
  <2>2. used.tool <= MaxToolCalls /\ used.external <= MaxExternalCalls BY DEF TurnSound, CountersLead
  <2>3. CASE used' = used BY <2>1, <2>2, <2>3
  <2>4. CASE ToolStop(tool) = "none" /\ used' = charged
    <3>1. used.tool < MaxToolCalls
          /\ (tool \in External \cap Visible => used.external < MaxExternalCalls)
      BY <2>1, <2>4 DEF ToolStop
    <3>2. PICK n : n = IF tool \in External \cap Visible THEN used.external + 1 ELSE used.external
      OBVIOUS
    <3>3. used' = [used EXCEPT !.tool = @ + 1, !.external = n] BY <2>4, <3>2, <2>1 DEF Uses
    <3>4. /\ used' \in Uses /\ used'.model = used.model /\ used'.tool = used.tool + 1
          /\ used'.external = n /\ n \in {used.external, used.external + 1}
      <4>1. n \in {used.external, used.external + 1} BY <3>2
      <4> HIDE DEF charged, tool
      <4> QED BY <2>1, <4>1, <3>3, ChargeIsCounted, ZenonT(30)
    <3> QED BY <2>1, <2>2, <3>1, <3>2, <3>4
  <2> QED BY <1>1, <2>3, <2>4
<1>3. CASE \E code : Ends(code)
  <2>1. used.model \in Nat /\ UNCHANGED cancelled
    BY UsesAreCounts DEF TurnSound, TurnTypes, ChargeCall
  <2> QED BY <1>2, <1>3, <2>1, EndKeeps DEF TurnSound, CountersLead
<1>4. CASE ~\E code : Ends(code)
  <2>1. /\ at = "call" /\ at' = "invoke" /\ ToolStop(tool) = "none" /\ used' = charged
        /\ ~Rejected(ToolGuard(tool), inTime)
        /\ UNCHANGED <<limitVars, turn, calls, outcome, ran, asked, late, elapsed, cancelled>>
    BY <1>4 DEF ChargeCall
  <2>2. tool \in Visible BY <2>1 DEF Rejected, ToolGuard
  <2> USE DEF TurnSound, limitVars
  <2>3. TurnTypes' BY <1>2, <2>1 DEF TurnTypes, Uses
  <2>4. Visible' = Visible BY <2>1 DEF Visible
  <2>5. CallsWait' BY <2>1, <2>2, <2>4 DEF CallsWait
  <2>6. RanOf(External)' = RanOf(External) BY <2>1 DEF RanOf
  <2>7. CountersLead'
    <3>1. used'.tool = used.tool + 1 /\ used'.total = used.total /\ used'.micro = used.micro
          /\ (tool \in External => used'.external = used.external + 1)
      BY <2>1, <2>2 DEF TurnTypes, Uses
    <3>2. Cardinality(RanOf(External)) \in Nat /\ Len(ran) \in Nat
      BY RunsAreFinite DEF RanOf, TurnTypes
    <3>3. used.tool \in Nat /\ used.external \in Nat /\ used.model \in Nat
      BY UsesAreCounts DEF TurnTypes
    <3>4. /\ Charged = 0 /\ ChargedOutside = 0 /\ Unsent = 0 /\ Charged' = 1 /\ Unsent' = 0
          /\ ChargedOutside' = IF tool \in External THEN 1 ELSE 0
      BY <2>1 DEF Charged, ChargedOutside, Unsent
    <3> QED BY <1>2, <2>1, <2>6, <3>1, <3>2, <3>3, <3>4 DEF CountersLead
  <2>8. LateOnce' BY <2>1 DEF LateOnce, TurnTypes
  <2>9. (\A i \in DOMAIN ran : Governed(ran[i]))' BY <2>1, <2>4 DEF Governed
  <2>10. Usable(route, skill # {})' BY <2>1
  <2> QED BY <2>3, <2>5, <2>7, <2>8, <2>9, <2>10
<1> QED BY <1>3, <1>4

\* A handler that begins was charged, and is one more that ran.
LEMMA InvokeKeeps == ASSUME TurnSound, Invoke PROVE TurnSound'
<1> USE DEF TurnSound, Invoke, limitVars
<1> DEFINE call == Head(calls)
<1>0. calls \in Seq(Requests) /\ ran \in Seq(Requests) /\ late \in [model : Nat, tool : Nat]
  BY DEF TurnTypes
<1>1. call \in Requests /\ call.tool \in Visible BY <1>0 DEF CallsWait
<1>2. TurnTypes'
  <2>1. ran' \in Seq(Requests)
    <3>1. Append(ran, call) \in Seq(Requests) BY <1>0, <1>1
    <3> QED BY <1>0, <3>1
  <2>2. late' \in [model : Nat, tool : Nat] BY <1>0
  <2> QED BY <2>1, <2>2 DEF TurnTypes
<1>3. CallsWait' BY DEF CallsWait
<1>4. Cardinality(RanOf(External)) \in Nat /\ Len(ran) \in Nat BY <1>0, RunsAreFinite DEF RanOf
<1>5. /\ Len(ran') <= Len(ran) + Charged
      /\ Cardinality(RanOf(External)') <= Cardinality(RanOf(External)) + ChargedOutside
  <2>1. CASE Handles(call)
    <3>1. ran' = Append(ran, call) BY <2>1
    <3>2. Len(ran') = Len(ran) + 1 BY <3>1, <1>0
    <3>3. Cardinality(RanOf(External)') = Cardinality(RanOf(External)) + ChargedOutside
      <4>1. ChargedOutside = IF call.tool \in External THEN 1 ELSE 0 BY DEF ChargedOutside
      <4> HIDE DEF call
      <4>2. RanOf(External)' = {i \in DOMAIN Append(ran, call) : Append(ran, call)[i].tool \in External}
        BY <3>1 DEF RanOf
      <4>3. Cardinality({i \in DOMAIN Append(ran, call) : Append(ran, call)[i].tool \in External})
            = Cardinality({i \in DOMAIN ran : ran[i].tool \in External})
              + (IF call.tool \in External THEN 1 ELSE 0)
        BY <1>0, <1>1, OneMoreRun, ZenonT(30)
      <4> QED BY <4>1, <4>2, <4>3 DEF RanOf
    <3> QED BY <3>2, <3>3, <1>4 DEF Charged, ChargedOutside
  <2>2. CASE ~Handles(call)
    <3>1. ran' = ran /\ RanOf(External)' = RanOf(External) BY <2>2 DEF RanOf
    <3> QED BY <3>1, <1>4 DEF Charged, ChargedOutside
  <2> QED BY <2>1, <2>2
<1>6. Cardinality(RanOf(External)') \in Nat /\ Len(ran') \in Nat
  BY <1>2, RunsAreFinite DEF RanOf, TurnTypes
<1>7. CountersLead'
  <2>1. used.tool \in Nat /\ used.external \in Nat /\ used.model \in Nat
    BY UsesAreCounts DEF TurnTypes
  <2>2. /\ Charged' = 0 /\ ChargedOutside' = 0 /\ Unsent' = 0 /\ Unsent = 0
        /\ Charged = 1 /\ ChargedOutside \in Nat
    BY DEF Charged, ChargedOutside, Unsent
  <2> QED BY <1>4, <1>5, <1>6, <2>1, <2>2 DEF CountersLead
<1>8. LateOnce'
  <2>1. late.model \in Nat /\ late.tool \in Nat BY <1>0
  <2>2. late'.model + late'.tool <= late.model + late.tool + 1
        /\ (late' # late => cancelled = "yes")
    BY <1>0
  <2> QED BY <2>1, <2>2, <1>0 DEF LateOnce
<1>9. (\A i \in DOMAIN ran : Governed(ran[i]))'
  <2>1. Visible' = Visible BY DEF Visible
  <2>2. CASE Handles(call)
    <3>1. Governed(call)
      BY <1>1, <2>2, CatalogAssumption DEF Governed, Handles, Reason
    <3>2. ran' = Append(ran, call) BY <2>2
    <3>3. /\ DOMAIN Append(ran, call) = DOMAIN ran \cup {Len(ran) + 1}
          /\ Append(ran, call)[Len(ran) + 1] = call
          /\ \A i \in DOMAIN ran : Append(ran, call)[i] = ran[i]
      BY <1>0, <1>1
    <3> HIDE DEF call
    <3> QED BY <2>1, <3>1, <3>2, <3>3 DEF Governed
  <2>3. CASE ~Handles(call) BY <2>1, <2>3 DEF Governed
  <2> QED BY <2>2, <2>3
<1> QED BY <1>2, <1>3, <1>7, <1>8, <1>9

LEMMA AfterToolKeeps == ASSUME TurnSound, AfterTool PROVE TurnSound'
<1> USE DEF AfterTool
<1>1. CASE \E code : Ends(code)
  <2>1. /\ used \in Uses /\ used.tool \in Nat /\ used.external \in Nat /\ used.model \in Nat
        /\ UNCHANGED <<used, cancelled>>
    BY UsesAreCounts DEF TurnSound, TurnTypes
  <2> QED BY <1>1, <2>1, EndKeeps DEF TurnSound, CountersLead
<1>2. CASE ~\E code : Ends(code)
  <2>1. /\ at = "result" /\ Stop = "none"
        /\ UNCHANGED <<limitVars, outcome, ran, asked, late, elapsed, cancelled, used>>
        /\ \/ Len(calls) > 1 /\ calls' = Tail(calls) /\ at' = "call" /\ UNCHANGED turn
           \/ turn # MaxSteps /\ calls' = <<>> /\ at' = "model" /\ turn' = turn + 1
    BY <1>2
  <2> USE DEF TurnSound, limitVars
  <2>2. TurnTypes'
    <3>1. calls \in Seq(Requests) /\ turn \in 1..MaxSteps /\ MaxSteps \in Nat
      BY TurnAssumption DEF TurnTypes
    <3>2. Len(calls) > 1 => Tail(calls) \in Seq(Requests) BY <3>1
    <3>3. <<>> \in Seq(Requests) OBVIOUS
    <3>4. calls' \in Seq(Requests) BY <2>1, <3>2, <3>3
    <3>5. turn' \in 1..MaxSteps BY <2>1, <3>1
    <3> QED BY <2>1, <3>4, <3>5 DEF TurnTypes
  <2>3. CallsWait'
    <3>1. calls \in Seq(Requests) BY DEF TurnTypes
    <3>2. Len(calls) > 1 => Tail(calls) # <<>> BY <3>1
    <3> QED BY <2>1, <3>2 DEF CallsWait
  <2>4. RanOf(External)' = RanOf(External) BY <2>1 DEF RanOf
  <2>5. CountersLead'
    BY <2>1, <2>4 DEF CountersLead, Charged, ChargedOutside, Unsent, TurnTypes
  <2>6. LateOnce' BY <2>1 DEF LateOnce, Stop, TurnTypes
  <2>7. (\A i \in DOMAIN ran : Governed(ran[i]))' BY <2>1 DEF Governed, Visible
  <2>8. Usable(route, skill # {})' BY <2>1
  <2> QED BY <2>2, <2>3, <2>5, <2>6, <2>7, <2>8
<1> QED BY <1>1, <1>2

\* Time passes, a person cancels, or nothing happens.
LEMMA OutsideKeeps == ASSUME TurnSound, CancelTurn \/ Elapse \/ UNCHANGED turnVars PROVE TurnSound'
<1> USE DEF TurnSound
<1>1. UNCHANGED <<skill, route, at, turn, used, calls, outcome, ran, asked, late>>
  BY DEF CancelTurn, Elapse, turnVars, limitVars
<1>2. cancelled' \in {"no", "yes"} /\ (cancelled = "yes" => cancelled' = "yes")
  BY DEF CancelTurn, Elapse, turnVars, TurnTypes
<1>3. TurnTypes' BY <1>1, <1>2 DEF TurnTypes
<1>4. CallsWait' BY <1>1 DEF CallsWait, Visible
<1>5. RanOf(External)' = RanOf(External) BY <1>1 DEF RanOf
<1>6. CountersLead' BY <1>1, <1>5 DEF CountersLead, Charged, ChargedOutside, Unsent
<1>7. LateOnce' BY <1>1, <1>2 DEF LateOnce
<1>8. (\A i \in DOMAIN ran : Governed(ran[i]))' BY <1>1 DEF Governed, Visible
<1>9. Usable(route, skill # {})' BY <1>1
<1> QED BY <1>3, <1>4, <1>6, <1>7, <1>8, <1>9

LEMMA TurnSoundIsKept == TurnSound /\ [TurnNext]_turnVars => TurnSound'
<1> SUFFICES ASSUME TurnSound, [TurnNext]_turnVars PROVE TurnSound' OBVIOUS
<1>1. CASE \E required \in Skills, scores \in Scores : StartTurn(required, scores)
  BY <1>1, StartTurnKeeps
<1>2. CASE \E inTime \in {"yes", "no"} : AskModel(inTime) \/ ChargeCall(inTime)
  BY <1>2, AskModelKeeps, ChargeCallKeeps
<1>3. CASE \E inTime \in {"yes", "no"} :
             \E answer \in SeqOf(Requests, MaxCalls + 1), usage \in Usages :
               ModelAnswers(answer, usage, inTime)
  BY <1>3, ModelAnswersKeeps
<1>4. CASE ModelFails
  <2>1. /\ used \in Uses /\ used.tool \in Nat /\ used.external \in Nat /\ used.model \in Nat
        /\ UNCHANGED <<used, cancelled>> /\ Ends("MODEL_REQUEST_FAILED")
    BY <1>4, UsesAreCounts DEF ModelFails, TurnSound, TurnTypes
  <2> QED BY <2>1, EndKeeps DEF TurnSound, CountersLead
<1> QED
  BY <1>1, <1>2, <1>3, <1>4, SendRequestKeeps, InvokeKeeps, AfterToolKeeps, OutsideKeeps
  DEF TurnNext

LEMMA TurnSoundGoverns == TurnSound => CallsAreGoverned
<1> SUFFICES ASSUME TurnSound PROVE CallsAreGoverned OBVIOUS
<1>1. Len(ran) \in Nat /\ Cardinality(RanOf(External)) \in Nat
  BY RunsAreFinite DEF RanOf, TurnTypes, TurnSound
<1>2. BudgetsHold
  <2>1. used.tool \in Nat /\ used.external \in Nat /\ used.model \in Nat /\ asked \in Nat
        /\ turn \in 1..MaxSteps
    BY UsesAreCounts DEF TurnTypes, TurnSound
  <2>2. Charged \in Nat /\ ChargedOutside \in Nat /\ Unsent \in Nat
    BY DEF Charged, ChargedOutside, Unsent
  <2>3. MaxToolCalls \in Nat /\ MaxExternalCalls \in Nat /\ MaxModelCalls \in Nat /\ MaxSteps \in Nat
    BY TurnAssumption
  <2>4. CountersLead BY DEF TurnSound
  <2> QED BY <1>1, <2>1, <2>2, <2>3, <2>4 DEF BudgetsHold, CountersLead
<1>3. OnlyGovernedRun BY DEF OnlyGovernedRun, TurnSound, Governed
<1>4. CancelIsPrompt BY DEF CancelIsPrompt, TurnSound, LateOnce
<1>5. RouteIsUsable BY DEF RouteIsUsable, TurnSound, Usable
<1> QED BY <1>2, <1>3, <1>4, <1>5 DEF CallsAreGoverned

\* Whatever the model answers and however long a call takes, the budgets of a
\* task hold, no call runs that the rules, the route or the schema refuse, a
\* cancelled task starts at most one call more, and a route can be used, for
\* every catalogue, rules, limits and answers (harness.agent_loop).
THEOREM CallsAreGovernedHolds == TurnSpec => []CallsAreGoverned
<1> QED BY TurnStarts, TurnSoundIsKept, TurnSoundGoverns, PTL DEF TurnSpec
(***************************************************************************)
(* AuthSessions: lockouts are earned and tables bounded, for any number of *)
(* threads, accounts, failures and sessions. First the lists of failures:  *)
(* of any time no more is on a list than was marked in the history, until  *)
(* there are enough marks.                                                 *)
(***************************************************************************)

\* How many of a list, or of the marks of a key, are not older than that.
Late(times, start) == {i \in DOMAIN times : times[i] >= start}
MarkedSince(marks, start) == {m \in marks : m[1] >= start}

Times == Seq(Nat)

LEMMA LateIsFinite ==
  ASSUME NEW times \in Times, NEW start \in Int
  PROVE  /\ Len(times) \in Nat /\ DOMAIN times = 1..Len(times)
         /\ IsFiniteSet(Late(times, start)) /\ Cardinality(Late(times, start)) \in Nat
<1>1. Len(times) \in Nat /\ DOMAIN times = 1..Len(times) BY DEF Times
<1>2. IsFiniteSet(1..Len(times)) BY <1>1, FS_Interval
<1>3. IsFiniteSet(Late(times, start)) BY <1>1, <1>2, FS_Subset DEF Late
<1> QED BY <1>1, <1>3, FS_CardinalityType

LEMMA OneMoreLate ==
  ASSUME NEW times \in Times, NEW t \in Nat, NEW start \in Int
  PROVE  /\ Append(times, t) \in Times
         /\ Cardinality(Late(Append(times, t), start))
              = Cardinality(Late(times, start)) + (IF t >= start THEN 1 ELSE 0)
<1> DEFINE more == Append(times, t)
<1>1. /\ more \in Times /\ DOMAIN more = 1..(Len(times) + 1) /\ Len(times) \in Nat
      /\ DOMAIN times = 1..Len(times)
      /\ more[Len(times) + 1] = t /\ \A i \in 1..Len(times) : more[i] = times[i]
  BY DEF Times
<1> HIDE DEF more
<1>2. IsFiniteSet(Late(times, start)) /\ Cardinality(Late(times, start)) \in Nat BY LateIsFinite
<1>3. CASE t >= start
  <2>1. Late(more, start) = Late(times, start) \cup {Len(times) + 1}
        /\ Len(times) + 1 \notin Late(times, start)
    BY <1>1, <1>3 DEF Late
  <2> QED BY <1>1, <1>2, <1>3, <2>1, FS_AddElement DEF more
<1>4. CASE ~(t >= start)
  <2>1. Late(more, start) = Late(times, start) BY <1>1, <1>4 DEF Late
  <2> QED BY <1>1, <1>2, <1>4, <2>1 DEF more
<1> QED BY <1>3, <1>4

\* The newest of a list are late no more often than all of it.
LEMMA LatestIsLess ==
  ASSUME NEW times \in Times, NEW n \in Nat, NEW start \in Int
  PROVE  /\ Latest(times, n) \in Times /\ (Len(times) > 0 /\ n > 0 => Len(Latest(times, n)) > 0)
         /\ Cardinality(Late(Latest(times, n), start)) <= Cardinality(Late(times, start))
<1>1. Len(times) \in Nat /\ DOMAIN times = 1..Len(times)
      /\ IsFiniteSet(Late(times, start)) /\ Cardinality(Late(times, start)) \in Nat
  BY LateIsFinite
<1>2. CASE Len(times) <= n BY <1>1, <1>2 DEF Latest
<1>3. CASE ~(Len(times) <= n)
  <2> DEFINE d == Len(times) - n
             last == SubSeq(times, d + 1, Len(times))
             f == [i \in Late(last, start) |-> i + d]
  <2>1. d \in Nat /\ d > 0 /\ d + n = Len(times) BY <1>1, <1>3
  <2>2. Latest(times, n) = last BY <1>1, <1>3 DEF Latest
  <2> HIDE DEF d
  <2>3. last \in Times /\ Len(last) = n /\ \A i \in 1..n : last[i] = times[i + d] /\ i + d \in 1..Len(times)
    <3>1. PICK l \in Nat, m \in Nat : l = Len(times) /\ m = d + 1 /\ d + n = l
      <4>1. d + 1 \in Nat BY <2>1
      <4>2. d + n = Len(times) /\ Len(times) \in Nat BY <1>1, <2>1
      <4> QED BY <4>1, <4>2, Zenon
    <3>a. l - m + 1 = n /\ (n = 0 <=> ~(m <= l)) BY <2>1, <3>1
    <3>b. \A i \in m..l : times[i] \in Nat
      <4>1. \A i \in m..l : i \in 1..l BY <3>1, <2>1
      <4> QED BY <3>1, <4>1 DEF Times
    <3>c. /\ last \in Seq(Nat) /\ Len(last) = n
          /\ \A i \in 1..n : last[i] = times[m + i - 1]
      <4>1. last = SubSeq(times, m, l) BY <3>1
      <4>2. m \in Int /\ l \in Int OBVIOUS
      <4>3. /\ SubSeq(times, m, l) \in Seq(Nat)
            /\ Len(SubSeq(times, m, l)) = IF m <= l THEN l - m + 1 ELSE 0
            /\ \A i \in 1..(l - m + 1) : SubSeq(times, m, l)[i] = times[m + i - 1]
        BY <3>b, <4>2, SubSeqProperties
      <4> QED BY <3>a, <4>1, <4>3
    <3>3. \A i \in 1..n : m + i - 1 = i + d /\ i + d \in 1..Len(times) BY <1>1, <2>1, <3>1
    <3> QED BY <3>c, <3>3 DEF Times
  <2> HIDE DEF last
  <2>4. DOMAIN last = 1..n BY <2>3, LateIsFinite
  <2>5. \A i \in Late(last, start) : i \in 1..n /\ i + d \in Late(times, start)
    BY <1>1, <2>3, <2>4 DEF Late
  <2>6. \A i, j \in 1..n : i + d = j + d => i = j BY <2>1
  <2>7. f \in Injection(Late(last, start), Late(times, start))
    <3>1. f \in [Late(last, start) -> Late(times, start)] BY <2>5
    <3>2. \A i, j \in Late(last, start) : f[i] = f[j] => i = j BY <2>5, <2>6
    <3> QED BY <3>1, <3>2 DEF Injection, IsInjective
  <2>8. Cardinality(Late(last, start)) <= Cardinality(Late(times, start))
    BY <1>1, <2>7, FS_Injection
  <2> QED BY <2>2, <2>3, <2>8
<1> QED BY <1>2, <1>3

KeptNext(before, t, start) == IF t >= start THEN Append(before, t) ELSE before

KeptAlong(kept, times, start, n) ==
  kept = [i \in 0..n |-> IF i = 0 THEN <<>>
                         ELSE IF times[i] >= start THEN Append(kept[i - 1], times[i]) ELSE kept[i - 1]]

\* The function that StillRecent defines by recursion exists.
LEMMA KeptExists ==
  ASSUME NEW times, NEW start
  PROVE  \A n \in Nat : \E kept : KeptAlong(kept, times, start, n)
<1> DEFINE S == {n \in Nat : \E kept : KeptAlong(kept, times, start, n)}
<1>1. 0 \in S
  <2>1. KeptAlong([i \in 0..0 |-> <<>>], times, start, 0) BY DEF KeptAlong
  <2> QED BY <2>1
<1>2. ASSUME NEW n \in Nat, n \in S PROVE n + 1 \in S
  <2>1. PICK kept : KeptAlong(kept, times, start, n) BY <1>2
  <2> DEFINE more == [i \in 0..n + 1 |-> IF i = n + 1 THEN KeptNext(kept[n], times[n + 1], start)
                                         ELSE kept[i]]
  <2>2. \A i \in 0..n : more[i] = kept[i] OBVIOUS
  <2>3. \A i \in 0..n : kept[i] = IF i = 0 THEN <<>> ELSE KeptNext(kept[i - 1], times[i], start)
    BY <2>1 DEF KeptAlong, KeptNext
  <2>4. ASSUME NEW i \in 0..n + 1
        PROVE  more[i] = IF i = 0 THEN <<>> ELSE KeptNext(more[i - 1], times[i], start)
    <3>1. CASE i = n + 1 BY <3>1, <2>2
    <3>2. CASE i # n + 1 BY <3>2, <2>2, <2>3
    <3> QED BY <3>1, <3>2
  <2>5. KeptAlong(more, times, start, n + 1) BY <2>4 DEF KeptAlong, KeptNext
  <2> QED BY <2>5
<1> HIDE DEF S
<1>3. Nat \subseteq S BY <1>1, <1>2, SetInduction
<1> QED BY <1>3 DEF S

LEMMA StillRecentIs ==
  ASSUME NEW times \in Times, NEW start
  PROVE  \E kept : /\ StillRecent(times, start) = kept[Len(times)] /\ kept[0] = <<>>
                   /\ \A i \in 1..Len(times) : kept[i] = KeptNext(kept[i - 1], times[i], start)
<1> DEFINE kept == CHOOSE kept : KeptAlong(kept, times, start, Len(times))
<1>0. Len(times) \in Nat BY DEF Times
<1>1. KeptAlong(kept, times, start, Len(times))
  <2>2. \E f : KeptAlong(f, times, start, Len(times)) BY <1>0, KeptExists
  <2> QED BY <2>2
<1>2. StillRecent(times, start) = kept[Len(times)] BY DEF StillRecent, KeptAlong
<1> HIDE DEF kept
<1>3. \A i \in 0..Len(times) :
        kept[i] = IF i = 0 THEN <<>> ELSE KeptNext(kept[i - 1], times[i], start)
  BY <1>1 DEF KeptAlong, KeptNext
<1>4. kept[0] = <<>> /\ \A i \in 1..Len(times) : kept[i] = KeptNext(kept[i - 1], times[i], start)
  <2>1. 0 \in 0..Len(times) /\ \A i \in 1..Len(times) : i \in 0..Len(times) /\ i # 0 BY <1>0
  <2> QED BY <1>3, <2>1
<1> QED BY <1>2, <1>4

\* What is still recent is not older than the window, and of any time on no
\* more than the list held.
Keeps(kept, times, start, n) ==
  /\ kept \in Times /\ \A i \in DOMAIN kept : kept[i] >= start
  /\ \A since \in Int : Cardinality(Late(kept, since)) <= Cardinality(Late(times, since) \cap (1..n))

LEMMA StillRecentKeeps ==
  ASSUME NEW times \in Times, NEW start \in Int
  PROVE  /\ StillRecent(times, start) \in Times
         /\ \A i \in DOMAIN StillRecent(times, start) : StillRecent(times, start)[i] >= start
         /\ \A since \in Int :
              Cardinality(Late(StillRecent(times, start), since)) <= Cardinality(Late(times, since))
<1>0. Len(times) \in Nat /\ DOMAIN times = 1..Len(times) BY DEF Times
<1>1. PICK kept : /\ StillRecent(times, start) = kept[Len(times)] /\ kept[0] = <<>>
                  /\ \A i \in 1..Len(times) : kept[i] = KeptNext(kept[i - 1], times[i], start)
  BY StillRecentIs
<1> DEFINE S == {n \in Nat : n <= Len(times) => Keeps(kept[n], times, start, n)}
<1>2. 0 \in S
  <2> DEFINE none == <<>>
  <2>1. none \in Times /\ DOMAIN none = {} BY DEF Times
  <2> HIDE DEF none
  <2>2. ASSUME NEW since \in Int
        PROVE  Cardinality(Late(none, since)) <= Cardinality(Late(times, since) \cap (1..0))
    <3>1. Late(none, since) = {} /\ Late(times, since) \cap (1..0) = {} BY <2>1 DEF Late
    <3> QED BY <3>1, FS_EmptySet
  <2>3. kept[0] = none BY <1>1 DEF none
  <2> QED BY <2>1, <2>2, <2>3 DEF Keeps
<1>3. ASSUME NEW n \in Nat, n \in S PROVE n + 1 \in S
  <2> SUFFICES ASSUME n + 1 <= Len(times) PROVE Keeps(kept[n + 1], times, start, n + 1) OBVIOUS
  <2>1. Keeps(kept[n], times, start, n) BY <1>3
  <2> DEFINE before == kept[n]
             t == times[n + 1]
  <2>2. n + 1 \in 1..Len(times) /\ n + 1 - 1 = n OBVIOUS
  <2>3. kept[n + 1] = KeptNext(before, t, start) /\ t \in Nat BY <1>1, <2>2 DEF Times
  <2>4. before \in Times BY <2>1 DEF Keeps
  <2>5. ASSUME NEW since \in Int
        PROVE  /\ Cardinality(Late(times, since) \cap (1..n)) \in Nat
               /\ Cardinality(Late(times, since) \cap (1..(n + 1)))
                    = Cardinality(Late(times, since) \cap (1..n)) + (IF t >= since THEN 1 ELSE 0)
    <3> DEFINE A == Late(times, since) \cap (1..n)
               B == Late(times, since) \cap (1..(n + 1))
    <3>1. IsFiniteSet(A) BY LateIsFinite, FS_Subset
    <3>2. Cardinality(A) \in Nat BY <3>1, FS_CardinalityType
    <3>3. n + 1 \notin A OBVIOUS
    <3>4. CASE t >= since
      <4>1. B = A \cup {n + 1} BY <1>0, <2>2, <3>4 DEF Late
      <4> HIDE DEF A, B
      <4>2. Cardinality(B) = Cardinality(A) + 1 BY <3>1, <3>3, <4>1, FS_AddElement
      <4> QED BY <3>2, <3>4, <4>2 DEF A, B
    <3>5. CASE ~(t >= since)
      <4>1. B = A BY <1>0, <2>2, <3>5 DEF Late
      <4> HIDE DEF A, B
      <4>2. Cardinality(B) = Cardinality(A) + 0 BY <3>2, <4>1
      <4> QED BY <3>2, <3>5, <4>2 DEF A, B
    <3> QED BY <3>4, <3>5
  <2> HIDE DEF before, t
  <2>6. CASE t >= start
    <3>1. kept[n + 1] = Append(before, t) BY <2>3, <2>6 DEF KeptNext
    <3>2. Append(before, t) \in Times BY <2>3, <2>4, OneMoreLate
    <3>3. \A i \in DOMAIN Append(before, t) : Append(before, t)[i] >= start
      <4>1. \A i \in DOMAIN before : before[i] >= start BY <2>1 DEF Keeps, before
      <4> QED BY <2>3, <2>4, <2>6, <4>1 DEF Times
    <3>4. ASSUME NEW since \in Int
          PROVE  Cardinality(Late(Append(before, t), since)) <= Cardinality(Late(times, since) \cap (1..(n + 1)))
      <4>1. Cardinality(Late(before, since)) <= Cardinality(Late(times, since) \cap (1..n))
        BY <2>1 DEF Keeps, before
      <4>2. Cardinality(Late(before, since)) \in Nat BY <2>4, LateIsFinite
      <4>3. Cardinality(Late(Append(before, t), since))
              = Cardinality(Late(before, since)) + (IF t >= since THEN 1 ELSE 0)
        BY <2>3, <2>4, OneMoreLate
      <4> QED BY <2>5, <4>1, <4>2, <4>3
    <3> QED BY <3>1, <3>2, <3>3, <3>4 DEF Keeps
  <2>7. CASE ~(t >= start)
    <3>1. kept[n + 1] = before BY <2>3, <2>7 DEF KeptNext
    <3>2. ASSUME NEW since \in Int
          PROVE  Cardinality(Late(before, since)) <= Cardinality(Late(times, since) \cap (1..(n + 1)))
      <4>1. Cardinality(Late(before, since)) <= Cardinality(Late(times, since) \cap (1..n))
        BY <2>1 DEF Keeps, before
      <4>2. Cardinality(Late(before, since)) \in Nat BY <2>4, LateIsFinite
      <4> QED BY <2>5, <4>1, <4>2
    <3> QED BY <2>1, <3>1, <3>2 DEF Keeps, before
  <2> QED BY <2>6, <2>7
<1> HIDE DEF S
<1>4. Nat \subseteq S BY <1>2, <1>3, SetInduction
<1>5. Keeps(kept[Len(times)], times, start, Len(times)) BY <1>0, <1>4 DEF S
<1>6. \A since \in Int : Late(times, since) \cap (1..Len(times)) = Late(times, since)
  BY <1>0 DEF Late
<1> QED BY <1>1, <1>5, <1>6 DEF Keeps

-----------------------------------------------------------------------------
(* Marks: the history of failures                                          *)

AtTime(marks, t) == {m \in marks : m[1] = t}

\* Of each time the marks are numbered without a gap.
WellMarked(marks) ==
  /\ marks \in SUBSET (Nat \X (Nat \ {0})) /\ IsFiniteSet(marks)
  /\ \A m \in marks : m[2] <= Cardinality(AtTime(marks, m[1]))

LEMMA MarksAreFinite ==
  ASSUME NEW marks, WellMarked(marks), NEW t
  PROVE  /\ IsFiniteSet(AtTime(marks, t)) /\ Cardinality(AtTime(marks, t)) \in Nat
         /\ IsFiniteSet(MarkedSince(marks, t)) /\ Cardinality(MarkedSince(marks, t)) \in Nat
<1>1. AtTime(marks, t) \in SUBSET marks /\ MarkedSince(marks, t) \in SUBSET marks
  BY DEF AtTime, MarkedSince
<1>2. IsFiniteSet(AtTime(marks, t)) /\ IsFiniteSet(MarkedSince(marks, t))
  BY <1>1, FS_Subset DEF WellMarked
<1> QED BY <1>2, FS_CardinalityType

\* A failure is one more, of every time that is not after it, unless there are
\* enough of its own time already.
LEMMA OneMoreMissed ==
  ASSUME NEW marks, WellMarked(marks), NEW now \in Nat
  PROVE  /\ WellMarked(Missed(marks, now)) /\ marks \subseteq Missed(marks, now)
         /\ \A since \in Int : now >= since =>
              \/ Cardinality(MarkedSince(Missed(marks, now), since))
                   >= Cardinality(MarkedSince(marks, since)) + 1
              \/ Cardinality(MarkedSince(Missed(marks, now), since)) >= MaxFailures
<1> DEFINE n == Cardinality(AtTime(marks, now))
           more == Missed(marks, now)
<1>0. MaxFailures \in Nat BY AuthAssumption
<1>1. n \in Nat BY MarksAreFinite
<1>2. more = IF n < MaxFailures THEN marks \cup {<<now, n + 1>>} ELSE marks BY DEF Missed, AtTime
<1>3. CASE n < MaxFailures
  <2> DEFINE m == <<now, n + 1>>
  <2>1. m \notin marks
    <3>1. SUFFICES ASSUME m \in marks PROVE FALSE OBVIOUS
    <3>2. m[2] = n + 1 /\ m[1] = now OBVIOUS
    <3>3. n + 1 <= n BY <3>1, <3>2 DEF WellMarked
    <3> QED BY <1>1, <3>3
  <2>2. m \in Nat \X (Nat \ {0}) /\ m[1] = now /\ m[2] = n + 1 BY <1>1
  <2>3. more = marks \cup {m} BY <1>2, <1>3
  <2>4. AtTime(marks, now) \cup {m} = AtTime(more, now) BY <2>2, <2>3 DEF AtTime
  <2>5. Cardinality(AtTime(more, now)) = n + 1
    <3>1. m \notin AtTime(marks, now) /\ IsFiniteSet(AtTime(marks, now))
      BY <2>1, MarksAreFinite DEF AtTime
    <3> QED BY <2>4, <3>1, FS_AddElement
  <2> HIDE DEF m, more, n
  <2>6. IsFiniteSet(more) BY <2>3, FS_AddElement DEF WellMarked
  <2>7. ASSUME NEW x \in more PROVE x[2] <= Cardinality(AtTime(more, x[1]))
    <3>1. CASE x = m BY <1>1, <2>2, <2>5, <3>1
    <3>2. CASE x # m /\ x[1] = now
      <4>1. x \in marks /\ x[2] \in Nat BY <2>3, <3>2 DEF WellMarked
      <4>2. x[2] <= n BY <3>2, <4>1 DEF WellMarked, n
      <4> QED BY <1>1, <2>5, <3>2, <4>1, <4>2
    <3>3. CASE x # m /\ x[1] # now
      <4>1. x \in marks BY <2>3, <3>3
      <4>2. AtTime(more, x[1]) = AtTime(marks, x[1]) BY <2>2, <2>3, <3>3 DEF AtTime
      <4> QED BY <4>1, <4>2 DEF WellMarked
    <3> QED BY <3>1, <3>2, <3>3
  <2>8. WellMarked(more) BY <2>2, <2>3, <2>6, <2>7 DEF WellMarked
  <2>9. ASSUME NEW since \in Int, now >= since
        PROVE  Cardinality(MarkedSince(more, since)) >= Cardinality(MarkedSince(marks, since)) + 1
    <3>1. MarkedSince(more, since) = MarkedSince(marks, since) \cup {m}
      BY <2>2, <2>3, <2>9 DEF MarkedSince
    <3>2. m \notin MarkedSince(marks, since) BY <2>1 DEF MarkedSince
    <3>3. IsFiniteSet(MarkedSince(marks, since)) /\ Cardinality(MarkedSince(marks, since)) \in Nat
      BY MarksAreFinite
    <3>4. Cardinality(MarkedSince(more, since)) = Cardinality(MarkedSince(marks, since)) + 1
      BY <3>1, <3>2, <3>3, FS_AddElement
    <3> QED BY <3>3, <3>4
  <2> QED BY <2>3, <2>8, <2>9 DEF more
<1>4. CASE ~(n < MaxFailures)
  <2>1. more = marks BY <1>2, <1>4
  <2>2. ASSUME NEW since \in Int, now >= since
        PROVE  Cardinality(MarkedSince(marks, since)) >= MaxFailures
    <3>1. AtTime(marks, now) \in SUBSET MarkedSince(marks, since)
      BY <2>2 DEF AtTime, MarkedSince
    <3>2. IsFiniteSet(MarkedSince(marks, since)) /\ Cardinality(MarkedSince(marks, since)) \in Nat
      BY MarksAreFinite
    <3>3. n <= Cardinality(MarkedSince(marks, since)) BY <3>1, <3>2, FS_Subset
    <3> HIDE DEF n
    <3> QED BY <1>0, <1>1, <1>4, <3>2, <3>3
  <2> QED BY <2>1, <2>2
<1> QED BY <1>3, <1>4

\* Marks that are only added to are no fewer, of any time.
LEMMA MarksGrow ==
  ASSUME NEW marks, NEW more, WellMarked(more), marks \subseteq more, NEW since
  PROVE  Cardinality(MarkedSince(marks, since)) <= Cardinality(MarkedSince(more, since))
<1>1. MarkedSince(marks, since) \in SUBSET MarkedSince(more, since) BY DEF MarkedSince
<1>2. IsFiniteSet(MarkedSince(more, since)) BY MarksAreFinite
<1> QED BY <1>1, <1>2, FS_Subset

\* Every time a list still holds is marked, until there are enough.
Backed(times, marks) ==
  \A since \in Int : \/ Cardinality(Late(times, since)) <= Cardinality(MarkedSince(marks, since))
                     \/ Cardinality(MarkedSince(marks, since)) >= MaxFailures

LEMMA FewerAreBacked ==
  ASSUME NEW times \in Times, NEW fewer \in Times, NEW marks, WellMarked(marks), Backed(times, marks),
         \A since \in Int : Cardinality(Late(fewer, since)) <= Cardinality(Late(times, since))
  PROVE  Backed(fewer, marks)
<1> SUFFICES ASSUME NEW since \in Int
             PROVE  \/ Cardinality(Late(fewer, since)) <= Cardinality(MarkedSince(marks, since))
                    \/ Cardinality(MarkedSince(marks, since)) >= MaxFailures
  BY DEF Backed
<1>1. /\ Cardinality(Late(fewer, since)) \in Nat /\ Cardinality(Late(times, since)) \in Nat
      /\ Cardinality(MarkedSince(marks, since)) \in Nat
  BY LateIsFinite, MarksAreFinite
<1>2. Cardinality(Late(fewer, since)) <= Cardinality(Late(times, since)) OBVIOUS
<1>3. \/ Cardinality(Late(times, since)) <= Cardinality(MarkedSince(marks, since))
      \/ Cardinality(MarkedSince(marks, since)) >= MaxFailures
  BY DEF Backed
<1>4. \A x, y, z \in Nat : x <= y /\ y <= z => x <= z OBVIOUS
<1> QED BY <1>1, <1>2, <1>3, <1>4, Zenon

LEMMA OneMoreIsBacked ==
  ASSUME NEW times \in Times, NEW marks, WellMarked(marks), Backed(times, marks), NEW now \in Nat
  PROVE  Backed(Append(times, now), Missed(marks, now))
<1> DEFINE more == Append(times, now)
           after == Missed(marks, now)
<1> SUFFICES ASSUME NEW since \in Int
             PROVE  \/ Cardinality(Late(more, since)) <= Cardinality(MarkedSince(after, since))
                    \/ Cardinality(MarkedSince(after, since)) >= MaxFailures
  BY DEF Backed
<1>0. MaxFailures \in Nat BY AuthAssumption
<1>1. WellMarked(after) /\ marks \subseteq after BY OneMoreMissed
<1>2. /\ Cardinality(Late(times, since)) \in Nat
      /\ Cardinality(MarkedSince(marks, since)) \in Nat /\ Cardinality(MarkedSince(after, since)) \in Nat
  BY <1>1, LateIsFinite, MarksAreFinite
<1>3. Cardinality(MarkedSince(marks, since)) <= Cardinality(MarkedSince(after, since))
  BY <1>1, MarksGrow
<1>4. \/ Cardinality(Late(times, since)) <= Cardinality(MarkedSince(marks, since))
      \/ Cardinality(MarkedSince(marks, since)) >= MaxFailures
  BY DEF Backed
<1>5. Cardinality(Late(more, since)) = Cardinality(Late(times, since)) + (IF now >= since THEN 1 ELSE 0)
  BY OneMoreLate
<1>6. now >= since => \/ Cardinality(MarkedSince(after, since)) >= Cardinality(MarkedSince(marks, since)) + 1
                      \/ Cardinality(MarkedSince(after, since)) >= MaxFailures
  BY OneMoreMissed
<1> HIDE DEF more, after
<1> QED BY <1>0, <1>2, <1>3, <1>4, <1>5, <1>6

\* A list that is long enough and recent was earned.
LEMMA FullIsEarned ==
  ASSUME NEW times \in Times, NEW marks, WellMarked(marks), Backed(times, marks), NEW start \in Int,
         \A i \in DOMAIN times : times[i] >= start, Len(times) >= MaxFailures
  PROVE  Cardinality(MarkedSince(marks, start)) >= MaxFailures
<1>1. Late(times, start) = 1..Len(times) /\ Len(times) \in Nat BY LateIsFinite DEF Late
<1>2. Cardinality(Late(times, start)) = Len(times)
  <2>1. \A n \in Nat : Cardinality(1..n) = n
    <3>1. ASSUME NEW n \in Nat PROVE Cardinality(1..n) = IF 1 > n THEN 0 ELSE n - 1 + 1 BY FS_Interval
    <3>2. \A n \in Nat : (IF 1 > n THEN 0 ELSE n - 1 + 1) = n OBVIOUS
    <3> QED BY <3>1, <3>2, Zenon
  <2> QED BY <1>1, <2>1, Zenon
<1>3. Cardinality(MarkedSince(marks, start)) \in Nat /\ MaxFailures \in Nat
  BY MarksAreFinite, AuthAssumption
<1>4. \/ Len(times) <= Cardinality(MarkedSince(marks, start))
      \/ Cardinality(MarkedSince(marks, start)) >= MaxFailures
  BY <1>2 DEF Backed
<1>5. \A x, y, z \in Nat : y >= z /\ y <= x => x >= z OBVIOUS
<1> QED BY <1>1, <1>3, <1>4, <1>5, Zenon

-----------------------------------------------------------------------------
(* Lists and lockouts                                                      *)

Earned(marks, until) == Cardinality(MarkedSince(marks, until - Lockout - Window)) >= MaxFailures

\* What is on the lists is marked, and each lockout has a list and was earned.
Backing(lists, locks, marks) ==
  /\ IsFiniteSet(DOMAIN lists) /\ DOMAIN lists \subseteq Accounts /\ DOMAIN locks \subseteq DOMAIN lists
  /\ \A k \in Accounts : WellMarked(marks[k])
  /\ \A k \in DOMAIN lists : lists[k] \in Times /\ Backed(lists[k], marks[k])
  /\ \A k \in DOMAIN locks : locks[k] \in Nat /\ Earned(marks[k], locks[k])

LEMMA LockedFromNow ==
  ASSUME NEW marks, NEW now \in Nat, NEW start, start = now - Window,
         Cardinality(MarkedSince(marks, start)) >= MaxFailures
  PROVE  Earned(marks, now + Lockout)
<1>1. Lockout \in Nat /\ Window \in Nat BY AuthAssumption
<1>2. (now + Lockout) - Lockout - Window = now - Window BY <1>1
<1>3. Cardinality(MarkedSince(marks, now - Window)) >= MaxFailures BY Zenon
<1> QED BY <1>2, <1>3, Zenon DEF Earned

LEMMA FewerListsBacked ==
  ASSUME NEW lists, NEW locks, NEW marks, Backing(lists, locks, marks), NEW gone
  PROVE  Backing(Without(lists, gone), Without(locks, gone), marks)
<1> DEFINE l == Without(lists, gone)
           k == Without(locks, gone)
<1>1. DOMAIN l = DOMAIN lists \ gone /\ \A x \in DOMAIN l : l[x] = lists[x] BY DEF Without
<1>2. DOMAIN k = DOMAIN locks \ gone /\ \A x \in DOMAIN k : k[x] = locks[x] BY DEF Without
<1> HIDE DEF l, k
<1>3. IsFiniteSet(DOMAIN l)
  <2>1. DOMAIN l \in SUBSET DOMAIN lists BY <1>1
  <2> QED BY <2>1, FS_Subset DEF Backing
<1>4. Backing(l, k, marks) BY <1>1, <1>2, <1>3 DEF Backing
<1> QED BY <1>4 DEF l, k

\* A list and a lockout are put in when the marks of the key back them.
LEMMA OneMoreListBacked ==
  ASSUME NEW lists, NEW locks, NEW marks, Backing(lists, locks, marks),
         NEW key \in Accounts, NEW times \in Times, NEW more, NEW after, NEW until \in Nat,
         marks[key] \subseteq after[key], WellMarked(after[key]),
         \A k \in Accounts : k # key => after[k] = marks[k],
         Backed(times, after[key]),
         more = locks \/ (more = With(locks, key, until) /\ Earned(after[key], until))
  PROVE  Backing(With(lists, key, times), more, after)
<1> DEFINE l == With(lists, key, times)
<1>1. DOMAIN l = DOMAIN lists \cup {key} /\ l[key] = times
      /\ \A x \in DOMAIN lists : x # key => l[x] = lists[x]
  BY DEF With
<1>2. /\ DOMAIN more = DOMAIN locks \/ DOMAIN more = DOMAIN locks \cup {key}
      /\ \A x \in DOMAIN locks : x # key => more[x] = locks[x]
      /\ key \in DOMAIN more =>
           \/ key \in DOMAIN locks /\ more[key] = locks[key]
           \/ more[key] = until /\ Earned(after[key], until)
  BY DEF With
<1> HIDE DEF l
<1>3. IsFiniteSet(DOMAIN l) BY <1>1, FS_AddElement DEF Backing
<1>4. ASSUME NEW until1 \in Nat, Earned(marks[key], until1) PROVE Earned(after[key], until1)
  <2>1. PICK since : since = until1 - Lockout - Window OBVIOUS
  <2>1a. since \in Int BY <2>1, AuthAssumption
  <2>2. Cardinality(MarkedSince(marks[key], since)) <= Cardinality(MarkedSince(after[key], since))
    BY MarksGrow
  <2>3. /\ Cardinality(MarkedSince(marks[key], since)) \in Nat
        /\ Cardinality(MarkedSince(after[key], since)) \in Nat /\ MaxFailures \in Nat
    BY MarksAreFinite, AuthAssumption DEF Backing
  <2>4. Cardinality(MarkedSince(marks[key], since)) >= MaxFailures BY <1>4, <2>1 DEF Earned
  <2>5. \A x, y, z \in Nat : x <= y /\ x >= z => y >= z OBVIOUS
  <2>6. Cardinality(MarkedSince(after[key], since)) >= MaxFailures BY <2>2, <2>3, <2>4, <2>5, Zenon
  <2> QED BY <2>1, <2>6 DEF Earned
<1>5. ASSUME NEW k \in DOMAIN more PROVE more[k] \in Nat /\ Earned(after[k], more[k])
  <2>1. CASE k = key
    <3>1. CASE key \in DOMAIN locks /\ more[key] = locks[key]
      <4>1. locks[key] \in Nat /\ Earned(marks[key], locks[key]) BY <3>1 DEF Backing
      <4> QED BY <1>4, <2>1, <3>1, <4>1
    <3> QED BY <1>2, <1>5, <2>1, <3>1
  <2>2. CASE k # key
    <3>1. k \in DOMAIN locks /\ more[k] = locks[k] BY <1>2, <2>2
    <3>2. k \in Accounts BY <3>1 DEF Backing
    <3>3. after[k] = marks[k] BY <2>2, <3>2
    <3> QED BY <3>1, <3>3 DEF Backing
  <2> QED BY <2>1, <2>2
<1>6. ASSUME NEW k \in DOMAIN l PROVE l[k] \in Times /\ Backed(l[k], after[k])
  BY <1>1 DEF Backing
<1>7. Backing(l, more, after) BY <1>1, <1>2, <1>3, <1>5, <1>6 DEF Backing
<1> QED BY <1>7 DEF l

\* The lists do not outgrow their limit: one goes when there is one too many.
LEMMA OverflowIsEnough ==
  ASSUME NEW lists, NEW key, NEW times, IsFiniteSet(DOMAIN lists), Cardinality(DOMAIN lists) <= MaxKeys,
         NEW gone \in Overflow(With(lists, key, times))
  PROVE  Cardinality(DOMAIN Without(With(lists, key, times), gone)) <= MaxKeys
<1> DEFINE l == With(lists, key, times)
<1>1. DOMAIN l = DOMAIN lists \cup {key} BY DEF With
<1>2. DOMAIN Without(l, gone) = DOMAIN l \ gone BY DEF Without
<1> HIDE DEF l
<1>3. MaxKeys \in Nat /\ Cardinality(DOMAIN lists) \in Nat BY AuthAssumption, FS_CardinalityType
<1>4. IsFiniteSet(DOMAIN l) /\ (Cardinality(DOMAIN l) = Cardinality(DOMAIN lists)
                                \/ Cardinality(DOMAIN l) = Cardinality(DOMAIN lists) + 1)
  BY <1>1, FS_AddElement
<1>5. Cardinality(DOMAIN l) \in Nat /\ Cardinality(DOMAIN l) <= MaxKeys + 1 BY <1>3, <1>4
<1>6. CASE Cardinality(DOMAIN l) <= MaxKeys
  <2>1. gone = {} BY <1>6 DEF Overflow, l
  <2>2. DOMAIN Without(l, gone) = DOMAIN l BY <1>2, <2>1
  <2> QED BY <1>6, <2>2 DEF l
<1>7. CASE ~(Cardinality(DOMAIN l) <= MaxKeys)
  <2>1. PICK k \in DOMAIN l : gone = {k} BY <1>7 DEF Overflow, l
  <2>2. Cardinality(DOMAIN l \ {k}) = Cardinality(DOMAIN l) - 1 BY <1>4, FS_RemoveElement
  <2>3. Cardinality(DOMAIN l \ {k}) <= MaxKeys BY <1>3, <1>5, <2>2
  <2> QED BY <1>2, <2>1, <2>3 DEF l
<1> QED BY <1>6, <1>7

-----------------------------------------------------------------------------
(* Sessions                                                                *)

Live == [key : Accounts, created : Nat, expires : Nat]

\* A table of sessions that were made and not ended.
Table(table, made, over) ==
  /\ IsFiniteSet(DOMAIN table) /\ DOMAIN table \subseteq 1..made /\ DOMAIN table \cap over = {}
  /\ \A id \in DOMAIN table : table[id] \in Live

LEMMA FewerSessions ==
  ASSUME NEW table, NEW made, NEW over, Table(table, made, over), NEW fewer,
         DOMAIN fewer \subseteq DOMAIN table, \A id \in DOMAIN fewer : fewer[id] = table[id]
  PROVE  /\ Table(fewer, made, over) /\ Cardinality(DOMAIN table) \in Nat
         /\ Cardinality(DOMAIN fewer) \in Nat /\ Cardinality(DOMAIN fewer) <= Cardinality(DOMAIN table)
<1>1. DOMAIN fewer \in SUBSET DOMAIN table OBVIOUS
<1>2. IsFiniteSet(DOMAIN fewer) /\ Cardinality(DOMAIN fewer) <= Cardinality(DOMAIN table)
  BY <1>1, FS_Subset DEF Table
<1>3. Cardinality(DOMAIN fewer) \in Nat /\ Cardinality(DOMAIN table) \in Nat
  BY <1>2, FS_CardinalityType DEF Table
<1> QED BY <1>2, <1>3 DEF Table

\* So does a table without some of its sessions.
LEMMA WithoutSome ==
  ASSUME NEW table, NEW made, NEW over, Table(table, made, over), NEW gone
  PROVE  /\ Table(Without(table, gone), made, over) /\ Cardinality(DOMAIN table) \in Nat
         /\ Cardinality(DOMAIN Without(table, gone)) \in Nat
         /\ Cardinality(DOMAIN Without(table, gone)) <= Cardinality(DOMAIN table)
<1> DEFINE fewer == Without(table, gone)
<1>1. DOMAIN fewer \subseteq DOMAIN table /\ \A id \in DOMAIN fewer : fewer[id] = table[id]
  BY DEF Without
<1> HIDE DEF fewer
<1>2. Table(fewer, made, over) /\ Cardinality(DOMAIN table) \in Nat
      /\ Cardinality(DOMAIN fewer) \in Nat /\ Cardinality(DOMAIN fewer) <= Cardinality(DOMAIN table)
  BY <1>1, FewerSessions
<1> QED BY <1>2 DEF fewer

\* The newest stay, and they leave room for one more.
LEMMA RoomForOne ==
  ASSUME NEW live, NEW made \in Nat, NEW over, Table(live, made, over)
  PROVE  /\ DOMAIN LoggedIn(live) \subseteq DOMAIN live
         /\ \A id \in DOMAIN LoggedIn(live) : LoggedIn(live)[id] = live[id]
         /\ Cardinality(DOMAIN LoggedIn(live)) <= MaxSessions - 1
<1> DEFINE Older(x, y) == \/ live[x].created < live[y].created
                          \/ live[x].created = live[y].created /\ x < y
           pairs == (DOMAIN live) \X (DOMAIN live)
           younger == {p \in pairs : Older(p[2], p[1])}
           ahead(x) == {y \in DOMAIN live : <<y, x>> \in younger}
           keep == {x \in DOMAIN live : Cardinality(ahead(x)) < MaxSessions - 1}
<1>0. MaxSessions \in Nat /\ MaxSessions > 0 BY AuthAssumption
<1>a. ASSUME NEW x \in DOMAIN live, NEW y \in DOMAIN live
      PROVE  <<x, y>> \in younger <=> Older(y, x)
  <2>1. <<x, y>> \in pairs /\ <<x, y>>[1] = x /\ <<x, y>>[2] = y OBVIOUS
  <2> HIDE DEF pairs
  <2> QED BY <2>1
<1>1. \A x \in DOMAIN live : ahead(x) = {y \in DOMAIN live : Older(x, y)}
  <2> HIDE DEF Older, younger
  <2> QED BY <1>a
<1>2. LoggedIn(live) = [x \in keep |-> live[x]]
  <2>1. keep = {x \in DOMAIN live : Cardinality({y \in DOMAIN live : Older(x, y)}) < MaxSessions - 1}
    BY <1>1
  <2> HIDE DEF keep
  <2> QED BY <2>1 DEF LoggedIn
<1>3. \A x \in DOMAIN live : live[x].created \in Nat /\ x \in Nat BY DEF Table, Live
<1>4. Orders(younger, DOMAIN live)
  <2>1. \A x, y \in DOMAIN live : <<x, y>> \in younger <=> Older(y, x) BY <1>a
  <2> HIDE DEF younger
  <2>2. \A x \in DOMAIN live : <<x, x>> \notin younger BY <1>3, <2>1
  <2>3. \A x, y \in DOMAIN live : x # y => <<x, y>> \in younger \/ <<y, x>> \in younger BY <1>3, <2>1
  <2>4. \A x, y, z \in DOMAIN live : <<x, y>> \in younger /\ <<y, z>> \in younger => <<x, z>> \in younger
    BY <1>3, <2>1
  <2> QED BY <2>2, <2>3, <2>4 DEF Orders
<1>5. IsFiniteSet(DOMAIN live) BY DEF Table
<1> HIDE DEF younger
<1>6. /\ \A x \in DOMAIN live : Cardinality(ahead(x)) \in 0..(Cardinality(DOMAIN live) - 1)
      /\ \A x, y \in DOMAIN live : x # y => Cardinality(ahead(x)) # Cardinality(ahead(y))
  BY <1>4, <1>5, PlacesDiffer
<1> DEFINE place == [x \in keep |-> Cardinality(ahead(x)) + 1]
<1>7. Cardinality(keep) <= MaxSessions - 1
  <2>1. \A x \in DOMAIN live : Cardinality(ahead(x)) \in Nat BY <1>6
  <2>2. \A x \in keep : x \in DOMAIN live /\ Cardinality(ahead(x)) < MaxSessions - 1 OBVIOUS
  <2> HIDE DEF keep, ahead
  <2>3. place \in [keep -> 1..(MaxSessions - 1)] BY <1>0, <2>1, <2>2
  <2>4. \A x, y \in keep : place[x] = place[y] => x = y BY <1>6, <2>1, <2>2
  <2>5. place \in Injection(keep, 1..(MaxSessions - 1)) BY <2>3, <2>4 DEF Injection, IsInjective
  <2>6. MaxSessions - 1 \in Nat BY <1>0
  <2>7. \A n \in Nat : IsFiniteSet(1..n) /\ Cardinality(1..n) = n
    <3>1. ASSUME NEW n \in Nat
          PROVE  IsFiniteSet(1..n) /\ Cardinality(1..n) = IF 1 > n THEN 0 ELSE n - 1 + 1
      BY FS_Interval
    <3>2. \A n \in Nat : (IF 1 > n THEN 0 ELSE n - 1 + 1) = n OBVIOUS
    <3> QED BY <3>1, <3>2, Zenon
  <2>8. PICK n : n = MaxSessions - 1 OBVIOUS
  <2>9. IsFiniteSet(1..n) /\ Cardinality(1..n) = n BY <2>6, <2>7, <2>8
  <2>10. Cardinality(keep) <= Cardinality(1..n) BY <2>5, <2>8, <2>9, FS_Injection
  <2> QED BY <2>8, <2>9, <2>10
<1>8. keep \subseteq DOMAIN live OBVIOUS
<1> HIDE DEF keep
<1> QED BY <1>2, <1>7, <1>8

-----------------------------------------------------------------------------
(* Steps of the logins                                                     *)

LoginTypes ==
  /\ auth_clock \in Nat /\ logins \in Nat /\ ended \subseteq 1..logins
  /\ \A c \in Clients : login[c].at = "verify" => login[c].key \in Accounts /\ login[c].now \in Nat
  /\ DOMAIN missed = Accounts /\ DOMAIN login = Clients

LoginsInv ==
  /\ LoginTypes /\ Backing(login_failures, lockouts, missed) /\ Table(sessions, logins, ended)
  /\ Cardinality(DOMAIN sessions) <= MaxSessions /\ Cardinality(DOMAIN login_failures) <= MaxKeys
  /\ misled = FALSE

LEMMA NoTables ==
  ASSUME NEW made, NEW over
  PROVE  /\ Table(<<>>, made, over) /\ Backing(<<>>, <<>>, [k \in Accounts |-> {}])
         /\ Cardinality(DOMAIN <<>>) = 0 /\ DOMAIN <<>> = {}
<1> DEFINE none == <<>>
<1>1. DOMAIN none = {} /\ IsFiniteSet(DOMAIN none) /\ Cardinality(DOMAIN none) = 0 BY FS_EmptySet
<1> HIDE DEF none
<1>2. Table(none, made, over) BY <1>1 DEF Table
<1>3. WellMarked({}) BY FS_EmptySet DEF WellMarked
<1>4. Backing(none, none, [k \in Accounts |-> {}]) BY <1>1, <1>3 DEF Backing
<1> QED BY <1>1, <1>2, <1>4 DEF none

LEMMA LoginsStart == AuthInit => LoginsInv
<1> SUFFICES ASSUME AuthInit PROVE LoginsInv OBVIOUS
<1>1. /\ Table(sessions, logins, ended) /\ Backing(login_failures, lockouts, missed)
      /\ Cardinality(DOMAIN sessions) = 0 /\ Cardinality(DOMAIN login_failures) = 0
  BY NoTables DEF AuthInit
<1>2. LoginTypes BY DEF AuthInit, LoginTypes, Waiting
<1>3. MaxSessions \in Nat /\ MaxKeys \in Nat BY AuthAssumption
<1> QED BY <1>1, <1>2, <1>3 DEF LoginsInv, AuthInit

LEMMA BeginLoginKeeps ==
  ASSUME LoginsInv, NEW c \in Clients, NEW key \in Accounts, NEW good, BeginLogin(c, key, good)
  PROVE  LoginsInv'
<1> USE DEF LoginsInv, BeginLogin
<1>1. LoginTypes' BY DEF LoginTypes
<1> QED BY <1>1 DEF Backing, Table, Earned

LEMMA RecordFailureKeeps == ASSUME LoginsInv, NEW c \in Clients, RecordFailure(c) PROVE LoginsInv'
<1> USE DEF RecordFailure
<1>1. PICK key, now : key = login[c].key /\ now = login[c].now OBVIOUS
<1>2. key \in Accounts /\ now \in Nat BY <1>1 DEF LoginsInv, LoginTypes
<1>3. PICK kept : kept = Recent(key, now) OBVIOUS
<1>4. PICK recent, latest : recent = Append(kept, now) /\ latest = Latest(recent, MaxFailures) OBVIOUS
<1>5. PICK lists, locks : /\ lists = With(login_failures, key, latest)
                          /\ locks = IF Len(recent) >= MaxFailures
                                     THEN With(lockouts, key, now + Lockout) ELSE lockouts
  OBVIOUS
<1>6. PICK gone \in Overflow(lists) :
        login_failures' = Without(lists, gone) /\ lockouts' = Without(locks, gone)
  BY <1>1, <1>3, <1>4, <1>5
<1>7. missed' = [missed EXCEPT ![key] = Missed(@, now)] BY <1>1
<1>8. /\ login' = [login EXCEPT ![c] = Waiting]
      /\ UNCHANGED <<auth_clock, sessions, logins, ended, misled>>
  OBVIOUS
<1> USE DEF LoginsInv
<1>9. LoginTypes' BY <1>7, <1>8 DEF LoginTypes, Waiting
<1> DEFINE marks == missed[key]
<1>10. WellMarked(marks) /\ MaxFailures \in Nat /\ MaxFailures > 0 /\ Window \in Nat /\ Lockout \in Nat
  BY <1>2, AuthAssumption DEF Backing
<1>11. /\ missed'[key] = Missed(marks, now) /\ marks \subseteq Missed(marks, now)
       /\ WellMarked(Missed(marks, now)) /\ \A k \in Accounts : k # key => missed'[k] = missed[k]
  <2>1. DOMAIN missed = Accounts BY DEF LoginTypes
  <2>2. WellMarked(Missed(marks, now)) /\ marks \subseteq Missed(marks, now)
    BY <1>2, <1>10, OneMoreMissed
  <2> QED BY <1>2, <1>7, <2>1, <2>2
<1> HIDE DEF marks
<1>12. /\ kept \in Times /\ Backed(kept, marks) /\ \A i \in DOMAIN kept : kept[i] >= now - Window
  <2>1. CASE key \in DOMAIN login_failures
    <3>1. PICK times : times = login_failures[key] OBVIOUS
    <3>2. times \in Times /\ Backed(times, marks) BY <2>1, <3>1 DEF Backing, marks
    <3>3. kept = StillRecent(times, now - Window) BY <1>3, <2>1, <3>1 DEF Recent
    <3>4. now - Window \in Int BY <1>2, <1>10
    <3>5. /\ kept \in Times /\ \A i \in DOMAIN kept : kept[i] >= now - Window
          /\ \A since \in Int : Cardinality(Late(kept, since)) <= Cardinality(Late(times, since))
      BY <3>2, <3>3, <3>4, StillRecentKeeps
    <3> QED BY <1>10, <3>2, <3>5, FewerAreBacked
  <2>2. CASE key \notin DOMAIN login_failures
    <3>1. kept = <<>> /\ kept \in Times /\ DOMAIN kept = {} BY <1>3, <2>2 DEF Recent, Times
    <3>2. \A since \in Int : Late(kept, since) = {} BY <3>1 DEF Late
    <3>3. ASSUME NEW since \in Int
          PROVE  Cardinality(Late(kept, since)) <= Cardinality(MarkedSince(marks, since))
      <4>1. Cardinality(MarkedSince(marks, since)) \in Nat BY <1>10, MarksAreFinite
      <4>2. Cardinality(Late(kept, since)) = 0 BY <3>2, FS_EmptySet
      <4> QED BY <4>1, <4>2
    <3> QED BY <3>1, <3>3 DEF Backed
  <2> QED BY <2>1, <2>2
<1>13. /\ recent \in Times /\ Backed(recent, Missed(marks, now))
       /\ \A i \in DOMAIN recent : recent[i] >= now - Window
  <2>1. recent \in Times BY <1>2, <1>4, <1>12 DEF Times
  <2>2. Backed(recent, Missed(marks, now)) BY <1>2, <1>4, <1>10, <1>12, OneMoreIsBacked
  <2>3. now >= now - Window BY <1>2, <1>10
  <2>4. \A i \in DOMAIN recent : recent[i] = now \/ (i \in DOMAIN kept /\ recent[i] = kept[i])
    BY <1>2, <1>4, <1>12 DEF Times
  <2> QED BY <1>12, <2>1, <2>2, <2>3, <2>4
<1>14. latest \in Times /\ Backed(latest, Missed(marks, now))
  <2>1. latest \in Times BY <1>4, <1>10, <1>13, LatestIsLess
  <2>2. \A since \in Int : Cardinality(Late(latest, since)) <= Cardinality(Late(recent, since))
    BY <1>4, <1>10, <1>13, LatestIsLess
  <2> QED BY <1>11, <1>13, <2>1, <2>2, FewerAreBacked
<1>15. locks = lockouts \/ (locks = With(lockouts, key, now + Lockout)
                            /\ Earned(Missed(marks, now), now + Lockout))
  <2>1. ASSUME Len(recent) >= MaxFailures PROVE Earned(Missed(marks, now), now + Lockout)
    <3>1. PICK start : start = now - Window OBVIOUS
    <3>2. start \in Int BY <1>2, <1>10, <3>1
    <3>3. Cardinality(MarkedSince(Missed(marks, now), start)) >= MaxFailures
      BY <1>11, <1>13, <2>1, <3>1, <3>2, FullIsEarned
    <3> QED BY <1>2, <3>1, <3>3, LockedFromNow
  <2> QED BY <1>5, <2>1
<1>16. Backing(lists, locks, missed')
  <2>1. PICK until \in Nat : until = now + Lockout BY <1>2, <1>10
  <2>2. Backing(login_failures, lockouts, missed) OBVIOUS
  <2>3. locks = lockouts \/ (locks = With(lockouts, key, until) /\ Earned(missed'[key], until))
    BY <1>11, <1>15, <2>1
  <2>4. /\ missed[key] \subseteq missed'[key] /\ WellMarked(missed'[key])
        /\ \A k \in Accounts : k # key => missed'[k] = missed[k]
        /\ Backed(latest, missed'[key])
    BY <1>11, <1>14 DEF marks
  <2>5. PICK after : after = missed' OBVIOUS
  <2>6. Backing(With(login_failures, key, latest), locks, after)
    BY <1>2, <1>14, <2>2, <2>3, <2>4, <2>5, OneMoreListBacked
  <2> QED BY <1>5, <2>5, <2>6
<1>17. Backing(login_failures, lockouts, missed)'
  <2>1. Backing(Without(lists, gone), Without(locks, gone), missed') BY <1>16, FewerListsBacked
  <2> QED BY <1>6, <2>1 DEF Backing, Earned
<1>18. Cardinality(DOMAIN login_failures') <= MaxKeys
  <2>1. IsFiniteSet(DOMAIN login_failures) BY DEF Backing
  <2> QED BY <1>5, <1>6, <2>1, OverflowIsEnough
<1>19. Table(sessions, logins, ended)' BY <1>8 DEF Table
<1> QED BY <1>8, <1>9, <1>17, <1>18, <1>19

LEMMA AdmitKeeps == ASSUME LoginsInv, NEW c \in Clients, Admit(c) PROVE LoginsInv'
<1> USE DEF Admit
<1>1. PICK key, now : key = login[c].key /\ now = login[c].now OBVIOUS
<1>2. key \in Accounts /\ now \in Nat BY <1>1 DEF LoginsInv, LoginTypes
<1>3. PICK live, room, more :
        /\ live = Without(sessions, Expired(now)) /\ room = LoggedIn(live)
        /\ more = [key |-> key, created |-> now, expires |-> now + Ttl]
  OBVIOUS
<1>4. /\ login_failures' = Without(login_failures, {key}) /\ lockouts' = Without(lockouts, {key})
      /\ sessions' = With(room, logins + 1, more) /\ missed' = [missed EXCEPT ![key] = {}]
      /\ logins' = logins + 1 /\ login' = [login EXCEPT ![c] = Waiting]
      /\ UNCHANGED <<auth_clock, ended, misled>>
  BY <1>1, <1>3
<1> HIDE DEF Admit
<1> USE DEF LoginsInv
<1>5. LoginTypes'
  <2>1. logins' \in Nat /\ ended' \subseteq 1..logins' BY <1>4 DEF LoginTypes
  <2> QED BY <1>4, <2>1 DEF LoginTypes, Waiting
<1>6. Backing(login_failures, lockouts, missed)'
  <2> DEFINE l == Without(login_failures, {key})
             k == Without(lockouts, {key})
  <2>1. Backing(l, k, missed) BY FewerListsBacked
  <2>2. key \notin DOMAIN l /\ key \notin DOMAIN k BY DEF Without
  <2> HIDE DEF l, k
  <2>3. DOMAIN missed = Accounts BY DEF LoginTypes
  <2>4. PICK after : after = [missed EXCEPT ![key] = {}] OBVIOUS
  <2>5. after[key] = {} /\ \A x \in Accounts : x # key => after[x] = missed[x] BY <1>2, <2>3, <2>4
  <2>6. WellMarked({}) BY FS_EmptySet DEF WellMarked
  <2>7. \A x \in Accounts : WellMarked(after[x]) BY <2>1, <2>5, <2>6 DEF Backing
  <2>8. Backing(l, k, after) BY <2>1, <2>2, <2>5, <2>7 DEF Backing
  <2> QED BY <1>4, <2>4, <2>8 DEF Backing, Earned, l, k
<1>7. Cardinality(DOMAIN login_failures') <= MaxKeys
  <2>1. DOMAIN login_failures' \in SUBSET DOMAIN login_failures BY <1>4 DEF Without
  <2>2. IsFiniteSet(DOMAIN login_failures) BY DEF Backing
  <2>3. Cardinality(DOMAIN login_failures') <= Cardinality(DOMAIN login_failures)
        /\ Cardinality(DOMAIN login_failures') \in Nat /\ Cardinality(DOMAIN login_failures) \in Nat
    BY <2>1, <2>2, FS_Subset, FS_CardinalityType
  <2>4. MaxKeys \in Nat /\ Cardinality(DOMAIN login_failures) <= MaxKeys BY AuthAssumption
  <2>5. \A x, y, z \in Nat : x <= y /\ y <= z => x <= z OBVIOUS
  <2> QED BY <2>3, <2>4, <2>5, Zenon
<1>8. Table(sessions, logins, ended)' /\ Cardinality(DOMAIN sessions') <= MaxSessions
  <2>1. Table(live, logins, ended) BY <1>3, WithoutSome
  <2>2. /\ DOMAIN room \subseteq DOMAIN live /\ \A id \in DOMAIN room : room[id] = live[id]
        /\ Cardinality(DOMAIN room) <= MaxSessions - 1
    BY <1>3, <2>1, RoomForOne DEF LoginTypes
  <2>3. Table(room, logins, ended) /\ Cardinality(DOMAIN room) \in Nat BY <2>1, <2>2, FewerSessions
  <2>4. PICK new : new = logins + 1 OBVIOUS
  <2>5. /\ new \in Nat /\ new \notin 1..logins /\ 1..logins \subseteq 1..new /\ new \in 1..new
        /\ logins \in Nat
    BY <2>4 DEF LoginTypes
  <2>6. more \in Live BY <1>2, <1>3, AuthAssumption DEF Live
  <2>7. PICK all : all = With(room, new, more) OBVIOUS
  <2>8. /\ DOMAIN all = DOMAIN room \cup {new} /\ all[new] = more
        /\ \A id \in DOMAIN room : id # new => all[id] = room[id]
    BY <2>7 DEF With
  <2>9. new \notin DOMAIN room /\ new \notin ended BY <2>3, <2>5 DEF Table, LoginTypes
  <2>10. IsFiniteSet(DOMAIN all) /\ Cardinality(DOMAIN all) = Cardinality(DOMAIN room) + 1
    BY <2>3, <2>8, <2>9, FS_AddElement DEF Table
  <2>11. Table(all, new, ended) BY <2>3, <2>5, <2>6, <2>8, <2>9, <2>10 DEF Table
  <2>12. Cardinality(DOMAIN all) <= MaxSessions
    <3>1. MaxSessions \in Nat BY AuthAssumption
    <3> QED BY <2>2, <2>3, <2>10, <3>1
  <2> QED BY <1>4, <2>4, <2>7, <2>11, <2>12 DEF Table
<1> QED BY <1>4, <1>5, <1>6, <1>7, <1>8

\* A table that only loses sessions stays one, within its limit.
LEMMA FewerStay ==
  ASSUME LoginsInv, NEW gone, sessions' = Without(sessions, gone),
         UNCHANGED <<logins, ended>>
  PROVE  Table(sessions, logins, ended)' /\ Cardinality(DOMAIN sessions') <= MaxSessions
<1>1. Table(Without(sessions, gone), logins, ended)
      /\ Cardinality(DOMAIN Without(sessions, gone)) <= Cardinality(DOMAIN sessions)
      /\ Cardinality(DOMAIN Without(sessions, gone)) \in Nat /\ Cardinality(DOMAIN sessions) \in Nat
  BY WithoutSome DEF LoginsInv
<1>2. MaxSessions \in Nat /\ Cardinality(DOMAIN sessions) <= MaxSessions BY AuthAssumption DEF LoginsInv
<1>3. \A x, y, z \in Nat : x <= y /\ y <= z => x <= z OBVIOUS
<1>4. Cardinality(DOMAIN Without(sessions, gone)) <= MaxSessions BY <1>1, <1>2, <1>3, Zenon
<1> QED BY <1>1, <1>4 DEF Table

LEMMA AuthenticateKeeps ==
  ASSUME LoginsInv, NEW id, NEW expires, Authenticate(id, expires) PROVE LoginsInv'
<1> USE DEF Authenticate
<1>1. Table(sessions, logins, ended)' /\ Cardinality(DOMAIN sessions') <= MaxSessions BY FewerStay
<1>2. misled' = FALSE
  <2>1. SUFFICES ASSUME id \in DOMAIN sessions' PROVE id \notin ended /\ ~(sessions'[id].expires <= auth_clock)
    BY DEF LoginsInv
  <2>2. id \in DOMAIN sessions \ Expired(auth_clock) /\ sessions'[id] = sessions[id] BY <2>1 DEF Without
  <2> QED BY <2>2 DEF Expired, LoginsInv, Table
<1>3. LoginTypes' /\ Backing(login_failures, lockouts, missed)' /\ UNCHANGED login_failures
  BY DEF LoginsInv, LoginTypes, Backing, Earned
<1> QED BY <1>1, <1>2, <1>3 DEF LoginsInv

LEMMA LogoutKeeps == ASSUME LoginsInv, NEW id \in 1..logins, Logout(id) PROVE LoginsInv'
<1> USE DEF Logout, Revoked
<1>1. Table(Without(sessions, {id}), logins, ended)
  BY WithoutSome DEF LoginsInv
<1>2. Table(sessions, logins, ended)'
  <2>1. id \notin DOMAIN Without(sessions, {id}) BY DEF Without
  <2>2. DOMAIN Without(sessions, {id}) \cap (ended \cup {id}) = {} BY <1>1, <2>1 DEF Table
  <2> QED BY <1>1, <2>2 DEF Table
<1>3. Cardinality(DOMAIN sessions') <= MaxSessions
  <2>1. Cardinality(DOMAIN Without(sessions, {id})) <= Cardinality(DOMAIN sessions)
        /\ Cardinality(DOMAIN Without(sessions, {id})) \in Nat /\ Cardinality(DOMAIN sessions) \in Nat
    BY WithoutSome DEF LoginsInv
  <2>2. MaxSessions \in Nat /\ Cardinality(DOMAIN sessions) <= MaxSessions
    BY AuthAssumption DEF LoginsInv
  <2>3. \A x, y, z \in Nat : x <= y /\ y <= z => x <= z OBVIOUS
  <2> QED BY <2>1, <2>2, <2>3, Zenon
<1>4. LoginTypes' /\ Backing(login_failures, lockouts, missed)' /\ UNCHANGED <<login_failures, misled>>
  BY DEF LoginsInv, LoginTypes, Backing, Earned
<1> QED BY <1>2, <1>3, <1>4 DEF LoginsInv

LEMMA AuthRestartsKeeps == ASSUME LoginsInv, AuthRestarts PROVE LoginsInv'
<1> USE DEF AuthRestarts
<1>1. /\ Table(<<>>, logins, ended) /\ Backing(<<>>, <<>>, [k \in Accounts |-> {}])
      /\ Cardinality(DOMAIN <<>>) = 0
  BY NoTables
<1>2. Table(sessions, logins, ended)' /\ Backing(login_failures, lockouts, missed)'
  BY <1>1 DEF Table, Backing, Earned
<1>3. LoginTypes' BY DEF LoginsInv, LoginTypes, Waiting
<1>4. MaxSessions \in Nat /\ MaxKeys \in Nat BY AuthAssumption
<1>5. Cardinality(DOMAIN sessions') = 0 /\ Cardinality(DOMAIN login_failures') = 0 BY <1>1
<1> QED BY <1>2, <1>3, <1>4, <1>5 DEF LoginsInv

LEMMA AuthTickKeeps == ASSUME LoginsInv, AuthTick \/ UNCHANGED authVars PROVE LoginsInv'
<1>1. LoginTypes'
  <2>1. UNCHANGED <<login, logins, ended, missed>> BY DEF AuthTick, authVars
  <2>2. auth_clock' \in Nat BY DEF LoginsInv, LoginTypes, AuthTick, authVars
  <2> QED BY <2>1, <2>2 DEF LoginsInv, LoginTypes
<1>2. UNCHANGED <<login_failures, lockouts, missed, sessions, logins, ended, misled>>
  BY DEF AuthTick, authVars
<1> QED BY <1>1, <1>2 DEF LoginsInv, Backing, Table, Earned

LEMMA LoginsInvIsKept == LoginsInv /\ [AuthNext]_authVars => LoginsInv'
<1> SUFFICES ASSUME LoginsInv, [AuthNext]_authVars PROVE LoginsInv' OBVIOUS
<1>1. CASE \E c \in Clients, key \in Accounts, good \in {"yes", "no"} : BeginLogin(c, key, good)
  BY <1>1, BeginLoginKeeps
<1>2. CASE \E c \in Clients : RecordFailure(c) BY <1>2, RecordFailureKeeps
<1>3. CASE \E c \in Clients : Admit(c) BY <1>3, AdmitKeeps
<1>4. CASE \E id \in 1..logins :
             Authenticate(id, IF id \in DOMAIN sessions THEN sessions[id].expires ELSE MaxTime + Ttl)
  BY <1>4, AuthenticateKeeps
<1>5. CASE \E id \in 1..logins : Logout(id) BY <1>5, LogoutKeeps
<1>6. CASE AuthRestarts BY <1>6, AuthRestartsKeeps
<1>7. CASE AuthTick \/ UNCHANGED authVars BY <1>7, AuthTickKeeps
<1> QED BY <1>1, <1>2, <1>3, <1>4, <1>5, <1>6, <1>7 DEF AuthNext

LEMMA LoginsInvIsSound == LoginsInv => LoginsAreSound
<1> SUFFICES ASSUME LoginsInv PROVE LoginsAreSound OBVIOUS
<1>1. LockoutsAreEarned
  <2>1. \A k \in DOMAIN lockouts : Earned(missed[k], lockouts[k]) /\ k \in DOMAIN login_failures
    BY DEF LoginsInv, Backing
  <2> QED BY <2>1 DEF LockoutsAreEarned, Earned, MarkedSince
<1>2. SessionsAreLive BY DEF LoginsInv, SessionsAreLive, Table
<1> QED BY <1>1, <1>2 DEF LoginsAreSound

\* A lockout is earned and the tables stay within their limits, whatever slow
\* logins overtake each other, for any number of threads, accounts, failures
\* and sessions (packages.api.auth_service).
THEOREM LoginsAreSoundHolds == AuthSpec => []LoginsAreSound
<1> QED BY LoginsStart, LoginsInvIsKept, LoginsInvIsSound, PTL DEF AuthSpec

(***************************************************************************)
(* LongTermMemory: what people confirmed is kept, for any number of        *)
(* threads and processes, of names and spellings, of writes that raise and *)
(* of crashes.                                                             *)
(***************************************************************************)
Rec == [name : Names, value : Contents, revision : Nat \ {0}]

Tables == UNION {[D -> Rec] : D \in SUBSET Nat}

OpType == [at : {"idle", "wait", "loaded"}, do : {"none", "remember", "forget"},
           name : Names \cup {"none"}, value : Contents \cup {"none"}, id : Nat, copy : Tables,
           crossed : {"no", "yes"}]

\* A file that is accepted, its ids among those made.
Whole(records) == /\ records \in Tables /\ DOMAIN records \subseteq 1..ids
                  /\ ValidRecords(records)

Stores == {Store[c] : c \in Users}

\* A caller past its load has the lock, and the file unless another process
\* has saved since.
Loaded(c) ==
  memory_op[c].at = "loaded" =>
    /\ owner[Store[c]] = c /\ Whole(memory_op[c].copy)
    /\ memory_op[c].crossed = "no" => memory_op[c].copy = file
    /\ memory_op[c].do = "remember" =>
         memory_op[c].name \in Names /\ memory_op[c].value \in Contents

Asked(c) ==
  /\ memory_op[c].at = "wait" => memory_op[c].crossed = "no"
  /\ memory_op[c].at # "idle" /\ memory_op[c].do = "remember" =>
       memory_op[c].name \in Names /\ memory_op[c].value \in Contents
  /\ memory_op[c].at # "idle" => memory_op[c].do # "none"

MemoryTypes == /\ ids \in Nat /\ Whole(file)
               /\ owner \in [Stores -> Users \cup {NoCaller}]
               /\ memory_op \in [Users -> OpType]
               /\ confirmed \in [Keys -> [value : Contents \cup {"none"}, revision : Nat]]

MemoryInv == MemoryTypes /\ (\A c \in Users : Loaded(c) /\ Asked(c)) /\ ConfirmedIsKept

-----------------------------------------------------------------------------
(* What an operation makes of the records it loaded.                       *)

LEMMA EmptyTable == <<>> \in Tables /\ DOMAIN <<>> = {}
<1>1. <<>> \in [{} -> Rec]
  OBVIOUS
<1> QED
  BY <1>1 DEF Tables

LEMMA WholeIsFinite ==
  ASSUME ids \in Nat, NEW r, Whole(r)
  PROVE  IsFiniteSet(DOMAIN r) /\ Cardinality(DOMAIN r) \in Nat
<1>1. IsFiniteSet(1..ids)
  BY FS_Interval
<1>2. IsFiniteSet(DOMAIN r)
  BY <1>1, FS_Subset DEF Whole
<1> QED
  BY <1>2, FS_CardinalityType

LEMMA TableRecords == ASSUME NEW r \in Tables PROVE r \in [DOMAIN r -> Rec]
BY DEF Tables

LEMMA WholeLater ==
  ASSUME NEW m \in Nat, NEW n \in Nat, m <= n, NEW r, DOMAIN r \subseteq 1..m
  PROVE  DOMAIN r \subseteq 1..n
OBVIOUS

\* Nothing else changes when a value is remembered, and its key has one record.
LEMMA RememberedIsWhole ==
  ASSUME ids \in Nat, NEW r, Whole(r), NEW name \in Names, NEW value \in Contents,
         Existing(r, name) # {} \/ Cardinality(DOMAIN r) < MaxRecords,
         NEW after, after = Remembered(r, name, value)
  PROVE  /\ after \in Tables /\ ValidRecords(after)
         /\ IF DOMAIN after \ DOMAIN r = {} THEN DOMAIN after \subseteq 1..ids
            ELSE DOMAIN after \subseteq 1..(ids + 1)
         /\ \E i \in DOMAIN after : Fold[after[i].name] = Fold[name]
         /\ \A i : (i \in DOMAIN after /\ Fold[after[i].name] # Fold[name]) <=>
                   (i \in DOMAIN r /\ Fold[r[i].name] # Fold[name])
         /\ \A i \in DOMAIN r : Fold[r[i].name] # Fold[name] => after[i] = r[i]
<1>1. r \in [DOMAIN r -> Rec] /\ DOMAIN r \subseteq 1..ids /\ IsFiniteSet(DOMAIN r)
      /\ Cardinality(DOMAIN r) \in Nat /\ MaxRecords \in Nat /\ Cardinality(DOMAIN r) <= MaxRecords
  BY TableRecords, WholeIsFinite, MemoryAssumption DEF Whole, ValidRecords
<1>2. \A i, j \in DOMAIN r : Fold[r[i].name] = Fold[r[j].name] => i = j
  BY DEF Whole, ValidRecords
<1>3. CASE Existing(r, name) = {}
  <2> DEFINE made == [name |-> name, value |-> value, revision |-> 1]
  <2>1. /\ DOMAIN after = DOMAIN r \cup {ids + 1} /\ after[ids + 1] = made
        /\ \A i \in DOMAIN r : after[i] = r[i]
    BY <1>1, <1>3 DEF Remembered
  <2>2. made \in Rec /\ made.name = name
    BY DEF Rec
  <2> HIDE DEF made
  <2>3. after = [i \in DOMAIN after |-> after[i]] /\ \A i \in DOMAIN after : after[i] \in Rec
    BY <1>1, <1>3, <2>1, <2>2 DEF Remembered
  <2>4. ids + 1 \notin DOMAIN r /\ DOMAIN after \subseteq 1..(ids + 1) /\ DOMAIN after \in SUBSET Nat
    BY <1>1, <2>1
  <2>5. after \in Tables
    BY <2>3, <2>4 DEF Tables
  <2>6. \A i \in DOMAIN r : Fold[r[i].name] # Fold[name]
    BY <1>3 DEF Existing
  <2>7. Cardinality(DOMAIN after) <= MaxRecords
    <3>1. Cardinality(DOMAIN r \cup {ids + 1}) = Cardinality(DOMAIN r) + 1
      BY <1>1, <2>4, FS_AddElement
    <3>2. Cardinality(DOMAIN r) < MaxRecords
      BY <1>3
    <3> QED
      BY <1>1, <2>1, <3>1, <3>2
  <2>8. ValidRecords(after)
    BY <1>2, <2>1, <2>2, <2>6, <2>7 DEF ValidRecords
  <2> QED
    BY <2>1, <2>2, <2>4, <2>5, <2>6, <2>8
<1>4. CASE Existing(r, name) # {}
  <2>1. DOMAIN after = DOMAIN r /\ after = [i \in DOMAIN after |-> after[i]]
    BY <1>4 DEF Remembered
  <2>2. ASSUME NEW i \in DOMAIN r
        PROVE  /\ after[i] \in Rec /\ Fold[after[i].name] = Fold[r[i].name]
               /\ Fold[r[i].name] # Fold[name] => after[i] = r[i]
    <3>1. r[i] \in Rec /\ r[i].revision + 1 \in Nat \ {0}
      BY <1>1 DEF Rec
    <3>2. CASE i \notin Existing(r, name) \/ (r[i].name = name /\ r[i].value = value)
      BY <1>4, <3>1, <3>2 DEF Remembered, Existing
    <3>3. CASE ~(i \notin Existing(r, name) \/ (r[i].name = name /\ r[i].value = value))
      <4>1. after[i] = [name |-> name, value |-> value, revision |-> r[i].revision + 1]
        BY <1>4, <3>3 DEF Remembered
      <4>2. Fold[r[i].name] = Fold[name]
        BY <3>3 DEF Existing
      <4> QED
        BY <3>1, <4>1, <4>2 DEF Rec
    <3> QED
      BY <3>2, <3>3
  <2>3. DOMAIN after \in SUBSET Nat
    BY <1>1, <2>1
  <2>4. after \in Tables
    BY <2>1, <2>2, <2>3 DEF Tables
  <2>5. ValidRecords(after)
    BY <1>1, <1>2, <2>1, <2>2 DEF ValidRecords
  <2>6. \E i \in DOMAIN r : Fold[r[i].name] = Fold[name]
    BY <1>4 DEF Existing
  <2> QED
    BY <1>1, <2>1, <2>2, <2>4, <2>5, <2>6
<1> QED
  BY <1>3, <1>4

LEMMA ForgottenIsWhole ==
  ASSUME ids \in Nat, NEW r, Whole(r), NEW id \in DOMAIN r, NEW after, after = Forgotten(r, id)
  PROVE  Whole(after)
<1>1. /\ DOMAIN after = DOMAIN r \ {id} /\ after = [i \in DOMAIN after |-> after[i]]
      /\ \A i \in DOMAIN after : after[i] = r[i]
  BY DEF Forgotten
<1>2. r \in [DOMAIN r -> Rec] /\ DOMAIN r \subseteq 1..ids /\ IsFiniteSet(DOMAIN r)
      /\ Cardinality(DOMAIN r) \in Nat /\ MaxRecords \in Nat /\ Cardinality(DOMAIN r) <= MaxRecords
  BY TableRecords, WholeIsFinite, MemoryAssumption DEF Whole, ValidRecords
<1>3. Cardinality(DOMAIN after) \in Nat /\ Cardinality(DOMAIN after) <= Cardinality(DOMAIN r)
  BY <1>1, <1>2, FS_Subset, FS_CardinalityType
<1>4. DOMAIN after \in SUBSET Nat
  BY <1>1, <1>2
<1>5. after \in Tables
  BY <1>1, <1>2, <1>4 DEF Tables
<1> QED
  BY <1>1, <1>2, <1>3, <1>5 DEF Whole, ValidRecords

-----------------------------------------------------------------------------
(* Steps that leave the file alone.                                        *)

LEMMA QuietTyped ==
  Quiet \in OpType /\ Quiet.at = "idle"
BY EmptyTable DEF Quiet, OpType

LEMMA InitMemoryInv == ASSUME MemoryInit PROVE MemoryInv
<1>1. /\ Whole(file) /\ ids = 0 /\ DOMAIN file = {}
  <2>1. Cardinality(DOMAIN file) = 0 /\ MaxRecords \in Nat
    BY EmptyTable, FS_EmptySet, MemoryAssumption DEF MemoryInit
  <2> QED
    BY <2>1, EmptyTable DEF MemoryInit, Whole, ValidRecords
<1>2. owner \in [Stores -> Users \cup {NoCaller}]
  BY DEF MemoryInit, Stores
<1>3. memory_op \in [Users -> OpType] /\ \A c \in Users : memory_op[c].at = "idle"
  BY QuietTyped DEF MemoryInit
<1>4. /\ confirmed \in [Keys -> [value : Contents \cup {"none"}, revision : Nat]]
      /\ \A k \in Keys : confirmed[k] = Nothing
  BY DEF MemoryInit, Nothing
<1> QED
  BY <1>1, <1>2, <1>3, <1>4 DEF MemoryInv, MemoryTypes, Loaded, Asked, ConfirmedIsKept

\* The file, the ids and what was confirmed stay; every caller goes on or stops.
LEMMA FileStays ==
  ASSUME MemoryInv, UNCHANGED <<file, ids, confirmed, overtaken>>,
         owner' \in [Stores -> Users \cup {NoCaller}], memory_op' \in [Users -> OpType],
         \A c \in Users :
           \/ memory_op'[c].at = "idle"
           \/ memory_op'[c] = memory_op[c] /\ (memory_op[c].at = "loaded" => owner'[Store[c]] = c)
           \/ Loaded(c)' /\ Asked(c)'
  PROVE  MemoryInv'
<1>1. \A r : Whole(r) => Whole(r)'
  BY DEF Whole, ValidRecords
<1>2. Whole(file)'
  BY <1>1 DEF MemoryInv, MemoryTypes, Whole, ValidRecords
<1>3. MemoryTypes'
  BY <1>2 DEF MemoryInv, MemoryTypes
<1>4. ConfirmedIsKept'
  BY DEF MemoryInv, ConfirmedIsKept
<1>5. ASSUME NEW c \in Users PROVE Loaded(c)' /\ Asked(c)'
  <2>1. CASE memory_op'[c].at = "idle"
    BY <2>1 DEF Loaded, Asked
  <2>2. CASE memory_op'[c] = memory_op[c] /\ (memory_op[c].at = "loaded" => owner'[Store[c]] = c)
    BY <2>2 DEF MemoryInv, Loaded, Asked, Whole, ValidRecords
  <2> QED
    BY <2>1, <2>2
<1> QED
  BY <1>3, <1>4, <1>5 DEF MemoryInv

\* A caller that leaves takes its lock with it and no other one's.
LEMMA ReleaseKeeps ==
  ASSUME MemoryInv, NEW c \in Users, memory_op[c].at = "loaded", Release(c),
         UNCHANGED <<file, ids, confirmed, overtaken>>
  PROVE  MemoryInv'
<1>1. \A d \in Users : memory_op'[d] = IF d = c THEN Quiet ELSE memory_op[d]
  BY DEF Release, MemoryInv, MemoryTypes
<1>2. \A s \in Stores : owner'[s] = IF s = Store[c] THEN NoCaller ELSE owner[s]
  BY DEF Release, MemoryInv, MemoryTypes
<1>3. \A d \in Users \ {c} : memory_op[d].at = "loaded" => Store[d] # Store[c]
  BY DEF MemoryInv, Loaded
<1>4. owner' \in [Stores -> Users \cup {NoCaller}] /\ memory_op' \in [Users -> OpType]
  BY QuietTyped DEF Release, MemoryInv, MemoryTypes
<1>5. \A d \in Users \ {c} : memory_op[d].at = "loaded" => owner'[Store[d]] = d
  BY <1>2, <1>3 DEF MemoryInv, Loaded, Stores
<1> QED
  BY <1>1, <1>4, <1>5, QuietTyped, FileStays

LEMMA CallsKeep ==
  ASSUME MemoryInv, NEW c \in Users,
         \/ \E name \in Names, value \in Contents : CallRemember(c, name, value)
         \/ \E id \in 1..ids : CallForget(c, id)
  PROVE  MemoryInv'
<1>1. ASSUME NEW called \in OpType, memory_op' = [memory_op EXCEPT ![c] = called], called.at = "wait",
             called.crossed = "no", called.do # "none",
             called.do = "remember" => called.name \in Names /\ called.value \in Contents,
             UNCHANGED <<file, owner, ids, faults, confirmed, overtaken>>
      PROVE  MemoryInv'
  <2>1. \A d \in Users : memory_op'[d] = IF d = c THEN called ELSE memory_op[d]
    BY <1>1 DEF MemoryInv, MemoryTypes
  <2>2. memory_op' \in [Users -> OpType] /\ owner' \in [Stores -> Users \cup {NoCaller}]
    BY <1>1 DEF MemoryInv, MemoryTypes
  <2>3. Loaded(c)' /\ Asked(c)'
    BY <1>1, <2>1 DEF Loaded, Asked
  <2>4. \A d \in Users : memory_op[d].at = "loaded" => owner'[Store[d]] = d
    BY <1>1 DEF MemoryInv, Loaded
  <2> QED
    BY <1>1, <2>1, <2>2, <2>3, <2>4, FileStays
<1>2. ASSUME NEW name \in Names, NEW value \in Contents, CallRemember(c, name, value)
      PROVE  MemoryInv'
  <2> DEFINE called == [Quiet EXCEPT !.at = "wait", !.do = "remember", !.name = name, !.value = value]
  <2>1. /\ called \in OpType /\ called.at = "wait" /\ called.crossed = "no" /\ called.do = "remember"
        /\ called.name = name /\ called.value = value
    BY EmptyTable DEF Quiet, OpType
  <2>2. /\ memory_op' = [memory_op EXCEPT ![c] = called]
        /\ UNCHANGED <<file, owner, ids, faults, confirmed, overtaken>>
    BY <1>2 DEF CallRemember
  <2> HIDE DEF called
  <2> QED
    BY <1>1, <2>1, <2>2
<1>3. ASSUME NEW id \in 1..ids, CallForget(c, id) PROVE MemoryInv'
  <2> DEFINE called == [Quiet EXCEPT !.at = "wait", !.do = "forget", !.id = id]
  <2>1. /\ called \in OpType /\ called.at = "wait" /\ called.crossed = "no" /\ called.do = "forget"
    <3>1. id \in Nat
      BY DEF MemoryInv, MemoryTypes
    <3> QED
      BY <3>1, EmptyTable DEF Quiet, OpType
  <2>2. /\ memory_op' = [memory_op EXCEPT ![c] = called]
        /\ UNCHANGED <<file, owner, ids, faults, confirmed, overtaken>>
    BY <1>3 DEF CallForget
  <2> HIDE DEF called
  <2> QED
    BY <1>1, <2>1, <2>2
<1> QED
  BY <1>2, <1>3

LEMMA LoadKeeps == ASSUME MemoryInv, NEW c \in Users, Load(c) PROVE MemoryInv'
<1> DEFINE loaded == [memory_op[c] EXCEPT !.at = "loaded", !.copy = file]
<1>1. memory_op[c] \in OpType /\ memory_op[c].at = "wait" /\ file \in Tables
  BY DEF Load, MemoryInv, MemoryTypes, Whole
<1>2. /\ loaded \in OpType /\ loaded.at = "loaded" /\ loaded.copy = file
      /\ loaded.do = memory_op[c].do /\ loaded.name = memory_op[c].name
      /\ loaded.value = memory_op[c].value /\ loaded.crossed = memory_op[c].crossed
  BY <1>1 DEF OpType
<1>3. memory_op' = [memory_op EXCEPT ![c] = loaded] /\ UNCHANGED <<file, ids, confirmed, overtaken>>
  BY DEF Load
<1> HIDE DEF loaded
<1>4. \A d \in Users : memory_op'[d] = IF d = c THEN loaded ELSE memory_op[d]
  BY <1>3 DEF MemoryInv, MemoryTypes
<1>5. /\ owner' \in [Stores -> Users \cup {NoCaller}] /\ owner'[Store[c]] = c
      /\ \A s \in Stores \ {Store[c]} : owner'[s] = owner[s]
  BY DEF Load, MemoryInv, MemoryTypes, Stores
<1>6. memory_op' \in [Users -> OpType]
  BY <1>2, <1>3 DEF MemoryInv, MemoryTypes
<1>7. ASSUME NEW d \in Users \ {c}, memory_op[d].at = "loaded" PROVE owner'[Store[d]] = d
  <2>1. Store[d] # Store[c]
    BY <1>7, MemoryAssumption DEF Load, MemoryLockFree, MemoryInv, Loaded
  <2> QED
    BY <1>5, <1>7, <2>1 DEF MemoryInv, Loaded, Stores
<1>8. Whole(file)'
  BY <1>3 DEF MemoryInv, MemoryTypes, Whole, ValidRecords
<1>9. Loaded(c)' /\ Asked(c)'
  <2>1. Asked(c)
    BY DEF MemoryInv
  <2>2. memory_op'[c] = loaded
    BY <1>4
  <2> QED
    BY <1>1, <1>2, <1>3, <1>5, <1>8, <2>1, <2>2 DEF Loaded, Asked, Whole, ValidRecords
<1> QED
  BY <1>3, <1>4, <1>5, <1>6, <1>7, <1>9, FileStays

LEMMA StoreDiesKeeps == ASSUME MemoryInv, NEW s, StoreDies(s) PROVE MemoryInv'
<1>1. memory_op' \in [Users -> OpType] /\ owner' \in [Stores -> Users \cup {NoCaller}]
  BY QuietTyped DEF StoreDies, MemoryInv, MemoryTypes
<1>2. \A c \in Users : \/ memory_op'[c].at = "idle"
                       \/ Store[c] # s /\ memory_op'[c] = memory_op[c]
  BY QuietTyped DEF StoreDies
<1>3. \A c \in Users : Store[c] # s => owner'[Store[c]] = owner[Store[c]]
  BY DEF StoreDies, MemoryInv, MemoryTypes, Stores
<1>4. \A c \in Users : memory_op[c].at = "loaded" => owner[Store[c]] = c
  BY DEF MemoryInv, Loaded
<1>5. UNCHANGED <<file, ids, confirmed, overtaken>>
  BY DEF StoreDies
<1> QED
  BY <1>1, <1>2, <1>3, <1>4, <1>5, FileStays

-----------------------------------------------------------------------------
(* The save.                                                               *)

\* The key the operation is about.
KeyOf(c) ==
  IF memory_op[c].do = "remember" THEN Fold[memory_op[c].name]
  ELSE Fold[memory_op[c].copy[memory_op[c].id].name]

\* What is confirmed of it.
Answered(c) ==
  IF memory_op[c].do = "forget" THEN Nothing
  ELSE LET r == Outcome(c)[CHOOSE i \in {i \in DOMAIN Outcome(c) :
                                           Fold[Outcome(c)[i].name] = KeyOf(c)} : TRUE]
       IN  [value |-> r.value, revision |-> r.revision]

\* What a save writes, in the terms of what it loaded.
LEMMA OutcomeIsWhole ==
  ASSUME MemoryInv, NEW c \in Users, memory_op[c].at = "loaded", Accepted(c),
         NEW copy, copy = memory_op[c].copy, NEW after, after = Outcome(c),
         NEW key, key = KeyOf(c)
  PROVE  /\ after \in Tables /\ ValidRecords(after) /\ key \in Keys
         /\ DOMAIN after \subseteq 1..(IF DOMAIN after \ DOMAIN copy = {} THEN ids ELSE ids + 1)
         /\ \A i : (i \in DOMAIN after /\ Fold[after[i].name] # key) <=>
                   (i \in DOMAIN copy /\ Fold[copy[i].name] # key)
         /\ \A i \in DOMAIN copy : Fold[copy[i].name] # key => after[i] = copy[i]
         /\ memory_op[c].do = "forget" => \A i \in DOMAIN after : Fold[after[i].name] # key
         /\ memory_op[c].do # "forget" =>
              \E i \in DOMAIN after : /\ Fold[after[i].name] = key
                                      /\ Answered(c) = [value |-> after[i].value,
                                                        revision |-> after[i].revision]
<1>1. /\ ids \in Nat /\ Whole(copy) /\ memory_op[c].do \in {"remember", "forget"}
      /\ memory_op[c].do = "remember" =>
           memory_op[c].name \in Names /\ memory_op[c].value \in Contents
  BY DEF MemoryInv, MemoryTypes, Loaded, Asked, OpType
<1>2. copy \in [DOMAIN copy -> Rec]
  BY <1>1, TableRecords DEF Whole
<1>3. CASE memory_op[c].do = "remember"
  <2> DEFINE name == memory_op[c].name
             value == memory_op[c].value
  <2>1. after = Remembered(copy, name, value) /\ key = Fold[name]
    BY <1>3 DEF Outcome, KeyOf
  <2>2. /\ name \in Names /\ value \in Contents
        /\ Existing(copy, name) # {} \/ Cardinality(DOMAIN copy) < MaxRecords
    BY <1>1, <1>3 DEF Accepted
  <2> HIDE DEF name, value
  <2>3. /\ after \in Tables /\ ValidRecords(after)
        /\ IF DOMAIN after \ DOMAIN copy = {} THEN DOMAIN after \subseteq 1..ids
           ELSE DOMAIN after \subseteq 1..(ids + 1)
        /\ \E i \in DOMAIN after : Fold[after[i].name] = key
        /\ \A i : (i \in DOMAIN after /\ Fold[after[i].name] # key) <=>
                  (i \in DOMAIN copy /\ Fold[copy[i].name] # key)
        /\ \A i \in DOMAIN copy : Fold[copy[i].name] # key => after[i] = copy[i]
    BY <1>1, <2>1, <2>2, RememberedIsWhole
  <2>4. PICK i \in DOMAIN after :
          i = CHOOSE j \in {j \in DOMAIN after : Fold[after[j].name] = key} : TRUE
    BY <2>3
  <2>5. i \in {j \in DOMAIN after : Fold[after[j].name] = key}
    BY <2>3, <2>4
  <2>6. Answered(c) = [value |-> after[i].value, revision |-> after[i].revision]
    BY <1>3, <2>4 DEF Answered
  <2> QED
    BY <1>3, <2>1, <2>2, <2>3, <2>5, <2>6 DEF Keys
<1>4. CASE memory_op[c].do = "forget"
  <2>0. PICK id \in DOMAIN copy : id = memory_op[c].id
    BY <1>4 DEF Accepted
  <2>1. after = Forgotten(copy, id) /\ key = Fold[copy[id].name] /\ id \in DOMAIN copy
    BY <1>4, <2>0 DEF Outcome, KeyOf
  <2>2. /\ Whole(after) /\ DOMAIN after = DOMAIN copy \ {id}
        /\ \A i \in DOMAIN after : after[i] = copy[i]
    <3>1. Whole(after)
      BY <1>1, <2>1, ForgottenIsWhole
    <3>2. DOMAIN after = DOMAIN copy \ {id} /\ \A i \in DOMAIN after : after[i] = copy[i]
      BY <2>1 DEF Forgotten
    <3> QED
      BY <3>1, <3>2
  <2>3. copy[id] \in Rec
    BY <1>2, <2>1
  <2>4. \A i, j \in DOMAIN copy : Fold[copy[i].name] = Fold[copy[j].name] => i = j
    BY <1>1 DEF Whole, ValidRecords
  <2>5. DOMAIN after \ DOMAIN copy = {}
    BY <2>2
  <2>6. key \in Keys
    BY <2>1, <2>3 DEF Rec, Keys
  <2>7. \A i \in DOMAIN after : Fold[after[i].name] # key
    BY <2>1, <2>2, <2>4
  <2> QED
    BY <1>4, <2>1, <2>2, <2>4, <2>5, <2>6, <2>7 DEF Whole
<1> QED
  BY <1>1, <1>3, <1>4

LEMMA SaveKeeps == ASSUME MemoryInv, NEW c \in Users, SaveMemory(c) PROVE MemoryInv'
<1> DEFINE copy == memory_op[c].copy
           after == Outcome(c)
           key == KeyOf(c)
<1>1. /\ memory_op[c].at = "loaded" /\ Accepted(c)
      /\ file' = IF after = copy THEN file ELSE after
      /\ ids' = IF DOMAIN after \ DOMAIN copy = {} THEN ids ELSE ids + 1
      /\ confirmed' = [confirmed EXCEPT ![key] = Answered(c)]
      /\ overtaken' = IF memory_op[c].crossed = "yes" THEN Keys ELSE overtaken
      /\ owner' = [owner EXCEPT ![Store[c]] = NoCaller]
  BY DEF SaveMemory, KeyOf, Answered
<1>2. memory_op' = [d \in Users |->
        IF d = c THEN Quiet
        ELSE IF memory_op[d].at = "loaded" /\ Store[d] # Store[c] /\ after # copy
        THEN [memory_op[d] EXCEPT !.crossed = "yes"] ELSE memory_op[d]]
  BY DEF SaveMemory
<1>3. /\ after \in Tables /\ ValidRecords(after) /\ key \in Keys
      /\ DOMAIN after \subseteq 1..ids'
      /\ \A i : (i \in DOMAIN after /\ Fold[after[i].name] # key) <=>
                (i \in DOMAIN copy /\ Fold[copy[i].name] # key)
      /\ \A i \in DOMAIN copy : Fold[copy[i].name] # key => after[i] = copy[i]
      /\ memory_op[c].do = "forget" => \A i \in DOMAIN after : Fold[after[i].name] # key
      /\ memory_op[c].do # "forget" =>
           \E i \in DOMAIN after : /\ Fold[after[i].name] = key
                                   /\ Answered(c) = [value |-> after[i].value,
                                                     revision |-> after[i].revision]
  BY <1>1, OutcomeIsWhole
<1>4. memory_op[c].crossed \in {"no", "yes"} /\ (memory_op[c].crossed = "no" => copy = file)
  BY <1>1 DEF MemoryInv, MemoryTypes, Loaded, OpType
<1>5. Answered(c) \in [value : Contents \cup {"none"}, revision : Nat]
  <2>1. \A i \in DOMAIN after : after[i] \in Rec
    BY <1>3, TableRecords
  <2>2. Nothing \in [value : Contents \cup {"none"}, revision : Nat]
    BY DEF Nothing
  <2>3. memory_op[c].do = "forget" => Answered(c) = Nothing
    BY DEF Answered
  <2> QED
    BY <1>3, <2>1, <2>2, <2>3 DEF Rec
<1> HIDE DEF copy, after, key
<1>6. ids' \in Nat /\ 1..ids \subseteq 1..ids'
  BY <1>1 DEF MemoryInv, MemoryTypes
<1>7. Whole(file)'
  <2>1. CASE after = copy
    BY <1>1, <1>6, <2>1 DEF MemoryInv, MemoryTypes, Whole
  <2>2. CASE after # copy
    BY <1>1, <1>3, <2>2 DEF Whole
  <2> QED
    BY <2>1, <2>2
<1>8. MemoryTypes'
  <2>1. owner' \in [Stores -> Users \cup {NoCaller}]
    BY <1>1 DEF MemoryInv, MemoryTypes
  <2>2. \A d \in Users : /\ memory_op[d] \in OpType
                         /\ [memory_op[d] EXCEPT !.crossed = "yes"] \in OpType
    BY DEF MemoryInv, MemoryTypes, OpType
  <2>3. memory_op' \in [Users -> OpType]
    BY <1>2, <2>2, QuietTyped
  <2>4. confirmed' \in [Keys -> [value : Contents \cup {"none"}, revision : Nat]]
    BY <1>1, <1>5 DEF MemoryInv, MemoryTypes
  <2> QED
    BY <1>6, <1>7, <2>1, <2>3, <2>4 DEF MemoryTypes
<1>9. ASSUME NEW d \in Users PROVE Loaded(d)' /\ Asked(d)'
  <2>1. CASE d = c
    BY <1>2, <2>1, QuietTyped DEF Loaded, Asked
  <2>2. CASE d # c
    <3>1. memory_op[d] \in OpType /\ Loaded(d) /\ Asked(d)
      BY DEF MemoryInv, MemoryTypes
    <3>2. /\ memory_op'[d].at = memory_op[d].at /\ memory_op'[d].do = memory_op[d].do
          /\ memory_op'[d].name = memory_op[d].name /\ memory_op'[d].value = memory_op[d].value
          /\ memory_op'[d].copy = memory_op[d].copy
          /\ \/ memory_op'[d].crossed = memory_op[d].crossed
             \/ memory_op[d].at = "loaded" /\ memory_op'[d].crossed = "yes"
          /\ memory_op[d].at = "loaded" /\ Store[d] # Store[c] /\ after # copy =>
               memory_op'[d].crossed = "yes"
      BY <1>2, <2>2, <3>1 DEF OpType
    <3>3. memory_op[d].at = "loaded" => Store[d] # Store[c]
      BY <1>1, <2>2 DEF MemoryInv, Loaded
    <3>4. memory_op[d].at = "loaded" => owner'[Store[d]] = d
      BY <1>1, <3>1, <3>3 DEF MemoryInv, MemoryTypes, Loaded, Stores
    <3>5. memory_op[d].at = "loaded" => Whole(memory_op[d].copy)'
      BY <1>6, <3>1, <3>2 DEF Loaded, Whole
    <3>6. Asked(d)'
      BY <3>1, <3>2 DEF Asked
    <3>7. Loaded(d)'
      <4>1. SUFFICES ASSUME memory_op[d].at = "loaded" PROVE Loaded(d)'
        BY <3>2 DEF Loaded
      <4>2. memory_op'[d].crossed = "no" => memory_op'[d].copy = file'
        BY <1>1, <3>1, <3>2, <3>3, <4>1 DEF Loaded
      <4>3. memory_op'[d].do = "remember" =>
              memory_op'[d].name \in Names /\ memory_op'[d].value \in Contents
        BY <3>1, <3>2, <4>1 DEF Loaded
      <4> QED
        BY <3>4, <3>5, <4>1, <4>2, <4>3 DEF Loaded
    <3> QED
      BY <3>6, <3>7
  <2> QED
    BY <2>1, <2>2
<1>10. ConfirmedIsKept'
  <2> SUFFICES ASSUME NEW k \in Keys, k \notin overtaken'
               PROVE  IF confirmed'[k] = Nothing THEN {i \in DOMAIN file' : Fold[file'[i].name] = k} = {}
                      ELSE \E i \in DOMAIN file' : /\ Fold[file'[i].name] = k
                                                   /\ file'[i].value = confirmed'[k].value
                                                   /\ file'[i].revision = confirmed'[k].revision
    BY DEF ConfirmedIsKept
  <2>1. k \notin overtaken /\ copy = file /\ file' = after
    BY <1>1, <1>4
  <2>2. CASE k # key
    <3>1. confirmed'[k] = confirmed[k]
      BY <1>1, <1>8, <2>2 DEF MemoryInv, MemoryTypes
    <3>2. \A i : (i \in DOMAIN after /\ Fold[after[i].name] = k) =>
                   i \in DOMAIN file /\ Fold[file[i].name] = k
      <4> SUFFICES ASSUME NEW i \in DOMAIN after, Fold[after[i].name] = k
                   PROVE  i \in DOMAIN file /\ Fold[file[i].name] = k
        OBVIOUS
      <4>1. i \in DOMAIN copy /\ Fold[copy[i].name] # key
        BY <1>3, <2>2
      <4> QED
        BY <1>3, <2>1, <4>1
    <3>3. \A i \in DOMAIN file : Fold[file[i].name] = k =>
            i \in DOMAIN after /\ after[i] = file[i]
      BY <1>3, <2>1, <2>2
    <3>4. IF confirmed[k] = Nothing THEN \A i \in DOMAIN file : Fold[file[i].name] # k
          ELSE \E i \in DOMAIN file : /\ Fold[file[i].name] = k
                                      /\ file[i].value = confirmed[k].value
                                      /\ file[i].revision = confirmed[k].revision
      BY <2>1 DEF MemoryInv, ConfirmedIsKept
    <3> QED
      BY <2>1, <3>1, <3>2, <3>3, <3>4
  <2>3. CASE k = key
    <3>1. confirmed'[k] = Answered(c)
      BY <1>1, <1>3, <2>3 DEF MemoryInv, MemoryTypes
    <3>2. CASE memory_op[c].do = "forget"
      BY <1>3, <2>1, <2>3, <3>1, <3>2 DEF Answered
    <3>3. CASE memory_op[c].do # "forget"
      <4>1. PICK i \in DOMAIN after : /\ Fold[after[i].name] = key
                                      /\ Answered(c) = [value |-> after[i].value,
                                                        revision |-> after[i].revision]
        BY <1>3, <3>3
      <4>2. after[i].revision # 0
        BY <1>3, TableRecords DEF Rec
      <4>3. Answered(c) # Nothing
        BY <4>1, <4>2 DEF Nothing
      <4> QED
        BY <2>1, <2>3, <3>1, <4>1, <4>3
    <3> QED
      BY <3>2, <3>3
  <2> QED
    BY <2>2, <2>3
<1> QED
  BY <1>8, <1>9, <1>10 DEF MemoryInv

LEMMA StepMemoryInv == ASSUME MemoryInv, [MemoryNext]_memoryVars PROVE MemoryInv'
<1>1. CASE UNCHANGED memoryVars
  <2>1. UNCHANGED <<file, ids, confirmed, overtaken, owner, memory_op>>
    BY <1>1 DEF memoryVars
  <2>2. \A c \in Users : memory_op[c].at = "loaded" => owner[Store[c]] = c
    BY DEF MemoryInv, Loaded
  <2> QED
    BY <2>1, <2>2, FileStays DEF MemoryInv, MemoryTypes
<1>2. ASSUME NEW c \in Users, RefuseMemory(c) \/ SaveRaises(c) PROVE MemoryInv'
  BY <1>2, ReleaseKeeps DEF RefuseMemory, SaveRaises
<1> QED
  BY <1>1, <1>2, CallsKeep, LoadKeeps, SaveKeeps, StoreDiesKeeps DEF MemoryNext

\* For any number of threads, processes and spellings, with writes that raise
\* and crashes at any step: the file stays one the next load accepts, and what
\* a person confirmed is what it holds unless another process wrote an older copy.
THEOREM MemoryIsKeptHolds == MemorySpec => []MemoryIsKept
<1>1. MemoryInv => MemoryIsKept
  BY DEF MemoryInv, MemoryTypes, Whole, MemoryIsKept, FileIsAccepted
<1>2. MemorySpec => []MemoryInv
  BY InitMemoryInv, StepMemoryInv, PTL DEF MemorySpec
<1> QED
  BY <1>1, <1>2, PTL

(***************************************************************************)
(* McpSession: for any servers, tools, resources and prompts, any number of *)
(* strays and of answers in flight, what the client offers is what the     *)
(* process it talks to answered since it was started.                      *)
(***************************************************************************)
Acknowledging == [method |-> "notifications/initialized", name |-> "none"]
ListAsks == {[method |-> Lists[i], name |-> "none"] : i \in 1..3}
Asks == {NoAsk, Initialize, Acknowledging} \cup ListAsks \cup Wanted
Messages ==
  [id : Nat, ask : Asks, kind : {"request", "result", "error", "failed", "bad"}]
Remotes ==
  [state : {"none", "up", "dead", "closing"}, spec : McpServers \cup {NoServer},
   initialized : BOOLEAN, ready : BOOLEAN]
ClientStates ==
  [pc : {"idle", "wait", "close", "closing"}, job : {"none", "start", "ask", "discover"},
   ask : Asks, id : Nat, initialized : BOOLEAN]

McpTypes ==
  /\ remote \in Remotes /\ client \in ClientStates
  /\ wire \in Seq(Messages) /\ replies \in Seq(Messages) /\ reading \in BOOLEAN
  /\ next_id \in Nat \ {0} /\ strayed \in BOOLEAN
  /\ taken \in Nat /\ spawns \in Nat /\ taken <= spawns
  /\ host = [tools |-> host.tools, uris |-> host.uris, prompts |-> host.prompts,
             discovered |-> host.discovered]

\* A number is given to one request, by whichever process it is answered.
Numbered(m) == m.id < next_id /\ (m.id # 0 /\ m.id = client.id => m.ask = client.ask)
IdsAreOne ==
  /\ client.id < next_id
  /\ \A m \in ToSet(wire) : Numbered(m)
  /\ \A m \in ToSet(replies) : Numbered(m) /\ (m.id = 0 => m.kind = "bad")

\* The answer that ends a start is one of the process that was started.
StartsHere ==
  /\ client.pc \in {"idle", "closing"} => client.id = 0
  /\ client.pc = "wait" => client.id # 0
  /\ client.pc = "wait" /\ client.job = "discover" => client.ask \in ListAsks
  /\ client.pc = "wait" /\ client.job = "start" =>
       /\ client.ask = Initialize
       /\ \A m \in ToSet(replies) : Mine(m) => remote.initialized

\* Who waits, waits for a process, which is one of the servers.
EndedIsOver ==
  /\ remote.state = "none" => ~client.initialized /\ client.pc # "wait"
  /\ remote.state # "none" => remote.spec \in McpServers

McpInv ==
  /\ McpTypes /\ IdsAreOne /\ StartsHere /\ EndedIsOver
  /\ AnswersAreOwn /\ HandshakeHolds /\ HostFollowsTheLists

--------------------------------------------------------------------------------
LEMMA TakenEntries ==
  ASSUME NEW s \in Seq(Messages), s # <<>>
  PROVE  /\ Head(s) \in Messages /\ Head(s) \in ToSet(s) /\ Tail(s) \in Seq(Messages)
         /\ ToSet(Tail(s)) \subseteq ToSet(s)
         /\ ToSet(s) = {Head(s)} \cup ToSet(Tail(s))
<1>1. /\ DOMAIN s = 1..Len(s) /\ Len(s) \in Nat /\ Head(s) = s[1] /\ 1 \in 1..Len(s)
      /\ Tail(s) \in Seq(Messages) /\ DOMAIN Tail(s) = 1..Len(s) - 1
      /\ \A i \in 1..Len(s) - 1 : Tail(s)[i] = s[i + 1] /\ i + 1 \in 1..Len(s)
  OBVIOUS
<1>2. Head(s) \in Messages
  BY <1>1
<1>3. ASSUME NEW i \in 1..Len(s) PROVE s[i] \in {Head(s)} \cup ToSet(Tail(s))
  <2>1. CASE i = 1
    BY <1>1, <2>1
  <2>2. CASE i # 1
    <3>1. i - 1 \in 1..Len(s) - 1 /\ (i - 1) + 1 = i
      BY <1>1, <2>2
    <3> QED
      BY <1>1, <3>1 DEF ToSet
  <2> QED
    BY <2>1, <2>2
<1>4. Head(s) \in ToSet(s)
  BY <1>1 DEF ToSet
<1>5. ASSUME NEW i \in 1..Len(s) - 1 PROVE Tail(s)[i] \in ToSet(s)
  BY <1>1 DEF ToSet
<1>6. ToSet(Tail(s)) \subseteq ToSet(s)
  BY <1>1, <1>5 DEF ToSet
<1>7. ToSet(s) \subseteq {Head(s)} \cup ToSet(Tail(s))
  BY <1>1, <1>3 DEF ToSet
<1> QED
  BY <1>1, <1>2, <1>4, <1>6, <1>7

LEMMA AddedEntries ==
  ASSUME NEW s \in Seq(Messages), NEW x \in Messages
  PROVE  Append(s, x) \in Seq(Messages) /\ ToSet(Append(s, x)) = ToSet(s) \cup {x}
<1> DEFINE t == Append(s, x)
<1>1. /\ DOMAIN s = 1..Len(s) /\ Len(s) \in Nat /\ t \in Seq(Messages) /\ DOMAIN t = 1..Len(s) + 1
      /\ t[Len(s) + 1] = x /\ \A i \in 1..Len(s) : t[i] = s[i]
  OBVIOUS
<1> HIDE DEF t
<1>2. ASSUME NEW i \in 1..Len(s) PROVE s[i] \in ToSet(t)
  BY <1>1 DEF ToSet
<1>3. x \in ToSet(t)
  BY <1>1 DEF ToSet
<1>4. ASSUME NEW i \in 1..Len(s) + 1 PROVE t[i] \in ToSet(s) \cup {x}
  BY <1>1 DEF ToSet
<1>5. t \in Seq(Messages) /\ ToSet(t) = ToSet(s) \cup {x}
  BY <1>1, <1>2, <1>3, <1>4 DEF ToSet
<1> QED
  BY <1>5 DEF t

LEMMA NoEntries == ToSet(<<>>) = {}
BY DEF ToSet

LEMMA EntriesTyped == ASSUME NEW s \in Seq(Messages) PROVE ToSet(s) \subseteq Messages
BY DEF ToSet

\* The client took an answer or left the queue alone.
Drained == replies' = replies \/ (replies # <<>> /\ replies' = Tail(replies))

LEMMA DrainedTyped ==
  ASSUME McpTypes, Drained
  PROVE  replies' \in Seq(Messages) /\ ToSet(replies') \subseteq ToSet(replies)
<1>1. replies \in Seq(Messages)
  BY DEF McpTypes
<1> QED
  BY <1>1, TakenEntries DEF Drained

LEMMA AsksTyped ==
  /\ NoAsk \in Asks /\ Initialize \in Asks /\ Acknowledging \in Asks /\ Wanted \subseteq Asks
  /\ ListAsks \subseteq Asks
BY DEF Asks

\* The lists come in a fixed order, so that the next one is known.
LEMMA ListsFollow ==
  /\ DOMAIN Lists = 1..3 /\ Len(Lists) = 3
  /\ \A i \in 1..3 : [method |-> Lists[i], name |-> "none"] \in ListAsks
  /\ \A ask \in ListAsks : \E i \in DOMAIN Lists : Lists[i] = ask.method
BY DEF ListAsks, Lists

\* What a client becomes when it does not wait any more.
LEMMA ClientsTyped ==
  ASSUME client \in ClientStates
  PROVE  /\ Rests(client) \in ClientStates /\ Rests(client).id = 0 /\ Rests(client).pc = "idle"
         /\ Rests(client).initialized = client.initialized
         /\ Fails \in ClientStates /\ Fails.id \in {0, client.id} /\ Fails.pc \in {"idle", "close"}
         /\ Fails.pc = "idle" => Fails.id = 0
         /\ Fails.id # 0 => Fails.ask = client.ask
         /\ Fails.initialized = client.initialized
BY AsksTyped DEF ClientStates, Rests, Fails

--------------------------------------------------------------------------------
(* Steps of the client                                                     *)

\* The client stops waiting, for whatever reason.
LEMMA ClientStops ==
  ASSUME McpInv, NEW c \in ClientStates, client' = c, c.pc # "wait",
         c.id \in {0, client.id}, c.id # 0 => c.ask = client.ask,
         c.pc \in {"idle", "closing"} => c.id = 0,
         c.initialized => client.initialized,
         Drained,
         UNCHANGED <<remote, wire, reading, next_id, host, taken, spawns, strayed>>
  PROVE  McpInv'
<1>1. McpTypes' /\ ToSet(replies') \subseteq ToSet(replies)
  BY DrainedTyped DEF McpInv, McpTypes
<1>2. IdsAreOne'
  BY <1>1 DEF McpInv, McpTypes, IdsAreOne, Numbered
<1>3. StartsHere' /\ EndedIsOver'
  BY DEF McpInv, StartsHere, EndedIsOver
<1>4. AnswersAreOwn' /\ HandshakeHolds' /\ HostFollowsTheLists'
  BY DEF McpInv, AnswersAreOwn, HandshakeHolds, HostFollowsTheLists
<1> QED
  BY <1>1, <1>2, <1>3, <1>4 DEF McpInv

\* A process at its start.
Begun == {[Stopped EXCEPT !.state = "up", !.spec = spec] : spec \in McpServers}

LEMMA BegunTyped == \A r \in Begun : r \in Remotes /\ r.state = "up" /\ r.spec \in McpServers
BY DEF Begun, Stopped, Remotes

\* A request is written to the pipe; it has the next number.
LEMMA ClientSends ==
  ASSUME McpInv, NEW job \in {"start", "ask", "discover"}, NEW ask \in Asks,
         NEW pipe \in Seq(Messages), ToSet(pipe) \subseteq ToSet(wire),
         Sends(job, ask, pipe), job = "discover" => ask \in ListAsks,
         Drained,
         strayed' \in BOOLEAN, ~strayed', UNCHANGED <<host, taken>>, reading' \in BOOLEAN,
         job = "ask" => Passes(ask),
         \/ /\ job = "start" /\ ask = Initialize /\ remote.state = "none"
            /\ remote' \in Begun /\ spawns' = spawns + 1
         \/ job # "start" /\ remote.state # "none" /\ pipe = wire /\ UNCHANGED <<remote, spawns>>
  PROVE  McpInv'
<1> DEFINE request == [id |-> next_id, ask |-> ask, kind |-> "request"]
           c == [client EXCEPT !.pc = "wait", !.job = job, !.ask = ask, !.id = next_id]
<1>1. /\ client \in ClientStates /\ next_id \in Nat \ {0} /\ request \in Messages
      /\ next_id' = next_id + 1 /\ wire' = Append(pipe, request) /\ client' = c
      /\ pipe \in Seq(Messages) /\ ToSet(pipe) \subseteq ToSet(wire)
  <2>1. /\ client \in ClientStates /\ next_id \in Nat \ {0} /\ wire \in Seq(Messages)
        /\ next_id' = next_id + 1 /\ wire' = Append(pipe, request) /\ client' = c
    BY DEF McpInv, McpTypes, Sends
  <2>2. request \in Messages
    BY <2>1 DEF Messages
  <2> QED
    BY <2>1, <2>2
<1>2. /\ c \in ClientStates /\ c.pc = "wait" /\ c.job = job /\ c.ask = ask /\ c.id = next_id
      /\ c.initialized = client.initialized
  BY <1>1 DEF ClientStates
<1>3. request.id = next_id /\ request.ask = ask
  OBVIOUS
<1>20. /\ client'.id = next_id /\ client'.ask = ask /\ client'.pc = "wait" /\ client'.job = job
       /\ client'.initialized = client.initialized
  BY <1>1, <1>2
<1>21. next_id \in Nat \ {0} /\ next_id' = next_id + 1
  BY <1>1
<1> HIDE DEF request, c
<1>4. wire' \in Seq(Messages) /\ ToSet(wire') = ToSet(pipe) \cup {request}
  BY <1>1, AddedEntries
<1>5. replies' \in Seq(Messages) /\ ToSet(replies') \subseteq ToSet(replies)
  BY DrainedTyped DEF McpInv
<1>6. remote' \in Remotes
  BY BegunTyped DEF McpInv, McpTypes
<1>7. McpTypes'
  <2>1. next_id' \in Nat \ {0} /\ strayed' \in BOOLEAN
    BY <1>21
  <2>2. host' = [tools |-> host'.tools, uris |-> host'.uris, prompts |-> host'.prompts,
                 discovered |-> host'.discovered]
    BY DEF McpInv, McpTypes
  <2>3. taken' \in Nat /\ spawns' \in Nat /\ taken' <= spawns'
    BY DEF McpInv, McpTypes
  <2> QED
    BY <1>1, <1>2, <1>4, <1>5, <1>6, <2>1, <2>2, <2>3 DEF McpTypes
<1>8. \A m \in ToSet(wire) \cup ToSet(replies) : m.id \in Nat /\ m.id < next_id
  <2>1. \A m \in ToSet(wire) \cup ToSet(replies) : m \in Messages
    BY EntriesTyped DEF McpInv, McpTypes
  <2> QED
    BY <2>1 DEF McpInv, IdsAreOne, Numbered, Messages
<1>9. IdsAreOne'
  <2>1. \A m \in ToSet(wire) \cup ToSet(replies) : m.id < next_id' /\ m.id # client'.id
    BY <1>20, <1>21, <1>8
  <2>2. \A m \in ToSet(wire') : Numbered(m)'
    <3>1. request.id < next_id' /\ request.ask = client'.ask
      BY <1>3, <1>20, <1>21
    <3> QED
      BY <1>4, <1>1, <2>1, <3>1 DEF Numbered
  <2>3. \A m \in ToSet(replies') : Numbered(m)'
    BY <1>5, <2>1 DEF Numbered
  <2>4. \A m \in ToSet(replies') : m.id = 0 => m.kind = "bad"
    BY <1>5 DEF McpInv, IdsAreOne
  <2>5. client'.id < next_id'
    BY <1>20, <1>21
  <2> QED
    BY <2>2, <2>3, <2>4, <2>5 DEF IdsAreOne
<1>10. StartsHere'
  <2>1. \A m \in ToSet(replies') : ~Mine(m)'
    <3> SUFFICES ASSUME NEW m \in ToSet(replies') PROVE m.id # client'.id
      BY DEF Mine
    <3>1. m \in ToSet(replies)
      BY <1>5
    <3> QED
      BY <1>20, <1>21, <1>8, <3>1
  <2> QED
    BY <1>1, <1>2, <2>1 DEF StartsHere
<1>11. EndedIsOver'
  BY BegunTyped DEF McpInv, EndedIsOver
<1>12. HandshakeHolds'
  <2>1. CASE job = "start"
    BY <1>1, <1>2, <2>1 DEF McpInv, EndedIsOver, HandshakeHolds
  <2>2. CASE job # "start"
    <3>1. \A i \in DOMAIN wire : i \in DOMAIN wire' /\ wire'[i] = wire[i]
      <4>1. wire \in Seq(Messages) /\ wire' = Append(wire, request)
        BY <1>1, <2>2 DEF McpInv, McpTypes
      <4>2. request \in Messages
        BY <1>1
      <4> QED
        BY <4>1, <4>2, AppendProperties
    <3> QED
      BY <1>1, <1>2, <2>2, <3>1 DEF McpInv, HandshakeHolds
  <2> QED
    BY <2>1, <2>2
<1>13. AnswersAreOwn'
  BY DEF AnswersAreOwn
<1>14. HostFollowsTheLists'
  <2>1. CASE job = "start"
    <3>1. taken' # spawns'
      BY <2>1 DEF McpInv, McpTypes
    <3> QED
      BY <3>1 DEF McpInv, HostFollowsTheLists
  <2>2. CASE job # "start"
    <3>1. UNCHANGED <<remote, spawns, taken, host>> /\ remote.state # "none"
      BY <2>2
    <3>2. ASSUME taken = spawns, job = "ask", ask.method = "tools/call"
          PROVE  \E t \in Safe(remote.spec) : t.name = ask.name /\ (t.open => t.name \in AllowedOpen)
      <4>1. PICK t \in host.tools : t.name = ask.name /\ (t.open => t.name \in AllowedOpen)
        BY <3>2 DEF Passes
      <4>2. t \in Safe(remote.spec)
        BY <3>1, <3>2, <4>1 DEF McpInv, HostFollowsTheLists
      <4> QED
        BY <4>1, <4>2
    <3> QED
      BY <1>20, <3>1, <3>2 DEF McpInv, HostFollowsTheLists
  <2> QED
    BY <2>1, <2>2
<1> QED
  BY <1>7, <1>9, <1>10, <1>11, <1>12, <1>13, <1>14 DEF McpInv

\* An answer that is taken is the one to the request.
LEMMA AnswerIsOwn ==
  ASSUME McpInv, NEW job, Takes(job)
  PROVE  /\ client \in ClientStates /\ client.pc = "wait" /\ client.job = job
         /\ strayed' \in BOOLEAN /\ ~strayed' /\ Drained
         /\ Head(replies) \in ToSet(replies) /\ Mine(Head(replies))
<1>1. Head(replies) \in ToSet(replies) /\ Head(replies) \in Messages
  BY TakenEntries DEF McpInv, McpTypes, Takes
<1>2. Head(replies).id = client.id /\ Head(replies).id # 0
  BY <1>1 DEF McpInv, IdsAreOne, Takes, Mine
<1>3. Head(replies).ask = client.ask
  BY <1>1, <1>2 DEF McpInv, IdsAreOne, Numbered
<1> QED
  BY <1>1, <1>3 DEF McpInv, McpTypes, AnswersAreOwn, Takes, Drained

LEMMA OutcomesTyped ==
  ASSUME NEW ask, NEW kind \in Outcomes(ask)
  PROVE  kind \in {"result", "error", "failed"}
<1>1. \A name : ToolOutcomes(name) \subseteq {"result", "error", "failed"}
  BY DEF ToolOutcomes
<1>2. \A got : Translated(got) \subseteq {"result", "error", "failed"}
  BY DEF Translated
<1> QED
  BY <1>1, <1>2 DEF Outcomes

LEMMA HandledTyped ==
  ASSUME remote \in Remotes, NEW m
  PROVE  /\ Handled(m) \in Remotes /\ Handled(m).state = remote.state
         /\ Handled(m).spec = remote.spec
         /\ (Handled(m).initialized <=> remote.initialized \/ m.ask.method = "initialize")
         /\ Handled(m).ready <=>
              (remote.ready \/ (m.ask.method = "notifications/initialized" /\ remote.initialized))
BY DEF Handled, Remotes

\* The server takes a line; what it answers is the answer to that line.
LEMMA ServeKeeps == ASSUME McpInv, Serve PROVE McpInv'
<1>1. PICK m : m = Head(wire)
  OBVIOUS
<1>2. /\ m \in Messages /\ m \in ToSet(wire) /\ wire' = Tail(wire) /\ wire' \in Seq(Messages)
      /\ ToSet(wire') \subseteq ToSet(wire) /\ ToSet(wire) = {m} \cup ToSet(wire')
  BY <1>1, TakenEntries DEF McpInv, McpTypes, Serve
<1>3. /\ remote' = Handled(m)
      /\ UNCHANGED <<reading, client, next_id, host, taken, spawns, strayed>>
  BY <1>1 DEF Serve
<1>4. /\ remote' \in Remotes /\ remote'.state = remote.state /\ remote'.spec = remote.spec
      /\ (remote'.initialized <=> remote.initialized \/ m.ask.method = "initialize")
      /\ remote'.ready <=>
           (remote.ready \/ (m.ask.method = "notifications/initialized" /\ remote.initialized))
  BY <1>3, HandledTyped DEF McpInv, McpTypes
<1>5. \/ replies' = replies
      \/ \E kind \in {"result", "error", "failed"} :
           replies' = Append(replies, [m EXCEPT !.kind = kind]) /\ m.id # 0
  BY <1>1, OutcomesTyped DEF Serve
<1>6. /\ replies' \in Seq(Messages)
      /\ \A r \in ToSet(replies') : r \in ToSet(replies) \/ (r.id = m.id /\ r.ask = m.ask /\ m.id # 0)
  <2>1. CASE replies' = replies
    BY <2>1 DEF McpInv, McpTypes
  <2>2. CASE replies' # replies
    <3>1. PICK kind \in {"result", "error", "failed"} :
            replies' = Append(replies, [m EXCEPT !.kind = kind]) /\ m.id # 0
      BY <1>5, <2>2
    <3>2. PICK r : r = [m EXCEPT !.kind = kind]
      OBVIOUS
    <3>3. r \in Messages /\ r.id = m.id /\ r.ask = m.ask
      BY <1>2, <3>2 DEF Messages
    <3>4. replies' = Append(replies, r) /\ replies \in Seq(Messages)
      BY <3>1, <3>2 DEF McpInv, McpTypes
    <3>5. replies' \in Seq(Messages) /\ ToSet(replies') = ToSet(replies) \cup {r}
      BY <3>3, <3>4, AddedEntries
    <3> QED
      BY <3>1, <3>3, <3>5
  <2> QED
    BY <2>1, <2>2
<1>7. McpTypes'
  BY <1>2, <1>3, <1>4, <1>6 DEF McpInv, McpTypes
<1>8. Numbered(m)
  BY <1>2 DEF McpInv, IdsAreOne
<1>9. IdsAreOne'
  BY <1>2, <1>3, <1>6, <1>8 DEF McpInv, IdsAreOne, Numbered
<1>10. StartsHere'
  <2> SUFFICES ASSUME client.pc = "wait", client.job = "start", NEW r \in ToSet(replies'), Mine(r)'
               PROVE  remote'.initialized
    BY <1>3 DEF McpInv, StartsHere
  <2>1. r.kind # "bad" /\ r.id = client.id
    BY <1>3 DEF Mine
  <2>2. CASE r \in ToSet(replies)
    BY <1>4, <2>1, <2>2 DEF McpInv, StartsHere, Mine
  <2>3. CASE r.id = m.id /\ r.ask = m.ask /\ m.id # 0
    <3>1. m.ask = client.ask /\ client.ask = Initialize
      BY <1>8, <2>1, <2>3 DEF Numbered, McpInv, StartsHere
    <3> QED
      BY <1>4, <3>1 DEF Initialize
  <2> QED
    BY <1>6, <2>2, <2>3
<1>11. EndedIsOver'
  BY <1>3, <1>4 DEF McpInv, EndedIsOver
<1>12. HandshakeHolds'
  <2> SUFFICES ASSUME client.initialized, remote.state = "up"
               PROVE  /\ remote'.initialized
                      /\ \/ remote'.ready
                         \/ \E i \in DOMAIN wire' : wire'[i].ask.method = "notifications/initialized"
    BY <1>3, <1>4 DEF HandshakeHolds
  <2>1. remote.initialized
    BY DEF McpInv, HandshakeHolds
  <2>2. CASE \E i \in DOMAIN wire : wire[i].ask.method = "notifications/initialized"
    <3>1. PICK w \in ToSet(wire) : w.ask.method = "notifications/initialized"
      BY <2>2 DEF ToSet
    <3>2. CASE w = m
      BY <1>4, <2>1, <3>1, <3>2
    <3>3. CASE w \in ToSet(wire')
      BY <1>4, <2>1, <3>1, <3>3 DEF ToSet
    <3> QED
      BY <1>2, <3>2, <3>3
  <2> QED
    BY <1>4, <2>1, <2>2 DEF McpInv, HandshakeHolds
<1>13. AnswersAreOwn' /\ HostFollowsTheLists'
  BY <1>3, <1>4 DEF McpInv, AnswersAreOwn, HostFollowsTheLists
<1> QED
  BY <1>7, <1>9, <1>10, <1>11, <1>12, <1>13 DEF McpInv

\* What becomes of a process, and of lines that nobody asked for.
LEMMA BadLineKeeps == ASSUME McpInv, BadLine PROVE McpInv'
<1>1. PICK m : m = [id |-> 0, ask |-> NoAsk, kind |-> "bad"]
  OBVIOUS
<1>2. m \in Messages /\ m.id = 0 /\ m.kind = "bad"
  BY <1>1, AsksTyped DEF Messages
<1>3. /\ replies' = Append(replies, m) /\ replies \in Seq(Messages) /\ reading' = FALSE
      /\ UNCHANGED <<remote, wire, client, next_id, host, taken, spawns, strayed>>
  BY <1>1 DEF McpInv, McpTypes, BadLine
<1>4. replies' \in Seq(Messages) /\ ToSet(replies') = ToSet(replies) \cup {m}
  BY <1>2, <1>3, AddedEntries
<1>5. McpTypes'
  BY <1>3, <1>4 DEF McpInv, McpTypes
<1>6. IdsAreOne'
  BY <1>2, <1>3, <1>4 DEF McpInv, McpTypes, IdsAreOne, Numbered
<1>7. StartsHere' /\ EndedIsOver'
  BY <1>2, <1>3, <1>4 DEF McpInv, StartsHere, EndedIsOver, Mine
<1>8. AnswersAreOwn' /\ HandshakeHolds' /\ HostFollowsTheLists'
  BY <1>3 DEF McpInv, AnswersAreOwn, HandshakeHolds, HostFollowsTheLists
<1> QED
  BY <1>5, <1>6, <1>7, <1>8 DEF McpInv

\* A process that is not up promises nothing.
LEMMA ProcessEnds ==
  ASSUME McpInv, NEW r \in Remotes, remote' = r, r.state # "up", NEW c \in ClientStates, client' = c,
         c.id \in {0, client.id}, c.id # 0 => c = client,
         c.pc \in {"idle", "closing"} => c.id = 0, c.id = 0 => c.pc # "wait",
         r.state # "none" => r.spec = remote.spec /\ remote.state # "none",
         r.state = "none" => ~c.initialized /\ c.pc # "wait", remote.initialized => r.initialized \/ c.id = 0,
         wire' \in {wire, <<>>}, reading' \in BOOLEAN,
         UNCHANGED <<replies, next_id, host, taken, spawns, strayed>>
  PROVE  McpInv'
<1>1. McpTypes' /\ ToSet(wire') \subseteq ToSet(wire)
  BY NoEntries, EmptySeq DEF McpInv, McpTypes
<1>2. IdsAreOne'
  BY <1>1 DEF McpInv, McpTypes, IdsAreOne, Numbered
<1>3. StartsHere' /\ EndedIsOver'
  BY DEF McpInv, StartsHere, EndedIsOver, Mine
<1>4. AnswersAreOwn' /\ HandshakeHolds' /\ HostFollowsTheLists'
  BY DEF McpInv, AnswersAreOwn, HandshakeHolds, HostFollowsTheLists
<1> QED
  BY <1>1, <1>2, <1>3, <1>4 DEF McpInv

LEMMA RemoteKeeps == ASSUME McpInv, RemoteDies \/ BeginClose \/ FinishClose PROVE McpInv'
<1>1. remote \in Remotes /\ client \in ClientStates /\ reading \in BOOLEAN
  BY DEF McpInv, McpTypes
<1>2. CASE RemoteDies
  <2>1. PICK r : r = [remote EXCEPT !.state = "dead"]
    OBVIOUS
  <2>2. /\ r \in Remotes /\ r.state = "dead" /\ r.initialized = remote.initialized
    BY <1>1, <2>1 DEF Remotes
  <2>5. r.spec = remote.spec /\ remote.state = "up"
    BY <1>1, <1>2, <2>1 DEF Remotes, RemoteDies
  <2>3. /\ remote' = r /\ client' = client /\ wire' = <<>> /\ reading' = FALSE
        /\ UNCHANGED <<replies, next_id, host, taken, spawns, strayed>>
    BY <1>2, <2>1 DEF RemoteDies
  <2>4. client.pc \in {"idle", "closing"} => client.id = 0
    BY DEF McpInv, StartsHere
  <2> QED
    BY <1>1, <2>2, <2>3, <2>4, <2>5, ProcessEnds DEF McpInv, StartsHere
<1>3. CASE BeginClose
  <2>1. PICK r : r = [remote EXCEPT !.state = IF @ = "up" THEN "closing" ELSE @]
    OBVIOUS
  <2>2. PICK c : c = [Rests(client) EXCEPT !.pc = "closing"]
    OBVIOUS
  <2>3. /\ r \in Remotes /\ r.state # "up" /\ r.state # "none" /\ r.initialized = remote.initialized
        /\ r.spec = remote.spec /\ remote.state # "none"
    BY <1>1, <1>3, <2>1 DEF Remotes, BeginClose
  <2>4. c \in ClientStates /\ c.id = 0 /\ c.pc = "closing"
    BY <1>1, <2>2, ClientsTyped DEF ClientStates
  <2>5. /\ remote' = r /\ client' = c
        /\ UNCHANGED <<wire, replies, reading, next_id, host, taken, spawns, strayed>>
    BY <1>3, <2>1, <2>2 DEF BeginClose
  <2> QED
    BY <1>1, <2>3, <2>4, <2>5, ProcessEnds
<1>4. CASE FinishClose
  <2>1. PICK c : c = [Rests(client) EXCEPT !.initialized = FALSE]
    OBVIOUS
  <2>2. c \in ClientStates /\ c.id = 0 /\ c.pc = "idle" /\ c.initialized = FALSE
    BY <1>1, <2>1, ClientsTyped DEF ClientStates
  <2>3. Stopped \in Remotes /\ Stopped.state = "none"
    BY DEF Stopped, Remotes
  <2>4. /\ remote' = Stopped /\ client' = c /\ wire' = <<>> /\ reading' = FALSE
        /\ UNCHANGED <<replies, next_id, host, taken, spawns, strayed>>
    BY <1>4, <2>1 DEF FinishClose
  <2> QED
    BY <2>2, <2>3, <2>4, ProcessEnds
<1> QED
  BY <1>2, <1>3, <1>4

\* Requests, answers and lists.
LEMMA StartKeeps == ASSUME McpInv, NEW spec \in McpServers, StartRemote(spec) PROVE McpInv'
<1>1. /\ Sends("start", Initialize, <<>>) /\ remote.state = "none" /\ remote' \in Begun
      /\ reading' = TRUE /\ spawns' = spawns + 1 /\ UNCHANGED <<replies, host, taken, strayed>>
  BY DEF StartRemote, Begun
<1>2. <<>> \in Seq(Messages) /\ ToSet(<<>>) \subseteq ToSet(wire)
  BY EmptySeq, NoEntries
<1>3. Drained /\ strayed' \in BOOLEAN /\ ~strayed' /\ reading' \in BOOLEAN
  BY <1>1 DEF Drained, McpInv, McpTypes, AnswersAreOwn
<1> QED
  BY <1>1, <1>2, <1>3, AsksTyped, ClientSends

\* To a dead process nothing is sent, but a number is used.
LEMMA NumberIsLost ==
  ASSUME McpInv, next_id' = next_id + 1,
         UNCHANGED <<remote, wire, replies, reading, client, host, taken, spawns, strayed>>
  PROVE  McpInv'
<1>1. next_id' \in Nat \ {0} /\ next_id \in Nat /\ client.id \in Nat
  BY DEF McpInv, McpTypes, ClientStates
<1>2. McpTypes'
  BY <1>1 DEF McpInv, McpTypes
<1>3. \A m \in ToSet(wire) \cup ToSet(replies) : m.id \in Nat
  BY EntriesTyped DEF McpInv, McpTypes, Messages
<1>4. IdsAreOne'
  BY <1>1, <1>3 DEF McpInv, IdsAreOne, Numbered
<1>5. StartsHere' /\ EndedIsOver' /\ AnswersAreOwn' /\ HandshakeHolds' /\ HostFollowsTheLists'
  BY DEF McpInv, StartsHere, Mine, EndedIsOver, AnswersAreOwn, HandshakeHolds, HostFollowsTheLists
<1> QED
  BY <1>2, <1>4, <1>5 DEF McpInv

LEMMA AskingKeeps ==
  ASSUME McpInv, NEW job \in {"ask", "discover"}, NEW ask \in Asks, Asking(job, ask),
         job = "discover" => ask \in ListAsks, job = "ask" => Passes(ask),
         UNCHANGED <<remote, replies, reading, host, taken, spawns, strayed>>
  PROVE  McpInv'
<1>1. CASE remote.state = "up"
  <2>1. Sends(job, ask, wire) /\ wire \in Seq(Messages) /\ Drained /\ reading' \in BOOLEAN
        /\ strayed' \in BOOLEAN /\ ~strayed'
    BY <1>1 DEF Asking, McpInv, McpTypes, Drained, AnswersAreOwn
  <2> QED
    BY <1>1, <2>1, ClientSends
<1>2. CASE remote.state # "up"
  BY <1>2, NumberIsLost DEF Asking
<1> QED
  BY <1>1, <1>2

LEMMA WaitEnds == ASSUME McpInv, TimesOut \/ TakesTrouble \/ TakesAnswer PROVE McpInv'
<1>1. client \in ClientStates /\ ~strayed
  BY DEF McpInv, McpTypes, AnswersAreOwn
<1>2. CASE TimesOut \/ TakesTrouble
  BY <1>1, <1>2, ClientsTyped, ClientStops DEF TimesOut, TakesTrouble, Drained
<1>3. CASE TakesAnswer
  <2>1. Takes("ask") /\ client' = Rests(client)
        /\ UNCHANGED <<remote, wire, reading, next_id, host, taken, spawns>>
    BY <1>3 DEF TakesAnswer
  <2>2. strayed' = strayed
    BY <2>1, AnswerIsOwn DEF McpInv, McpTypes, AnswersAreOwn
  <2> QED
    BY <1>1, <2>1, <2>2, ClientsTyped, AnswerIsOwn, ClientStops
<1> QED
  BY <1>2, <1>3

LEMMA HandshakeKeeps == ASSUME McpInv, TakesStart PROVE McpInv'
<1>1. /\ Takes("start") /\ client \in ClientStates /\ client.pc = "wait" /\ client.job = "start"
      /\ strayed' = strayed /\ Drained /\ UNCHANGED <<remote, reading, next_id, host, taken, spawns>>
  BY AnswerIsOwn DEF TakesStart, McpInv, McpTypes, AnswersAreOwn
<1>2. CASE remote.state # "up"
  BY <1>1, <1>2, ClientsTyped, ClientStops DEF TakesStart
<1>3. CASE remote.state = "up"
  <2>1. PICK m : m = [id |-> 0, kind |-> "request", ask |-> Acknowledging]
    OBVIOUS
  <2>2. PICK c : c = [Rests(client) EXCEPT !.initialized = TRUE]
    OBVIOUS
  <2>3. m \in Messages /\ m.id = 0 /\ m.ask.method = "notifications/initialized"
    BY <2>1, AsksTyped DEF Messages, Acknowledging
  <2>4. c \in ClientStates /\ c.id = 0 /\ c.pc = "idle"
    BY <1>1, <2>2, ClientsTyped DEF ClientStates
  <2>5. wire' = Append(wire, m) /\ wire \in Seq(Messages) /\ client' = c
    BY <1>3, <2>1, <2>2 DEF TakesStart, McpInv, McpTypes, Acknowledging
  <2>6. wire' \in Seq(Messages) /\ ToSet(wire') = ToSet(wire) \cup {m}
    BY <2>3, <2>5, AddedEntries
  <2>7. replies' \in Seq(Messages) /\ ToSet(replies') \subseteq ToSet(replies)
    BY <1>1, DrainedTyped DEF McpInv
  <2>8. McpTypes'
    BY <1>1, <2>4, <2>5, <2>6, <2>7 DEF McpInv, McpTypes
  <2>9. IdsAreOne'
    BY <1>1, <2>3, <2>4, <2>5, <2>6, <2>7 DEF McpInv, McpTypes, IdsAreOne, Numbered
  <2>10. StartsHere' /\ EndedIsOver'
    BY <1>1, <1>3, <2>4, <2>5 DEF StartsHere, EndedIsOver, McpInv
  <2>11. remote.initialized
    BY <1>1, AnswerIsOwn DEF McpInv, StartsHere
  <2>12. \E w \in ToSet(wire') : w.ask.method = "notifications/initialized"
    BY <2>3, <2>6
  <2>13. HandshakeHolds'
    BY <1>1, <2>11, <2>12 DEF HandshakeHolds, ToSet
  <2>14. AnswersAreOwn' /\ HostFollowsTheLists'
    BY <1>1, <2>4, <2>5 DEF McpInv, AnswersAreOwn, HostFollowsTheLists
  <2> QED
    BY <2>8, <2>9, <2>10, <2>13, <2>14 DEF McpInv
<1> QED
  BY <1>2, <1>3

\* Whatever discover() accepts of a server's lists, its tools are safe ones of them.
LEMMA FoundIsListed ==
  ASSUME McpTypes, NEW spec
  PROVE  /\ Found(spec).tools = SafePrefix(Offered(spec))
         /\ Found(spec) = [tools |-> Found(spec).tools, uris |-> Found(spec).uris,
                           prompts |-> Found(spec).prompts, discovered |-> Found(spec).discovered]
BY DEF McpTypes, Found, Finds

LEMMA PrefixIsSafe ==
  ASSUME NEW tools
  PROVE  SafePrefix(tools) \subseteq {Schema(t) : t \in {u \in ToSet(tools) : Callable(u)}}
BY DEF SafePrefix, UnsafeAt, ToSet

LEMMA ListKeeps == ASSUME McpInv, TakesList PROVE McpInv'
<1> DEFINE step == CHOOSE i \in DOMAIN Lists : Lists[i] = client.ask.method
           ask == [method |-> Lists[step + 1], name |-> "none"]
<1>1. /\ Takes("discover") /\ client \in ClientStates /\ client.pc = "wait"
      /\ client.job = "discover" /\ strayed' = strayed /\ strayed' \in BOOLEAN /\ ~strayed' /\ Drained
      /\ UNCHANGED <<remote, reading>>
  BY AnswerIsOwn DEF TakesList, McpInv, McpTypes, AnswersAreOwn
<1>2. CASE step < Len(Lists) /\ remote.state = "up"
  <2>1. Sends("discover", ask, wire) /\ UNCHANGED <<host, taken, spawns>> /\ remote.state # "none"
    BY <1>2 DEF TakesList
  <2>2. ask \in ListAsks
    <3>1. \E i \in DOMAIN Lists : Lists[i] = client.ask.method
      BY <1>1, ListsFollow DEF McpInv, StartsHere
    <3>2. step \in 1..3 /\ step < 3
      BY <1>2, <3>1, ListsFollow
    <3>3. \A n \in 1..3 : n < 3 => n + 1 \in 1..3
      OBVIOUS
    <3>4. step + 1 \in 1..3
      BY <3>2, <3>3, Zenon
    <3> QED
      BY <3>4, ListsFollow
  <2>3. wire \in Seq(Messages) /\ reading' \in BOOLEAN
    BY <1>1 DEF McpInv, McpTypes
  <2> HIDE DEF ask
  <2> QED
    BY <1>1, <2>1, <2>2, <2>3, AsksTyped, ClientSends
<1>3. CASE step < Len(Lists) /\ remote.state # "up"
  BY <1>1, <1>3, ClientsTyped, ClientStops DEF TakesList
<1>4. CASE ~(step < Len(Lists))
  <2>1. /\ host' = Found(remote.spec) /\ taken' = spawns /\ spawns' = spawns /\ client' = Rests(client)
        /\ UNCHANGED <<next_id, wire>>
    BY <1>4 DEF TakesList
  <2>2. Rests(client) \in ClientStates /\ Rests(client).id = 0 /\ Rests(client).pc = "idle"
        /\ Rests(client).initialized = client.initialized
    BY <1>1, ClientsTyped
  <2>3. replies' \in Seq(Messages) /\ ToSet(replies') \subseteq ToSet(replies)
    BY <1>1, DrainedTyped DEF McpInv
  <2>4. host' = [tools |-> host'.tools, uris |-> host'.uris, prompts |-> host'.prompts,
                 discovered |-> host'.discovered]
    BY <2>1, FoundIsListed DEF McpInv
  <2>5. McpTypes'
    BY <1>1, <2>1, <2>2, <2>3, <2>4 DEF McpInv, McpTypes
  <2>6. IdsAreOne'
    BY <2>1, <2>2, <2>3 DEF McpInv, McpTypes, IdsAreOne, Numbered
  <2>7. StartsHere' /\ EndedIsOver' /\ AnswersAreOwn' /\ HandshakeHolds'
    BY <1>1, <2>1, <2>2 DEF McpInv, StartsHere, EndedIsOver, AnswersAreOwn, HandshakeHolds
  <2>8. HostFollowsTheLists'
    <3>1. host'.tools \subseteq Safe(remote.spec)
      BY <2>1, FoundIsListed, PrefixIsSafe DEF McpInv, Safe
    <3>2. remote.spec \in McpServers
      BY <1>1 DEF McpInv, EndedIsOver
    <3>3. remote' = remote /\ client'.pc = "idle"
      BY <1>1, <2>1, <2>2
    <3> QED
      BY <3>1, <3>2, <3>3 DEF HostFollowsTheLists
  <2> QED
    BY <2>5, <2>6, <2>7, <2>8 DEF McpInv
<1> QED
  BY <1>2, <1>3, <1>4

LEMMA InitMcpInv == McpInit => McpInv
<1> SUFFICES ASSUME McpInit PROVE McpInv
  OBVIOUS
<1>1. McpTypes
  <2>1. Stopped \in Remotes /\ <<>> \in Seq(Messages)
    BY EmptySeq DEF Stopped, Remotes
  <2>2. client \in ClientStates
    BY AsksTyped DEF McpInit, ClientStates
  <2>3. host = [tools |-> host.tools, uris |-> host.uris, prompts |-> host.prompts,
                discovered |-> host.discovered]
    BY DEF McpInit
  <2>4. remote \in Remotes /\ wire \in Seq(Messages) /\ replies \in Seq(Messages)
    BY <2>1, Zenon DEF McpInit
  <2>5. reading \in BOOLEAN /\ strayed \in BOOLEAN
    BY Zenon DEF McpInit
  <2>6. next_id = 1
    BY DEF McpInit
  <2>7. taken = 0 /\ spawns = 0
    BY DEF McpInit
  <2> QED
    BY <2>2, <2>3, <2>4, <2>5, <2>6, <2>7 DEF McpTypes
<1>2. IdsAreOne /\ StartsHere /\ EndedIsOver
  BY NoEntries DEF McpInit, IdsAreOne, StartsHere, EndedIsOver, Stopped
<1>3. AnswersAreOwn /\ HandshakeHolds /\ HostFollowsTheLists
  BY DEF McpInit, Stopped, AnswersAreOwn, HandshakeHolds, HostFollowsTheLists
<1> QED
  BY <1>1, <1>2, <1>3 DEF McpInv

LEMMA StepMcpInv == McpInv /\ [McpNext]_mcpVars => McpInv'
<1> SUFFICES ASSUME McpInv, [McpNext]_mcpVars PROVE McpInv'
  OBVIOUS
<1>1. ASSUME NEW ask \in Wanted, HostAsks(ask) PROVE McpInv'
  BY <1>1, AsksTyped, AskingKeeps DEF HostAsks
<1>2. CASE Discover
  BY <1>2, AsksTyped, ListsFollow, AskingKeeps DEF Discover
<1>3. CASE UNCHANGED mcpVars
  <2>1. UNCHANGED <<remote, wire, replies, reading, client, next_id, host, taken, spawns, strayed>>
    BY <1>3 DEF mcpVars
  <2> QED
    BY <2>1 DEF McpInv, McpTypes, IdsAreOne, Numbered, StartsHere, Mine, EndedIsOver,
                AnswersAreOwn, HandshakeHolds, HostFollowsTheLists
<1> QED
  BY <1>1, <1>2, <1>3, StartKeeps, ServeKeeps, BadLineKeeps, RemoteKeeps, WaitEnds,
     HandshakeKeeps, ListKeeps DEF McpNext

\* Whatever servers there are and however they end, answer late, badly or not at
\* all: a caller gets the answer to its own request, a finished handshake was
\* with the running process, and once the lists of that process were read the host knows, and calls,
\* only tools that it lists as safe; before, only such that some server did.
THEOREM McpIsSoundHolds == McpSpec => []McpIsSound
<1>1. McpInv => McpIsSound
  BY DEF McpInv, McpIsSound
<1> QED
  BY <1>1, InitMcpInv, StepMcpInv, PTL DEF McpSpec

(***************************************************************************)
(* EventLedger: for any rows, page sizes, operators and interleaving, what *)
(* the pages of a client hold is in order and complete. First the order of *)
(* the rows and what a statement with a limit returns of them.             *)
(***************************************************************************)
Descending(s) == \A i, j \in DOMAIN s : i < j => Below(s[j], s[i])

LEMMA BelowOrders ==
  /\ \A e \in Events : ~Below(e, e)
  /\ \A e, f \in Events : e # f => Below(e, f) \/ Below(f, e)
  /\ \A e, f, g \in Events : Below(e, f) /\ Below(f, g) => Below(e, g)
<1>1. \A e \in Events : e[1] \in Nat /\ e[2] \in Nat /\ e[3] \in Nat /\ e = <<e[1], e[2], e[3]>>
  BY LedgerAssumption
<1>2. ASSUME NEW e \in Events, NEW f \in Events, e # f PROVE Below(e, f) \/ Below(f, e)
  <2>1. e[1] # f[1] \/ e[2] # f[2] \/ e[3] # f[3]
    BY <1>1, <1>2
  <2> QED
    BY <1>1, <2>1 DEF Below
<1>3. \A e, f, g \in Events : Below(e, f) /\ Below(f, g) => Below(e, g)
  BY <1>1 DEF Below
<1>4. \A e \in Events : ~Below(e, e)
  BY <1>1 DEF Below
<1> QED
  BY <1>2, <1>3, <1>4

\* How many rows of a set are above one of them.
Above(set, e) == Cardinality({f \in set : Below(e, f)})

LEMMA AboveIs ==
  ASSUME NEW set \in SUBSET Events, IsFiniteSet(set)
  PROVE  /\ \A e \in set : Above(set, e) \in 0..Cardinality(set) - 1
         /\ \A i \in 1..Cardinality(set) : \E e \in set : Above(set, e) = i - 1
         /\ \A e, f \in set : Below(e, f) => Above(set, f) < Above(set, e)
         /\ \A e, f \in set : e # f => Above(set, e) # Above(set, f)
<1>1. PICK before : before = {p \in set \X set : Below(p[2], p[1])}
  OBVIOUS
<1>2. Orders(before, set)
  BY <1>1, BelowOrders DEF Orders
<1>3. \A e \in set : {f \in set : <<f, e>> \in before} = {f \in set : Below(e, f)}
  BY <1>1
<1>4. /\ \A e \in set : Above(set, e) \in 0..Cardinality(set) - 1
      /\ \A e, f \in set : e # f => Above(set, e) # Above(set, f)
  BY <1>2, <1>3, PlacesDiffer DEF Above
<1>5. \A i \in 1..Cardinality(set) : \E e \in set : Above(set, e) = i - 1
  <2>1. \A i \in 1..Cardinality(set) : \E e \in set : Cardinality({f \in set : <<f, e>> \in before}) = i - 1
    BY <1>2, PlacesAreTaken
  <2> QED
    BY <1>3, <2>1 DEF Above
<1>6. ASSUME NEW e \in set, NEW f \in set, Below(e, f) PROVE Above(set, f) < Above(set, e)
  <2>1. PICK S, T : S = {g \in set : Below(f, g)} /\ T = {g \in set : Below(e, g)}
    OBVIOUS
  <2>2. S \subseteq T /\ IsFiniteSet(T)
    BY <1>6, <2>1, BelowOrders, FS_Subset
  <2>3. Cardinality(S) <= Cardinality(T)
    BY <2>2, FS_Subset
  <2>4. e # f
    BY <1>6, BelowOrders
  <2>5. Above(set, f) <= Above(set, e) /\ Above(set, f) # Above(set, e)
    BY <1>4, <2>1, <2>3, <2>4 DEF Above
  <2>6. Above(set, f) \in Nat /\ Above(set, e) \in Nat
    BY <1>4, FS_CardinalityType
  <2> QED
    BY <2>5, <2>6
<1> QED
  BY <1>4, <1>5, <1>6

LEMMA NewestIs ==
  ASSUME NEW set \in SUBSET Events, IsFiniteSet(set), NEW n \in Nat, NEW s, s = Newest(set, n)
  PROVE  /\ s \in Seq(set) /\ Len(s) \in 0..n /\ Descending(s)
         /\ \A e \in set : e \in ToSet(s) \/ (Len(s) = n /\ \A i \in DOMAIN s : Below(e, s[i]))
<1>1. PICK m : m = IF Cardinality(set) < n THEN Cardinality(set) ELSE n
  OBVIOUS
<1>2. m \in Nat /\ m <= n /\ Cardinality(set) \in Nat /\ m <= Cardinality(set) /\ (m = n \/ m = Cardinality(set))
  BY <1>1, FS_CardinalityType
<1>3. s = [i \in 1..m |-> CHOOSE e \in set : Above(set, e) = i - 1]
  BY <1>1 DEF Newest, Above
<1>4. \A i \in 1..m : s[i] \in set /\ Above(set, s[i]) = i - 1
  <2>1. \A i \in 1..m : i \in 1..Cardinality(set)
    BY <1>2
  <2>2. \A i \in 1..m : \E e \in set : Above(set, e) = i - 1
    BY <2>1, AboveIs
  <2>3. \A i \in 1..m : s[i] = CHOOSE e \in set : Above(set, e) = i - 1
    BY <1>3
  <2> QED
    BY <2>2, <2>3, Zenon
<1>5. s \in Seq(set) /\ Len(s) = m /\ DOMAIN s = 1..m
  <2>1. s \in [1..m -> set]
    BY <1>3, <1>4
  <2> QED
    BY <1>2, <2>1
<1>6. \A e, f \in set : Above(set, e) \in Nat /\ (Above(set, e) < Above(set, f) => Below(f, e))
  <2>1. \A e \in set : Above(set, e) \in Nat
    BY <1>2, AboveIs
  <2>2. ASSUME NEW e \in set, NEW f \in set, Above(set, e) < Above(set, f) PROVE Below(f, e)
    <3>1. e # f
      BY <2>1, <2>2
    <3>2. Below(e, f) => Above(set, f) < Above(set, e)
      BY AboveIs
    <3>3. ~Below(e, f)
      BY <2>1, <2>2, <3>2
    <3> QED
      BY <3>1, <3>3, BelowOrders
  <2> QED
    BY <2>1, <2>2
<1>7. Descending(s)
  <2>1. \A i, j \in 1..m : i < j => i - 1 < j - 1
    BY <1>2
  <2> QED
    BY <1>4, <1>5, <1>6, <2>1 DEF Descending
<1>8. ASSUME NEW e \in set PROVE e \in ToSet(s) \/ (Len(s) = n /\ \A i \in DOMAIN s : Below(e, s[i]))
  <2>1. PICK k : k = Above(set, e) + 1
    OBVIOUS
  <2>2. k \in Nat /\ k >= 1 /\ k <= Cardinality(set) /\ k - 1 = Above(set, e)
    BY <1>2, <2>1, AboveIs
  <2>3. CASE k <= m
    <3>1. k \in 1..m
      BY <1>2, <2>2, <2>3
    <3>2. Above(set, s[k]) = Above(set, e) /\ s[k] \in set
      BY <1>4, <2>2, <3>1
    <3>3. s[k] = e
      BY <3>2, AboveIs
    <3> QED
      BY <1>5, <3>1, <3>3 DEF ToSet
  <2>4. CASE m < k
    <3>1. m = n
      BY <1>2, <2>2, <2>4
    <3>2. \A i \in 1..m : i - 1 < k - 1
      BY <1>2, <2>2, <2>4
    <3>3. \A i \in 1..m : Above(set, s[i]) < Above(set, e)
      BY <1>4, <2>2, <3>2
    <3>4. \A i \in 1..m : Below(e, s[i])
      BY <1>4, <1>6, <3>3
    <3> QED
      BY <1>5, <3>1, <3>4
  <2> QED
    BY <1>2, <2>2, <2>3, <2>4
<1> QED
  BY <1>2, <1>5, <1>7, <1>8

-----------------------------------------------------------------------------
(* A page.                                                                 *)

Of(page, found, limit) == page = SubSeq(found, 1, IF Len(found) > limit THEN limit ELSE Len(found))

LEMMA PageIs ==
  ASSUME NEW set \in SUBSET Events, IsFiniteSet(set), NEW limit \in Nat \ {0},
         NEW found, found = Newest(set, limit + 1), NEW page, Of(page, found, limit)
  PROVE  /\ page \in Seq(set) /\ Descending(page)
         /\ Len(found) <= limit => set \subseteq ToSet(page)
         /\ Len(found) > limit =>
              /\ page # <<>>
              /\ \A e \in set : e \in ToSet(page) \/ Below(e, page[Len(page)])
<1>1. limit + 1 \in Nat
  OBVIOUS
<1>2. /\ found \in Seq(set) /\ Len(found) \in 0..limit + 1 /\ Descending(found)
      /\ \A e \in set : e \in ToSet(found) \/ (Len(found) = limit + 1 /\ \A i \in DOMAIN found : Below(e, found[i]))
  BY <1>1, NewestIs
<1>3. PICK m : m = IF Len(found) > limit THEN limit ELSE Len(found)
  OBVIOUS
<1>4. m \in Nat /\ m <= Len(found) /\ Len(found) \in Nat /\ limit \in Nat
  BY <1>2, <1>3
<1>5. page = SubSeq(found, 1, m)
  BY <1>3 DEF Of
<1>6. page \in Seq(set) /\ Len(page) = m /\ DOMAIN page = 1..m /\ \A i \in 1..m : page[i] = found[i]
  BY <1>2, <1>4, <1>5
<1>7. DOMAIN found = 1..Len(found)
  BY <1>2
<1>8. Descending(page)
  <2>1. \A i \in 1..m : i \in 1..Len(found)
    BY <1>4
  <2> QED
    BY <1>2, <1>6, <1>7, <2>1 DEF Descending
<1>9. ASSUME Len(found) <= limit PROVE set \subseteq ToSet(page)
  <2>1. m = Len(found) /\ Len(found) # limit + 1
    BY <1>3, <1>4, <1>9
  <2>2. set \subseteq ToSet(found)
    BY <1>2, <2>1
  <2>3. ToSet(found) = ToSet(page)
    BY <1>6, <1>7, <2>1 DEF ToSet
  <2> QED
    BY <2>2, <2>3
<1>10. ASSUME Len(found) > limit
       PROVE  page # <<>> /\ \A e \in set : e \in ToSet(page) \/ Below(e, page[Len(page)])
  <2>1. m = limit /\ m \in 1..m /\ Len(found) = m + 1 /\ m \in 1..Len(found) /\ m + 1 \in 1..Len(found) /\ m < m + 1
    BY <1>2, <1>3, <1>4, <1>10
  <2>2. page # <<>>
    BY <1>6, <2>1
  <2>3. ASSUME NEW e \in set, e \notin ToSet(page) PROVE Below(e, page[m])
    <3>1. CASE e \in ToSet(found)
      <4>1. PICK i \in 1..Len(found) : found[i] = e
        BY <1>7, <3>1 DEF ToSet
      <4>2. i \notin 1..m
        BY <1>6, <2>3, <4>1 DEF ToSet
      <4>3. i = m + 1
        BY <1>4, <2>1, <4>1, <4>2
      <4> QED
        BY <1>2, <1>6, <1>7, <2>1, <4>1, <4>3 DEF Descending
    <3>2. CASE e \notin ToSet(found)
      BY <1>2, <1>6, <1>7, <2>1, <3>2
    <3> QED
      BY <3>1, <3>2
  <2> QED
    BY <1>6, <2>2, <2>3
<1> QED
  BY <1>6, <1>8, <1>9, <1>10

LEMMA DescendingJoined ==
  ASSUME NEW s \in Seq(Events), NEW t \in Seq(Events), Descending(s), Descending(t),
         \A e \in ToSet(t), i \in DOMAIN s : Below(e, s[i])
  PROVE  Descending(s \o t) /\ ToSet(s \o t) = ToSet(s) \cup ToSet(t)
<1>1. PICK u : u = s \o t
  OBVIOUS
<1>2. PICK m, n : m = Len(s) /\ n = Len(t)
  OBVIOUS
<1>3. /\ m \in Nat /\ n \in Nat /\ DOMAIN s = 1..m /\ DOMAIN t = 1..n /\ DOMAIN u = 1..m + n
      /\ \A i \in 1..m : u[i] = s[i] /\ i \in 1..m + n
      /\ \A i \in 1..n : u[m + i] = t[i] /\ m + i \in 1..m + n
  BY <1>1, <1>2
<1>4. \A k \in 1..m + n : k \in 1..m \/ \E i \in 1..n : k = m + i
  <2>1. ASSUME NEW k \in 1..m + n, k \notin 1..m PROVE k - m \in 1..n /\ k = m + (k - m)
    BY <1>3, <2>1
  <2> QED
    BY <2>1
<1>5. ASSUME NEW i \in 1..m + n, NEW j \in 1..m + n, i < j PROVE Below(u[j], u[i])
  <2>1. CASE j \in 1..m
    <3>1. i \in 1..m
      BY <1>3, <1>5, <2>1
    <3> QED
      BY <1>3, <1>5, <2>1, <3>1 DEF Descending
  <2>2. CASE j \notin 1..m
    <3>1. PICK b \in 1..n : j = m + b
      BY <1>4, <2>2
    <3>2. CASE i \in 1..m
      BY <1>3, <3>1, <3>2 DEF ToSet
    <3>3. CASE i \notin 1..m
      <4>1. PICK a \in 1..n : i = m + a
        BY <1>4, <3>3
      <4>2. a < b
        BY <1>3, <1>5, <3>1, <4>1
      <4> QED
        BY <1>3, <3>1, <4>1, <4>2 DEF Descending
    <3> QED
      BY <3>2, <3>3
  <2> QED
    BY <2>1, <2>2
<1>6. ToSet(u) = ToSet(s) \cup ToSet(t)
  <2>1. ToSet(u) = {u[k] : k \in 1..m + n} /\ ToSet(s) = {s[k] : k \in 1..m} /\ ToSet(t) = {t[k] : k \in 1..n}
    BY <1>3 DEF ToSet
  <2>2. ASSUME NEW k \in 1..m + n PROVE u[k] \in ToSet(s) \cup ToSet(t)
    <3>1. CASE k \in 1..m
      BY <1>3, <2>1, <3>1
    <3>2. CASE k \notin 1..m
      <4>1. PICK i \in 1..n : k = m + i
        BY <1>4, <3>2
      <4>2. u[k] = t[i]
        BY <1>3, <4>1
      <4> QED
        BY <2>1, <4>2
    <3> QED
      BY <3>1, <3>2
  <2>3. \A k \in 1..m : s[k] \in ToSet(u)
    BY <1>3, <2>1
  <2>4. \A k \in 1..n : t[k] \in ToSet(u)
    BY <1>3, <2>1
  <2> QED
    BY <2>1, <2>2, <2>3, <2>4
<1> QED
  BY <1>1, <1>3, <1>5, <1>6 DEF Descending

-----------------------------------------------------------------------------
(* A client's pages.                                                       *)

\* What a client has seen and what it will be given.
Walked(w) ==
  /\ w.seen \in Seq(Events) /\ Descending(w.seen) /\ w.steady \subseteq Events
  /\ w.at = "idle" => w.seen = <<>>
  /\ w.at = "more" => /\ w.sort \in Events
                      /\ \A i \in DOMAIN w.seen : w.sort = w.seen[i] \/ Below(w.sort, w.seen[i])
                      /\ \A e \in w.steady : e \in ToSet(w.seen) \/ Below(e, w.sort)
  /\ w.at = "done" => w.steady \subseteq ToSet(w.seen)

LedgerInv ==
  /\ rows \subseteq Events /\ IsFiniteSet(rows)
  /\ Walked(walk)

\* The rows of a page lie below those of the pages before.
LEMMA PageKeeps ==
  ASSUME LedgerInv, NEW set \in SUBSET rows, NEW limit \in PageLimits, NEW filters, NEW since,
         Page(set, filters, since, limit),
         \/ walk.at = "idle" /\ set = Matching(filters, since)
         \/ walk.at = "more" /\ set = Following(Matching(filters, since), walk.sort)
  PROVE  Walked(walk')
<1>1. PICK w, match : w = walk /\ match = Matching(filters, since)
  OBVIOUS
<1>2. PICK found : found = Newest(set, limit + 1)
  OBVIOUS
<1>3. PICK page : Of(page, found, limit)
  BY DEF Of
<1>4. walk' = [at |-> IF Len(found) > limit THEN "more" ELSE "done", filters |-> filters, since |-> since,
               sort |-> IF page = <<>> THEN w.sort ELSE page[Len(page)], seen |-> w.seen \o page,
               steady |-> IF w.at = "more" THEN w.steady \cap match ELSE match]
  BY <1>1, <1>2, <1>3 DEF Page, Of
<1>5. limit \in Nat \ {0} /\ set \in SUBSET Events /\ IsFiniteSet(set) /\ match \subseteq Events
  BY <1>1, LedgerAssumption, FS_Subset DEF LedgerInv, Matching
<1>6. /\ page \in Seq(set) /\ Descending(page) /\ Len(found) \in Nat
      /\ Len(found) <= limit => set \subseteq ToSet(page)
      /\ Len(found) > limit =>
           page # <<>> /\ \A e \in set : e \in ToSet(page) \/ Below(e, page[Len(page)])
  <2>1. limit + 1 \in Nat
    BY <1>5
  <2>2. Len(found) \in Nat
    BY <1>2, <1>5, <2>1, NewestIs
  <2> QED
    BY <1>2, <1>3, <1>5, <2>2, PageIs
<1>7. Walked(w)
  BY <1>1 DEF LedgerInv
<1>8. page \in Seq(Events) /\ w.seen \in Seq(Events) /\ ToSet(page) \subseteq set
  BY <1>5, <1>6, <1>7 DEF Walked, ToSet
<1>9. \A e \in set, i \in DOMAIN w.seen : Below(e, w.seen[i])
  <2>1. CASE w.at = "idle"
    BY <1>7, <2>1 DEF Walked
  <2>2. CASE w.at = "more"
    <3>1. \A e \in set : Below(e, w.sort) /\ e \in Events
      BY <1>1, <1>5, <2>2 DEF Following
    <3>2. \A i \in DOMAIN w.seen : w.seen[i] \in Events
      BY <1>8
    <3>3. w.sort \in Events /\ \A i \in DOMAIN w.seen : w.sort = w.seen[i] \/ Below(w.sort, w.seen[i])
      BY <1>7, <2>2 DEF Walked
    <3> QED
      BY <3>1, <3>2, <3>3, BelowOrders
  <2> QED
    BY <1>1, <2>1, <2>2
<1>10. PICK s : s = w.seen \o page
  OBVIOUS
<1>11. s \in Seq(Events) /\ Descending(s) /\ ToSet(s) = ToSet(w.seen) \cup ToSet(page)
  <2>1. Descending(w.seen) /\ \A e \in ToSet(page), i \in DOMAIN w.seen : Below(e, w.seen[i])
    BY <1>7, <1>8, <1>9 DEF Walked
  <2>2. s \in Seq(Events)
    BY <1>8, <1>10
  <2> QED
    BY <1>6, <1>8, <1>10, <2>1, <2>2, DescendingJoined
<1>12. PICK steady : steady = IF w.at = "more" THEN w.steady \cap match ELSE match
  OBVIOUS
<1>13. steady \subseteq Events /\ \A e \in steady : e \in ToSet(w.seen) \/ e \in set
  <2>1. CASE w.at = "idle"
    BY <1>1, <1>5, <1>12, <2>1
  <2>2. CASE w.at = "more"
    BY <1>1, <1>5, <1>7, <1>12, <2>2 DEF Walked, Following
  <2> QED
    BY <1>1, <2>1, <2>2
<1>14. CASE Len(found) > limit
  <2>1. PICK last : last = page[Len(page)]
    OBVIOUS
  <2>2. /\ walk'.at = "more" /\ walk'.sort = last /\ walk'.seen = s /\ walk'.steady = steady
    BY <1>4, <1>6, <1>10, <1>12, <1>14, <2>1
  <2>3. page # <<>> /\ Len(page) \in DOMAIN page /\ last \in set /\ last \in Events
    BY <1>5, <1>6, <1>8, <1>14, <2>1
  <2>4. \A i \in DOMAIN s : last = s[i] \/ Below(last, s[i])
    <3>1. \A e \in ToSet(page) : last = e \/ Below(last, e)
      <4>1. \A i \in DOMAIN page : i = Len(page) \/ i < Len(page)
        BY <1>6
      <4> QED
        BY <1>6, <2>1, <2>3, <4>1 DEF Descending, ToSet
    <3>2. \A e \in ToSet(w.seen) : Below(last, e)
      BY <1>9, <2>3 DEF ToSet
    <3>3. \A i \in DOMAIN s : s[i] \in ToSet(s)
      BY DEF ToSet
    <3> QED
      BY <1>11, <3>1, <3>2, <3>3
  <2>5. \A e \in steady : e \in ToSet(s) \/ Below(e, last)
    BY <1>6, <1>11, <1>13, <1>14, <2>1
  <2> QED
    BY <1>11, <1>13, <2>2, <2>3, <2>4, <2>5 DEF Walked
<1>15. CASE ~(Len(found) > limit)
  <2>1. walk'.at = "done" /\ walk'.seen = s /\ walk'.steady = steady
    BY <1>4, <1>10, <1>12, <1>15
  <2>2. Len(found) <= limit
    BY <1>5, <1>6, <1>15
  <2>3. steady \subseteq ToSet(s)
    BY <1>6, <1>11, <1>13, <2>2
  <2> QED
    BY <1>11, <1>13, <2>1, <2>3 DEF Walked
<1> QED
  BY <1>14, <1>15

\* One answer after the other.
AnswersInv ==
  /\ acknowledged \in [Events -> Reviewers \cup {"OPEN"}]
  /\ \A o \in Reviewers : deciding[o].at = "read" =>
       deciding[o].event \in Events /\ (deciding[o].already # "no" => acknowledged[deciding[o].event] # "OPEN")
  /\ \A a \in answers : a.event \in Events
  /\ deciding \in [Reviewers -> [at : {"idle", "read"}, event : {Origin} \cup Events, already : {"no", "yes"}]]
  /\ FirstAcknowledgementStays

LEMMA AnswersStep == AnswersInv /\ LedgerInv /\ [LedgerNext]_ledgerVars => AnswersInv'
<1> SUFFICES ASSUME AnswersInv, LedgerInv, [LedgerNext]_ledgerVars PROVE AnswersInv'
  OBVIOUS
<1>1. ASSUME NEW o \in Reviewers, NEW e \in Events, SelectEvent(o, e) PROVE AnswersInv'
  BY <1>1 DEF SelectEvent, AnswersInv, FirstAcknowledgementStays, Status
<1>2. ASSUME NEW o \in Reviewers, Acknowledge(o) PROVE AnswersInv'
  <2>1. PICK e, yes : e = deciding[o].event /\ yes = deciding[o].already
    OBVIOUS
  <2>2. e \in Events /\ (yes # "no" => acknowledged[e] # "OPEN") /\ yes \in {"no", "yes"} /\ o # "OPEN"
    BY <1>2, <2>1, LedgerAssumption DEF AnswersInv, Acknowledge
  <2>3. /\ acknowledged' = IF yes = "no" /\ acknowledged[e] = "OPEN" THEN [acknowledged EXCEPT ![e] = o] ELSE acknowledged
        /\ answers' = answers \cup {[event |-> e, to |-> o, already |-> yes, by |-> acknowledged'[e]]}
        /\ deciding' = [deciding EXCEPT ![o] = Undecided]
    BY <1>2, <2>1 DEF Acknowledge, Updatable, Status
  <2>4. /\ acknowledged' \in [Events -> Reviewers \cup {"OPEN"}] /\ acknowledged'[e] # "OPEN"
        /\ \A f \in Events : acknowledged[f] # "OPEN" => acknowledged'[f] = acknowledged[f]
    BY <2>2, <2>3 DEF AnswersInv
  <2>5. FirstAcknowledgementStays'
    BY <2>3, <2>4 DEF AnswersInv, FirstAcknowledgementStays
  <2>6. \A a \in answers' : a.event \in Events
    BY <2>2, <2>3 DEF AnswersInv
  <2>7. deciding' \in [Reviewers -> [at : {"idle", "read"}, event : {Origin} \cup Events, already : {"no", "yes"}]]
    BY <2>3 DEF AnswersInv, Undecided
  <2>8. \A p \in Reviewers : deciding'[p].at = "read" =>
          /\ deciding'[p].event \in Events
          /\ deciding'[p].already # "no" => acknowledged'[deciding'[p].event] # "OPEN"
    BY <2>3, <2>4 DEF AnswersInv, Undecided
  <2> QED
    BY <2>4, <2>5, <2>6, <2>7, <2>8 DEF AnswersInv
<1>3. CASE UNCHANGED <<acknowledged, deciding, answers>>
  BY <1>3 DEF AnswersInv, FirstAcknowledgementStays
<1> QED
  BY <1>1, <1>2, <1>3 DEF LedgerNext, AppendEvent, FirstPage, NextPage, CursorLost, ledgerVars

LEMMA LedgerStep == LedgerInv /\ [LedgerNext]_ledgerVars => LedgerInv'
<1> SUFFICES ASSUME LedgerInv, [LedgerNext]_ledgerVars PROVE LedgerInv'
  OBVIOUS
<1>1. ASSUME NEW e \in Events, AppendEvent(e) PROVE LedgerInv'
  BY <1>1, FS_AddElement DEF AppendEvent, LedgerInv
<1>2. ASSUME NEW filters \in Filters, NEW since \in Openings, NEW limit \in PageLimits,
             FirstPage(filters, since, limit)
      PROVE  LedgerInv'
  <2>1. PICK set : set = Matching(filters, since)
    OBVIOUS
  <2>2. set \in SUBSET rows
    BY <2>1 DEF Matching
  <2>3. Walked(walk')
    BY <1>2, <2>1, <2>2, PageKeeps DEF FirstPage
  <2> QED
    BY <1>2, <2>3 DEF FirstPage, LedgerInv
<1>3. ASSUME NEW limit \in PageLimits, NextPage(limit) PROVE LedgerInv'
  <2>1. PICK set : set = Following(Matching(walk.filters, walk.since), walk.sort)
    OBVIOUS
  <2>2. set \in SUBSET rows
    BY <2>1 DEF Matching, Following
  <2>3. PICK filters, since : filters = walk.filters /\ since = walk.since
    OBVIOUS
  <2>4. Walked(walk')
    BY <1>3, <2>1, <2>2, <2>3, PageKeeps DEF NextPage
  <2> QED
    BY <1>3, <2>4 DEF NextPage, LedgerInv
<1>4. CASE CursorLost
  BY <1>4 DEF CursorLost, LedgerInv, Walked, NoWalk, Descending
<1>5. CASE UNCHANGED <<rows, walk>>
  BY <1>5 DEF LedgerInv
<1> QED
  BY <1>1, <1>2, <1>3, <1>4, <1>5 DEF LedgerNext, Acknowledge, SelectEvent, ledgerVars

LEMMA LedgerStarts == LedgerInit => LedgerInv /\ AnswersInv
<1> SUFFICES ASSUME LedgerInit PROVE LedgerInv /\ AnswersInv
  OBVIOUS
<1>1. LedgerInv
  BY FS_EmptySet DEF LedgerInit, LedgerInv, Walked, NoWalk, Descending
<1>2. AnswersInv
  BY DEF LedgerInit, AnswersInv, FirstAcknowledgementStays, Undecided
<1> QED
  BY <1>1, <1>2

\* However rows arrive late and change their status between the pages of a client, no event
\* comes twice or out of order and none that matched all along is left out, and the answers
\* about an event name the operator its row holds.
THEOREM LedgerIsExactHolds == LedgerSpec => []LedgerIsExact
<1>1. LedgerInv /\ AnswersInv => LedgerIsExact
  BY DEF LedgerInv, AnswersInv, LedgerIsExact, WalksAreExact, Walked, Descending
<1> QED
  BY <1>1, LedgerStarts, LedgerStep, AnswersStep, PTL DEF LedgerSpec

(***************************************************************************)
(* EventSummary: for any table, question, group limit and references, the  *)
(* parts of a report add up while nothing changes, only grow while rows    *)
(* only arrive, and say what they compare. First what the library's sum of *)
(* a function over a finite set is.                                        *)
(***************************************************************************)

Picked(s) == CHOOSE x \in s : TRUE

Summing(f, S, g) ==
  g = [s \in SUBSET S |-> IF s = {} THEN 0 ELSE f[Picked(s)] + g[s \ {Picked(s)}]]

\* The function that the library's sum is defined by exists.
LEMMA SummingExists ==
  ASSUME NEW f, NEW S, IsFiniteSet(S) PROVE \E g : Summing(f, S, g)
<1> DEFINE Small(n) == {s \in SUBSET S : Cardinality(s) <= n}
           Body(g, s) == IF s = {} THEN 0 ELSE f[Picked(s)] + g[s \ {Picked(s)}]
           Solves(g, n) == g = [s \in Small(n) |-> Body(g, s)]
           N == {n \in Nat : \E g : Solves(g, n)}
<1>1. \A s \in SUBSET S : IsFiniteSet(s) /\ Cardinality(s) \in Nat
  BY FS_Subset, FS_CardinalityType
<1>2. 0 \in N
  <2>1. \A s \in Small(0) : s = {}
    <3>1. \A s \in Small(0) : IsFiniteSet(s) /\ Cardinality(s) = 0
      BY <1>1
    <3> QED
      BY <3>1, FS_EmptySet
  <2>2. PICK g : g = [s \in Small(0) |-> 0]
    OBVIOUS
  <2>3. Solves(g, 0)
    BY <2>1, <2>2
  <2> QED
    BY <2>3
<1>3. ASSUME NEW n \in Nat, n \in N PROVE n + 1 \in N
  <2>1. PICK g : Solves(g, n)
    BY <1>3
  <2>2. PICK h : h = [s \in Small(n + 1) |-> Body(g, s)]
    OBVIOUS
  <2>3. ASSUME NEW s \in Small(n + 1), s # {} PROVE s \ {Picked(s)} \in Small(n)
    <3>1. PICK k : k = s \ {Picked(s)}
      OBVIOUS
    <3>2. Picked(s) \in s
      BY <2>3 DEF Picked
    <3>3. k \in SUBSET s /\ k # s /\ k \in SUBSET S
      BY <2>3, <3>1, <3>2
    <3>4. Cardinality(k) <= Cardinality(s) /\ Cardinality(k) # Cardinality(s)
      BY <1>1, <3>3, FS_Subset
    <3>5. Cardinality(k) \in Nat /\ Cardinality(s) \in Nat /\ Cardinality(s) <= n + 1
      BY <1>1, <3>3
    <3>6. \A x, y, z \in Nat : x <= y /\ x # y /\ y <= z + 1 => x <= z
      OBVIOUS
    <3>7. Cardinality(k) <= n
      BY <3>4, <3>5, <3>6, ZenonT(30)
    <3> QED
      BY <3>1, <3>3, <3>7
  <2>4. Small(n) \subseteq Small(n + 1)
    <3>1. \A x, z \in Nat : x <= z => x <= z + 1
      OBVIOUS
    <3> QED
      BY <1>1, <3>1, ZenonT(30)
  <2> HIDE DEF Small
  <2>5. \A s \in Small(n) : h[s] = g[s]
    BY <2>1, <2>2, <2>4
  <2>6. \A s \in Small(n + 1) : Body(g, s) = Body(h, s)
    BY <2>3, <2>5
  <2>7. Solves(h, n + 1)
    <3> HIDE DEF Body
    <3> QED
      BY <2>2, <2>6
  <2>8. n + 1 \in Nat
    OBVIOUS
  <2> HIDE DEF Solves
  <2> QED
    BY <2>7, <2>8
<1>4. Nat \subseteq N
  <2> HIDE DEF N
  <2> QED
    BY <1>2, <1>3, SetInduction
<1>5. PICK n : n = Cardinality(S)
  OBVIOUS
<1>6. n \in N
  BY <1>1, <1>4, <1>5
<1>7. PICK g : Solves(g, n)
  BY <1>6
<1>8. Small(n) = SUBSET S
  BY <1>5, FS_Subset
<1> QED
  <2> HIDE DEF Small
  <2>1. g = [s \in SUBSET S |-> Body(g, s)]
    BY <1>7, <1>8
  <2> QED
    BY <2>1 DEF Summing

LEMMA SumIsSumming ==
  ASSUME NEW f, NEW S, IsFiniteSet(S)
  PROVE  \E g : Summing(f, S, g) /\ SumFunctionOnSet(f, S) = g[S]
<1>1. Summing(f, S, CHOOSE g : Summing(f, S, g))
  BY SummingExists
<1>2. SumFunctionOnSet(f, S) = (CHOOSE g : Summing(f, S, g))[S]
  BY Zenon DEF SumFunctionOnSet, FoldFunctionOnSet, MapThenFoldSet, Summing, Picked
<1> QED
  BY <1>1, <1>2

\* A sum depends on the values of its set alone.
LEMMA SumsAgree ==
  ASSUME NEW f, NEW S, NEW g, Summing(f, S, g), NEW h, NEW T, NEW k, Summing(h, T, k),
         NEW R \in SUBSET S, R \in SUBSET T, IsFiniteSet(R), \A x \in R : f[x] = h[x]
  PROVE  g[R] = k[R]
<1> DEFINE N == {n \in Nat : \A r \in SUBSET R : Cardinality(r) <= n => g[r] = k[r]}
<1>1. \A r \in SUBSET R : IsFiniteSet(r) /\ Cardinality(r) \in Nat /\ r \in SUBSET S /\ r \in SUBSET T
  BY FS_Subset, FS_CardinalityType
<1>2. g[{}] = k[{}]
  BY DEF Summing
<1>3. 0 \in N
  <2>1. ASSUME NEW r \in SUBSET R, Cardinality(r) <= 0 PROVE r = {}
    BY <1>1, <2>1, FS_EmptySet
  <2> QED
    BY <1>2, <2>1
<1>4. ASSUME NEW n \in Nat, n \in N PROVE n + 1 \in N
  <2> SUFFICES ASSUME NEW r \in SUBSET R, Cardinality(r) <= n + 1 PROVE g[r] = k[r]
    OBVIOUS
  <2>0. SUFFICES ASSUME r # {} PROVE g[r] = k[r]
    BY <1>2
  <2>1. PICK p : p = Picked(r)
    OBVIOUS
  <2>2. p \in r
    BY <2>0, <2>1 DEF Picked
  <2>3. PICK q : q = r \ {p}
    OBVIOUS
  <2>4. q \in SUBSET R /\ q \in SUBSET r /\ q # r
    BY <2>2, <2>3
  <2>5. Cardinality(q) <= n
    <3>1. Cardinality(q) <= Cardinality(r) /\ Cardinality(q) # Cardinality(r)
      BY <1>1, <2>4, FS_Subset
    <3>2. Cardinality(q) \in Nat /\ Cardinality(r) \in Nat
      BY <1>1, <2>4
    <3>3. \A x, y, z \in Nat : x <= y /\ x # y /\ y <= z + 1 => x <= z
      OBVIOUS
    <3> HIDE DEF N
    <3> QED
      BY <3>1, <3>2, <3>3, ZenonT(30)
  <2>6. g[q] = k[q]
    BY <1>4, <2>4, <2>5
  <2>7. g[r] = f[p] + g[q] /\ k[r] = h[p] + k[q]
    BY <1>1, <2>0, <2>1, <2>3 DEF Summing
  <2> QED
    BY <2>2, <2>6, <2>7
<1>5. Nat \subseteq N
  <2> HIDE DEF N
  <2> QED
    BY <1>3, <1>4, SetInduction
<1>6. PICK n : n = Cardinality(R)
  OBVIOUS
<1> QED
  BY <1>1, <1>5, <1>6

LEMMA SumSame ==
  ASSUME NEW f, NEW h, NEW S, IsFiniteSet(S), \A x \in S : f[x] = h[x]
  PROVE  SumFunctionOnSet(f, S) = SumFunctionOnSet(h, S)
<1>1. PICK g : Summing(f, S, g) /\ SumFunctionOnSet(f, S) = g[S]
  BY SumIsSumming
<1>2. PICK k : Summing(h, S, k) /\ SumFunctionOnSet(h, S) = k[S]
  BY SumIsSumming
<1> QED
  BY <1>1, <1>2, SumsAgree

\* One summand after the other, whichever is taken first.
LEMMA SumIs ==
  ASSUME NEW f, NEW S, IsFiniteSet(S), \A x \in S : f[x] \in Int
  PROVE  /\ SumFunctionOnSet(f, S) \in Int
         /\ S = {} => SumFunctionOnSet(f, S) = 0
         /\ \A x \in S : SumFunctionOnSet(f, S) = f[x] + SumFunctionOnSet(f, S \ {x})
<1>1. PICK g : Summing(f, S, g) /\ SumFunctionOnSet(f, S) = g[S]
  BY SumIsSumming
<1>2. \A s \in SUBSET S : IsFiniteSet(s) /\ Cardinality(s) \in Nat
  BY FS_Subset, FS_CardinalityType
<1>3. ASSUME NEW s \in SUBSET S PROVE SumFunctionOnSet(f, s) = g[s]
  <2>1. PICK k : Summing(f, s, k) /\ SumFunctionOnSet(f, s) = k[s]
    BY <1>2, SumIsSumming
  <2> QED
    BY <1>1, <1>2, <2>1, SumsAgree
<1> DEFINE Good(s) == g[s] \in Int /\ \A x \in s : g[s] = f[x] + g[s \ {x}]
           N == {n \in Nat : \A s \in SUBSET S : Cardinality(s) <= n => Good(s)}
<1>4. g[{}] = 0
  BY <1>1 DEF Summing
<1>5. 0 \in N
  <2>1. ASSUME NEW s \in SUBSET S, Cardinality(s) <= 0 PROVE s = {}
    BY <1>2, <2>1, FS_EmptySet
  <2>2. Good({})
    BY <1>4
  <2> HIDE DEF Good
  <2> QED
    BY <2>1, <2>2
<1>6. ASSUME NEW n \in Nat, n \in N PROVE n + 1 \in N
  <2> SUFFICES ASSUME NEW s \in SUBSET S, Cardinality(s) <= n + 1 PROVE Good(s)
    OBVIOUS
  <2>0. SUFFICES ASSUME s # {} PROVE Good(s)
    BY <1>4
  <2>1. PICK p : p = Picked(s)
    OBVIOUS
  <2>2. p \in s
    BY <2>0, <2>1 DEF Picked
  <2>3. g[s] = f[p] + g[s \ {p}]
    BY <1>1, <2>0, <2>1 DEF Summing
  <2>4. ASSUME NEW x \in s PROVE s \ {x} \in SUBSET S /\ Cardinality(s \ {x}) <= n
    <3>1. PICK q : q = s \ {x}
      OBVIOUS
    <3>2. q \in SUBSET S /\ q \in SUBSET s /\ q # s
      BY <2>4, <3>1
    <3>3. Cardinality(q) <= Cardinality(s) /\ Cardinality(q) # Cardinality(s)
      BY <1>2, <3>2, FS_Subset
    <3>4. Cardinality(q) \in Nat /\ Cardinality(s) \in Nat
      BY <1>2, <3>2
    <3>5. \A a, b, c \in Nat : a <= b /\ a # b /\ b <= c + 1 => a <= c
      OBVIOUS
    <3>6. Cardinality(q) <= n
      <4> HIDE DEF N
      <4> QED
        BY <3>3, <3>4, <3>5, ZenonT(30)
    <3> QED
      BY <3>1, <3>2, <3>6
  <2>5. ASSUME NEW x \in s PROVE g[s \ {x}] \in Int /\ \A y \in s \ {x} : g[s \ {x}] = f[y] + g[(s \ {x}) \ {y}]
    BY <1>6, <2>4
  <2> HIDE DEF N
  <2>6. g[s] \in Int
    <3>1. f[p] \in Int /\ g[s \ {p}] \in Int
      BY <2>2, <2>5
    <3> QED
      BY <2>3, <3>1
  <2>7. ASSUME NEW x \in s PROVE g[s] = f[x] + g[s \ {x}]
    <3>1. CASE x = p
      BY <2>3, <3>1
    <3>2. CASE x # p
      <4>1. PICK r : r = (s \ {p}) \ {x}
        OBVIOUS
      <4>2. (s \ {x}) \ {p} = r
        BY <4>1
      <4>3. g[s \ {p}] = f[x] + g[r]
        BY <2>2, <2>5, <2>7, <3>2, <4>1
      <4>4. g[s \ {x}] = f[p] + g[r]
        BY <2>2, <2>5, <2>7, <3>2, <4>2
      <4>5. \A y \in s \ {p} : g[(s \ {p}) \ {y}] \in Int
        <5>1. \A y \in s \ {p} : (s \ {p}) \ {y} \in SUBSET S /\ Cardinality((s \ {p}) \ {y}) <= n
          <6>1. ASSUME NEW y \in s \ {p}
                PROVE  (s \ {p}) \ {y} \in SUBSET S /\ Cardinality((s \ {p}) \ {y}) <= n
            <7>1. PICK u, v : u = s \ {p} /\ v = u \ {y}
              OBVIOUS
            <7>2. v \in SUBSET u /\ u \in SUBSET S /\ v \in SUBSET S /\ Cardinality(u) <= n
              BY <2>2, <2>4, <7>1
            <7>3. Cardinality(v) <= Cardinality(u) /\ Cardinality(v) \in Nat /\ Cardinality(u) \in Nat
              BY <1>2, <7>2, FS_Subset
            <7>4. \A a, b, c \in Nat : a <= b /\ b <= c => a <= c
              OBVIOUS
            <7>5. Cardinality(v) <= n
              BY <7>2, <7>3, <7>4, ZenonT(30)
            <7> QED
              BY <7>1, <7>2, <7>5
          <6> QED
            BY <6>1
        <5> QED
          BY <1>6, <5>1 DEF N
      <4>6. g[r] \in Int /\ f[p] \in Int /\ f[x] \in Int
        BY <2>2, <2>7, <3>2, <4>1, <4>5
      <4> QED
        BY <2>3, <4>3, <4>4, <4>6
    <3> QED
      BY <3>1, <3>2
  <2> QED
    BY <2>6, <2>7
<1>7. Nat \subseteq N
  <2> HIDE DEF N
  <2> QED
    BY <1>5, <1>6, SetInduction
<1>8. Good(S)
  <2>1. PICK n : n = Cardinality(S)
    OBVIOUS
  <2> QED
    BY <1>2, <1>7, <2>1
<1> QED
  BY <1>1, <1>3, <1>4, <1>8

\* What holds of the empty set and of every set with one element more holds of a finite set.
LEMMA GrowingSets ==
  ASSUME NEW S, IsFiniteSet(S), NEW P, {} \in P,
         \A T \in SUBSET S : T \in P => \A x \in S \ T : T \cup {x} \in P
  PROVE  S \in P
<1> DEFINE N == {n \in Nat : \A T \in SUBSET S : Cardinality(T) = n => T \in P}
<1>1. \A T \in SUBSET S : IsFiniteSet(T) /\ Cardinality(T) \in Nat
  BY FS_Subset, FS_CardinalityType
<1>2. 0 \in N
  BY <1>1, FS_EmptySet
<1>3. ASSUME NEW n \in Nat, n \in N PROVE n + 1 \in N
  <2> SUFFICES ASSUME NEW T \in SUBSET S, Cardinality(T) = n + 1 PROVE T \in P
    OBVIOUS
  <2>1. T # {}
    <3>1. Cardinality({}) = 0 /\ n + 1 # 0
      BY FS_EmptySet
    <3> HIDE DEF N
    <3> QED
      BY <3>1
  <2>2. PICK x : x \in T
    BY <2>1
  <2>3. PICK R : R = T \ {x}
    OBVIOUS
  <2>4. R \in SUBSET S /\ x \in S \ R /\ T = R \cup {x}
    BY <2>2, <2>3
  <2>5. Cardinality(T) = Cardinality(R) + 1 /\ Cardinality(R) \in Nat
    BY <1>1, <2>4, FS_AddElement
  <2>6. Cardinality(R) = n
    <3> HIDE DEF N
    <3> QED
      BY <2>5
  <2> QED
    BY <1>3, <2>4, <2>6
<1>4. Nat \subseteq N
  <2> HIDE DEF N
  <2> QED
    BY <1>2, <1>3, SetInduction
<1>5. PICK n : n = Cardinality(S)
  OBVIOUS
<1> QED
  BY <1>1, <1>4, <1>5

\* One summand more.
LEMMA SumMore ==
  ASSUME NEW f, NEW T, IsFiniteSet(T), NEW x, x \notin T, f[x] \in Int, \A y \in T : f[y] \in Int
  PROVE  SumFunctionOnSet(f, T \cup {x}) = SumFunctionOnSet(f, T) + f[x]
<1>1. PICK U : U = T \cup {x}
  OBVIOUS
<1>2. IsFiniteSet(U) /\ U \ {x} = T /\ x \in U /\ \A y \in U : f[y] \in Int
  BY <1>1, FS_AddElement
<1>3. SumFunctionOnSet(f, U) = f[x] + SumFunctionOnSet(f, U \ {x})
  BY <1>2, SumIs
<1>4. SumFunctionOnSet(f, T) \in Int
  BY SumIs
<1>5. PICK a, b : a = SumFunctionOnSet(f, T) /\ b = SumFunctionOnSet(f, U)
  OBVIOUS
<1>6. b = f[x] + a /\ a \in Int
  BY <1>2, <1>3, <1>4, <1>5
<1>7. b = a + f[x]
  BY <1>6
<1> QED
  BY <1>1, <1>5, <1>7

LEMMA SumOfNone == ASSUME NEW f PROVE SumFunctionOnSet(f, {}) = 0
<1>1. IsFiniteSet({}) /\ \A x \in {} : f[x] \in Int
  BY FS_EmptySet
<1> QED
  BY <1>1, SumIs

LEMMA SumUnion ==
  ASSUME NEW f, NEW S, IsFiniteSet(S), NEW T, IsFiniteSet(T), S \cap T = {}, \A x \in S \cup T : f[x] \in Int
  PROVE  SumFunctionOnSet(f, S \cup T) = SumFunctionOnSet(f, S) + SumFunctionOnSet(f, T)
<1> DEFINE Sm(R) == SumFunctionOnSet(f, R)
           P == {R \in SUBSET T : Sm(S \cup R) = Sm(S) + Sm(R)}
<1>1. Sm({}) = 0
  BY SumOfNone
<1>2. \A R \in SUBSET T : /\ IsFiniteSet(R) /\ Sm(R) \in Int /\ IsFiniteSet(S \cup R) /\ Sm(S \cup R) \in Int
                          /\ Sm(S) \in Int
  <2>1. \A R \in SUBSET T : IsFiniteSet(R) /\ IsFiniteSet(S \cup R)
    BY FS_Subset, FS_Union
  <2> QED
    BY <2>1, SumIs
<1>3. {} \in P
  <2>1. S \cup {} = S
    OBVIOUS
  <2> HIDE DEF Sm
  <2> QED
    BY <1>1, <1>2, <2>1
<1>4. ASSUME NEW R \in SUBSET T, R \in P, NEW x \in T \ R PROVE R \cup {x} \in P
  <2>1. Sm(R \cup {x}) = Sm(R) + f[x]
    BY <1>2, SumMore
  <2>2. PICK U : U = S \cup R
    OBVIOUS
  <2>3. x \notin U /\ IsFiniteSet(U) /\ f[x] \in Int /\ \A y \in U : f[y] \in Int
    BY <1>2, <2>2
  <2>4. Sm(U \cup {x}) = Sm(U) + f[x]
    BY <2>3, SumMore
  <2>5. S \cup (R \cup {x}) = U \cup {x} /\ R \cup {x} \in SUBSET T
    BY <2>2
  <2>6. Sm(U) = Sm(S) + Sm(R) /\ Sm(S) \in Int /\ Sm(R) \in Int
    BY <1>2, <1>4, <2>2
  <2> HIDE DEF Sm
  <2>7. Sm(U \cup {x}) = Sm(S) + Sm(R \cup {x})
    BY <2>1, <2>3, <2>4, <2>6
  <2> QED
    BY <2>5, <2>7
<1>5. T \in P
  <2> HIDE DEF P
  <2> QED
    BY <1>3, <1>4, GrowingSets
<1> QED
  BY <1>5

LEMMA SumAtMost ==
  ASSUME NEW f, NEW h, NEW S, IsFiniteSet(S), \A x \in S : f[x] \in Int /\ h[x] \in Int /\ f[x] <= h[x]
  PROVE  SumFunctionOnSet(f, S) <= SumFunctionOnSet(h, S)
<1> DEFINE F(R) == SumFunctionOnSet(f, R)
           H(R) == SumFunctionOnSet(h, R)
           P == {R \in SUBSET S : F(R) <= H(R)}
<1>1. F({}) = 0 /\ H({}) = 0
  BY SumOfNone
<1>2. \A R \in SUBSET S : IsFiniteSet(R) /\ F(R) \in Int /\ H(R) \in Int
  <2>1. \A R \in SUBSET S : IsFiniteSet(R)
    BY FS_Subset
  <2> QED
    BY <2>1, SumIs
<1>3. ASSUME NEW R \in SUBSET S, R \in P, NEW x \in S \ R PROVE R \cup {x} \in P
  <2>1. F(R \cup {x}) = F(R) + f[x] /\ H(R \cup {x}) = H(R) + h[x]
    BY <1>2, SumMore
  <2> HIDE DEF F, H
  <2>2. F(R) <= H(R) /\ F(R) \in Int /\ H(R) \in Int /\ f[x] \in Int /\ h[x] \in Int /\ f[x] <= h[x]
    BY <1>2, <1>3
  <2>3. \A a, b, c, d \in Int : a <= b /\ c <= d => a + c <= b + d
    OBVIOUS
  <2>4. F(R \cup {x}) <= H(R \cup {x})
    BY <2>1, <2>2, <2>3
  <2> QED
    BY <2>4
<1>4. S \in P
  <2>1. {} \in P
    <3> HIDE DEF F, H
    <3> QED
      BY <1>1
  <2> HIDE DEF P
  <2> QED
    BY <1>3, <2>1, GrowingSets
<1> QED
  BY <1>4

LEMMA SumOfZeros ==
  ASSUME NEW f, NEW S, IsFiniteSet(S), \A x \in S : f[x] = 0 PROVE SumFunctionOnSet(f, S) = 0
<1> DEFINE P == {R \in SUBSET S : SumFunctionOnSet(f, R) = 0}
<1>1. {} \in P
  BY SumOfNone
<1>2. ASSUME NEW R \in SUBSET S, R \in P, NEW x \in S \ R PROVE R \cup {x} \in P
  <2>1. IsFiniteSet(R)
    BY FS_Subset
  <2>2. SumFunctionOnSet(f, R \cup {x}) = SumFunctionOnSet(f, R) + f[x]
    BY <2>1, SumMore
  <2> QED
    BY <1>2, <2>2
<1> HIDE DEF P
<1>3. S \in P
  BY <1>1, <1>2, GrowingSets
<1> QED
  BY <1>3 DEF P

LEMMA SumOfNaturals ==
  ASSUME NEW f, NEW S, IsFiniteSet(S), \A x \in S : f[x] \in Nat
  PROVE  /\ SumFunctionOnSet(f, S) \in Nat
         /\ \A T \in SUBSET S : SumFunctionOnSet(f, T) \in Nat /\ SumFunctionOnSet(f, T) <= SumFunctionOnSet(f, S)
         /\ \A x \in S : f[x] <= SumFunctionOnSet(f, S)
<1>1. PICK z : z = [x \in S |-> 0]
  OBVIOUS
<1>2. ASSUME NEW T \in SUBSET S PROVE IsFiniteSet(T) /\ SumFunctionOnSet(f, T) \in Nat
  <2>1. IsFiniteSet(T) /\ \A x \in T : z[x] = 0 /\ z[x] \in Int /\ f[x] \in Int /\ z[x] <= f[x]
    BY <1>1, FS_Subset
  <2>2. SumFunctionOnSet(z, T) = 0
    BY <2>1, SumOfZeros
  <2>3. SumFunctionOnSet(z, T) <= SumFunctionOnSet(f, T)
    BY <2>1, SumAtMost
  <2>4. SumFunctionOnSet(f, T) \in Int
    BY <2>1, SumIs
  <2> QED
    BY <2>1, <2>2, <2>3, <2>4
<1>3. ASSUME NEW T \in SUBSET S PROVE SumFunctionOnSet(f, T) <= SumFunctionOnSet(f, S)
  <2>1. PICK U : U = S \ T
    OBVIOUS
  <2>2. T \cup U = S /\ T \cap U = {} /\ U \in SUBSET S
    BY <2>1
  <2>3. IsFiniteSet(T) /\ IsFiniteSet(U) /\ SumFunctionOnSet(f, T) \in Nat /\ SumFunctionOnSet(f, U) \in Nat
    BY <1>2, <2>2
  <2>4. SumFunctionOnSet(f, S) = SumFunctionOnSet(f, T) + SumFunctionOnSet(f, U)
    BY <2>2, <2>3, SumUnion
  <2> QED
    BY <2>3, <2>4
<1>4. ASSUME NEW x \in S PROVE f[x] <= SumFunctionOnSet(f, S)
  <2>1. SumFunctionOnSet(f, S) = f[x] + SumFunctionOnSet(f, S \ {x})
    BY <1>4, SumIs
  <2>2. SumFunctionOnSet(f, S \ {x}) \in Nat
    BY <1>2
  <2> QED
    BY <2>1, <2>2
<1> QED
  BY <1>2, <1>3, <1>4

LEMMA SumOfDifferences ==
  ASSUME NEW f, NEW h, NEW k, NEW S, IsFiniteSet(S),
         \A x \in S : f[x] \in Int /\ h[x] \in Int /\ k[x] = f[x] - h[x]
  PROVE  SumFunctionOnSet(k, S) = SumFunctionOnSet(f, S) - SumFunctionOnSet(h, S)
<1> DEFINE F(R) == SumFunctionOnSet(f, R)
           H(R) == SumFunctionOnSet(h, R)
           K(R) == SumFunctionOnSet(k, R)
           P == {R \in SUBSET S : K(R) = F(R) - H(R)}
<1>1. F({}) = 0 /\ H({}) = 0 /\ K({}) = 0
  BY SumOfNone
<1>2. \A R \in SUBSET S : IsFiniteSet(R) /\ F(R) \in Int /\ H(R) \in Int /\ K(R) \in Int
  <2>1. \A R \in SUBSET S : IsFiniteSet(R)
    BY FS_Subset
  <2>2. \A x \in S : k[x] \in Int
    OBVIOUS
  <2> QED
    BY <2>1, <2>2, SumIs
<1>3. ASSUME NEW R \in SUBSET S, R \in P, NEW x \in S \ R PROVE R \cup {x} \in P
  <2>1. IsFiniteSet(R) /\ \A y \in S : k[y] \in Int
    BY <1>2
  <2>2. F(R \cup {x}) = F(R) + f[x] /\ H(R \cup {x}) = H(R) + h[x] /\ K(R \cup {x}) = K(R) + k[x]
    BY <2>1, SumMore
  <2> HIDE DEF F, H, K
  <2>3. /\ K(R) = F(R) - H(R) /\ F(R) \in Int /\ H(R) \in Int
        /\ f[x] \in Int /\ h[x] \in Int /\ k[x] = f[x] - h[x]
    BY <1>2, <1>3
  <2>4. K(R \cup {x}) = F(R \cup {x}) - H(R \cup {x})
    BY <2>2, <2>3
  <2> QED
    BY <2>4
<1>4. S \in P
  <2>1. {} \in P
    <3> HIDE DEF F, H, K
    <3> QED
      BY <1>1
  <2> HIDE DEF P
  <2> QED
    BY <1>3, <2>1, GrowingSets
<1> QED
  BY <1>4

\* The mean of numbers is between the least and the largest of them.
LEMMA SumBounds ==
  ASSUME NEW f, NEW S, IsFiniteSet(S), NEW low \in Int, NEW high \in Int,
         \A x \in S : f[x] \in Int /\ low <= f[x] /\ f[x] <= high
  PROVE  Cardinality(S) * low <= SumFunctionOnSet(f, S) /\ SumFunctionOnSet(f, S) <= Cardinality(S) * high
<1> DEFINE F(R) == SumFunctionOnSet(f, R)
           P == {R \in SUBSET S : Cardinality(R) * low <= F(R) /\ F(R) <= Cardinality(R) * high}
<1>1. F({}) = 0 /\ Cardinality({}) = 0
  BY SumOfNone, FS_EmptySet
<1>2. \A R \in SUBSET S : IsFiniteSet(R) /\ F(R) \in Int /\ Cardinality(R) \in Nat
  <2>1. \A R \in SUBSET S : IsFiniteSet(R) /\ Cardinality(R) \in Nat
    BY FS_Subset, FS_CardinalityType
  <2> QED
    BY <2>1, SumIs
<1>3. {} \in P
  <2>1. 0 * low = 0 /\ 0 * high = 0
    OBVIOUS
  <2> HIDE DEF F
  <2> QED
    BY <1>1, <2>1
<1>4. ASSUME NEW R \in SUBSET S, R \in P, NEW x \in S \ R PROVE R \cup {x} \in P
  <2>1. IsFiniteSet(R) /\ Cardinality(R) \in Nat /\ F(R) \in Int
    BY <1>2
  <2>2. F(R \cup {x}) = F(R) + f[x]
    BY <2>1, SumMore
  <2>3. Cardinality(R \cup {x}) = Cardinality(R) + 1
    BY <2>1, FS_AddElement
  <2>4. \A n, m \in Int : (n + 1) * m = n * m + m /\ n * m \in Int
    OBVIOUS
  <2>5. Cardinality(R) * low <= F(R) /\ F(R) <= Cardinality(R) * high
    BY <1>4
  <2>6. PICK n, y, z, c : n = Cardinality(R) /\ y = F(R) /\ z = f[x] /\ c = Cardinality(R \cup {x})
    OBVIOUS
  <2> HIDE DEF F, P
  <2>7. /\ n \in Int /\ y \in Int /\ z \in Int /\ low <= z /\ z <= high /\ n * low <= y /\ y <= n * high
        /\ c = n + 1 /\ F(R \cup {x}) = y + z
    BY <2>1, <2>2, <2>3, <2>5, <2>6
  <2>8. PICK l, h : l = n * low /\ h = n * high
    OBVIOUS
  <2>9. l \in Int /\ h \in Int /\ c * low = l + low /\ c * high = h + high /\ l <= y /\ y <= h
    BY <2>4, <2>7, <2>8
  <2>10. c * low <= F(R \cup {x}) /\ F(R \cup {x}) <= c * high
    <3>1. l + low <= y + z /\ y + z <= h + high
      BY <2>7, <2>9
    <3> QED
      BY <2>7, <2>9, <3>1
  <2> QED
    BY <2>6, <2>10 DEF P
<1>5. S \in P
  <2> HIDE DEF P
  <2> QED
    BY <1>3, <1>4, GrowingSets
<1> QED
  BY <1>5

\* The elements of C whose label is in L, each label's apart.
Sorted(C, lab, L, fib, D) ==
  /\ \A b \in L : fib[b] \in SUBSET C /\ \A c \in C : c \in fib[b] <=> lab[c] = b
  /\ D \in SUBSET C /\ \A c \in C : c \in D <=> lab[c] \in L

\* Counted by their label, the parts add up.
LEMMA SumOfFibers ==
  ASSUME NEW f, NEW C, IsFiniteSet(C), NEW lab, \A c \in C : f[c] \in Int, NEW L, IsFiniteSet(L),
         NEW fib, NEW D, Sorted(C, lab, L, fib, D), NEW parts, \A b \in L : parts[b] = SumFunctionOnSet(f, fib[b])
  PROVE  SumFunctionOnSet(parts, L) = SumFunctionOnSet(f, D)
<1> DEFINE Labelled(R) == {c \in C : lab[c] \in R}
           F(R) == SumFunctionOnSet(f, R)
           Q(R) == SumFunctionOnSet(parts, R)
           P == {R \in SUBSET L : Q(R) = F(Labelled(R))}
<1>1. \A R \in SUBSET C : IsFiniteSet(R) /\ F(R) \in Int
  <2>1. \A R \in SUBSET C : IsFiniteSet(R)
    BY FS_Subset
  <2> QED
    BY <2>1, SumIs
<1>2. \A b \in L : parts[b] \in Int
  <2>1. \A b \in L : fib[b] \in SUBSET C
    BY DEF Sorted
  <2> QED
    BY <1>1, <2>1
<1>3. {} \in P
  <2>1. Labelled({}) = {}
    OBVIOUS
  <2> QED
    BY <2>1, SumOfNone
<1>4. ASSUME NEW R \in SUBSET L, R \in P, NEW x \in L \ R PROVE R \cup {x} \in P
  <2>1. PICK A, B : A = Labelled(R) /\ B = fib[x]
    OBVIOUS
  <2>2. Labelled(R \cup {x}) = A \cup B /\ A \cap B = {} /\ A \in SUBSET C /\ B \in SUBSET C
    BY <1>4, <2>1 DEF Sorted
  <2>3. F(A \cup B) = F(A) + F(B)
    BY <1>1, <2>2, SumUnion
  <2>4. IsFiniteSet(R)
    BY FS_Subset
  <2>5. Q(R \cup {x}) = Q(R) + parts[x]
    BY <1>2, <2>4, SumMore
  <2>6. parts[x] = F(B) /\ Q(R) = F(A)
    BY <1>4, <2>1
  <2> HIDE DEF F, Q, Labelled
  <2>7. Q(R \cup {x}) = F(Labelled(R \cup {x}))
    BY <2>2, <2>3, <2>5, <2>6
  <2> QED
    BY <2>7
<1>5. L \in P
  <2> HIDE DEF P
  <2> QED
    BY <1>3, <1>4, GrowingSets
<1>6. Labelled(L) = D
  BY DEF Sorted
<1> QED
  BY <1>5, <1>6

-----------------------------------------------------------------------------
(* Division.                                                               *)

LEMMA Products ==
  /\ \A x, y \in Int, n \in Nat \ {0} : x >= y <=> x * n >= y * n
  /\ \A x, y, z \in Int : x * y * z = x * z * y
  /\ \A x, y \in Int : x * y \in Int
<1>1. \A x, y \in Int, n \in Nat \ {0} : x >= y => x * n >= y * n
  OBVIOUS
<1>2. \A x, y \in Int, n \in Nat \ {0} : x * n >= y * n => x >= y
  OBVIOUS
<1>3. \A x, y, z \in Int : x * y * z = x * z * y
  OBVIOUS
<1> QED
  BY <1>1, <1>2, <1>3

LEMMA Division ==
  ASSUME NEW w \in Nat \ {0}
  PROVE  /\ \A x \in Int : x \div w \in Int /\ (x \div w) * w <= x /\ x < (x \div w) * w + w
         /\ \A x, k \in Int : k * w <= x => k <= x \div w
         /\ \A x, k \in Int : x < k * w + w => x \div w <= k
<1>1. \A x \in Int : x \div w \in Int /\ (x \div w) * w <= x /\ x < (x \div w) * w + w
  OBVIOUS
<1>4. \A a, b \in Int : a * w < b * w => a < b
  <2>1. \A a, b \in Int : a >= b => a * w >= b * w
    BY Products
  <2>2. \A a, b \in Int : a * w \in Int /\ b * w \in Int
    OBVIOUS
  <2>3. \A p, q \in Int : p < q <=> ~(p >= q)
    OBVIOUS
  <2> QED
    BY <2>1, <2>2, <2>3, ZenonT(30)
<1>2. ASSUME NEW x \in Int, NEW k \in Int, k * w <= x PROVE k <= x \div w
  <2>1. PICK q : q = x \div w
    OBVIOUS
  <2>2. q \in Int /\ x < q * w + w
    BY <1>1, <2>1
  <2>3. k * w < (q + 1) * w
    <3>1. (q + 1) * w = q * w + w /\ q * w \in Int /\ k * w \in Int
      BY <2>2
    <3> QED
      BY <1>2, <2>2, <3>1
  <2>5. k < q + 1
    <3>1. q + 1 \in Int
      BY <2>2
    <3> QED
      BY <1>4, <2>2, <2>3, <3>1
  <2> QED
    BY <2>1, <2>2, <2>5
<1>3. ASSUME NEW x \in Int, NEW k \in Int, x < k * w + w PROVE x \div w <= k
  <2>1. PICK q : q = x \div w
    OBVIOUS
  <2>2. q \in Int /\ q * w <= x
    BY <1>1, <2>1
  <2>3. q * w < (k + 1) * w
    <3>1. (k + 1) * w = k * w + w /\ q * w \in Int /\ k * w \in Int
      BY <2>2
    <3> QED
      BY <1>3, <2>2, <3>1
  <2>5. q < k + 1
    <3>1. k + 1 \in Int
      OBVIOUS
    <3> QED
      BY <1>4, <2>2, <2>3, <3>1
  <2> QED
    BY <2>1, <2>2, <2>5
<1> QED
  BY <1>1, <1>2, <1>3

-----------------------------------------------------------------------------
(* The statements over a table.                                            *)

LEMMA CellsAre == IsFiniteSet(LabelSet) /\ IsFiniteSet(Cells) /\ \A c \in Cells : c[1] \in Nat /\ c[2] \in LabelSet
<1>1. Len(Labels) \in Nat /\ DOMAIN Labels = 1..Len(Labels)
  BY SummaryAssumption
<1>2. PICK f : f = [i \in 1..Len(Labels) |-> Labels[i]]
  OBVIOUS
<1>3. f \in Surjection(1..Len(Labels), LabelSet)
  BY <1>1, <1>2 DEF Surjection, LabelSet, ToSet
<1>4. IsFiniteSet(1..Len(Labels))
  BY <1>1, FS_Interval
<1>5. IsFiniteSet(LabelSet)
  BY <1>3, <1>4, FS_Surjection
<1>6. Present + 1 \in Nat
  BY SummaryAssumption
<1>7. IsFiniteSet(0..(Present + 1))
  BY <1>6, FS_Interval
<1>8. IsFiniteSet(Cells)
  BY <1>5, <1>7, FS_Product DEF Cells
<1> QED
  BY <1>5, <1>8 DEF Cells

RowTables == [Cells -> Nat]

LEMMA CountsAre ==
  ASSUME NEW m \in RowTables, NEW C \in SUBSET Cells
  PROVE  /\ IsFiniteSet(C) /\ SumFunctionOnSet(m, C) \in Nat /\ \A c \in C : m[c] \in Nat
         /\ \A D \in SUBSET C : SumFunctionOnSet(m, D) <= SumFunctionOnSet(m, C)
<1>1. IsFiniteSet(C) /\ \A c \in C : m[c] \in Nat
  BY CellsAre, FS_Subset DEF RowTables
<1> QED
  BY <1>1, SumOfNaturals

\* What is left out holds nothing.
LEMMA SumOfRest ==
  ASSUME NEW m \in RowTables, NEW C \in SUBSET Cells, NEW D \in SUBSET C, \A c \in C \ D : m[c] = 0
  PROVE  SumFunctionOnSet(m, C) = SumFunctionOnSet(m, D)
<1>1. PICK E : E = C \ D
  OBVIOUS
<1>2. C = D \cup E /\ D \cap E = {} /\ D \in SUBSET Cells /\ E \in SUBSET Cells /\ \A c \in E : m[c] = 0
  BY <1>1
<1>3. /\ IsFiniteSet(D) /\ IsFiniteSet(E) /\ SumFunctionOnSet(m, D) \in Nat
      /\ \A c \in D \cup E : m[c] \in Int
  BY <1>2, CountsAre
<1>4. SumFunctionOnSet(m, D \cup E) = SumFunctionOnSet(m, D) + SumFunctionOnSet(m, E)
  BY <1>2, <1>3, SumUnion
<1>5. SumFunctionOnSet(m, E) = 0
  BY <1>2, <1>3, SumOfZeros
<1> QED
  BY <1>2, <1>3, <1>4, <1>5

\* Rows counted by their label.
LEMMA PartsOfTable ==
  ASSUME NEW m \in RowTables, NEW C \in SUBSET Cells, NEW lab, NEW L, IsFiniteSet(L), NEW fib, NEW D, Sorted(C, lab, L, fib, D),
         NEW parts, \A b \in L : parts[b] = SumFunctionOnSet(m, fib[b])
  PROVE  SumFunctionOnSet(parts, L) = SumFunctionOnSet(m, D)
<1>1. IsFiniteSet(C) /\ \A c \in C : m[c] \in Nat
  BY CountsAre
<1>2. \A c \in C : m[c] \in Int
  BY <1>1
<1> QED
  BY <1>1, <1>2, SumOfFibers

GroupsType == [counts : UNION {[D -> Nat] : D \in SUBSET LabelSet}, truncated : BOOLEAN]

NameCounts(m, C) == [n \in LabelSet |-> SumFunctionOnSet(m, {c \in C : c[2] = n})]

\* The groups that are kept, of those found.
KeptGroups(counts, D) == {n \in D : Cardinality({k \in D : Ahead(counts, k, n)}) < GroupLimit}

GroupedIn(m, C) ==
  LET found == {n \in LabelSet : NameCounts(m, C)[n] > 0}
  IN  [counts |-> [n \in KeptGroups(NameCounts(m, C), found) |-> NameCounts(m, C)[n]],
       truncated |-> Cardinality(found) > GroupLimit]

LEMMA PositionsAre == \A n \in LabelSet : Position(n) \in Nat /\ Labels[Position(n)] = n
<1>1. \A n \in LabelSet : \E i \in DOMAIN Labels : Labels[i] = n
  BY DEF LabelSet, ToSet
<1>2. \A n \in LabelSet : Position(n) \in DOMAIN Labels /\ Labels[Position(n)] = n
  BY <1>1 DEF Position
<1> QED
  BY <1>2, SummaryAssumption

LEMMA AheadOrders ==
  ASSUME NEW D \in SUBSET LabelSet, NEW counts, \A n \in D : counts[n] \in Nat
  PROVE  Orders({p \in D \X D : Ahead(counts, p[1], p[2])}, D)
<1>1. \A n \in D : Position(n) \in Nat
  BY PositionsAre
<1>2. \A n, k \in D : n # k => Position(n) # Position(k)
  BY PositionsAre
<1>3. \A n \in D : ~Ahead(counts, n, n)
  BY <1>1 DEF Ahead
<1>4. \A n, k \in D : n # k => Ahead(counts, n, k) \/ Ahead(counts, k, n)
  BY <1>1, <1>2 DEF Ahead
<1>5. \A n, k, l \in D : Ahead(counts, n, k) /\ Ahead(counts, k, l) => Ahead(counts, n, l)
  BY <1>1 DEF Ahead
<1> QED
  BY <1>3, <1>4, <1>5 DEF Orders

\* While there is room every group is kept, and the largest always.
LEMMA KeptAre ==
  ASSUME NEW D \in SUBSET LabelSet, NEW counts, \A n \in D : counts[n] \in Nat
  PROVE  /\ Cardinality(D) <= GroupLimit => KeptGroups(counts, D) = D
         /\ D # {} => \E k \in KeptGroups(counts, D) : \A n \in D : counts[n] <= counts[k]
<1>1. PICK before : before = {p \in D \X D : Ahead(counts, p[1], p[2])}
  OBVIOUS
<1>2. IsFiniteSet(D) /\ Cardinality(D) \in Nat /\ GroupLimit \in Nat \ {0}
  BY CellsAre, FS_Subset, FS_CardinalityType, SummaryAssumption
<1>3. Orders(before, D)
  BY <1>1, AheadOrders
<1>4. \A n \in D : {k \in D : <<k, n>> \in before} = {k \in D : Ahead(counts, k, n)}
  BY <1>1
<1>5. \A n \in D : Cardinality({k \in D : <<k, n>> \in before}) \in 0..(Cardinality(D) - 1)
  BY <1>2, <1>3, PlacesDiffer
<1>6. ASSUME Cardinality(D) <= GroupLimit PROVE KeptGroups(counts, D) = D
  <2>1. \A x, y, z \in Nat : x \in 0..(y - 1) /\ y <= z => x < z
    OBVIOUS
  <2>2. \A n \in D : Cardinality({k \in D : Ahead(counts, k, n)}) < GroupLimit
    BY <1>2, <1>4, <1>5, <1>6
  <2> QED
    BY <2>2 DEF KeptGroups
<1>7. ASSUME D # {} PROVE \E k \in KeptGroups(counts, D) : \A n \in D : counts[n] <= counts[k]
  <2>1. Cardinality(D) # 0
    BY <1>2, <1>7, FS_EmptySet
  <2>2. 1 \in 1..Cardinality(D) /\ 1 - 1 = 0
    BY <1>2, <2>1
  <2>3. PICK k \in D : Cardinality({l \in D : <<l, k>> \in before}) = 0
    BY <1>2, <1>3, <2>2, PlacesAreTaken
  <2>4. {l \in D : <<l, k>> \in before} = {}
    <3>1. IsFiniteSet({l \in D : <<l, k>> \in before})
      BY <1>2, FS_Subset
    <3> QED
      BY <2>3, <3>1, FS_EmptySet
  <2>5. k \in KeptGroups(counts, D)
    <3>1. \A x \in Nat \ {0} : 0 < x
      OBVIOUS
    <3>2. Cardinality({l \in D : Ahead(counts, l, k)}) < GroupLimit
      BY <1>2, <1>4, <2>3, <3>1
    <3> QED
      BY <3>2 DEF KeptGroups
  <2>6. ASSUME NEW n \in D PROVE counts[n] <= counts[k]
    <3>1. ~Ahead(counts, n, k)
      BY <1>4, <2>4
    <3> QED
      BY <3>1 DEF Ahead
  <2> QED
    BY <2>5, <2>6
<1> QED
  BY <1>6, <1>7

\* Groups that are not cut off hold every row.
LEMMA GroupsAre ==
  ASSUME NEW m \in RowTables, NEW C \in SUBSET Cells
  PROVE  /\ GroupedIn(m, C) \in GroupsType
         /\ ~GroupedIn(m, C).truncated => SumFunction(GroupedIn(m, C).counts) = SumFunctionOnSet(m, C)
         /\ ~GroupedIn(m, C).truncated =>
              \A n \in LabelSet : At(GroupedIn(m, C).counts, n) = SumFunctionOnSet(m, {c \in C : c[2] = n})
<1>1. PICK counts : counts = NameCounts(m, C)
  OBVIOUS
<1>2. ASSUME NEW n \in LabelSet
      PROVE  /\ counts[n] = SumFunctionOnSet(m, {c \in C : c[2] = n}) /\ counts[n] \in Nat
             /\ \A c \in C : c[2] = n => m[c] \in Nat /\ m[c] <= counts[n]
  <2>1. PICK E : E = {c \in C : c[2] = n}
    OBVIOUS
  <2>2. counts[n] = SumFunctionOnSet(m, E) /\ E \in SUBSET Cells
    BY <1>1, <2>1 DEF NameCounts
  <2>3. IsFiniteSet(E) /\ SumFunctionOnSet(m, E) \in Nat /\ \A c \in E : m[c] \in Nat
    BY <2>2, CountsAre
  <2>4. \A c \in E : m[c] <= SumFunctionOnSet(m, E)
    BY <2>3, SumOfNaturals
  <2> QED
    BY <2>1, <2>2, <2>3, <2>4
<1>3. PICK found : found = {n \in LabelSet : counts[n] > 0}
  OBVIOUS
<1>4. PICK kept : kept = KeptGroups(counts, found)
  OBVIOUS
<1>5. PICK g : g = [counts |-> [n \in kept |-> counts[n]], truncated |-> Cardinality(found) > GroupLimit]
  OBVIOUS
<1>6. GroupedIn(m, C) = g
  BY <1>1, <1>3, <1>4, <1>5 DEF GroupedIn
<1>7. kept \in SUBSET LabelSet /\ found \in SUBSET LabelSet
  BY <1>3, <1>4 DEF KeptGroups
<1>8. g \in GroupsType
  <2>1. [n \in kept |-> counts[n]] \in [kept -> Nat]
    BY <1>2, <1>7
  <2> QED
    BY <1>5, <1>7, <2>1 DEF GroupsType
<1>9. ASSUME ~g.truncated PROVE SumFunction(g.counts) = SumFunctionOnSet(m, C)
  <2>1. IsFiniteSet(found) /\ Cardinality(found) \in Nat /\ GroupLimit \in Nat /\ ~(Cardinality(found) > GroupLimit)
    BY <1>5, <1>7, <1>9, CellsAre, FS_Subset, FS_CardinalityType, SummaryAssumption
  <2>2. Cardinality(found) <= GroupLimit
    BY <2>1
  <2>3. kept = found
    BY <1>2, <1>4, <1>7, <2>2, KeptAre
  <2>4. SumFunction(g.counts) = SumFunctionOnSet(g.counts, found)
    BY <1>5, <2>3 DEF SumFunction
  <2>5. PICK lab : lab = [c \in Cells |-> c[2]]
    OBVIOUS
  <2>6. \A n \in found : {c \in C : lab[c] = n} = {c \in C : c[2] = n}
    BY <2>5
  <2>7. \A n \in found : g.counts[n] = SumFunctionOnSet(m, {c \in C : lab[c] = n})
    BY <1>2, <1>5, <1>7, <2>3, <2>6
  <2>8. SumFunctionOnSet(g.counts, found) = SumFunctionOnSet(m, {c \in C : lab[c] \in found})
    <3>1. PICK fib : fib = [n \in found |-> {c \in C : lab[c] = n}]
      OBVIOUS
    <3>2. \A n \in found : g.counts[n] = SumFunctionOnSet(m, fib[n])
      BY <2>7, <3>1
    <3>3. PICK E : E = {c \in C : lab[c] \in found}
      OBVIOUS
    <3>4. Sorted(C, lab, found, fib, E)
      BY <3>1, <3>3 DEF Sorted
    <3>5. PICK p : p = g.counts
      OBVIOUS
    <3>6. \A n \in found : p[n] = SumFunctionOnSet(m, fib[n])
      BY <3>2, <3>5
    <3>7. SumFunctionOnSet(p, found) = SumFunctionOnSet(m, E)
      BY <2>1, <3>2, <3>4, <3>6, PartsOfTable
    <3> QED
      BY <3>3, <3>5, <3>7
  <2>9. PICK D : D = {c \in C : lab[c] \in found}
    OBVIOUS
  <2>10. ASSUME NEW c \in C \ D PROVE m[c] = 0
    <3>1. c[2] \in LabelSet /\ c[2] \notin found
      BY <2>5, <2>9, <2>10, CellsAre
    <3>2. m[c] \in Nat /\ m[c] <= counts[c[2]] /\ counts[c[2]] \in Nat /\ ~(counts[c[2]] > 0)
      BY <1>2, <1>3, <2>10, <3>1
    <3> QED
      BY <3>2
  <2>11. SumFunctionOnSet(m, C) = SumFunctionOnSet(m, D)
    BY <2>9, <2>10, SumOfRest
  <2> QED
    BY <2>4, <2>8, <2>9, <2>11
<1>10. ASSUME ~g.truncated, NEW n \in LabelSet
       PROVE  At(g.counts, n) = SumFunctionOnSet(m, {c \in C : c[2] = n})
  <2>1. IsFiniteSet(found) /\ Cardinality(found) \in Nat /\ GroupLimit \in Nat /\ ~(Cardinality(found) > GroupLimit)
    BY <1>5, <1>7, <1>10, CellsAre, FS_Subset, FS_CardinalityType, SummaryAssumption
  <2>2. Cardinality(found) <= GroupLimit
    BY <2>1
  <2>3. kept = found
    BY <1>2, <1>4, <1>7, <2>2, KeptAre
  <2>4. g.counts = [k \in found |-> counts[k]]
    BY <1>5, <2>3
  <2>5. At(g.counts, n) = IF n \in found THEN counts[n] ELSE 0
    BY <2>4 DEF At
  <2>6. n \notin found => counts[n] = 0
    <3>1. counts[n] \in Nat /\ n \in LabelSet
      BY <1>2, <1>10
    <3>2. n \notin found => ~(counts[n] > 0)
      BY <1>3, <3>1
    <3> QED
      BY <3>1, <3>2
  <2>7. At(g.counts, n) = counts[n]
    BY <2>5, <2>6
  <2> QED
    BY <1>2, <1>10, <2>7
<1> QED
  BY <1>6, <1>8, <1>9, <1>10

LEMMA ExtremesAre ==
  ASSUME NEW S \in SUBSET Int, IsFiniteSet(S), S # {}
  PROVE  /\ Min(S) \in S /\ \A y \in S : Min(S) <= y
         /\ Max(S) \in S /\ \A y \in S : y <= Max(S)
<1> DEFINE P == {T \in SUBSET S : T # {} => /\ \E x \in T : \A y \in T : x <= y
                                            /\ \E x \in T : \A y \in T : x >= y}
<1>1. {} \in P
  OBVIOUS
<1>2. ASSUME NEW T \in SUBSET S, T \in P, NEW z \in S \ T PROVE T \cup {z} \in P
  <2>1. CASE T = {}
    <3>1. T \cup {z} = {z} /\ z <= z /\ z >= z
      BY <2>1
    <3>2. /\ \E x \in {z} : \A y \in {z} : x <= y
          /\ \E x \in {z} : \A y \in {z} : x >= y
      BY <3>1
    <3> QED
      BY <3>1, <3>2
  <2>2. CASE T # {}
    <3>1. PICK l \in T : \A y \in T : l <= y
      BY <1>2, <2>2
    <3>2. PICK h \in T : \A y \in T : h >= y
      BY <1>2, <2>2
    <3>3. PICK l2, h2 : l2 = (IF z < l THEN z ELSE l) /\ h2 = (IF z > h THEN z ELSE h)
      OBVIOUS
    <3>4. l2 \in T \cup {z} /\ h2 \in T \cup {z} /\ \A y \in T \cup {z} : l2 <= y /\ h2 >= y
      BY <3>1, <3>2, <3>3
    <3> QED
      BY <3>4
  <2> QED
    BY <2>1, <2>2
<1>3. S \in P
  <2> HIDE DEF P
  <2> QED
    BY <1>1, <1>2, GrowingSets
<1>4. PICK l \in S : \A y \in S : l <= y
  BY <1>3
<1>5. PICK h \in S : \A y \in S : h >= y
  BY <1>3
<1>6. Min(S) \in S /\ \A y \in S : Min(S) <= y
  BY <1>4 DEF Min
<1>7. Max(S) \in S /\ \A y \in S : Max(S) >= y
  BY <1>5 DEF Max
<1> QED
  BY <1>6, <1>7

-----------------------------------------------------------------------------
(* The report and the table it tells of.                                   *)

ReportType ==
  [span : Nat, offset : Int, bucket : Nat, padded : {"yes", "no"}, recent : Nat, total : Nat, groups : GroupsType,
   lines : UNION {[D -> Nat] : D \in SUBSET Int}, before : Nat, earlier : GroupsType,
   baselines : UNION {[D -> Nat] : D \in SUBSET References}]

LinesIn(m, r) ==
  [b \in {BucketOf(c[1], r.bucket) : c \in Current(r)} |->
     SumFunctionOnSet(m, {c \in Current(r) : BucketOf(c[1], r.bucket) = b})]

AskedFor(st, r) ==
  /\ st = "idle" => r = NoReport
  /\ st # "idle" => r.span \in Nat \ {0} /\ (r.bucket > 0 => r.span \div r.bucket + 2 <= BucketLimit)
  /\ st = "timeline" => r.bucket > 0
  /\ st = "done" <=> DOMAIN r.baselines = References

Tells(m, st, r) ==
  /\ st # "idle" => r.recent = Least(RecentLimit, SumFunctionOnSet(m, Listed(r)))
  /\ st \in {"groups", "timeline", "before", "earlier", "baselines", "done"} =>
       r.total = SumFunctionOnSet(m, Current(r))
  /\ st \in {"timeline", "before", "earlier", "baselines", "done"} => r.groups = GroupedIn(m, Current(r))
  /\ st \in {"before", "earlier", "baselines", "done"} /\ r.bucket > 0 => r.lines = LinesIn(m, r)
  /\ st \in {"earlier", "baselines", "done"} /\ r.offset >= 0 => r.before = SumFunctionOnSet(m, Compared(r))
  /\ st \in {"baselines", "done"} /\ r.offset >= 0 => r.earlier = GroupedIn(m, Compared(r))

Grows(m, st, r) ==
  /\ st # "idle" /\ r.padded = "no" => r.recent <= SumFunctionOnSet(m, Current(r))
  /\ st \in {"groups", "timeline", "before", "earlier", "baselines", "done"} =>
       (r.padded = "no" => r.recent <= r.total) /\ r.total <= SumFunctionOnSet(m, Current(r))
  /\ st \in {"timeline", "before", "earlier", "baselines", "done"} =>
       (~r.groups.truncated => r.total <= SumFunction(r.groups.counts))

SummaryTyped ==
  /\ matching \in RowTables /\ report \in ReportType /\ changes \in Nat /\ grew \in BOOLEAN
  /\ stage \in {"idle", "total", "groups", "timeline", "before", "earlier", "baselines", "done"}

SummarySound ==
  /\ SummaryTyped
  /\ AskedFor(stage, report)
  /\ changes = 0 => Tells(matching, stage, report) /\ \A c \in Cells : c[1] > Present => matching[c] = 0
  /\ grew => Grows(matching, stage, report)

LEMMA SameQuestion ==
  ASSUME NEW r, NEW q, r.span = q.span, r.offset = q.offset, r.bucket = q.bucket, r.padded = q.padded
  PROVE  /\ Listed(r) = Listed(q) /\ Current(r) = Current(q) /\ Compared(r) = Compared(q)
         /\ \A m : LinesIn(m, r) = LinesIn(m, q)
<1>1. Since(r) = Since(q) /\ Offset(r) = Offset(q)
  BY DEF Since, Offset
<1>2. Listed(r) = Listed(q)
  BY <1>1 DEF Listed
<1>3. Current(r) = Current(q)
  BY <1>2 DEF Current, Counted
<1>4. Compared(r) = Compared(q)
  BY <1>1 DEF Compared, Counted
<1> QED
  BY <1>2, <1>3, <1>4 DEF LinesIn

LEMMA WindowsAre ==
  ASSUME NEW r
  PROVE  /\ Listed(r) \in SUBSET Cells /\ Current(r) \in SUBSET Cells /\ Compared(r) \in SUBSET Cells
         /\ \A o : Baseline(r, o) \in SUBSET Cells
         /\ r.padded = "no" => Current(r) = Listed(r)
         /\ r.padded = "yes" => Current(r) = {}
<1>1. Listed(r) \in SUBSET Cells /\ \A a, b : WindowCells(a, b) \in SUBSET Cells
  BY DEF Listed, WindowCells
<1>2. \A W : W \in SUBSET Cells => Counted(r, W) \in SUBSET Cells
  BY DEF Counted
<1>3. Current(r) \in SUBSET Cells /\ Compared(r) \in SUBSET Cells
  BY <1>1, <1>2 DEF Current, Compared
<1>4. ASSUME NEW o PROVE Baseline(r, o) \in SUBSET Cells
  BY <1>1, <1>2 DEF Baseline
<1> QED
  BY <1>1, <1>3, <1>4 DEF Current, Counted

LEMMA ReportIs ==
  ASSUME NEW r \in ReportType
  PROVE  /\ r.span \in Nat /\ r.offset \in Int /\ r.bucket \in Nat /\ r.padded \in {"yes", "no"}
         /\ r.recent \in Nat /\ r.total \in Nat
         /\ r.before \in Nat /\ r.groups \in GroupsType /\ r.earlier \in GroupsType
         /\ DOMAIN r.baselines \subseteq References /\ r.baselines \in [DOMAIN r.baselines -> Nat]
<1>1. r.baselines \in UNION {[D -> Nat] : D \in SUBSET References}
  BY DEF ReportType
<1>2. PICK D \in SUBSET References : r.baselines \in [D -> Nat]
  BY <1>1
<1> QED
  BY <1>2 DEF ReportType

LEMMA GroupedIs ==
  ASSUME NEW C PROVE Grouped(C) = GroupedIn(matching, C)
BY DEF Grouped, GroupedIn, NameCounts, KeptGroups, Count

LEMMA SummaryStarts == SummaryInit => SummarySound
<1> SUFFICES ASSUME SummaryInit PROVE SummarySound
  OBVIOUS
<1>1. matching \in RowTables /\ changes = 0 /\ grew \in BOOLEAN /\ stage = "idle" /\ report = NoReport
  BY DEF SummaryInit, RowTables
<1>2. NoGroups \in GroupsType
  <2>1. [n \in {} |-> 0] \in [{} -> Nat]
    OBVIOUS
  <2> QED
    BY <2>1 DEF GroupsType, NoGroups
<1>3. [b \in {} |-> 0] \in UNION {[D -> Nat] : D \in SUBSET Int}
  <2>1. [b \in {} |-> 0] \in [{} -> Nat] /\ {} \in SUBSET Int
    OBVIOUS
  <2> QED
    BY <2>1
<1>4. [o \in {} |-> 0] \in UNION {[D -> Nat] : D \in SUBSET References}
  <2>1. [o \in {} |-> 0] \in [{} -> Nat] /\ {} \in SUBSET References
    OBVIOUS
  <2> QED
    BY <2>1
<1>5. NoReport \in ReportType
  <2>1. PICK g, l, b : g = NoGroups /\ l = [n \in {} |-> 0] /\ b = [o \in {} |-> 0]
    OBVIOUS
  <2>2. PICK L, B : /\ L = UNION {[D -> Nat] : D \in SUBSET Int}
                    /\ B = UNION {[D -> Nat] : D \in SUBSET References}
    OBVIOUS
  <2>3. g \in GroupsType /\ l \in L /\ b \in B
    BY <1>2, <1>3, <1>4, <2>1, <2>2
  <2>4. NoReport = [span |-> 0, offset |-> -1, bucket |-> 0, padded |-> "no", recent |-> 0, total |-> 0,
                    groups |-> g, lines |-> l, before |-> 0, earlier |-> g, baselines |-> b]
    BY <2>1 DEF NoReport
  <2>5. ReportType = [span : Nat, offset : Int, bucket : Nat, padded : {"yes", "no"}, recent : Nat, total : Nat,
                      groups : GroupsType, lines : L, before : Nat, earlier : GroupsType, baselines : B]
    BY <2>2 DEF ReportType
  <2> QED
    BY <2>3, <2>4, <2>5
<1>6. DOMAIN NoReport.baselines = {}
  BY DEF NoReport
<1>7. AskedFor(stage, report)
  BY <1>1, <1>6, SummaryAssumption DEF AskedFor
<1>8. Tells(matching, stage, report) /\ Grows(matching, stage, report)
  BY <1>1 DEF Tells, Grows
<1>9. \A c \in Cells : matching[c] = 0
  BY DEF SummaryInit
<1> QED
  BY <1>1, <1>5, <1>7, <1>8, <1>9 DEF SummarySound, SummaryTyped

-----------------------------------------------------------------------------
(* Steps of a report.                                                      *)

LEMMA RowStoredKeeps == ASSUME SummarySound, NEW cell \in Cells, RowStored(cell) PROVE SummarySound'
<1>1. PICK m2 : m2 = [matching EXCEPT ![cell] = @ + 1]
  OBVIOUS
<1>2. matching' = m2 /\ stage = "idle" /\ stage' = stage /\ report' = report /\ changes' = changes /\ grew' = grew
      /\ cell[1] <= Present
  BY <1>1 DEF RowStored
<1>3. m2 \in RowTables /\ \A c \in Cells : c # cell => m2[c] = matching[c]
  BY <1>1 DEF SummarySound, SummaryTyped, RowTables
<1>4. SummaryTyped'
  BY <1>2, <1>3 DEF SummarySound, SummaryTyped
<1>5. AskedFor(stage', report')
  BY <1>2 DEF SummarySound
<1>6. Tells(m2, stage', report') /\ Grows(m2, stage', report')
  BY <1>2 DEF Tells, Grows
<1>7. ASSUME changes = 0, NEW c \in Cells, c[1] > Present PROVE m2[c] = 0
  <2>1. cell[1] \in Nat /\ Present \in Nat
    BY CellsAre, SummaryAssumption
  <2>2. c # cell
    BY <1>2, <1>7, <2>1
  <2> QED
    BY <1>3, <1>7, <2>2 DEF SummarySound
<1> QED
  BY <1>2, <1>4, <1>5, <1>6, <1>7 DEF SummarySound

LEMMA RowArrivesKeeps == ASSUME SummarySound, NEW cell \in Cells, RowArrives(cell) PROVE SummarySound'
<1>1. PICK m, m2 : m = matching /\ m2 = [matching EXCEPT ![cell] = @ + 1]
  OBVIOUS
<1>2. /\ matching' = m2 /\ stage' = stage /\ report' = report /\ changes' = changes + 1 /\ grew' = grew
      /\ changes \in Nat /\ m \in RowTables
  BY <1>1 DEF RowArrives, SummarySound, SummaryTyped
<1>3. m2 \in RowTables /\ \A c \in Cells : m[c] \in Int /\ m2[c] \in Int /\ m[c] <= m2[c]
  BY <1>1, <1>2 DEF RowTables
<1>4. SummaryTyped'
  BY <1>2, <1>3 DEF SummarySound, SummaryTyped
<1>5. AskedFor(stage', report')
  BY <1>2 DEF SummarySound
<1>6. changes' # 0
  BY <1>2
<1>7. ASSUME grew PROVE Grows(m2, stage', report')
  <2>1. PICK r, C : r = report /\ C = Current(r)
    OBVIOUS
  <2>2. r \in ReportType /\ C \in SUBSET Cells /\ Grows(m, stage, r)
    BY <1>1, <1>7, <2>1, WindowsAre DEF SummarySound, SummaryTyped
  <2>3. IsFiniteSet(C) /\ \A c \in C : m[c] \in Int /\ m2[c] \in Int /\ m[c] <= m2[c]
    BY <1>3, <2>2, CellsAre, FS_Subset
  <2>4. SumFunctionOnSet(m, C) <= SumFunctionOnSet(m2, C)
    BY <2>3, SumAtMost
  <2>5. SumFunctionOnSet(m, C) \in Nat /\ SumFunctionOnSet(m2, C) \in Nat
    BY <1>2, <1>3, <2>2, CountsAre
  <2>6. r.recent \in Nat /\ r.total \in Nat
    BY <2>2, ReportIs
  <2>7. \A a, b, c \in Nat : a <= b /\ b <= c => a <= c
    OBVIOUS
  <2>8. /\ r.recent <= SumFunctionOnSet(m, C) => r.recent <= SumFunctionOnSet(m2, C)
        /\ r.total <= SumFunctionOnSet(m, C) => r.total <= SumFunctionOnSet(m2, C)
    BY <2>4, <2>5, <2>6, <2>7, ZenonT(30)
  <2>9. Grows(m2, stage, r)
    BY <2>1, <2>2, <2>8 DEF Grows
  <2> QED
    BY <1>2, <2>1, <2>9
<1> QED
  BY <1>2, <1>4, <1>5, <1>6, <1>7 DEF SummarySound

LEMMA RowAcknowledgedKeeps == ASSUME SummarySound, NEW cell \in Cells, RowAcknowledged(cell) PROVE SummarySound'
<1>1. PICK m2 : m2 = [matching EXCEPT ![cell] = @ - 1]
  OBVIOUS
<1>2. /\ matching' = m2 /\ stage' = stage /\ report' = report /\ changes' = changes + 1 /\ grew' = FALSE
      /\ changes \in Nat /\ matching \in RowTables /\ matching[cell] > 0
  BY <1>1 DEF RowAcknowledged, SummarySound, SummaryTyped
<1>3. m2 \in RowTables
  BY <1>1, <1>2 DEF RowTables
<1>4. SummaryTyped'
  <2>1. matching' \in RowTables /\ report' \in ReportType /\ changes' \in Nat /\ stage' = stage
    BY <1>2, <1>3 DEF SummarySound, SummaryTyped
  <2>2. grew' \in BOOLEAN
    BY <1>2, Zenon
  <2> QED
    BY <2>1, <2>2, Zenon DEF SummarySound, SummaryTyped
<1>5. AskedFor(stage', report') /\ changes' # 0
  BY <1>2 DEF SummarySound
<1> QED
  BY <1>2, <1>4, <1>5 DEF SummarySound

LEMMA ListRecentKeeps == ASSUME SummarySound, NEW q \in Questions, ListRecent(q) PROVE SummarySound'
<1>1. PICK m, r, C, n : m = matching /\ r = report /\ C = Listed(q) /\ n = SumFunctionOnSet(m, C)
  OBVIOUS
<1>2. PICK k, r2 : /\ k = Least(RecentLimit, n)
                   /\ r2 = [NoReport EXCEPT !.span = q.span, !.offset = q.offset, !.bucket = q.bucket,
                              !.padded = q.padded, !.recent = k]
  OBVIOUS
<1>3. /\ matching' = m /\ stage' = "total" /\ report' = r2 /\ changes' = changes /\ grew' = grew /\ stage = "idle"
      /\ r = NoReport
  BY <1>1, <1>2 DEF ListRecent, Count, SummarySound, AskedFor
<1>4. m \in RowTables /\ r \in ReportType /\ C \in SUBSET Cells
  BY <1>1, WindowsAre DEF SummarySound, SummaryTyped
<1>5. n \in Nat /\ RecentLimit \in Nat
  BY <1>1, <1>4, CountsAre, SummaryAssumption
<1>6. k \in Nat /\ k <= n
  BY <1>2, <1>5 DEF Least
<1>7. /\ q.span \in Nat \ {0} /\ q.offset \in Int /\ q.bucket \in Nat /\ q.padded \in {"yes", "no"}
      /\ (q.bucket > 0 => q.span \div q.bucket + 2 <= BucketLimit)
  BY SummaryAssumption
<1>8. r2 = [r EXCEPT !.span = q.span, !.offset = q.offset, !.bucket = q.bucket, !.padded = q.padded, !.recent = k]
  BY <1>2, <1>3
<1>9. /\ r2 \in ReportType /\ r2.span = q.span /\ r2.offset = q.offset /\ r2.bucket = q.bucket /\ r2.padded = q.padded
      /\ r2.recent = k /\ r2.baselines = r.baselines
  BY <1>4, <1>6, <1>7, <1>8 DEF ReportType
<1>10. Listed(r2) = C /\ (r2.padded = "no" => Current(r2) = C)
  BY <1>1, <1>9, SameQuestion, WindowsAre
<1>11. DOMAIN r2.baselines # References
  BY <1>3, <1>9 DEF SummarySound, AskedFor
<1>12. AskedFor("total", r2)
  BY <1>7, <1>9, <1>11 DEF AskedFor
<1>13. Tells(m, "total", r2) /\ Grows(m, "total", r2)
  BY <1>1, <1>2, <1>6, <1>9, <1>10 DEF Tells, Grows
<1>14. SummaryTyped'
  BY <1>1, <1>3, <1>9 DEF SummarySound, SummaryTyped
<1> QED
  BY <1>1, <1>3, <1>12, <1>13, <1>14 DEF SummarySound

LEMMA CountTotalKeeps == ASSUME SummarySound, CountTotal PROVE SummarySound'
<1>1. PICK m, r, C, n : m = matching /\ r = report /\ C = Current(r) /\ n = SumFunctionOnSet(m, C)
  OBVIOUS
<1>2. PICK r2 : r2 = [r EXCEPT !.total = n]
  OBVIOUS
<1>3. matching' = m /\ stage = "total" /\ stage' = "groups" /\ report' = r2 /\ changes' = changes /\ grew' = grew
  BY <1>1, <1>2 DEF CountTotal, Count
<1>4. m \in RowTables /\ r \in ReportType /\ C \in SUBSET Cells
  BY <1>1, WindowsAre DEF SummarySound, SummaryTyped
<1>5. n \in Nat
  BY <1>1, <1>4, CountsAre
<1>6. /\ r2 \in ReportType /\ r2.span = r.span /\ r2.offset = r.offset /\ r2.bucket = r.bucket /\ r2.padded = r.padded /\ r2.recent = r.recent
      /\ r2.baselines = r.baselines /\ r2.total = n
  BY <1>2, <1>4, <1>5 DEF ReportType
<1>7. Current(r2) = C /\ Listed(r2) = Listed(r)
  BY <1>1, <1>6, SameQuestion
<1>8. AskedFor("groups", r2)
  BY <1>1, <1>3, <1>6 DEF AskedFor, SummarySound
<1>9. changes = 0 => Tells(m, "groups", r2)
  BY <1>1, <1>3, <1>6, <1>7 DEF Tells, SummarySound
<1>10. grew => Grows(m, "groups", r2)
  BY <1>1, <1>3, <1>5, <1>6, <1>7 DEF Grows, SummarySound
<1>11. SummaryTyped'
  BY <1>1, <1>3, <1>6 DEF SummarySound, SummaryTyped
<1> QED
  BY <1>1, <1>3, <1>8, <1>9, <1>10, <1>11 DEF SummarySound

LEMMA GroupCurrentKeeps == ASSUME SummarySound, GroupCurrent PROVE SummarySound'
<1>1. PICK m, r, C, g : m = matching /\ r = report /\ C = Current(r) /\ g = GroupedIn(m, C)
  OBVIOUS
<1>2. PICK r2, st : r2 = [r EXCEPT !.groups = g] /\ st = stage'
  OBVIOUS
<1>3. /\ matching' = m /\ stage = "groups" /\ report' = r2 /\ changes' = changes /\ grew' = grew
      /\ st = IF r.bucket > 0 THEN "timeline" ELSE IF r.offset >= 0 THEN "before" ELSE "baselines"
  BY <1>1, <1>2, GroupedIs DEF GroupCurrent
<1>4. m \in RowTables /\ r \in ReportType /\ C \in SUBSET Cells
  BY <1>1, WindowsAre DEF SummarySound, SummaryTyped
<1>5. g \in GroupsType /\ (~g.truncated => SumFunction(g.counts) = SumFunctionOnSet(m, C))
  BY <1>1, <1>4, GroupsAre
<1>6. /\ r2 \in ReportType /\ r2.span = r.span /\ r2.offset = r.offset /\ r2.bucket = r.bucket /\ r2.padded = r.padded /\ r2.recent = r.recent
      /\ r2.baselines = r.baselines /\ r2.total = r.total /\ r2.groups = g
  BY <1>2, <1>4, <1>5 DEF ReportType
<1>7. Current(r2) = C /\ Listed(r2) = Listed(r)
  BY <1>1, <1>6, SameQuestion
<1>8. st \in {"timeline", "before", "baselines"} /\ (st = "timeline" <=> r.bucket > 0) /\ (st = "baselines" => ~(r.offset >= 0))
  BY <1>3
<1>9. AskedFor(st, r2)
  BY <1>1, <1>3, <1>6, <1>8 DEF AskedFor, SummarySound
<1>10. changes = 0 => Tells(m, st, r2)
  BY <1>1, <1>3, <1>6, <1>7, <1>8 DEF Tells, SummarySound
<1>11. grew => Grows(m, st, r2)
  BY <1>1, <1>3, <1>5, <1>6, <1>7 DEF Grows, SummarySound
<1>12. SummaryTyped'
  BY <1>1, <1>2, <1>3, <1>6, <1>8 DEF SummarySound, SummaryTyped
<1> QED
  BY <1>1, <1>2, <1>3, <1>9, <1>10, <1>11, <1>12 DEF SummarySound

LEMMA ReadTimelineKeeps == ASSUME SummarySound, ReadTimeline PROVE SummarySound'
<1>1. PICK m, r, C, l : m = matching /\ r = report /\ C = Current(r) /\ l = LinesIn(m, r)
  OBVIOUS
<1>2. PICK r2, st : r2 = [r EXCEPT !.lines = l] /\ st = stage'
  OBVIOUS
<1>3. /\ matching' = m /\ stage = "timeline" /\ report' = r2 /\ changes' = changes /\ grew' = grew
      /\ st = IF r.offset >= 0 THEN "before" ELSE "baselines"
  BY <1>1, <1>2 DEF ReadTimeline, LinesIn, Count
<1>4. m \in RowTables /\ r \in ReportType /\ C \in SUBSET Cells
  BY <1>1, WindowsAre DEF SummarySound, SummaryTyped
<1>5. PICK L, w : L = {BucketOf(c[1], w) : c \in C} /\ w = r.bucket
  OBVIOUS
<1>6. w \in Nat \ {0}
  BY <1>1, <1>3, <1>4, <1>5, ReportIs DEF AskedFor, SummarySound
<1>7. L \in SUBSET Int
  <2>1. \A c \in C : c[1] \in Int
    BY <1>4, CellsAre
  <2>2. \A x \in Int : x \div w \in Int
    BY <1>6
  <2>3. \A x \in Int : BucketOf(x, w) \in Int
    BY <1>6, <2>2 DEF BucketOf
  <2> QED
    BY <1>5, <2>1, <2>3
<1>8. l \in [L -> Nat]
  <2>1. \A b \in L : {c \in C : BucketOf(c[1], w) = b} \in SUBSET Cells
    BY <1>4
  <2>2. \A b \in L : SumFunctionOnSet(m, {c \in C : BucketOf(c[1], w) = b}) \in Nat
    BY <1>4, <2>1, CountsAre
  <2>3. l = [b \in L |-> SumFunctionOnSet(m, {c \in C : BucketOf(c[1], w) = b})]
    BY <1>1, <1>5 DEF LinesIn
  <2> QED
    BY <2>2, <2>3
<1>9. l \in UNION {[D -> Nat] : D \in SUBSET Int}
  BY <1>7, <1>8
<1>10. /\ r2 \in ReportType /\ r2.span = r.span /\ r2.offset = r.offset /\ r2.bucket = r.bucket /\ r2.padded = r.padded /\ r2.recent = r.recent
       /\ r2.baselines = r.baselines /\ r2.total = r.total /\ r2.groups = r.groups /\ r2.lines = l
  BY <1>2, <1>4, <1>9 DEF ReportType
<1>11. Current(r2) = C /\ Listed(r2) = Listed(r) /\ LinesIn(m, r2) = l
  BY <1>1, <1>10, SameQuestion
<1>12. st \in {"before", "baselines"} /\ (st = "baselines" => ~(r.offset >= 0))
  BY <1>3
<1>13. AskedFor(st, r2)
  BY <1>1, <1>3, <1>10, <1>12 DEF AskedFor, SummarySound
<1>14. changes = 0 => Tells(m, st, r2)
  BY <1>1, <1>3, <1>10, <1>11, <1>12 DEF Tells, SummarySound
<1>15. grew => Grows(m, st, r2)
  BY <1>1, <1>3, <1>10, <1>11 DEF Grows, SummarySound
<1>16. SummaryTyped'
  BY <1>1, <1>2, <1>3, <1>10, <1>12 DEF SummarySound, SummaryTyped
<1> QED
  BY <1>1, <1>2, <1>3, <1>13, <1>14, <1>15, <1>16 DEF SummarySound

LEMMA CountBeforeKeeps == ASSUME SummarySound, CountBefore PROVE SummarySound'
<1>1. PICK m, r, C, n : m = matching /\ r = report /\ C = Compared(r) /\ n = SumFunctionOnSet(m, C)
  OBVIOUS
<1>2. PICK r2 : r2 = [r EXCEPT !.before = n]
  OBVIOUS
<1>3. matching' = m /\ stage = "before" /\ stage' = "earlier" /\ report' = r2 /\ changes' = changes /\ grew' = grew
  BY <1>1, <1>2 DEF CountBefore, Count
<1>4. m \in RowTables /\ r \in ReportType /\ C \in SUBSET Cells
  BY <1>1, WindowsAre DEF SummarySound, SummaryTyped
<1>5. n \in Nat
  BY <1>1, <1>4, CountsAre
<1>6. /\ r2 \in ReportType /\ r2.span = r.span /\ r2.offset = r.offset /\ r2.bucket = r.bucket /\ r2.padded = r.padded /\ r2.recent = r.recent
      /\ r2.baselines = r.baselines /\ r2.total = r.total /\ r2.groups = r.groups /\ r2.lines = r.lines /\ r2.before = n
  BY <1>2, <1>4, <1>5 DEF ReportType
<1>7. Listed(r2) = Listed(r) /\ Current(r2) = Current(r) /\ Compared(r2) = C /\ LinesIn(m, r2) = LinesIn(m, r)
  BY <1>1, <1>6, SameQuestion
<1>8. AskedFor("earlier", r2)
  BY <1>1, <1>3, <1>6 DEF AskedFor, SummarySound
<1>9. changes = 0 => Tells(m, "earlier", r2)
  BY <1>1, <1>3, <1>6, <1>7 DEF Tells, SummarySound
<1>10. grew => Grows(m, "earlier", r2)
  BY <1>1, <1>3, <1>6, <1>7 DEF Grows, SummarySound
<1>11. SummaryTyped'
  BY <1>1, <1>3, <1>6 DEF SummarySound, SummaryTyped
<1> QED
  BY <1>1, <1>3, <1>8, <1>9, <1>10, <1>11 DEF SummarySound

LEMMA GroupBeforeKeeps == ASSUME SummarySound, GroupBefore PROVE SummarySound'
<1>1. PICK m, r, C, g : m = matching /\ r = report /\ C = Compared(r) /\ g = GroupedIn(m, C)
  OBVIOUS
<1>2. PICK r2 : r2 = [r EXCEPT !.earlier = g]
  OBVIOUS
<1>3. matching' = m /\ stage = "earlier" /\ stage' = "baselines" /\ report' = r2 /\ changes' = changes /\ grew' = grew
  BY <1>1, <1>2, GroupedIs DEF GroupBefore
<1>4. m \in RowTables /\ r \in ReportType /\ C \in SUBSET Cells
  BY <1>1, WindowsAre DEF SummarySound, SummaryTyped
<1>5. g \in GroupsType
  BY <1>1, <1>4, GroupsAre
<1>6. /\ r2 \in ReportType /\ r2.span = r.span /\ r2.offset = r.offset /\ r2.bucket = r.bucket /\ r2.padded = r.padded /\ r2.recent = r.recent
      /\ r2.baselines = r.baselines /\ r2.total = r.total /\ r2.groups = r.groups /\ r2.lines = r.lines
      /\ r2.before = r.before /\ r2.earlier = g
  BY <1>2, <1>4, <1>5 DEF ReportType
<1>7. Listed(r2) = Listed(r) /\ Current(r2) = Current(r) /\ Compared(r2) = C /\ LinesIn(m, r2) = LinesIn(m, r)
  BY <1>1, <1>6, SameQuestion
<1>8. AskedFor("baselines", r2)
  BY <1>1, <1>3, <1>6 DEF AskedFor, SummarySound
<1>9. changes = 0 => Tells(m, "baselines", r2)
  BY <1>1, <1>3, <1>6, <1>7 DEF Tells, SummarySound
<1>10. grew => Grows(m, "baselines", r2)
  BY <1>1, <1>3, <1>6, <1>7 DEF Grows, SummarySound
<1>11. SummaryTyped'
  BY <1>1, <1>3, <1>6 DEF SummarySound, SummaryTyped
<1> QED
  BY <1>1, <1>3, <1>8, <1>9, <1>10, <1>11 DEF SummarySound

LEMMA CountBaselineKeeps == ASSUME SummarySound, CountBaseline PROVE SummarySound'
<1>1. PICK m, r, D, o : m = matching /\ r = report /\ D = DOMAIN r.baselines /\ o = Min(References \ D)
  OBVIOUS
<1>2. PICK C, n, E : C = Baseline(r, o) /\ n = SumFunctionOnSet(m, C) /\ E = D \cup {o}
  OBVIOUS
<1>3. PICK b : b = [p \in E |-> IF p = o THEN n ELSE r.baselines[p]]
  OBVIOUS
<1>4. PICK r2, st : r2 = [r EXCEPT !.baselines = b] /\ st = stage'
  OBVIOUS
<1>5. /\ matching' = m /\ stage = "baselines" /\ report' = r2 /\ changes' = changes /\ grew' = grew
      /\ st = IF E = References THEN "done" ELSE "baselines"
  <2>1. [p \in D \cup {o} |-> IF p = o THEN SumFunctionOnSet(m, Baseline(r, p)) ELSE r.baselines[p]] = b
    BY <1>2, <1>3
  <2> QED
    BY <1>1, <1>2, <1>4, <2>1 DEF CountBaseline, Count
<1>6. m \in RowTables /\ r \in ReportType /\ C \in SUBSET Cells
  BY <1>1, <1>2, WindowsAre DEF SummarySound, SummaryTyped
<1>7. n \in Nat
  BY <1>2, <1>6, CountsAre
<1>8. D \subseteq References /\ r.baselines \in [D -> Nat]
  BY <1>1, <1>6, ReportIs
<1>9. o \in References
  <2>1. D # References
    BY <1>1, <1>5 DEF SummarySound, AskedFor
  <2>2. PICK S : S = References \ D
    OBVIOUS
  <2>3. S \in SUBSET Int /\ IsFiniteSet(S) /\ S # {}
    <3>1. IsFiniteSet(References) /\ References \subseteq Nat
      BY SummaryAssumption
    <3>2. S \in SUBSET References
      BY <2>2
    <3>3. IsFiniteSet(S)
      BY <3>1, <3>2, FS_Subset
    <3>4. S \in SUBSET Int
      BY <3>1, <3>2
    <3> QED
      BY <1>8, <2>1, <2>2, <3>3, <3>4
  <2> QED
    BY <1>1, <2>2, <2>3, ExtremesAre
<1>10. E \in SUBSET References /\ b \in [E -> Nat]
  BY <1>2, <1>3, <1>7, <1>8, <1>9
<1>11. /\ r2 \in ReportType /\ r2.span = r.span /\ r2.offset = r.offset /\ r2.bucket = r.bucket /\ r2.padded = r.padded /\ r2.recent = r.recent
       /\ r2.baselines = b /\ r2.total = r.total /\ r2.groups = r.groups /\ r2.lines = r.lines
       /\ r2.before = r.before /\ r2.earlier = r.earlier
  <2>1. b \in UNION {[F -> Nat] : F \in SUBSET References}
    BY <1>10
  <2> QED
    BY <1>4, <1>6, <2>1 DEF ReportType
<1>12. Listed(r2) = Listed(r) /\ Current(r2) = Current(r) /\ Compared(r2) = Compared(r) /\ LinesIn(m, r2) = LinesIn(m, r)
  BY <1>11, SameQuestion
<1>13. st \in {"baselines", "done"} /\ (st = "done" <=> DOMAIN b = References)
  BY <1>3, <1>5
<1>14. AskedFor(st, r2)
  BY <1>1, <1>5, <1>11, <1>13 DEF AskedFor, SummarySound
<1>15. changes = 0 => Tells(m, st, r2)
  BY <1>1, <1>5, <1>11, <1>12, <1>13 DEF Tells, SummarySound
<1>16. grew => Grows(m, st, r2)
  BY <1>1, <1>5, <1>11, <1>12, <1>13 DEF Grows, SummarySound
<1>17. SummaryTyped'
  BY <1>1, <1>4, <1>5, <1>11, <1>13 DEF SummarySound, SummaryTyped
<1> QED
  BY <1>1, <1>4, <1>5, <1>14, <1>15, <1>16, <1>17 DEF SummarySound

LEMMA SummaryStep == SummarySound /\ [SummaryNext]_summaryVars => SummarySound'
<1> SUFFICES ASSUME SummarySound, [SummaryNext]_summaryVars PROVE SummarySound'
  OBVIOUS
<1>1. CASE UNCHANGED summaryVars
  BY <1>1 DEF summaryVars, SummarySound, SummaryTyped
<1>2. CASE SummaryNext
  BY <1>2, RowStoredKeeps, RowArrivesKeeps, RowAcknowledgedKeeps, ListRecentKeeps, CountTotalKeeps,
     GroupCurrentKeeps, ReadTimelineKeeps, CountBeforeKeeps, GroupBeforeKeeps, CountBaselineKeeps DEF SummaryNext
<1> QED
  BY <1>1, <1>2

-----------------------------------------------------------------------------
(* What a finished report tells.                                           *)

\* What a report's windows hold while nothing changes.
LEMMA BucketsHold ==
  ASSUME NEW w \in Nat \ {0}, NEW a \in Int, NEW s \in Nat, NEW x \in Int, a <= x, x <= a + s
  PROVE  /\ BucketOf(a, w) \in Int /\ BucketOf(x, w) \in Int /\ BucketOf(a + s, w) \in Int
         /\ BucketOf(a, w) <= BucketOf(x, w) /\ BucketOf(x, w) <= BucketOf(a + s, w)
         /\ (BucketOf(x, w) - BucketOf(a, w)) \div w <= s \div w + 1
<1>1. PICK z, i, k, j, t : z = a + s /\ i = a \div w /\ k = x \div w /\ j = z \div w /\ t = s \div w
  OBVIOUS
<1>2. /\ z \in Int /\ i \in Int /\ k \in Int /\ j \in Int /\ t \in Int
      /\ i * w <= a /\ a < i * w + w /\ k * w <= x /\ s < t * w + w
  BY <1>1, Division
<1>3. BucketOf(a, w) = i * w /\ BucketOf(x, w) = k * w /\ BucketOf(a + s, w) = j * w
  BY <1>1 DEF BucketOf
<1>4. i * w \in Int /\ k * w \in Int /\ j * w \in Int /\ t * w \in Int
  BY <1>2
<1>5. i * w <= x /\ k * w <= z
  BY <1>1, <1>2, <1>4
<1>6. i <= k /\ k <= j
  BY <1>1, <1>2, <1>5, Division
<1>7. i * w <= k * w /\ k * w <= j * w
  BY <1>2, <1>6, Products
<1>8. k <= i + (t + 1)
  <2>1. (i + (t + 1)) * w = i * w + t * w + w
    BY <1>2
  <2>2. x < (i + (t + 1)) * w + w
    <3>1. x < i * w + t * w + w + w
      BY <1>2, <1>4
    <3> QED
      BY <2>1, <3>1
  <2>3. i + (t + 1) \in Int
    BY <1>2
  <2> QED
    BY <1>1, <2>2, <2>3, Division
<1>9. PICK d : d = k - i
  OBVIOUS
<1>10. d \in Int /\ d <= t + 1 /\ d * w = k * w - i * w
  BY <1>2, <1>8, <1>9
<1>11. d * w \in Int /\ d * w < d * w + w
  BY <1>4, <1>10
<1>12. (d * w) \div w <= d /\ (d * w) \div w \in Int
  BY <1>10, <1>11, Division
<1>13. (BucketOf(x, w) - BucketOf(a, w)) \div w <= t + 1
  BY <1>2, <1>3, <1>10, <1>12
<1> QED
  BY <1>1, <1>3, <1>4, <1>7, <1>13

\* A timeline that is shown holds every row of its window.
LEMMA TimelineAddsUp ==
  ASSUME NEW m \in RowTables, \A c \in Cells : c[1] > Present => m[c] = 0,
         NEW r \in ReportType, r.span \in Nat \ {0}, r.bucket > 0, r.span \div r.bucket + 2 <= BucketLimit,
         r.lines = LinesIn(m, r)
  PROVE  SumFunctionOnSet(r.lines, Shown(r)) = SumFunctionOnSet(m, Current(r))
<1>1. PICK w, a, s, C : w = r.bucket /\ a = Since(r) /\ s = r.span /\ C = Current(r)
  OBVIOUS
<1>2. w \in Nat \ {0} /\ s \in Nat /\ a \in Int /\ a + s = Present /\ Present \in Int /\ BucketLimit \in Nat
  BY <1>1, ReportIs, SummaryAssumption DEF Since
<1>3. PICK first, last : first = BucketOf(a, w) /\ last = BucketOf(Present, w)
  OBVIOUS
<1>4. first \in Int /\ last \in Int
  BY <1>2, <1>3, BucketsHold
<1>5. PICK L, l, S : L = {BucketOf(c[1], w) : c \in C} /\ l = r.lines /\ S = Shown(r)
  OBVIOUS
<1>6. l = [b \in L |-> SumFunctionOnSet(m, {c \in C : BucketOf(c[1], w) = b})]
  BY <1>1, <1>5 DEF LinesIn
<1>7. S = {b \in L : first <= b /\ b <= last /\ (b - first) \div w < BucketLimit}
  BY <1>1, <1>3, <1>5, <1>6 DEF Shown
<1>8. C \in SUBSET Cells /\ IsFiniteSet(C) /\ \A c \in C : c[1] \in Int /\ a <= c[1]
  BY <1>1, CellsAre, FS_Subset DEF Current, Counted, Listed
<1>9. ASSUME NEW c \in C, c[1] <= Present PROVE BucketOf(c[1], w) \in S
  <2>1. PICK x, b : x = c[1] /\ b = BucketOf(x, w)
    OBVIOUS
  <2>2. x \in Int /\ a <= x /\ x <= a + s
    BY <1>2, <1>8, <1>9, <2>1
  <2>3. first <= b /\ b <= last /\ (b - first) \div w <= s \div w + 1 /\ b \in Int
    BY <1>2, <1>3, <2>1, <2>2, BucketsHold
  <2>4. s \div w \in Int /\ (b - first) \div w \in Int /\ s \div w + 2 <= BucketLimit
    <3>1. b - first \in Int /\ s \in Int
      BY <1>2, <1>4, <2>3
    <3> QED
      BY <1>1, <1>2, <3>1, Division
  <2>5. (b - first) \div w < BucketLimit
    <3>1. PICK p, q : p = (b - first) \div w /\ q = s \div w
      OBVIOUS
    <3>2. p \in Int /\ q \in Int /\ p <= q + 1 /\ q + 2 <= BucketLimit
      BY <2>3, <2>4, <3>1
    <3>3. p < BucketLimit
      BY <1>2, <3>2
    <3> QED
      BY <3>1, <3>3
  <2>6. b \in L
    BY <1>5, <2>1
  <2> QED
    BY <1>7, <2>1, <2>3, <2>5, <2>6
<1>10. IsFiniteSet(S)
  <2>1. \A x \in Int : x \div w \in Int
    BY <1>2, Division
  <2>2. \A x \in Int : BucketOf(x, w) \in Int
    BY <1>2, <2>1 DEF BucketOf
  <2>3. \A b \in L : b \in Int
    BY <1>5, <1>8, <2>2
  <2>4. S \in SUBSET (first..last)
    BY <1>4, <1>7, <2>3
  <2>5. IsFiniteSet(first..last)
    BY <1>4, FS_Interval
  <2> QED
    BY <2>4, <2>5, FS_Subset
<1>11. PICK lab : lab = [c \in Cells |-> BucketOf(c[1], w)]
  OBVIOUS
<1>12. \A c \in C : lab[c] = BucketOf(c[1], w)
  BY <1>8, <1>11
<1>13. \A b \in S : l[b] = SumFunctionOnSet(m, {c \in C : lab[c] = b})
  <2>1. \A b \in S : {c \in C : lab[c] = b} = {c \in C : BucketOf(c[1], w) = b}
    BY <1>12
  <2>2. \A b \in S : l[b] = SumFunctionOnSet(m, {c \in C : BucketOf(c[1], w) = b})
    BY <1>6, <1>7
  <2> QED
    BY <2>1, <2>2
<1>14. PICK D : D = {c \in C : lab[c] \in S}
  OBVIOUS
<1>15. SumFunctionOnSet(l, S) = SumFunctionOnSet(m, D)
  <2>1. PICK fib : fib = [b \in S |-> {c \in C : lab[c] = b}]
    OBVIOUS
  <2>2. \A b \in S : l[b] = SumFunctionOnSet(m, fib[b])
    BY <1>13, <2>1
  <2>3. Sorted(C, lab, S, fib, D)
    BY <1>14, <2>1 DEF Sorted
  <2> QED
    BY <1>8, <1>10, <2>2, <2>3, PartsOfTable
<1>16. ASSUME NEW c \in C \ D PROVE m[c] = 0
  <2>1. ~(c[1] <= Present)
    BY <1>9, <1>12, <1>14, <1>16
  <2>2. c[1] > Present
    BY <1>2, <1>8, <2>1, <1>16
  <2> QED
    BY <1>8, <1>16, <2>2
<1>17. SumFunctionOnSet(m, C) = SumFunctionOnSet(m, D)
  BY <1>8, <1>14, <1>16, SumOfRest
<1> QED
  BY <1>1, <1>5, <1>15, <1>17

\* Two adjacent windows hold each row once.
LEMMA WindowsAddUp ==
  ASSUME NEW m \in RowTables, NEW r \in ReportType, r.offset = 0, r.padded = "no"
  PROVE  SumFunctionOnSet(m, Current(r)) + SumFunctionOnSet(m, Compared(r))
           = SumFunctionOnSet(m, {c \in Cells : c[1] >= Since(r) - r.span})
<1>1. PICK a, s, C, B, A : /\ a = Since(r) /\ s = r.span /\ C = Current(r) /\ B = Compared(r)
                           /\ A = {c \in Cells : c[1] >= a - s}
  OBVIOUS
<1>2. s \in Nat /\ a \in Int
  BY <1>1, ReportIs, SummaryAssumption DEF Since
<1>3. C = {c \in Cells : a <= c[1]} /\ B = {c \in Cells : a - s <= c[1] /\ c[1] < a}
  <2>1. (a - s) + s = a
    BY <1>2
  <2> QED
    BY <1>1, <2>1 DEF Current, Counted, Listed, Compared, WindowCells, Offset
<1>4. \A c \in Cells : c[1] \in Int
  BY CellsAre
<1>5. C \cup B = A /\ C \cap B = {}
  <2>1. \A c \in Cells : c[1] >= a - s <=> (a <= c[1] \/ (a - s <= c[1] /\ c[1] < a))
    BY <1>2, <1>4
  <2>2. \A c \in Cells : ~(a <= c[1] /\ c[1] < a)
    BY <1>2, <1>4
  <2> QED
    BY <1>1, <1>3, <2>1, <2>2
<1>6. C \in SUBSET Cells /\ B \in SUBSET Cells
  BY <1>3
<1>7. /\ IsFiniteSet(C) /\ IsFiniteSet(B)
      /\ \A c \in C : m[c] \in Nat
      /\ \A c \in B : m[c] \in Nat
  BY <1>6, CountsAre
<1>8. \A c \in C \cup B : m[c] \in Int
  BY <1>7
<1>9. SumFunctionOnSet(m, C \cup B) = SumFunctionOnSet(m, C) + SumFunctionOnSet(m, B)
  BY <1>5, <1>7, <1>8, SumUnion
<1> QED
  BY <1>1, <1>5, <1>9

LEMMA GroupsIs ==
  ASSUME NEW g \in GroupsType
  PROVE  /\ DOMAIN g.counts \subseteq LabelSet /\ IsFiniteSet(DOMAIN g.counts)
         /\ g.counts \in [DOMAIN g.counts -> Nat] /\ g.truncated \in BOOLEAN
<1>1. g.counts \in UNION {[D -> Nat] : D \in SUBSET LabelSet} /\ g.truncated \in BOOLEAN
  BY DEF GroupsType
<1>2. PICK D \in SUBSET LabelSet : g.counts \in [D -> Nat]
  BY <1>1
<1>3. IsFiniteSet(D)
  BY CellsAre, FS_Subset
<1> QED
  BY <1>1, <1>2, <1>3

\* A window has no row of a name it does not tell of.
LEMMA SumOfAt ==
  ASSUME NEW g, NEW D, g \in [D -> Nat], NEW N, IsFiniteSet(N), D \in SUBSET N,
         NEW h, \A n \in N : h[n] = At(g, n)
  PROVE  SumFunctionOnSet(h, N) = SumFunction(g) /\ \A n \in N : h[n] \in Nat
<1>1. DOMAIN g = D /\ \A n \in D : g[n] \in Nat
  OBVIOUS
<1>2. \A n \in N : h[n] = IF n \in D THEN g[n] ELSE 0
  BY <1>1 DEF At
<1>3. PICK E : E = N \ D
  OBVIOUS
<1>4. IsFiniteSet(D) /\ IsFiniteSet(E) /\ D \cup E = N /\ D \cap E = {}
  BY <1>3, FS_Subset
<1>5. \A n \in E : h[n] = 0
  BY <1>2, <1>3
<1>6. \A n \in D : h[n] = g[n]
  BY <1>2
<1>7. \A n \in N : h[n] \in Nat
  BY <1>1, <1>2
<1>8. \A n \in D \cup E : h[n] \in Int
  BY <1>4, <1>7
<1>9. SumFunctionOnSet(h, D \cup E) = SumFunctionOnSet(h, D) + SumFunctionOnSet(h, E)
  BY <1>4, <1>8, SumUnion
<1>10. SumFunctionOnSet(h, E) = 0
  BY <1>4, <1>5, SumOfZeros
<1>11. SumFunctionOnSet(h, D) = SumFunctionOnSet(g, D)
  BY <1>4, <1>6, SumSame
<1>12. SumFunctionOnSet(h, D) \in Nat
  BY <1>4, <1>7, SumOfNaturals
<1>13. SumFunction(g) = SumFunctionOnSet(g, D)
  BY <1>1 DEF SumFunction
<1> QED
  BY <1>4, <1>7, <1>9, <1>10, <1>11, <1>12, <1>13

\* The names of either window and what is kept of them.
LEMMA ChangesAre ==
  ASSUME NEW r \in ReportType
  PROVE  /\ DOMAIN Changed(r) \in SUBSET LabelSet /\ IsFiniteSet(DOMAIN Changed(r))
         /\ \A n \in DOMAIN Changed(r) :
              /\ Changed(r)[n] \in Int
              /\ Changed(r)[n] = At(r.groups.counts, n) - At(r.earlier.counts, n)
         /\ DOMAIN Contributors(r) \in SUBSET DOMAIN Changed(r) /\ IsFiniteSet(DOMAIN Contributors(r))
         /\ \A n \in DOMAIN Contributors(r) : Contributors(r)[n] = Changed(r)[n]
         /\ Cardinality(DOMAIN Changed(r)) <= GroupLimit => Contributors(r) = Changed(r)
         /\ DOMAIN Changed(r) # {} =>
              \E k \in DOMAIN Contributors(r) : \A n \in DOMAIN Changed(r) :
                Magnitude(Changed(r)[n]) <= Magnitude(Contributors(r)[k])
<1>1. PICK g, e : g = r.groups.counts /\ e = r.earlier.counts
  OBVIOUS
<1>2. /\ DOMAIN g \subseteq LabelSet /\ DOMAIN e \subseteq LabelSet
      /\ g \in [DOMAIN g -> Nat] /\ e \in [DOMAIN e -> Nat]
  BY <1>1, ReportIs, GroupsIs
<1>3. PICK N : N = DOMAIN g \cup DOMAIN e
  OBVIOUS
<1>4. N \in SUBSET LabelSet /\ IsFiniteSet(N)
  BY <1>2, <1>3, CellsAre, FS_Subset
<1>5. PICK ch : ch = Changed(r)
  OBVIOUS
<1>6. ch = [n \in N |-> At(g, n) - At(e, n)]
  BY <1>1, <1>3, <1>5 DEF Changed
<1>7. \A n \in N : At(g, n) \in Nat /\ At(e, n) \in Nat
  BY <1>2 DEF At
<1>8. \A n \in N : ch[n] \in Int /\ Magnitude(ch[n]) \in Nat
  BY <1>6, <1>7 DEF Magnitude
<1>9. PICK size : size = [n \in N |-> Magnitude(ch[n])]
  OBVIOUS
<1>10. \A n \in N : size[n] \in Nat
  BY <1>8, <1>9
<1>11. PICK kept : kept = KeptGroups(size, N)
  OBVIOUS
<1>12. kept \in SUBSET N
  BY <1>11 DEF KeptGroups
<1>13. Contributors(r) = [n \in kept |-> ch[n]]
  <2>1. DOMAIN ch = N /\ DOMAIN size = N
    BY <1>6, <1>9
  <2>2. [n \in DOMAIN ch |-> Magnitude(ch[n])] = size
    BY <1>9, <2>1
  <2> QED
    BY <1>5, <1>11, <2>1, <2>2 DEF Contributors, KeptGroups
<1>14. /\ Cardinality(N) <= GroupLimit => kept = N
       /\ N # {} => \E k \in kept : \A n \in N : size[n] <= size[k]
  BY <1>4, <1>10, <1>11, KeptAre
<1>15. IsFiniteSet(kept)
  BY <1>4, <1>12, FS_Subset
<1>16. Cardinality(N) <= GroupLimit => Contributors(r) = ch
  BY <1>6, <1>13, <1>14
<1>17. DOMAIN ch = N /\ DOMAIN Contributors(r) = kept
  BY <1>6, <1>13
<1>18. N # {} => \E k \in kept : \A n \in N : Magnitude(ch[n]) <= Magnitude(Contributors(r)[k])
  BY <1>9, <1>12, <1>13, <1>14
<1> QED
  BY <1>1, <1>4, <1>5, <1>6, <1>8, <1>12, <1>13, <1>15, <1>16, <1>17, <1>18

\* The changes of all groups add up to the change of the total.
LEMMA ChangesAddUp ==
  ASSUME NEW r \in ReportType, Cardinality(DOMAIN Changed(r)) <= GroupLimit
  PROVE  Net(r) = SumFunction(r.groups.counts) - SumFunction(r.earlier.counts)
<1>1. PICK g, e, ch, N : g = r.groups.counts /\ e = r.earlier.counts /\ ch = Changed(r) /\ N = DOMAIN g \cup DOMAIN e
  OBVIOUS
<1>2. g \in [DOMAIN g -> Nat] /\ e \in [DOMAIN e -> Nat] /\ DOMAIN g \in SUBSET N /\ DOMAIN e \in SUBSET N
  BY <1>1, ReportIs, GroupsIs
<1>3. DOMAIN ch = N
  BY <1>1 DEF Changed
<1>4. IsFiniteSet(N)
  BY <1>1, <1>3, ChangesAre
<1>5. PICK f, h : f = [n \in N |-> At(g, n)] /\ h = [n \in N |-> At(e, n)]
  OBVIOUS
<1>6. SumFunctionOnSet(f, N) = SumFunction(g) /\ \A n \in N : f[n] \in Nat
  BY <1>2, <1>4, <1>5, SumOfAt
<1>7. SumFunctionOnSet(h, N) = SumFunction(e) /\ \A n \in N : h[n] \in Nat
  BY <1>2, <1>4, <1>5, SumOfAt
<1>8. \A n \in N : f[n] \in Int /\ h[n] \in Int /\ ch[n] = f[n] - h[n]
  <2>1. \A n \in N : ch[n] = At(g, n) - At(e, n)
    BY <1>1, <1>3, ChangesAre
  <2> QED
    BY <1>5, <1>6, <1>7, <2>1
<1>9. SumFunctionOnSet(ch, N) = SumFunctionOnSet(f, N) - SumFunctionOnSet(h, N)
  BY <1>4, <1>8, SumOfDifferences
<1>10. Contributors(r) = ch
  BY <1>1, ChangesAre
<1>11. Net(r) = SumFunctionOnSet(ch, N)
  BY <1>3, <1>10 DEF Net, SumFunction
<1> QED
  BY <1>1, <1>6, <1>7, <1>9, <1>11

\* The parts of a report that nothing changed meanwhile.
LEMMA PartsAddUpFollows == SummarySound => PartsAddUp
<1> SUFFICES ASSUME SummarySound, stage = "done", changes = 0
             PROVE  /\ report.padded = "no" => report.recent = Least(RecentLimit, report.total)
                    /\ report.padded = "yes" =>
                         report.recent = Least(RecentLimit, Count(Listed(report))) /\ report.total = 0
                    /\ report.bucket > 0 => SumFunctionOnSet(report.lines, Shown(report)) = report.total
                    /\ report.offset = 0 /\ report.padded = "no" =>
                         report.total + report.before = Count({c \in Cells : c[1] >= Since(report) - report.span})
                    /\ Complete(report) /\ report.offset >= 0 /\ Cardinality(DOMAIN Changed(report)) <= GroupLimit =>
                         Net(report) = report.total - report.before
  BY DEF PartsAddUp
<1>1. PICK m, r : m = matching /\ r = report
  OBVIOUS
<1>2. /\ m \in RowTables /\ r \in ReportType /\ Tells(m, "done", r) /\ AskedFor("done", r)
      /\ \A c \in Cells : c[1] > Present => m[c] = 0
  BY <1>1 DEF SummarySound, SummaryTyped
<1>3. /\ r.recent = Least(RecentLimit, SumFunctionOnSet(m, Listed(r))) /\ r.total = SumFunctionOnSet(m, Current(r))
      /\ r.groups = GroupedIn(m, Current(r))
      /\ r.bucket > 0 => r.lines = LinesIn(m, r)
  BY <1>2 DEF Tells
<1>4. r.offset >= 0 => r.before = SumFunctionOnSet(m, Compared(r)) /\ r.earlier = GroupedIn(m, Compared(r))
  BY <1>2 DEF Tells
<1>5. r.bucket > 0 => SumFunctionOnSet(r.lines, Shown(r)) = r.total
  <2> SUFFICES ASSUME r.bucket > 0 PROVE SumFunctionOnSet(r.lines, Shown(r)) = r.total
    OBVIOUS
  <2>1. r.span \in Nat \ {0} /\ r.span \div r.bucket + 2 <= BucketLimit /\ r.lines = LinesIn(m, r)
    BY <1>2, <1>3 DEF AskedFor
  <2> QED
    BY <1>2, <1>3, <2>1, TimelineAddsUp
<1>6. r.offset = 0 /\ r.padded = "no" => r.total + r.before = SumFunctionOnSet(m, {c \in Cells : c[1] >= Since(r) - r.span})
  BY <1>2, <1>3, <1>4, WindowsAddUp
<1>7. ASSUME Complete(r), r.offset >= 0, Cardinality(DOMAIN Changed(r)) <= GroupLimit
      PROVE  Net(r) = r.total - r.before
  <2>1. PICK C, D, g, e : C = Current(r) /\ D = Compared(r) /\ g = r.groups /\ e = r.earlier
    OBVIOUS
  <2>2. ~g.truncated /\ ~e.truncated
    BY <1>7, <2>1 DEF Complete
  <2>3. g = GroupedIn(m, C) /\ e = GroupedIn(m, D) /\ C \in SUBSET Cells /\ D \in SUBSET Cells
    BY <1>3, <1>4, <1>7, <2>1, WindowsAre
  <2>4. SumFunction(g.counts) = SumFunctionOnSet(m, C) /\ SumFunction(e.counts) = SumFunctionOnSet(m, D)
    BY <1>2, <2>2, <2>3, GroupsAre
  <2>5. Net(r) = SumFunction(g.counts) - SumFunction(e.counts)
    BY <1>2, <1>7, <2>1, ChangesAddUp
  <2> QED
    BY <1>3, <1>4, <1>7, <2>1, <2>4, <2>5
<1>8. r.padded = "no" => r.recent = Least(RecentLimit, r.total)
  BY <1>3, WindowsAre
<1>9. r.padded = "yes" => r.total = 0
  BY <1>3, WindowsAre, SumOfNone
<1> QED
  BY <1>1, <1>3, <1>5, <1>6, <1>7, <1>8, <1>9 DEF Count

LEMMA PartsOnlyGrowFollows == SummarySound => PartsOnlyGrow
BY DEF SummarySound, PartsOnlyGrow, Grows

\* What groups won and lost, put together in two ways.
LEMMA OffsettingIs ==
  ASSUME NEW r \in ReportType
  PROVE  /\ LET K == Contributors(r)
                up == SumFunctionOnSet(K, {n \in DOMAIN K : K[n] > 0})
                down == SumFunctionOnSet(K, {n \in DOMAIN K : K[n] < 0})
            IN  Offsetting(r) = Least(up, -down)
         /\ Gross(r) \in Nat
         /\ \A n \in DOMAIN Contributors(r) : Magnitude(Contributors(r)[n]) \in Nat /\ Magnitude(Contributors(r)[n]) <= Gross(r)
<1>1. PICK K, D : K = Contributors(r) /\ D = DOMAIN K
  OBVIOUS
<1>2. IsFiniteSet(D) /\ \A n \in D : K[n] \in Int
  BY <1>1, ChangesAre
<1>3. PICK W, L, Z : W = {n \in D : K[n] > 0} /\ L = {n \in D : K[n] < 0} /\ Z = {n \in D : K[n] = 0}
  OBVIOUS
<1>4. /\ IsFiniteSet(W) /\ IsFiniteSet(L) /\ IsFiniteSet(Z) /\ IsFiniteSet(L \cup Z)
      /\ D = W \cup (L \cup Z) /\ W \cap (L \cup Z) = {} /\ L \cap Z = {}
  <2>1. W \in SUBSET D /\ L \in SUBSET D /\ Z \in SUBSET D /\ L \cup Z \in SUBSET D
    BY <1>3
  <2>2. D = W \cup (L \cup Z) /\ W \cap (L \cup Z) = {} /\ L \cap Z = {}
    BY <1>2, <1>3
  <2> QED
    BY <1>2, <2>1, <2>2, FS_Subset
<1>5. PICK M, O : M = [n \in D |-> Magnitude(K[n])] /\ O = [n \in D |-> 0]
  OBVIOUS
<1>6. \A n \in D : M[n] \in Nat /\ M[n] = Magnitude(K[n])
  BY <1>2, <1>5 DEF Magnitude
<1>7. ASSUME NEW f, \A n \in D : f[n] \in Int, \A n \in Z : f[n] = 0
      PROVE  SumFunctionOnSet(f, D) = SumFunctionOnSet(f, W) + SumFunctionOnSet(f, L)
             /\ SumFunctionOnSet(f, W) \in Int /\ SumFunctionOnSet(f, L) \in Int
  <2>1. /\ \A n \in W \cup (L \cup Z) : f[n] \in Int
        /\ \A n \in L \cup Z : f[n] \in Int
        /\ \A n \in W : f[n] \in Int
        /\ \A n \in L : f[n] \in Int
    BY <1>4, <1>7
  <2>2. SumFunctionOnSet(f, W \cup (L \cup Z)) = SumFunctionOnSet(f, W) + SumFunctionOnSet(f, L \cup Z)
    BY <1>4, <2>1, SumUnion
  <2>3. SumFunctionOnSet(f, L \cup Z) = SumFunctionOnSet(f, L) + SumFunctionOnSet(f, Z)
    BY <1>4, <2>1, SumUnion
  <2>4. SumFunctionOnSet(f, Z) = 0
    BY <1>4, <1>7, SumOfZeros
  <2>5. SumFunctionOnSet(f, W) \in Int /\ SumFunctionOnSet(f, L) \in Int
    BY <1>4, <2>1, SumIs
  <2>6. PICK a, b, c, d : /\ a = SumFunctionOnSet(f, W) /\ b = SumFunctionOnSet(f, L)
                          /\ c = SumFunctionOnSet(f, D) /\ d = SumFunctionOnSet(f, L \cup Z)
    OBVIOUS
  <2>7. a \in Int /\ b \in Int /\ c = a + d /\ d = b + 0
    BY <1>4, <2>2, <2>3, <2>4, <2>5, <2>6
  <2>8. c = a + b
    BY <2>7
  <2> QED
    BY <2>5, <2>6, <2>8
<1>8. PICK up, down, net, gross : /\ up = SumFunctionOnSet(K, W) /\ down = SumFunctionOnSet(K, L)
                                  /\ net = SumFunctionOnSet(K, D) /\ gross = SumFunctionOnSet(M, D)
  OBVIOUS
<1>9. net = up + down /\ up \in Int /\ down \in Int
  <2>1. \A n \in Z : K[n] = 0
    BY <1>3
  <2> QED
    BY <1>2, <1>7, <1>8, <2>1
<1>10. gross = SumFunctionOnSet(M, W) + SumFunctionOnSet(M, L)
  <2>1. (\A n \in Z : M[n] = 0) /\ \A n \in D : M[n] \in Int
    BY <1>3, <1>6 DEF Magnitude
  <2> QED
    BY <1>7, <1>8, <2>1
<1>11. SumFunctionOnSet(M, W) = up
  <2>1. \A n \in W : M[n] = K[n]
    BY <1>2, <1>3, <1>6 DEF Magnitude
  <2> QED
    BY <1>4, <1>8, <2>1, SumSame
<1>12. SumFunctionOnSet(M, L) = - down
  <2>1. \A n \in L : O[n] \in Int /\ K[n] \in Int /\ M[n] = O[n] - K[n]
    BY <1>2, <1>3, <1>5, <1>6 DEF Magnitude
  <2>2. SumFunctionOnSet(M, L) = SumFunctionOnSet(O, L) - SumFunctionOnSet(K, L)
    BY <1>4, <2>1, SumOfDifferences
  <2>3. SumFunctionOnSet(O, L) = 0
    <3>1. \A n \in L : O[n] = 0
      BY <1>3, <1>5
    <3> QED
      BY <1>4, <3>1, SumOfZeros
  <2> QED
    BY <1>8, <1>9, <2>2, <2>3
<1>13. gross \in Nat /\ up \in Nat /\ - down \in Nat /\ gross = up - down
  <2>1. gross \in Nat /\ SumFunctionOnSet(M, W) \in Nat /\ SumFunctionOnSet(M, L) \in Nat
    <3>1. W \in SUBSET D /\ L \in SUBSET D
      BY <1>3
    <3> QED
      BY <1>2, <1>6, <1>8, <3>1, SumOfNaturals
  <2> QED
    BY <1>9, <1>10, <1>11, <1>12, <2>1
<1>14. Net(r) = net /\ Gross(r) = gross
  <2>1. DOMAIN M = D /\ [n \in DOMAIN K |-> Magnitude(K[n])] = M
    BY <1>1, <1>5
  <2> QED
    BY <1>1, <1>8, <2>1 DEF Net, Gross, SumFunction
<1>15. (gross - Magnitude(net)) \div 2 = Least(up, -down)
  <2>1. CASE up + down >= 0
    <3>1. Magnitude(net) = up + down
      BY <1>9, <1>13, <2>1 DEF Magnitude
    <3>2. gross - Magnitude(net) = 2 * (-down)
      BY <1>9, <1>13, <3>1
    <3>3. (2 * (-down)) \div 2 = -down
      BY <1>9, <1>13
    <3>4. Least(up, -down) = -down
      BY <1>9, <1>13, <2>1 DEF Least
    <3> QED
      BY <3>2, <3>3, <3>4
  <2>2. CASE up + down < 0
    <3>1. Magnitude(net) = -(up + down)
      BY <1>9, <1>13, <2>2 DEF Magnitude
    <3>2. gross - Magnitude(net) = 2 * up
      BY <1>9, <1>13, <3>1
    <3>3. (2 * up) \div 2 = up
      BY <1>9, <1>13
    <3>4. Least(up, -down) = up
      BY <1>9, <1>13, <2>2 DEF Least
    <3> QED
      BY <3>2, <3>3, <3>4
  <2> QED
    BY <1>9, <2>1, <2>2
<1>16. \A n \in D : Magnitude(K[n]) \in Nat /\ Magnitude(K[n]) <= gross
  <2>1. \A n \in D : M[n] <= gross
    BY <1>2, <1>6, <1>8, SumOfNaturals
  <2> QED
    BY <1>6, <2>1
<1>17. Offsetting(r) = Least(up, -down)
  BY <1>14, <1>15 DEF Offsetting
<1> QED
  BY <1>1, <1>3, <1>8, <1>13, <1>14, <1>16, <1>17

LEMMA NoChangeIs ==
  ASSUME NEW r \in ReportType, Structure(r) = "NO_CHANGE"
  PROVE  \A n \in DOMAIN Changed(r) : Changed(r)[n] = 0
<1>1. ~(Offsetting(r) > 0) /\ ~(Gross(r) > 0)
  <2>1. CASE ~Complete(r)
    BY <2>1 DEF Structure
  <2>2. CASE Complete(r) /\ ~Exceeded(r.total, r.before) /\ Significant(r) # {}
    BY <2>2 DEF Structure
  <2>3. CASE Complete(r) /\ (Exceeded(r.total, r.before) \/ Significant(r) = {})
    <3>1. Structure(r) = IF Offsetting(r) > 0 THEN "OPPOSING" ELSE IF Gross(r) > 0 THEN "ONE_DIRECTION" ELSE "NO_CHANGE"
      BY <2>3 DEF Structure
    <3> QED
      BY <3>1
  <2> QED
    BY <2>1, <2>2, <2>3
<1>2. \A n \in DOMAIN Contributors(r) : Magnitude(Contributors(r)[n]) = 0
  <2>1. Gross(r) \in Nat
    BY OffsettingIs
  <2>2. Gross(r) = 0
    BY <1>1, <2>1
  <2>3. \A n \in DOMAIN Contributors(r) : /\ Magnitude(Contributors(r)[n]) \in Nat
                                          /\ Magnitude(Contributors(r)[n]) <= Gross(r)
    BY OffsettingIs
  <2> QED
    BY <2>2, <2>3
<1>3. ASSUME NEW n \in DOMAIN Changed(r) PROVE Changed(r)[n] = 0
  <2>1. PICK k \in DOMAIN Contributors(r) : Magnitude(Changed(r)[n]) <= Magnitude(Contributors(r)[k])
    BY <1>3, ChangesAre
  <2>2. Magnitude(Changed(r)[n]) <= 0 /\ Changed(r)[n] \in Int
    BY <1>2, <1>3, <2>1, ChangesAre
  <2> QED
    BY <2>2 DEF Magnitude
<1> QED
  BY <1>3

\* The totals of the references and what is told of them.
LEMMA ReferencesAre ==
  ASSUME NEW r \in ReportType, DOMAIN r.baselines = References
  PROVE  /\ Standing(r) = "ABOVE" /\ Spread(r) = 0 => \A o \in References : r.total > r.baselines[o]
         /\ Reliable(r) => \A o \in References : r.baselines[o] > 0
<1>1. PICK b, R, n, t, sum : b = r.baselines /\ R = References /\ n = Cardinality(R) /\ t = r.total /\ sum = Sum(r)
  OBVIOUS
<1>2. IsFiniteSet(R) /\ R # {} /\ \A o \in R : b[o] \in Nat
  <2>1. IsFiniteSet(R) /\ R # {}
    BY <1>1, SummaryAssumption
  <2>2. b \in [R -> Nat]
    BY <1>1, ReportIs
  <2> QED
    BY <2>1, <2>2
<1>3. n \in Nat \ {0} /\ t \in Nat
  <2>1. n \in Nat /\ t \in Nat
    BY <1>1, <1>2, FS_CardinalityType, ReportIs
  <2>2. n # 0
    BY <1>1, <1>2, FS_EmptySet
  <2> QED
    BY <2>1, <2>2
<1>4. PICK V, low, high : V = {b[o] : o \in R} /\ low = Min(V) /\ high = Max(V)
  OBVIOUS
<1>5. low \in Nat /\ high \in Nat /\ \A o \in R : low <= b[o] /\ b[o] <= high
  <2>1. PICK f : f = [o \in R |-> b[o]]
    OBVIOUS
  <2>2. f \in Surjection(R, V)
    BY <1>4, <2>1 DEF Surjection
  <2>3. IsFiniteSet(V)
    BY <1>2, <2>2, FS_Surjection
  <2>4. V \in SUBSET Nat /\ V # {}
    BY <1>2, <1>4
  <2>5. V \in SUBSET Int
    BY <2>4
  <2>6. low \in V /\ high \in V /\ \A y \in V : low <= y /\ y <= high
    BY <1>4, <2>3, <2>4, <2>5, ExtremesAre
  <2> QED
    BY <1>4, <2>4, <2>6
<1>6. sum \in Nat /\ n * low <= sum /\ sum <= n * high
  <2>1. sum = SumFunctionOnSet(b, R)
    BY <1>1 DEF Sum, SumFunction
  <2>2. sum \in Nat
    BY <1>2, <2>1, SumOfNaturals
  <2>3. low \in Int /\ high \in Int /\ \A o \in R : b[o] \in Int /\ low <= b[o] /\ b[o] <= high
    BY <1>2, <1>5
  <2> QED
    BY <1>1, <1>2, <2>1, <2>2, <2>3, SumBounds
<1>7. Spread(r) = high - low
  BY <1>1, <1>4 DEF Spread
<1>8. ASSUME Standing(r) = "ABOVE", Spread(r) = 0, NEW o \in R PROVE t > b[o]
  <2>1. t * n > sum
    <3>1. CASE sum = 0
      BY <1>1, <1>8, <3>1 DEF Standing
    <3>2. CASE sum > 0
      <4>1. PICK now : now = r.total * Cardinality(References)
        OBVIOUS
      <4>2. now = t * n /\ now \in Int
        BY <1>1, <1>3, <4>1
      <4>3. CASE now > sum
        BY <4>2, <4>3
      <4>4. CASE now < sum
        BY <1>1, <1>6, <1>8, <3>2, <4>1, <4>2, <4>4 DEF Standing
      <4>5. CASE now = sum
        BY <1>1, <1>6, <1>8, <3>2, <4>1, <4>2, <4>5 DEF Standing
      <4> QED
        BY <1>6, <4>2, <4>3, <4>4, <4>5
    <3> QED
      BY <1>6, <3>1, <3>2
  <2>2. b[o] = low
    BY <1>2, <1>5, <1>7, <1>8
  <2>3. \A x, y \in Int : x >= y => x * n >= y * n
    BY <1>3, Products
  <2>4. t * n \in Int /\ low * n \in Int /\ low * n = n * low /\ t \in Int /\ low \in Int
    BY <1>3, <1>5
  <2>5. ~(low >= t)
    <3>1. ~(low * n >= t * n)
      BY <1>6, <2>1, <2>4
    <3> QED
      BY <2>3, <2>4, <3>1
  <2> QED
    BY <2>2, <2>4, <2>5
<1>9. ASSUME Reliable(r), NEW o \in R PROVE b[o] > 0
  <2> SUFFICES ASSUME b[o] = 0 PROVE FALSE
    BY <1>2, <1>9
  <2>1. low = 0 /\ Spread(r) = high
    <3>1. low = 0
      BY <1>5, <1>9
    <3> QED
      BY <1>5, <1>7, <3>1
  <2>2. PICK s : s = Spread(r) * Cardinality(References)
    OBVIOUS
  <2>3. s \in Nat /\ sum <= s /\ sum > 0
    <3>1. s = high * n
      BY <1>1, <2>1, <2>2
    <3>2. s = n * high /\ s \in Nat
      BY <1>3, <1>5, <3>1
    <3> QED
      BY <1>1, <1>6, <1>9, <3>2 DEF Reliable
  <2>4. Hundredths(s, sum) <= 100 * StableSpread
    BY <1>1, <1>9, <2>2 DEF Reliable
  <2>5. Hundredths(s, sum) = (20000 * s + sum) \div (2 * sum)
    BY <2>3 DEF Hundredths, Magnitude
  <2>6. PICK w, x : w = 2 * sum /\ x = 20000 * s + sum
    OBVIOUS
  <2>7. w \in Nat \ {0} /\ x \in Int /\ 10000 * w <= x
    BY <1>6, <2>3, <2>6
  <2>8. 10000 <= x \div w /\ x \div w \in Int
    BY <2>7, Division
  <2>9. 100 * StableSpread <= 9900 /\ 100 * StableSpread \in Int
    BY SummaryAssumption
  <2> QED
    BY <2>4, <2>5, <2>6, <2>8, <2>9
<1> QED
  BY <1>1, <1>8, <1>9

\* A report is called masked when, by the rows themselves, it is.
LEMMA MaskedIs ==
  ASSUME NEW m \in RowTables, m = matching, NEW r \in ReportType,
         r.total = SumFunctionOnSet(m, Current(r)), r.before = SumFunctionOnSet(m, Compared(r)),
         r.groups = GroupedIn(m, Current(r)), r.earlier = GroupedIn(m, Compared(r)),
         Complete(r), Cardinality(DOMAIN Changed(r)) <= GroupLimit
  PROVE  Structure(r) = "MASKED" <=> Hides(r)
<1>1. PICK C, D, g, e : C = Current(r) /\ D = Compared(r) /\ g = r.groups.counts /\ e = r.earlier.counts
  OBVIOUS
<1>2. C \in SUBSET Cells /\ D \in SUBSET Cells /\ ~r.groups.truncated /\ ~r.earlier.truncated
  BY <1>1, WindowsAre DEF Complete
<1>3. \A n \in LabelSet : At(g, n) = SumFunctionOnSet(m, {c \in C : c[2] = n})
  BY <1>1, <1>2, GroupsAre
<1>4. \A n \in LabelSet : At(e, n) = SumFunctionOnSet(m, {c \in D : c[2] = n})
  BY <1>1, <1>2, GroupsAre
<1>5. Contributors(r) = Changed(r) /\ DOMAIN Changed(r) = DOMAIN g \cup DOMAIN e /\ DOMAIN Changed(r) \in SUBSET LabelSet
  BY <1>1, ChangesAre DEF Changed
<1>6. PICK S : S = Significant(r)
  OBVIOUS
<1>7. S = {n \in DOMAIN g \cup DOMAIN e : Exceeded(At(g, n), At(e, n))}
  BY <1>1, <1>5, <1>6 DEF Significant
<1>8. ~Exceeded(0, 0)
  BY SummaryAssumption DEF Exceeded
<1>9. ASSUME NEW n \in LabelSet, n \notin DOMAIN g \cup DOMAIN e PROVE ~Exceeded(At(g, n), At(e, n))
  <2>1. At(g, n) = 0 /\ At(e, n) = 0
    BY <1>9 DEF At
  <2> QED
    BY <1>8, <2>1
<1>10. S # {} <=> \E n \in LabelSet : Exceeded(At(g, n), At(e, n))
  BY <1>5, <1>7, <1>9
<1>11. (\E n \in LabelSet : Exceeded(At(g, n), At(e, n)))
         <=> \E n \in LabelSet : Exceeded(SumFunctionOnSet(m, {c \in C : c[2] = n}), SumFunctionOnSet(m, {c \in D : c[2] = n}))
  BY <1>3, <1>4
<1>12. Hides(r) <=> ~Exceeded(r.total, r.before) /\ S # {}
  BY <1>1, <1>10, <1>11 DEF Hides, Count
<1>13. Structure(r) = "MASKED" <=> ~Exceeded(r.total, r.before) /\ S # {}
  <2>1. CASE ~Exceeded(r.total, r.before) /\ S # {}
    <3>1. Complete(r) /\ ~Exceeded(r.total, r.before) /\ Significant(r) # {}
      BY <1>6, <2>1
    <3>2. Structure(r) = "MASKED"
      BY <3>1 DEF Structure
    <3> QED
      BY <2>1, <3>2
  <2>2. CASE ~(~Exceeded(r.total, r.before) /\ S # {})
    <3>1. Structure(r) = IF Offsetting(r) > 0 THEN "OPPOSING" ELSE IF Gross(r) > 0 THEN "ONE_DIRECTION" ELSE "NO_CHANGE"
      BY <1>6, <2>2 DEF Structure
    <3>2. Structure(r) # "MASKED"
      BY <3>1
    <3> QED
      BY <2>2, <3>2
  <2> QED
    BY <2>1, <2>2
<1> QED
  BY <1>12, <1>13

LEMMA SignalsAreTrueFollows == SummarySound => SignalsAreTrue
<1> SUFFICES ASSUME SummarySound, stage = "done" PROVE SignalsAreTrue
  BY DEF SignalsAreTrue
<1>1. report \in ReportType /\ DOMAIN report.baselines = References
  BY DEF SummarySound, SummaryTyped, AskedFor
<1>2. LET up == SumFunctionOnSet(Contributors(report), {n \in DOMAIN Contributors(report) : Contributors(report)[n] > 0})
          down == SumFunctionOnSet(Contributors(report), {n \in DOMAIN Contributors(report) : Contributors(report)[n] < 0})
      IN  Offsetting(report) = Least(up, -down)
  BY <1>1, OffsettingIs
<1>3. Structure(report) = "NO_CHANGE" => \A n \in DOMAIN Changed(report) : Changed(report)[n] = 0
  BY <1>1, NoChangeIs
<1>4. /\ Standing(report) = "ABOVE" /\ Spread(report) = 0 => \A o \in References : report.total > report.baselines[o]
      /\ Reliable(report) => \A o \in References : report.baselines[o] > 0
  BY <1>1, ReferencesAre
<1>5. ASSUME changes = 0, report.offset >= 0, Complete(report), Cardinality(DOMAIN Changed(report)) <= GroupLimit
      PROVE  Structure(report) = "MASKED" <=> Hides(report)
  <2>1. matching \in RowTables /\ Tells(matching, "done", report)
    BY <1>5 DEF SummarySound, SummaryTyped
  <2>2. /\ report.total = SumFunctionOnSet(matching, Current(report))
        /\ report.before = SumFunctionOnSet(matching, Compared(report))
        /\ report.groups = GroupedIn(matching, Current(report))
        /\ report.earlier = GroupedIn(matching, Compared(report))
    BY <1>5, <2>1 DEF Tells
  <2> QED
    BY <1>1, <1>5, <2>1, <2>2, MaskedIs
<1> QED
  BY <1>2, <1>3, <1>4, <1>5 DEF SignalsAreTrue

\* Whatever comes in or is acknowledged between the statements of a report: its parts add up if
\* nothing did and only grow if rows only came, unless a filter had spaces around it, when only the
\* list finds anything; and what it calls offset, unchanged, masked, above its references or
\* reliable is so.
THEOREM SummaryIsExactHolds == SummarySpec => []SummaryIsExact
<1>1. SummarySound => SummaryIsExact
  BY PartsAddUpFollows, PartsOnlyGrowFollows, SignalsAreTrueFollows DEF SummaryIsExact
<1> QED
  BY <1>1, SummaryStarts, SummaryStep, PTL DEF SummarySpec

\* Of the API's services together: a page, an answer to an operator and a report tell what the
\* table held, also while rows come in and change their status.
THEOREM EventsAreExactHolds == ApiSpec => []EventsAreExact
<1>1. ApiInit => LedgerInit /\ SummaryInit
  BY DEF ApiInit
<1>2. [ApiNext]_apiVars => [LedgerNext]_ledgerVars
  BY DEF ApiNext, apiVars
<1>3. [ApiNext]_apiVars => [SummaryNext]_summaryVars
  BY DEF ApiNext, apiVars
<1>4. ApiSpec => LedgerSpec /\ SummarySpec
  BY <1>1, <1>2, <1>3, PTL DEF ApiSpec, LedgerSpec, SummarySpec
<1> QED
  BY <1>4, LedgerIsExactHolds, SummaryIsExactHolds, PTL DEF EventsAreExact
============================================================================
