----------------------- MODULE AgentRunCoordinatorProofs -----------------------
(***************************************************************************)
(* Theorems about the capacity of Agent processes, for any number of runs  *)
(* and providers and every limit: no unit leaks or is given back twice,    *)
(* nobody waits who could start, and a provider's runs are served in order.*)
(*                                                                         *)
(* The model counts and scans with folds of the library, which are choices *)
(* of a function that satisfies its equations.  The first two parts show   *)
(* that there is one, by induction on a set of naturals or of sets, and    *)
(* what it computes (TotalIsCounted, ScanIsStepwise); the rest rests on    *)
(* these two facts alone.                                                  *)
(***************************************************************************)
EXTENDS AgentRunCoordinator, FiniteSetTheorems, SequenceTheorems, WellFoundedInduction, TLAPS

(***************************************************************************)
(* Total is a fold: the library's definition chooses a function of the     *)
(* subsets of the providers that satisfies the equations of the sum.  That *)
(* one exists, and what it is, is shown by counting units: <<p, i>> is the *)
(* i-th unit of provider p.                                                *)
(***************************************************************************)
UnitsOf(act, s) == {u \in Providers \X Nat : u[1] \in s /\ u[2] \in 1..act[u[1]]}
Units(act) == UnitsOf(act, Providers)

IsSum(act, it) ==
    it = [s \in SUBSET Providers |->
            IF s = {} THEN 0
            ELSE LET x == CHOOSE y \in s : TRUE IN act[x] + it[s \ {x}]]

LEMMA TotalIsChosen ==
    ASSUME NEW act \in [Providers -> Nat]
    PROVE  Total(act) = (CHOOSE it : IsSum(act, it))[Providers]
BY DEF Total, SumFunction, SumFunctionOnSet, FoldFunctionOnSet, MapThenFoldSet, IsSum

\* In a set of subsets of a finite set, one contains no other.
LEMMA SmallestSet ==
    ASSUME NEW S, IsFiniteSet(S), NEW T, T \subseteq SUBSET S, T # {}
    PROVE  \E x \in T : \A y \in T : y \subseteq x => y = x
<1>1. FiniteSubsetsOf(S) = SUBSET S  BY FS_FiniteSubsetsOfFinite
<1>2. IsWellFoundedOn(StrictSubsetOrdering(S), SUBSET S)
  BY <1>1, FS_StrictSubsetOrderingWellFounded
<1>3. PICK x \in T : \A y \in T : <<y, x>> \notin StrictSubsetOrdering(S)
  BY <1>2, WFMin
<1>4. QED  BY <1>3 DEF StrictSubsetOrdering

\* The units of one provider.
LEMMA UnitsOfOne ==
    ASSUME NEW act \in [Providers -> Nat], NEW p \in Providers
    PROVE  /\ IsFiniteSet(UnitsOf(act, {p}))
           /\ Cardinality(UnitsOf(act, {p})) = act[p]
<1>1. IsFiniteSet(1..act[p]) /\ Cardinality(1..act[p]) = act[p]  BY FS_Interval
<1> DEFINE f == [i \in 1..act[p] |-> <<p, i>>]
<1>2. f \in Bijection(1..act[p], UnitsOf(act, {p}))
  <2>1. f \in [1..act[p] -> UnitsOf(act, {p})]  BY DEF UnitsOf
  <2>2. \A i, j \in 1..act[p] : f[i] = f[j] => i = j  OBVIOUS
  <2>3. \A u \in UnitsOf(act, {p}) : u[2] \in 1..act[p] /\ u = f[u[2]]  BY DEF UnitsOf
  <2>4. QED  BY <2>1, <2>2, <2>3 DEF Bijection, Injection, Surjection, IsInjective
<1>3. QED  BY <1>1, <1>2, FS_Bijection DEF ExistsBijection

LEMMA UnitsMore ==
    ASSUME NEW act \in [Providers -> Nat], NEW s \in SUBSET Providers, NEW p \in s,
           IsFiniteSet(UnitsOf(act, s \ {p}))
    PROVE  /\ IsFiniteSet(UnitsOf(act, s))
           /\ Cardinality(UnitsOf(act, s)) = act[p] + Cardinality(UnitsOf(act, s \ {p}))
<1> DEFINE A == UnitsOf(act, {p})
           B == UnitsOf(act, s \ {p})
<1>1. UnitsOf(act, s) = A \cup B  BY DEF UnitsOf
<1>2. A \cap B = {}  BY DEF UnitsOf
<1>3. IsFiniteSet(A) /\ Cardinality(A) = act[p]  BY UnitsOfOne
<1>4. IsFiniteSet(B) /\ Cardinality(B) \in Nat  BY FS_CardinalityType
<1>5. Cardinality(A \cap B) = 0  BY <1>2, FS_EmptySet
<1> HIDE DEF A, B
<1>6. /\ IsFiniteSet(A \cup B)
      /\ Cardinality(A \cup B) = Cardinality(A) + Cardinality(B) - Cardinality(A \cap B)
  BY <1>3, <1>4, FS_Union
<1>7. Cardinality(A \cup B) = act[p] + Cardinality(B)
  BY <1>3, <1>4, <1>5, <1>6
<1>8. QED  BY <1>1, <1>6, <1>7 DEF B

LEMMA UnitsAreFinite ==
    ASSUME NEW act \in [Providers -> Nat]
    PROVE  \A s \in SUBSET Providers :
              IsFiniteSet(UnitsOf(act, s)) /\ Cardinality(UnitsOf(act, s)) \in Nat
<1> DEFINE T == {s \in SUBSET Providers : ~IsFiniteSet(UnitsOf(act, s))}
<1>1. T = {}
  <2> SUFFICES ASSUME T # {} PROVE FALSE  OBVIOUS
  <2>0. IsFiniteSet(Providers) /\ T \subseteq SUBSET Providers
    BY CoordinatorAssumption
  <2>1. PICK x \in T : \A y \in T : y \subseteq x => y = x
    <3> HIDE DEF T
    <3>1. QED  BY <2>0, SmallestSet
  <2>2. x # {}
    <3>1. UnitsOf(act, {}) = {}  BY DEF UnitsOf
    <3>2. QED  BY <3>1, FS_EmptySet
  <2>3. PICK p \in x : TRUE  BY <2>2
  <2>4. IsFiniteSet(UnitsOf(act, x \ {p}))  BY <2>1, <2>3
  <2>5. QED  BY <2>1, <2>3, <2>4, UnitsMore
<1>2. QED  BY <1>1, FS_CardinalityType

LEMMA TotalIsCounted ==
    ASSUME NEW act \in [Providers -> Nat]
    PROVE  Total(act) = Cardinality(Units(act))
<1> DEFINE count == [s \in SUBSET Providers |-> Cardinality(UnitsOf(act, s))]
           it == CHOOSE f : IsSum(act, f)
<1>1. IsSum(act, count)
  <2>1. count[{}] = 0
    <3>1. UnitsOf(act, {}) = {}  BY DEF UnitsOf
    <3>2. QED  BY <3>1, FS_EmptySet
  <2>2. ASSUME NEW s \in SUBSET Providers, s # {}, NEW x, x = CHOOSE y \in s : TRUE
        PROVE  count[s] = act[x] + count[s \ {x}]
    <3>1. x \in s /\ s \ {x} \in SUBSET Providers  BY <2>2
    <3>2. QED  BY <3>1, UnitsMore, UnitsAreFinite
  <2>3. QED  BY <2>1, <2>2 DEF IsSum
<1>2. IsSum(act, it)  BY <1>1
<1> HIDE DEF it, count
<1> DEFINE T == {s \in SUBSET Providers : it[s] # count[s]}
<1>3. T = {}
  <2> SUFFICES ASSUME T # {} PROVE FALSE  OBVIOUS
  <2>0. IsFiniteSet(Providers) /\ T \subseteq SUBSET Providers
    BY CoordinatorAssumption
  <2>1. PICK s \in T : \A y \in T : y \subseteq s => y = s
    <3> HIDE DEF T
    <3>1. QED  BY <2>0, SmallestSet
  <2>2. s # {}  BY <1>1, <1>2 DEF IsSum
  <2>3. PICK x \in s : x = CHOOSE y \in s : TRUE  BY <2>2
  <2>4. it[s \ {x}] = count[s \ {x}]  BY <2>1, <2>3
  <2>5. \A f : IsSum(act, f) => f[s] = act[x] + f[s \ {x}]
    BY <2>2, <2>3 DEF IsSum
  <2>6. QED  BY <1>1, <1>2, <2>1, <2>4, <2>5
<1>4. it[Providers] = count[Providers]  BY <1>3
<1>5. Total(act) = it[Providers]  BY TotalIsChosen DEF it
<1>6. QED  BY <1>4, <1>5 DEF count, Units

LEMMA TotalOfNone == Total([p \in Providers |-> 0]) = 0
<1>1. Units([p \in Providers |-> 0]) = {}  BY DEF Units, UnitsOf
<1>2. QED  BY <1>1, TotalIsCounted, FS_EmptySet

\* A unit more, and what no provider can exceed.
LEMMA TotalOfMore ==
    ASSUME NEW act \in [Providers -> Nat], NEW p \in Providers
    PROVE  /\ Total(act) \in Nat
           /\ act[p] <= Total(act)
           /\ Total([act EXCEPT ![p] = @ + 1]) = Total(act) + 1
<1> DEFINE more == [act EXCEPT ![p] = @ + 1]
           u == <<p, act[p] + 1>>
<1>1. IsFiniteSet(Units(act)) /\ Cardinality(Units(act)) \in Nat
  BY UnitsAreFinite DEF Units
<1>2. act[p] <= Cardinality(Units(act))
  <2>1. UnitsOf(act, {p}) \subseteq Units(act)  BY DEF UnitsOf, Units
  <2>2. QED  BY <1>1, <2>1, UnitsOfOne, FS_Subset
<1>3. Units(more) = Units(act) \cup {u}
  <2>1. more \in [Providers -> Nat]  OBVIOUS
  <2>2. ASSUME NEW v \in Units(more)  PROVE v \in Units(act) \cup {u}
    BY DEF Units, UnitsOf
  <2>3. Units(act) \subseteq Units(more)  BY DEF Units, UnitsOf
  <2>4. u \in Units(more)  BY DEF Units, UnitsOf
  <2>5. QED  BY <2>2, <2>3, <2>4
<1>4. u \notin Units(act)  BY DEF Units, UnitsOf
<1>5. Cardinality(Units(more)) = Cardinality(Units(act)) + 1
  BY <1>1, <1>3, <1>4, FS_AddElement
<1>6. more \in [Providers -> Nat]  OBVIOUS
<1>7. QED  BY <1>1, <1>2, <1>5, <1>6, TotalIsCounted

LEMMA TotalOfLess ==
    ASSUME NEW act \in [Providers -> Nat], NEW p \in Providers, act[p] > 0
    PROVE  Total([act EXCEPT ![p] = @ - 1]) = Total(act) - 1
<1> DEFINE less == [act EXCEPT ![p] = @ - 1]
<1>1. less \in [Providers -> Nat]  OBVIOUS
<1>2. act = [less EXCEPT ![p] = @ + 1]
  <2>1. \A q \in Providers : act[q] = [less EXCEPT ![p] = @ + 1][q]  OBVIOUS
  <2>2. QED  BY <2>1
<1> HIDE DEF less
<1>3. Total(act) = Total(less) + 1 /\ Total(less) \in Nat  BY <1>1, <1>2, TotalOfMore
<1>4. QED  BY <1>3 DEF less

--------------------------------------------------------------------------------
(***************************************************************************)
(* The scan of the waiters is a fold too: a function of the sets of places *)
(* in the queue, which takes the latest place last.                        *)
(***************************************************************************)
LEMMA CountingUp ==
    ASSUME NEW S, 0 \in S, \A n \in Nat : n \in S => n + 1 \in S
    PROVE  Nat \subseteq S
<1> SUFFICES ASSUME Nat \ S # {} PROVE FALSE  OBVIOUS
<1>1. PICK n \in Nat \ S : \A k \in Nat \ S : <<k, n>> \notin OpToRel(<, Nat)
  <2> DEFINE T == Nat \ S
  <2>1. T \subseteq Nat /\ T # {}  OBVIOUS
  <2> HIDE DEF T
  <2>2. \E n \in T : \A k \in T : <<k, n>> \notin OpToRel(<, Nat)
    BY <2>1, NatLessThanWellFounded, WFMin
  <2>3. QED  BY <2>2 DEF T
<1>2. n - 1 \in Nat \ S /\ n - 1 < n  OBVIOUS
<1>3. QED  BY <1>1, <1>2 DEF OpToRel

Latest(s) == CHOOSE i \in s : \A j \in s : i >= j

Consider(s, r) ==
    IF CanStart(s.active, Provider[r])
    THEN [s EXCEPT !.active[Provider[r]] = @ + 1]
    ELSE [s EXCEPT !.kept = Append(@, r)]

IsScan(act, queue, it) ==
    it = [s \in SUBSET DOMAIN queue |->
            IF s = {} THEN [active |-> act, kept |-> <<>>]
            ELSE LET i == Latest(s) IN Consider(it[s \ {i}], queue[i])]

LEMMA WakeIsChosen ==
    ASSUME NEW act, NEW queue
    PROVE  Wake(act, queue) = (CHOOSE it : IsScan(act, queue, it))[DOMAIN queue]
BY DEF Wake, FoldLeft, MapThenFoldSet, IsScan, Consider, Latest, Max

LEMMA LatestIsLast ==
    ASSUME NEW m \in Nat, NEW s \in SUBSET (1..(m + 1)), m + 1 \in s
    PROVE  Latest(s) = m + 1 /\ s \ {m + 1} \in SUBSET (1..m)
<1>1. \A j \in s : m + 1 >= j  OBVIOUS
<1>2. Latest(s) \in s /\ \A j \in s : Latest(s) >= j  BY <1>1 DEF Latest
<1>3. Latest(s) \in 1..(m + 1) /\ Latest(s) >= m + 1  BY <1>2
<1>4. QED  BY <1>3

LEMMA ScanExists ==
    ASSUME NEW act, NEW queue \in Seq(Runs)
    PROVE  \E it : IsScan(act, queue, it)
<1> DEFINE Value(g, s) == IF s = {} THEN [active |-> act, kept |-> <<>>]
                          ELSE LET i == Latest(s) IN Consider(g[s \ {i}], queue[i])
           Built(m) == \E g : g = [s \in SUBSET (1..m) |-> Value(g, s)]
           S == {m \in Nat : Built(m)}
<1>1. 0 \in S
  <2> DEFINE g == [s \in SUBSET (1..0) |-> [active |-> act, kept |-> <<>>]]
  <2>1. \A s \in SUBSET (1..0) : s = {}  OBVIOUS
  <2>2. g = [s \in SUBSET (1..0) |-> Value(g, s)]  BY <2>1
  <2>3. QED  BY <2>2
<1>2. ASSUME NEW m \in Nat, m \in S  PROVE m + 1 \in S
  <2>1. PICK g : g = [s \in SUBSET (1..m) |-> Value(g, s)]  BY <1>2
  <2> DEFINE h == [s \in SUBSET (1..(m + 1)) |->
                     IF m + 1 \in s THEN Consider(g[s \ {m + 1}], queue[m + 1]) ELSE g[s]]
  <2>2. ASSUME NEW s \in SUBSET (1..(m + 1))  PROVE h[s] = Value(h, s)
    <3>1. CASE m + 1 \in s
      <4>1. Latest(s) = m + 1 /\ s \ {m + 1} \in SUBSET (1..m)  BY <3>1, LatestIsLast
      <4>2. h[s \ {m + 1}] = g[s \ {m + 1}]  BY <4>1
      <4>3. QED  BY <3>1, <4>1, <4>2
    <3>2. CASE m + 1 \notin s
      <4>1. s \in SUBSET (1..m)  BY <3>2
      <4>2. h[s] = g[s] /\ g[s] = Value(g, s)  BY <2>1, <3>2, <4>1
      <4>3. CASE s = {}  BY <4>2, <4>3
      <4>4. CASE s # {}
        <5>1. h[s \ {Latest(s)}] = g[s \ {Latest(s)}]  BY <3>2, <4>1
        <5>2. QED  BY <4>2, <4>4, <5>1
      <4>5. QED  BY <4>3, <4>4
    <3>3. QED  BY <3>1, <3>2
  <2>3. h = [s \in SUBSET (1..(m + 1)) |-> Value(h, s)]  BY <2>2
  <2>4. Built(m + 1)  BY <2>3
  <2>5. m + 1 \in Nat  OBVIOUS
  <2> HIDE DEF Built
  <2>6. QED  BY <2>4, <2>5
<1> HIDE DEF Built, Value
<1>3. Nat \subseteq S
  <2> HIDE DEF S
  <2>1. QED  BY <1>1, <1>2, CountingUp
<1>4. Len(queue) \in Nat /\ DOMAIN queue = 1..Len(queue)  BY LenProperties
<1>5. Built(Len(queue))  BY <1>3, <1>4
<1>6. QED  BY <1>4, <1>5 DEF Built, Value, IsScan

\* The scan of the first m waiters, and what one waiter more makes of it.
Scan(act, queue) == CHOOSE it : IsScan(act, queue, it)

LEMMA ScanIsStepwise ==
    ASSUME NEW act, NEW queue \in Seq(Runs)
    PROVE  /\ Scan(act, queue)[1..0] = [active |-> act, kept |-> <<>>]
           /\ \A m \in Nat : m + 1 <= Len(queue) =>
                Scan(act, queue)[1..(m + 1)]
                    = Consider(Scan(act, queue)[1..m], queue[m + 1])
           /\ Wake(act, queue) = Scan(act, queue)[1..Len(queue)]
<1>1. Len(queue) \in Nat /\ DOMAIN queue = 1..Len(queue)  BY LenProperties
<1>2. IsScan(act, queue, Scan(act, queue))  BY ScanExists DEF Scan
<1> DEFINE it == Scan(act, queue)
<1>3. \A s \in SUBSET (1..Len(queue)) :
        it[s] = IF s = {} THEN [active |-> act, kept |-> <<>>]
                ELSE LET i == Latest(s) IN Consider(it[s \ {i}], queue[i])
  BY <1>1, <1>2 DEF IsScan
<1> HIDE DEF it
<1>4. it[1..0] = [active |-> act, kept |-> <<>>]
  <2>1. 1..0 = {}  OBVIOUS
  <2>2. QED  BY <1>3, <2>1
<1>5. ASSUME NEW m \in Nat, m + 1 <= Len(queue)
      PROVE  it[1..(m + 1)] = Consider(it[1..m], queue[m + 1])
  <2>1. 1..(m + 1) \in SUBSET (1..Len(queue)) /\ m + 1 \in 1..(m + 1)  BY <1>1, <1>5
  <2>2. Latest(1..(m + 1)) = m + 1  BY <2>1, LatestIsLast
  <2>3. (1..(m + 1)) \ {m + 1} = 1..m  OBVIOUS
  <2>4. QED  BY <1>3, <2>1, <2>2, <2>3
<1>6. Wake(act, queue) = it[1..Len(queue)]  BY <1>1, WakeIsChosen DEF it, Scan
<1>7. QED  BY <1>4, <1>5, <1>6 DEF it

LEMMA OnceEach ==
    ASSUME NEW queue \in Seq(Runs), IsInjective(queue)
    PROVE  /\ Len(queue) = Cardinality(ToSet(queue))
           /\ Len(queue) \in 0..Cardinality(Runs)
           /\ \A i \in DOMAIN queue : Position(queue, queue[i]) = i
<1>1. Len(queue) \in Nat /\ DOMAIN queue = 1..Len(queue) /\ queue \in [1..Len(queue) -> Runs]
  BY LenProperties
<1>2. IsFiniteSet(1..Len(queue)) /\ Cardinality(1..Len(queue)) = Len(queue)
  BY <1>1, FS_Interval
<1>3. ToSet(queue) \subseteq Runs  BY <1>1 DEF ToSet
<1>4. queue \in Bijection(1..Len(queue), ToSet(queue))
  BY <1>1 DEF Bijection, Injection, Surjection, IsInjective, ToSet
<1>5. Cardinality(ToSet(queue)) = Len(queue)
  BY <1>2, <1>4, FS_Bijection DEF ExistsBijection
<1>6. Cardinality(ToSet(queue)) <= Cardinality(Runs) /\ Cardinality(Runs) \in Nat
  BY <1>3, CoordinatorAssumption, FS_Subset, FS_CardinalityType
<1>7. \A i \in DOMAIN queue : Position(queue, queue[i]) = i
  BY DEF Position, IsInjective
<1>8. QED  BY <1>1, <1>5, <1>6, <1>7

\* What the scan of the first m waiters makes of the units and of the queue.
Given(queue, m, kept, p) ==
    {r \in {queue[i] : i \in 1..m} : r \notin ToSet(kept) /\ Provider[r] = p}

Scanned(act, queue, m, s) ==
    /\ s \in [active : [Providers -> Nat], kept : Seq(Runs)]
    /\ ToSet(s.kept) \subseteq {queue[i] : i \in 1..m}
    /\ IsInjective(s.kept)
    /\ \A p \in Providers :
          /\ s.active[p] = act[p] + Cardinality(Given(queue, m, s.kept, p))
          /\ s.active[p] <= Limit[p]
    /\ Total(s.active) <= MaxGlobal
    /\ \A w \in ToSet(s.kept) : ~CanStart(s.active, Provider[w])
    /\ \A i, j \in 1..m :
          /\ i < j /\ Provider[queue[i]] = Provider[queue[j]]
          /\ queue[i] \in ToSet(s.kept)
          => queue[j] \in ToSet(s.kept)

LEMMA GivenIsFinite ==
    ASSUME NEW queue \in Seq(Runs), NEW m \in Nat, m <= Len(queue), NEW kept, NEW p
    PROVE  /\ IsFiniteSet(Given(queue, m, kept, p))
           /\ Cardinality(Given(queue, m, kept, p)) \in Nat
<1>1. Given(queue, m, kept, p) \subseteq Runs
  <2>1. DOMAIN queue = 1..Len(queue) /\ Len(queue) \in Nat /\ queue \in [1..Len(queue) -> Runs]
    BY LenProperties
  <2>2. QED  BY <2>1 DEF Given
<1>2. QED  BY <1>1, CoordinatorAssumption, FS_Subset, FS_CardinalityType

\* Who cannot start with some units taken cannot start with one more.
LEMMA StillCannotStart ==
    ASSUME NEW act \in [Providers -> Nat], NEW p \in Providers, NEW q \in Providers,
           ~CanStart(act, q)
    PROVE  ~CanStart([act EXCEPT ![p] = @ + 1], q)
<1>1. Total(act) \in Nat /\ Total([act EXCEPT ![p] = @ + 1]) = Total(act) + 1
  BY TotalOfMore
<1>2. act[q] \in Nat /\ [act EXCEPT ![p] = @ + 1][q] >= act[q]  OBVIOUS
<1>3. MaxGlobal \in Nat /\ Limit[q] \in Nat  BY CoordinatorAssumption
<1>4. [act EXCEPT ![p] = @ + 1][q] \in Nat  OBVIOUS
<1> HIDE DEF CanStart
<1> DEFINE more == [act EXCEPT ![p] = @ + 1]
<1> HIDE DEF more
<1>5. QED  BY <1>1, <1>2, <1>3, <1>4 DEF CanStart, more

LEMMA ScannedOneMore ==
    ASSUME NEW act \in [Providers -> Nat], NEW queue \in Seq(Runs), IsInjective(queue),
           NEW m \in Nat, m + 1 <= Len(queue), NEW s, Scanned(act, queue, m, s)
    PROVE  Scanned(act, queue, m + 1, Consider(s, queue[m + 1]))
<1> DEFINE r == queue[m + 1]
           p == Provider[r]
           t == Consider(s, r)
<1>1. DOMAIN queue = 1..Len(queue) /\ Len(queue) \in Nat /\ queue \in [1..Len(queue) -> Runs]
  BY LenProperties
<1>2. r \in Runs /\ p \in Providers  BY <1>1, CoordinatorAssumption
<1>3. s.active \in [Providers -> Nat] /\ s.kept \in Seq(Runs)  BY DEF Scanned
<1>4. \A i \in 1..m : queue[i] # r  BY <1>1 DEF IsInjective
<1>5. r \notin ToSet(s.kept)  BY <1>4 DEF Scanned
<1>6. {queue[i] : i \in 1..(m + 1)} = {queue[i] : i \in 1..m} \cup {r}
  <2>1. 1..(m + 1) = (1..m) \cup {m + 1}  OBVIOUS
  <2>2. QED  BY <2>1
<1>7. \A q \in Providers : /\ IsFiniteSet(Given(queue, m, s.kept, q))
                           /\ Cardinality(Given(queue, m, s.kept, q)) \in Nat
  <2>1. m <= Len(queue)  BY <1>1
  <2>2. QED  BY <2>1, GivenIsFinite
<1>8. CASE CanStart(s.active, p)
  <2>1. /\ t = [active |-> [s.active EXCEPT ![p] = @ + 1], kept |-> s.kept]
        /\ t \in [active : [Providers -> Nat], kept : Seq(Runs)]
    <3>1. s = [active |-> s.active, kept |-> s.kept]  BY DEF Scanned
    <3>2. t = [s EXCEPT !.active[p] = @ + 1]  BY <1>8 DEF Consider
    <3>3. t = [active |-> [s.active EXCEPT ![p] = @ + 1], kept |-> s.kept]
      BY <3>1, <3>2
    <3>4. [s.active EXCEPT ![p] = @ + 1] \in [Providers -> Nat]  BY <1>2, <1>3
    <3>5. QED  BY <1>3, <3>3, <3>4
  <2> HIDE DEF t
  <2>2. t.active = [s.active EXCEPT ![p] = @ + 1] /\ t.kept = s.kept  BY <2>1
  <2>3. \A q \in Providers :
          Given(queue, m + 1, t.kept, q)
            = IF q = p THEN Given(queue, m, s.kept, q) \cup {r} ELSE Given(queue, m, s.kept, q)
    BY <1>5, <1>6, <2>2 DEF Given
  <2>4. r \notin Given(queue, m, s.kept, p)  BY <1>4 DEF Given
  <2>5. \A q \in Providers :
          Cardinality(Given(queue, m + 1, t.kept, q))
            = Cardinality(Given(queue, m, s.kept, q)) + (IF q = p THEN 1 ELSE 0)
    <3>1. TAKE q \in Providers
    <3> DEFINE G == Given(queue, m, s.kept, q)
    <3>2. IsFiniteSet(G) /\ Cardinality(G) \in Nat  BY <1>7
    <3>3. CASE q = p
      <4>1. Given(queue, m + 1, t.kept, q) = G \cup {r} /\ r \notin G  BY <2>3, <2>4, <3>3
      <4>2. Cardinality(G \cup {r}) = Cardinality(G) + 1
        <5> HIDE DEF G
        <5>1. QED  BY <3>2, <4>1, FS_AddElement
      <4>3. QED  BY <3>3, <4>1, <4>2
    <3>4. CASE q # p
      <4>1. Given(queue, m + 1, t.kept, q) = G  BY <2>3, <3>4
      <4>2. QED  BY <3>2, <3>4, <4>1
    <3>5. QED  BY <3>3, <3>4
  <2>6. \A q \in Providers :
          /\ t.active[q] = act[q] + Cardinality(Given(queue, m + 1, t.kept, q))
          /\ t.active[q] <= Limit[q]
    <3>1. s.active[p] < Limit[p]  BY <1>8 DEF CanStart
    <3>2. \A q \in Providers : s.active[q] \in Nat /\ act[q] \in Nat /\ Limit[q] \in Nat
      BY <1>3, CoordinatorAssumption
    <3>3. \A q \in Providers : /\ s.active[q] = act[q] + Cardinality(Given(queue, m, s.kept, q))
                               /\ s.active[q] <= Limit[q]
      BY DEF Scanned
    <3>4. \A q \in Providers : t.active[q] = s.active[q] + (IF q = p THEN 1 ELSE 0)
      BY <1>2, <1>3, <2>2
    <3>5. TAKE q \in Providers
    <3>6. /\ s.active[q] \in Nat /\ act[q] \in Nat /\ Limit[q] \in Nat
          /\ Cardinality(Given(queue, m, s.kept, q)) \in Nat
          /\ s.active[q] = act[q] + Cardinality(Given(queue, m, s.kept, q))
          /\ s.active[q] <= Limit[q]
      BY <1>7, <3>2, <3>3
    <3>7. CASE q = p
      <4>1. /\ t.active[q] = s.active[q] + 1 /\ s.active[q] < Limit[q]
            /\ Cardinality(Given(queue, m + 1, t.kept, q))
                 = Cardinality(Given(queue, m, s.kept, q)) + 1
        BY <2>5, <3>1, <3>4, <3>7
      <4>2. QED  BY <3>6, <4>1
    <3>8. CASE q # p
      <4>1. /\ t.active[q] = s.active[q] + 0
            /\ Cardinality(Given(queue, m + 1, t.kept, q))
                 = Cardinality(Given(queue, m, s.kept, q)) + 0
        BY <2>5, <3>4, <3>8
      <4>2. QED  BY <3>6, <4>1
    <3>9. QED  BY <3>7, <3>8
  <2>7. Total(t.active) <= MaxGlobal
    <3>1. /\ Total(s.active) \in Nat /\ Total(t.active) = Total(s.active) + 1
      BY <1>2, <1>3, <2>2, TotalOfMore
    <3>2. Total(s.active) < MaxGlobal /\ MaxGlobal \in Nat
      BY <1>8, CoordinatorAssumption DEF CanStart
    <3>3. QED  BY <3>1, <3>2
  <2>8. ASSUME NEW w \in ToSet(t.kept)  PROVE ~CanStart(t.active, Provider[w])
    <3>1. w \in ToSet(s.kept) /\ ~CanStart(s.active, Provider[w])
      BY <2>2, <2>8 DEF Scanned
    <3>2. w \in Runs
      <4>1. ToSet(s.kept) \subseteq Runs  BY <1>3, LenProperties DEF ToSet
      <4>2. QED  BY <3>1, <4>1
    <3>3. Provider[w] \in Providers  BY <3>2, CoordinatorAssumption
    <3>4. ~CanStart([s.active EXCEPT ![p] = @ + 1], Provider[w])
      BY <1>2, <1>3, <3>1, <3>3, StillCannotStart
    <3>5. QED  BY <2>2, <3>4
  <2>9. ASSUME NEW i \in 1..(m + 1), NEW j \in 1..(m + 1), i < j,
               Provider[queue[i]] = Provider[queue[j]], queue[i] \in ToSet(t.kept)
        PROVE  queue[j] \in ToSet(t.kept)
    <3>1. i \in 1..m /\ queue[i] \in ToSet(s.kept)  BY <2>2, <2>9
    <3>2. j # m + 1
      <4>1. ~CanStart(s.active, Provider[queue[i]])  BY <3>1 DEF Scanned
      <4>2. QED  BY <1>8, <2>9, <4>1
    <3>3. QED  BY <2>2, <2>9, <3>1, <3>2 DEF Scanned
  <2>10. ToSet(t.kept) \subseteq {queue[i] : i \in 1..(m + 1)} /\ IsInjective(t.kept)
    BY <1>6, <2>2 DEF Scanned
  <2>11. QED  BY <2>1, <2>6, <2>7, <2>8, <2>9, <2>10 DEF Scanned, t
<1>9. CASE ~CanStart(s.active, p)
  <2>1. /\ t = [active |-> s.active, kept |-> Append(s.kept, r)]
        /\ t \in [active : [Providers -> Nat], kept : Seq(Runs)]
    <3>1. s = [active |-> s.active, kept |-> s.kept]  BY DEF Scanned
    <3>2. t = [s EXCEPT !.kept = Append(@, r)]  BY <1>9 DEF Consider
    <3>3. t = [active |-> s.active, kept |-> Append(s.kept, r)]
      BY <3>1, <3>2
    <3>4. Append(s.kept, r) \in Seq(Runs)  BY <1>2, <1>3, AppendProperties
    <3>5. QED  BY <1>3, <3>3, <3>4
  <2> HIDE DEF t
  <2>2. t.active = s.active /\ t.kept = Append(s.kept, r)  BY <2>1
  <2>3. /\ Len(t.kept) = Len(s.kept) + 1 /\ Len(s.kept) \in Nat
        /\ DOMAIN t.kept = 1..Len(t.kept) /\ DOMAIN s.kept = 1..Len(s.kept)
        /\ \A i \in 1..Len(s.kept) : t.kept[i] = s.kept[i]
        /\ t.kept[Len(s.kept) + 1] = r
    BY <1>2, <1>3, <2>1, <2>2, LenProperties, AppendProperties
  <2>4. ToSet(t.kept) = ToSet(s.kept) \cup {r}
    <3>1. 1..Len(t.kept) = 1..Len(s.kept) \cup {Len(s.kept) + 1}  BY <2>3
    <3>2. ToSet(t.kept) = {t.kept[i] : i \in 1..Len(t.kept)}  BY <2>3 DEF ToSet
    <3>3. ToSet(s.kept) = {s.kept[i] : i \in 1..Len(s.kept)}  BY <2>3 DEF ToSet
    <3> DEFINE n == Len(s.kept)
    <3>4. \A i \in 1..Len(t.kept) : i \in 1..n \/ i = n + 1  BY <2>3
    <3>5. \A i \in 1..Len(t.kept) : t.kept[i] \in ToSet(s.kept) \cup {r}
      BY <2>3, <3>3, <3>4
    <3>6. \A i \in 1..n : i \in 1..Len(t.kept) /\ t.kept[i] = s.kept[i]  BY <2>3
    <3>7. n + 1 \in 1..Len(t.kept) /\ t.kept[n + 1] = r  BY <2>3
    <3>8. QED  BY <3>2, <3>3, <3>5, <3>6, <3>7
  <2>5. IsInjective(t.kept)
    <3>1. \A i \in 1..Len(s.kept) : s.kept[i] # r  BY <1>5, <2>3 DEF ToSet
    <3>2. IsInjective(s.kept)  BY DEF Scanned
    <3>3. \A i, j \in 1..Len(s.kept) : s.kept[i] = s.kept[j] => i = j
      BY <2>3, <3>2 DEF IsInjective
    <3>4. ASSUME NEW i \in 1..Len(t.kept), NEW j \in 1..Len(t.kept), t.kept[i] = t.kept[j]
          PROVE  i = j
      <4>1. CASE i \in 1..Len(s.kept) /\ j \in 1..Len(s.kept)
        BY <2>3, <3>3, <3>4, <4>1
      <4>2. ASSUME NEW k \in 1..Len(s.kept)  PROVE t.kept[k] # t.kept[Len(s.kept) + 1]
        <5>1. t.kept[k] = s.kept[k] /\ t.kept[Len(s.kept) + 1] = r  BY <2>3
        <5>2. QED  BY <3>1, <5>1
      <4>3. \A k \in 1..Len(t.kept) : k \in 1..Len(s.kept) \/ k = Len(s.kept) + 1  BY <2>3
      <4>4. QED  BY <3>4, <4>1, <4>2, <4>3
    <3>5. QED  BY <2>3, <3>4 DEF IsInjective
  <2>6. \A q \in Providers : Given(queue, m + 1, t.kept, q) = Given(queue, m, s.kept, q)
    BY <1>4, <1>6, <2>4 DEF Given
  <2>7. ToSet(t.kept) \subseteq {queue[i] : i \in 1..(m + 1)}  BY <1>6, <2>4 DEF Scanned
  <2>8. \A w \in ToSet(t.kept) : ~CanStart(t.active, Provider[w])
    BY <1>9, <2>2, <2>4 DEF Scanned
  <2>9. ASSUME NEW i \in 1..(m + 1), NEW j \in 1..(m + 1), i < j,
               Provider[queue[i]] = Provider[queue[j]], queue[i] \in ToSet(t.kept)
        PROVE  queue[j] \in ToSet(t.kept)
    <3>1. i \in 1..m /\ queue[i] # r  BY <1>4, <2>9
    <3>2. CASE j = m + 1  BY <2>4, <3>2
    <3>3. CASE j # m + 1  BY <2>4, <2>9, <3>1, <3>3 DEF Scanned
    <3>4. QED  BY <3>2, <3>3
  <2>10. \A q \in Providers :
          /\ t.active[q] = act[q] + Cardinality(Given(queue, m + 1, t.kept, q))
          /\ t.active[q] <= Limit[q]
    BY <2>2, <2>6 DEF Scanned
  <2>11. Total(t.active) <= MaxGlobal  BY <2>2 DEF Scanned
  <2>12. QED  BY <2>1, <2>5, <2>7, <2>8, <2>9, <2>10, <2>11 DEF Scanned, t
<1>10. QED  BY <1>8, <1>9

LEMMA WakeScans ==
    ASSUME NEW act \in [Providers -> Nat], NEW queue \in Seq(Runs), IsInjective(queue),
           \A p \in Providers : act[p] <= Limit[p], Total(act) <= MaxGlobal
    PROVE  Scanned(act, queue, Len(queue), Wake(act, queue))
<1>1. Len(queue) \in Nat  BY LenProperties
<1> DEFINE none == [active |-> act, kept |-> <<>>]
           S == {m \in Nat : m <= Len(queue) => Scanned(act, queue, m, Scan(act, queue)[1..m])}
<1>2. Scanned(act, queue, 0, none)
  <2>1. \A p \in Providers : Given(queue, 0, <<>>, p) = {}  BY DEF Given
  <2>2. \A p \in Providers : Cardinality(Given(queue, 0, <<>>, p)) = 0  BY <2>1, FS_EmptySet
  <2>3. ToSet(<<>>) = {} /\ IsInjective(<<>>) /\ <<>> \in Seq(Runs)
    BY EmptySeq DEF ToSet, IsInjective
  <2>4. none.active = act /\ none.kept = <<>>  OBVIOUS
  <2>5. \A p \in Providers : act[p] = act[p] + 0  OBVIOUS
  <2>6. QED  BY <2>2, <2>3, <2>4, <2>5 DEF Scanned
<1>3. 0 \in S  BY <1>2, ScanIsStepwise
<1>4. ASSUME NEW m \in Nat, m \in S  PROVE m + 1 \in S
  <2>1. CASE m + 1 <= Len(queue)
    <3>1. Scanned(act, queue, m, Scan(act, queue)[1..m])  BY <1>1, <1>4, <2>1
    <3>2. Scan(act, queue)[1..(m + 1)] = Consider(Scan(act, queue)[1..m], queue[m + 1])
      BY <2>1, ScanIsStepwise
    <3>3. Scanned(act, queue, m + 1, Scan(act, queue)[1..(m + 1)])
      BY <2>1, <3>1, <3>2, ScannedOneMore
    <3>4. QED  BY <3>3
  <2>2. QED  BY <2>1
<1>5. Nat \subseteq S
  <2> HIDE DEF S
  <2>1. QED  BY <1>3, <1>4, CountingUp
<1>6. Scanned(act, queue, Len(queue), Scan(act, queue)[1..Len(queue)])  BY <1>1, <1>5
<1>7. QED  BY <1>6, ScanIsStepwise

--------------------------------------------------------------------------------
(***************************************************************************)
(* The inductive invariant: the three invariants of the coordinator, and   *)
(* that no run is twice in the queue.                                      *)
(***************************************************************************)
CInv == UnitsAreOwned /\ NoLostWakeup /\ QueueIsExact /\ IsInjective(waiters)

Served ==
    \A i \in DOMAIN waiters : \A r \in Runs :
        /\ waiters[i] \in ToSet(waiters') /\ Provider[r] = Provider[waiters[i]]
        /\ stage[r] \in {"out", "queued"} /\ stage'[r] \in {"granted", "holding"}
        => stage[r] = "queued" /\ Position(waiters, r) < i

Types ==
    /\ active \in [Providers -> Nat] /\ waiters \in Seq(Runs)
    /\ stage \in [Runs -> Stages] /\ IsInjective(waiters)
    /\ shown \in [Runs -> 0..Cardinality(Runs)] /\ announced \in SUBSET Runs

LEMMA TypesHold ==
    ASSUME CInv
    PROVE  /\ Types
           /\ Len(waiters) \in Nat /\ DOMAIN waiters = 1..Len(waiters)
           /\ waiters \in [1..Len(waiters) -> Runs]
           /\ \A r \in Runs : Provider[r] \in Providers
<1>1. MaxGlobal \in Nat  BY CoordinatorAssumption
<1>2. Types  BY <1>1 DEF CInv, UnitsAreOwned, TypeOK, Types
<1>3. QED  BY <1>2, LenProperties, CoordinatorAssumption DEF Types

LEMMA OwnersAreFinite ==
    \A p, r : /\ IsFiniteSet(Owners(p)) /\ Cardinality(Owners(p)) \in Nat
              /\ IsFiniteSet(Owners(p) \ {r}) /\ Cardinality(Owners(p) \ {r}) \in Nat
<1>1. TAKE p, r
<1>2. Owners(p) \in SUBSET Runs /\ Owners(p) \ {r} \in SUBSET Runs  BY DEF Owners
<1>3. QED  BY <1>2, CoordinatorAssumption, FS_Subset, FS_CardinalityType

\* Leaving the queue keeps the others in their order.
LEMMA RemovedFromQueue ==
    ASSUME NEW queue \in Seq(Runs), IsInjective(queue), NEW k \in 1..Len(queue)
    PROVE  LET rest == RemoveAt(queue, k)
           IN  /\ rest \in Seq(Runs) /\ IsInjective(rest)
               /\ ToSet(rest) = ToSet(queue) \ {queue[k]}
               /\ Len(rest) = Len(queue) - 1
               /\ \A j \in 1..(Len(queue) - 1) :
                     rest[j] = IF j < k THEN queue[j] ELSE queue[j + 1]
<1> DEFINE rest == RemoveAt(queue, k)
           left == SubSeq(queue, 1, k - 1)
           right == SubSeq(queue, k + 1, Len(queue))
           n == Len(queue)
<1>1. n \in Nat /\ DOMAIN queue = 1..n /\ queue \in [1..n -> Runs]  BY LenProperties
<1>2. /\ left \in Seq(Runs) /\ Len(left) = k - 1
      /\ \A j \in 1..(k - 1) : left[j] = queue[j]
  BY <1>1, SubSeqProperties
<1>3. /\ right \in Seq(Runs) /\ Len(right) = n - k
      /\ \A j \in 1..(n - k) : right[j] = queue[k + j]
  <2>1. k + 1 \in 1..(n + 1) /\ n \in ((k + 1) - 1)..n /\ n - (k + 1) + 1 = n - k  BY <1>1
  <2>2. /\ right \in Seq(Runs)
        /\ Len(right) = IF k + 1 <= n THEN n - (k + 1) + 1 ELSE 0
        /\ \A j \in 1..(n - (k + 1) + 1) : right[j] = queue[(k + 1) + j - 1]
    BY <2>1, SubSeqProperties
  <2>3. Len(right) = n - k
    <3>1. CASE k + 1 <= n  BY <2>1, <2>2, <3>1
    <3>2. CASE ~(k + 1 <= n)
      <4>1. k \in Nat /\ k <= n  BY <1>1
      <4> HIDE DEF n
      <4>2. k = n /\ n - k = 0  BY <1>1, <3>2, <4>1
      <4>3. QED  BY <2>2, <3>2, <4>2
    <3>3. QED  BY <3>1, <3>2
  <2>4. \A j \in 1..(n - k) : (k + 1) + j - 1 = k + j  BY <1>1
  <2>5. QED  BY <2>1, <2>2, <2>3, <2>4
<1>4. rest = left \o right  BY DEF RemoveAt
<1> HIDE DEF left, right, rest
<1>5. /\ rest \in Seq(Runs) /\ Len(rest) = n - 1
      /\ \A j \in 1..(n - 1) : rest[j] = IF j < k THEN queue[j] ELSE queue[j + 1]
  <2>1. /\ rest \in Seq(Runs) /\ Len(rest) = (k - 1) + (n - k)
        /\ \A j \in 1..((k - 1) + (n - k)) :
              rest[j] = IF j <= k - 1 THEN left[j] ELSE right[j - (k - 1)]
    <3>1. /\ left \o right \in Seq(Runs)
          /\ Len(left \o right) = Len(left) + Len(right)
          /\ \A j \in 1..(Len(left) + Len(right)) :
                (left \o right)[j] = IF j <= Len(left) THEN left[j] ELSE right[j - Len(left)]
      BY <1>2, <1>3, ConcatProperties
    <3>2. QED  BY <1>2, <1>3, <1>4, <3>1
  <2>2. (k - 1) + (n - k) = n - 1  BY <1>1
  <2>3. ASSUME NEW j \in 1..(n - 1)
        PROVE  rest[j] = IF j < k THEN queue[j] ELSE queue[j + 1]
    <3>1. CASE j < k  BY <1>1, <1>2, <2>1, <2>2, <3>1
    <3>2. CASE ~(j < k)
      <4>1. j - (k - 1) \in 1..(n - k) /\ k + (j - (k - 1)) = j + 1  BY <1>1, <3>2
      <4>2. right[j - (k - 1)] = queue[j + 1]  BY <1>3, <4>1
      <4>3. rest[j] = right[j - (k - 1)]  BY <1>1, <2>1, <2>2, <3>2
      <4>4. QED  BY <3>2, <4>2, <4>3
    <3>3. QED  BY <3>1, <3>2
  <2>4. QED  BY <2>1, <2>2, <2>3
<1>6. DOMAIN rest = 1..(n - 1)  BY <1>5, LenProperties
<1>7. ToSet(rest) = ToSet(queue) \ {queue[k]}
  <2>1. ASSUME NEW j \in 1..(n - 1)  PROVE rest[j] \in ToSet(queue) \ {queue[k]}
    <3>1. \A x, y \in 1..n : queue[x] = queue[y] => x = y  BY <1>1 DEF IsInjective
    <3>2. j \in 1..n /\ j + 1 \in 1..n  BY <1>1
    <3>3. PICK i \in 1..n : rest[j] = queue[i] /\ i # k
      BY <1>5, <3>2
    <3>4. QED  BY <1>1, <3>1, <3>3 DEF ToSet
  <2>2. ASSUME NEW i \in 1..n, i # k  PROVE queue[i] \in ToSet(rest)
    <3>1. CASE i < k
      <4>1. i \in 1..(n - 1) /\ rest[i] = queue[i]  BY <1>1, <1>5, <3>1
      <4>2. QED  BY <1>6, <4>1 DEF ToSet
    <3>2. CASE i > k
      <4>1. i - 1 \in 1..(n - 1) /\ ~(i - 1 < k) /\ (i - 1) + 1 = i  BY <1>1, <3>2
      <4>2. rest[i - 1] = queue[i]  BY <1>5, <4>1
      <4>3. QED  BY <1>6, <4>1, <4>2 DEF ToSet
    <3>3. QED  BY <2>2, <3>1, <3>2
  <2>3. ToSet(rest) \subseteq ToSet(queue) \ {queue[k]}  BY <1>6, <2>1 DEF ToSet
  <2>4. ToSet(queue) \ {queue[k]} \subseteq ToSet(rest)  BY <1>1, <2>2 DEF ToSet
  <2>5. QED  BY <2>3, <2>4
<1>8. IsInjective(rest)
  <2>1. ASSUME NEW i \in 1..(n - 1), NEW j \in 1..(n - 1), rest[i] = rest[j]  PROVE i = j
    <3>1. \A x, y \in 1..n : queue[x] = queue[y] => x = y  BY <1>1 DEF IsInjective
    <3>2. i \in 1..n /\ i + 1 \in 1..n /\ j \in 1..n /\ j + 1 \in 1..n  BY <1>1
    <3>3. QED  BY <1>5, <2>1, <3>1, <3>2
  <2>2. QED  BY <1>6, <2>1 DEF IsInjective
<1>9. QED  BY <1>5, <1>7, <1>8 DEF rest

\* What a run that gives its place or its unit up leaves the others.
LEMMA WakeKeeps ==
    ASSUME CInv, NEW r \in Runs, NEW act \in [Providers -> Nat],
           NEW queue \in Seq(Runs), IsInjective(queue),
           ToSet(queue) = {q \in Runs : stage[q] = "queued" /\ q # r},
           \A p \in Providers : /\ act[p] = Cardinality(Owners(p) \ {r})
                                /\ act[p] <= Limit[p],
           Total(act) <= MaxGlobal,
           WakeAndNotify(r, act, queue)
    PROVE  CInv'
<1> DEFINE woken == Wake(act, queue)
           granted == ToSet(queue) \ ToSet(woken.kept)
<1>1. Scanned(act, queue, Len(queue), woken)  BY WakeScans
<1>2. /\ active' = woken.active /\ waiters' = woken.kept
      /\ stage' = [s \in Runs |-> CASE s = r -> "out"
                                    [] s \in granted -> "granted"
                                    [] OTHER -> stage[s]]
      /\ shown' = [s \in Runs |-> IF s \in ToSet(woken.kept)
                                  THEN Position(woken.kept, s) ELSE 0]
      /\ announced' = announced \ {r}
  BY DEF WakeAndNotify
<1> HIDE DEF woken
<1>3. /\ woken.active \in [Providers -> Nat] /\ woken.kept \in Seq(Runs)
      /\ IsInjective(woken.kept)
  BY <1>1 DEF Scanned
<1>4. Len(queue) \in Nat /\ DOMAIN queue = 1..Len(queue)  BY LenProperties
<1>5. {queue[i] : i \in 1..Len(queue)} = ToSet(queue)  BY <1>4 DEF ToSet
<1>6. ToSet(woken.kept) \subseteq ToSet(queue)  BY <1>1, <1>5 DEF Scanned
<1>7. Types  BY TypesHold
<1>8. \A q \in Runs :
        stage'[q] = IF q = r THEN "out" ELSE IF q \in granted THEN "granted" ELSE stage[q]
  BY <1>2
<1>9. Types'
  <2>1. stage' \in [Runs -> Stages]  BY <1>2, <1>7, <1>8 DEF Types, Stages
  <2>2. \A s \in ToSet(woken.kept) : Position(woken.kept, s) \in 0..Cardinality(Runs)
    <3>1. TAKE s \in ToSet(woken.kept)
    <3>2. PICK i \in DOMAIN woken.kept : s = woken.kept[i]  BY DEF ToSet
    <3>3. Position(woken.kept, s) = i  BY <1>3, <3>2, OnceEach
    <3>4. /\ Len(woken.kept) \in 0..Cardinality(Runs) /\ i \in 1..Len(woken.kept)
          /\ Cardinality(Runs) \in Nat
      BY <1>3, <3>2, OnceEach, LenProperties, CoordinatorAssumption, FS_CardinalityType
    <3>5. QED  BY <3>3, <3>4
  <2>3. 0 \in 0..Cardinality(Runs)  BY CoordinatorAssumption, FS_CardinalityType
  <2>4. shown' \in [Runs -> 0..Cardinality(Runs)]  BY <1>2, <2>2, <2>3
  <2>5. announced' \in SUBSET Runs  BY <1>2, <1>7 DEF Types
  <2>6. QED  BY <1>2, <1>3, <2>1, <2>4, <2>5 DEF Types
<1>10. ASSUME NEW p \in Providers
       PROVE  active'[p] = Cardinality(Owners(p)') /\ active'[p] <= Limit[p]
  <2> DEFINE old == Owners(p) \ {r}
             new == Given(queue, Len(queue), woken.kept, p)
  <2>1. new = {s \in granted : Provider[s] = p}  BY <1>5 DEF Given
  <2>2. Owners(p)' = old \cup new
    <3>1. \A q \in Runs : stage'[q] \in {"granted", "holding"} <=>
             q # r /\ (q \in granted \/ stage[q] \in {"granted", "holding"})
      BY <1>8
    <3>2. r \notin granted /\ granted \subseteq Runs  OBVIOUS
    <3>3. QED  BY <2>1, <3>1, <3>2 DEF Owners
  <2>3. old \cap new = {}
    <3>1. \A q \in granted : stage[q] = "queued"  OBVIOUS
    <3>2. QED  BY <2>1, <3>1 DEF Owners
  <2>4. /\ IsFiniteSet(old) /\ Cardinality(old) \in Nat
        /\ IsFiniteSet(new) /\ Cardinality(new) \in Nat
    <3>1. IsFiniteSet(old) /\ Cardinality(old) \in Nat  BY OwnersAreFinite
    <3>2. Len(queue) <= Len(queue)  BY <1>4
    <3>3. QED  BY <1>4, <3>1, <3>2, GivenIsFinite
  <2>5. active'[p] = Cardinality(old) + Cardinality(new) /\ active'[p] <= Limit[p]
    BY <1>1, <1>2 DEF Scanned
  <2> HIDE DEF old, new
  <2>6. Cardinality(old \cup new)
           = Cardinality(old) + Cardinality(new) - Cardinality(old \cap new)
    BY <2>4, FS_Union
  <2>7. Cardinality(old \cap new) = 0  BY <2>3, FS_EmptySet
  <2>8. QED  BY <2>2, <2>4, <2>5, <2>6, <2>7
<1>11. Total(active') <= MaxGlobal  BY <1>1, <1>2 DEF Scanned
<1>12. TypeOK'
  <2>1. Total(active)' <= MaxGlobal'  BY <1>11
  <2>2. MaxGlobal \in Nat  BY CoordinatorAssumption
  <2>3. ASSUME NEW p \in Providers  PROVE active'[p] \in 0..MaxGlobal
    <3>1. active' \in [Providers -> Nat]  BY <1>2, <1>3
    <3>2. /\ Total(active') \in Nat /\ active'[p] <= Total(active') /\ active'[p] \in Nat
      BY <3>1, TotalOfMore
    <3>3. QED  BY <1>11, <2>2, <3>2
  <2>4. Len(waiters') <= Cardinality(Runs)
    <3>1. Len(waiters') \in 0..Cardinality(Runs) /\ Cardinality(Runs) \in Nat
      BY <1>2, <1>3, OnceEach, CoordinatorAssumption, FS_CardinalityType
    <3>2. QED  BY <3>1
  <2>5. active' \in [Providers -> 0..MaxGlobal]  BY <1>2, <1>3, <2>3
  <2>6. QED  BY <1>9, <2>4, <2>5 DEF TypeOK, Types
<1>13. NoLostWakeup'  BY <1>1, <1>2 DEF Scanned, NoLostWakeup
<1>14. QueueIsExact'
  <2>1. ToSet(waiters') = {q \in Runs : stage'[q] = "queued"}
    <3>1. \A q \in Runs : stage'[q] = "queued" <=> q \in ToSet(woken.kept)
      BY <1>6, <1>8
    <3>2. ToSet(woken.kept) \subseteq Runs  BY <1>6
    <3>3. QED  BY <1>2, <3>1, <3>2
  <2>2. Len(waiters') = Cardinality(ToSet(waiters'))  BY <1>2, <1>3, OnceEach
  <2>3. ASSUME NEW i \in DOMAIN waiters'  PROVE shown'[waiters'[i]] = i
    <3>1. waiters'[i] \in ToSet(woken.kept) /\ waiters'[i] \in Runs
      <4>1. waiters'[i] \in ToSet(woken.kept)  BY <1>2 DEF ToSet
      <4>2. QED  BY <1>6, <4>1
    <3>2. Position(woken.kept, waiters'[i]) = i  BY <1>2, <1>3, OnceEach
    <3>3. QED  BY <1>2, <3>1, <3>2
  <2>4. QED  BY <2>1, <2>2, <2>3 DEF QueueIsExact
<1>15. QED  BY <1>2, <1>3, <1>10, <1>11, <1>12, <1>13, <1>14 DEF CInv, UnitsAreOwned

\* Who is woken came before those of its provider who are left.
LEMMA WakeServes ==
    ASSUME CInv, NEW r \in Runs, NEW act \in [Providers -> Nat],
           NEW queue \in Seq(Runs), IsInjective(queue),
           ToSet(queue) = {q \in Runs : stage[q] = "queued" /\ q # r},
           \A p \in Providers : act[p] <= Limit[p],
           Total(act) <= MaxGlobal,
           \A x, y \in DOMAIN waiters :
              /\ x < y /\ waiters[x] \in ToSet(queue) /\ waiters[y] \in ToSet(queue)
              => \E a, b \in DOMAIN queue :
                    a < b /\ queue[a] = waiters[x] /\ queue[b] = waiters[y],
           WakeAndNotify(r, act, queue)
    PROVE  Served
<1> DEFINE woken == Wake(act, queue)
           granted == ToSet(queue) \ ToSet(woken.kept)
<1>1. Scanned(act, queue, Len(queue), woken)  BY WakeScans
<1>2. /\ waiters' = woken.kept
      /\ stage' = [s \in Runs |-> CASE s = r -> "out"
                                    [] s \in granted -> "granted"
                                    [] OTHER -> stage[s]]
  BY DEF WakeAndNotify
<1> HIDE DEF woken
<1>3. DOMAIN queue = 1..Len(queue)  BY LenProperties
<1>4. SUFFICES ASSUME NEW i \in DOMAIN waiters, NEW q \in Runs,
                      waiters[i] \in ToSet(waiters'), Provider[q] = Provider[waiters[i]],
                      stage[q] \in {"out", "queued"}, stage'[q] \in {"granted", "holding"}
               PROVE  stage[q] = "queued" /\ Position(waiters, q) < i
  BY DEF Served
<1>5. q \in granted /\ stage[q] = "queued"
  <2>1. stage'[q] = IF q = r THEN "out" ELSE IF q \in granted THEN "granted" ELSE stage[q]
    BY <1>2
  <2>2. q \in granted  BY <1>4, <2>1
  <2>3. QED  BY <2>2
<1>6. PICK j \in DOMAIN waiters : waiters[j] = q
  <2>1. q \in ToSet(waiters)  BY <1>5 DEF CInv, QueueIsExact
  <2>2. QED  BY <2>1 DEF ToSet
<1>7. Position(waiters, q) = j  BY <1>6, TypesHold, OnceEach DEF Types
<1>8. waiters[i] \in ToSet(woken.kept) /\ waiters[i] \in ToSet(queue)
  <2>1. ToSet(woken.kept) \subseteq {queue[k] : k \in 1..Len(queue)}  BY <1>1 DEF Scanned
  <2>2. {queue[k] : k \in 1..Len(queue)} = ToSet(queue)  BY <1>3 DEF ToSet
  <2>3. QED  BY <1>2, <1>4, <2>1, <2>2
<1>9. j \in Nat /\ i \in Nat  BY TypesHold
<1>10. ~(i < j)
  <2> SUFFICES ASSUME i < j PROVE FALSE  OBVIOUS
  <2>1. PICK a, b \in DOMAIN queue : a < b /\ queue[a] = waiters[i] /\ queue[b] = waiters[j]
    BY <1>5, <1>6, <1>8
  <2>2. queue[b] \in ToSet(woken.kept)
    BY <1>1, <1>3, <1>4, <1>6, <1>8, <2>1 DEF Scanned
  <2>3. QED  BY <1>5, <1>6, <2>1, <2>2
<1>11. i # j  BY <1>5, <1>6, <1>8
<1>12. QED  BY <1>5, <1>7, <1>9, <1>10, <1>11

\* A run that had a unit gives exactly that one back.
LEMMA GivenBack ==
    ASSUME CInv, NEW r \in Runs, stage[r] \in {"granted", "holding"}
    PROVE  /\ Deactivated(Provider[r]) \in [Providers -> Nat]
           /\ \A p \in Providers :
                 /\ Deactivated(Provider[r])[p] = Cardinality(Owners(p) \ {r})
                 /\ Deactivated(Provider[r])[p] <= Limit[p]
           /\ Total(Deactivated(Provider[r])) <= MaxGlobal
<1> DEFINE o == Provider[r]
           less == [active EXCEPT ![o] = @ - 1]
<1>1. o \in Providers /\ active \in [Providers -> Nat]  BY TypesHold DEF Types
<1>2. \A p \in Providers : /\ active[p] = Cardinality(Owners(p)) /\ active[p] <= Limit[p]
                           /\ Limit[p] \in Nat
  BY CoordinatorAssumption DEF CInv, UnitsAreOwned
<1>3. r \in Owners(o) /\ \A p \in Providers : p # o => r \notin Owners(p)  BY DEF Owners
<1>4. Cardinality(Owners(o) \ {r}) = active[o] - 1
  BY <1>1, <1>2, <1>3, OwnersAreFinite, FS_RemoveElement
<1>5. Cardinality(Owners(o) \ {r}) \in Nat  BY OwnersAreFinite
<1>6. active[o] > 0  BY <1>1, <1>4, <1>5
<1>7. Deactivated(o) = less  BY <1>1, <1>6 DEF Deactivated
<1>8. less \in [Providers -> Nat]  BY <1>1, <1>6
<1>9. ASSUME NEW p \in Providers
      PROVE  less[p] = Cardinality(Owners(p) \ {r}) /\ less[p] <= Limit[p]
  <2>1. CASE p = o  BY <1>1, <1>2, <1>4, <1>6, <2>1
  <2>2. CASE p # o
    <3>1. Owners(p) \ {r} = Owners(p)  BY <1>3, <2>2
    <3>2. less[p] = active[p]  BY <1>1, <2>2
    <3>3. QED  BY <1>2, <3>1, <3>2
  <2>3. QED  BY <2>1, <2>2
<1>10. Total(less) <= MaxGlobal
  <2>1. Total(less) = Total(active) - 1 /\ Total(active) \in Nat
    BY <1>1, <1>6, TotalOfLess, TotalOfMore
  <2>2. Total(active) <= MaxGlobal /\ MaxGlobal \in Nat
    BY CoordinatorAssumption DEF CInv, UnitsAreOwned
  <2>3. QED  BY <2>1, <2>2
<1>11. QED  BY <1>7, <1>8, <1>9, <1>10

\* A queued run that is cancelled owns no unit, and leaves the others in order.
LEMMA PlaceGivenUp ==
    ASSUME CInv, NEW r \in Runs, stage[r] = "queued"
    PROVE  LET queue == RemoveAt(waiters, Position(waiters, r))
           IN  /\ queue \in Seq(Runs) /\ IsInjective(queue)
               /\ ToSet(queue) = {q \in Runs : stage[q] = "queued" /\ q # r}
               /\ \A x, y \in DOMAIN waiters :
                    /\ x < y /\ waiters[x] \in ToSet(queue) /\ waiters[y] \in ToSet(queue)
                    => \E a, b \in DOMAIN queue :
                          a < b /\ queue[a] = waiters[x] /\ queue[b] = waiters[y]
<1>1. /\ Types /\ DOMAIN waiters = 1..Len(waiters) /\ Len(waiters) \in Nat
      /\ ToSet(waiters) = {q \in Runs : stage[q] = "queued"}
  BY TypesHold DEF CInv, QueueIsExact
<1>2. PICK k \in 1..Len(waiters) : waiters[k] = r  BY <1>1 DEF ToSet
<1>3. Position(waiters, r) = k  BY <1>1, <1>2, OnceEach DEF Types
<1> DEFINE queue == RemoveAt(waiters, k)
           n == Len(waiters)
<1>4. /\ queue \in Seq(Runs) /\ IsInjective(queue)
      /\ ToSet(queue) = ToSet(waiters) \ {r} /\ Len(queue) = n - 1
      /\ \A j \in 1..(n - 1) : queue[j] = IF j < k THEN waiters[j] ELSE waiters[j + 1]
  BY <1>1, <1>2, RemovedFromQueue DEF Types
<1> HIDE DEF queue
<1>5. DOMAIN queue = 1..(n - 1)  BY <1>4, LenProperties
<1>6. ASSUME NEW x \in 1..n, NEW y \in 1..n, x < y,
             waiters[x] \in ToSet(queue), waiters[y] \in ToSet(queue)
      PROVE  \E a, b \in DOMAIN queue :
                a < b /\ queue[a] = waiters[x] /\ queue[b] = waiters[y]
  <2>1. x # k /\ y # k  BY <1>2, <1>4, <1>6
  <2> DEFINE place(i) == IF i < k THEN i ELSE i - 1
  <2>2. ASSUME NEW i \in 1..n, i # k
        PROVE  place(i) \in 1..(n - 1) /\ queue[place(i)] = waiters[i]
    <3>1. n \in Nat /\ k \in 1..n  BY <1>1
    <3>2. CASE i < k
      <4>1. i \in 1..(n - 1) /\ place(i) = i  BY <3>1, <3>2
      <4>2. QED  BY <1>4, <3>2, <4>1
    <3>3. CASE i > k
      <4>1. i - 1 \in 1..(n - 1) /\ place(i) = i - 1 /\ ~(i - 1 < k) /\ (i - 1) + 1 = i
        BY <3>1, <3>3
      <4>2. QED  BY <1>4, <4>1
    <3>4. QED  BY <2>2, <3>1, <3>2, <3>3
  <2>3. place(x) < place(y)  BY <1>1, <1>6, <2>1
  <2>4. /\ place(x) \in DOMAIN queue /\ queue[place(x)] = waiters[x]
        /\ place(y) \in DOMAIN queue /\ queue[place(y)] = waiters[y]
    BY <1>5, <2>1, <2>2
  <2> HIDE DEF place
  <2>5. QED  BY <2>3, <2>4
<1>7. ToSet(queue) = {q \in Runs : stage[q] = "queued" /\ q # r}  BY <1>1, <1>4
<1>8. QED  BY <1>1, <1>3, <1>4, <1>6, <1>7 DEF queue

LEMMA Woken ==
    ASSUME CInv, NEW r \in Runs, Release(r) \/ CancelWaiter(r)
    PROVE  CInv' /\ Served
<1>1. /\ Types /\ ToSet(waiters) = {q \in Runs : stage[q] = "queued"}
      /\ \A x \in DOMAIN waiters : waiters[x] \in ToSet(waiters)
  BY TypesHold DEF CInv, QueueIsExact, ToSet
<1>2. CASE /\ stage[r] \in {"granted", "holding"}
           /\ WakeAndNotify(r, Deactivated(Provider[r]), waiters)
  <2>1. ToSet(waiters) = {q \in Runs : stage[q] = "queued" /\ q # r}  BY <1>1, <1>2
  <2>2. waiters \in Seq(Runs) /\ IsInjective(waiters)  BY <1>1 DEF Types
  <2>3. CInv'  BY <1>2, <2>1, <2>2, GivenBack, WakeKeeps
  <2>4. Served
    <3> DEFINE act == Deactivated(Provider[r])
    <3>1. /\ act \in [Providers -> Nat] /\ Total(act) <= MaxGlobal
          /\ \A p \in Providers : act[p] <= Limit[p]
      BY <1>2, GivenBack
    <3>2. WakeAndNotify(r, act, waiters)  BY <1>2
    <3> HIDE DEF act
    <3>3. QED  BY <2>1, <2>2, <3>1, <3>2, WakeServes
  <2>5. QED  BY <2>3, <2>4
<1>3. CASE /\ stage[r] = "queued"
           /\ WakeAndNotify(r, active, RemoveAt(waiters, Position(waiters, r)))
  <2> DEFINE queue == RemoveAt(waiters, Position(waiters, r))
  <2>1. /\ queue \in Seq(Runs) /\ IsInjective(queue)
        /\ ToSet(queue) = {q \in Runs : stage[q] = "queued" /\ q # r}
        /\ \A x, y \in DOMAIN waiters :
             /\ x < y /\ waiters[x] \in ToSet(queue) /\ waiters[y] \in ToSet(queue)
             => \E a, b \in DOMAIN queue :
                   a < b /\ queue[a] = waiters[x] /\ queue[b] = waiters[y]
    BY <1>3, PlaceGivenUp
  <2>2. WakeAndNotify(r, active, queue)  BY <1>3
  <2> HIDE DEF queue
  <2>3. active \in [Providers -> Nat]  BY <1>1 DEF Types
  <2>4. \A p \in Providers : Owners(p) \ {r} = Owners(p)  BY <1>3 DEF Owners
  <2>5. /\ \A p \in Providers : /\ active[p] = Cardinality(Owners(p) \ {r})
                                /\ active[p] <= Limit[p]
        /\ Total(active) <= MaxGlobal
    BY <2>4 DEF CInv, UnitsAreOwned
  <2>6. CInv'  BY <2>1, <2>2, <2>3, <2>5, WakeKeeps
  <2>7. Served  BY <2>1, <2>2, <2>3, <2>5, WakeServes
  <2>8. QED  BY <2>6, <2>7
<1>4. QED  BY <1>2, <1>3 DEF Release, CancelWaiter

LEMMA Started ==
    ASSUME CInv, NEW r \in Runs, Start(r)
    PROVE  CInv' /\ Served
<1> DEFINE o == Provider[r]
<1>1. /\ active' = [active EXCEPT ![o] = @ + 1]
      /\ stage' = [stage EXCEPT ![r] = "holding"]
      /\ UNCHANGED <<waiters, shown, announced>>
      /\ stage[r] = "out" /\ CanStart(active, o)
      /\ \A w \in ToSet(waiters) : Provider[w] # o
  BY DEF Start
<1>2. /\ Types /\ o \in Providers /\ active \in [Providers -> Nat]
      /\ stage \in [Runs -> Stages] /\ waiters \in Seq(Runs)
      /\ DOMAIN waiters = 1..Len(waiters) /\ waiters \in [1..Len(waiters) -> Runs]
      /\ \A q \in Runs : Provider[q] \in Providers
  BY TypesHold DEF Types
<1>3. Types'  BY <1>1, <1>2 DEF Types, Stages
<1>4. \A q \in Runs : stage'[q] = IF q = r THEN "holding" ELSE stage[q]  BY <1>1, <1>2
<1>5. /\ Total(active') = Total(active) + 1 /\ Total(active) \in Nat
      /\ Total(active) < MaxGlobal /\ MaxGlobal \in Nat
  BY <1>1, <1>2, TotalOfMore, CoordinatorAssumption DEF CanStart
<1>6. Total(active') <= MaxGlobal  BY <1>5
<1>7. TypeOK'
  <2>1. (Total(active) <= MaxGlobal)'  BY <1>6
  <2>2. \A p \in Providers : active'[p] \in 0..MaxGlobal
    <3>1. TAKE p \in Providers
    <3>2. active' \in [Providers -> Nat]  BY <1>1, <1>2
    <3>3. active'[p] <= Total(active') /\ active'[p] \in Nat /\ Total(active') \in Nat
      BY <3>2, TotalOfMore
    <3>4. QED  BY <1>5, <1>6, <3>3
  <2>3. active' \in [Providers -> 0..MaxGlobal]  BY <1>1, <1>2, <2>2
  <2>4. QED  BY <1>1, <1>3, <2>3 DEF TypeOK, Types, CInv, UnitsAreOwned
<1>8. ASSUME NEW p \in Providers
      PROVE  active'[p] = Cardinality(Owners(p)') /\ active'[p] <= Limit[p]
  <2>1. /\ active[p] = Cardinality(Owners(p)) /\ active[p] <= Limit[p]
        /\ Limit[p] \in Nat /\ active[p] \in Nat
    BY <1>2, CoordinatorAssumption DEF CInv, UnitsAreOwned
  <2>2. CASE p = o
    <3>1. Owners(p)' = Owners(p) \cup {r} /\ r \notin Owners(p)
      BY <1>1, <1>4, <2>2 DEF Owners
    <3>2. Cardinality(Owners(p) \cup {r}) = Cardinality(Owners(p)) + 1
      BY <3>1, OwnersAreFinite, FS_AddElement
    <3>3. active'[p] = active[p] + 1 /\ active[p] < Limit[p]
      BY <1>1, <1>2, <2>2 DEF CanStart
    <3>4. QED  BY <2>1, <3>1, <3>2, <3>3
  <2>3. CASE p # o
    <3>1. Owners(p)' = Owners(p)  BY <1>1, <1>4, <2>3 DEF Owners
    <3>2. QED  BY <1>1, <1>2, <2>1, <2>3, <3>1
  <2>4. QED  BY <2>2, <2>3
<1>9. NoLostWakeup'
  <2>1. ASSUME NEW w \in ToSet(waiters)  PROVE ~CanStart(active', Provider[w])
    <3>1. ~CanStart(active, Provider[w])  BY DEF CInv, NoLostWakeup
    <3>2. Provider[w] \in Providers  BY <1>2 DEF ToSet
    <3>3. QED  BY <1>1, <1>2, <3>1, <3>2, StillCannotStart
  <2>2. QED  BY <1>1, <2>1 DEF NoLostWakeup, CanStart
<1>10. QueueIsExact'
  <2>1. {q \in Runs : stage'[q] = "queued"} = {q \in Runs : stage[q] = "queued"}
    BY <1>1, <1>4
  <2>2. QED  BY <1>1, <2>1 DEF CInv, QueueIsExact
<1>11. IsInjective(waiters)'  BY <1>1, <1>2 DEF Types
<1>12. CInv'  BY <1>6, <1>7, <1>8, <1>9, <1>10, <1>11 DEF CInv, UnitsAreOwned
<1>13. Served
  <2>1. \A i \in DOMAIN waiters : waiters[i] \in ToSet(waiters)  BY DEF ToSet
  <2>2. QED  BY <1>1, <1>4, <2>1 DEF Served
<1>14. QED  BY <1>12, <1>13

LEMMA Enqueued ==
    ASSUME CInv, NEW r \in Runs, Enqueue(r)
    PROVE  CInv' /\ Served
<1> DEFINE n == Len(waiters)
<1>1. /\ waiters' = Append(waiters, r)
      /\ stage' = [stage EXCEPT ![r] = "queued"]
      /\ shown' = [shown EXCEPT ![r] = Len(waiters')]
      /\ UNCHANGED <<active, announced>>
      /\ stage[r] = "out"
  BY DEF Enqueue
<1>2. /\ Types /\ stage \in [Runs -> Stages] /\ waiters \in Seq(Runs)
      /\ DOMAIN waiters = 1..n /\ n \in Nat /\ waiters \in [1..n -> Runs]
      /\ shown \in [Runs -> 0..Cardinality(Runs)]
      /\ ToSet(waiters) = {q \in Runs : stage[q] = "queued"}
      /\ \A i \in 1..n : shown[waiters[i]] = i
  BY TypesHold DEF Types, CInv, QueueIsExact
<1>3. /\ waiters' \in Seq(Runs) /\ Len(waiters') = n + 1
      /\ DOMAIN waiters' = 1..(n + 1)
      /\ \A i \in 1..n : waiters'[i] = waiters[i]
      /\ waiters'[n + 1] = r
  <2>1. Append(waiters, r) \in Seq(Runs) /\ Len(Append(waiters, r)) = n + 1
        /\ \A i \in 1..n : Append(waiters, r)[i] = waiters[i]
        /\ Append(waiters, r)[n + 1] = r
    BY <1>2, AppendProperties
  <2>2. DOMAIN waiters' = 1..Len(waiters')  BY <1>1, <2>1, LenProperties
  <2>3. QED  BY <1>1, <2>1, <2>2
<1> HIDE DEF n
<1>4. \A i \in 1..(n + 1) : i \in 1..n \/ i = n + 1  BY <1>2
<1>5. \A i \in 1..n : i \in 1..(n + 1) /\ n + 1 \in 1..(n + 1)  BY <1>2
<1>6. n + 1 \in 1..(n + 1)  BY <1>2
<1>7. r \notin ToSet(waiters)  BY <1>1, <1>2
<1>8. \A i \in 1..n : waiters[i] # r  BY <1>2, <1>7 DEF ToSet
<1>9. ToSet(waiters') = ToSet(waiters) \cup {r}
  <2>1. ToSet(waiters') \subseteq ToSet(waiters) \cup {r}
    BY <1>2, <1>3, <1>4 DEF ToSet
  <2>2. ToSet(waiters) \cup {r} \subseteq ToSet(waiters')
    BY <1>2, <1>3, <1>5, <1>6 DEF ToSet
  <2>3. QED  BY <2>1, <2>2
<1>10. IsInjective(waiters')
  <2>1. \A i, j \in 1..n : waiters[i] = waiters[j] => i = j
    BY <1>2 DEF Types, IsInjective
  <2>2. \A i, j \in 1..(n + 1) : waiters'[i] = waiters'[j] => i = j
    BY <1>3, <1>4, <1>8, <2>1
  <2>3. QED  BY <1>3, <2>2 DEF IsInjective
<1>11. /\ Len(waiters') = Cardinality(ToSet(waiters'))
       /\ Len(waiters') \in 0..Cardinality(Runs)
  BY <1>3, <1>10, OnceEach
<1>12. \A q \in Runs : stage'[q] = IF q = r THEN "queued" ELSE stage[q]  BY <1>1, <1>2
<1>13. Types'
  <2>1. stage' \in [Runs -> Stages]  BY <1>1, <1>2 DEF Stages
  <2>2. shown' \in [Runs -> 0..Cardinality(Runs)]  BY <1>1, <1>2, <1>11
  <2>3. QED  BY <1>1, <1>2, <1>3, <1>10, <2>1, <2>2 DEF Types
<1>14. UnitsAreOwned'
  <2>1. \A p \in Providers : Owners(p)' = Owners(p)  BY <1>1, <1>12 DEF Owners
  <2>2. Len(waiters') <= Cardinality(Runs)
    <3>1. Cardinality(Runs) \in Nat  BY CoordinatorAssumption, FS_CardinalityType
    <3>2. QED  BY <1>11, <3>1
  <2>3. TypeOK'  BY <1>1, <1>13, <2>2 DEF TypeOK, Types, CInv, UnitsAreOwned
  <2>4. Total(active)' = Total(active)  BY <1>1 DEF Total
  <2>5. QED  BY <1>1, <2>1, <2>3, <2>4 DEF CInv, UnitsAreOwned
<1>15. NoLostWakeup'
  <2>1. ~CanStart(active, Provider[r])
    <3>1. CASE \E w \in ToSet(waiters) : Provider[w] = Provider[r]
      BY <3>1 DEF CInv, NoLostWakeup
    <3>2. QED  BY <3>1 DEF Enqueue
  <2>2. \A w \in ToSet(waiters') : ~CanStart(active, Provider[w])
    BY <1>9, <2>1 DEF CInv, NoLostWakeup
  <2>3. QED  BY <1>1, <2>2 DEF NoLostWakeup
<1>16. QueueIsExact'
  <2>1. ToSet(waiters') = {q \in Runs : stage'[q] = "queued"}  BY <1>2, <1>9, <1>12
  <2>2. ASSUME NEW i \in 1..(n + 1)  PROVE shown'[waiters'[i]] = i
    <3>1. CASE i \in 1..n
      <4>1. shown'[waiters[i]] = shown[waiters[i]]  BY <1>1, <1>2, <1>8, <3>1
      <4>2. QED  BY <1>2, <1>3, <3>1, <4>1
    <3>2. CASE i = n + 1  BY <1>1, <1>2, <1>3, <3>2
    <3>3. QED  BY <1>4, <3>1, <3>2
  <2>3. QED  BY <1>3, <1>11, <2>1, <2>2 DEF QueueIsExact
<1>17. Served  BY <1>12 DEF Served
<1>18. QED  BY <1>10, <1>14, <1>15, <1>16, <1>17 DEF CInv

LEMMA Passed ==
    ASSUME CInv, NEW r \in Runs, Resume(r) \/ Announce(r)
    PROVE  CInv' /\ Served
<1>1. /\ UNCHANGED <<active, waiters, shown>>
      /\ \/ /\ stage[r] = "granted" /\ stage' = [stage EXCEPT ![r] = "holding"]
            /\ UNCHANGED announced
         \/ announced' = announced \cup {r} /\ UNCHANGED stage
  BY DEF Resume, Announce
<1>2. Types  BY TypesHold
<1>3. \A q \in Runs :
        \/ stage'[q] = stage[q]
        \/ stage[q] = "granted" /\ stage'[q] = "holding"
  BY <1>1, <1>2 DEF Types
<1>4. Types'  BY <1>1, <1>2 DEF Types, Stages
<1>5. \A p \in Providers : Owners(p)' = Owners(p)  BY <1>3 DEF Owners
<1>6. {q \in Runs : stage'[q] = "queued"} = {q \in Runs : stage[q] = "queued"}  BY <1>3
<1>7. TypeOK'  BY <1>1, <1>4 DEF TypeOK, Types, CInv, UnitsAreOwned
<1>8. UnitsAreOwned'  BY <1>1, <1>5, <1>7 DEF CInv, UnitsAreOwned, Total
<1>9. NoLostWakeup' /\ IsInjective(waiters)'
  BY <1>1 DEF CInv, NoLostWakeup, CanStart, Total, IsInjective
<1>10. QueueIsExact'  BY <1>1, <1>6 DEF CInv, QueueIsExact
<1>11. Served  BY <1>3 DEF Served
<1>12. QED  BY <1>8, <1>9, <1>10, <1>11 DEF CInv

LEMMA CoordinatorInit == Init => CInv
<1> SUFFICES ASSUME Init PROVE CInv  OBVIOUS
<1>1. /\ active = [p \in Providers |-> 0] /\ waiters = <<>>
      /\ stage = [r \in Runs |-> "out"] /\ shown = [r \in Runs |-> 0] /\ announced = {}
  BY DEF Init
<1>2. MaxGlobal \in Nat /\ Cardinality(Runs) \in Nat /\ \A p \in Providers : Limit[p] \in Nat
  BY CoordinatorAssumption, FS_CardinalityType
<1>3. Len(waiters) = 0 /\ waiters \in Seq(Runs) /\ ToSet(waiters) = {} /\ DOMAIN waiters = {}
      /\ IsInjective(waiters)
  BY <1>1, EmptySeq DEF ToSet, IsInjective
<1>4. TypeOK  BY <1>1, <1>2, <1>3 DEF TypeOK, Stages
<1>5. \A p \in Providers : active[p] = 0 /\ Owners(p) = {}  BY <1>1 DEF Owners
<1>6. Total(active) = 0  BY <1>1, TotalOfNone
<1>7. UnitsAreOwned  BY <1>2, <1>4, <1>5, <1>6, FS_EmptySet DEF UnitsAreOwned
<1>8. NoLostWakeup /\ QueueIsExact
  BY <1>1, <1>3, FS_EmptySet DEF NoLostWakeup, QueueIsExact
<1>9. QED  BY <1>3, <1>7, <1>8 DEF CInv

LEMMA CoordinatorStep == CInv /\ [Next]_vars => CInv' /\ (UNCHANGED vars \/ Served)
<1> SUFFICES ASSUME CInv, [Next]_vars PROVE CInv' /\ (UNCHANGED vars \/ Served)  OBVIOUS
<1>1. CASE UNCHANGED vars
  <2>1. UNCHANGED <<active, waiters, stage, shown, announced>>  BY <1>1 DEF vars
  <2>2. CInv'
    BY <2>1 DEF CInv, UnitsAreOwned, TypeOK, Owners, NoLostWakeup, QueueIsExact
  <2>3. QED  BY <1>1, <2>2
<1>2. ASSUME NEW r \in Runs, Step(r)  PROVE CInv' /\ Served
  BY <1>2, Started, Enqueued, Passed, Woken DEF Step
<1>3. QED  BY <1>1, <1>2 DEF Next

LEMMA CoordinatorHolds == Spec => []CInv
BY CoordinatorInit, CoordinatorStep, PTL DEF Spec

--------------------------------------------------------------------------------
(***************************************************************************)
(* The units counted are those the runs own, and neither limit is exceeded.*)
(***************************************************************************)
THEOREM UnitsOwned == Spec => []UnitsAreOwned
<1>1. CInv => UnitsAreOwned  BY DEF CInv
<1>2. QED  BY <1>1, CoordinatorHolds, PTL

(***************************************************************************)
(* Nobody is left waiting who could start.                                 *)
(***************************************************************************)
THEOREM NobodyForgotten == Spec => []NoLostWakeup
<1>1. CInv => NoLostWakeup  BY DEF CInv
<1>2. QED  BY <1>1, CoordinatorHolds, PTL

(***************************************************************************)
(* The queue holds the queued runs, once each, and each knows its place.   *)
(***************************************************************************)
THEOREM ExactQueue == Spec => []QueueIsExact
<1>1. CInv => QueueIsExact  BY DEF CInv
<1>2. QED  BY <1>1, CoordinatorHolds, PTL

(***************************************************************************)
(* The runs of one provider are served in the order in which they came.    *)
(***************************************************************************)
THEOREM ServedInOrder == Spec => FirstComeFirstServed
<1>1. CInv /\ [Next]_vars => [Served]_vars  BY CoordinatorStep
<1>2. [][Served]_vars => FirstComeFirstServed
  <2>1. [Served]_vars => [Served]_vars  OBVIOUS
  <2>2. QED  BY PTL DEF FirstComeFirstServed, Served
<1>3. QED  BY <1>1, <1>2, CoordinatorHolds, PTL DEF Spec

(***************************************************************************)
(* Whoever waits, waits for a run that owns a unit and will give it back:  *)
(* the waiters never wait on each other, nor on units nobody owns.         *)
(***************************************************************************)
THEOREM WaitersWaitForSomebody ==
    Spec => [](waiters # <<>> => \E r \in Runs : stage[r] \in {"granted", "holding"})
<1>1. ASSUME CInv, waiters # <<>>
      PROVE  \E r \in Runs : stage[r] \in {"granted", "holding"}
  <2> SUFFICES ASSUME \A r \in Runs : stage[r] \notin {"granted", "holding"}  PROVE FALSE
    OBVIOUS
  <2>1. PICK w \in ToSet(waiters) : TRUE
    <3>1. Len(waiters) \in Nat \ {0}  BY <1>1, TypesHold, EmptySeq DEF Types
    <3>2. 1 \in DOMAIN waiters  BY <1>1, <3>1, TypesHold
    <3>3. QED  BY <3>2 DEF ToSet
  <2>2. w \in Runs /\ Provider[w] \in Providers  BY <1>1, TypesHold DEF ToSet
  <2>3. \A p \in Providers : active[p] = 0
    <3>1. \A p \in Providers : Owners(p) = {}  BY DEF Owners
    <3>2. QED  BY <1>1, <3>1, FS_EmptySet DEF CInv, UnitsAreOwned
  <2>4. Total(active) = 0
    <3>1. active = [p \in Providers |-> 0]  BY <1>1, <2>3, TypesHold DEF Types
    <3>2. QED  BY <3>1, TotalOfNone
  <2>5. CanStart(active, Provider[w])
    BY <2>2, <2>3, <2>4, CoordinatorAssumption DEF CanStart
  <2>6. QED  BY <1>1, <2>5 DEF CInv, NoLostWakeup
<1>2. CInv => (waiters # <<>> => \E r \in Runs : stage[r] \in {"granted", "holding"})
  BY <1>1
<1>3. QED  BY <1>2, CoordinatorHolds, PTL
================================================================================
