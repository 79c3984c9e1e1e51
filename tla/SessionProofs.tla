---------------------------- MODULE SessionProofs ----------------------------
(***************************************************************************)
(* What holds of Session for every environment and command line, whatever  *)
(* the texts convert to.                                                   *)
(***************************************************************************)
EXTENDS Session, TLAPS, FiniteSetTheorems, WellFoundedInduction

-----------------------------------------------------------------------------
\* Among the places of a list that have a key there is a first.
LEMMA FirstPlace ==
  ASSUME NEW places \in SUBSET Nat, places # {}
  PROVE  \E p \in places : \A q \in places : p <= q
<1>1. \E p \in places : \A q \in places : <<q, p>> \notin OpToRel(<, Nat)
  BY NatLessThanWellFounded, WFMin
<1>2. \A p, q \in Nat : q < p => <<q, p>> \in OpToRel(<, Nat)
  BY DEF OpToRel
<1>3. \E p \in places : \A q \in places : ~(q < p)
  BY <1>1, <1>2
<1>4. \A p, q \in Nat : ~(q < p) => p <= q
  OBVIOUS
<1> QED
  BY <1>3, <1>4

\* ... and a last, which Max finds.
LEMMA LastPlace ==
  ASSUME NEW n \in Nat, NEW places \in SUBSET (1 .. n), places # {}
  PROVE  /\ Max(places) \in places
         /\ \A q \in places : q <= Max(places)
<1> DEFINE mirror == {n - p : p \in places}
<1>1. mirror \in SUBSET Nat /\ mirror # {}
  <2>1. \A p \in places : n - p \in Nat
    OBVIOUS
  <2>2. PICK p \in places : TRUE
    OBVIOUS
  <2>3. n - p \in mirror
    OBVIOUS
  <2>4. mirror \subseteq Nat
    BY <2>1
  <2> HIDE DEF mirror
  <2> QED
    BY <2>3, <2>4
<1>2. PICK m \in mirror : \A q \in mirror : m <= q
  <2> HIDE DEF mirror
  <2> QED
    BY <1>1, FirstPlace
<1>3. PICK p \in places : m = n - p
  BY <1>2
<1>4. ASSUME NEW q \in places
      PROVE  p >= q
  <2>1. m <= n - q
    BY <1>2
  <2> QED
    BY <1>3, <2>1
<1>5. Max(places) \in places /\ \A q \in places : Max(places) >= q
  BY <1>4 DEF Max
<1> QED
  BY <1>5

\* The value that a map has after the pairs at some places have been emplaced.
FirstOf(pairs, s, k) ==
  CHOOSE p \in s : pairs[p][1] = k /\ \A q \in s : pairs[q][1] = k => p <= q

With(map, pairs, s) ==
  [k \in DOMAIN map \cup {pairs[p][1] : p \in s} |->
     IF k \in DOMAIN map THEN map[k] ELSE pairs[FirstOf(pairs, s, k)][2]]

\* FirstOf finds the first.
LEMMA FirstOfIsFirst ==
  ASSUME NEW pairs, NEW s \in SUBSET Nat, NEW k \in {pairs[p][1] : p \in s}
  PROVE  /\ FirstOf(pairs, s, k) \in s /\ pairs[FirstOf(pairs, s, k)][1] = k
         /\ \A q \in s : pairs[q][1] = k => FirstOf(pairs, s, k) <= q
<1> DEFINE places == {p \in s : pairs[p][1] = k}
<1>1. places \in SUBSET Nat /\ places # {}
  OBVIOUS
<1>2. \E p \in places : \A q \in places : p <= q
  <2> HIDE DEF places
  <2> QED
    BY <1>1, FirstPlace
<1>3. \E p \in s : pairs[p][1] = k /\ \A q \in s : pairs[q][1] = k => p <= q
  BY <1>2
<1> QED
  BY <1>3, Zenon DEF FirstOf

\* The last of the pairs is the last to be emplaced.
LEMMA WithLast ==
  ASSUME NEW map, NEW pairs, NEW n \in Nat, NEW s \in SUBSET (1 .. n), s # {}
  PROVE  With(map, pairs, s) = Emplace(With(map, pairs, s \ {Max(s)}), pairs[Max(s)])
<1> DEFINE m == Max(s)
           r == s \ {m}
           old == With(map, pairs, r)
           keys == {pairs[p][1] : p \in s}
<1>1. m \in s /\ \A q \in s : q <= m
  BY LastPlace
<1> HIDE DEF m
<1>2. s \in SUBSET Nat /\ r \in SUBSET Nat
  <2>1. \A p \in s : p \in Nat
    OBVIOUS
  <2>2. s \subseteq Nat
    BY <2>1
  <2> QED
    BY <2>2
<1>3. keys = {pairs[p][1] : p \in r} \cup {pairs[m][1]}
  <2>1. \A p \in s : p \in r \/ p = m
    OBVIOUS
  <2>2. r \subseteq s
    OBVIOUS
  <2>3. ASSUME NEW k \in keys
        PROVE  k \in {pairs[p][1] : p \in r} \cup {pairs[m][1]}
    <3>1. PICK p \in s : k = pairs[p][1]
      OBVIOUS
    <3> QED
      BY <2>1, <3>1
  <2>4. {pairs[p][1] : p \in r} \subseteq keys /\ pairs[m][1] \in keys
    BY <1>1, <2>2
  <2> HIDE DEF r, keys
  <2> QED
    BY <2>3, <2>4
<1>4. DOMAIN old = DOMAIN map \cup {pairs[p][1] : p \in r}
  BY DEF With
<1>5. DOMAIN map \cup keys = DOMAIN old \cup {pairs[m][1]}
  BY <1>3, <1>4
<1>6. ASSUME NEW k \in DOMAIN map \cup keys
      PROVE  (IF k \in DOMAIN map THEN map[k] ELSE pairs[FirstOf(pairs, s, k)][2])
               = IF k \in DOMAIN old THEN old[k] ELSE pairs[m][2]
  <2>1. CASE k \in DOMAIN map
    BY <1>4, <2>1 DEF With
  <2>2. CASE k \notin DOMAIN map /\ k \in {pairs[p][1] : p \in r}
    <3>1. old[k] = pairs[FirstOf(pairs, r, k)][2]
      BY <2>2 DEF With
    <3>2. FirstOf(pairs, r, k) = FirstOf(pairs, s, k)
      <4> DEFINE p == FirstOf(pairs, r, k)
                 q == FirstOf(pairs, s, k)
      <4>1. p \in r /\ pairs[p][1] = k /\ \A x \in r : pairs[x][1] = k => p <= x
        BY <1>2, <2>2, FirstOfIsFirst
      <4>2. q \in s /\ pairs[q][1] = k /\ \A x \in s : pairs[x][1] = k => q <= x
        BY <1>2, <1>3, <2>2, FirstOfIsFirst
      <4> HIDE DEF p, q
      <4>3. q <= p /\ p \in s /\ p # m /\ p <= m
        BY <1>1, <4>1, <4>2
      <4>4. q # m
        BY <1>2, <4>1, <4>2, <4>3
      <4>5. p <= q
        BY <4>1, <4>2, <4>4
      <4>6. p = q
        <5>1. p \in Nat /\ q \in Nat
          BY <1>2, <4>1, <4>2
        <5> QED
          BY <4>3, <4>5, <5>1
      <4> QED
        BY <4>6 DEF p, q
    <3> QED
      BY <1>4, <2>2, <3>1, <3>2
  <2>3. CASE k \notin DOMAIN map /\ k \notin {pairs[p][1] : p \in r}
    <3>1. k = pairs[m][1] /\ k \notin DOMAIN old
      BY <1>3, <1>4, <1>6, <2>3
    <3>2. FirstOf(pairs, s, k) \in s /\ pairs[FirstOf(pairs, s, k)][1] = k
      <4>1. k \in {pairs[p][1] : p \in s}
        BY <1>1, <3>1
      <4> QED
        BY <1>2, <4>1, FirstOfIsFirst
    <3>3. FirstOf(pairs, s, k) = m
      BY <2>3, <3>2
    <3> QED
      BY <2>3, <3>1, <3>3
  <2> QED
    BY <2>1, <2>2, <2>3
<1>7. With(map, pairs, s) = [k \in DOMAIN map \cup keys |->
        IF k \in DOMAIN map THEN map[k] ELSE pairs[FirstOf(pairs, s, k)][2]]
  BY DEF With
<1>8. Emplace(old, pairs[m]) = [k \in DOMAIN old \cup {pairs[m][1]} |->
        IF k \in DOMAIN old THEN old[k] ELSE pairs[m][2]]
  BY DEF Emplace
<1> HIDE DEF old, keys
<1>9. With(map, pairs, s) = Emplace(old, pairs[m])
  BY <1>5, <1>6, <1>7, <1>8
<1> QED
  BY <1>9 DEF old, r, m

\* Among the subsets of a finite set for which something is wrong there is a smallest.
LEMMA SmallestSubset ==
  ASSUME NEW S, IsFiniteSet(S), NEW Bad \in SUBSET (SUBSET S), Bad # {}
  PROVE  \E s \in Bad : \A r \in Bad : r \subseteq s => r = s
<1>1. IsWellFoundedOn(StrictSubsetOrdering(S), SUBSET S)
  BY FS_StrictSubsetOrderingWellFounded, FS_FiniteSubsetsOfFinite
<1>2. \E s \in Bad : \A r \in Bad : <<r, s>> \notin StrictSubsetOrdering(S)
  BY <1>1, WFMin
<1>3. \A r, s \in SUBSET S : r \subseteq s /\ r # s => <<r, s>> \in StrictSubsetOrdering(S)
  BY DEF StrictSubsetOrdering
<1> QED
  BY <1>2, <1>3

\* EmplaceAll emplaces all.
LEMMA EmplacedAll ==
  ASSUME NEW map, map = [k \in DOMAIN map |-> map[k]], NEW S, NEW pairs \in Seq(S)
  PROVE  EmplaceAll(map, pairs) = With(map, pairs, DOMAIN pairs)
<1> DEFINE D == DOMAIN pairs
           Folds(iter) ==
             iter = [s \in SUBSET D |-> IF s = {} THEN map
                                        ELSE Emplace(iter[s \ {Max(s)}], pairs[Max(s)])]
           result == [s \in SUBSET D |-> With(map, pairs, s)]
           fold == CHOOSE iter : Folds(iter)
<1>1. EmplaceAll(map, pairs) = fold[D]
  BY DEF EmplaceAll, FoldLeft, MapThenFoldSet
<1>2. D = 1 .. Len(pairs) /\ Len(pairs) \in Nat
  OBVIOUS
<1>3. \A s \in SUBSET D : s # {} => /\ Max(s) \in s
                                    /\ With(map, pairs, s)
                                         = Emplace(With(map, pairs, s \ {Max(s)}), pairs[Max(s)])
  <2> HIDE DEF D
  <2> QED
    BY <1>2, LastPlace, WithLast
<1>4. With(map, pairs, {}) = map
  <2>1. DOMAIN map \cup {pairs[p][1] : p \in {}} = DOMAIN map
    OBVIOUS
  <2>2. With(map, pairs, {}) = [k \in DOMAIN map |-> map[k]]
    BY <2>1 DEF With
  <2> QED
    BY <2>2
<1>5. Folds(result)
  <2> HIDE DEF D
  <2>1. ASSUME NEW s \in SUBSET D
        PROVE  With(map, pairs, s)
                 = IF s = {} THEN map ELSE Emplace(result[s \ {Max(s)}], pairs[Max(s)])
    <3>1. CASE s = {}
      BY <1>4, <3>1
    <3>2. CASE s # {}
      <4>1. result[s \ {Max(s)}] = With(map, pairs, s \ {Max(s)})
        OBVIOUS
      <4> QED
        BY <1>3, <3>2, <4>1
    <3> QED
      BY <3>1, <3>2
  <2> QED
    BY <2>1
<1>6. Folds(fold)
  BY <1>5
<1> HIDE DEF fold, result
<1> DEFINE Bad == {s \in SUBSET D : fold[s] # With(map, pairs, s)}
<1>7. Bad = {}
  <2> SUFFICES ASSUME Bad # {}
               PROVE  FALSE
    OBVIOUS
  <2>1. PICK s \in Bad : \A r \in Bad : r \subseteq s => r = s
    <3>1. IsFiniteSet(D) /\ Bad \in SUBSET (SUBSET D)
      BY <1>2, FS_Interval, SMTT(30)
    <3> HIDE DEF Bad, D
    <3> QED
      BY <3>1, SmallestSubset
  <2>2. fold[s] = IF s = {} THEN map ELSE Emplace(fold[s \ {Max(s)}], pairs[Max(s)])
    BY <1>6
  <2>3. s # {} => fold[s \ {Max(s)}] = With(map, pairs, s \ {Max(s)})
    BY <1>3, <2>1
  <2>4. s \in SUBSET D /\ fold[s] # With(map, pairs, s)
    BY <2>1
  <2> HIDE DEF Bad
  <2>5. CASE s = {}
    BY <1>4, <2>2, <2>4, <2>5
  <2>6. CASE s # {}
    BY <1>3, <2>2, <2>3, <2>4, <2>6
  <2> QED
    BY <2>5, <2>6
<1> QED
  BY <1>1, <1>7

-----------------------------------------------------------------------------
(* A map that was made from sources, one after the other.                  *)

Function(map) == map = [k \in DOMAIN map |-> map[k]]

\* A map has the keys of the sources from lo to hi, each with the value of the first.
Holds(map, asked, lo, hi) ==
  /\ Function(map)
  /\ \A k : k \in DOMAIN map <=> \E s \in lo .. hi : k \in KeysOf(asked[s])
  /\ \A s \in lo .. hi : \A k \in KeysOf(asked[s]) :
       (\A r \in lo .. s - 1 : k \notin KeysOf(asked[r])) => map[k] = ValueOf(asked[s], k)

\* The value of a key is at the first of its places.
LEMMA FirstValue ==
  ASSUME NEW S, NEW pairs \in Seq(S), NEW k \in KeysOf(pairs)
  PROVE  /\ ValueOf(pairs, k) = pairs[FirstOf(pairs, DOMAIN pairs, k)][2]
         /\ FirstOf(pairs, DOMAIN pairs, k) \in DOMAIN pairs
         /\ pairs[FirstOf(pairs, DOMAIN pairs, k)][1] = k
         /\ \A q \in DOMAIN pairs : pairs[q][1] = k => FirstOf(pairs, DOMAIN pairs, k) <= q
<1> DEFINE D == DOMAIN pairs
           first == FirstOf(pairs, D, k)
           before(p) == \A q \in 1 .. p - 1 : pairs[q][1] # k
           chosen == CHOOSE p \in D : pairs[p][1] = k /\ before(p)
<1>1. D = 1 .. Len(pairs) /\ Len(pairs) \in Nat /\ D \in SUBSET Nat
  <2>1. D = 1 .. Len(pairs) /\ Len(pairs) \in Nat
    OBVIOUS
  <2>2. \A p \in 1 .. Len(pairs) : p \in Nat
    BY <2>1
  <2>3. 1 .. Len(pairs) \subseteq Nat
    BY <2>2
  <2> QED
    BY <2>1, <2>3
<1>2. first \in D /\ pairs[first][1] = k /\ \A q \in D : pairs[q][1] = k => first <= q
  <2>1. k \in {pairs[p][1] : p \in D}
    BY DEF KeysOf
  <2>2. D \in SUBSET Nat
    BY <1>1
  <2> HIDE DEF D
  <2>3. \A s \in SUBSET Nat : k \in {pairs[p][1] : p \in s} =>
          /\ FirstOf(pairs, s, k) \in s /\ pairs[FirstOf(pairs, s, k)][1] = k
          /\ \A q \in s : pairs[q][1] = k => FirstOf(pairs, s, k) <= q
    BY FirstOfIsFirst
  <2> QED
    BY <2>1, <2>2, <2>3, Zenon
<1> HIDE DEF first
<1>3. before(first)
  <2> SUFFICES ASSUME NEW q \in 1 .. first - 1
               PROVE  pairs[q][1] # k
    OBVIOUS
  <2>1. q \in D /\ ~(first <= q)
    BY <1>1, <1>2
  <2> QED
    BY <1>2, <2>1
<1>4. chosen \in D /\ pairs[chosen][1] = k /\ before(chosen)
  <2> HIDE DEF before, D
  <2> QED
    BY <1>2, <1>3
<1>5. ValueOf(pairs, k) = pairs[chosen][2]
  BY DEF ValueOf
<1> HIDE DEF chosen
<1>6. chosen = first
  <2>1. first <= chosen
    BY <1>2, <1>4
  <2>2. ~(first < chosen)
    <3>1. first < chosen => first \in 1 .. chosen - 1
      BY <1>1, <1>2, <1>4
    <3> QED
      BY <1>2, <1>4, <3>1
  <2>3. first \in Nat /\ chosen \in Nat
    BY <1>1, <1>2, <1>4
  <2> QED
    BY <2>1, <2>2, <2>3
<1> QED
  BY <1>2, <1>5, <1>6 DEF first

\* What EmplaceAll does, key by key.
EmplacedInto(map, pairs, result) ==
  /\ Function(result) /\ DOMAIN result = DOMAIN map \cup KeysOf(pairs)
  /\ \A k \in DOMAIN map : result[k] = map[k]
  /\ \A k \in KeysOf(pairs) \ DOMAIN map : result[k] = ValueOf(pairs, k)

\* Every key is in the result, with the value it had or that of its first pair.
LEMMA Emplaces ==
  ASSUME NEW map, Function(map), NEW S, NEW pairs \in Seq(S)
  PROVE  EmplacedInto(map, pairs, EmplaceAll(map, pairs))
<1>1. EmplaceAll(map, pairs) = With(map, pairs, DOMAIN pairs)
  BY EmplacedAll DEF Function
<1>2. EmplaceAll(map, pairs) =
        [k \in DOMAIN map \cup KeysOf(pairs) |->
           IF k \in DOMAIN map THEN map[k] ELSE pairs[FirstOf(pairs, DOMAIN pairs, k)][2]]
  BY <1>1 DEF With, KeysOf
<1>3. \A k \in KeysOf(pairs) : ValueOf(pairs, k) = pairs[FirstOf(pairs, DOMAIN pairs, k)][2]
  BY FirstValue
<1> DEFINE result == EmplaceAll(map, pairs)
<1> HIDE DEF result
<1>4. result =
        [k \in DOMAIN map \cup KeysOf(pairs) |->
           IF k \in DOMAIN map THEN map[k] ELSE pairs[FirstOf(pairs, DOMAIN pairs, k)][2]]
  BY <1>2 DEF result
<1>5. /\ Function(result) /\ DOMAIN result = DOMAIN map \cup KeysOf(pairs)
      /\ \A k \in DOMAIN map : result[k] = map[k]
      /\ \A k \in KeysOf(pairs) \ DOMAIN map : result[k] = ValueOf(pairs, k)
  BY <1>3, <1>4 DEF Function
<1> QED
  BY <1>5 DEF EmplacedInto, result

\* The next source.
LEMMA NextSource ==
  ASSUME NEW map, NEW asked, NEW lo \in Int, NEW hi \in Int, Holds(map, asked, lo, hi),
         NEW S, asked[hi + 1] \in Seq(S), lo <= hi + 1
  PROVE  Holds(EmplaceAll(map, asked[hi + 1]), asked, lo, hi + 1)
<1> DEFINE pairs == asked[hi + 1]
           result == EmplaceAll(map, pairs)
<1>1. /\ Function(result)
      /\ DOMAIN result = DOMAIN map \cup KeysOf(pairs)
      /\ \A k \in DOMAIN map : result[k] = map[k]
      /\ \A k \in KeysOf(pairs) \ DOMAIN map : result[k] = ValueOf(pairs, k)
  <2>1. Function(map)
    BY DEF Holds
  <2>2. pairs \in Seq(S)
    OBVIOUS
  <2> HIDE DEF pairs
  <2>3. EmplacedInto(map, pairs, result)
    BY <2>1, <2>2, Emplaces
  <2> QED
    BY <2>3 DEF EmplacedInto
<1> HIDE DEF result
<1>2. \A s : s \in lo .. hi + 1 <=> s \in lo .. hi \/ s = hi + 1
  OBVIOUS
<1>3. \A k : k \in DOMAIN map <=> \E s \in lo .. hi : k \in KeysOf(asked[s])
  BY DEF Holds
<1>4. \A k : k \in DOMAIN result <=> \E s \in lo .. hi + 1 : k \in KeysOf(asked[s])
  <2> HIDE DEF pairs
  <2>1. \A k : k \in DOMAIN result <=> k \in DOMAIN map \/ k \in KeysOf(asked[hi + 1])
    BY <1>1 DEF pairs
  <2> QED
    BY <1>2, <1>3, <2>1, Zenon
<1>5. ASSUME NEW s \in lo .. hi + 1, NEW k \in KeysOf(asked[s]),
             \A r \in lo .. s - 1 : k \notin KeysOf(asked[r])
      PROVE  result[k] = ValueOf(asked[s], k)
  <2>1. CASE s \in lo .. hi
    <3>1. map[k] = ValueOf(asked[s], k)
      BY <1>5, <2>1 DEF Holds
    <3>2. k \in DOMAIN map
      BY <1>3, <2>1
    <3> QED
      BY <1>1, <3>1, <3>2
  <2>2. CASE s = hi + 1
    <3>1. s - 1 = hi
      BY <2>2
    <3>2. k \notin DOMAIN map
      BY <1>3, <1>5, <3>1
    <3> QED
      BY <1>1, <1>5, <2>2, <3>2
  <2> QED
    BY <1>2, <2>1, <2>2
<1>6. Holds(result, asked, lo, hi + 1)
  BY <1>1, <1>4, <1>5 DEF Holds
<1> QED
  BY <1>6 DEF result, pairs

\* A pair is appended to the last source, and emplaced.
LEMMA NextPair ==
  ASSUME NEW map, NEW asked, NEW lo \in Int, NEW hi \in Int, lo <= hi,
         Holds(map, asked, lo, hi), NEW S, asked[hi] \in Seq(S), NEW pair \in S,
         NEW later, \A s \in lo .. hi - 1 : later[s] = asked[s],
         later[hi] = Append(asked[hi], pair)
  PROVE  Holds(Emplace(map, pair), later, lo, hi)
<1> DEFINE pairs == asked[hi]
           longer == Append(pairs, pair)
           result == Emplace(map, pair)
           key == pair[1]
<1>1. /\ Function(map)
      /\ \A k : k \in DOMAIN map <=> \E s \in lo .. hi : k \in KeysOf(asked[s])
      /\ \A s \in lo .. hi : \A k \in KeysOf(asked[s]) :
           (\A r \in lo .. s - 1 : k \notin KeysOf(asked[r])) => map[k] = ValueOf(asked[s], k)
  BY DEF Holds
<1>2. /\ longer \in Seq(S) /\ DOMAIN longer = DOMAIN pairs \cup {Len(pairs) + 1}
      /\ longer[Len(pairs) + 1] = pair /\ DOMAIN pairs = 1 .. Len(pairs) /\ Len(pairs) \in Nat
      /\ \A p \in DOMAIN pairs : longer[p] = pairs[p]
  OBVIOUS
<1>3. result = [k \in DOMAIN map \cup {key} |-> IF k \in DOMAIN map THEN map[k] ELSE pair[2]]
  BY DEF Emplace
<1> HIDE DEF longer, pairs, result
<1>4. \A k : k \in KeysOf(longer) <=> k \in KeysOf(pairs) \/ k = key
  <2>1. ASSUME NEW k
        PROVE  k \in KeysOf(longer) <=> \E p \in DOMAIN longer : k = longer[p][1]
    BY DEF KeysOf
  <2>2. ASSUME NEW k
        PROVE  k \in KeysOf(pairs) <=> \E p \in DOMAIN pairs : k = pairs[p][1]
    BY DEF KeysOf
  <2>3. ASSUME NEW k
        PROVE  (\E p \in DOMAIN longer : k = longer[p][1])
                 <=> (\E p \in DOMAIN pairs : k = pairs[p][1]) \/ k = key
    <3>1. ASSUME NEW p \in DOMAIN pairs
          PROVE  p \in DOMAIN longer /\ longer[p] = pairs[p]
      BY <1>2
    <3>2. Len(pairs) + 1 \in DOMAIN longer /\ longer[Len(pairs) + 1] = pair
      BY <1>2
    <3>3. \A p \in DOMAIN longer : p \in DOMAIN pairs \/ p = Len(pairs) + 1
      BY <1>2
    <3> QED
      BY <3>1, <3>2, <3>3, Zenon
  <2> QED
    BY <2>1, <2>2, <2>3, ZenonT(60)
<1>5. ASSUME NEW k \in KeysOf(pairs)
      PROVE  ValueOf(longer, k) = ValueOf(pairs, k)
  <2> DEFINE p == FirstOf(pairs, DOMAIN pairs, k)
             q == FirstOf(longer, DOMAIN longer, k)
  <2>1. /\ ValueOf(pairs, k) = pairs[p][2] /\ p \in DOMAIN pairs /\ pairs[p][1] = k
        /\ \A x \in DOMAIN pairs : pairs[x][1] = k => p <= x
    BY FirstValue DEF pairs
  <2>2. k \in KeysOf(longer)
    BY <1>4
  <2>3. /\ ValueOf(longer, k) = longer[q][2] /\ q \in DOMAIN longer /\ longer[q][1] = k
        /\ \A x \in DOMAIN longer : longer[x][1] = k => q <= x
    BY <1>2, <2>2, FirstValue, ZenonT(60)
  <2> HIDE DEF p, q
  <2>4. q <= p
    BY <1>2, <2>1, <2>3
  <2>5. q \in DOMAIN pairs
    BY <1>2, <2>1, <2>3, <2>4
  <2>6. p <= q
    BY <1>2, <2>1, <2>3, <2>5
  <2>7. p = q
    <3>1. p \in Nat /\ q \in Nat
      BY <1>2, <2>1, <2>5
    <3> QED
      BY <2>4, <2>6, <3>1
  <2> QED
    BY <1>2, <2>1, <2>3, <2>7
<1>6. ASSUME key \notin KeysOf(pairs)
      PROVE  ValueOf(longer, key) = pair[2]
  <2> DEFINE q == FirstOf(longer, DOMAIN longer, key)
  <2>1. key \in KeysOf(longer)
    BY <1>4
  <2>2. ValueOf(longer, key) = longer[q][2] /\ q \in DOMAIN longer /\ longer[q][1] = key
    BY <1>2, <2>1, FirstValue
  <2> HIDE DEF q
  <2>3. q \notin DOMAIN pairs
    <3>1. ASSUME NEW x \in DOMAIN pairs, pairs[x][1] = key
          PROVE  FALSE
      BY <1>6, <3>1 DEF KeysOf
    <3> QED
      BY <1>2, <2>2, <3>1
  <2> QED
    BY <1>2, <2>2, <2>3
<1>7. /\ \A s : s \in lo .. hi <=> s \in lo .. hi - 1 \/ s = hi
      /\ hi \in lo .. hi /\ \A s \in lo .. hi - 1 : s \in lo .. hi
  OBVIOUS
<1>8. later[hi] = longer /\ asked[hi] = pairs
  BY DEF longer, pairs
<1>9. \A k : k \in DOMAIN result <=> \E s \in lo .. hi : k \in KeysOf(later[s])
  <2>1. \A k : k \in DOMAIN result <=> k \in DOMAIN map \/ k = key
    BY <1>3
  <2> QED
    BY <1>1, <1>4, <1>7, <1>8, <2>1
<1>10. ASSUME NEW s \in lo .. hi, NEW k \in KeysOf(later[s]),
              \A r \in lo .. s - 1 : k \notin KeysOf(later[r])
       PROVE  result[k] = ValueOf(later[s], k)
  <2>1. \A r \in lo .. s - 1 : r \in lo .. hi - 1 /\ k \notin KeysOf(asked[r])
    <3>1. \A r \in lo .. s - 1 : r \in lo .. hi - 1
      OBVIOUS
    <3> QED
      BY <1>10, <3>1
  <2>2. CASE k \in KeysOf(asked[s])
    <3>1. map[k] = ValueOf(asked[s], k) /\ k \in DOMAIN map
      BY <1>1, <2>1, <2>2, Zenon
    <3>2. result[k] = map[k]
      BY <1>3, <3>1
    <3>3. ValueOf(later[s], k) = ValueOf(asked[s], k)
      BY <1>5, <1>7, <1>8, <2>2
    <3> QED
      BY <3>1, <3>2, <3>3
  <2>3. CASE k \notin KeysOf(asked[s])
    <3>1. s = hi
      BY <1>7, <1>10, <2>3
    <3>2. k = key /\ key \notin KeysOf(pairs)
      BY <1>4, <1>8, <1>10, <2>3, <3>1
    <3>3. k \notin DOMAIN map
      <4>1. ASSUME NEW r \in lo .. hi
            PROVE  k \notin KeysOf(asked[r])
        BY <1>7, <1>8, <2>1, <3>1, <3>2
      <4> QED
        BY <1>1, <4>1
    <3>4. result[k] = pair[2]
      BY <1>3, <3>2, <3>3
    <3> QED
      BY <1>6, <1>8, <3>1, <3>2, <3>4
  <2> QED
    BY <2>2, <2>3
<1>11. Function(result)
  BY <1>3 DEF Function
<1>12. Holds(result, later, lo, hi)
  BY <1>9, <1>10, <1>11 DEF Holds
<1> QED
  BY <1>12 DEF result

\* Sources that are the same make the same map.
LEMMA SameSources ==
  ASSUME NEW map, NEW asked, NEW later, NEW lo \in Int, NEW hi \in Int,
         Holds(map, asked, lo, hi), \A s \in lo .. hi : later[s] = asked[s]
  PROVE  Holds(map, later, lo, hi)
<1>1. \A s \in lo .. hi : \A r \in lo .. s - 1 : r \in lo .. hi
  OBVIOUS
<1> QED
  BY <1>1 DEF Holds

-----------------------------------------------------------------------------
(* How far ParseCommandLineFlags has come, and what it has made of the     *)
(* arguments so far.                                                       *)

\* The arguments that were looked at: those left, and those taken out.
Consumed == Len(given) - Len(argv) + i - 1

LeftOf(arguments, n) == {a \in 1 .. n : ~Recognized(arguments[a])}

RankIn(places, a) == Cardinality({b \in places : b <= a})

\* The text of a flag after n arguments.
TextsFor(arguments, f, n) ==
  {a \in 1 .. n : arguments[a].flag = f /\ Parses(arguments[a])}

LastOf(places) == CHOOSE a \in places : \A b \in places : b <= a

TextAfter(arguments, environment, f, n) ==
  IF TextsFor(arguments, f, n) = {} THEN FromEnv(f, environment)
  ELSE Converted(FlagKind[f], arguments[LastOf(TextsFor(arguments, f, n))].text)

Args == [flag : STRING, text : STRING]

\* The arguments that are left stand in front, in their order, and those that were not
\* looked at follow.
Shortened ==
  LET left == LeftOf(given, Consumed)
  IN  /\ i = Cardinality(left) + 1
      /\ \A a \in left : argv[RankIn(left, a)] = given[a]
      /\ \A k \in 1 .. Len(given) - Consumed : argv[i - 1 + k] = given[Consumed + k]

LineInv ==
  /\ env \in Environments /\ given \in CommandLines
  /\ argv \in Seq(Args) /\ i \in Nat \ {0} /\ Consumed \in 0 .. Len(given)
  /\ Shortened
  /\ FLAGS = [f \in Flags |-> TextAfter(given, env, f, Consumed)]
  /\ pc = "start" => Consumed = 0
  /\ Parsed => Consumed = Len(given)

StatusInv ==
  /\ default_time_unit \in TimeUnits /\ suites \in Nat
  /\ default_display_reporter \in {"none", "live", "deleted"}
  /\ default_display_reporter = "deleted" => suites > 0
  /\ default_display_reporter = "live" => status = "1"
  /\ benchmark_out \in {"none", "empty", "results"}
  /\ pc \in {"start", "parsing", "initialized", "exited", "done"}
  /\ status \in {"running", "0", "1", "undefined"}
  /\ pc = "exited" <=> status # "running"

\* What was asked for, by source.
DryRunPairs(text) == IF text = "true" THEN << <<"dry_run", "true">> >> ELSE << >>

EnvironmentPairs(environment) ==
  IF /\ "benchmark_context" \in DOMAIN environment
     /\ ParseKvPairs(environment["benchmark_context"]) # NoPairs
  THEN KvPairs[environment["benchmark_context"]] ELSE << >>

AskIn(arguments, environment, dry, before, after) ==
  [s \in -2 .. Len(arguments) + 1 |->
     CASE s = -2 -> before
       [] s = -1 -> DryRunPairs(dry)
       [] s = 0  -> EnvironmentPairs(environment)
       [] s \in DOMAIN arguments -> PairsOf(arguments[s])
       [] OTHER  -> after]

Ask == AskIn(given, env, FLAGS["benchmark_dry_run"], added.before, added.after)

\* The pairs of the flag are those of the environment and of the arguments so far. Those
\* of the program before Initialize are in the context; after it, all are.
ContextInv ==
  /\ added = [before |-> added.before, after |-> added.after]
  /\ added.before \in Seq(Contexts) /\ added.after \in Seq(Contexts)
  /\ IsFiniteSet(DOMAIN FLAGS_benchmark_context)
  /\ Holds(FLAGS_benchmark_context, Ask, 0, Consumed)
  /\ pc \in {"start", "parsing"} =>
       added.after = << >> /\ Holds(global_context, Ask, -2, -2)
  /\ pc = "initialized" => Holds(global_context, Ask, -2, Len(given) + 1)

IInv == LineInv /\ StatusInv /\ ContextInv

\* RemoveAt takes out one place, and what follows moves up.
LEMMA Removed ==
  ASSUME NEW S, NEW sequence \in Seq(S), NEW place \in 1 .. Len(sequence)
  PROVE  LET result == RemoveAt(sequence, place)
         IN  /\ result \in Seq(S) /\ Len(result) = Len(sequence) - 1
             /\ \A p \in 1 .. place - 1 : result[p] = sequence[p]
             /\ \A p \in place .. Len(sequence) - 1 : result[p] = sequence[p + 1]
<1> DEFINE front == SubSeq(sequence, 1, place - 1)
           back  == SubSeq(sequence, place + 1, Len(sequence))
           result == front \o back
<1>1. /\ front \in Seq(S) /\ Len(front) = place - 1
      /\ \A p \in 1 .. place - 1 : front[p] = sequence[p]
  OBVIOUS
<1>2. /\ back \in Seq(S) /\ Len(back) = Len(sequence) - place
      /\ \A p \in 1 .. Len(sequence) - place : back[p] = sequence[place + p]
  OBVIOUS
<1>3. Len(sequence) \in Nat
  OBVIOUS
<1> HIDE DEF front, back
<1>4. /\ result \in Seq(S) /\ Len(result) = Len(sequence) - 1
      /\ \A p \in 1 .. place - 1 : result[p] = front[p]
      /\ \A p \in place .. Len(sequence) - 1 : result[p] = back[p - (place - 1)]
  <2>1. result \in Seq(S) /\ Len(result) = Len(front) + Len(back)
    <3>1. front \in Seq(S) /\ back \in Seq(S)
      BY <1>1, <1>2
    <3> QED
      BY <3>1
  <2>2. \A p \in 1 .. Len(front) : result[p] = front[p]
    BY <1>1, <1>2
  <2>3. \A p \in Len(front) + 1 .. Len(front) + Len(back) :
          result[p] = back[p - Len(front)]
    BY <1>1, <1>2
  <2> HIDE DEF result
  <2>4. place - 1 + 1 = place /\ place - 1 + (Len(sequence) - place) = Len(sequence) - 1
    BY <1>3
  <2> QED
    BY <1>1, <1>2, <2>1, <2>2, <2>3, <2>4
<1>5. \A p \in place .. Len(sequence) - 1 : result[p] = sequence[p + 1]
  <2> SUFFICES ASSUME NEW p \in place .. Len(sequence) - 1
               PROVE  result[p] = sequence[p + 1]
    OBVIOUS
  <2>1. p - (place - 1) \in 1 .. Len(sequence) - place
    BY <1>3
  <2>2. place + (p - (place - 1)) = p + 1
    BY <1>3
  <2> QED
    BY <1>2, <1>4, <2>1, <2>2
<1> QED
  BY <1>1, <1>4, <1>5 DEF RemoveAt, front, back

\* One argument more.
LEMMA NextLeft ==
  ASSUME NEW arguments, NEW n \in Nat
  PROVE  /\ IsFiniteSet(LeftOf(arguments, n)) /\ Cardinality(LeftOf(arguments, n)) \in Nat
         /\ LeftOf(arguments, n) \in SUBSET Nat /\ \A a \in LeftOf(arguments, n) : a <= n
         /\ Recognized(arguments[n + 1]) => LeftOf(arguments, n + 1) = LeftOf(arguments, n)
         /\ ~Recognized(arguments[n + 1]) =>
              LeftOf(arguments, n + 1) = LeftOf(arguments, n) \cup {n + 1}
<1>1. \A a : a \in 1 .. n + 1 <=> a \in 1 .. n \/ a = n + 1
  OBVIOUS
<1>2. IsFiniteSet(1 .. n) /\ LeftOf(arguments, n) \in SUBSET (1 .. n)
  BY FS_Interval DEF LeftOf
<1>3. IsFiniteSet(LeftOf(arguments, n)) /\ Cardinality(LeftOf(arguments, n)) \in Nat
  BY <1>2, FS_Subset, FS_CardinalityType
<1>4. \A a \in 1 .. n : a \in Nat /\ a <= n
  OBVIOUS
<1> QED
  BY <1>1, <1>2, <1>3, <1>4 DEF LeftOf

\* The ranks of a finite set of places are 1, 2, ...
LEMMA Ranks ==
  ASSUME NEW places \in SUBSET Nat, IsFiniteSet(places), NEW a \in places
  PROVE  RankIn(places, a) \in 1 .. Cardinality(places)
<1> DEFINE upto == {b \in places : b <= a}
<1>1. IsFiniteSet(upto) /\ Cardinality(upto) <= Cardinality(places) /\ a \in upto
  <2>1. upto \in SUBSET places /\ a \in upto
    OBVIOUS
  <2> HIDE DEF upto
  <2> QED
    BY <2>1, FS_Subset
<1> HIDE DEF upto
<1>2. Cardinality(upto) \in Nat /\ Cardinality(upto) # 0 /\ Cardinality(places) \in Nat
  BY <1>1, FS_CardinalityType, FS_EmptySet
<1> QED
  BY <1>1, <1>2 DEF RankIn, upto

\* A place behind all others has the last rank, and changes none of theirs.
LEMMA RanksWithNext ==
  ASSUME NEW places \in SUBSET Nat, IsFiniteSet(places), NEW n \in Nat,
         \A a \in places : a <= n
  PROVE  /\ Cardinality(places \cup {n + 1}) = Cardinality(places) + 1
         /\ RankIn(places \cup {n + 1}, n + 1) = Cardinality(places) + 1
         /\ \A a \in places : RankIn(places \cup {n + 1}, a) = RankIn(places, a)
<1>1. n + 1 \notin places
  OBVIOUS
<1>2. Cardinality(places \cup {n + 1}) = Cardinality(places) + 1
  <2> DEFINE next == n + 1
  <2> HIDE DEF next
  <2>1. next \notin places
    BY <1>1 DEF next
  <2>2. Cardinality(places \cup {next}) = Cardinality(places) + 1
    BY <2>1, FS_AddElement
  <2> QED
    BY <2>2 DEF next
<1>3. {b \in places \cup {n + 1} : b <= n + 1} = places \cup {n + 1}
  <2>1. \A b \in places \cup {n + 1} : b <= n + 1
    OBVIOUS
  <2> QED
    BY <2>1
<1>4. ASSUME NEW a \in places
      PROVE  {b \in places \cup {n + 1} : b <= a} = {b \in places : b <= a}
  OBVIOUS
<1> QED
  BY <1>2, <1>3, <1>4 DEF RankIn

\* The text of a flag changes with an argument that gives it another.
LEMMA NextText ==
  ASSUME NEW arguments, NEW environment, NEW f, NEW n \in Nat
  PROVE  TextAfter(arguments, environment, f, n + 1)
           = IF arguments[n + 1].flag = f /\ Parses(arguments[n + 1])
             THEN Converted(FlagKind[f], arguments[n + 1].text)
             ELSE TextAfter(arguments, environment, f, n)
<1> DEFINE before == TextsFor(arguments, f, n)
           after == TextsFor(arguments, f, n + 1)
<1>1. \A a : a \in 1 .. n + 1 <=> a \in 1 .. n \/ a = n + 1
  OBVIOUS
<1>2. CASE arguments[n + 1].flag = f /\ Parses(arguments[n + 1])
  <2>1. n + 1 \in after
    BY <1>1, <1>2 DEF TextsFor
  <2>2. \A a \in after : a \in Nat /\ a <= n + 1
    BY DEF TextsFor
  <2> HIDE DEF after
  <2>3. LastOf(after) = n + 1
    <3>1. LastOf(after) \in after /\ \A b \in after : b <= LastOf(after)
      BY <2>1, <2>2 DEF LastOf
    <3>2. n + 1 <= LastOf(after) /\ LastOf(after) <= n + 1 /\ LastOf(after) \in Nat
      BY <2>1, <2>2, <3>1
    <3> HIDE DEF LastOf
    <3> QED
      BY <3>2
  <2> QED
    BY <1>2, <2>1, <2>3 DEF TextAfter, after
<1>3. CASE ~(arguments[n + 1].flag = f /\ Parses(arguments[n + 1]))
  <2>1. after = before
    BY <1>1, <1>3 DEF TextsFor
  <2> QED
    BY <1>3, <2>1 DEF TextAfter
<1> QED
  BY <1>2, <1>3

-----------------------------------------------------------------------------
(* A round of the loop.                                                    *)

\* It looks at the argument that follows those it has looked at.
LEMMA LooksAtNext ==
  ASSUME LineInv, ParseArgument
  PROVE  /\ given \in Seq(Args) /\ Len(given) \in Nat /\ Len(argv) \in Nat
         /\ Consumed \in Nat /\ Consumed + 1 <= Len(given)
         /\ i \in 1 .. Len(argv) /\ argv[i] = given[Consumed + 1]
         /\ Consumed + 1 \in DOMAIN given
<1>1. given \in Seq(Args)
  BY SessionAssumption DEF LineInv, Args
<1>2. Len(given) \in Nat /\ Len(argv) \in Nat /\ i \in Nat \ {0} /\ i <= Len(argv)
  BY <1>1 DEF LineInv, ParseArgument
<1>3. Consumed \in Nat /\ Consumed + 1 <= Len(given)
  BY <1>2 DEF Consumed, LineInv
<1>4. argv[i - 1 + 1] = given[Consumed + 1]
  <2>1. 1 \in 1 .. Len(given) - Consumed
    BY <1>2, <1>3
  <2>2. \A k \in 1 .. Len(given) - Consumed : argv[i - 1 + k] = given[Consumed + k]
    BY DEF LineInv, Shortened
  <2> QED
    BY <2>1, <2>2
<1>5. i - 1 + 1 = i /\ i \in 1 .. Len(argv)
  BY <1>2
<1>6. Consumed + 1 \in 1 .. Len(given)
  BY <1>2, <1>3
<1> QED
  BY <1>1, <1>2, <1>3, <1>4, <1>5, <1>6

\* argv is shortened as it should be.
LEMMA StaysShortened ==
  ASSUME LineInv, ParseArgument
  PROVE  /\ argv' \in Seq(Args) /\ i' \in Nat \ {0} /\ Consumed' = Consumed + 1
         /\ Shortened'
<1> DEFINE n == Consumed
           left == LeftOf(given, n)
<1>1. /\ given \in Seq(Args) /\ Len(given) \in Nat /\ Len(argv) \in Nat
      /\ n \in Nat /\ n + 1 <= Len(given) /\ i \in 1 .. Len(argv) /\ argv[i] = given[n + 1]
  BY LooksAtNext
<1>2. given' = given
  BY DEF ParseArgument
<1>3. /\ i = Cardinality(left) + 1
      /\ \A a \in left : argv[RankIn(left, a)] = given[a]
      /\ \A k \in 1 .. Len(given) - n : argv[i - 1 + k] = given[n + k]
      /\ n = Len(given) - Len(argv) + i - 1 /\ argv \in Seq(Args)
  BY DEF LineInv, Shortened, Consumed
<1>4. Consumed' = Len(given) - Len(argv') + i' - 1
  BY <1>2 DEF Consumed
<1>5. /\ IsFiniteSet(left) /\ left \in SUBSET Nat /\ \A a \in left : a <= n
      /\ Recognized(given[n + 1]) => LeftOf(given, n + 1) = left
      /\ ~Recognized(given[n + 1]) => LeftOf(given, n + 1) = left \cup {n + 1}
  <2> HIDE DEF n
  <2> QED
    BY <1>1, NextLeft
<1>6. Shortened' <=>
        LET next == LeftOf(given, Consumed')
        IN  /\ i' = Cardinality(next) + 1
            /\ \A a \in next : argv'[RankIn(next, a)] = given[a]
            /\ \A k \in 1 .. Len(given) - Consumed' : argv'[i' - 1 + k] = given[Consumed' + k]
  BY <1>2 DEF Shortened, LeftOf, RankIn
<1> HIDE DEF n, left
<1>9. /\ Len(given) \in Nat /\ Len(argv) \in Nat /\ n \in Nat /\ n + 1 <= Len(given)
      /\ i \in 1 .. Len(argv) /\ n = Len(given) - Len(argv) + i - 1
  BY <1>1, <1>3
<1>7. CASE Recognized(argv[i])
  <2>1. argv' = RemoveAt(argv, i) /\ i' = i
    BY <1>7 DEF ParseArgument, NextIndex
  <2>2. /\ argv' \in Seq(Args) /\ Len(argv') = Len(argv) - 1
        /\ \A p \in 1 .. i - 1 : argv'[p] = argv[p]
        /\ \A p \in i .. Len(argv) - 1 : argv'[p] = argv[p + 1]
    BY <1>1, <1>3, <2>1, Removed, ZenonT(60)
  <2>3. Consumed' = n + 1
    <3>1. Consumed' = Len(given) - Len(argv') + i - 1 /\ Len(argv') = Len(argv) - 1
      BY <1>4, <2>1, <2>2
    <3> QED
      BY <1>9, <3>1
  <2>4. LeftOf(given, Consumed') = left
    BY <1>1, <1>5, <1>7, <2>3
  <2>5. ASSUME NEW a \in left
        PROVE  argv'[RankIn(left, a)] = given[a]
    <3>1. RankIn(left, a) \in 1 .. Cardinality(left)
      BY <1>5, Ranks
    <3>2. Cardinality(left) = i - 1
      BY <1>1, <1>3, <1>5, FS_CardinalityType, SMTT(30)
    <3> QED
      BY <1>3, <2>2, <3>1, <3>2
  <2>6. ASSUME NEW k \in 1 .. Len(given) - (n + 1)
        PROVE  argv'[i - 1 + k] = given[n + 1 + k]
    <3>1. /\ k + 1 \in 1 .. Len(given) - n /\ i - 1 + k \in i .. Len(argv) - 1
          /\ i - 1 + k + 1 = i - 1 + (k + 1) /\ n + (k + 1) = n + 1 + k
      BY <1>9
    <3>2. argv[i - 1 + (k + 1)] = given[n + (k + 1)]
      BY <1>3, <3>1
    <3> QED
      BY <2>2, <3>1, <3>2
  <2>7. Shortened'
    BY <1>3, <1>6, <2>1, <2>3, <2>4, <2>5, <2>6
  <2> QED
    BY <1>1, <2>1, <2>2, <2>3, <2>7 DEF n
<1>8. CASE ~Recognized(argv[i])
  <2>1. argv' = argv /\ i' = i + 1
    BY <1>8 DEF ParseArgument, NextIndex
  <2>2. Consumed' = n + 1
    BY <1>1, <1>3, <1>4, <2>1
  <2>3. LeftOf(given, Consumed') = left \cup {n + 1}
    BY <1>1, <1>5, <1>8, <2>2
  <2>4. /\ Cardinality(left \cup {n + 1}) = Cardinality(left) + 1
        /\ RankIn(left \cup {n + 1}, n + 1) = Cardinality(left) + 1
        /\ \A a \in left : RankIn(left \cup {n + 1}, a) = RankIn(left, a)
    BY <1>1, <1>5, RanksWithNext
  <2>5. ASSUME NEW a \in left \cup {n + 1}
        PROVE  argv[RankIn(left \cup {n + 1}, a)] = given[a]
    BY <1>1, <1>3, <2>4
  <2>6. ASSUME NEW k \in 1 .. Len(given) - Consumed'
        PROVE  argv'[i' - 1 + k] = given[Consumed' + k]
    <3>1. k \in 1 .. Len(given) - (n + 1)
      BY <2>2
    <3>2. k + 1 \in 1 .. Len(given) - n
      BY <1>9, <3>1
    <3>3. i' - 1 + k = i - 1 + (k + 1) /\ Consumed' + k = n + (k + 1)
      BY <1>9, <2>1, <2>2, <3>1
    <3>4. argv[i - 1 + (k + 1)] = given[n + (k + 1)]
      BY <1>3, <3>2
    <3> QED
      BY <2>1, <3>3, <3>4
  <2>7. Shortened'
    <3>1. i' = Cardinality(LeftOf(given, Consumed')) + 1
      BY <1>3, <2>1, <2>3, <2>4
    <3>2. \A a \in LeftOf(given, Consumed') :
            argv'[RankIn(LeftOf(given, Consumed'), a)] = given[a]
      BY <2>1, <2>3, <2>5
    <3> QED
      BY <1>6, <2>6, <3>1, <3>2
  <2> QED
    BY <1>1, <1>3, <2>1, <2>2, <2>7 DEF n
<1> QED
  BY <1>7, <1>8

\* Every flag has the text that the arguments so far have given it.
LEMMA StaysSet ==
  ASSUME LineInv, ParseArgument
  PROVE  FLAGS' = [f \in Flags |-> TextAfter(given, env, f, Consumed + 1)]
<1> DEFINE n == Consumed
           arg == given[n + 1]
<1>1. n \in Nat /\ argv[i] = arg
  BY LooksAtNext
<1>2. FLAGS = [f \in Flags |-> TextAfter(given, env, f, n)]
  BY DEF LineInv
<1>3. FLAGS' = IF Parses(arg)
               THEN [FLAGS EXCEPT ![arg.flag] = Converted(FlagKind[arg.flag], arg.text)]
               ELSE FLAGS
  BY <1>1 DEF ParseArgument
<1>4. Parses(arg) => arg.flag \in Flags
  BY DEF Parses
<1>5. \A f \in Flags : TextAfter(given, env, f, n + 1)
        = IF arg.flag = f /\ Parses(arg) THEN Converted(FlagKind[f], arg.text)
          ELSE TextAfter(given, env, f, n)
  <2> HIDE DEF n
  <2> QED
    BY <1>1, NextText DEF arg
<1> HIDE DEF n, arg
<1>6. /\ DOMAIN FLAGS = Flags /\ \A f \in Flags : FLAGS[f] = TextAfter(given, env, f, n)
      /\ DOMAIN FLAGS' = Flags /\ FLAGS' = [f \in Flags |-> FLAGS'[f]]
  BY <1>2, <1>3
<1>7. ASSUME NEW f \in Flags
      PROVE  FLAGS'[f] = TextAfter(given, env, f, n + 1)
  <2>1. FLAGS'[f] = IF arg.flag = f /\ Parses(arg) THEN Converted(FlagKind[f], arg.text)
                    ELSE FLAGS[f]
    BY <1>3, <1>4, <1>6
  <2> QED
    BY <1>5, <1>6, <2>1
<1> QED
  BY <1>6, <1>7 DEF n

\* Nothing has been looked at when the program starts.
LEMMA LineInitial ==
  Init => LineInv
<1> SUFFICES ASSUME Init
             PROVE  LineInv
  OBVIOUS
<1>1. given \in Seq(Args) /\ argv = given /\ i = 1 /\ Len(given) \in Nat
  BY SessionAssumption DEF Init, Args
<1>2. Consumed = 0
  BY <1>1 DEF Consumed
<1>3. LeftOf(given, 0) = {} /\ \A f : TextsFor(given, f, 0) = {}
  BY DEF LeftOf, TextsFor
<1>4. Shortened
  <2>1. Cardinality(LeftOf(given, Consumed)) = 0
    BY <1>2, <1>3, FS_EmptySet
  <2>2. \A k \in 1 .. Len(given) - 0 : argv[1 - 1 + k] = given[0 + k]
    <3>1. \A k \in 1 .. Len(given) - 0 : 1 - 1 + k = k /\ 0 + k = k
      OBVIOUS
    <3> QED
      BY <1>1, <3>1
  <2> QED
    BY <1>1, <1>2, <1>3, <2>1, <2>2 DEF Shortened
<1>5. FLAGS = [f \in Flags |-> TextAfter(given, env, f, Consumed)]
  <2>1. \A f \in Flags : TextAfter(given, env, f, Consumed) = FromEnv(f, env)
    BY <1>2, <1>3 DEF TextAfter
  <2>2. FLAGS = [f \in Flags |-> FromEnv(f, env)]
    BY DEF Init
  <2> QED
    BY <2>1, <2>2
<1>6. /\ env \in Environments /\ given \in CommandLines /\ pc = "start"
  BY DEF Init
<1>7. Consumed \in 0 .. Len(given) /\ i \in Nat \ {0} /\ argv \in Seq(Args)
  BY <1>1, <1>2
<1> QED
  BY <1>2, <1>4, <1>5, <1>6, <1>7 DEF LineInv, Parsed

\* Where the arguments are left alone.
LEMMA LineKept ==
  ASSUME LineInv, env' = env, given' = given, line' = line,
         pc' = "start" => pc = "start", Parsed' => Consumed = Len(given)
  PROVE  LineInv' /\ Consumed' = Consumed
<1>1. argv' = argv /\ i' = i /\ FLAGS' = FLAGS
  BY DEF line
<1>2. Consumed' = Consumed
  BY <1>1 DEF Consumed
<1>3. Shortened'
  BY <1>1, <1>2 DEF LineInv, Shortened, LeftOf, RankIn
<1>4. [f \in Flags |-> TextAfter(given, env, f, Consumed)]'
        = [f \in Flags |-> TextAfter(given, env, f, Consumed)]
  BY <1>2 DEF TextAfter, TextsFor, LastOf
<1> QED
  BY <1>1, <1>2, <1>3, <1>4 DEF LineInv

\* When no argument is left to look at, all have been.
LEMMA AllConsumed ==
  ASSUME LineInv, i > Len(argv)
  PROVE  Consumed = Len(given)
<1>1. given \in Seq(Args)
  BY SessionAssumption DEF LineInv, Args
<1>2. /\ Len(given) \in Nat /\ Len(argv) \in Nat /\ i \in Nat
      /\ Len(given) - Len(argv) + i - 1 <= Len(given)
  BY <1>1 DEF LineInv, Consumed
<1> QED
  BY <1>2 DEF Consumed

\* Every step keeps the line's invariant.
LEMMA LineInductive ==
  ASSUME LineInv, [Next]_vars
  PROVE  LineInv'
<1> USE DEF Parsed
<1>1. CASE ParseArgument
  <2>1. /\ argv' \in Seq(Args) /\ i' \in Nat \ {0} /\ Consumed' = Consumed + 1
        /\ Shortened'
    BY <1>1, StaysShortened
  <2>2. FLAGS' = [f \in Flags |-> TextAfter(given, env, f, Consumed + 1)]
    BY <1>1, StaysSet
  <2>3. Consumed + 1 \in 0 .. Len(given)
    <3>1. Consumed \in Nat /\ Consumed + 1 <= Len(given) /\ Len(given) \in Nat
      BY <1>1, LooksAtNext
    <3> QED
      BY <3>1
  <2>4. given' = given /\ env' = env /\ pc' \in {"parsing", "exited"}
    BY <1>1 DEF ParseArgument
  <2>5. [f \in Flags |-> TextAfter(given, env, f, Consumed)]'
          = [f \in Flags |-> TextAfter(given, env, f, Consumed + 1)]
    BY <2>1, <2>4 DEF TextAfter, TextsFor, LastOf
  <2> QED
    BY <2>1, <2>2, <2>3, <2>4, <2>5 DEF LineInv
<1>2. CASE \E pair \in Contexts : AddCustomContext(pair)
  <2>1. env' = env /\ given' = given /\ line' = line /\ pc' = pc
    BY <1>2 DEF AddCustomContext
  <2> QED
    BY <2>1, LineKept DEF LineInv
<1>3. CASE Initialize
  <2>1. env' = env /\ given' = given /\ line' = line /\ pc' = "parsing"
    BY <1>3 DEF Initialize
  <2> QED
    BY <2>1, LineKept DEF LineInv
<1>4. CASE FinishFlags
  <2>1. /\ env' = env /\ given' = given /\ line' = line /\ i > Len(argv)
        /\ pc' \in {"initialized", "exited"}
    BY <1>4 DEF FinishFlags
  <2>2. Consumed = Len(given)
    BY <2>1, AllConsumed
  <2> QED
    BY <2>1, <2>2, LineKept
<1>5. CASE ReportUnrecognizedArguments
  <2>1. env' = env /\ given' = given /\ line' = line /\ pc' = "exited"
    BY <1>5 DEF ReportUnrecognizedArguments
  <2> QED
    BY <2>1, LineKept
<1>6. CASE \E uses_default, file_reporter \in BOOLEAN, spec \in Specs :
             RunSpecifiedBenchmarks(uses_default, file_reporter, spec)
  <2>1. /\ env' = env /\ given' = given /\ line' = line /\ pc = "initialized"
        /\ pc' \in {"initialized", "exited"}
    BY <1>6 DEF RunSpecifiedBenchmarks
  <2> QED
    BY <2>1, LineKept DEF LineInv
<1>7. CASE Shutdown
  <2>1. env' = env /\ given' = given /\ line' = line /\ pc = "initialized" /\ pc' = "done"
    BY <1>7 DEF Shutdown
  <2> QED
    BY <2>1, LineKept DEF LineInv
<1>8. CASE UNCHANGED vars
  <2>1. env' = env /\ given' = given /\ line' = line /\ pc' = pc
    BY <1>8 DEF vars
  <2> QED
    BY <2>1, LineKept DEF LineInv
<1> QED
  BY <1>1, <1>2, <1>3, <1>4, <1>5, <1>6, <1>7, <1>8 DEF Next

\* The rest of the state: reporters, streams and how the program ends.
LEMMA StatusInductive ==
  /\ Init => StatusInv
  /\ StatusInv /\ [Next]_vars => StatusInv'
<1>1. Init => StatusInv
  BY DEF Init, StatusInv, TimeUnits
<1>2. ASSUME StatusInv, [Next]_vars
      PROVE  StatusInv'
  <2> USE <1>2 DEF StatusInv
  <2>1. CASE \E pair \in Contexts : AddCustomContext(pair)
    BY <2>1 DEF AddCustomContext
  <2>2. CASE Initialize
    BY <2>2 DEF Initialize
  <2>3. CASE ParseArgument
    BY <2>3 DEF ParseArgument
  <2>4. CASE FinishFlags
    <3>1. CASE BadChoice
      BY <2>4, <3>1 DEF FinishFlags
    <3>2. CASE ~BadChoice
      <4>1. default_time_unit' \in TimeUnits
        BY <2>4, <3>2 DEF FinishFlags, BadChoice
      <4> QED
        BY <2>4, <3>2, <4>1 DEF FinishFlags
    <3> QED
      BY <3>1, <3>2
  <2>5. CASE ReportUnrecognizedArguments
    BY <2>5 DEF ReportUnrecognizedArguments
  <2>6. CASE \E uses_default, file_reporter \in BOOLEAN, spec \in Specs :
               RunSpecifiedBenchmarks(uses_default, file_reporter, spec)
    <3>1. PICK uses_default \in BOOLEAN, file_reporter \in BOOLEAN, spec \in Specs :
             RunSpecifiedBenchmarks(uses_default, file_reporter, spec)
      BY <2>6
    <3>2. /\ pc = "initialized" /\ status = "running" /\ default_display_reporter # "live"
          /\ default_time_unit' = default_time_unit
      BY <3>1 DEF RunSpecifiedBenchmarks
    <3>3. CASE /\ pc' = "exited" /\ status' \in {"1", "undefined"} /\ suites' = suites
               /\ benchmark_out' = benchmark_out
               /\ default_display_reporter' \in {"live", default_display_reporter}
               /\ default_display_reporter' = "live" => status' = "1"
      BY <3>2, <3>3
    <3>4. CASE /\ pc' = pc /\ status' = status /\ suites' = suites + 1
               /\ benchmark_out' \in {benchmark_out, "empty", "results"}
               /\ default_display_reporter' \in {"deleted", default_display_reporter}
      <4>1. suites' \in Nat /\ suites' > 0
        BY <3>4
      <4> QED
        BY <3>2, <3>4, <4>1
    <3> QED
      BY <3>1, <3>2, <3>3, <3>4 DEF RunSpecifiedBenchmarks, DefaultReporterAfter
  <2>7. CASE Shutdown
    BY <2>7 DEF Shutdown
  <2>8. CASE UNCHANGED vars
    BY <2>8 DEF vars
  <2> QED
    BY <2>1, <2>2, <2>3, <2>4, <2>5, <2>6, <2>7, <2>8 DEF Next
<1> QED
  BY <1>1, <1>2

-----------------------------------------------------------------------------
(* The pairs of a map, in any order.                                       *)

PairsIn(map) == {<<k, map[k]>> : k \in DOMAIN map}

\* SetToSeq puts every element of a finite set in one place.
LEMMA SeqOfSet ==
  ASSUME NEW S, IsFiniteSet(S)
  PROVE  /\ SetToSeq(S) \in Seq(S)
         /\ \A x \in S : \E p \in DOMAIN SetToSeq(S) : SetToSeq(S)[p] = x
<1> DEFINE n == Cardinality(S)
           f == SetToSeq(S)
<1>1. n \in Nat /\ ExistsBijection(1 .. n, S)
  BY FS_CardinalityType
<1>2. \E g \in [1 .. n -> S] : IsInjective(g)
  <2>1. PICK g \in Bijection(1 .. n, S) : TRUE
    BY <1>1 DEF ExistsBijection
  <2>2. g \in [1 .. n -> S] /\ IsInjective(g)
    BY <2>1 DEF Bijection, Injection
  <2> QED
    BY <2>2
<1>3. f \in [1 .. n -> S] /\ IsInjective(f)
  BY <1>2 DEF SetToSeq
<1> HIDE DEF n, f
<1>4. f \in Seq(S)
  BY <1>1, <1>3
<1>5. f \in Surjection(1 .. n, S)
  <2>1. f \in Injection(1 .. n, S)
    BY <1>3 DEF Injection
  <2>2. Cardinality(1 .. n) = n
    BY <1>1, FS_Interval
  <2>3. Cardinality(1 .. n) = Cardinality(S)
    BY <2>2 DEF n
  <2> QED
    BY <2>1, <2>3, FS_Injection
<1>6. \A x \in S : \E p \in DOMAIN f : f[p] = x
  BY <1>3, <1>5 DEF Surjection
<1> QED
  BY <1>4, <1>6 DEF f

\* The pairs of a map have its keys, each once.
LEMMA PairsOfMap ==
  ASSUME NEW map, IsFiniteSet(DOMAIN map)
  PROVE  LET pairs == SetToSeq(PairsIn(map))
         IN  /\ pairs \in Seq(PairsIn(map))
             /\ KeysOf(pairs) = DOMAIN map
             /\ \A k \in DOMAIN map : ValueOf(pairs, k) = map[k]
<1> DEFINE S == PairsIn(map)
           pairs == SetToSeq(S)
<1>1. IsFiniteSet(S)
  <2> DEFINE f == [k \in DOMAIN map |-> <<k, map[k]>>]
  <2>1. f \in Surjection(DOMAIN map, S)
    BY DEF Surjection, PairsIn
  <2> HIDE DEF f, S
  <2> QED
    BY <2>1, FS_Surjection
<1>2. /\ pairs \in Seq(S) /\ \A x \in S : \E p \in DOMAIN pairs : pairs[p] = x
  <2> HIDE DEF S
  <2> QED
    BY <1>1, SeqOfSet
<1> HIDE DEF pairs
<1>3. /\ \A k \in DOMAIN map : <<k, map[k]>> \in S
      /\ \A x \in S : \E k \in DOMAIN map : x = <<k, map[k]>>
  BY DEF PairsIn
<1> HIDE DEF S
<1>4. \A p \in DOMAIN pairs : pairs[p] \in S
  BY <1>2
<1>5. \A p \in DOMAIN pairs : pairs[p][1] \in DOMAIN map /\ pairs[p][2] = map[pairs[p][1]]
  <2> SUFFICES ASSUME NEW p \in DOMAIN pairs
               PROVE  pairs[p][1] \in DOMAIN map /\ pairs[p][2] = map[pairs[p][1]]
    OBVIOUS
  <2>1. PICK k \in DOMAIN map : pairs[p] = <<k, map[k]>>
    BY <1>3, <1>4
  <2> QED
    BY <2>1
<1>6. ASSUME NEW k \in DOMAIN map
      PROVE  k \in KeysOf(pairs)
  <2>1. PICK p \in DOMAIN pairs : pairs[p] = <<k, map[k]>>
    BY <1>2, <1>3
  <2>2. pairs[p][1] = k
    BY <2>1
  <2> QED
    BY <2>2 DEF KeysOf
<1>7. ASSUME NEW k \in KeysOf(pairs)
      PROVE  k \in DOMAIN map
  BY <1>5 DEF KeysOf
<1>8. ASSUME NEW k \in DOMAIN map
      PROVE  ValueOf(pairs, k) = map[k]
  <2> DEFINE p == FirstOf(pairs, DOMAIN pairs, k)
  <2>1. ValueOf(pairs, k) = pairs[p][2] /\ p \in DOMAIN pairs /\ pairs[p][1] = k
    BY <1>2, <1>6, FirstValue
  <2> HIDE DEF p
  <2> QED
    BY <1>5, <2>1
<1>9. KeysOf(pairs) = DOMAIN map
  BY <1>6, <1>7
<1> QED
  BY <1>2, <1>8, <1>9 DEF pairs, S

\* A map that was made from the sources that follow is emplaced into one.
LEMMA Merged ==
  ASSUME NEW first, NEW second, NEW asked, NEW lo \in Int, NEW mid \in Int, NEW hi \in Int,
         lo <= mid + 1, mid <= hi,
         Holds(first, asked, lo, mid), Holds(second, asked, mid + 1, hi),
         IsFiniteSet(DOMAIN second)
  PROVE  Holds(EmplaceAll(first, SetToSeq(PairsIn(second))), asked, lo, hi)
<1> DEFINE pairs == SetToSeq(PairsIn(second))
           result == EmplaceAll(first, pairs)
<1>1. /\ pairs \in Seq(PairsIn(second)) /\ KeysOf(pairs) = DOMAIN second
      /\ \A k \in DOMAIN second : ValueOf(pairs, k) = second[k]
  BY PairsOfMap
<1>2. /\ Function(first)
      /\ \A k : k \in DOMAIN first <=> \E s \in lo .. mid : k \in KeysOf(asked[s])
      /\ \A s \in lo .. mid : \A k \in KeysOf(asked[s]) :
           (\A r \in lo .. s - 1 : k \notin KeysOf(asked[r])) => first[k] = ValueOf(asked[s], k)
  BY DEF Holds
<1>3. /\ \A k : k \in DOMAIN second <=> \E s \in mid + 1 .. hi : k \in KeysOf(asked[s])
      /\ \A s \in mid + 1 .. hi : \A k \in KeysOf(asked[s]) :
           (\A r \in mid + 1 .. s - 1 : k \notin KeysOf(asked[r]))
             => second[k] = ValueOf(asked[s], k)
  BY DEF Holds
<1> HIDE DEF pairs
<1>4. /\ Function(result)
      /\ DOMAIN result = DOMAIN first \cup KeysOf(pairs)
      /\ \A k \in DOMAIN first : result[k] = first[k]
      /\ \A k \in KeysOf(pairs) \ DOMAIN first : result[k] = ValueOf(pairs, k)
  <2>1. Function(first)
    BY <1>2
  <2>2. pairs \in Seq(PairsIn(second))
    BY <1>1
  <2>3. EmplacedInto(first, pairs, result)
    BY <2>1, <2>2, Emplaces
  <2> QED
    BY <2>3 DEF EmplacedInto
<1> HIDE DEF result
<1>5. \A s : s \in lo .. hi <=> s \in lo .. mid \/ s \in mid + 1 .. hi
  OBVIOUS
<1>6. \A k : k \in DOMAIN result <=> \E s \in lo .. hi : k \in KeysOf(asked[s])
  <2>1. \A k : k \in DOMAIN result <=> k \in DOMAIN first \/ k \in DOMAIN second
    BY <1>1, <1>4
  <2> QED
    BY <1>2, <1>3, <1>5, <2>1, Zenon
<1>7. ASSUME NEW s \in lo .. hi, NEW k \in KeysOf(asked[s]),
             \A r \in lo .. s - 1 : k \notin KeysOf(asked[r])
      PROVE  result[k] = ValueOf(asked[s], k)
  <2>1. CASE s \in lo .. mid
    <3>1. first[k] = ValueOf(asked[s], k) /\ k \in DOMAIN first
      BY <1>2, <1>7, <2>1, Zenon
    <3> QED
      BY <1>4, <3>1
  <2>2. CASE s \in mid + 1 .. hi
    <3>1. /\ \A r \in lo .. mid : r \in lo .. s - 1
          /\ \A r \in mid + 1 .. s - 1 : r \in lo .. s - 1
      BY <2>2
    <3>2. k \notin DOMAIN first
      BY <1>2, <1>7, <3>1, Zenon
    <3>3. second[k] = ValueOf(asked[s], k) /\ k \in DOMAIN second
      BY <1>3, <1>7, <2>2, <3>1, Zenon
    <3> QED
      BY <1>1, <1>4, <3>2, <3>3
  <2> QED
    BY <1>5, <2>1, <2>2
<1>8. Holds(result, asked, lo, hi)
  BY <1>4, <1>6, <1>7 DEF Holds
<1> QED
  BY <1>8 DEF result, pairs

\* Without a source there is no key.
LEMMA NoSource ==
  ASSUME NEW asked, NEW lo \in Int
  PROVE  Holds(NoPairs, asked, lo, lo - 1)
<1>1. \A s \in lo .. lo - 1 : FALSE
  OBVIOUS
<1>2. Function(NoPairs) /\ DOMAIN NoPairs = {}
  BY DEF Function, NoPairs
<1> QED
  BY <1>1, <1>2 DEF Holds

\* A source that asks for nothing.
LEMMA EmptySource ==
  ASSUME NEW map, NEW asked, NEW lo \in Int, NEW hi \in Int, lo <= hi + 1,
         Holds(map, asked, lo, hi), asked[hi + 1] = << >>
  PROVE  Holds(map, asked, lo, hi + 1)
<1>1. KeysOf(asked[hi + 1]) = {}
  BY DEF KeysOf
<1>2. \A s : s \in lo .. hi + 1 <=> s \in lo .. hi \/ s = hi + 1
  OBVIOUS
<1>3. /\ Function(map)
      /\ \A k : k \in DOMAIN map <=> \E s \in lo .. hi : k \in KeysOf(asked[s])
      /\ \A s \in lo .. hi : \A k \in KeysOf(asked[s]) :
           (\A r \in lo .. s - 1 : k \notin KeysOf(asked[r])) => map[k] = ValueOf(asked[s], k)
  BY DEF Holds
<1>4. \A k : k \in DOMAIN map <=> \E s \in lo .. hi + 1 : k \in KeysOf(asked[s])
  BY <1>1, <1>2, <1>3
<1>5. \A s \in lo .. hi + 1 : \A k \in KeysOf(asked[s]) :
        (\A r \in lo .. s - 1 : k \notin KeysOf(asked[r])) => map[k] = ValueOf(asked[s], k)
  BY <1>1, <1>2, <1>3
<1> QED
  BY <1>3, <1>4, <1>5 DEF Holds

-----------------------------------------------------------------------------
(* The custom context.                                                     *)

AsksFor(ask, arguments, environment, dry, before, after) ==
  /\ ask[-2] = before
  /\ ask[-1] = DryRunPairs(dry)
  /\ ask[0] = EnvironmentPairs(environment)
  /\ \A s \in 1 .. Len(arguments) : ask[s] = PairsOf(arguments[s])
  /\ ask[Len(arguments) + 1] = after

\* What each source asked for.
LEMMA AskValues ==
  ASSUME NEW arguments, Len(arguments) \in Nat, DOMAIN arguments = 1 .. Len(arguments),
         NEW environment, NEW dry, NEW before, NEW after
  PROVE  AsksFor(AskIn(arguments, environment, dry, before, after),
                 arguments, environment, dry, before, after)
<1> DEFINE n == Len(arguments)
           ask == AskIn(arguments, environment, dry, before, after)
<1>1. ask = [s \in -2 .. n + 1 |->
               CASE s = -2 -> before
                 [] s = -1 -> DryRunPairs(dry)
                 [] s = 0  -> EnvironmentPairs(environment)
                 [] s \in DOMAIN arguments -> PairsOf(arguments[s])
                 [] OTHER  -> after]
  BY DEF AskIn
<1> HIDE DEF ask
<1>2. n \in Nat /\ DOMAIN arguments = 1 .. n
  OBVIOUS
<1> HIDE DEF n
<1>3. \A s \in -2 .. n + 1 :
        ask[s] = CASE s = -2 -> before
                   [] s = -1 -> DryRunPairs(dry)
                   [] s = 0  -> EnvironmentPairs(environment)
                   [] s \in 1 .. n -> PairsOf(arguments[s])
                   [] OTHER  -> after
  BY <1>1, <1>2
<1>4. /\ -2 \in -2 .. n + 1 /\ -1 \in -2 .. n + 1 /\ 0 \in -2 .. n + 1
      /\ n + 1 \in -2 .. n + 1 /\ \A s \in 1 .. n : s \in -2 .. n + 1
  BY <1>2
<1>5. ask[-2] = before /\ ask[-1] = DryRunPairs(dry) /\ ask[0] = EnvironmentPairs(environment)
  BY <1>3, <1>4
<1>6. \A s \in 1 .. n : ask[s] = PairsOf(arguments[s])
  BY <1>3, <1>4
<1>7. ask[n + 1] = after
  BY <1>2, <1>3, <1>4
<1> QED
  BY <1>5, <1>6, <1>7 DEF AsksFor, n, ask

\* What is emplaced for an argument are pairs of texts.
LEMMA PairsTyped ==
  ASSUME NEW arguments \in CommandLines, NEW a \in DOMAIN arguments
  PROVE  PairsOf(arguments[a]) \in Seq(Seq(STRING))
<1> DEFINE arg == arguments[a]
           parts == KvPairs[arg.text]
           bad == {p \in DOMAIN parts : ~IsPair(parts[p])}
           taken == PairsBeforeError(parts)
<1>1. CASE arg.flag = "benchmark_context" /\ arg.text # NoText
  <2>1. parts \in Seq(Seq(STRING))
    <3>1. \A c \in CommandLines : \A x \in DOMAIN c :
            c[x].flag = "benchmark_context" /\ c[x].text # NoText => c[x].text \in DOMAIN KvPairs
      BY SessionAssumption
    <3>2. arg.text \in DOMAIN KvPairs
      BY <1>1, <3>1, Zenon
    <3>3. \A text \in DOMAIN KvPairs : KvPairs[text] \in Seq(Seq(STRING))
      BY SessionAssumption
    <3> HIDE DEF arg
    <3> QED
      BY <3>2, <3>3, Zenon
  <2> HIDE DEF parts
  <2>2. taken = SubSeq(parts, 1, IF bad = {} THEN Len(parts)
                                 ELSE (CHOOSE p \in bad : \A q \in bad : p <= q) - 1)
    BY DEF PairsBeforeError
  <2>3. taken \in Seq(Seq(STRING))
    <3>1. CASE bad = {}
      BY <2>1, <2>2, <3>1
    <3>2. CASE bad # {}
      <4>1. \A p \in bad : p \in Nat /\ p \in 1 .. Len(parts)
        BY <2>1
      <4> HIDE DEF bad
      <4>2. \E p \in bad : \A q \in bad : p <= q
        <5>1. bad \subseteq Nat
          BY <4>1
        <5> QED
          BY <3>2, <5>1, FirstPlace
      <4> DEFINE first == CHOOSE p \in bad : \A q \in bad : p <= q
      <4>3. first \in bad
        BY <4>2
      <4>4. taken = SubSeq(parts, 1, first - 1)
        BY <2>2, <3>2
      <4> HIDE DEF first, taken
      <4>5. first \in 1 .. Len(parts)
        BY <4>1, <4>3
      <4>6. SubSeq(parts, 1, first - 1) \in Seq(Seq(STRING))
        BY <2>1, <4>5
      <4> QED
        BY <4>4, <4>6
    <3> QED
      BY <3>1, <3>2
  <2>4. PairsOf(arg) = taken
    BY <1>1 DEF PairsOf, parts
  <2> QED
    BY <2>3, <2>4
<1>2. CASE ~(arg.flag = "benchmark_context" /\ arg.text # NoText)
  <2>1. PairsOf(arg) = << >>
    BY <1>2 DEF PairsOf
  <2> QED
    BY <2>1
<1> QED
  BY <1>1, <1>2

\* Emplacing finitely many pairs keeps a map finite.
LEMMA StaysFinite ==
  ASSUME NEW map, Function(map), IsFiniteSet(DOMAIN map), NEW S, NEW pairs \in Seq(S)
  PROVE  IsFiniteSet(DOMAIN EmplaceAll(map, pairs))
<1>1. IsFiniteSet(KeysOf(pairs))
  <2> DEFINE f == [p \in DOMAIN pairs |-> pairs[p][1]]
  <2>1. f \in Surjection(DOMAIN pairs, KeysOf(pairs))
    BY DEF Surjection, KeysOf
  <2>2. IsFiniteSet(DOMAIN pairs)
    <3>1. DOMAIN pairs = 1 .. Len(pairs) /\ Len(pairs) \in Nat
      OBVIOUS
    <3> QED
      BY <3>1, FS_Interval
  <2> HIDE DEF f
  <2> QED
    BY <2>1, <2>2, FS_Surjection
<1>2. DOMAIN EmplaceAll(map, pairs) = DOMAIN map \cup KeysOf(pairs)
  BY Emplaces DEF EmplacedInto
<1> QED
  BY <1>1, <1>2, FS_Union

\* The line as Ask sees it.
LEMMA GivenTyped ==
  ASSUME LineInv
  PROVE  /\ given \in CommandLines /\ Len(given) \in Nat /\ DOMAIN given = 1 .. Len(given)
         /\ Consumed \in Nat /\ Consumed <= Len(given)
<1>1. given \in Seq(Args) /\ given \in CommandLines
  BY SessionAssumption DEF LineInv, Args
<1>2. Len(given) \in Nat /\ Consumed \in 0 .. Len(given)
  BY <1>1 DEF LineInv
<1> QED
  BY <1>1, <1>2

\* ... of a program.
LEMMA AskNow ==
  ASSUME LineInv
  PROVE  /\ Ask[-2] = added.before
         /\ Ask[-1] = DryRunPairs(FLAGS["benchmark_dry_run"])
         /\ Ask[0] = EnvironmentPairs(env)
         /\ \A s \in 1 .. Len(given) : Ask[s] = PairsOf(given[s])
         /\ Ask[Len(given) + 1] = added.after
<1>1. Len(given) \in Nat /\ DOMAIN given = 1 .. Len(given)
  BY GivenTyped
<1>2. AsksFor(Ask, given, env, FLAGS["benchmark_dry_run"], added.before, added.after)
  BY <1>1, AskValues DEF Ask
<1> QED
  BY <1>2 DEF AsksFor

\* Before Initialize nothing but the environment has asked for anything.
LEMMA ContextInitial ==
  Init => ContextInv
<1> SUFFICES ASSUME Init
             PROVE  ContextInv
  OBVIOUS
<1>1. LineInv /\ Consumed = 0
  <2>1. LineInv /\ pc = "start"
    BY LineInitial DEF Init
  <2> QED
    BY <2>1 DEF LineInv
<1>2. Len(given) \in Nat /\ DOMAIN given = 1 .. Len(given)
  BY <1>1, GivenTyped
<1>3. /\ added = [before |-> << >>, after |-> << >>] /\ env \in Environments /\ pc = "start"
      /\ global_context = NoPairs
      /\ FLAGS_benchmark_context = IF "benchmark_context" \in DOMAIN env
                                   THEN ParseKvPairs(env["benchmark_context"]) ELSE NoPairs
  BY DEF Init
<1>4. added.before = << >> /\ added.after = << >>
  BY <1>3
<1> DEFINE sets == "benchmark_context" \in DOMAIN env
                   /\ ParseKvPairs(env["benchmark_context"]) # NoPairs
           parts == KvPairs[env["benchmark_context"]]
<1>5. Ask[-2] = << >> /\ Ask[0] = IF sets THEN parts ELSE << >>
  <2>1. Ask[-2] = << >> /\ Ask[0] = EnvironmentPairs(env)
    BY <1>1, <1>4, AskNow
  <2> QED
    BY <2>1 DEF EnvironmentPairs
<1>6. sets => parts \in Seq(Seq(STRING)) /\ FLAGS_benchmark_context = EmplaceAll(NoPairs, parts)
  <2>1. ASSUME sets
        PROVE  parts \in Seq(Seq(STRING))
    <3>1. env["benchmark_context"] \in DOMAIN KvPairs
      BY <1>3, <2>1, SessionAssumption
    <3> QED
      BY <3>1, SessionAssumption
  <2>2. ASSUME sets
        PROVE  FLAGS_benchmark_context = EmplaceAll(NoPairs, parts)
    BY <1>3, <2>2 DEF ParseKvPairs
  <2> QED
    BY <2>1, <2>2
<1>7. ~sets => FLAGS_benchmark_context = NoPairs
  BY <1>3
<1> HIDE DEF sets, parts
<1>8. Function(NoPairs) /\ IsFiniteSet(DOMAIN NoPairs)
  <2>1. Function(NoPairs) /\ DOMAIN NoPairs = {}
    BY DEF Function, NoPairs
  <2> QED
    BY <2>1, FS_EmptySet
<1>9. IsFiniteSet(DOMAIN FLAGS_benchmark_context)
  BY <1>6, <1>7, <1>8, StaysFinite
<1>10. Holds(FLAGS_benchmark_context, Ask, 0, 0)
  <2>1. Holds(NoPairs, Ask, 0, 0 - 1) /\ 0 - 1 + 1 = 0
    BY NoSource
  <2>2. CASE sets
    <3>1. Ask[0 - 1 + 1] \in Seq(Seq(STRING))
      BY <1>5, <1>6, <2>2
    <3>2. Holds(EmplaceAll(NoPairs, Ask[0 - 1 + 1]), Ask, 0, 0 - 1 + 1)
      BY <2>1, <3>1, NextSource
    <3> QED
      BY <1>5, <1>6, <2>1, <2>2, <3>2
  <2>3. CASE ~sets
    <3>1. Ask[0 - 1 + 1] = << >>
      BY <1>5, <2>3
    <3>2. Holds(NoPairs, Ask, 0, 0 - 1 + 1)
      BY <2>1, <3>1, EmptySource
    <3> QED
      BY <1>7, <2>1, <2>3, <3>2
  <2> QED
    BY <2>2, <2>3
<1>11. Holds(NoPairs, Ask, -2, -2)
  <2>1. Holds(NoPairs, Ask, -2, -2 - 1) /\ -2 - 1 + 1 = -2
    BY NoSource
  <2>2. Ask[-2 - 1 + 1] = << >>
    BY <1>5
  <2>3. Holds(NoPairs, Ask, -2, -2 - 1 + 1)
    BY <2>1, <2>2, EmptySource
  <2> QED
    BY <2>1, <2>3
<1>12. << >> \in Seq(Contexts)
  OBVIOUS
<1> QED
  BY <1>1, <1>3, <1>4, <1>9, <1>10, <1>11, <1>12 DEF ContextInv

\* A pair added by the program is asked for after what its source asked for before, and
\* nothing else changes.
LEMMA AddedContext ==
  ASSUME LineInv, ContextInv, NEW pair \in Contexts, AddCustomContext(pair)
  PROVE  ContextInv'
<1>1. /\ given \in CommandLines /\ Len(given) \in Nat /\ DOMAIN given = 1 .. Len(given)
      /\ Consumed \in Nat /\ Consumed <= Len(given)
  BY GivenTyped
<1>2. /\ given' = given /\ env' = env /\ FLAGS' = FLAGS /\ pc' = pc
      /\ pc \in {"start", "initialized"}
      /\ FLAGS_benchmark_context' = FLAGS_benchmark_context
      /\ global_context' = Emplace(global_context, pair)
      /\ added' = IF pc = "start" THEN [added EXCEPT !.before = Append(@, pair)]
                  ELSE [added EXCEPT !.after = Append(@, pair)]
  BY DEF AddCustomContext, line
<1>3. /\ added = [before |-> added.before, after |-> added.after]
      /\ added.before \in Seq(Contexts) /\ added.after \in Seq(Contexts)
      /\ IsFiniteSet(DOMAIN FLAGS_benchmark_context)
      /\ Holds(FLAGS_benchmark_context, Ask, 0, Consumed)
      /\ pc = "start" => added.after = << >> /\ Holds(global_context, Ask, -2, -2)
      /\ pc = "initialized" => Holds(global_context, Ask, -2, Len(given) + 1)
  BY DEF ContextInv
<1>4. /\ Ask[-2] = added.before /\ Ask[Len(given) + 1] = added.after
      /\ Ask[-1] = DryRunPairs(FLAGS["benchmark_dry_run"])
      /\ Ask[0] = EnvironmentPairs(env)
      /\ \A s \in 1 .. Len(given) : Ask[s] = PairsOf(given[s])
  BY AskNow
<1> DEFINE later == AskIn(given, env, FLAGS["benchmark_dry_run"], added'.before, added'.after)
<1>5. Ask' = later /\ Consumed' = Consumed
  BY <1>2 DEF Ask, Consumed, AddCustomContext, line
<1>6. /\ later[-2] = added'.before /\ later[Len(given) + 1] = added'.after
      /\ \A s \in -1 .. Len(given) : later[s] = Ask[s]
  <2>1. AsksFor(later, given, env, FLAGS["benchmark_dry_run"], added'.before, added'.after)
    BY <1>1, AskValues
  <2>2. \A s \in -1 .. Len(given) : s = -1 \/ s = 0 \/ s \in 1 .. Len(given)
    BY <1>1
  <2> HIDE DEF later
  <2> QED
    BY <1>4, <2>1, <2>2 DEF AsksFor
<1> HIDE DEF later
<1>7. Holds(FLAGS_benchmark_context, later, 0, Consumed)
  <2>1. \A s \in 0 .. Consumed : s \in -1 .. Len(given)
    BY <1>1
  <2> QED
    BY <1>1, <1>3, <1>6, <2>1, SameSources
<1>8. CASE pc = "start"
  <2>1. /\ added'.before = Append(added.before, pair) /\ added'.after = added.after
        /\ added' = [before |-> added'.before, after |-> added'.after]
    BY <1>2, <1>3, <1>8
  <2>2. added'.before \in Seq(Contexts)
    BY <1>3, <2>1
  <2>3. Holds(global_context', later, -2, -2)
    <3>1. \A s \in -2 .. -2 - 1 : later[s] = Ask[s]
      OBVIOUS
    <3>2. later[-2] = Append(Ask[-2], pair) /\ Ask[-2] \in Seq(Contexts)
      BY <1>3, <1>4, <1>6, <2>1
    <3>3. Holds(global_context, Ask, -2, -2)
      BY <1>3, <1>8
    <3>4. Holds(Emplace(global_context, pair), later, -2, -2)
      BY <3>1, <3>2, <3>3, NextPair
    <3> QED
      BY <1>2, <3>4
  <2> QED
    BY <1>2, <1>3, <1>5, <1>7, <1>8, <2>1, <2>2, <2>3 DEF ContextInv
<1>9. CASE pc = "initialized"
  <2>1. /\ added'.before = added.before /\ added'.after = Append(added.after, pair)
        /\ added' = [before |-> added'.before, after |-> added'.after]
    BY <1>2, <1>3, <1>9
  <2>2. added'.after \in Seq(Contexts)
    BY <1>3, <2>1
  <2>3. Holds(global_context', later, -2, Len(given) + 1)
    <3> DEFINE hi == Len(given) + 1
    <3>1. \A s \in -2 .. hi - 1 : later[s] = Ask[s]
      <4>1. \A s \in -2 .. hi - 1 : s = -2 \/ s \in -1 .. Len(given)
        BY <1>1
      <4> QED
        BY <1>4, <1>6, <2>1, <4>1
    <3>2. later[hi] = Append(Ask[hi], pair) /\ Ask[hi] \in Seq(Contexts)
      BY <1>3, <1>4, <1>6, <2>1
    <3>3. Holds(global_context, Ask, -2, hi) /\ hi \in Int /\ -2 <= hi
      BY <1>1, <1>3, <1>9
    <3> HIDE DEF hi
    <3>4. Holds(Emplace(global_context, pair), later, -2, hi)
      BY <3>1, <3>2, <3>3, NextPair
    <3> QED
      BY <1>2, <3>4 DEF hi
  <2> QED
    BY <1>2, <1>3, <1>5, <1>7, <1>9, <2>1, <2>2, <2>3 DEF ContextInv
<1> QED
  BY <1>2, <1>8, <1>9

\* Where the program adds nothing: every source but the dry run is what it was.
LEMMA AskKept ==
  ASSUME LineInv, env' = env, given' = given, added' = added
  PROVE  /\ \A s \in 0 .. Len(given) + 1 : Ask'[s] = Ask[s]
         /\ Ask'[-2] = Ask[-2]
         /\ FLAGS' = FLAGS => Ask' = Ask
<1>1. /\ given \in CommandLines /\ Len(given) \in Nat /\ DOMAIN given = 1 .. Len(given)
  BY GivenTyped
<1> DEFINE later == AskIn(given, env, FLAGS'["benchmark_dry_run"], added.before, added.after)
<1>2. Ask' = later
  BY DEF Ask
<1>3. /\ Ask[-2] = added.before /\ Ask[Len(given) + 1] = added.after
      /\ Ask[0] = EnvironmentPairs(env)
      /\ \A s \in 1 .. Len(given) : Ask[s] = PairsOf(given[s])
  BY AskNow
<1>4. AsksFor(later, given, env, FLAGS'["benchmark_dry_run"], added.before, added.after)
  BY <1>1, AskValues
<1>5. FLAGS' = FLAGS => later = Ask
  BY DEF Ask
<1> HIDE DEF later
<1>6. \A s \in 0 .. Len(given) + 1 : s = 0 \/ s \in 1 .. Len(given) \/ s = Len(given) + 1
  BY <1>1
<1>7. \A s \in 0 .. Len(given) + 1 : later[s] = Ask[s]
  BY <1>3, <1>4, <1>6 DEF AsksFor
<1> QED
  BY <1>2, <1>3, <1>4, <1>5, <1>7 DEF AsksFor

\* The pairs of an argument are emplaced into those of the flag so far.
LEMMA FlaggedSoFar ==
  ASSUME LineInv, ContextInv, ParseArgument
  PROVE  ContextInv'
<1>1. /\ given \in CommandLines /\ Len(given) \in Nat /\ DOMAIN given = 1 .. Len(given)
      /\ Consumed \in Nat /\ Consumed + 1 \in DOMAIN given /\ argv[i] = given[Consumed + 1]
      /\ Consumed + 1 <= Len(given)
  BY GivenTyped, LooksAtNext
<1>2. Consumed' = Consumed + 1
  BY StaysShortened
<1> DEFINE n == Consumed
           pairs == PairsOf(given[n + 1])
<1>3. /\ given' = given /\ env' = env /\ added' = added /\ global_context' = global_context
      /\ FLAGS_benchmark_context' = EmplaceAll(FLAGS_benchmark_context, pairs)
      /\ pc = "parsing" /\ pc' \in {"parsing", "exited"}
  BY <1>1 DEF ParseArgument
<1>4. /\ added = [before |-> added.before, after |-> added.after]
      /\ added.before \in Seq(Contexts) /\ added.after \in Seq(Contexts)
      /\ IsFiniteSet(DOMAIN FLAGS_benchmark_context)
      /\ Holds(FLAGS_benchmark_context, Ask, 0, n)
      /\ added.after = << >> /\ Holds(global_context, Ask, -2, -2)
  BY <1>3 DEF ContextInv
<1>5. pairs \in Seq(Seq(STRING))
  BY <1>1, PairsTyped
<1>6. Ask[n + 1] = pairs
  <2>1. \A s \in 1 .. Len(given) : Ask[s] = PairsOf(given[s])
    BY AskNow
  <2> QED
    BY <1>1, <2>1
<1>7. (\A s \in 0 .. Len(given) + 1 : Ask'[s] = Ask[s]) /\ Ask'[-2] = Ask[-2]
  BY <1>3, AskKept
<1>8. IsFiniteSet(DOMAIN FLAGS_benchmark_context')
  <2>1. Function(FLAGS_benchmark_context)
    BY <1>4 DEF Holds
  <2> HIDE DEF pairs, n
  <2> QED
    BY <1>3, <1>4, <1>5, <2>1, StaysFinite
<1> HIDE DEF pairs, n
<1>9. n \in Nat /\ n + 1 <= Len(given)
  BY <1>1 DEF n
<1>10. Holds(FLAGS_benchmark_context', Ask', 0, n + 1)
  <2>1. Holds(EmplaceAll(FLAGS_benchmark_context, Ask[n + 1]), Ask, 0, n + 1)
    <3>1. n \in Int /\ 0 \in Int /\ 0 <= n + 1
      BY <1>9
    <3>2. Ask[n + 1] \in Seq(Seq(STRING)) /\ Holds(FLAGS_benchmark_context, Ask, 0, n)
      BY <1>4, <1>5, <1>6
    <3> QED
      BY <3>1, <3>2, NextSource, Zenon
  <2>2. \A s \in 0 .. n + 1 : Ask'[s] = Ask[s]
    BY <1>1, <1>7, <1>9
  <2>3. n + 1 \in Int
    BY <1>9
  <2>4. Holds(FLAGS_benchmark_context', Ask, 0, n + 1)
    BY <1>3, <1>6, <2>1
  <2> QED
    BY <2>2, <2>3, <2>4, SameSources
<1>11. Holds(global_context', Ask', -2, -2)
  <2>1. \A s \in -2 .. -2 : s = -2
    OBVIOUS
  <2> QED
    BY <1>3, <1>4, <1>7, <2>1, SameSources
<1> QED
  BY <1>2, <1>3, <1>4, <1>8, <1>10, <1>11 DEF ContextInv, n

\* At the end of Initialize the dry run and the pairs of the flag follow those that the
\* program has added.
LEMMA FlaggedFollows ==
  ASSUME LineInv, ContextInv, FinishFlags
  PROVE  ContextInv'
<1>1. /\ given \in CommandLines /\ Len(given) \in Nat /\ DOMAIN given = 1 .. Len(given)
  BY GivenTyped
<1>2. Consumed = Len(given)
  BY AllConsumed DEF FinishFlags
<1>3. /\ given' = given /\ env' = env /\ added' = added /\ line' = line /\ FLAGS' = FLAGS
      /\ FLAGS_benchmark_context' = FLAGS_benchmark_context /\ pc = "parsing"
      /\ pc' \in {"initialized", "exited"}
      /\ pc' = "initialized" => global_context' = FlaggedContext
  BY DEF FinishFlags, line
<1>4. Ask' = Ask /\ Consumed' = Consumed
  BY <1>3, AskKept DEF Consumed, line
<1>5. /\ added = [before |-> added.before, after |-> added.after]
      /\ added.before \in Seq(Contexts) /\ added.after \in Seq(Contexts)
      /\ IsFiniteSet(DOMAIN FLAGS_benchmark_context)
      /\ Holds(FLAGS_benchmark_context, Ask, 0, Len(given))
      /\ added.after = << >> /\ Holds(global_context, Ask, -2, -2)
  BY <1>2, <1>3 DEF ContextInv
<1> DEFINE dry == DryRunPairs(FLAGS["benchmark_dry_run"])
           program == EmplaceAll(global_context, dry)
<1>6. Ask[-1] = dry /\ Ask[Len(given) + 1] = << >>
  BY <1>5, AskNow
<1> DEFINE pair == <<"dry_run", "true">>
<1>7. dry \in Seq({pair})
  <2>1. dry = << pair >> \/ dry = << >>
    BY DEF DryRunPairs
  <2> HIDE DEF dry, pair
  <2>2. << pair >> \in Seq({pair}) /\ << >> \in Seq({pair})
    OBVIOUS
  <2> QED
    BY <2>1, <2>2
<1>8. FlaggedContext = EmplaceAll(program, SetToSeq(PairsIn(FLAGS_benchmark_context)))
  BY DEF FlaggedContext, PairsIn, DryRunPairs
<1> HIDE DEF dry, pair
<1>9. Holds(program, Ask, -2, -1)
  <2> DEFINE hi == -2
  <2>1. hi \in Int /\ -2 \in Int /\ -2 <= hi + 1 /\ hi + 1 = -1
    OBVIOUS
  <2>2. Holds(global_context, Ask, -2, hi)
    BY <1>5
  <2> HIDE DEF hi
  <2>3. Ask[hi + 1] \in Seq({pair}) /\ program = EmplaceAll(global_context, Ask[hi + 1])
    BY <1>6, <1>7, <2>1
  <2>4. Holds(EmplaceAll(global_context, Ask[hi + 1]), Ask, -2, hi + 1)
    BY <2>1, <2>2, <2>3, NextSource, Zenon
  <2> QED
    BY <2>1, <2>3, <2>4
<1> HIDE DEF program
<1>10. Holds(FlaggedContext, Ask, -2, Len(given))
  <2>1. /\ -2 <= -1 + 1 /\ -1 <= Len(given) /\ Len(given) \in Int /\ -1 + 1 = 0
    BY <1>1
  <2>2. Holds(FLAGS_benchmark_context, Ask, -1 + 1, Len(given))
    BY <1>5, <2>1
  <2>3. Holds(EmplaceAll(program, SetToSeq(PairsIn(FLAGS_benchmark_context))),
              Ask, -2, Len(given))
    BY <1>5, <1>9, <2>1, <2>2, Merged
  <2> QED
    BY <1>8, <2>3
<1>11. Holds(FlaggedContext, Ask, -2, Len(given) + 1)
  <2>1. -2 <= Len(given) + 1 /\ Len(given) \in Int
    BY <1>1
  <2> QED
    BY <1>6, <1>10, <2>1, EmptySource
<1> QED
  BY <1>2, <1>3, <1>4, <1>5, <1>11 DEF ContextInv

\* Where neither the context nor what was asked for changes.
LEMMA ContextStays ==
  ASSUME LineInv, ContextInv, env' = env, given' = given, line' = line, added' = added,
         pc' \in {"start", "parsing"} => pc \in {"start", "parsing"},
         pc' = "initialized" => pc = "initialized",
         pc' \in {"start", "parsing", "initialized"} => global_context' = global_context
  PROVE  ContextInv'
<1>1. Ask' = Ask /\ Consumed' = Consumed
  BY AskKept DEF line, Consumed
<1> QED
  BY <1>1 DEF ContextInv, line

\* Every step keeps the context's invariant.
LEMMA ContextInductive ==
  ASSUME LineInv, ContextInv, [Next]_vars
  PROVE  ContextInv'
<1>1. CASE \E pair \in Contexts : AddCustomContext(pair)
  BY <1>1, AddedContext
<1>2. CASE Initialize
  <2>1. /\ env' = env /\ given' = given /\ line' = line /\ added' = added
        /\ pc = "start" /\ pc' = "parsing" /\ global_context' = global_context
    BY <1>2 DEF Initialize
  <2> QED
    BY <2>1, ContextStays
<1>3. CASE ParseArgument
  BY <1>3, FlaggedSoFar
<1>4. CASE FinishFlags
  BY <1>4, FlaggedFollows
<1>5. CASE ReportUnrecognizedArguments
  <2>1. /\ env' = env /\ given' = given /\ line' = line /\ added' = added
        /\ pc' = "exited" /\ global_context' = global_context
    BY <1>5 DEF ReportUnrecognizedArguments
  <2> QED
    BY <2>1, ContextStays
<1>6. CASE \E uses_default, file_reporter \in BOOLEAN, spec \in Specs :
             RunSpecifiedBenchmarks(uses_default, file_reporter, spec)
  <2>1. /\ env' = env /\ given' = given /\ line' = line /\ added' = added
        /\ pc = "initialized" /\ pc' \in {"initialized", "exited"}
        /\ global_context' = global_context
    BY <1>6 DEF RunSpecifiedBenchmarks
  <2> QED
    BY <2>1, ContextStays
<1>7. CASE Shutdown
  <2>1. /\ env' = env /\ given' = given /\ line' = line /\ added' = added /\ pc' = "done"
    BY <1>7 DEF Shutdown
  <2> QED
    BY <2>1, ContextStays
<1>8. CASE UNCHANGED vars
  <2>1. /\ env' = env /\ given' = given /\ line' = line /\ added' = added /\ pc' = pc
        /\ global_context' = global_context
    BY <1>8 DEF vars
  <2> QED
    BY <2>1, ContextStays
<1> QED
  BY <1>1, <1>2, <1>3, <1>4, <1>5, <1>6, <1>7, <1>8 DEF Next

-----------------------------------------------------------------------------
(* What holds of every program.                                            *)

\* The line, the context and the rest hold together.
THEOREM SessionInductive ==
  Spec => []IInv
<1>1. Init => IInv
  BY LineInitial, StatusInductive, ContextInitial DEF IInv
<1>2. IInv /\ [Next]_vars => IInv'
  BY LineInductive, StatusInductive, ContextInductive DEF IInv
<1> QED
  BY <1>1, <1>2, PTL DEF Spec

\* What is left of argv is never longer than it was and the index stays on it, a reporter
\* is deleted only by a suite, and the default unit is one of the four.
THEOREM SessionTypeCorrect ==
  Spec => []TypeOK
<1>1. IInv => TypeOK
  <2> SUFFICES ASSUME IInv
               PROVE  TypeOK
    OBVIOUS
  <2>1. Len(argv) <= Len(given) /\ i \in 1 .. Len(argv) + 1
    <3>1. /\ Len(given) \in Nat /\ Consumed \in Nat /\ Consumed <= Len(given)
      BY GivenTyped DEF IInv
    <3>2. Len(argv) \in Nat /\ i \in Nat \ {0} /\ i = Cardinality(LeftOf(given, Consumed)) + 1
      BY DEF IInv, LineInv, Shortened
    <3>3. /\ Cardinality(LeftOf(given, Consumed)) <= Consumed
          /\ Cardinality(LeftOf(given, Consumed)) \in Nat
      <4>1. LeftOf(given, Consumed) \in SUBSET (1 .. Consumed)
        BY DEF LeftOf
      <4>2. IsFiniteSet(1 .. Consumed) /\ Cardinality(1 .. Consumed) = Consumed
        BY <3>1, FS_Interval
      <4> QED
        BY <4>1, <4>2, FS_Subset, FS_CardinalityType
    <3>4. Consumed = Len(given) - Len(argv) + i - 1
      BY DEF Consumed
    <3> QED
      BY <3>1, <3>2, <3>3, <3>4
  <2>2. FLAGS \in [Flags -> {FLAGS[f] : f \in Flags}]
    <3>1. FLAGS = [f \in Flags |-> TextAfter(given, env, f, Consumed)]
      BY DEF IInv, LineInv
    <3>2. DOMAIN FLAGS = Flags /\ FLAGS = [f \in Flags |-> FLAGS[f]]
      BY <3>1
    <3> QED
      BY <3>2
  <2> QED
    BY <2>1, <2>2 DEF IInv, StatusInv, TypeOK
<1> QED
  BY <1>1, SessionInductive, PTL

\* After Initialize the arguments that no flag took are left, in their order, and every
\* flag has the text of the last argument that it could take.
THEOREM ArgsParsedCorrect ==
  Spec => []ArgsParsed
<1>1. IInv => ArgsParsed
  <2> SUFFICES ASSUME LineInv, Parsed
               PROVE  /\ Len(argv) = Cardinality({a \in DOMAIN given : ~Recognized(given[a])})
                      /\ \A a \in {a \in DOMAIN given : ~Recognized(given[a])} :
                           argv[Cardinality({b \in {c \in DOMAIN given : ~Recognized(given[c])} :
                                               b <= a})] = given[a]
                      /\ \A f \in Flags : FLAGS[f] = LastText(f)
    BY DEF IInv, ArgsParsed
  <2>1. /\ Consumed = Len(given) /\ Len(given) \in Nat /\ DOMAIN given = 1 .. Len(given)
    BY GivenTyped DEF LineInv
  <2>2. {a \in DOMAIN given : ~Recognized(given[a])} = LeftOf(given, Consumed)
    BY <2>1 DEF LeftOf
  <2>3. Len(argv) = Cardinality(LeftOf(given, Consumed))
    <3>1. /\ Len(argv) \in Nat /\ i \in Nat /\ Consumed = Len(given) - Len(argv) + i - 1
          /\ i = Cardinality(LeftOf(given, Consumed)) + 1
      BY DEF LineInv, Shortened, Consumed
    <3>2. IsFiniteSet(LeftOf(given, Consumed)) /\ Cardinality(LeftOf(given, Consumed)) \in Nat
      BY <2>1, NextLeft
    <3> QED
      BY <2>1, <3>1, <3>2
  <2>4. \A a \in LeftOf(given, Consumed) :
          argv[Cardinality({b \in LeftOf(given, Consumed) : b <= a})] = given[a]
    BY DEF LineInv, Shortened, RankIn
  <2>5. ASSUME NEW f \in Flags
        PROVE  FLAGS[f] = LastText(f)
    <3>1. FLAGS[f] = TextAfter(given, env, f, Len(given))
      BY <2>1 DEF LineInv
    <3> QED
      BY <2>1, <3>1 DEF TextAfter, TextsFor, LastOf, LastText
  <2> QED
    BY <2>2, <2>3, <2>4, <2>5
<1> QED
  BY <1>1, SessionInductive, PTL

\* No key that anyone asked for is lost from the custom context, and its value is that of
\* the first to ask.
THEOREM ContextKeptCorrect ==
  Spec => []ContextKept
<1>1. IInv => ContextKept
  <2> SUFFICES ASSUME IInv, pc = "initialized"
               PROVE  /\ DOMAIN global_context = UNION {KeysOf(Asked(s)) : s \in Sources}
                      /\ \A s \in Sources : \A k \in KeysOf(Asked(s)) :
                           (\A r \in -2 .. s - 1 : k \notin KeysOf(Asked(r)))
                             => global_context[k] = ValueOf(Asked(s), k)
    BY DEF ContextKept
  <2>1. Holds(global_context, Ask, -2, Len(given) + 1)
    BY DEF IInv, ContextInv
  <2>2. Ask = [s \in Sources |-> Asked(s)]
    BY DEF Ask, AskIn, Asked, Sources, DryRunPairs, EnvironmentPairs
  <2>3. \A s \in Sources : Ask[s] = Asked(s)
    BY <2>2
  <2>4. Sources = -2 .. Len(given) + 1 /\ Len(given) \in Nat
    BY GivenTyped DEF Sources, IInv
  <2>5. DOMAIN global_context = UNION {KeysOf(Asked(s)) : s \in Sources}
    <3>1. \A k : k \in DOMAIN global_context <=> \E s \in Sources : k \in KeysOf(Asked(s))
      BY <2>1, <2>3, <2>4 DEF Holds
    <3> QED
      BY <3>1, Zenon
  <2>6. ASSUME NEW s \in Sources, NEW k \in KeysOf(Asked(s)),
               \A r \in -2 .. s - 1 : k \notin KeysOf(Asked(r))
        PROVE  global_context[k] = ValueOf(Asked(s), k)
    <3>1. \A r \in -2 .. s - 1 : r \in Sources
      BY <2>4
    <3>2. \A r \in -2 .. s - 1 : k \notin KeysOf(Ask[r])
      BY <2>3, <2>6, <3>1
    <3>3. Ask[s] = Asked(s)
      BY <2>3
    <3> QED
      BY <2>1, <2>4, <3>2, <3>3 DEF Holds
  <2> QED
    BY <2>5, <2>6
<1> QED
  BY <1>1, SessionInductive, PTL
=============================================================================
