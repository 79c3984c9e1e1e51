---------------------------- MODULE ReportingProofs ----------------------------
(***************************************************************************)
(* What the reporters write, for every set of counters, results of the     *)
(* repetitions, reporter and number of suites: a row of the CSV or of the  *)
(* tabular format stands under the header that names its cells.            *)
(*                                                                         *)
(* Which runs are kept and which names a header has are enumerations of a  *)
(* finite set of positions, so the first part is about those.              *)
(***************************************************************************)
EXTENDS Reporting, FiniteSetTheorems, WellFoundedInduction, TLAPS

\* Both parts of a run that a reporter relies on.
RunOK(run) == DOMAIN run.counters \subseteq Names /\ run.skipped \in BOOLEAN

RunsOK(runs) == IsSeq(runs) /\ \A i \in DOMAIN runs : RunOK(runs[i])

Fields ==
  {"kind", "printed_header_", "prev_counters_", "user_counter_names_", "failed", "lines"}

\* A row with a cell for each of the names, and, unless some were missed, with all that
\* is its own.
RowFits(line, names, mine, missed) ==
  /\ line.kind = "row"
  /\ line.run.skipped \/
       /\ Len(line.cells) = Len(Ordered(names))
       /\ \A j \in DOMAIN Ordered(names) :
            line.cells[j] = IF Ordered(names)[j] \in mine
                              THEN line.run.counters[Ordered(names)[j]] ELSE Empty
       /\ mine \subseteq names \/ missed

\* The CSV has one header, above everything.
CsvLines(rep, build) ==
  /\ rep.printed_header_ <=> rep.lines # << >>
  /\ rep.user_counter_names_ \cap FixedCounters = {}
  /\ rep.printed_header_ => rep.lines[1] = Header(Ordered(rep.user_counter_names_))
  /\ \A i \in DOMAIN rep.lines : i > 1 =>
       RowFits(rep.lines[i], rep.user_counter_names_, UserCounters(rep.lines[i].run), ~build)

\* From line h, a header with these names, to line i there are only rows.
Under(lines, h, i, names) ==
  /\ lines[h] = Header(Ordered(names))
  /\ \A j \in h + 1 .. i : lines[j].kind = "row"

\* In the tabular format the last header has the counters of the last run.
TabularLines(rep) ==
  /\ \A i \in DOMAIN rep.lines : rep.lines[i].kind = "row" =>
       \E h \in 1 .. i - 1 : \E names \in SUBSET Names :
          /\ Under(rep.lines, h, i, names)
          /\ RowFits(rep.lines[i], names, DOMAIN rep.lines[i].run.counters, FALSE)
  /\ rep.printed_header_ =>
       \E h \in DOMAIN rep.lines : Under(rep.lines, h, Len(rep.lines), rep.prev_counters_)

RepInv(rep, build) ==
  /\ DOMAIN rep = Fields
  /\ rep.kind \in Kinds /\ {rep.printed_header_, rep.failed} \subseteq BOOLEAN
  /\ rep.user_counter_names_ \subseteq Names /\ rep.prev_counters_ \subseteq Names
  /\ rep.failed => build /\ rep.kind = "csv"
  /\ IsSeq(rep.lines)
  /\ rep.kind = "csv" => CsvLines(rep, build)
  /\ rep.kind = "tabular" => TabularLines(rep)

ReportingInv ==
  /\ {checks, aborted} \subseteq BOOLEAN
  /\ family \in [complexity : Complexities, manual : BOOLEAN, unit : DOMAIN TimeUnits]
  /\ suite \in 0 .. MaxSuites /\ reports \in 0 .. MaxReports
  /\ RunsOK(per_family_reports)
  /\ \A i \in DOMAIN per_family_reports : ~per_family_reports[i].skipped
  /\ RepInv(reporter, checks)
  /\ reporter.failed => aborted

-----------------------------------------------------------------------------
(* Enumerations.                                                           *)

\* A set of numbers that is not empty has a smallest element.
LEMMA SmallestNumber ==
  ASSUME NEW Bad \in SUBSET Nat, Bad # {}
  PROVE  \E n \in Bad : \A m \in Bad : n <= m
<1> DEFINE less == OpToRel(<, Nat)
<1>1. IsWellFoundedOn(less, Nat)
  BY NatLessThanWellFounded
<1>2. \A n, m \in Nat : m < n => <<m, n>> \in less
  BY DEF OpToRel
<1>3. Bad \subseteq Nat /\ \A n \in Bad : n \in Nat
  OBVIOUS
<1> HIDE DEF less
<1>4. PICK n \in Bad : \A m \in Bad : ~(<<m, n>> \in less)
  BY <1>1, <1>3, WFMin
<1>5. \A m \in Bad : n \in Nat /\ m \in Nat /\ ~(m < n)
  BY <1>2, <1>3, <1>4
<1> QED
  BY <1>5

\* How many positions of a set are before one.
Before(places, i) == Cardinality({j \in places : j < i})

\* A part of a finite range of positions is finite.
LEMMA PlacesFinite ==
  ASSUME NEW n \in Nat, NEW places \in SUBSET (1 .. n)
  PROVE  /\ IsFiniteSet(places) /\ Cardinality(places) \in Nat
         /\ \A i : Before(places, i) \in Nat /\ IsFiniteSet({j \in places : j < i})
<1>1. IsFiniteSet(places)
  <2>1. 1 \in Int /\ n \in Int
    OBVIOUS
  <2>2. IsFiniteSet(1 .. n)
    BY <2>1, FS_Interval
  <2> QED
    BY <2>2, FS_Subset
<1>2. ASSUME NEW i
      PROVE  IsFiniteSet({j \in places : j < i})
  <2> DEFINE before == {j \in places : j < i}
  <2>1. before \in SUBSET places
    OBVIOUS
  <2> HIDE DEF before
  <2>2. IsFiniteSet(before)
    BY <1>1, <2>1, FS_Subset
  <2> QED
    BY <2>2 DEF before
<1> QED
  BY <1>1, <1>2, FS_CardinalityType DEF Before

\* Every number of elements but the whole is before some element.
LEMMA Enumerated ==
  \A n \in Nat : \A places \in SUBSET (1 .. n) : \A k \in 1 .. Cardinality(places) :
    \E i \in places : Before(places, i) = k - 1
<1> DEFINE Good(n) == \A places \in SUBSET (1 .. n) : \A k \in 1 .. Cardinality(places) :
                        \E i \in places : Before(places, i) = k - 1
           Bad == {n \in Nat : ~Good(n)}
<1> SUFFICES ASSUME Bad # {}
             PROVE  FALSE
  OBVIOUS
<1>1. PICK n \in Bad : \A m \in Bad : n <= m
  <2> HIDE DEF Bad
  <2>1. Bad \in SUBSET Nat
    BY DEF Bad
  <2> QED
    BY <2>1, SmallestNumber
<1>2. n \in Nat /\ ~Good(n)
  BY <1>1
<1>3. n > 0 => Good(n - 1)
  <2> HIDE DEF Good
  <2> SUFFICES ASSUME n > 0, ~Good(n - 1)
               PROVE  FALSE
    OBVIOUS
  <2>1. n - 1 \in Nat /\ ~(n <= n - 1)
    BY <1>2
  <2>2. n - 1 \in Bad
    BY <2>1
  <2> QED
    BY <1>1, <2>1, <2>2
<1> HIDE DEF Bad
<1> PICK places \in SUBSET (1 .. n) :
      \E k \in 1 .. Cardinality(places) : \A i \in places : Before(places, i) # k - 1
  BY <1>2
<1>4. PICK k \in 1 .. Cardinality(places) : \A i \in places : Before(places, i) # k - 1
  OBVIOUS
<1>5. n > 0
  <2> SUFFICES ASSUME n = 0
               PROVE  FALSE
    BY <1>2
  <2>1. places = {}
    BY <1>4
  <2> QED
    BY <1>4, <2>1, FS_EmptySet
<1> DEFINE fewer == places \ {n}
<1>6. fewer \in SUBSET (1 .. n - 1)
  BY <1>2, <1>4
<1>7. /\ IsFiniteSet(places) /\ IsFiniteSet(fewer)
      /\ Cardinality(places) \in Nat /\ Cardinality(fewer) \in Nat
  BY <1>2, <1>4, <1>5, <1>6, PlacesFinite
<1>8. \A i \in fewer : Before(fewer, i) = Before(places, i)
  <2> SUFFICES ASSUME NEW i \in fewer
               PROVE  {j \in fewer : j < i} = {j \in places : j < i}
    BY DEF Before
  <2>1. i \in Nat /\ i <= n
    BY <1>2, <1>4
  <2> QED
    BY <1>2, <1>4, <2>1
<1>9. \A i \in 1 .. Cardinality(fewer) : \E j \in fewer : Before(fewer, j) = i - 1
  BY <1>3, <1>5, <1>6
<1>10. CASE n \notin places
  <2>1. fewer = places
    BY <1>10
  <2> QED
    BY <1>4, <1>9, <2>1
<1>11. CASE n \in places
  <2>1. Cardinality(fewer) = Cardinality(places) - 1
    BY <1>7, <1>11, FS_RemoveElement
  <2>2. CASE k <= Cardinality(fewer)
    <3>1. PICK i \in fewer : Before(fewer, i) = k - 1
      BY <1>4, <1>7, <1>9, <2>2
    <3> QED
      BY <1>4, <1>8, <3>1
  <2>3. CASE ~(k <= Cardinality(fewer))
    <3>1. k - 1 = Cardinality(fewer)
      BY <1>4, <1>7, <2>1, <2>3
    <3>2. {j \in places : j < n} = fewer
      <4>1. \A j \in places : j \in 1 .. n
        OBVIOUS
      <4>2. \A j \in 1 .. n : j < n <=> j # n
        BY <1>2
      <4> QED
        BY <4>1, <4>2
    <3> QED
      BY <1>4, <1>11, <3>1, <3>2 DEF Before
  <2> QED
    BY <2>2, <2>3
<1> QED
  BY <1>10, <1>11

\* A later position has more before it.
LEMMA BeforeGrows ==
  ASSUME NEW n \in Nat, NEW places \in SUBSET (1 .. n), NEW i \in places, NEW m \in places,
         i < m
  PROVE  Before(places, i) < Before(places, m)
<1> DEFINE low == {j \in places : j < i}
           high == {j \in places : j < m}
<1>1. low \cup {i} \in SUBSET high /\ i \notin low
  <2>1. i \in Nat /\ m \in Nat /\ \A j \in places : j \in Nat
    OBVIOUS
  <2>2. \A j \in low \cup {i} : j \in places /\ j < m
    BY <2>1
  <2>3. ~(i < i)
    BY <2>1
  <2> QED
    BY <2>2, <2>3
<1>2. IsFiniteSet(low) /\ IsFiniteSet(high) /\ Cardinality(low) \in Nat
      /\ Cardinality(high) \in Nat
  BY PlacesFinite DEF Before
<1> HIDE DEF low, high
<1>3. Cardinality(low \cup {i}) = Cardinality(low) + 1
  BY <1>1, <1>2, FS_AddElement
<1>4. Cardinality(low \cup {i}) <= Cardinality(high)
  BY <1>1, <1>2, FS_Subset
<1>5. Cardinality(low) < Cardinality(high)
  BY <1>2, <1>3, <1>4
<1> QED
  BY <1>5 DEF Before, low, high

\* Nth enumerates a set of positions.
LEMMA NthFacts ==
  ASSUME NEW n \in Nat, NEW places \in SUBSET (1 .. n)
  PROVE  /\ Cardinality(places) \in Nat
         /\ \A k \in 1 .. Cardinality(places) : Nth(places, k) \in places
         /\ \A i \in places : \E k \in 1 .. Cardinality(places) : Nth(places, k) = i
<1>1. IsFiniteSet(places) /\ Cardinality(places) \in Nat
      /\ \A i : Before(places, i) \in Nat
  BY PlacesFinite
<1>2. ASSUME NEW k \in 1 .. Cardinality(places)
      PROVE  Nth(places, k) \in places /\ Before(places, Nth(places, k)) = k - 1
  <2>1. \E i \in places : Before(places, i) = k - 1
    BY <1>2, Enumerated
  <2> QED
    BY <2>1 DEF Nth, Before
<1>3. ASSUME NEW i \in places
      PROVE  \E k \in 1 .. Cardinality(places) : Nth(places, k) = i
  <2> DEFINE before == {j \in places : j < i}
             k == Before(places, i) + 1
  <2>1. before \cup {i} \in SUBSET places /\ i \notin before
    OBVIOUS
  <2>2. IsFiniteSet(before) /\ Cardinality(before) = Before(places, i)
    BY PlacesFinite DEF Before
  <2> HIDE DEF before
  <2>3. Before(places, i) + 1 <= Cardinality(places)
    <3>1. Cardinality(before \cup {i}) = Cardinality(before) + 1
      BY <2>1, <2>2, FS_AddElement
    <3> QED
      BY <1>1, <2>1, <2>2, <3>1, FS_Subset
  <2>4. k \in 1 .. Cardinality(places) /\ k - 1 = Before(places, i)
    BY <1>1, <2>3
  <2> HIDE DEF k
  <2>5. Nth(places, k) \in places /\ Before(places, Nth(places, k)) = Before(places, i)
    BY <1>2, <2>4
  <2>6. ~(Nth(places, k) < i) /\ ~(i < Nth(places, k))
    <3> DEFINE m == Nth(places, k)
    <3> HIDE DEF m
    <3>1. m \in places /\ Before(places, m) = Before(places, i)
      BY <2>5 DEF m
    <3>2. Before(places, i) \in Nat /\ ~(Before(places, i) < Before(places, i))
      BY <1>1
    <3>3. ~(m < i)
      <4> SUFFICES ASSUME m < i
                   PROVE  Before(places, m) < Before(places, i)
        BY <3>1, <3>2, Zenon
      <4> QED
        BY <3>1, BeforeGrows, ZenonT(60)
    <3>4. ~(i < m)
      <4> SUFFICES ASSUME i < m
                   PROVE  Before(places, i) < Before(places, m)
        BY <3>1, <3>2, Zenon
      <4> QED
        BY <3>1, BeforeGrows, ZenonT(60)
    <3> QED
      BY <3>3, <3>4 DEF m
  <2>7. Nth(places, k) = i
    <3>1. \A j \in places : j \in Nat
      OBVIOUS
    <3>2. Nth(places, k) \in Nat /\ i \in Nat
      BY <2>5, <3>1, Zenon
    <3> QED
      BY <2>6, <3>2
  <2> QED
    BY <2>4, <2>7
<1> QED
  BY <1>1, <1>2, <1>3

-----------------------------------------------------------------------------
(* Sequences.                                                              *)

\* What a sequence is, for a sequence of anything.
LEMMA SeqFacts ==
  ASSUME NEW s, IsSeq(s)
  PROVE  /\ Len(s) \in Nat /\ DOMAIN s = 1 .. Len(s)
         /\ s = << >> <=> Len(s) = 0
         /\ \A S : (\A k \in DOMAIN s : s[k] \in S) => s \in Seq(S)
<1>1. s \in Seq({s[k] : k \in DOMAIN s})
  BY DEF IsSeq
<1>2. Len(s) \in Nat /\ DOMAIN s = 1 .. Len(s) /\ (s = << >> <=> Len(s) = 0)
  BY <1>1
<1>3. ASSUME NEW S, \A k \in DOMAIN s : s[k] \in S
      PROVE  s \in Seq(S)
  <2>1. s \in [1 .. Len(s) -> S]
    BY <1>1, <1>2, <1>3
  <2> QED
    BY <1>2, <2>1
<1> QED
  BY <1>2, <1>3

\* A function on the numbers up to n is a sequence.
LEMMA SeqOfFunction ==
  ASSUME NEW s, NEW n \in Nat, NEW S, s \in [1 .. n -> S]
  PROVE  IsSeq(s) /\ Len(s) = n /\ DOMAIN s = 1 .. n
<1>1. Len(s) = n /\ DOMAIN s = 1 .. n
  OBVIOUS
<1>2. s \in [1 .. n -> {s[k] : k \in DOMAIN s}]
  BY <1>1
<1>3. s \in Seq({s[k] : k \in DOMAIN s})
  BY <1>2
<1> QED
  BY <1>1, <1>3 DEF IsSeq

\* The elements of a sequence that consists of two others.
Joins(both, s, t) ==
  /\ IsSeq(both) /\ Len(both) = Len(s) + Len(t)
  /\ \A k \in 1 .. Len(s) : k \in DOMAIN both /\ both[k] = s[k]
  /\ \A k \in 1 .. Len(t) : Len(s) + k \in DOMAIN both /\ both[Len(s) + k] = t[k]
  /\ \A k \in DOMAIN both :
       \/ k \in DOMAIN s /\ both[k] = s[k]
       \/ k - Len(s) \in DOMAIN t /\ both[k] = t[k - Len(s)] /\ k > Len(s)

\* One sequence behind another.
LEMMA Concatenated ==
  ASSUME NEW s, NEW t, IsSeq(s), IsSeq(t)
  PROVE  Joins(s \o t, s, t)
<1> DEFINE both == s \o t
           S == {s[k] : k \in DOMAIN s} \cup {t[k] : k \in DOMAIN t}
<1>1. /\ Len(s) \in Nat /\ DOMAIN s = 1 .. Len(s)
      /\ Len(t) \in Nat /\ DOMAIN t = 1 .. Len(t)
  BY SeqFacts
<1>2. s \in Seq(S) /\ t \in Seq(S)
  <2> HIDE DEF S
  <2>1. (\A k \in DOMAIN s : s[k] \in S) /\ (\A k \in DOMAIN t : t[k] \in S)
    BY DEF S
  <2> QED
    BY <2>1, SeqFacts
<1> HIDE DEF S
<1>3. /\ both \in Seq(S) /\ Len(both) = Len(s) + Len(t)
      /\ \A k \in 1 .. Len(both) : both[k] = IF k <= Len(s) THEN s[k] ELSE t[k - Len(s)]
  BY <1>2
<1> HIDE DEF both
<1>4. both \in [1 .. Len(both) -> S] /\ Len(both) \in Nat
  BY <1>1, <1>3
<1>5. IsSeq(both) /\ DOMAIN both = 1 .. Len(both)
  BY <1>4, SeqOfFunction
<1>6. \A k \in 1 .. Len(s) : k \in DOMAIN both /\ both[k] = s[k]
  BY <1>1, <1>3, <1>5
<1>7. \A k \in 1 .. Len(t) : Len(s) + k \in DOMAIN both /\ both[Len(s) + k] = t[k]
  BY <1>1, <1>3, <1>5
<1>8. \A k \in DOMAIN both : \/ k \in DOMAIN s /\ both[k] = s[k]
                             \/ /\ k - Len(s) \in DOMAIN t /\ both[k] = t[k - Len(s)]
                                /\ k > Len(s)
  BY <1>1, <1>3, <1>5
<1> QED
  BY <1>3, <1>5, <1>6, <1>7, <1>8 DEF both, Joins

\* What a sequence has at some of its positions.
LEMMA AtFacts ==
  ASSUME NEW s, IsSeq(s), NEW places \in SUBSET DOMAIN s
  PROVE  /\ IsSeq(At(s, places)) /\ Len(At(s, places)) = Cardinality(places)
         /\ Cardinality(places) \in Nat
         /\ DOMAIN At(s, places) = 1 .. Cardinality(places)
         /\ \A k \in DOMAIN At(s, places) : \E i \in places : At(s, places)[k] = s[i]
         /\ \A i \in places : \E k \in DOMAIN At(s, places) : At(s, places)[k] = s[i]
<1> DEFINE at == At(s, places)
           n == Cardinality(places)
<1>1. Len(s) \in Nat /\ places \in SUBSET (1 .. Len(s))
  BY SeqFacts
<1>2. /\ n \in Nat
      /\ \A k \in 1 .. n : Nth(places, k) \in places
      /\ \A i \in places : \E k \in 1 .. n : Nth(places, k) = i
  BY <1>1, NthFacts
<1> HIDE DEF n
<1>3. at = [k \in 1 .. n |-> s[Nth(places, k)]]
  BY DEF At, n
<1>4. at \in [1 .. n -> {s[i] : i \in places}]
  BY <1>2, <1>3
<1>5. IsSeq(at) /\ Len(at) = n /\ DOMAIN at = 1 .. n
  BY <1>2, <1>4, SeqOfFunction
<1>6. \A k \in 1 .. n : at[k] = s[Nth(places, k)]
  BY <1>3
<1> HIDE DEF at
<1> QED
  BY <1>2, <1>5, <1>6 DEF at, n

\* Ordered lists a set of names, each once.
LEMMA OrderedFacts ==
  ASSUME NEW names \in SUBSET Names
  PROVE  /\ Cardinality(names) \in Nat /\ Len(Ordered(names)) = Cardinality(names)
         /\ DOMAIN Ordered(names) = 1 .. Cardinality(names)
         /\ {Ordered(names)[j] : j \in DOMAIN Ordered(names)} = names
<1> DEFINE places == {i \in DOMAIN CounterNames : CounterNames[i] \in names}
           f == [i \in places |-> CounterNames[i]]
<1>1. /\ IsSeq(CounterNames)
      /\ \A i, j \in DOMAIN CounterNames : CounterNames[i] = CounterNames[j] => i = j
  <2>1. CounterNames \in Seq(STRING)
    BY ReportingAssumption
  <2>2. CounterNames \in [1 .. Len(CounterNames) -> STRING] /\ Len(CounterNames) \in Nat
    BY <2>1
  <2> QED
    BY <2>2, SeqOfFunction, ReportingAssumption
<1>2. f \in Bijection(places, names)
  <2>1. \A i \in places : CounterNames[i] \in names
    OBVIOUS
  <2>2. \A c \in names : \E i \in places : CounterNames[i] = c
    BY DEF Names
  <2>3. \A i, j \in places : CounterNames[i] = CounterNames[j] => i = j
    BY <1>1
  <2> HIDE DEF places
  <2>4. f \in [places -> names] /\ \A i \in places : f[i] = CounterNames[i]
    BY <2>1
  <2> HIDE DEF f
  <2> QED
    BY <2>2, <2>3, <2>4 DEF Bijection, Injection, Surjection, IsInjective
<1>3. IsFiniteSet(places) /\ Cardinality(places) \in Nat
  <2>1. Len(CounterNames) \in Nat /\ places \in SUBSET (1 .. Len(CounterNames))
    BY <1>1, SeqFacts
  <2> HIDE DEF places
  <2> QED
    BY <2>1, PlacesFinite
<1>4. places \in SUBSET DOMAIN CounterNames /\ Ordered(names) = At(CounterNames, places)
  BY DEF Ordered
<1>5. (\A i \in places : CounterNames[i] \in names)
      /\ \A c \in names : \E i \in places : CounterNames[i] = c
  BY DEF Names
<1> HIDE DEF places, f
<1>6. Cardinality(places) = Cardinality(names)
  <2>1. ExistsBijection(places, names)
    BY <1>2 DEF ExistsBijection
  <2> QED
    BY <1>3, <2>1, FS_Bijection
<1>7. /\ Len(Ordered(names)) = Cardinality(places)
      /\ DOMAIN Ordered(names) = 1 .. Cardinality(places)
      /\ \A k \in DOMAIN Ordered(names) : \E i \in places : Ordered(names)[k] = CounterNames[i]
      /\ \A i \in places : \E k \in DOMAIN Ordered(names) : Ordered(names)[k] = CounterNames[i]
  BY <1>1, <1>4, AtFacts
<1>8. {Ordered(names)[j] : j \in DOMAIN Ordered(names)} = names
  BY <1>5, <1>7
<1> QED
  BY <1>3, <1>6, <1>7, <1>8

-----------------------------------------------------------------------------
(* The runs that are reported.                                             *)

\* CountersOf goes through the threads: its recursion defines a function.
LEMMA MergedExists ==
  ASSUME NEW counters
  PROVE  \A n \in Nat :
           \E f : f = [t \in 0 .. n |-> IF t = 0 THEN NoCounters
                                         ELSE Increment(f[t - 1], counters[t])]
<1> DEFINE Good(n) == \E f : f = [t \in 0 .. n |-> IF t = 0 THEN NoCounters
                                                    ELSE Increment(f[t - 1], counters[t])]
           Bad == {n \in Nat : ~Good(n)}
<1> HIDE DEF Good
<1> SUFFICES ASSUME Bad # {}
             PROVE  FALSE
  BY DEF Good
<1>1. PICK n \in Bad : \A m \in Bad : n <= m
  <2> HIDE DEF Bad
  <2>1. Bad \in SUBSET Nat
    BY DEF Bad
  <2> QED
    BY <2>1, SmallestNumber
<1>2. n \in Nat /\ ~Good(n)
  BY <1>1
<1>3. n > 0
  <2> SUFFICES Good(0)
    BY <1>2
  <2> DEFINE f == [t \in 0 .. 0 |-> NoCounters]
  <2>1. f = [t \in 0 .. 0 |-> IF t = 0 THEN NoCounters
                               ELSE Increment(f[t - 1], counters[t])]
    <3>1. \A t \in 0 .. 0 : t = 0
      OBVIOUS
    <3> QED
      BY <3>1, Zenon
  <2> QED
    BY <2>1 DEF Good
<1>4. Good(n - 1)
  <2>1. n - 1 \in Nat /\ ~(n <= n - 1)
    BY <1>2, <1>3
  <2> QED
    BY <1>1, <2>1
<1>5. PICK g : g = [t \in 0 .. n - 1 |-> IF t = 0 THEN NoCounters
                                          ELSE Increment(g[t - 1], counters[t])]
  BY <1>4 DEF Good
<1> DEFINE f == [t \in 0 .. n |-> IF t = n THEN Increment(g[n - 1], counters[n]) ELSE g[t]]
<1>6. ASSUME NEW t \in 0 .. n
      PROVE  f[t] = IF t = 0 THEN NoCounters ELSE Increment(f[t - 1], counters[t])
  <2>1. f[t] = IF t = n THEN Increment(g[n - 1], counters[n]) ELSE g[t]
    OBVIOUS
  <2>2. t # 0 => f[t - 1] = g[t - 1]
    <3>1. t # 0 => t - 1 \in 0 .. n /\ t - 1 # n
      BY <1>2
    <3> QED
      BY <3>1
  <2>3. t # n => t \in 0 .. n - 1
    BY <1>2
  <2>4. t # n => g[t] = IF t = 0 THEN NoCounters ELSE Increment(g[t - 1], counters[t])
    BY <1>5, <2>3, Zenon
  <2>5. t = n => t # 0
    BY <1>2, <1>3
  <2> HIDE DEF f
  <2>6. CASE t = n
    <3>1. f[t] = Increment(g[t - 1], counters[t])
      BY <2>1, <2>6, Zenon
    <3> QED
      BY <2>2, <2>5, <2>6, <3>1, Zenon
  <2>7. CASE t # n
    <3>1. f[t] = IF t = 0 THEN NoCounters ELSE Increment(g[t - 1], counters[t])
      BY <2>1, <2>4, <2>7, Zenon
    <3> QED
      BY <2>2, <3>1, Zenon
  <2> QED
    BY <2>6, <2>7
<1>7. f = [t \in 0 .. n |-> IF t = 0 THEN NoCounters
                             ELSE Increment(f[t - 1], counters[t])]
  <2>1. f = [t \in 0 .. n |-> f[t]]
    OBVIOUS
  <2> HIDE DEF f
  <2> QED
    BY <1>6, <2>1, Zenon
<1> QED
  BY <1>2, <1>7 DEF Good

\* What an instance may yield.
InstanceOK(instance) ==
  /\ IsSeq(instance.repetitions)
  /\ \A r \in DOMAIN instance.repetitions :
       LET result == instance.repetitions[r]
       IN  /\ result.skipped \in BOOLEAN
           /\ Len(result.counters) \in Nat
           /\ \A t \in 1 .. Len(result.counters) : DOMAIN result.counters[t] \subseteq Names

\* Merging adds no names.
LEMMA CountersTyped ==
  ASSUME NEW result, Len(result.counters) \in Nat,
         \A t \in 1 .. Len(result.counters) : DOMAIN result.counters[t] \subseteq Names
  PROVE  DOMAIN CountersOf(result) \subseteq Names
<1> DEFINE N == Len(result.counters)
           merged == CHOOSE f : f = [t \in 0 .. N |-> IF t = 0 THEN NoCounters
                                      ELSE Increment(f[t - 1], result.counters[t])]
<1>1. CountersOf(result) = merged[N]
  BY DEF CountersOf
<1>2. merged = [t \in 0 .. N |-> IF t = 0 THEN NoCounters
                                  ELSE Increment(merged[t - 1], result.counters[t])]
  BY MergedExists, Zenon
<1> HIDE DEF merged
<1>3. \A t \in 0 .. N : merged[t] = IF t = 0 THEN NoCounters
                                     ELSE Increment(merged[t - 1], result.counters[t])
  BY <1>2, Zenon
<1> DEFINE Bad == {t \in 0 .. N : ~(DOMAIN merged[t] \subseteq Names)}
<1>4. Bad = {}
  <2> SUFFICES ASSUME Bad # {}
               PROVE  FALSE
    OBVIOUS
  <2>1. Bad \in SUBSET Nat
    OBVIOUS
  <2> HIDE DEF Bad
  <2>2. PICK t \in Bad : \A m \in Bad : t <= m
    BY <2>1, SmallestNumber
  <2>3. t \in 0 .. N /\ t \in Nat /\ ~(DOMAIN merged[t] \subseteq Names)
    BY <2>2 DEF Bad
  <2>4. CASE t = 0
    <3>1. merged[t] = NoCounters
      BY <1>3, <2>3, <2>4
    <3> QED
      BY <2>3, <3>1 DEF NoCounters
  <2>5. CASE t # 0
    <3>1. t - 1 \in 0 .. N /\ ~(t <= t - 1) /\ t \in 1 .. N
      BY <2>3, <2>5
    <3>2. DOMAIN merged[t - 1] \subseteq Names
      BY <2>2, <3>1 DEF Bad
    <3>3. merged[t] = Increment(merged[t - 1], result.counters[t])
      BY <1>3, <2>3, <2>5
    <3>4. DOMAIN merged[t] = DOMAIN merged[t - 1] \cup DOMAIN result.counters[t]
      BY <3>3 DEF Increment
    <3> QED
      BY <2>3, <3>1, <3>2, <3>4
  <2> QED
    BY <2>4, <2>5
<1>5. N \in 0 .. N
  OBVIOUS
<1> QED
  BY <1>1, <1>4, <1>5

\* The reports of an instance, one for each repetition.
LEMMA ReportsTyped ==
  ASSUME NEW instance, InstanceOK(instance)
  PROVE  RunsOK(CreateRunReports(instance))
<1> DEFINE runs == CreateRunReports(instance)
           places == DOMAIN instance.repetitions
<1>1. Len(instance.repetitions) \in Nat /\ places = 1 .. Len(instance.repetitions)
  BY SeqFacts DEF InstanceOK
<1>2. runs = [r \in places |-> CreateRunReport(instance, instance.repetitions[r])]
  BY DEF CreateRunReports
<1>3. ASSUME NEW r \in places
      PROVE  RunOK(runs[r])
  <2> DEFINE result == instance.repetitions[r]
             merged == CountersOf(result)
             run == CreateRunReport(instance, result)
  <2>1. result.skipped \in BOOLEAN
    BY DEF InstanceOK
  <2>2. DOMAIN merged \subseteq Names
    <3>1. /\ Len(result.counters) \in Nat
          /\ \A t \in 1 .. Len(result.counters) : DOMAIN result.counters[t] \subseteq Names
      BY DEF InstanceOK
    <3> HIDE DEF result
    <3> QED
      BY <3>1, CountersTyped
  <2> HIDE DEF result
  <2>3. run.skipped = result.skipped
    BY DEF CreateRunReport
  <2>4. DOMAIN run.counters \subseteq Names
    <3>1. result.skipped => DOMAIN run.counters = {}
      BY DEF CreateRunReport, NoCounters
    <3>2. ~result.skipped => DOMAIN run.counters = DOMAIN merged
      BY DEF CreateRunReport
    <3> QED
      BY <2>2, <3>1, <3>2
  <2>5. runs[r] = run
    BY <1>2 DEF result
  <2> HIDE DEF run, runs
  <2> QED
    BY <2>1, <2>3, <2>4, <2>5 DEF RunOK
<1>4. runs \in [1 .. Len(instance.repetitions) -> {runs[r] : r \in places}]
  BY <1>1, <1>2
<1> HIDE DEF runs
<1>5. IsSeq(runs) /\ DOMAIN runs = places
  BY <1>1, <1>4, SeqOfFunction
<1> QED
  BY <1>3, <1>5 DEF RunsOK, runs

\* Some runs, of those.
LEMMA KeptTyped ==
  ASSUME NEW runs, RunsOK(runs)
  PROVE  RunsOK(Kept(runs)) /\ \A i \in DOMAIN Kept(runs) : ~Kept(runs)[i].skipped
<1> DEFINE places == {i \in DOMAIN runs : ~runs[i].skipped}
<1>1. places \in SUBSET DOMAIN runs /\ IsSeq(runs) /\ Kept(runs) = At(runs, places)
  BY DEF Kept, RunsOK
<1> HIDE DEF places
<1>2. IsSeq(Kept(runs))
      /\ \A k \in DOMAIN Kept(runs) : \E i \in places : Kept(runs)[k] = runs[i]
  BY <1>1, AtFacts
<1>3. \A i \in places : RunOK(runs[i]) /\ ~runs[i].skipped
  BY DEF places, RunsOK
<1> QED
  BY <1>2, <1>3 DEF RunsOK

\* Runs behind runs.
LEMMA RunsConcatenated ==
  ASSUME NEW s, NEW t, RunsOK(s), RunsOK(t)
  PROVE  RunsOK(s \o t)
<1>1. IsSeq(s) /\ IsSeq(t) /\ (\A k \in DOMAIN s : RunOK(s[k])) /\ \A k \in DOMAIN t : RunOK(t[k])
  BY DEF RunsOK
<1>2. Joins(s \o t, s, t)
  BY <1>1, Concatenated
<1>3. \A k \in DOMAIN (s \o t) : RunOK((s \o t)[k])
  BY <1>1, <1>2 DEF Joins
<1> QED
  BY <1>2, <1>3 DEF RunsOK, Joins

\* The names that any of the runs has.
LEMMA UsedTyped ==
  ASSUME NEW runs, RunsOK(runs)
  PROVE  UsedCounters(runs) \subseteq Names
BY DEF UsedCounters, RunsOK, RunOK

\* An aggregate has the counters of its runs.
LEMMA AggregatesTyped ==
  ASSUME NEW runs, RunsOK(runs), NEW stat, NEW run \in Aggregates(runs, stat)
  PROVE  RunOK(run)
<1> DEFINE kept == Kept(runs)
           reals == Computed(stat, [i \in DOMAIN kept |-> kept[i].real])
           cpus == Computed(stat, [i \in DOMAIN kept |-> kept[i].cpu])
           choices == AggregateCounters(runs, stat)
<1>1. run \in {AggregateRow(runs, stat, real, cpu, counters) :
                  real \in reals, cpu \in cpus, counters \in choices}
  BY SMT DEF Aggregates
<1>2. \A real, cpu, counters :
        /\ AggregateRow(runs, stat, real, cpu, counters).counters = counters
        /\ AggregateRow(runs, stat, real, cpu, counters).skipped = FALSE
  BY DEF AggregateRow
<1>3. \A counters \in choices : DOMAIN counters = UsedCounters(runs)
  BY DEF AggregateCounters
<1> HIDE DEF reals, cpus, choices
<1>4. \E real \in reals, cpu \in cpus, counters \in choices :
        run = AggregateRow(runs, stat, real, cpu, counters)
  BY <1>1
<1>5. DOMAIN run.counters = UsedCounters(runs) /\ run.skipped = FALSE
  BY <1>2, <1>3, <1>4
<1>6. UsedCounters(runs) \subseteq Names
  BY UsedTyped
<1> QED
  BY <1>5, <1>6 DEF RunOK

\* No runs, two runs, four runs.
LEMMA FewRuns ==
  /\ RunsOK(<< >>)
  /\ \A a, b : RunOK(a) /\ RunOK(b) => RunsOK(<<a, b>>)
  /\ \A a, b, c, d : RunOK(a) /\ RunOK(b) /\ RunOK(c) /\ RunOK(d) => RunsOK(<<a, b, c, d>>)
<1>1. RunsOK(<< >>)
  BY DEF RunsOK, IsSeq
<1>2. ASSUME NEW a, NEW b, RunOK(a), RunOK(b)
      PROVE  RunsOK(<<a, b>>)
  <2> DEFINE s == <<a, b>>
  <2>1. s \in [1 .. 2 -> {a, b}] /\ s[1] = a /\ s[2] = b
    OBVIOUS
  <2>2. \A i \in 1 .. 2 : i = 1 \/ i = 2
    OBVIOUS
  <2> HIDE DEF s
  <2>3. IsSeq(s) /\ DOMAIN s = 1 .. 2
    BY <2>1, SeqOfFunction
  <2>4. RunsOK(s)
    BY <1>2, <2>1, <2>2, <2>3 DEF RunsOK
  <2> QED
    BY <2>4 DEF s
<1>3. ASSUME NEW a, NEW b, NEW c, NEW d, RunOK(a), RunOK(b), RunOK(c), RunOK(d)
      PROVE  RunsOK(<<a, b, c, d>>)
  <2> DEFINE s == <<a, b, c, d>>
  <2>1. s \in [1 .. 4 -> {a, b, c, d}] /\ s[1] = a /\ s[2] = b /\ s[3] = c /\ s[4] = d
    OBVIOUS
  <2>2. \A i \in 1 .. 4 : i = 1 \/ i = 2 \/ i = 3 \/ i = 4
    OBVIOUS
  <2> HIDE DEF s
  <2>3. IsSeq(s) /\ DOMAIN s = 1 .. 4
    BY <2>1, SeqOfFunction
  <2>4. RunsOK(s)
    BY <1>3, <2>1, <2>2, <2>3 DEF RunsOK
  <2> QED
    BY <2>4 DEF s
<1> QED
  BY <1>1, <1>2, <1>3

\* The statistics of an instance are none or four runs.
LEMMA StatsTyped ==
  ASSUME NEW runs, RunsOK(runs), NEW stats \in ComputeStats(runs)
  PROVE  RunsOK(stats)
<1>1. CASE Len(Kept(runs)) < 2
  BY <1>1, FewRuns DEF ComputeStats
<1>2. CASE ~(Len(Kept(runs)) < 2)
  <2> DEFINE A == Aggregates(runs, "mean")
             B == Aggregates(runs, "median")
             C == Aggregates(runs, "stddev")
             D == Aggregates(runs, "cv")
  <2>0. stats \in {<<mean, median, stddev, cv>> : mean \in A, median \in B,
                                                  stddev \in C, cv \in D}
    BY <1>2, SMT DEF ComputeStats
  <2> HIDE DEF A, B, C, D
  <2>1. PICK mean \in A, median \in B, stddev \in C, cv \in D :
               stats = <<mean, median, stddev, cv>>
    BY <2>0
  <2>2. RunOK(mean) /\ RunOK(median) /\ RunOK(stddev) /\ RunOK(cv)
    BY AggregatesTyped DEF A, B, C, D
  <2>3. RunsOK(<<mean, median, stddev, cv>>)
    BY <2>2, FewRuns, Zenon
  <2> QED
    BY <2>1, <2>3, Zenon
<1> QED
  BY <1>1, <1>2

\* The rows of a family are none or two runs without counters.
LEMMA BigOTyped ==
  ASSUME NEW runs, NEW bigO \in ComputeBigO(runs)
  PROVE  RunsOK(bigO)
<1>1. CASE Len(runs) < 2
  BY <1>1, FewRuns DEF ComputeBigO
<1>2. CASE ~(Len(runs) < 2)
  <2> DEFINE fit == BigOFit(runs)
  <2>1. bigO = <<BigORow(runs, fit), RmsRow(runs, fit)>>
    <3> HIDE DEF fit
    <3>1. \A f \in {fit} : f = fit
      OBVIOUS
    <3>2. bigO \in {<<BigORow(runs, f), RmsRow(runs, f)>> : f \in {fit}}
      BY <1>2, Zenon DEF ComputeBigO, fit
    <3> QED
      BY <3>1, <3>2, Zenon
  <2> HIDE DEF fit
  <2>2. RunOK(BigORow(runs, fit))
    BY DEF RunOK, BigORow, NoCounters
  <2>3. RunOK(RmsRow(runs, fit))
    BY DEF RunOK, RmsRow, BigORow, NoCounters
  <2>4. RunsOK(<<BigORow(runs, fit), RmsRow(runs, fit)>>)
    BY <2>2, <2>3, FewRuns, Zenon
  <2> QED
    BY <2>1, <2>4, Zenon
<1> QED
  BY <1>1, <1>2

-----------------------------------------------------------------------------
(* The lines.                                                              *)

\* One more element, and none.
LEMMA Extended ==
  ASSUME NEW s, IsSeq(s), NEW x
  PROVE  /\ s \o << >> = s
         /\ IsSeq(<<x>>) /\ IsSeq(s \o <<x>>) /\ Len(s \o <<x>>) = Len(s) + 1
         /\ \A k \in 1 .. Len(s) : (s \o <<x>>)[k] = s[k]
         /\ (s \o <<x>>)[Len(s) + 1] = x
<1>1. s \in Seq({s[k] : k \in DOMAIN s})
  BY DEF IsSeq
<1>2. s \o << >> = s
  BY <1>1
<1> DEFINE one == <<x>>
<1>3. one \in [1 .. 1 -> {x}] /\ one[1] = x
  OBVIOUS
<1> HIDE DEF one
<1>4. IsSeq(one) /\ Len(one) = 1
  BY <1>3, SeqOfFunction
<1>5. Joins(s \o one, s, one)
  BY <1>4, Concatenated
<1>6. /\ IsSeq(s \o one) /\ Len(s \o one) = Len(s) + 1
      /\ \A k \in 1 .. Len(s) : (s \o one)[k] = s[k]
      /\ (s \o one)[Len(s) + 1] = x
  BY <1>3, <1>4, <1>5 DEF Joins
<1> QED
  BY <1>2, <1>4, <1>6 DEF one

\* A cell for each of the names.
CellsFit(cells, run, names, mine) ==
  /\ cells = [j \in 1 .. Cardinality(names) |-> cells[j]]
  /\ \A j \in 1 .. Cardinality(names) :
       cells[j] = IF Ordered(names)[j] \in mine THEN run.counters[Ordered(names)[j]] ELSE Empty

\* A row has the cells that it is given.
LEMMA TextRowFits ==
  ASSUME NEW run, NEW times, NEW names \in SUBSET Names, NEW mine, NEW missed,
         NEW cells, CellsFit(cells, run, names, mine), mine \subseteq names \/ missed
  PROVE  RowFits(TextRow(run, times, cells), names, mine, missed)
<1> DEFINE row == TextRow(run, times, cells)
           n == Cardinality(names)
<1>1. row.kind = "row" /\ row.run = run /\ (~run.skipped => row.cells = cells)
  BY DEF TextRow, Row
<1>2. n \in Nat /\ Len(Ordered(names)) = n /\ DOMAIN Ordered(names) = 1 .. n
  BY OrderedFacts
<1>3. Len(cells) = n
  <2>1. cells \in [1 .. n -> {cells[j] : j \in 1 .. n}]
    BY DEF CellsFit
  <2> QED
    BY <1>2, <2>1, SeqOfFunction
<1> HIDE DEF row
<1>4. RowFits(row, names, mine, missed)
  <2> SUFFICES ASSUME ~row.run.skipped
               PROVE  /\ Len(row.cells) = Len(Ordered(names))
                      /\ \A j \in DOMAIN Ordered(names) :
                           row.cells[j] = IF Ordered(names)[j] \in mine
                                          THEN row.run.counters[Ordered(names)[j]] ELSE Empty
    BY <1>1 DEF RowFits
  <2>1. row.cells = cells /\ row.run = run
    BY <1>1
  <2> QED
    BY <1>2, <1>3, <2>1 DEF CellsFit
<1> QED
  BY <1>4 DEF row

\* The JSON reporter writes another row.
LEMMA JsonKeeps ==
  ASSUME NEW rep, NEW build \in BOOLEAN, RepInv(rep, build), rep.kind = "json", NEW run
  PROVE  RepInv(JsonReportRun(rep, run), build) /\ JsonReportRun(rep, run).kind = "json"
<1> DEFINE row == Row(run, JsonTimes(run), run.counters)
           next == JsonReportRun(rep, run)
<1>1. IsSeq(Append(rep.lines, row))
  <2> HIDE DEF row
  <2>1. rep.lines \in Seq({rep.lines[k] : k \in DOMAIN rep.lines})
    BY DEF RepInv, IsSeq
  <2> DEFINE S == {rep.lines[k] : k \in DOMAIN rep.lines} \cup {row}
             longer == Append(rep.lines, row)
  <2>2. rep.lines \in Seq(S)
    BY <2>1
  <2>3. row \in S
    OBVIOUS
  <2> HIDE DEF S
  <2>4. longer \in Seq(S)
    BY <2>2, <2>3
  <2> HIDE DEF longer
  <2>5. longer \in [1 .. Len(longer) -> S] /\ Len(longer) \in Nat
    BY <2>4
  <2>6. IsSeq(longer)
    BY <2>5, SeqOfFunction
  <2> QED
    BY <2>6 DEF longer
<1>2. next = [rep EXCEPT !.lines = Append(@, row)]
  BY DEF JsonReportRun
<1> HIDE DEF row, next
<1>3. /\ DOMAIN next = Fields /\ next.kind = rep.kind
      /\ next.printed_header_ = rep.printed_header_ /\ next.failed = rep.failed
      /\ next.user_counter_names_ = rep.user_counter_names_
      /\ next.prev_counters_ = rep.prev_counters_
      /\ next.lines = Append(rep.lines, row)
  BY <1>2 DEF RepInv, Fields
<1> QED
  BY <1>1, <1>3 DEF RepInv, next

\* The console reporter writes a row, in the tabular format under a header that has the
\* names of its cells.
LEMMA ConsoleKeeps ==
  ASSUME NEW rep, NEW build \in BOOLEAN, RepInv(rep, build),
         rep.kind \in {"console", "tabular"}, NEW run, RunOK(run)
  PROVE  RepInv(ConsoleReportRun(rep, run), build) /\ ConsoleReportRun(rep, run).kind = rep.kind
<1> DEFINE names == DOMAIN run.counters
           header == ~rep.printed_header_
                     \/ (rep.kind = "tabular" /\ ~SameNames(names, rep.prev_counters_))
           cells == [i \in 1 .. Cardinality(names) |-> run.counters[Ordered(names)[i]]]
           row == TextRow(run, ConsoleTimes(run), cells)
           above == rep.lines \o (IF header THEN <<Header(Ordered(names))>> ELSE << >>)
           next == ConsoleReportRun(rep, run)
           L == Len(above)
<1>1. names \in SUBSET Names /\ IsSeq(rep.lines) /\ rep.printed_header_ \in BOOLEAN
      /\ DOMAIN rep = Fields
  BY DEF RunOK, RepInv
<1>2. next = [rep EXCEPT !.printed_header_ = TRUE,
                         !.prev_counters_ = IF header THEN names ELSE @,
                         !.lines = above \o <<row>>]
  BY DEF ConsoleReportRun
<1>3. RowFits(row, names, names, FALSE) /\ row.run = run
  <2>1. Cardinality(names) \in Nat
        /\ \A j \in 1 .. Cardinality(names) : Ordered(names)[j] \in names
    BY <1>1, OrderedFacts
  <2> DEFINE n == Cardinality(names)
  <2>2. \A j \in 1 .. n : cells[j] = run.counters[Ordered(names)[j]]
    OBVIOUS
  <2>3. cells = [j \in 1 .. n |-> cells[j]]
    OBVIOUS
  <2> HIDE DEF cells, names
  <2>4. CellsFit(cells, run, names, names)
    BY <2>1, <2>2, <2>3 DEF CellsFit
  <2>5. names \subseteq names \/ FALSE
    OBVIOUS
  <2>6. RowFits(row, names, names, FALSE)
    BY <1>1, <2>4, <2>5, TextRowFits
  <2>7. row.run = run
    BY DEF TextRow, Row
  <2> QED
    BY <2>6, <2>7
<1>4. Header(Ordered(names)).kind = "header"
  BY DEF Header
<1>5. /\ IsSeq(above) /\ L \in Nat /\ Len(rep.lines) \in Nat
      /\ header => /\ L = Len(rep.lines) + 1 /\ above[L] = Header(Ordered(names))
                   /\ \A k \in 1 .. Len(rep.lines) : above[k] = rep.lines[k]
      /\ ~header => above = rep.lines
  <2> DEFINE h == Header(Ordered(names))
  <2> HIDE DEF h
  <2>1. /\ rep.lines \o << >> = rep.lines
        /\ IsSeq(rep.lines \o <<h>>) /\ Len(rep.lines \o <<h>>) = Len(rep.lines) + 1
        /\ \A k \in 1 .. Len(rep.lines) : (rep.lines \o <<h>>)[k] = rep.lines[k]
        /\ (rep.lines \o <<h>>)[Len(rep.lines) + 1] = h
    BY <1>1, Extended
  <2>2. header => above = rep.lines \o <<h>>
    BY DEF h
  <2>3. ~header => above = rep.lines \o << >>
    OBVIOUS
  <2> HIDE DEF above, header
  <2>4. header \in BOOLEAN
    BY DEF header
  <2>5. IsSeq(above)
    BY <1>1, <2>1, <2>2, <2>3, <2>4
  <2>6. L \in Nat /\ Len(rep.lines) \in Nat
    BY <1>1, <2>5, SeqFacts
  <2> QED
    BY <2>1, <2>2, <2>3, <2>5, <2>6 DEF h
<1> HIDE DEF above
<1>6. /\ IsSeq(above \o <<row>>) /\ Len(above \o <<row>>) = L + 1
      /\ \A k \in 1 .. L : (above \o <<row>>)[k] = above[k]
      /\ (above \o <<row>>)[L + 1] = row
  BY <1>5, Extended
<1>7. /\ DOMAIN next = Fields /\ next.kind = rep.kind /\ next.printed_header_ = TRUE
      /\ next.failed = rep.failed /\ next.user_counter_names_ = rep.user_counter_names_
      /\ next.prev_counters_ = (IF header THEN names ELSE rep.prev_counters_)
      /\ next.lines = above \o <<row>>
  <2> HIDE DEF next, header, names, row
  <2> QED
    BY <1>1, <1>2 DEF Fields
<1> HIDE DEF next, row
<1>8. DOMAIN next.lines = 1 .. L + 1
  BY <1>5, <1>6, <1>7, SeqFacts
<1>9. ASSUME rep.kind = "tabular"
      PROVE  TabularLines(next)
  <2>1. TabularLines(rep) /\ DOMAIN rep.lines = 1 .. Len(rep.lines)
    BY <1>1, <1>9, SeqFacts DEF RepInv
  <2>2. row.kind = "row"
    BY <1>3 DEF RowFits
  <2>3. \E h \in 1 .. L : Under(next.lines, h, L + 1, names) /\ next.prev_counters_ = names
    <3>1. CASE header
      <4>1. next.lines[L] = Header(Ordered(names))
        BY <1>5, <1>6, <1>7, <3>1
      <4>2. \A j \in L + 1 .. L + 1 : next.lines[j].kind = "row"
        BY <1>5, <1>6, <1>7, <2>2
      <4>3. L \in 1 .. L
        BY <1>5, <3>1
      <4> QED
        BY <1>7, <3>1, <4>1, <4>2, <4>3 DEF Under
    <3>2. CASE ~header
      <4>1. rep.printed_header_ /\ rep.prev_counters_ = names
        BY <1>9, <3>2 DEF SameNames
      <4>2. PICK h \in DOMAIN rep.lines : Under(rep.lines, h, Len(rep.lines), names)
        BY <2>1, <4>1 DEF TabularLines
      <4>3. above = rep.lines /\ L = Len(rep.lines)
        BY <1>5, <3>2
      <4>4. h \in 1 .. L /\ next.lines[h] = Header(Ordered(names))
        BY <1>6, <1>7, <2>1, <4>2, <4>3 DEF Under
      <4>5. ASSUME NEW j \in h + 1 .. L + 1
            PROVE  next.lines[j].kind = "row"
        <5>1. CASE j = L + 1
          BY <1>6, <1>7, <2>2, <5>1
        <5>2. CASE j # L + 1
          <6>1. j \in h + 1 .. L /\ j \in 1 .. L
            BY <1>5, <4>4, <5>2
          <6> QED
            BY <1>6, <1>7, <4>2, <4>3, <6>1 DEF Under
        <5> QED
          BY <5>1, <5>2
      <4> QED
        BY <1>7, <3>2, <4>1, <4>4, <4>5 DEF Under
    <3> QED
      BY <3>1, <3>2
  <2>4. ASSUME NEW i \in DOMAIN next.lines, next.lines[i].kind = "row"
        PROVE  \E h \in 1 .. i - 1 : \E ns \in SUBSET Names :
                  /\ Under(next.lines, h, i, ns)
                  /\ RowFits(next.lines[i], ns, DOMAIN next.lines[i].run.counters, FALSE)
    <3>1. CASE i = L + 1
      <4>1. next.lines[i] = row /\ DOMAIN row.run.counters = names
        BY <1>3, <1>6, <1>7, <3>1
      <4>2. PICK h \in 1 .. L : Under(next.lines, h, L + 1, names)
        BY <2>3
      <4>3. h \in 1 .. i - 1
        BY <1>5, <3>1
      <4> HIDE DEF names
      <4> QED
        BY <1>1, <1>3, <3>1, <4>1, <4>2, <4>3
    <3>2. CASE i # L + 1
      <4>1. i \in 1 .. L /\ next.lines[i] = above[i]
        BY <1>5, <1>6, <1>7, <1>8, <3>2
      <4>2. i \in 1 .. Len(rep.lines) /\ \A j \in 1 .. i : next.lines[j] = rep.lines[j]
        <5>1. CASE header
          <6>1. i # L
            BY <1>4, <1>5, <2>4, <4>1, <5>1
          <6>2. i \in 1 .. Len(rep.lines)
            BY <1>5, <4>1, <5>1, <6>1
          <6>3. \A j \in 1 .. i : j \in 1 .. L /\ j \in 1 .. Len(rep.lines)
            BY <1>5, <4>1, <6>2
          <6> QED
            BY <1>5, <1>6, <1>7, <5>1, <6>2, <6>3
        <5>2. CASE ~header
          <6>1. above = rep.lines /\ L = Len(rep.lines)
            BY <1>5, <5>2
          <6>2. \A j \in 1 .. i : j \in 1 .. L
            BY <1>5, <4>1
          <6> QED
            BY <1>6, <1>7, <4>1, <6>1, <6>2
        <5> QED
          BY <5>1, <5>2
      <4>3. i \in 1 .. i
        BY <4>2
      <4>4. rep.lines[i].kind = "row" /\ next.lines[i] = rep.lines[i]
        BY <2>4, <4>2, <4>3
      <4>5. PICK h \in 1 .. i - 1, ns \in SUBSET Names :
               /\ Under(rep.lines, h, i, ns)
               /\ RowFits(rep.lines[i], ns, DOMAIN rep.lines[i].run.counters, FALSE)
        BY <2>1, <4>2, <4>4 DEF TabularLines
      <4>6. h \in 1 .. i /\ \A j \in h + 1 .. i : j \in 1 .. i
        BY <4>2
      <4>7. Under(next.lines, h, i, ns)
        BY <4>2, <4>5, <4>6 DEF Under
      <4> QED
        BY <4>4, <4>5, <4>7
    <3> QED
      BY <3>1, <3>2
  <2>5. \E h \in DOMAIN next.lines : Under(next.lines, h, Len(next.lines), next.prev_counters_)
    <3>1. PICK h \in 1 .. L : Under(next.lines, h, L + 1, names) /\ next.prev_counters_ = names
      BY <2>3
    <3>2. h \in DOMAIN next.lines /\ Len(next.lines) = L + 1
      BY <1>5, <1>6, <1>7, <1>8
    <3> QED
      BY <3>1, <3>2
  <2> QED
    BY <2>4, <2>5 DEF TabularLines
<1> HIDE DEF header, names
<1>10. next.prev_counters_ \subseteq Names
  BY <1>1, <1>7 DEF RepInv
<1>11. IsSeq(next.lines) /\ next.kind # "csv"
  BY <1>6, <1>7
<1> QED
  BY <1>7, <1>9, <1>10, <1>11 DEF RepInv, next

\* The CSV reporter writes rows with the cells of its only header, or gives up.
LEMMA CsvKeeps ==
  ASSUME NEW rep, checks \in BOOLEAN, RepInv(rep, checks), rep.kind = "csv",
         NEW runs, RunsOK(runs)
  PROVE  RepInv(CsvReportRuns(rep, runs), checks) /\ CsvReportRuns(rep, runs).kind = "csv"
<1> DEFINE used == UNION {UserCounters(runs[i]) : i \in DOMAIN runs}
           names == IF rep.printed_header_ THEN rep.user_counter_names_ ELSE used
           cells(run) == [i \in 1 .. Cardinality(names) |->
                            LET c == Ordered(names)[i]
                            IN  IF c \in DOMAIN run.counters THEN run.counters[c] ELSE Empty]
           rows == [i \in DOMAIN runs |-> TextRow(runs[i], CsvTimes(runs[i]), cells(runs[i]))]
           above == rep.lines \o (IF rep.printed_header_ THEN << >>
                                  ELSE <<Header(Ordered(names))>>)
           gives_up == rep.printed_header_ /\ checks /\ ~(used \subseteq names)
           next == CsvReportRuns(rep, runs)
<1>1. /\ IsSeq(rep.lines) /\ rep.printed_header_ \in BOOLEAN /\ DOMAIN rep = Fields
      /\ CsvLines(rep, checks)
  BY DEF RepInv
<1>2. CASE gives_up
  <2>1. next = [rep EXCEPT !.failed = TRUE]
    BY <1>2 DEF CsvReportRuns
  <2> HIDE DEF next
  <2>2. /\ DOMAIN next = Fields /\ next.kind = rep.kind
        /\ next.printed_header_ = rep.printed_header_ /\ next.failed = TRUE
        /\ next.user_counter_names_ = rep.user_counter_names_
        /\ next.prev_counters_ = rep.prev_counters_ /\ next.lines = rep.lines
    BY <1>1, <2>1 DEF Fields
  <2>3. CsvLines(next, checks)
    BY <1>1, <2>2 DEF CsvLines
  <2>4. RepInv(next, checks) /\ next.kind = "csv"
    BY <1>2, <2>2, <2>3 DEF RepInv
  <2> QED
    BY <2>4 DEF next
<1>3. CASE ~gives_up
  <2>1. next = [rep EXCEPT !.printed_header_ = TRUE, !.user_counter_names_ = names,
                           !.lines = above \o rows]
    BY <1>3 DEF CsvReportRuns
  <2>2. /\ used \subseteq Names /\ used \cap FixedCounters = {}
        /\ \A i \in DOMAIN runs : UserCounters(runs[i]) \subseteq used
    BY DEF RunsOK, RunOK, UserCounters
  <2>3. names \in SUBSET Names /\ names \cap FixedCounters = {}
    <3> HIDE DEF used
    <3> QED
      BY <1>1, <2>2 DEF RepInv, CsvLines
  <2>4. used \subseteq names \/ ~checks
    <3> HIDE DEF used
    <3> QED
      BY <1>1, <1>3
  <2> HIDE DEF used
  <2>5. IsSeq(rows) /\ Len(rows) = Len(runs) /\ Len(runs) \in Nat
        /\ DOMAIN runs = 1 .. Len(runs)
        /\ \A i \in DOMAIN runs :
             rows[i] = TextRow(runs[i], CsvTimes(runs[i]), cells(runs[i]))
    <3>1. Len(runs) \in Nat /\ DOMAIN runs = 1 .. Len(runs)
      BY SeqFacts DEF RunsOK
    <3>2. \A i \in DOMAIN runs :
             rows[i] = TextRow(runs[i], CsvTimes(runs[i]), cells(runs[i]))
      OBVIOUS
    <3>3. rows = [i \in DOMAIN runs |-> rows[i]]
      OBVIOUS
    <3> HIDE DEF rows
    <3>4. rows \in [1 .. Len(runs) -> {rows[i] : i \in DOMAIN runs}]
      BY <3>1, <3>3
    <3>5. IsSeq(rows) /\ Len(rows) = Len(runs)
      BY <3>1, <3>4, SeqOfFunction
    <3> QED
      BY <3>1, <3>2, <3>5
  <2>6. ASSUME NEW i \in DOMAIN runs
        PROVE  /\ RowFits(rows[i], names, UserCounters(runs[i]), ~checks)
               /\ rows[i].run = runs[i]
    <3> DEFINE run == runs[i]
               n == Cardinality(names)
               mine == UserCounters(run)
               cs == cells(run)
    <3>1. \A j \in 1 .. n : cs[j] = IF Ordered(names)[j] \in DOMAIN run.counters
                                     THEN run.counters[Ordered(names)[j]] ELSE Empty
      OBVIOUS
    <3>2. cs = [j \in 1 .. n |-> cs[j]]
      OBVIOUS
    <3>3. rows[i] = TextRow(run, CsvTimes(run), cs)
      BY <2>5
    <3>4. mine \subseteq used
      BY <2>2
    <3> HIDE DEF cs, rows, run, names
    <3>5. \A j \in 1 .. n : Ordered(names)[j] \in names
      BY <2>3, OrderedFacts
    <3>6. \A j \in 1 .. n : cs[j] = IF Ordered(names)[j] \in mine
                                     THEN run.counters[Ordered(names)[j]] ELSE Empty
      BY <2>3, <3>1, <3>5 DEF UserCounters
    <3>7. CellsFit(cs, run, names, mine)
      BY <3>2, <3>6 DEF CellsFit
    <3>8. mine \subseteq names \/ ~checks
      BY <2>4, <3>4
    <3> HIDE DEF mine
    <3>9. RowFits(TextRow(run, CsvTimes(run), cs), names, mine, ~checks)
      BY <2>3, <3>7, <3>8, TextRowFits
    <3>10. TextRow(run, CsvTimes(run), cs).run = run
      BY DEF TextRow, Row
    <3> QED
      BY <3>3, <3>9, <3>10 DEF run, mine
  <2> HIDE DEF rows
  <2> DEFINE h == Header(Ordered(names))
             L == Len(above)
  <2> HIDE DEF h
  <2>7. /\ IsSeq(above) /\ L \in Nat /\ Len(rep.lines) \in Nat /\ L > 0 /\ above[1] = h
        /\ rep.printed_header_ => above = rep.lines
        /\ ~rep.printed_header_ => L = 1
    <3>1. /\ rep.lines \o << >> = rep.lines
          /\ IsSeq(rep.lines \o <<h>>) /\ Len(rep.lines \o <<h>>) = Len(rep.lines) + 1
          /\ (rep.lines \o <<h>>)[Len(rep.lines) + 1] = h
      BY <1>1, Extended
    <3>2. /\ rep.printed_header_ => above = rep.lines \o << >>
          /\ ~rep.printed_header_ => above = rep.lines \o <<h>>
      BY DEF h
    <3>3. Len(rep.lines) \in Nat /\ (rep.lines = << >> <=> Len(rep.lines) = 0)
      BY <1>1, SeqFacts
    <3> HIDE DEF above
    <3>4. CASE rep.printed_header_
      <4>1. above = rep.lines /\ L # 0
        BY <1>1, <3>1, <3>2, <3>3, <3>4 DEF CsvLines
      <4>2. names = rep.user_counter_names_
        BY <3>4
      <4>3. rep.lines[1] = h
        BY <1>1, <3>4, <4>2 DEF CsvLines, h
      <4> QED
        BY <1>1, <3>3, <3>4, <4>1, <4>3
    <3>5. CASE ~rep.printed_header_
      <4>1. above = rep.lines \o <<h>> /\ Len(rep.lines) = 0
        BY <1>1, <3>2, <3>3, <3>5 DEF CsvLines
      <4> QED
        BY <3>1, <3>5, <4>1
    <3> QED
      BY <3>4, <3>5
  <2> HIDE DEF above
  <2>8. Joins(above \o rows, above, rows)
    BY <2>5, <2>7, Concatenated
  <2>9. /\ DOMAIN next = Fields /\ next.kind = rep.kind /\ next.printed_header_ = TRUE
        /\ next.failed = rep.failed /\ next.user_counter_names_ = names
        /\ next.prev_counters_ = rep.prev_counters_
        /\ next.lines = above \o rows
    <3> HIDE DEF next, names
    <3> QED
      BY <1>1, <2>1 DEF Fields
  <2> HIDE DEF next
  <2>10. IsSeq(next.lines) /\ next.lines # << >> /\ next.lines[1] = h
    <3>1. IsSeq(next.lines) /\ Len(next.lines) = L + Len(runs)
          /\ \A k \in 1 .. L : next.lines[k] = above[k]
      BY <2>5, <2>8, <2>9 DEF Joins
    <3>2. Len(next.lines) # 0 /\ 1 \in 1 .. L
      BY <2>5, <2>7, <3>1
    <3> QED
      BY <2>7, <3>1, <3>2, SeqFacts
  <2>11. ASSUME NEW i \in DOMAIN next.lines, i > 1
         PROVE  RowFits(next.lines[i], names, UserCounters(next.lines[i].run), ~checks)
    <3>1. \/ i \in DOMAIN above /\ next.lines[i] = above[i]
          \/ i - L \in DOMAIN rows /\ next.lines[i] = rows[i - L]
      BY <2>8, <2>9, <2>11 DEF Joins
    <3>2. CASE i \in DOMAIN above /\ next.lines[i] = above[i]
      <4>1. rep.printed_header_
        <5>1. DOMAIN above = 1 .. L
          BY <2>7, SeqFacts
        <5> QED
          BY <1>1, <2>7, <2>11, <3>2, <5>1
      <4>2. above = rep.lines /\ names = rep.user_counter_names_
        BY <2>7, <4>1
      <4> QED
        BY <1>1, <2>11, <3>2, <4>2 DEF CsvLines
    <3>3. CASE i - L \in DOMAIN rows /\ next.lines[i] = rows[i - L]
      <4>1. i - L \in DOMAIN runs
        BY <2>5, <3>3, SeqFacts
      <4>2. RowFits(rows[i - L], names, UserCounters(runs[i - L]), ~checks)
            /\ rows[i - L].run = runs[i - L]
        BY <2>6, <4>1
      <4> QED
        BY <3>3, <4>2
    <3> QED
      BY <3>1, <3>2, <3>3
  <2>12. CsvLines(next, checks)
    <3> HIDE DEF names
    <3> QED
      BY <2>3, <2>9, <2>10, <2>11 DEF CsvLines, h
  <2>13. RepInv(next, checks) /\ next.kind = "csv"
    <3> HIDE DEF names
    <3> QED
      BY <2>3, <2>9, <2>10, <2>12 DEF RepInv
  <2> QED
    BY <2>13 DEF next
<1> QED
  BY <1>2, <1>3

\* The reporter after each of the first n runs.
IsAfter(f, rep, runs, n) ==
  f = [i \in 0 .. n |-> IF i = 0 THEN rep ELSE ReportRun(f[i - 1], runs[i])]

\* ReportEach goes through the runs: its recursion defines a function.
LEMMA AfterExists ==
  ASSUME NEW rep, NEW runs, NEW n \in Nat
  PROVE  \E f : IsAfter(f, rep, runs, n)
<1> DEFINE Good(m) == \E f : IsAfter(f, rep, runs, m)
           Bad == {m \in Nat : ~Good(m)}
<1> HIDE DEF Good
<1> SUFFICES ASSUME Bad # {}
             PROVE  FALSE
  BY DEF Good
<1>1. PICK k \in Bad : \A m \in Bad : k <= m
  <2> HIDE DEF Bad
  <2>1. Bad \in SUBSET Nat
    BY DEF Bad
  <2> QED
    BY <2>1, SmallestNumber
<1>2. k \in Nat /\ ~Good(k)
  BY <1>1
<1>3. k > 0
  <2> SUFFICES Good(0)
    BY <1>2
  <2> DEFINE f == [i \in 0 .. 0 |-> rep]
  <2>1. f = [i \in 0 .. 0 |-> IF i = 0 THEN rep ELSE ReportRun(f[i - 1], runs[i])]
    <3>1. \A i \in 0 .. 0 : i = 0
      OBVIOUS
    <3> QED
      BY <3>1, Zenon
  <2> QED
    BY <2>1 DEF Good, IsAfter
<1>4. Good(k - 1)
  <2>1. k - 1 \in Nat /\ ~(k <= k - 1)
    BY <1>2, <1>3
  <2> QED
    BY <1>1, <2>1
<1>5. PICK g : g = [i \in 0 .. k - 1 |-> IF i = 0 THEN rep ELSE ReportRun(g[i - 1], runs[i])]
  BY <1>4 DEF Good, IsAfter
<1> DEFINE f == [i \in 0 .. k |-> IF i = k THEN ReportRun(g[k - 1], runs[k]) ELSE g[i]]
<1>6. ASSUME NEW i \in 0 .. k
      PROVE  f[i] = IF i = 0 THEN rep ELSE ReportRun(f[i - 1], runs[i])
  <2>1. f[i] = IF i = k THEN ReportRun(g[k - 1], runs[k]) ELSE g[i]
    OBVIOUS
  <2>2. i # 0 => f[i - 1] = g[i - 1]
    <3>1. i # 0 => i - 1 \in 0 .. k /\ i - 1 # k
      BY <1>2
    <3> QED
      BY <3>1
  <2>3. i # k => i \in 0 .. k - 1
    BY <1>2
  <2>4. i # k => g[i] = IF i = 0 THEN rep ELSE ReportRun(g[i - 1], runs[i])
    BY <1>5, <2>3, Zenon
  <2>5. i = k => i # 0
    BY <1>2, <1>3
  <2> HIDE DEF f
  <2>6. CASE i = k
    <3>1. f[i] = ReportRun(g[i - 1], runs[i])
      BY <2>1, <2>6, Zenon
    <3> QED
      BY <2>2, <2>5, <2>6, <3>1, Zenon
  <2>7. CASE i # k
    <3>1. f[i] = IF i = 0 THEN rep ELSE ReportRun(g[i - 1], runs[i])
      BY <2>1, <2>4, <2>7, Zenon
    <3> QED
      BY <2>2, <3>1, Zenon
  <2> QED
    BY <2>6, <2>7
<1>7. f = [i \in 0 .. k |-> IF i = 0 THEN rep ELSE ReportRun(f[i - 1], runs[i])]
  <2>1. f = [i \in 0 .. k |-> f[i]]
    OBVIOUS
  <2> HIDE DEF f
  <2> QED
    BY <1>6, <2>1, Zenon
<1> QED
  BY <1>2, <1>7 DEF Good, IsAfter

\* The reporters that take the runs one by one.
LEMMA EachKeeps ==
  ASSUME NEW rep, NEW build \in BOOLEAN, RepInv(rep, build), rep.kind # "csv",
         NEW runs, RunsOK(runs)
  PROVE  RepInv(ReportEach(rep, runs), build)
<1> DEFINE N == Len(runs)
           after == CHOOSE f : f = [i \in 0 .. N |-> IF i = 0 THEN rep
                                                      ELSE ReportRun(f[i - 1], runs[i])]
           Good(i) == RepInv(after[i], build) /\ after[i].kind # "csv"
           Bad == {i \in 0 .. N : ~Good(i)}
<1>1. N \in Nat /\ DOMAIN runs = 1 .. N /\ \A i \in DOMAIN runs : RunOK(runs[i])
  BY SeqFacts DEF RunsOK
<1>2. ReportEach(rep, runs) = after[N]
  BY DEF ReportEach
<1>3. IsAfter(after, rep, runs, N)
  <2>1. \E f : IsAfter(f, rep, runs, N)
    BY <1>1, AfterExists
  <2> QED
    BY <2>1, Zenon DEF IsAfter
<1> HIDE DEF after
<1>4. \A i \in 0 .. N : after[i] = IF i = 0 THEN rep ELSE ReportRun(after[i - 1], runs[i])
  BY <1>3, Zenon DEF IsAfter
<1>5. Bad = {}
  <2> SUFFICES ASSUME Bad # {}
               PROVE  FALSE
    OBVIOUS
  <2> HIDE DEF Good
  <2>1. Bad \in SUBSET Nat
    OBVIOUS
  <2> HIDE DEF Bad
  <2>2. PICK i \in Bad : \A m \in Bad : i <= m
    BY <2>1, SmallestNumber
  <2>3. i \in 0 .. N /\ i \in Nat /\ ~Good(i)
    BY <2>2 DEF Bad
  <2>4. CASE i = 0
    <3>1. after[i] = rep
      BY <1>4, <2>3, <2>4
    <3> QED
      BY <2>3, <3>1 DEF Good
  <2>5. CASE i # 0
    <3>1. i - 1 \in 0 .. N /\ ~(i <= i - 1) /\ i \in DOMAIN runs
      BY <1>1, <2>3, <2>5
    <3> DEFINE before == after[i - 1]
               run == runs[i]
    <3>2. RepInv(before, build) /\ before.kind # "csv"
      BY <2>2, <3>1 DEF Bad, Good
    <3>3. after[i] = ReportRun(before, run)
      BY <1>4, <2>3, <2>5
    <3>4. RunOK(run)
      BY <1>1, <3>1
    <3> HIDE DEF before, run
    <3>5. CASE before.kind = "json"
      BY <2>3, <3>2, <3>3, <3>5, JsonKeeps DEF ReportRun, Good
    <3>6. CASE before.kind # "json"
      <4>1. before.kind \in {"console", "tabular"}
        BY <3>2, <3>6 DEF RepInv, Kinds
      <4> QED
        BY <2>3, <3>2, <3>3, <3>4, <3>6, <4>1, ConsoleKeeps DEF ReportRun, Good
    <3> QED
      BY <3>5, <3>6
  <2> QED
    BY <2>4, <2>5
<1>6. N \in 0 .. N
  BY <1>1
<1> QED
  BY <1>2, <1>5, <1>6

\* Any reporter.
LEMMA RunsKeep ==
  ASSUME NEW rep, checks \in BOOLEAN, RepInv(rep, checks), NEW runs, RunsOK(runs)
  PROVE  RepInv(ReportRuns(rep, runs), checks)
<1>1. CASE rep.failed
  BY <1>1 DEF ReportRuns
<1>2. CASE ~rep.failed /\ rep.kind = "csv"
  BY <1>2, CsvKeeps DEF ReportRuns
<1>3. CASE ~rep.failed /\ rep.kind # "csv"
  BY <1>3, EachKeeps DEF ReportRuns
<1> QED
  BY <1>1, <1>2, <1>3

\* The repetitions and their aggregates.
LEMMA ReportedKeeps ==
  ASSUME checks \in BOOLEAN, RepInv(reporter, checks), NEW runs, RunsOK(runs),
         NEW aggregates, RunsOK(aggregates), NEW only
  PROVE  RepInv(Reported(runs, aggregates, only), checks)
<1> DEFINE first == IF only /\ aggregates # << >> THEN reporter ELSE ReportRuns(reporter, runs)
<1>1. RepInv(ReportRuns(reporter, runs), checks)
  BY RunsKeep
<1>2. RepInv(first, checks)
  BY <1>1
<1>3. Reported(runs, aggregates, only) = IF aggregates = << >> THEN first
                                         ELSE ReportRuns(first, aggregates)
  BY DEF Reported
<1> HIDE DEF first
<1>4. RepInv(ReportRuns(first, aggregates), checks)
  BY <1>2, RunsKeep
<1> QED
  BY <1>2, <1>3, <1>4

-----------------------------------------------------------------------------
(* The invariant.                                                          *)

\* The assumption on the constants gives instances of the expected shape.
LEMMA InstancesOK ==
  ASSUME NEW instance \in InstanceResults
  PROVE  InstanceOK(instance)
<1>1. IsSeq(instance.repetitions) /\ instance.threads \in Nat
  BY ReportingAssumption
<1>2. ASSUME NEW r \in DOMAIN instance.repetitions
      PROVE  LET result == instance.repetitions[r]
             IN  /\ result.skipped \in BOOLEAN
                 /\ Len(result.counters) = instance.threads
                 /\ \A t \in 1 .. instance.threads : DOMAIN result.counters[t] \subseteq Names
  BY ReportingAssumption
<1> QED
  BY <1>1, <1>2 DEF InstanceOK

\* Nothing is written yet.
LEMMA ReportingInit ==
  ASSUME Init
  PROVE  ReportingInv
<1>1. /\ reporter.kind \in Kinds /\ reporter.printed_header_ = FALSE
      /\ reporter.prev_counters_ = {} /\ reporter.user_counter_names_ = {}
      /\ reporter.failed = FALSE /\ reporter.lines = << >> /\ DOMAIN reporter = Fields
  BY DEF Init, Fields
<1>2. IsSeq(reporter.lines) /\ DOMAIN reporter.lines = {}
  BY <1>1 DEF IsSeq
<1>3. CsvLines(reporter, checks)
  BY <1>1, <1>2 DEF CsvLines
<1>4. TabularLines(reporter)
  BY <1>1, <1>2 DEF TabularLines
<1>5. RepInv(reporter, checks)
  BY <1>1, <1>2, <1>3, <1>4 DEF RepInv
<1>6. RunsOK(per_family_reports) /\ DOMAIN per_family_reports = {}
  BY FewRuns DEF Init
<1>7. suite \in 0 .. MaxSuites /\ reports \in 0 .. MaxReports
  BY ReportingAssumption DEF Init
<1> QED
  BY <1>1, <1>5, <1>6, <1>7 DEF Init, ReportingInv

\* A new suite makes the console forget its header.
LEMMA ContextKeeps ==
  ASSUME ReportingInv, ReportContext
  PROVE  ReportingInv'
<1>1. RepInv(reporter, checks)
  BY DEF ReportingInv
<1>2. RepInv(reporter', checks) /\ (reporter'.failed <=> reporter.failed)
  <2>1. CASE reporter.kind \in {"console", "tabular"}
    <3>1. reporter' = [reporter EXCEPT !.printed_header_ = FALSE, !.prev_counters_ = {}]
      BY <2>1 DEF ReportContext
    <3>2. /\ DOMAIN reporter' = Fields /\ reporter'.kind = reporter.kind
          /\ reporter'.printed_header_ = FALSE /\ reporter'.failed = reporter.failed
          /\ reporter'.user_counter_names_ = reporter.user_counter_names_
          /\ reporter'.prev_counters_ = {} /\ reporter'.lines = reporter.lines
      BY <1>1, <3>1 DEF RepInv, Fields
    <3>3. reporter.kind = "tabular" => TabularLines(reporter')
      BY <1>1, <3>2 DEF RepInv, TabularLines
    <3> QED
      BY <1>1, <2>1, <3>2, <3>3 DEF RepInv
  <2>2. CASE reporter.kind \notin {"console", "tabular"}
    BY <1>1, <2>2 DEF ReportContext
  <2> QED
    BY <2>1, <2>2
<1>3. suite' \in 0 .. MaxSuites
  BY ReportingAssumption DEF ReportContext, ReportingInv
<1>4. UNCHANGED <<checks, family, per_family_reports, reports, aborted>>
  BY DEF ReportContext
<1> QED
  BY <1>2, <1>3, <1>4 DEF ReportingInv

\* The report of an instance.
LEMMA InstanceKeeps ==
  ASSUME ReportingInv, NEW instance \in InstanceResults, NEW last \in BOOLEAN,
         ReportInstance(instance, last)
  PROVE  ReportingInv'
<1> DEFINE runs == CreateRunReports(instance)
<1>1. RunsOK(runs)
  BY InstancesOK, ReportsTyped
<1>2. /\ checks \in BOOLEAN /\ aborted = FALSE /\ RepInv(reporter, checks)
      /\ RunsOK(per_family_reports)
      /\ \A i \in DOMAIN per_family_reports : ~per_family_reports[i].skipped
  BY DEF ReportingInv, ReportInstance
<1>3. /\ UNCHANGED <<checks, family, suite>> /\ reports' \in 0 .. MaxReports
  BY ReportingAssumption DEF ReportingInv, ReportInstance
<1>4. \/ /\ aborted' = TRUE
         /\ UNCHANGED <<per_family_reports, reporter>>
      \/ /\ per_family_reports' = IF last THEN << >> ELSE InFamily(runs)
         /\ \E stats \in ComputeStats(runs),
               bigO \in IF last THEN ComputeBigO(InFamily(runs)) ELSE {<< >>} :
               reporter' = Reported(runs, stats \o bigO, instance.aggregates_only)
         /\ aborted' = reporter'.failed
  BY DEF ReportInstance
<1> HIDE DEF runs
<1>5. RunsOK(InFamily(runs)) /\ \A i \in DOMAIN InFamily(runs) : ~InFamily(runs)[i].skipped
  <2>1. RunsOK(Kept(runs)) /\ \A i \in DOMAIN Kept(runs) : ~Kept(runs)[i].skipped
    BY <1>1, KeptTyped
  <2> DEFINE kept == Kept(runs)
             both == per_family_reports \o kept
  <2> HIDE DEF kept
  <2>2. RunsOK(both) /\ \A i \in DOMAIN both : ~both[i].skipped
    <3>1. RunsOK(both)
      BY <1>2, <2>1, RunsConcatenated DEF kept
    <3>2. Joins(both, per_family_reports, kept)
      BY <1>2, <2>1, Concatenated DEF RunsOK, kept
    <3> HIDE DEF both
    <3>3. \A i \in DOMAIN both : ~both[i].skipped
      BY <1>2, <2>1, <3>2 DEF Joins, kept
    <3> QED
      BY <3>1, <3>3
  <2>3. InFamily(runs) = IF family.complexity = "oNone" THEN << >> ELSE both
    BY DEF InFamily, kept
  <2>4. RunsOK(<< >>) /\ DOMAIN << >> = {}
    BY FewRuns
  <2> HIDE DEF both
  <2> QED
    BY <2>2, <2>3, <2>4
<1>6. CASE aborted' = TRUE /\ UNCHANGED <<per_family_reports, reporter>>
  BY <1>2, <1>3, <1>6 DEF ReportingInv
<1>7. CASE /\ per_family_reports' = IF last THEN << >> ELSE InFamily(runs)
           /\ \E stats \in ComputeStats(runs),
                 bigO \in IF last THEN ComputeBigO(InFamily(runs)) ELSE {<< >>} :
                 reporter' = Reported(runs, stats \o bigO, instance.aggregates_only)
           /\ aborted' = reporter'.failed
  <2>1. PICK stats \in ComputeStats(runs),
             bigO \in IF last THEN ComputeBigO(InFamily(runs)) ELSE {<< >>} :
               reporter' = Reported(runs, stats \o bigO, instance.aggregates_only)
    BY <1>7, Zenon
  <2>2. RunsOK(stats)
    BY <1>1, StatsTyped
  <2>3. RunsOK(bigO)
    <3>1. bigO \in ComputeBigO(InFamily(runs)) \/ bigO = << >>
      OBVIOUS
    <3> QED
      BY <3>1, BigOTyped, FewRuns
  <2>4. RunsOK(stats \o bigO)
    BY <2>2, <2>3, RunsConcatenated
  <2>5. RepInv(reporter', checks)
    BY <1>1, <1>2, <2>1, <2>4, ReportedKeeps
  <2>6. RunsOK(per_family_reports')
        /\ \A i \in DOMAIN per_family_reports' : ~per_family_reports'[i].skipped
    <3>1. RunsOK(<< >>) /\ DOMAIN << >> = {}
      BY FewRuns
    <3> QED
      BY <1>5, <1>7, <3>1
  <2>7. aborted' \in BOOLEAN /\ (reporter'.failed => aborted')
    BY <1>7, <2>5 DEF RepInv
  <2> QED
    BY <1>3, <2>5, <2>6, <2>7 DEF ReportingInv
<1> QED
  BY <1>4, <1>6, <1>7

\* The invariant is inductive: it holds before anything is reported, and both a new suite
\* and the report of an instance keep it.
THEOREM ReportingInductive == Spec => []ReportingInv
<1>1. Init => ReportingInv
  BY ReportingInit
<1>2. ReportingInv /\ [Next]_vars => ReportingInv'
  <2> SUFFICES ASSUME ReportingInv, [Next]_vars
               PROVE  ReportingInv'
    OBVIOUS
  <2>1. CASE ReportContext
    BY <2>1, ContextKeeps
  <2>2. ASSUME NEW instance \in InstanceResults, NEW last \in BOOLEAN,
               ReportInstance(instance, last)
        PROVE  ReportingInv'
    BY <2>2, InstanceKeeps
  <2>3. CASE UNCHANGED vars
    BY <2>3 DEF vars, ReportingInv
  <2> QED
    BY <2>1, <2>2, <2>3 DEF Next
<1> QED
  BY <1>1, <1>2, PTL DEF Spec

\* The state of the reporters is of the expected shape, and a reporter fails only in a
\* build that checks, when a CSV row has a counter that its header lacks.
THEOREM ReportingTypeCorrect == Spec => []TypeOK
<1>1. ReportingInv => TypeOK
  BY DEF ReportingInv, RepInv, TypeOK
<1> QED
  BY <1>1, ReportingInductive, PTL

\* In the CSV and the tabular format every number stands under the name of its counter.
THEOREM RowsUnderHeadersCorrect == Spec => []RowsUnderHeaders
<1>1. ReportingInv => RowsUnderHeaders
  <2> DEFINE lines == reporter.lines
             mine(i) == IF reporter.kind = "csv" THEN UserCounters(lines[i].run)
                        ELSE DOMAIN lines[i].run.counters
             missed == reporter.kind = "csv" /\ ~checks
  <2> SUFFICES ASSUME ReportingInv, reporter.kind \in {"csv", "tabular"}, NEW i \in Rows,
                      ~lines[i].run.skipped
               PROVE  LET names == HeaderOf(i).names
                          shown == {names[j] : j \in DOMAIN names}
                      IN  /\ Len(lines[i].cells) = Len(names)
                          /\ \A j \in DOMAIN names :
                               lines[i].cells[j] = IF names[j] \in mine(i)
                                                   THEN lines[i].run.counters[names[j]]
                                                   ELSE Empty
                          /\ mine(i) \subseteq shown \/ missed
    BY Zenon DEF RowsUnderHeaders
  <2>1. /\ RepInv(reporter, checks) /\ IsSeq(lines) /\ Len(lines) \in Nat
        /\ DOMAIN lines = 1 .. Len(lines) /\ i \in DOMAIN lines /\ lines[i].kind = "row"
    BY SeqFacts DEF ReportingInv, RepInv, Rows
  <2>2. \A ns : Header(ns).kind = "header" /\ Header(ns).names = ns
    BY DEF Header
  <2>3. \E h \in 1 .. i : \E ns \in SUBSET Names :
           Under(lines, h, i, ns) /\ RowFits(lines[i], ns, mine(i), missed)
    <3>1. CASE reporter.kind = "tabular"
      <4>1. PICK h \in 1 .. i - 1, ns \in SUBSET Names :
               /\ Under(lines, h, i, ns)
               /\ RowFits(lines[i], ns, DOMAIN lines[i].run.counters, FALSE)
        BY <2>1, <3>1 DEF RepInv, TabularLines
      <4>2. h \in 1 .. i
        BY <2>1
      <4>3. RowFits(lines[i], ns, mine(i), missed)
        BY <3>1, <4>1 DEF RowFits
      <4> QED
        BY <4>1, <4>2, <4>3
    <3>2. CASE reporter.kind = "csv"
      <4> DEFINE ns == reporter.user_counter_names_
      <4>1. CsvLines(reporter, checks) /\ ns \in SUBSET Names /\ lines # << >>
        BY <2>1, <3>2, SeqFacts DEF RepInv
      <4>2. lines[1] = Header(Ordered(ns))
        BY <4>1 DEF CsvLines
      <4>3. i > 1
        BY <2>1, <2>2, <4>2
      <4>4. RowFits(lines[i], ns, mine(i), missed)
        BY <2>1, <3>2, <4>1, <4>3 DEF CsvLines
      <4>5. ASSUME NEW j \in 2 .. i
            PROVE  lines[j].kind = "row"
        <5>1. j \in DOMAIN lines /\ j > 1
          BY <2>1
        <5> QED
          BY <4>1, <5>1 DEF CsvLines, RowFits
      <4>6. 1 \in 1 .. i /\ Under(lines, 1, i, ns)
        BY <2>1, <4>2, <4>5 DEF Under
      <4> QED
        BY <4>1, <4>4, <4>6
    <3> QED
      BY <3>1, <3>2
  <2>4. PICK h \in 1 .. i, ns \in SUBSET Names :
           Under(lines, h, i, ns) /\ RowFits(lines[i], ns, mine(i), missed)
    BY <2>3
  <2> DEFINE found(k) == lines[k].kind = "header" /\ \A j \in k + 1 .. i : lines[j].kind = "row"
             c == CHOOSE k \in 1 .. i : found(k)
  <2>5. found(h)
    BY <2>2, <2>4 DEF Under
  <2>6. \A k \in 1 .. i : found(k) => k = h
    <3> SUFFICES ASSUME NEW k \in 1 .. i, found(k), k # h
                 PROVE  FALSE
      OBVIOUS
    <3>1. k \in h + 1 .. i \/ h \in k + 1 .. i
      BY <2>1
    <3> QED
      BY <2>5, <3>1
  <2>7. HeaderOf(i) = lines[c]
    BY DEF HeaderOf
  <2> HIDE DEF found
  <2>8. c = h
    BY <2>5, <2>6, Zenon
  <2> DEFINE names == HeaderOf(i).names
  <2>9. names = Ordered(ns)
    <3> HIDE DEF c
    <3> QED
      BY <2>2, <2>4, <2>7, <2>8 DEF Under
  <2>10. {Ordered(ns)[j] : j \in DOMAIN Ordered(ns)} = ns
    BY OrderedFacts
  <2> HIDE DEF names, c, mine, missed
  <2>11. /\ Len(lines[i].cells) = Len(names)
         /\ \A j \in DOMAIN names :
              lines[i].cells[j] = IF names[j] \in mine(i)
                                  THEN lines[i].run.counters[names[j]] ELSE Empty
         /\ mine(i) \subseteq {names[j] : j \in DOMAIN names} \/ missed
    BY <2>4, <2>9, <2>10 DEF RowFits
  <2> QED
    BY <2>11 DEF names
<1> QED
  BY <1>1, ReportingInductive, PTL
=============================================================================
