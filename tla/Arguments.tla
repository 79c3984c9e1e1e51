------------------------------- MODULE Arguments -------------------------------
(***************************************************************************)
(* The argument lists a benchmark family is registered with: how a range   *)
(* with a multiplier, a dense range and a product of lists are enumerated  *)
(* (benchmark_register.h and benchmark_register.cc), in integers of a      *)
(* limited width.                                                          *)
(***************************************************************************)
EXTENDS Integers, Sequences, FiniteSets

LOCAL INSTANCE SequencesExt

CONSTANT Width  \* value bits of the integers: 63 or 31 in the code

ASSUME ArgumentsAssumption == Width \in Nat \ {0}

\* numeric_limits<T>::max().
kmax == 2 ^ Width - 1

T == -kmax - 1 .. kmax

-----------------------------------------------------------------------------
(* Ranges with a multiplier.                                               *)

\* Bug variant: the loop stops at hi / mult, as if hi were the type's limit.
BreakAtHi(i, hi, mult) == i >= hi \div mult

\* One more multiplication would leave the type, which is undefined.
BreakAt(i, hi, mult) == i > kmax \div mult

\* The powers of mult in lo .. hi, ascending.
AddPowers(lo, hi, mult) ==
  LET from[i \in 1 .. kmax] ==
        IF i > hi THEN << >>
        ELSE (IF i >= lo THEN <<i>> ELSE << >>)
               \o (IF BreakAt(i, hi, mult) THEN << >> ELSE from[i * mult])
  IN from[1]

\* What is negated must not be the type's minimum, which has no complement.
AddNegatedPowers(lo, hi, mult) ==
  LET powers == AddPowers(-hi, -lo, mult)
  IN Reverse([i \in DOMAIN powers |-> -powers[i]])

\* BM_CHECK_GE(hi, lo), BM_CHECK_GE(mult, 2).
RangeChecks(lo, hi, mult) == lo <= hi /\ mult >= 2

AddRange(lo, hi, mult) ==
  LET negative == IF lo + 1 < 0
                    THEN AddNegatedPowers(lo + 1, IF hi - 1 < -1 THEN hi - 1 ELSE -1, mult)
                    ELSE << >>
      zero     == IF lo < 0 /\ hi >= 0 THEN <<0>> ELSE << >>
      positive == IF hi - 1 > 0
                    THEN AddPowers(IF lo + 1 > 1 THEN lo + 1 ELSE 1, hi - 1, mult)
                    ELSE << >>
      values   == <<lo>> \o negative \o zero \o positive
  IN IF lo = hi THEN <<lo>>
     ELSE IF lo + 1 = hi THEN <<lo, hi>>
     ELSE IF Last(values) = hi THEN values ELSE Append(values, hi)

\* A dense range; a step that is not positive never ends, and limit + step must be in
\* the type.
DenseValues(start, limit, step) ==
  [k \in 1 .. (limit - start) \div step + 1 |-> start + (k - 1) * step]

-----------------------------------------------------------------------------
(* Products of lists.                                                      *)

Size(arglists) == FoldLeft(LAMBDA res, list : res * Len(list), 1, arglists)

\* The indices turn like an odometer whose first wheel is the fastest.
Turn(indices, arglists) ==
  [a \in DOMAIN indices |->
     IF \A b \in 1 .. a - 1 : indices[b] + 1 = Len(arglists[b])
       THEN (indices[a] + 1) % Len(arglists[a])
       ELSE indices[a]]

Product(arglists) ==
  LET indices[i \in 0 .. Size(arglists)] ==
        IF i = 0 THEN [a \in DOMAIN arglists |-> 0] ELSE Turn(indices[i - 1], arglists)
  IN [i \in 1 .. Size(arglists) |->
        [a \in DOMAIN arglists |-> arglists[a][indices[i - 1][a] + 1]]]

-----------------------------------------------------------------------------
(* What the calls promise, without their loops.                            *)

\* The elements of a finite set of integers in their order.
Ascending(S) ==
  [k \in 1 .. Cardinality(S) |-> CHOOSE x \in S : Cardinality({y \in S : y < x}) = k - 1]

\* Both ends, and between them 0 and the powers of mult with either sign, ascending.
RangeReference(lo, hi, mult) ==
  LET powers == {x \in 1 .. kmax : \E k \in 0 .. Width : x = mult ^ k}
  IN Ascending({x \in lo .. hi : x \in {lo, hi, 0} \/ x \in powers \/ -x \in powers})

\* Number k of the product, counted from 0, has digit (k / smaller places) % length.
ProductReference(arglists) ==
  [i \in 1 .. Size(arglists) |->
     [a \in DOMAIN arglists |->
        arglists[a][(((i - 1) \div Size(SubSeq(arglists, 1, a - 1))) % Len(arglists[a])) + 1]]]
=============================================================================
