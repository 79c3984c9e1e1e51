------------------------------ MODULE Statistics ------------------------------
(***************************************************************************)
(* What the library computes from the reports of the repetitions: the sums *)
(* and scales of user counters (counter.cc), mean, median, standard        *)
(* deviation and coefficient of variation (statistics.cc), and the fit of  *)
(* a complexity curve (complexity.cc).                                     *)
(*                                                                         *)
(* A double is a rational number <<numerator, denominator>>; rounding is   *)
(* left out. A value that is a square root is given by its square, and has *)
(* power 2 where it is scaled.                                             *)
(***************************************************************************)
EXTENDS Integers, Sequences, FiniteSets, SequencesExt

-----------------------------------------------------------------------------
(* Rational numbers.                                                       *)

gcd[p \in Nat \X Nat] == IF p[2] = 0 THEN p[1] ELSE gcd[<<p[2], p[1] % p[2]>>]

\* In lowest terms, with a denominator that is not negative.
Ratio(n, d) ==
  LET common == gcd[<<IF n < 0 THEN -n ELSE n, d>>] IN <<n \div common, d \div common>>

Whole(n) == <<n, 1>>
Plus(x, y) == Ratio(x[1] * y[2] + y[1] * x[2], x[2] * y[2])
Minus(x, y) == Plus(x, <<-y[1], y[2]>>)
Times(x, y) == Ratio(x[1] * y[1], x[2] * y[2])
Inverted(x) == IF x[1] < 0 THEN <<-x[2], -x[1]>> ELSE <<x[2], x[1]>>  \* of x # 0
Over(x, y) == Times(x, Inverted(y))
Power(x, p) == <<x[1] ^ p, x[2] ^ p>>
Less(x, y) == x[1] * y[2] < y[1] * x[2]

-----------------------------------------------------------------------------
(* User counters: functions from names to values; the flags go by the name.*)

\* Counters of two threads: the sum, or the only one.
Increment(l, r) ==
  [c \in DOMAIN l \cup DOMAIN r |->
     IF c \notin DOMAIN r THEN l[c] ELSE IF c \notin DOMAIN l THEN r[c] ELSE Plus(l[c], r[c])]

\* Invert is always last.
Finish(v, flags, iterations, cpu_time, num_threads) ==
  LET rate      == IF "kIsRate" \in flags THEN Over(v, cpu_time) ELSE v
      thread    == IF "kAvgThreads" \in flags THEN Over(rate, Whole(num_threads)) ELSE rate
      invariant == IF "kIsIterationInvariant" \in flags
                     THEN Times(thread, Whole(iterations)) ELSE thread
      iteration == IF "kAvgIterations" \in flags
                     THEN Over(invariant, Whole(iterations)) ELSE invariant
  IN IF "kInvert" \in flags THEN Inverted(iteration) ELSE iteration

-----------------------------------------------------------------------------
(* Statistics of a sequence of values.                                     *)

RatioSum(v) == FoldLeft(Plus, Whole(0), v)

StatisticsMean(v) == IF v = << >> THEN Whole(0) ELSE Over(RatioSum(v), Whole(Len(v)))

\* What nth_element may leave: some order in which the element at the center is the one
\* that sorting would put there, with none greater before and none less behind it.
NthElement(v) ==
  LET center == Len(v) \div 2 + 1
      orders == {p \in [DOMAIN v -> DOMAIN v] : \A i, j \in DOMAIN v : i # j => p[i] # p[j]}
  IN {w \in {[i \in DOMAIN v |-> v[p[i]]] : p \in orders} :
        \A i \in DOMAIN w : IF i < center THEN ~Less(w[center], w[i])
                                          ELSE ~Less(w[i], w[center])}

\* The largest element before the center, wherever it is.
LargestBefore(w, center) ==
  w[CHOOSE i \in 1 .. center - 1 : \A j \in 1 .. center - 1 : ~Less(w[i], w[j])]

MedianOf(w) ==
  LET center == Len(w) \div 2 + 1
  IN IF Len(w) % 2 = 1 THEN w[center]
     ELSE Over(Plus(w[center], LargestBefore(w, center)), Whole(2))

\* The results that the orders left by nth_element can have.
StatisticsMedian(v) ==
  IF Len(v) < 3 THEN {StatisticsMean(v)} ELSE {MedianOf(w) : w \in NthElement(v)}

SumProducts(v, w) == RatioSum([i \in DOMAIN v |-> Times(v[i], w[i])])

\* The square of the standard deviation.
StatisticsVariance(v) ==
  IF Len(v) < 2 THEN Whole(0)
  ELSE Times(Ratio(Len(v), Len(v) - 1),
             Minus(Over(SumProducts(v, v), Whole(Len(v))), Power(StatisticsMean(v), 2)))

\* The square of the coefficient of variation.
StatisticsCV(v) ==
  IF Len(v) < 2 \/ StatisticsMean(v)[1] = 0 THEN Whole(0)
  ELSE Over(StatisticsVariance(v), Power(StatisticsMean(v), 2))

StatisticsNames == <<"mean", "median", "stddev", "cv">>

StatisticPower(stat) == IF stat \in {"stddev", "cv"} THEN 2 ELSE 1

StatisticUnit(stat) == IF stat = "cv" THEN "percentage" ELSE "time"

Computed(stat, v) ==
  CASE stat = "mean"   -> {StatisticsMean(v)}
    [] stat = "median" -> StatisticsMedian(v)
    [] stat = "stddev" -> {StatisticsVariance(v)}
    [] stat = "cv"     -> {StatisticsCV(v)}

-----------------------------------------------------------------------------
(* Fitting a curve to the times t of inputs of the lengths n.              *)

Log2(n) == CHOOSE k \in 0 .. n : 2 ^ k = n

\* The lambda is some function of the user's, here one that no other curve equals.
FittingCurve(complexity, n) ==
  CASE complexity = "oN"        -> n
    [] complexity = "oNSquared" -> n ^ 2
    [] complexity = "oNCubed"   -> n ^ 3
    [] complexity = "oLogN"     -> Log2(n)
    [] complexity = "oNLogN"    -> n * Log2(n)
    [] complexity = "oLambda"   -> n + 1
    [] OTHER                    -> 1

\* coef minimizes the sum of the squares of t[i] - coef * g(n[i]), which then is
\* (sum of t^2) - (sum of t*g)^2 / (sum of g^2): the residual. rms is its mean divided by
\* the square of the mean of t, which is the same for all curves. Where a denominator is 0
\* the result is not a number.
LeastSquares(n, t, complexity) ==
  LET g      == [i \in DOMAIN n |-> Whole(FittingCurve(complexity, n[i]))]
      gg     == SumProducts(g, g)
      tg     == SumProducts(t, g)
      mean   == StatisticsMean(t)
      number == gg[1] # 0 /\ mean[1] # 0
      residual == IF number THEN Minus(SumProducts(t, t), Over(Power(tg, 2), gg)) ELSE Whole(0)
  IN [complexity |-> complexity, number |-> number, residual |-> residual,
      coef |-> IF number THEN Over(tg, gg) ELSE Whole(0),
      rms |-> IF number THEN Over(Over(residual, Whole(Len(n))), Power(mean, 2))
              ELSE Whole(0)]

Better(fit, best) == fit.number /\ best.number /\ Less(fit.residual, best.residual)

AutoCurves == <<"oLogN", "oN", "oNLogN", "oNSquared", "oNCubed">>

MinimalLeastSq(n, t, complexity) ==
  IF complexity # "oAuto" THEN LeastSquares(n, t, complexity)
  ELSE FoldLeft(LAMBDA best, curve :
                  LET fit == LeastSquares(n, t, curve)
                  IN IF Better(fit, best) THEN fit ELSE best,
                LeastSquares(n, t, "o1"), AutoCurves)
=============================================================================
