------------------------------ MODULE Statistics ------------------------------
(***************************************************************************)
(* The collectors of src/simulus/utils.py: marks in time, data series with *)
(* Welford's one-pass mean and variance, and time series with the area     *)
(* under them.  Means and variances are exact rationals here, pairs in     *)
(* lowest terms: the rounding of floats is left out, as are minima and     *)
(* maxima, and the samples that are kept on request.                       *)
(***************************************************************************)
EXTENDS Integers, FiniteSetsExt

Ratio(a, b) == LET g == Max({d \in 1..b : a % d = 0 /\ b % d = 0})
               IN <<a \div g, b \div g>>
Whole(a) == <<a, 1>>
Plus(q, r) == Ratio(q[1] * r[2] + r[1] * q[2], q[2] * r[2])
Minus(q, r) == Plus(q, <<-r[1], r[2]>>)
Times(q, r) == Ratio(q[1] * r[1], q[2] * r[2])

-----------------------------------------------------------------------------
(* Data series *)

NoData == [n |-> 0, mean |-> Whole(0), varsum |-> Whole(0)]

\* A seeded mistake: the deviation is squared without its weight.
PushUnweighted(w, x) ==
  LET n == w.n + 1
      d == Minus(Whole(x), w.mean)
  IN [n      |-> n,
      mean   |-> Plus(w.mean, Times(d, Ratio(1, n))),
      varsum |-> Plus(w.varsum, Times(d, d))]

\* push(): the deviation from the mean so far corrects both figures.
Push(w, x) ==
  LET n == w.n + 1
      d == Minus(Whole(x), w.mean)
  IN [n      |-> n,
      mean   |-> Plus(w.mean, Times(d, Ratio(1, n))),
      varsum |-> Plus(w.varsum, Times(Times(d, d), Ratio(n - 1, n)))]

-----------------------------------------------------------------------------
(* Marks in time and time series *)

NoMarks == [n |-> 0, at |-> 0]

\* push() of a mark that is not earlier than the last one, which would raise
\* an error: the clock never goes back.
Mark(m, t) == [n |-> m.n + 1, at |-> t]

NoLevels == [n |-> 0, area |-> 0, at |-> 0, v |-> 0]

\* push((t, v)): the value so far held since the last sample; the time before
\* the first one does not count.
Record(s, t, v) ==
  [n |-> s.n + 1, area |-> IF s.n = 0 THEN 0 ELSE s.area + (t - s.at) * s.v,
   at |-> t, v |-> v]

\* avg_over_time(t): the last value is taken to hold until t.
AvgOverTime(s, t) ==
  IF s.n = 0 THEN Whole(0) ELSE Ratio(s.area + (t - s.at) * s.v, t)
=============================================================================
