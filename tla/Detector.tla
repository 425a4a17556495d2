------------------------------ MODULE Detector ------------------------------
(***************************************************************************)
(* The anomaly detector: a moving average of a series and of its squared   *)
(* deviation, and the test that a value is too far from them.              *)
(*                                                                         *)
(*   src/internal/anomaly/anomaly.go   baseline, Observe                   *)
(*                                                                         *)
(* alpha is 1/4, as main sets it, so that everything is exact: after n     *)
(* values the mean is mean / scale and the variance varc / scale^2, with   *)
(* scale = 4^(n-1). Rounding is left out, and with it the threshold 1e-9   *)
(* below which the code takes a deviation for zero.                        *)
(***************************************************************************)
EXTENDS Integers

CONSTANTS
  ZThreshold,   \* standard deviations that count as anomalous (3)
  Warmup        \* values before the first alert (15)

ASSUME DetectorAssumption ==
  /\ ZThreshold \in Nat /\ ZThreshold >= 2
  /\ Warmup \in Nat \ {0}

Baselines == [mean : Nat, varc : Nat, scale : Nat \ {0}, count : Nat]

\* A series not in the map.
Absent == [mean |-> 0, varc |-> 0, scale |-> 1, count |-> 0]

\* The distance of a value from the mean, over scale.
Deviation(b, x) == x * b.scale - b.mean

First(x) == [mean |-> x, varc |-> 0, scale |-> 1, count |-> 1]

\* Faulty: the squared deviation is left out of the variance; it is not squared;
\* the mean moves away from the value.
UpdatedNarrow(b, x) ==
  LET diff == Deviation(b, x) IN
  [mean |-> 4 * b.mean + diff, varc |-> 12 * b.varc, scale |-> 4 * b.scale,
   count |-> b.count + 1]
UpdatedUnsquared(b, x) ==
  [UpdatedNarrow(b, x) EXCEPT !.varc = 3 * (4 * b.varc + Deviation(b, x))]
UpdatedAway(b, x) ==
  [UpdatedNarrow(b, x) EXCEPT !.mean = 4 * b.mean - Deviation(b, x)]
Updated(b, x) ==
  LET diff == Deviation(b, x) IN
  [mean  |-> 4 * b.mean + diff,
   varc  |-> 3 * (4 * b.varc + diff * diff),
   scale |-> 4 * b.scale,
   count |-> b.count + 1]

Learn(b, x) == IF b.count = 0 THEN First(x) ELSE Updated(b, x)

\* |z| >= ZThreshold, by squares, and the branch for a series that was constant
\* so far. Faulty: a division by zero swallows the jump.
FarIfSpread(b, x) ==
  /\ b.varc > 0
  /\ Deviation(b, x) * Deviation(b, x) >= ZThreshold * ZThreshold * b.varc
Far(b, x) ==
  IF b.varc > 0
  THEN Deviation(b, x) * Deviation(b, x) >= ZThreshold * ZThreshold * b.varc
  ELSE Deviation(b, x) # 0

\* The score is computed against the baseline without the value, the warm-up
\* counts the value.
Anomalous(b, x) == b.count > 0 /\ b.count + 1 >= Warmup /\ Far(b, x)
=============================================================================
