------------------------ MODULE AnomalyWorkerProofs ------------------------
(***************************************************************************)
(* Proofs about Detector and AnomalyWorker, for every set of series and    *)
(* batches and every threshold from 2 on.                                  *)
(***************************************************************************)
EXTENDS AnomalyWorker, ListingProofs, SequenceTheorems

-----------------------------------------------------------------------------
(* Arithmetic of the detector *)

LEMMA SquareIsNat == \A d \in Int : d * d \in Nat
  OBVIOUS

LEMMA SquareIsPositive == \A d \in Int : d # 0 => d * d > 0
  OBVIOUS

\* A square is monotone in the distance from zero.
LEMMA SquareBound ==
  ASSUME NEW d \in Int, NEW r \in Int, -r <= d, d <= r
  PROVE  d * d <= r * r
<1>1. (r - d) * (r + d) >= 0
  BY SMT
<1>2. (r - d) * (r + d) = r * r - d * d
  BY SMT
<1> QED  BY <1>1, <1>2

LEMMA DeviationIsInt ==
  ASSUME NEW b \in Baselines, NEW x \in Nat
  PROVE  Deviation(b, x) \in Int
  BY DEF Deviation, Baselines

\* The mean after a value, written without a difference.
LEMMA MeanOf ==
  ASSUME NEW b \in Baselines, NEW x \in Nat
  PROVE  4 * b.mean + Deviation(b, x) = 3 * b.mean + x * b.scale
<1>1. x * b.scale \in Nat
  BY DEF Baselines
<1> QED  BY <1>1 DEF Deviation, Baselines

\* The fields of an updated baseline.
LEMMA UpdatedFields ==
  ASSUME NEW b \in Baselines, NEW x \in Nat, NEW D \in Int, D = Deviation(b, x)
  PROVE  /\ Updated(b, x) \in Baselines
         /\ Updated(b, x).mean = 4 * b.mean + D
         /\ Updated(b, x).varc = 3 * (4 * b.varc + D * D)
         /\ Updated(b, x).scale = 4 * b.scale
         /\ Updated(b, x).count = b.count + 1
<1>1. D * D \in Nat
  BY SquareIsNat
<1>2. 4 * b.mean + D \in Nat
  <2>1. x * b.scale \in Nat /\ b.mean \in Nat
    BY DEF Baselines
  <2> QED  BY <2>1, MeanOf
<1>3. b.varc \in Nat /\ b.scale \in Nat \ {0} /\ b.count \in Nat
  BY DEF Baselines
<1>4. 3 * (4 * b.varc + D * D) \in Nat
  BY <1>1, <1>3
<1>5. 4 * b.scale \in Nat \ {0} /\ b.count + 1 \in Nat
  BY <1>3
<1> QED  BY <1>2, <1>4, <1>5 DEF Updated, Baselines

\* What a baseline becomes is a baseline of one more value.
LEMMA LearnType ==
  ASSUME NEW b \in Baselines, NEW x \in Nat
  PROVE  Learn(b, x) \in Baselines /\ Learn(b, x).count = b.count + 1
<1>1. CASE b.count = 0
  BY <1>1 DEF Learn, First, Baselines
<1>2. CASE b.count # 0
  <2>1. PICK D \in Int : D = Deviation(b, x)
    BY DeviationIsInt
  <2> QED  BY <1>2, <2>1, UpdatedFields DEF Learn
<1> QED  BY <1>1, <1>2

\* A value is never far from a baseline that has just learned it: the update
\* leaves 3/4 of the distance and adds 3/16 of its square to the variance.
LEMMA NoEcho ==
  ASSUME NEW b \in Baselines, NEW x \in Nat
  PROVE  ~Far(Learn(b, x), x)
<1>1. CASE b.count = 0
  BY <1>1 DEF Learn, First, Far, Deviation
<1>2. CASE b.count # 0
  <2>1. PICK D \in Int : D = Deviation(b, x)
    BY DeviationIsInt
  <2> DEFINE u == Learn(b, x)
  <2>2. /\ u.mean = 4 * b.mean + D /\ u.scale = 4 * b.scale
        /\ u.varc = 3 * (4 * b.varc + D * D)
    BY <1>2, <2>1, UpdatedFields DEF Learn
  <2>3. Deviation(u, x) = 3 * D
    <3>1. x * (4 * b.scale) = 4 * (x * b.scale) /\ x * b.scale \in Nat /\ b.mean \in Nat
      BY DEF Baselines
    <3> QED  BY <2>1, <2>2, <3>1 DEF Deviation
  <2> HIDE DEF u
  <2>4. PICK q \in Nat : q = D * D
    BY SquareIsNat
  <2>5. (3 * D) * (3 * D) = 9 * q
    BY <2>4
  <2>6. PICK v \in Nat : v = b.varc
    BY DEF Baselines
  <2>7. u.varc = 12 * v + 3 * q
    BY <2>2, <2>4, <2>6
  <2>8. CASE u.varc > 0
    <3>1. ZThreshold * ZThreshold >= 4
      BY DetectorAssumption
    <3>2. ZThreshold * ZThreshold * u.varc >= 4 * u.varc
      <4>1. ZThreshold * ZThreshold \in Nat /\ u.varc \in Nat
        BY <2>7, DetectorAssumption
      <4> QED  BY <3>1, <4>1
    <3>3. 9 * q < 4 * (12 * v + 3 * q)
      BY <2>7, <2>8
    <3>4. ZThreshold * ZThreshold * u.varc \in Nat
      BY <2>7, DetectorAssumption
    <3>5. ~(9 * q >= ZThreshold * ZThreshold * u.varc)
      BY <2>7, <3>2, <3>3, <3>4
    <3> QED  BY <2>3, <2>5, <2>8, <3>5 DEF Far, u
  <2>9. CASE ~(u.varc > 0)
    <3>1. D = 0
      BY <2>4, <2>7, <2>9, SquareIsPositive
    <3> QED  BY <2>3, <2>9, <3>1 DEF Far, u
  <2> QED  BY <2>8, <2>9
<1> QED  BY <1>1, <1>2

\* Values within lo..hi keep the mean there, and the variance below 3/4 of the
\* square of hi - lo.
Within(b, lo, hi) ==
  /\ lo * b.scale <= b.mean
  /\ b.mean <= hi * b.scale
  /\ 4 * b.varc <= 3 * ((hi - lo) * b.scale) * ((hi - lo) * b.scale)

LEMMA LearnWithin ==
  ASSUME NEW b \in Baselines, NEW x \in Nat, NEW lo \in Nat, NEW hi \in Nat,
         lo <= x, x <= hi, b.count # 0 => Within(b, lo, hi)
  PROVE  Within(Learn(b, x), lo, hi)
<1>1. CASE b.count = 0
  <2>1. Learn(b, x) = [mean |-> x, varc |-> 0, scale |-> 1, count |-> 1]
    BY <1>1 DEF Learn, First
  <2>2. (hi - lo) * (hi - lo) \in Nat
    BY SquareIsNat
  <2> QED  BY <2>1, <2>2 DEF Within
<1>2. CASE b.count # 0
  <2>1. PICK D \in Int : D = Deviation(b, x)
    BY DeviationIsInt
  <2> DEFINE u == Learn(b, x)
  <2>2. /\ u.mean = 4 * b.mean + D /\ u.scale = 4 * b.scale
        /\ u.varc = 3 * (4 * b.varc + D * D)
    BY <1>2, <2>1, UpdatedFields DEF Learn
  <2> HIDE DEF u
  <2>3. /\ b.mean \in Nat /\ b.varc \in Nat /\ b.scale \in Nat \ {0}
    BY DEF Baselines
  <2>4. PICK l \in Int, h \in Int, y \in Int :
          l = lo * b.scale /\ h = hi * b.scale /\ y = x * b.scale
    BY <2>3
  <2>5. l <= y /\ y <= h
    BY <2>3, <2>4
  <2>6. D = y - b.mean
    BY <2>1, <2>4 DEF Deviation
  <2>7. l <= b.mean /\ b.mean <= h
    BY <1>2, <2>4 DEF Within
  <2>8. lo * u.scale = 4 * l /\ hi * u.scale = 4 * h
    BY <2>2, <2>3, <2>4
  <2>9. (hi - lo) * b.scale = h - l /\ (hi - lo) * u.scale = 4 * (h - l)
    <3>1. \A z \in Int : (hi - lo) * z = hi * z - lo * z
      OBVIOUS
    <3>2. (hi - lo) * b.scale = h - l
      BY <2>3, <2>4, <3>1
    <3>3. u.scale \in Int
      BY <2>2, <2>3
    <3>4. (hi - lo) * u.scale = 4 * h - 4 * l
      BY <2>8, <3>1, <3>3
    <3> QED  BY <3>2, <3>4
  <2>10. PICK r \in Int : r = h - l
    OBVIOUS
  <2>11. D * D <= r * r /\ D * D \in Nat /\ r * r \in Nat
    <3>1. -r <= D /\ D <= r
      BY <2>3, <2>5, <2>6, <2>7, <2>10
    <3> QED  BY <3>1, SquareBound, SquareIsNat
  <2>12. PICK p \in Nat, q \in Nat : p = D * D /\ q = r * r
    BY <2>11
  <2>13. 4 * b.varc <= 3 * q
    <3>1. 3 * r * r = 3 * q
      BY <2>12
    <3> QED  BY <1>2, <2>9, <2>10, <3>1 DEF Within
  <2>14. 4 * u.varc <= 48 * q
    <3>1. u.varc = 12 * b.varc + 3 * p
      BY <2>2, <2>3, <2>12
    <3> QED  BY <2>3, <2>11, <2>12, <2>13, <3>1
  <2>15. 3 * (4 * r) * (4 * r) = 48 * q
    BY <2>12
  <2>16. 4 * l <= u.mean /\ u.mean <= 4 * h
    BY <2>2, <2>3, <2>5, <2>6, <2>7
  <2> QED  BY <2>8, <2>9, <2>10, <2>14, <2>15, <2>16 DEF Within, u
<1> QED  BY <1>1, <1>2

\* A constant series has exactly its value as mean, and no variance.
Constant(b, v) == b.mean = v * b.scale /\ b.varc = 0

LEMMA LearnConstant ==
  ASSUME NEW b \in Baselines, NEW v \in Nat, b.count # 0 => Constant(b, v)
  PROVE  Constant(Learn(b, v), v)
<1>1. CASE b.count = 0
  BY <1>1 DEF Learn, First, Constant
<1>2. CASE b.count # 0
  <2>1. Deviation(b, v) = 0
    BY <1>2 DEF Constant, Deviation, Baselines
  <2>2. /\ Learn(b, v).mean = 4 * b.mean + 0 /\ Learn(b, v).scale = 4 * b.scale
        /\ Learn(b, v).varc = 3 * (4 * b.varc + 0 * 0)
    BY <1>2, <2>1, UpdatedFields DEF Learn
  <2>3. v * (4 * b.scale) = 4 * (v * b.scale) /\ b.mean \in Nat /\ v * b.scale \in Nat
    BY DEF Baselines
  <2> QED  BY <1>2, <2>2, <2>3 DEF Constant
<1> QED  BY <1>1, <1>2

\* Any other value is far from it.
LEMMA JumpIsFar ==
  ASSUME NEW b \in Baselines, NEW v \in Nat, NEW x \in Nat, Constant(b, v), x # v
  PROVE  Far(b, x)
<1>1. x * b.scale # v * b.scale
  BY DEF Baselines
<1> QED  BY <1>1 DEF Far, Constant, Deviation, Baselines

-----------------------------------------------------------------------------
(* Types, and the order of the IDs *)

Ticking == {"observe", "push", "notify"}

RangeInv ==
  /\ lastID <= Len(store)
  /\ wpc \in Ticking => lastID <= until /\ until <= Len(store)
  /\ wpc = "push" => Len(raised) > 0

\* Appending a batch keeps the entries already stored.
LEMMA WriteKeeps ==
  ASSUME TypeOK, NEW b \in Batches, WriteBatch(b)
  PROVE  /\ store' \in Seq(Entries)
         /\ Len(store') >= Len(store)
         /\ \A id \in 1..Len(store) : store'[id] = store[id]
<1>1. store \in Seq(Entries) /\ b \in Seq(Entries) /\ store' = store \o b
  BY AnomalyWorkerAssumption DEF TypeOK, WriteBatch
<1>2. Len(b) \in Nat /\ Len(store) \in Nat
  BY <1>1
<1>3. Len(store') = Len(store) + Len(b)
  BY <1>1
<1>4. \A id \in 1..Len(store) : store'[id] = store[id]
  BY <1>1
<1>5. store' \in Seq(Entries)
  BY <1>1
<1> QED  BY <1>2, <1>3, <1>4, <1>5

\* The errors in a range of IDs can be counted.
LEMMA ErrorsAreFinite ==
  ASSUME NEW k, NEW i \in Int, NEW j \in Int
  PROVE  /\ IsFiniteSet(Errors(k, i..j))
         /\ Cardinality(Errors(k, i..j)) \in Nat
<1>1. IsFiniteSet(i..j)
  BY FS_Interval
<1>2. Errors(k, i..j) \in SUBSET (i..j)
  BY DEF Errors
<1> QED  BY <1>1, <1>2, FS_Subset, FS_CardinalityType

\* The newest part of a sequence is a sequence of the same things.
LEMMA NewestType ==
  ASSUME NEW S, NEW s \in Seq(S), NEW n \in Nat
  PROVE  Newest(s, n) \in Seq(S)
<1>1. Len(s) \in Nat /\ Least(n, Len(s)) \in 0..Len(s)
  BY DEF Least
<1>2. Len(s) - Least(n, Len(s)) + 1 \in 1..(Len(s) + 1)
  BY <1>1
<1> QED  BY <1>2 DEF Newest

\* What Tick reads: a window within the store, its counts, its series.
LEMMA TickReads ==
  ASSUME TypeOK, RangeInv, Tick
  PROVE  /\ until' \in Nat /\ lastID < until' /\ until' <= Len(store)
         /\ window' \in [Series -> Nat]
         /\ todo' \subseteq Series
<1>1. Len(store) \in Nat /\ lastID \in Nat /\ Len(store) > lastID
  BY DEF TypeOK, Tick, Fresh
<1>2. until' \in Nat /\ lastID < until' /\ until' <= Len(store)
  BY <1>1, AnomalyWorkerAssumption DEF Tick, Least
<1>3. window' \in [Series -> Nat]
  <2>1. \A k \in Series : Cardinality(Errors(k, (lastID + 1)..until')) \in Nat
    BY <1>1, <1>2, ErrorsAreFinite
  <2> QED  BY <2>1 DEF Tick
<1>4. \A id \in (lastID + 1)..until' : store[id].series \in Series
  <2>1. \A id \in (lastID + 1)..until' : id \in 1..Len(store)
    BY <1>1, <1>2
  <2>2. \A id \in 1..Len(store) : store[id] \in Entries
    BY DEF TypeOK
  <2> QED  BY <2>1, <2>2 DEF Entries
<1> QED  BY <1>2, <1>3, <1>4 DEF Tick

\* Every variable keeps its type and the checkpoint stays behind the window,
\* which stays within the store.
THEOREM TypeCorrect == Spec => [](TypeOK /\ RangeInv)
<1> USE AnomalyWorkerAssumption DEF Ticking
<1>1. Init => TypeOK /\ RangeInv
  <2> SUFFICES ASSUME Init
               PROVE  TypeOK /\ RangeInv
    OBVIOUS
  <2>1. Absent \in Baselines
    BY DEF Absent, Baselines
  <2>2. store \in Seq(Entries) /\ feed \in Seq(Events) /\ raised \in Seq(Events)
    BY DEF Init
  <2>3. base \in [Series -> Baselines]
    BY <2>1 DEF Init
  <2>4. values \in [Series -> Seq(Nat)]
    BY DEF Init
  <2>5. /\ todo \subseteq Series /\ window \in [Series -> Nat]
        /\ total \in [Series -> Nat]
    BY DEF Init
  <2>6. RangeInv
    BY DEF Init, RangeInv
  <2> QED  BY <2>2, <2>3, <2>4, <2>5, <2>6 DEF Init, TypeOK
<1>2. TypeOK /\ RangeInv /\ [Next]_vars => (TypeOK /\ RangeInv)'
  <2> SUFFICES ASSUME TypeOK, RangeInv, [Next]_vars
               PROVE  TypeOK' /\ RangeInv'
    OBVIOUS
  <2> USE DEF worker, history
  <2>0. Len(store) \in Nat /\ Len(raised) \in Nat
    BY DEF TypeOK
  <2>1. ASSUME NEW b \in Batches, WriteBatch(b)
        PROVE  TypeOK' /\ RangeInv'
    <3>1. store' \in Seq(Entries) /\ Len(store') >= Len(store)
      BY <2>1, WriteKeeps
    <3>2. Len(store') \in Nat
      BY <3>1
    <3>3. UNCHANGED <<lastID, base, feed, events, worker, ctxDone, history>>
      BY <2>1 DEF WriteBatch
    <3> QED  BY <2>0, <3>1, <3>2, <3>3 DEF TypeOK, RangeInv
  <2>2. CASE Signal
    BY <2>2 DEF Signal, TypeOK, RangeInv
  <2>3. CASE Leave
    BY <2>3 DEF Leave, TypeOK, RangeInv
  <2>4. CASE Tick
    <3>1. /\ until' \in Nat /\ lastID < until' /\ until' <= Len(store)
          /\ window' \in [Series -> Nat] /\ todo' \subseteq Series
      BY <2>4, TickReads
    <3> QED  BY <2>0, <2>4, <3>1 DEF Tick, TypeOK, RangeInv
  <2>5. ASSUME NEW k \in Series, Observe(k)
        PROVE  /\ todo' \subseteq Series
               /\ base' \in [Series -> Baselines]
               /\ values' \in [Series -> Seq(Nat)]
               /\ total' \in [Series -> Nat]
    <3>1. window[k] \in Nat /\ base[k] \in Baselines
      BY DEF TypeOK
    <3>2. Learn(base[k], window[k]) \in Baselines
      BY <3>1, LearnType
    <3> QED  BY <2>5, <3>1, <3>2 DEF Observe, TypeOK
  <2>6. ASSUME NEW k \in Series, ObserveNormal(k)
        PROVE  TypeOK' /\ RangeInv'
    BY <2>5, <2>6 DEF ObserveNormal, TypeOK, RangeInv
  <2>7. ASSUME NEW k \in Series, ObserveAnomaly(k)
        PROVE  TypeOK' /\ RangeInv'
    <3> DEFINE e == [series |-> k, value |-> window[k], n |-> base[k].count + 1]
    <3>1. e \in Events
      <4>1. base[k] \in Baselines /\ window[k] \in Nat
        BY DEF TypeOK
      <4>2. base[k].count + 1 \in Nat \ {0}
        BY <4>1 DEF Baselines
      <4> QED  BY <4>1, <4>2 DEF Events
    <3>2. raised' = Append(raised, e)
      BY <2>7 DEF ObserveAnomaly
    <3> HIDE DEF e
    <3>3. raised' \in Seq(Events) /\ Len(raised') = Len(raised) + 1
      BY <3>1, <3>2 DEF TypeOK
    <3>4. Len(raised') > 0
      BY <2>0, <3>3
    <3>5. /\ wpc = "observe" /\ wpc' = "push"
          /\ UNCHANGED <<store, lastID, feed, events, until, window, ctxDone>>
      BY <2>7 DEF ObserveAnomaly, Observe
    <3>6. Observe(k)
      BY <2>7 DEF ObserveAnomaly
    <3> QED  BY <2>5, <3>3, <3>4, <3>5, <3>6 DEF TypeOK, RangeInv
  <2>8. CASE Push
    <3>1. raised[Len(raised)] \in Events
      BY <2>0, <2>8 DEF Push, TypeOK, RangeInv
    <3>2. Append(feed, raised[Len(raised)]) \in Seq(Events)
      BY <3>1 DEF TypeOK
    <3>3. feed' \in Seq(Events)
      BY <2>8, <3>2, NewestType DEF Push, Pushed
    <3> QED  BY <2>8, <3>3 DEF Push, TypeOK, RangeInv
  <2>9. CASE OnEvent
    BY <2>9 DEF OnEvent, TypeOK, RangeInv
  <2>10. CASE EndTick
    BY <2>10 DEF EndTick, WindowEnd, TypeOK, RangeInv
  <2>11. CASE UNCHANGED vars
    BY <2>11 DEF vars, TypeOK, RangeInv
  <2> QED
    BY <2>1, <2>2, <2>3, <2>4, <2>6, <2>7, <2>8, <2>9, <2>10, <2>11
       DEF Next, Work, Terminated
<1> QED  BY <1>1, <1>2, PTL DEF Spec

-----------------------------------------------------------------------------
(* The baselines and the values they have learned *)

\* What is known of the baseline of one series, from its values.
Fits(b, seq) ==
  /\ b.count = Len(seq)
  /\ Len(seq) > 0 => ~Far(b, seq[Len(seq)])
  /\ \A v \in Nat :
       Len(seq) > 0 /\ (\A i \in 1..Len(seq) : seq[i] = v) => Constant(b, v)
  /\ \A lo, hi \in Nat :
       Len(seq) > 0 /\ (\A i \in 1..Len(seq) : lo <= seq[i] /\ seq[i] <= hi)
         => Within(b, lo, hi)

\* Learning a value and appending it keeps a baseline and its values together.
LEMMA LearnFits ==
  ASSUME NEW b \in Baselines, NEW seq \in Seq(Nat), NEW x \in Nat, Fits(b, seq)
  PROVE  Fits(Learn(b, x), Append(seq, x))
<1> DEFINE t == Append(seq, x)
<1>1. /\ t \in Seq(Nat) /\ Len(t) = Len(seq) + 1
      /\ \A i \in 1..Len(seq) : t[i] = seq[i]
      /\ t[Len(seq) + 1] = x
      /\ Len(seq) \in Nat
  OBVIOUS
<1> HIDE DEF t
<1>2. Learn(b, x).count = Len(t)
  BY <1>1, LearnType DEF Fits
<1>3. ~Far(Learn(b, x), t[Len(t)])
  BY <1>1, NoEcho
<1>4. ASSUME NEW v \in Nat, \A i \in 1..Len(t) : t[i] = v
      PROVE  Constant(Learn(b, x), v)
  <2>1. x = v
    BY <1>1, <1>4
  <2>2. \A i \in 1..Len(seq) : seq[i] = v
    BY <1>1, <1>4
  <2>3. b.count # 0 => Constant(b, v)
    BY <1>1, <2>2 DEF Fits
  <2> QED  BY <2>1, <2>3, LearnConstant
<1>5. ASSUME NEW lo \in Nat, NEW hi \in Nat,
             \A i \in 1..Len(t) : lo <= t[i] /\ t[i] <= hi
      PROVE  Within(Learn(b, x), lo, hi)
  <2>1. lo <= x /\ x <= hi
    BY <1>1, <1>5
  <2>2. \A i \in 1..Len(seq) : lo <= seq[i] /\ seq[i] <= hi
    BY <1>1, <1>5
  <2>3. b.count # 0 => Within(b, lo, hi)
    BY <1>1, <2>2 DEF Fits
  <2> QED  BY <2>1, <2>3, LearnWithin
<1>6. Fits(Learn(b, x), t)
  BY <1>2, <1>3, <1>4, <1>5 DEF Fits
<1> QED  BY <1>6 DEF t

BaseInv == \A k \in Series : Fits(base[k], values[k])

\* Steps that observe nothing.
LEMMA OtherSteps ==
  ASSUME [Next]_vars, ~(\E k \in Series : ObserveNormal(k) \/ ObserveAnomaly(k))
  PROVE  UNCHANGED <<base, history>>
  BY DEF Next, Work, Terminated, vars, WriteBatch, Signal, Leave, Tick, Push, OnEvent,
         EndTick, history

LEMMA BaseInvariant == Spec => []BaseInv
<1>1. Init => BaseInv
  <2> SUFFICES ASSUME Init, NEW k \in Series
               PROVE  Fits(base[k], values[k])
    BY DEF BaseInv
  <2>1. base[k].count = 0 /\ values[k] = <<>> /\ Len(values[k]) = 0
    BY DEF Init, Absent
  <2> QED  BY <2>1 DEF Fits
<1>2. TypeOK /\ BaseInv /\ [Next]_vars => BaseInv'
  <2> SUFFICES ASSUME TypeOK, BaseInv, [Next]_vars
               PROVE  BaseInv'
    OBVIOUS
  <2>1. ASSUME NEW k \in Series, Observe(k)
        PROVE  BaseInv'
    <3> SUFFICES ASSUME NEW j \in Series
                 PROVE  Fits(base'[j], values'[j])
      BY DEF BaseInv
    <3>1. CASE j # k
      BY <2>1, <3>1 DEF Observe, BaseInv, TypeOK
    <3>2. CASE j = k
      <4>1. /\ base[k] \in Baselines /\ values[k] \in Seq(Nat) /\ window[k] \in Nat
        BY DEF TypeOK
      <4>2. /\ base'[k] = Learn(base[k], window[k])
            /\ values'[k] = Append(values[k], window[k])
        BY <2>1 DEF Observe, TypeOK
      <4>3. Fits(base[k], values[k])
        BY DEF BaseInv
      <4>4. Fits(Learn(base[k], window[k]), Append(values[k], window[k]))
        BY <4>1, <4>3, LearnFits
      <4> QED  BY <3>2, <4>2, <4>4
    <3> QED  BY <3>1, <3>2
  <2>2. CASE UNCHANGED <<base, history>>
    BY <2>2 DEF BaseInv, history
  <2> QED  BY <2>1, <2>2, OtherSteps DEF ObserveNormal, ObserveAnomaly
<1> QED  BY <1>1, <1>2, TypeCorrect, PTL DEF Spec

\* No sequence of counts drives a baseline out of the range of the counts.
THEOREM BaselineHolds == Spec => []BaselineBounded
<1>1. TypeOK /\ BaseInv => BaselineBounded
  <2> SUFFICES ASSUME TypeOK, BaseInv, NEW k \in Series,
                      NEW lo \in {values[k][i] : i \in 1..Len(values[k])},
                      NEW hi \in {values[k][i] : i \in 1..Len(values[k])},
                      \A i \in 1..Len(values[k]) : lo <= values[k][i] /\ values[k][i] <= hi
               PROVE  Within(base[k], lo, hi)
    BY DEF BaselineBounded, Within
  <2>1. values[k] \in Seq(Nat) /\ Len(values[k]) \in Nat
    BY DEF TypeOK
  <2>2. lo \in Nat /\ hi \in Nat /\ Len(values[k]) > 0
    BY <2>1
  <2>3. Fits(base[k], values[k])
    BY DEF BaseInv
  <2> QED  BY <2>2, <2>3 DEF Fits
<1> QED  BY <1>1, TypeCorrect, BaseInvariant, PTL

-----------------------------------------------------------------------------
(* What is raised *)

\* Observing a series appends to its values and leaves the others alone.
LEMMA ObserveAppends ==
  ASSUME TypeOK, BaseInv, NEW k \in Series, Observe(k)
  PROVE  /\ \A j \in Series :
              /\ Len(values'[j]) \in Nat /\ Len(values'[j]) >= Len(values[j])
              /\ \A i \in 1..Len(values[j]) : values'[j][i] = values[j][i]
              /\ j # k => values'[j] = values[j]
         /\ Len(values'[k]) = Len(values[k]) + 1
         /\ values'[k][Len(values[k]) + 1] = window[k]
         /\ base[k].count = Len(values[k]) /\ Len(values[k]) \in Nat
         /\ base[k] \in Baselines /\ window[k] \in Nat
<1>1. /\ \A j \in Series : values[j] \in Seq(Nat)
      /\ base[k] \in Baselines /\ window[k] \in Nat
  BY DEF TypeOK
<1>2. /\ values'[k] = Append(values[k], window[k])
      /\ \A j \in Series : j # k => values'[j] = values[j]
  BY DEF Observe, TypeOK
<1>3. /\ Len(values'[k]) = Len(values[k]) + 1
      /\ \A i \in 1..Len(values[k]) : values'[k][i] = values[k][i]
      /\ values'[k][Len(values[k]) + 1] = window[k]
  BY <1>1, <1>2
<1>4. base[k].count = Len(values[k])
  BY DEF BaseInv, Fits
<1>5. \A j \in Series : Len(values[j]) \in Nat
  BY <1>1
<1>6. ASSUME NEW j \in Series
      PROVE  /\ Len(values'[j]) \in Nat /\ Len(values'[j]) >= Len(values[j])
             /\ \A i \in 1..Len(values[j]) : values'[j][i] = values[j][i]
             /\ j # k => values'[j] = values[j]
  <2>1. CASE j = k
    BY <1>3, <1>5, <2>1
  <2>2. CASE j # k
    BY <1>2, <1>5, <2>2
  <2> QED  BY <2>1, <2>2
<1> QED  BY <1>1, <1>3, <1>4, <1>5, <1>6

\* Raising appends an event to the history.
LEMMA RaiseAppends ==
  ASSUME TypeOK, BaseInv, NEW k \in Series, ObserveAnomaly(k)
  PROVE  /\ Len(raised') = Len(raised) + 1 /\ Len(raised) \in Nat
         /\ \A i \in 1..Len(raised) : raised'[i] = raised[i]
         /\ raised'[Len(raised) + 1] =
              [series |-> k, value |-> window[k], n |-> Len(values[k]) + 1]
<1>1. base[k].count = Len(values[k])
  BY DEF BaseInv, Fits
<1> DEFINE e == [series |-> k, value |-> window[k], n |-> Len(values[k]) + 1]
<1>2. raised' = Append(raised, e) /\ raised \in Seq(Events)
  BY <1>1 DEF ObserveAnomaly, TypeOK
<1> HIDE DEF e
<1>3. /\ Len(raised') = Len(raised) + 1 /\ Len(raised) \in Nat
      /\ \A i \in 1..Len(raised) : raised'[i] = raised[i]
      /\ raised'[Len(raised) + 1] = e
  BY <1>2
<1> QED  BY <1>3 DEF e

\* A sustained level raises one event at most, and only after the warm-up.
THEOREM EarnedHolds == Spec => []EventsAreEarned
<1>1. Init => EventsAreEarned
  BY DEF Init, EventsAreEarned
<1>2. TypeOK /\ BaseInv /\ EventsAreEarned /\ [Next]_vars => EventsAreEarned'
  <2> SUFFICES ASSUME TypeOK, BaseInv, EventsAreEarned, [Next]_vars
               PROVE  EventsAreEarned'
    OBVIOUS
  <2> DEFINE Earned(e, vs) ==
               /\ e.n \in 2..Len(vs[e.series]) /\ e.n >= Warmup
               /\ vs[e.series][e.n] = e.value
               /\ vs[e.series][e.n - 1] # e.value
  <2>0. \A i \in 1..Len(raised) : raised[i] \in Events /\ Earned(raised[i], values)
    BY DEF EventsAreEarned, TypeOK
  <2>1. ASSUME NEW k \in Series, Observe(k),
               NEW e \in Events, Earned(e, values)
        PROVE  Earned(e, values')
    <3>1. e.series \in Series
      BY DEF Events
    <3>2. /\ Len(values'[e.series]) >= Len(values[e.series])
          /\ Len(values'[e.series]) \in Nat
          /\ \A i \in 1..Len(values[e.series]) :
               values'[e.series][i] = values[e.series][i]
      BY <2>1, <3>1, ObserveAppends
    <3>3. Len(values[e.series]) \in Nat
      <4>1. values[e.series] \in Seq(Nat)
        BY <3>1 DEF TypeOK
      <4> QED  BY <4>1
    <3>4. e.n \in 1..Len(values[e.series]) /\ e.n - 1 \in 1..Len(values[e.series])
      BY <2>1, <3>3
    <3> QED  BY <2>1, <3>2, <3>3, <3>4
  <2>2. ASSUME NEW k \in Series, ObserveNormal(k)
        PROVE  EventsAreEarned'
    <3>1. raised' = raised /\ Observe(k)
      BY <2>2 DEF ObserveNormal
    <3>2. \A i \in 1..Len(raised) : Earned(raised[i], values')
      BY <2>0, <2>1, <3>1
    <3> QED  BY <3>1, <3>2 DEF EventsAreEarned
  <2>3. ASSUME NEW k \in Series, ObserveAnomaly(k)
        PROVE  EventsAreEarned'
    <3> DEFINE e == [series |-> k, value |-> window[k], n |-> Len(values[k]) + 1]
    <3>1. Observe(k) /\ Anomalous(base[k], window[k])
      BY <2>3 DEF ObserveAnomaly
    <3>2. /\ Len(values'[k]) = Len(values[k]) + 1
          /\ values'[k][Len(values[k]) + 1] = window[k]
          /\ \A i \in 1..Len(values[k]) : values'[k][i] = values[k][i]
          /\ base[k].count = Len(values[k]) /\ Len(values[k]) \in Nat
      BY <3>1, ObserveAppends
    <3>3. Len(values[k]) > 0 /\ Len(values[k]) + 1 >= Warmup /\ Far(base[k], window[k])
      BY <3>1, <3>2 DEF Anomalous
    <3>4. window[k] # values[k][Len(values[k])]
      BY <3>3 DEF BaseInv, Fits
    <3>5. values'[k][Len(values[k])] = values[k][Len(values[k])]
      BY <3>2, <3>3
    <3>6. Earned(e, values')
      <4>1. e.series = k /\ e.value = window[k] /\ e.n = Len(values[k]) + 1
        OBVIOUS
      <4>2. e.n \in 2..Len(values'[k]) /\ e.n - 1 = Len(values[k])
        BY <3>2, <3>3, <4>1
      <4> HIDE DEF e
      <4> QED  BY <3>2, <3>3, <3>4, <3>5, <4>1, <4>2
    <3>7. \A i \in 1..Len(raised) : Earned(raised[i], values')
      BY <2>0, <2>1, <3>1
    <3>8. /\ Len(raised') = Len(raised) + 1 /\ Len(raised) \in Nat
          /\ \A i \in 1..Len(raised) : raised'[i] = raised[i]
          /\ raised'[Len(raised) + 1] = e
      BY <2>3, RaiseAppends
    <3> HIDE DEF e
    <3>9. ASSUME NEW i \in 1..Len(raised')
          PROVE  Earned(raised'[i], values')
      <4>1. CASE i \in 1..Len(raised)
        BY <3>7, <3>8, <4>1
      <4>2. CASE i = Len(raised) + 1
        BY <3>6, <3>8, <4>2
      <4> QED  BY <3>8, <4>1, <4>2
    <3> QED  BY <3>9 DEF EventsAreEarned
  <2>4. CASE UNCHANGED <<base, history>>
    BY <2>4 DEF EventsAreEarned, history
  <2> QED  BY <2>2, <2>3, <2>4, OtherSteps
<1> QED  BY <1>1, <1>2, TypeCorrect, BaseInvariant, PTL DEF Spec

\* The first departure from a constant series raises an event, although the
\* variance by which the score is divided is zero.
THEOREM JumpsAreRaised == Spec => []JumpRaises
<1> DEFINE Jump(seq, n) ==
             /\ n >= Warmup
             /\ \A i \in 1..(n - 1) : seq[i] = seq[1]
             /\ seq[n] # seq[1]
           Reported(k, n, r) ==
             \E i \in 1..Len(r) : r[i].series = k /\ r[i].n = n
<1>1. Init => JumpRaises
  BY DEF Init, JumpRaises
<1>2. TypeOK /\ BaseInv /\ JumpRaises /\ [Next]_vars => JumpRaises'
  <2> SUFFICES ASSUME TypeOK, BaseInv, JumpRaises, [Next]_vars
               PROVE  JumpRaises'
    OBVIOUS
  <2>1. ASSUME NEW k \in Series, ObserveNormal(k) \/ ObserveAnomaly(k),
               NEW j \in Series, NEW n \in 2..Len(values'[j]), Jump(values'[j], n)
        PROVE  Reported(j, n, raised')
    <3>1. Observe(k)
      BY <2>1 DEF ObserveNormal, ObserveAnomaly
    <3>2. /\ Len(values'[k]) = Len(values[k]) + 1
          /\ values'[k][Len(values[k]) + 1] = window[k]
          /\ base[k].count = Len(values[k]) /\ Len(values[k]) \in Nat
          /\ base[k] \in Baselines /\ window[k] \in Nat
          /\ \A i \in 1..Len(values[j]) : values'[j][i] = values[j][i]
          /\ j # k => values'[j] = values[j]
          /\ Len(values'[j]) \in Nat
      BY <3>1, ObserveAppends
    <3>3. CASE n <= Len(values[j])
      <4>1. \A i \in 1..n : values'[j][i] = values[j][i]
        BY <3>2, <3>3
      <4>2. Jump(values[j], n)
        BY <2>1, <4>1
      <4>3. n \in 2..Len(values[j])
        BY <3>3
      <4>4. Reported(j, n, raised)
        BY <4>2, <4>3 DEF JumpRaises
      <4>5. CASE ObserveNormal(k)
        BY <4>4, <4>5 DEF ObserveNormal
      <4>6. CASE ObserveAnomaly(k)
        <5>1. /\ Len(raised') = Len(raised) + 1 /\ Len(raised) \in Nat
              /\ \A i \in 1..Len(raised) : raised'[i] = raised[i]
          BY <4>6, RaiseAppends
        <5> QED  BY <4>4, <5>1
      <4> QED  BY <2>1, <4>5, <4>6
    <3>4. CASE n > Len(values[j])
      <4>1. j = k /\ n = Len(values[k]) + 1
        <5>1. Len(values[j]) \in Nat
          <6>1. values[j] \in Seq(Nat)
            BY DEF TypeOK
          <6> QED  BY <6>1
        <5> QED  BY <3>2, <3>4, <5>1
      <4>2. /\ Len(values[k]) > 0
            /\ values[k] \in Seq(Nat)
        BY <3>2, <4>1 DEF TypeOK
      <4>3. PICK v \in Nat : v = values[k][1]
        BY <4>2
      <4>4. \A i \in 1..Len(values[k]) : values[k][i] = v
        BY <2>1, <3>2, <4>1, <4>2, <4>3
      <4>5. window[k] # v
        BY <2>1, <3>2, <4>1, <4>2, <4>3
      <4>6. Constant(base[k], v)
        BY <4>2, <4>4 DEF BaseInv, Fits
      <4>7. Far(base[k], window[k])
        BY <3>2, <4>5, <4>6, JumpIsFar
      <4>8. Anomalous(base[k], window[k])
        BY <2>1, <3>2, <4>1, <4>2, <4>7 DEF Anomalous
      <4>9. ObserveAnomaly(k)
        BY <2>1, <4>8 DEF ObserveNormal
      <4>10. /\ Len(raised') = Len(raised) + 1 /\ Len(raised) \in Nat
             /\ raised'[Len(raised) + 1].series = k
             /\ raised'[Len(raised) + 1].n = n
        <5>1. /\ Len(raised') = Len(raised) + 1 /\ Len(raised) \in Nat
              /\ raised'[Len(raised) + 1] =
                   [series |-> k, value |-> window[k], n |-> Len(values[k]) + 1]
          BY <4>9, RaiseAppends
        <5> QED  BY <4>1, <5>1
      <4>11. Len(raised) + 1 \in 1..Len(raised')
        BY <4>10
      <4> QED  BY <4>1, <4>10, <4>11
    <3> QED  BY <3>2, <3>3, <3>4
  <2>2. CASE \E k \in Series : ObserveNormal(k) \/ ObserveAnomaly(k)
    BY <2>1, <2>2 DEF JumpRaises
  <2>3. CASE UNCHANGED <<base, history>>
    BY <2>3 DEF JumpRaises, history
  <2> QED  BY <2>2, <2>3, OtherSteps
<1> QED  BY <1>1, <1>2, TypeCorrect, BaseInvariant, PTL DEF Spec

-----------------------------------------------------------------------------
(* Every entry in one window *)

\* The counts of the window under way, and that what is not to be observed has
\* nothing in it.
CountInv ==
  \A k \in Series :
    /\ total[k] = Cardinality(Errors(k, 1..Covered(k)))
    /\ wpc \in Ticking =>
         window[k] = Cardinality(Errors(k, (lastID + 1)..until))

\* Two ranges that meet: the errors of both are those of each.
LEMMA ErrorsAdd ==
  ASSUME NEW k, NEW i \in Nat, NEW j \in Nat, i <= j
  PROVE  Cardinality(Errors(k, 1..j)) =
           Cardinality(Errors(k, 1..i)) + Cardinality(Errors(k, (i + 1)..j))
<1> DEFINE A == Errors(k, 1..i)
           B == Errors(k, (i + 1)..j)
<1>1. Errors(k, 1..j) = A \cup B /\ A \cap B = {}
  BY DEF Errors
<1>2. IsFiniteSet(A) /\ IsFiniteSet(B)
  BY ErrorsAreFinite
<1>3. Cardinality(A \cup B) = Cardinality(A) + Cardinality(B) - Cardinality(A \cap B)
  BY <1>2, FS_Union
<1>4. Cardinality(A \cap B) = 0
  BY <1>1, FS_EmptySet
<1>5. Cardinality(A) \in Nat /\ Cardinality(B) \in Nat
  BY ErrorsAreFinite
<1>6. Cardinality(Errors(k, 1..j)) = Cardinality(A \cup B)
  BY <1>1, Zenon
<1> HIDE DEF A, B
<1>7. Cardinality(A \cup B) = Cardinality(A) + Cardinality(B)
  BY <1>3, <1>4, <1>5
<1>8. Cardinality(Errors(k, 1..j)) = Cardinality(A) + Cardinality(B)
  BY <1>6, <1>7, Zenon
<1> QED  BY <1>8 DEF A, B

LEMMA CountInvariant == Spec => []CountInv
<1> USE DEF Ticking
<1>1. Init => CountInv
  <2> SUFFICES ASSUME Init, NEW k \in Series
               PROVE  /\ total[k] = Cardinality(Errors(k, 1..Covered(k)))
                      /\ wpc \notin Ticking
    BY DEF CountInv
  <2>1. Covered(k) = 0 /\ Errors(k, 1..0) = {} /\ total[k] = 0
    BY DEF Init, Covered, Errors
  <2> QED  BY <2>1, FS_EmptySet DEF Init
<1>2. TypeOK /\ RangeInv /\ CountInv /\ [Next]_vars => CountInv'
  <2> SUFFICES ASSUME TypeOK, RangeInv, CountInv, [Next]_vars
               PROVE  CountInv'
    OBVIOUS
  <2> USE DEF worker, history
  <2>0. /\ Len(store) \in Nat /\ lastID \in Nat /\ until \in Nat
        /\ \A k \in Series : window[k] \in Nat /\ total[k] \in Nat
    BY DEF TypeOK
  <2>1. ASSUME NEW b \in Batches, WriteBatch(b)
        PROVE  CountInv'
    <3>1. \A id \in 1..Len(store) : store'[id] = store[id]
      BY <2>1, WriteKeeps
    <3>2. UNCHANGED <<lastID, worker, history>>
      BY <2>1 DEF WriteBatch
    <3>3. ASSUME NEW k \in Series
          PROVE  /\ Errors(k, 1..Covered(k))' = Errors(k, 1..Covered(k))
                 /\ wpc \in Ticking =>
                      Errors(k, (lastID + 1)..until)' = Errors(k, (lastID + 1)..until)
      <4>1. Covered(k)' = Covered(k) /\ Covered(k) \in Nat /\ Covered(k) <= Len(store)
        BY <2>0, <3>2 DEF Covered, RangeInv
      <4>2. \A id \in 1..Covered(k) : id \in 1..Len(store)
        BY <2>0, <4>1
      <4>3. wpc \in Ticking => \A id \in (lastID + 1)..until : id \in 1..Len(store)
        BY <2>0 DEF RangeInv
      <4>4. Errors(k, 1..Covered(k))' = Errors(k, 1..Covered(k))
        BY <3>1, <4>1, <4>2 DEF Errors
      <4>5. wpc \in Ticking =>
              Errors(k, (lastID + 1)..until)' = Errors(k, (lastID + 1)..until)
        BY <3>1, <3>2, <4>3 DEF Errors
      <4> QED  BY <4>4, <4>5
    <3> QED  BY <3>2, <3>3 DEF CountInv
  <2>2. CASE Tick
    <3>1. /\ until' \in Nat /\ lastID < until'
          /\ \A k \in Series :
               window'[k] = Cardinality(Errors(k, (lastID + 1)..until'))
          /\ todo' = {store[id].series : id \in (lastID + 1)..until'}
          /\ wpc = "poll" /\ wpc' = "observe" /\ UNCHANGED <<store, lastID, history>>
      BY <2>2, TickReads DEF Tick
    <3>2. ASSUME NEW k \in Series
          PROVE  Cardinality(Errors(k, 1..Covered(k)))' = total[k]
      <4>1. total[k] = Cardinality(Errors(k, 1..lastID))
        BY <3>1 DEF CountInv, Covered
      <4>2. CASE k \in todo'
        <5>1. Covered(k)' = lastID
          BY <3>1, <4>2 DEF Covered
        <5> QED  BY <3>1, <4>1, <5>1 DEF Errors
      <4>3. CASE k \notin todo'
        <5>1. Covered(k)' = until'
          BY <3>1, <4>3 DEF Covered
        <5>2. Errors(k, (lastID + 1)..until') = {}
          BY <3>1, <4>3 DEF Errors
        <5>3. Cardinality(Errors(k, (lastID + 1)..until')) = 0
          BY <5>2, FS_EmptySet, Zenon
        <5>4. Cardinality(Errors(k, 1..until')) =
                Cardinality(Errors(k, 1..lastID))
                  + Cardinality(Errors(k, (lastID + 1)..until'))
          BY <2>0, <3>1, ErrorsAdd
        <5>5. Cardinality(Errors(k, 1..lastID)) \in Nat
          BY <2>0, ErrorsAreFinite
        <5>6. Cardinality(Errors(k, 1..until')) = total[k]
          BY <4>1, <5>3, <5>4, <5>5
        <5> QED  BY <3>1, <5>1, <5>6 DEF Errors
      <4> QED  BY <4>2, <4>3
    <3>3. \A k \in Series :
            window'[k] = Cardinality(Errors(k, (lastID + 1)..until))'
      BY <3>1 DEF Errors
    <3> QED  BY <3>1, <3>2, <3>3 DEF CountInv
  <2>3. ASSUME NEW k \in Series, Observe(k),
               UNCHANGED <<store, lastID, until, window>>, wpc' \in Ticking
        PROVE  CountInv'
    <3>1. /\ wpc = "observe" /\ k \in todo /\ todo' = todo \ {k}
          /\ total' = [total EXCEPT ![k] = @ + window[k]]
      BY <2>3 DEF Observe
    <3>2. ASSUME NEW j \in Series
          PROVE  total'[j] = Cardinality(Errors(j, 1..Covered(j)))'
      <4>1. CASE j # k
        <5>1. Covered(j)' = Covered(j) /\ total'[j] = total[j]
          BY <2>3, <3>1, <4>1 DEF Covered, TypeOK
        <5> QED  BY <2>3, <5>1 DEF CountInv, Errors
      <4>2. CASE j = k
        <5>1. Covered(k) = lastID /\ Covered(k)' = until
          BY <2>3, <3>1 DEF Covered
        <5>2. total'[k] = total[k] + window[k]
          BY <3>1 DEF TypeOK
        <5>3. /\ total[k] = Cardinality(Errors(k, 1..lastID))
              /\ window[k] = Cardinality(Errors(k, (lastID + 1)..until))
          BY <3>1, <5>1 DEF CountInv
        <5>4. Cardinality(Errors(k, 1..until)) = total[k] + window[k]
          BY <2>0, <3>1, <5>3, ErrorsAdd DEF RangeInv
        <5> QED  BY <2>3, <4>2, <5>1, <5>2, <5>4 DEF Errors
      <4> QED  BY <4>1, <4>2
    <3>3. \A j \in Series :
            window'[j] = Cardinality(Errors(j, (lastID + 1)..until))'
      BY <2>3, <3>1 DEF CountInv, Errors
    <3> QED  BY <3>2, <3>3 DEF CountInv
  <2>4. ASSUME NEW k \in Series, ObserveNormal(k) \/ ObserveAnomaly(k)
        PROVE  CountInv'
    BY <2>3, <2>4 DEF ObserveNormal, ObserveAnomaly, Observe
  <2>5. ASSUME UNCHANGED <<store, lastID, until, window, todo, total>>,
               wpc' \in Ticking <=> wpc \in Ticking
        PROVE  CountInv'
    BY <2>5 DEF CountInv, Covered, Errors
  <2>6. CASE Signal \/ Leave \/ Push \/ OnEvent \/ UNCHANGED vars
    BY <2>5, <2>6 DEF Signal, Leave, Push, OnEvent, vars
  <2>7. CASE EndTick
    <3>1. /\ wpc = "observe" /\ wpc' = "poll" /\ todo = {} /\ lastID' = until
          /\ UNCHANGED <<store, until, todo, total>>
      BY <2>7 DEF EndTick, WindowEnd
    <3>2. \A k \in Series : Covered(k)' = Covered(k)
      BY <3>1 DEF Covered
    <3> QED  BY <3>1, <3>2 DEF CountInv, Errors
  <2> QED
    BY <2>1, <2>2, <2>4, <2>6, <2>7 DEF Next, Work, Terminated
<1> QED  BY <1>1, <1>2, TypeCorrect, PTL DEF Spec

\* No error entry is counted twice or passed over.
THEOREM EntriesCountedOnce == Spec => []CountedOnce
<1>1. RangeInv /\ CountInv => CountedOnce
  BY DEF RangeInv, CountInv, CountedOnce
<1> QED  BY <1>1, TypeCorrect, CountInvariant, PTL

-----------------------------------------------------------------------------
(* The feed *)

\* The feed after Push: the newest FeedCap of what it held and the new event.
LEMMA PushedIs ==
  ASSUME NEW s \in Seq(Events), NEW e \in Events
  PROVE  LET t == Pushed(s, e)
             drop == Len(s) + 1 - Len(t)
         IN  /\ t \in Seq(Events)
             /\ Len(t) = Least(FeedCap, Len(s) + 1)
             /\ \A i \in 1..Len(t) :
                  t[i] = IF drop + i = Len(s) + 1 THEN e ELSE s[drop + i]
<1> DEFINE a == Append(s, e)
           m == Least(FeedCap, Len(s) + 1)
           lo == Len(s) + 1 - m + 1
<1>1. /\ a \in Seq(Events) /\ Len(a) = Len(s) + 1
      /\ \A i \in 1..(Len(s) + 1) : a[i] = IF i = Len(s) + 1 THEN e ELSE s[i]
  OBVIOUS
<1>2. Len(s) \in Nat /\ FeedCap \in Nat \ {0}
  BY AnomalyWorkerAssumption
<1>3. m \in Nat /\ m >= 1 /\ m <= Len(s) + 1
  BY <1>2 DEF Least
<1>4. Len(a) - Least(FeedCap, Len(a)) + 1 = lo
  <2> HIDE DEF a
  <2> QED  BY <1>1, <1>2 DEF Least
<1>5. Pushed(s, e) = SubSeq(a, lo, Len(s) + 1)
  <2>1. Pushed(s, e) = SubSeq(a, Len(a) - Least(FeedCap, Len(a)) + 1, Len(a))
    BY DEF Pushed, Newest
  <2> QED  BY <1>1, <1>4, <2>1
<1> HIDE DEF a, m
<1>6. \A i \in lo..(Len(s) + 1) : a[i] \in Events
  BY <1>1, <1>2, <1>3
<1>7. /\ SubSeq(a, lo, Len(s) + 1) \in Seq(Events)
      /\ Len(SubSeq(a, lo, Len(s) + 1)) = m
      /\ \A i \in 1..m : SubSeq(a, lo, Len(s) + 1)[i] = a[lo + i - 1]
  BY <1>2, <1>3, <1>6, SubSeqProperties
<1>8. \A i \in 1..m : lo + i - 1 \in 1..(Len(s) + 1) /\ lo + i - 1 = Len(s) + 1 - m + i
  BY <1>2, <1>3
<1>9. \A i \in 1..m : SubSeq(a, lo, Len(s) + 1)[i] =
                      IF Len(s) + 1 - m + i = Len(s) + 1 THEN e ELSE s[Len(s) + 1 - m + i]
  BY <1>1, <1>7, <1>8
<1> HIDE DEF lo
<1> QED  BY <1>5, <1>7, <1>9 DEF m

\* The feed holds the newest events delivered so far, in the order in which the
\* detector raised them.
FeedInv ==
  /\ wpc = "push" => raised # <<>>
  /\ Len(feed) = Least(FeedCap, Delivered)
  /\ \A i \in 1..Len(feed) : feed[i] = raised[Delivered - Len(feed) + i]

LEMMA FeedInvariant == Spec => []FeedInv
<1>1. Init => FeedInv
  BY AnomalyWorkerAssumption DEF Init, FeedInv, Delivered, Least
<1>2. TypeOK /\ FeedInv /\ [Next]_vars => FeedInv'
  <2> SUFFICES ASSUME TypeOK, FeedInv, [Next]_vars
               PROVE  FeedInv'
    OBVIOUS
  <2>1. raised \in Seq(Events) /\ feed \in Seq(Events) /\ Len(raised) \in Nat
    BY DEF TypeOK
  <2>2. ASSUME UNCHANGED <<feed, raised>>, wpc' # "push", wpc # "push"
        PROVE  FeedInv'
    BY <2>2 DEF FeedInv, Delivered
  <2>3. ASSUME NEW k \in Series, ObserveNormal(k)
        PROVE  FeedInv'
    BY <2>2, <2>3 DEF ObserveNormal, Observe
  <2>4. ASSUME NEW k \in Series, ObserveAnomaly(k)
        PROVE  FeedInv'
    <3>1. PICK e \in Events : raised' = Append(raised, e)
      <4>1. [series |-> k, value |-> window[k], n |-> base[k].count + 1] \in Events
        BY DEF TypeOK, Events, Baselines
      <4> QED  BY <2>4, <4>1 DEF ObserveAnomaly
    <3>2. /\ Len(raised') = Len(raised) + 1
          /\ \A i \in 1..Len(raised) : raised'[i] = raised[i]
          /\ raised' # <<>>
      BY <2>1, <3>1
    <3>3. wpc = "observe" /\ wpc' = "push" /\ feed' = feed
      BY <2>4 DEF ObserveAnomaly, Observe
    <3>4. Delivered' = Delivered /\ Delivered = Len(raised)
      BY <2>1, <3>2, <3>3 DEF Delivered
    <3>5. Len(feed) <= Delivered /\ Len(feed) \in Nat
      BY <2>1, <3>4, AnomalyWorkerAssumption DEF FeedInv, Least
    <3>6. \A i \in 1..Len(feed) : Delivered - Len(feed) + i \in 1..Len(raised)
      BY <2>1, <3>4, <3>5
    <3> QED  BY <3>2, <3>3, <3>4, <3>6 DEF FeedInv
  <2>5. CASE Push
    <3>1. PICK e \in Events : e = raised[Len(raised)]
      <4>1. raised # <<>>
        BY <2>5 DEF Push, FeedInv
      <4>2. Len(raised) \in 1..Len(raised)
        BY <2>1, <4>1
      <4> QED  BY <2>1, <4>2
    <3>2. /\ wpc = "push" /\ wpc' = "notify" /\ raised' = raised
          /\ feed' = Pushed(feed, e) /\ raised # <<>>
      BY <2>5, <3>1 DEF Push, FeedInv, history
    <3>3. /\ Delivered = Len(raised) - 1 /\ Delivered' = Delivered + 1
          /\ Delivered \in Nat
      BY <2>1, <3>2 DEF Delivered
    <3>4. /\ feed' \in Seq(Events) /\ Len(feed') = Least(FeedCap, Len(feed) + 1)
          /\ \A i \in 1..Len(feed') :
               feed'[i] = IF Len(feed) + 1 - Len(feed') + i = Len(feed) + 1
                          THEN e ELSE feed[Len(feed) + 1 - Len(feed') + i]
      BY <2>1, <3>2, PushedIs
    <3>5. PICK l \in Nat, l1 \in Nat : l = Len(feed) /\ l1 = Len(feed')
      BY <2>1, <3>4
    <3>6. /\ l = Least(FeedCap, Delivered)
          /\ l1 = Least(FeedCap, l + 1)
          /\ l1 = Least(FeedCap, Delivered')
          /\ l1 <= l + 1 /\ l <= Delivered
      BY <3>3, <3>4, <3>5, AnomalyWorkerAssumption DEF FeedInv, Least
    <3>7. ASSUME NEW i \in 1..l1
          PROVE  feed'[i] = raised[Delivered' - l1 + i]
      <4>1. CASE l + 1 - l1 + i = l + 1
        <5>1. Delivered' - l1 + i = Len(raised)
          BY <3>3, <3>6, <4>1
        <5> QED  BY <3>1, <3>4, <3>5, <4>1, <5>1
      <4>2. CASE l + 1 - l1 + i # l + 1
        <5>1. l + 1 - l1 + i \in 1..l
          BY <3>6, <4>2
        <5>2. feed'[i] = feed[l + 1 - l1 + i]
          BY <3>4, <3>5, <4>2
        <5>3. feed[l + 1 - l1 + i] = raised[Delivered - l + (l + 1 - l1 + i)]
          BY <3>5, <5>1 DEF FeedInv
        <5>4. Delivered - l + (l + 1 - l1 + i) = Delivered' - l1 + i
          BY <3>3
        <5> QED  BY <5>2, <5>3, <5>4
      <4> QED  BY <4>1, <4>2
    <3> QED  BY <3>2, <3>5, <3>6, <3>7 DEF FeedInv
  <2>6. CASE \E b \in Batches : WriteBatch(b)
    BY <2>6 DEF WriteBatch, worker, history, FeedInv, Delivered
  <2>7. CASE Signal \/ UNCHANGED vars
    BY <2>7 DEF Signal, vars, worker, history, FeedInv, Delivered
  <2>8. CASE Leave \/ Tick \/ OnEvent \/ EndTick
    BY <2>2, <2>8 DEF Leave, Tick, OnEvent, EndTick, history
  <2> QED
    BY <2>3, <2>4, <2>5, <2>6, <2>7, <2>8 DEF Next, Work, Terminated
<1> QED  BY <1>1, <1>2, TypeCorrect, PTL DEF Spec

\* What Recent takes from the feed is what a look at all events delivered would
\* have given: a position in the feed is one in raised, moved by what was evicted.
LEMMA RecentIs ==
  ASSUME TypeOK, FeedInv, NEW t \in Tenants, NEW n \in 1..FeedCap
  PROVE  LET got == Recent(t, n)
             own == {i \in 1..Delivered : TenantOf[raised[i].series] = t}
             kept == {i \in own : Delivered - i < FeedCap
                                  /\ Cardinality({j \in own : j > i}) < n}
         IN  /\ Len(got) = Cardinality(kept)
             /\ \A i \in kept : got[Cardinality({j \in kept : j >= i})] = raised[i]
<1> DEFINE own == {i \in 1..Delivered : TenantOf[raised[i].series] = t}
           Newer(i) == {j \in own : j > i}
           kept == {i \in own : Delivered - i < FeedCap /\ Cardinality(Newer(i)) < n}
           ids == Mine(t)
           Upward(x) == {y \in ids : y >= x}
           rank == Rank(ids)
           Shown == {x \in ids : rank[x] <= n}
<1>1. \A x \in ids : rank[x] = Cardinality(Upward(x))
  BY DEF Rank
<1> HIDE DEF rank
<1>2. PICK l \in Nat, D \in Nat : l = Len(feed) /\ D = Delivered
  <2>1. Len(raised) \in Nat /\ Len(feed) \in Nat /\ (wpc = "push" => Len(raised) # 0)
    BY DEF TypeOK, FeedInv
  <2>2. CASE wpc = "push"
    <3>1. Delivered = Len(raised) - 1 /\ Len(raised) - 1 \in Nat
      BY <2>1, <2>2 DEF Delivered
    <3> QED  BY <2>1, <3>1
  <2>3. CASE wpc # "push"
    <3>1. Delivered = Len(raised)
      BY <2>3 DEF Delivered
    <3> QED  BY <2>1, <3>1
  <2> QED  BY <2>2, <2>3
<1>3. PICK d \in Nat : d = D - l
  <2>1. l = Least(FeedCap, D)
    BY <1>2 DEF FeedInv
  <2>2. l <= D
    BY <1>2, <2>1, AnomalyWorkerAssumption DEF Least
  <2> QED  BY <1>2, <2>2
<1>4. \A i \in 1..D : D - i < FeedCap <=> i > d
  <2>1. l = Least(FeedCap, D)
    BY <1>2 DEF FeedInv
  <2> QED  BY <1>2, <1>3, <2>1, AnomalyWorkerAssumption DEF Least
<1>5. \A x \in 1..l : feed[x] = raised[x + d] /\ x + d \in 1..D
  <2> SUFFICES ASSUME NEW x \in 1..l
               PROVE  feed[x] = raised[x + d] /\ x + d \in 1..D
    OBVIOUS
  <2>1. D - l + x = x + d
    BY <1>3
  <2> QED  BY <1>2, <1>3, <2>1 DEF FeedInv
<1>6. n \in Nat /\ n >= 1
  BY AnomalyWorkerAssumption
<1>7. ids \in SUBSET (1..l) /\ own \in SUBSET (1..D)
  BY <1>2 DEF Mine
<1>8. \A x \in 1..l : x \in ids <=> x + d \in own
  BY <1>2, <1>5 DEF Mine
<1> HIDE DEF own, ids
<1>9. \A j \in own : j > d => j - d \in ids /\ j - d + d = j
  <2> SUFFICES ASSUME NEW j \in own, j > d
               PROVE  j - d \in ids /\ j - d + d = j
    OBVIOUS
  <2>1. j \in 1..D
    BY <1>7
  <2>2. j - d \in 1..l /\ j - d + d = j
    BY <1>3, <2>1
  <2> QED  BY <1>8, <2>2
<1>10. \A x \in ids : x \in 1..l /\ x + d \in own
  BY <1>7, <1>8
<1>11. ASSUME NEW x \in ids
       PROVE  /\ Cardinality(Upward(x)) \in Nat
              /\ Cardinality(Newer(x + d)) = Cardinality(Upward(x)) - 1
  <2> DEFINE above == {y \in ids : y > x}
             f == [y \in above |-> y + d]
  <2>1. \A y \in ids : y \in Nat
    BY <1>10
  <2>2. /\ IsFiniteSet(Upward(x)) /\ Cardinality(Upward(x)) \in Nat
        /\ IsFiniteSet(above)
    <3>1. Upward(x) \in SUBSET (1..l) /\ above \in SUBSET (1..l)
      BY <1>7
    <3> HIDE DEF Upward, above
    <3> QED  BY <3>1, PositionsFinite
  <2>3. above = Upward(x) \ {x} /\ x \in Upward(x)
    BY <2>1
  <2>4. Cardinality(above) = Cardinality(Upward(x)) - 1
    <3> HIDE DEF Upward, above
    <3> QED  BY <2>2, <2>3, FS_RemoveElement
  <2>5. \A y \in above : y + d \in Newer(x + d)
    <3> SUFFICES ASSUME NEW y \in above
                 PROVE  y + d \in Newer(x + d)
      OBVIOUS
    <3>1. y \in ids /\ y > x /\ y \in Nat /\ x \in Nat
      BY <2>1
    <3>2. y + d > x + d
      BY <3>1
    <3> QED  BY <1>10, <3>1, <3>2
  <2>6. \A y, z \in above : f[y] = f[z] => y = z
    BY <2>1
  <2>7. ASSUME NEW j \in Newer(x + d)
        PROVE  \E y \in above : f[y] = j
    <3>1. j \in own /\ j > x + d /\ x \in Nat /\ j \in Nat
      BY <1>7, <2>1
    <3>2. j > d /\ j - d > x
      BY <3>1
    <3>3. j - d \in above /\ j - d + d = j
      BY <1>9, <3>1, <3>2
    <3> QED  BY <3>3
  <2>8. f \in [above -> Newer(x + d)]
    <3> HIDE DEF above, Newer
    <3> QED  BY <2>5
  <2> HIDE DEF above, Newer, f
  <2>9. Cardinality(Newer(x + d)) = Cardinality(above)
    BY <2>2, <2>6, <2>7, <2>8, SameSize
  <2> QED  BY <2>2, <2>4, <2>9
<1>12. \A x \in ids : x \in Shown <=> x + d \in kept
  <2> SUFFICES ASSUME NEW x \in ids
               PROVE  x \in Shown <=> x + d \in kept
    OBVIOUS
  <2>1. x + d \in own /\ Delivered - (x + d) < FeedCap
    <3>1. x + d \in own /\ x + d \in 1..D /\ x + d > d
      BY <1>7, <1>10
    <3> QED  BY <1>2, <1>4, <3>1
  <2> HIDE DEF Upward, Newer
  <2>2. rank[x] <= n <=> Cardinality(Newer(x + d)) < n
    BY <1>1, <1>6, <1>11
  <2> QED  BY <2>1, <2>2
<1>13. \A i \in kept : i - d \in Shown /\ i - d + d = i
  <2> SUFFICES ASSUME NEW i \in kept
               PROVE  i - d \in Shown /\ i - d + d = i
    OBVIOUS
  <2>1. i \in own /\ i \in 1..D /\ D - i < FeedCap
    BY <1>2, <1>7
  <2>2. i - d \in ids /\ i - d + d = i
    BY <1>4, <1>9, <2>1
  <2> HIDE DEF kept, Shown
  <2> QED  BY <1>12, <2>2
<1>14. IsFiniteSet(Shown) /\ \A x \in Shown : x \in ids /\ x \in Nat
  <2>1. Shown \in SUBSET (1..l)
    BY <1>7
  <2>2. Shown \subseteq ids
    OBVIOUS
  <2> HIDE DEF Shown
  <2> QED  BY <2>1, <2>2, PositionsFinite
<1>15. Cardinality(kept) = Cardinality(Shown)
  <2> DEFINE f == [x \in Shown |-> x + d]
  <2> HIDE DEF kept, Shown
  <2>1. f \in [Shown -> kept]
    BY <1>12, <1>14
  <2>2. \A x, y \in Shown : f[x] = f[y] => x = y
    BY <1>14
  <2>3. \A i \in kept : \E x \in Shown : f[x] = i
    BY <1>13
  <2> HIDE DEF f
  <2> QED  BY <1>14, <2>1, <2>2, <2>3, SameSize
<1>16. PICK s : s = NewestFirst(ids, n)
  OBVIOUS
<1>17. PICK m : m = Least(n, Cardinality(ids))
  OBVIOUS
<1>18. m \in Nat /\ s \in [1..m -> ids] /\ Cardinality(Shown) = m
  <2>1. m \in Nat /\ s \in [1..m -> ids]
    BY <1>6, <1>7, <1>16, <1>17, NewestLists
  <2>2. Cardinality(Shown) = m
    BY <1>6, <1>7, <1>17, NewestByRank DEF rank
  <2> QED  BY <2>1, <2>2
<1>19. \A x \in ids : rank[x] \in 1..Cardinality(ids) /\ (rank[x] <= n => s[rank[x]] = x)
  BY <1>6, <1>7, <1>16, NewestByRank DEF rank
<1>20. Recent(t, n) = [i \in 1..m |-> feed[s[i]]]
  BY <1>16, <1>18 DEF Recent, ids
<1>21. Len(Recent(t, n)) = m
  BY <1>18, <1>20
<1>22. ASSUME NEW i \in kept
       PROVE  Recent(t, n)[Cardinality({j \in kept : j >= i})] = raised[i]
  <2> DEFINE x == i - d
             Above == {j \in kept : j >= i}
             f == [y \in Upward(x) |-> y + d]
  <2>1. x \in Shown /\ x + d = i /\ x \in ids /\ x \in Nat /\ x \in 1..l
    BY <1>10, <1>13, <1>14
  <2> HIDE DEF x
  <2>2. Cardinality(Upward(x)) <= n
    <3> HIDE DEF Upward
    <3> QED  BY <1>1, <2>1
  <2>3. \A y \in Upward(x) : y \in ids /\ y \in Nat /\ y >= x
    BY <1>10
  <2>4. ASSUME NEW y \in Upward(x)
        PROVE  y \in Shown
    <3>1. y \in ids /\ Upward(y) \subseteq Upward(x)
      <4>1. y \in ids /\ y \in Nat /\ y >= x
        BY <2>3
      <4>2. \A z \in ids : z \in Nat
        BY <1>10
      <4>3. \A z \in ids : z >= y => z >= x
        BY <2>1, <4>1, <4>2
      <4> QED  BY <4>1, <4>3
    <3>2. IsFiniteSet(Upward(x)) /\ Cardinality(Upward(x)) \in Nat
      <4>1. Upward(x) \in SUBSET (1..l)
        BY <1>7
      <4> QED  BY <4>1, PositionsFinite
    <3>3. Cardinality(Upward(y)) <= Cardinality(Upward(x))
      <4> HIDE DEF Upward
      <4> QED  BY <3>1, <3>2, FS_Subset
    <3>4. Cardinality(Upward(y)) \in Nat
      BY <1>11, <3>1
    <3>5. Cardinality(Upward(y)) <= n
      BY <1>6, <2>2, <3>2, <3>3, <3>4
    <3>6. rank[y] <= n
      <4> HIDE DEF Upward
      <4> QED  BY <1>1, <3>1, <3>5
    <3> QED  BY <3>1, <3>6
  <2>5. ASSUME NEW y \in Upward(x)
        PROVE  y + d \in Above
    <3>1. y \in ids /\ y \in Nat /\ y >= x /\ y \in Shown
      BY <2>3, <2>4
    <3>2. y + d >= i
      BY <2>1, <3>1
    <3>3. y + d \in kept
      BY <1>12, <3>1
    <3> HIDE DEF kept
    <3> QED  BY <3>2, <3>3
  <2>6. ASSUME NEW j \in Above
        PROVE  \E y \in Upward(x) : f[y] = j
    <3>1. j \in kept /\ j >= i
      OBVIOUS
    <3>2. j - d \in ids /\ j - d + d = j /\ j - d \in Nat
      BY <1>13, <1>14, <3>1
    <3>3. j \in Nat /\ j - d >= x
      BY <1>7, <2>1, <3>1
    <3>4. j - d \in Upward(x)
      BY <3>2, <3>3
    <3> QED  BY <3>2, <3>4
  <2>7. \A y, z \in Upward(x) : f[y] = f[z] => y = z
    BY <2>3
  <2>8. IsFiniteSet(Upward(x))
    <3>1. Upward(x) \in SUBSET (1..l)
      BY <1>7
    <3> QED  BY <3>1, PositionsFinite
  <2>9. f \in [Upward(x) -> Above]
    <3> HIDE DEF Upward, Above
    <3> QED  BY <2>5
  <2>10. Cardinality(Above) = Cardinality(Upward(x))
    <3> HIDE DEF Upward, Above, f
    <3> QED  BY <2>6, <2>7, <2>8, <2>9, SameSize
  <2>11. Cardinality(Upward(x)) \in 1..m /\ s[Cardinality(Upward(x))] = x
    <3>1. /\ Cardinality(Upward(x)) \in 1..Cardinality(ids)
          /\ Cardinality(Upward(x)) <= n => s[Cardinality(Upward(x))] = x
      <4> HIDE DEF Upward
      <4>1. rank[x] = Cardinality(Upward(x))
        BY <1>1, <2>1
      <4> QED  BY <1>19, <2>1, <4>1
    <3> HIDE DEF Upward
    <3>2. Cardinality(ids) \in Nat
      BY <1>7, PositionsFinite
    <3>3. Cardinality(Upward(x)) \in 1..m
      BY <1>6, <1>17, <2>2, <3>1, <3>2 DEF Least
    <3>4. s[Cardinality(Upward(x))] = x
      BY <2>2, <3>1
    <3> QED  BY <3>3, <3>4
  <2> HIDE DEF Upward, Above
  <2>12. Recent(t, n)[Cardinality(Above)] = feed[x]
    BY <1>20, <2>10, <2>11
  <2>13. feed[x] = raised[i]
    BY <1>5, <2>1
  <2> QED  BY <2>12, <2>13 DEF Above
<1>23. Len(Recent(t, n)) = Cardinality(kept)
  BY <1>15, <1>18, <1>21
<1> QED  BY <1>22, <1>23 DEF own

\* Each tenant reads its newest events from the ring that all tenants share, up to
\* what FeedCap newer events have evicted.
THEOREM RecentHolds == Spec => []RecentIsNewest
<1>1. TypeOK /\ FeedInv => RecentIsNewest
  BY RecentIs DEF RecentIsNewest
<1> QED  BY <1>1, TypeCorrect, FeedInvariant, PTL

-----------------------------------------------------------------------------
(* How much of a window is left *)

\* Steps of the worker until the window it has read is done: three for a series
\* not yet observed (Observe, Push, the callback), what is left of those three
\* for the one that raised an event, and one to move the checkpoint.
WindowLeft ==
  LET unobserved == 3 * Cardinality(todo)
  IN  CASE wpc \in {"poll", "done"} -> 0
        [] wpc = "observe" -> unobserved + 1
        [] wpc = "push"    -> unobserved + 3
        [] wpc = "notify"  -> unobserved + 2

\* A window ends although the store grows meanwhile and every series of it may
\* raise an event: each step of the worker after the tick lowers WindowLeft, no
\* write and no signal raises it, and it starts from at most 3 * Limit + 1,
\* however many series there are.
WindowIsBounded ==
  [][/\ WindowLeft \in 0..(3 * Limit + 1)
     /\ wpc # "poll" /\ Work => WindowLeft' < WindowLeft
     /\ ~Work => WindowLeft' <= WindowLeft]_vars

\* A window has no more series than entries.
LEMMA TickHasFewSeries ==
  ASSUME TypeOK, RangeInv, Tick
  PROVE  IsFiniteSet(todo') /\ Cardinality(todo') <= Limit
<1> DEFINE ids == (lastID + 1)..until'
           f == [id \in ids |-> store[id].series]
<1>1. lastID \in Nat /\ until' \in Nat /\ lastID < until' /\ until' <= lastID + Limit
  BY TickReads, AnomalyWorkerAssumption DEF TypeOK, Tick, Least
<1>2. IsFiniteSet(ids) /\ Cardinality(ids) = until' - lastID
  BY <1>1, FS_Interval
<1>3. f \in Surjection(ids, todo')
  BY DEF Tick, Surjection
<1>4. IsFiniteSet(todo') /\ Cardinality(todo') <= Cardinality(ids)
  BY <1>2, <1>3, FS_Surjection
<1> QED
  BY <1>1, <1>2, <1>4, FS_CardinalityType, AnomalyWorkerAssumption

\* One step of the worker within a window.
LEMMA WindowGetsOn ==
  ASSUME TypeOK, IsFiniteSet(todo), wpc # "poll", Work
  PROVE  IsFiniteSet(todo') /\ WindowLeft' \in Nat /\ WindowLeft' < WindowLeft
<1>1. Cardinality(todo) \in Nat
  BY FS_CardinalityType
<1>2. ASSUME NEW k \in Series, ObserveNormal(k) \/ ObserveAnomaly(k)
      PROVE  IsFiniteSet(todo') /\ WindowLeft' \in Nat /\ WindowLeft' < WindowLeft
  <2>1. wpc = "observe" /\ k \in todo /\ todo' = todo \ {k} /\ wpc' \in {"observe", "push"}
    BY <1>2 DEF ObserveNormal, ObserveAnomaly, Observe
  <2>2. /\ IsFiniteSet(todo') /\ Cardinality(todo') = Cardinality(todo) - 1
        /\ Cardinality(todo') \in Nat
    BY <2>1, FS_RemoveElement, FS_CardinalityType
  <2> QED  BY <1>1, <2>1, <2>2 DEF WindowLeft
<1>3. CASE Push \/ OnEvent \/ EndTick
  BY <1>1, <1>3 DEF Push, OnEvent, EndTick, WindowLeft
<1> QED  BY <1>2, <1>3 DEF Work, Tick

\* What is not a step of the worker leaves the window where it is.
LEMMA OthersLeaveWindow ==
  ASSUME [Next]_vars, ~Work
  PROVE  todo' = todo /\ WindowLeft' = WindowLeft
<1>1. UNCHANGED <<wpc, todo>> \/ Leave
  BY DEF Next, WriteBatch, Signal, Terminated, vars, worker
<1>2. UNCHANGED <<wpc, todo>> => WindowLeft' = WindowLeft
  BY DEF WindowLeft
<1>3. Leave => todo' = todo /\ WindowLeft = 0 /\ WindowLeft' = 0
  BY DEF Leave, WindowLeft
<1> QED  BY <1>1, <1>2, <1>3

\* What the measure starts from bounds it throughout.
LEMMA WindowBound == Spec => [](IsFiniteSet(todo) /\ WindowLeft \in 0..(3 * Limit + 1))
<1> USE AnomalyWorkerAssumption
<1>1. Init => IsFiniteSet(todo) /\ WindowLeft \in 0..(3 * Limit + 1)
  BY FS_EmptySet DEF Init, WindowLeft
<1>2. /\ TypeOK /\ RangeInv /\ IsFiniteSet(todo) /\ WindowLeft \in 0..(3 * Limit + 1)
      /\ [Next]_vars
      => (IsFiniteSet(todo) /\ WindowLeft \in 0..(3 * Limit + 1))'
  <2> SUFFICES ASSUME TypeOK, RangeInv, IsFiniteSet(todo),
                      WindowLeft \in 0..(3 * Limit + 1), [Next]_vars
               PROVE  IsFiniteSet(todo') /\ WindowLeft' \in 0..(3 * Limit + 1)
    OBVIOUS
  <2>1. CASE ~Work
    BY <2>1, OthersLeaveWindow
  <2>2. CASE Work /\ wpc # "poll"
    BY <2>2, WindowGetsOn
  <2>3. CASE Work /\ wpc = "poll"
    <3>1. Tick
      BY <2>3 DEF Work, ObserveNormal, ObserveAnomaly, Observe, Push, OnEvent, EndTick
    <3>2. IsFiniteSet(todo') /\ Cardinality(todo') <= Limit
      BY <3>1, TickHasFewSeries
    <3>3. Cardinality(todo') \in Nat
      BY <3>2, FS_CardinalityType
    <3> QED  BY <3>1, <3>2, <3>3 DEF Tick, WindowLeft
  <2> QED  BY <2>1, <2>2, <2>3
<1> QED  BY <1>1, <1>2, TypeCorrect, PTL DEF Spec

\* Every window of the anomaly worker ends once it is scheduled.
THEOREM WindowsEnd == Spec => WindowIsBounded
<1>1. /\ TypeOK /\ IsFiniteSet(todo) /\ WindowLeft \in 0..(3 * Limit + 1) /\ [Next]_vars
      => [/\ WindowLeft \in 0..(3 * Limit + 1)
          /\ wpc # "poll" /\ Work => WindowLeft' < WindowLeft
          /\ ~Work => WindowLeft' <= WindowLeft]_vars
  BY WindowGetsOn, OthersLeaveWindow
<1> QED  BY <1>1, TypeCorrect, WindowBound, PTL DEF Spec, WindowIsBounded
=============================================================================
