------------------------- MODULE RateLimiterProofs -------------------------
(***************************************************************************)
(* Proofs about RateLimiter, for every set of tenants and callers, every   *)
(* rate, burst, TTL and stall that satisfy its assumption.                 *)
(***************************************************************************)
EXTENDS RateLimiter, TLAPS

THEOREM TypeCorrect == Spec => []TypeOK
<1>1. Init => TypeOK
  BY RateLimiterAssumption DEF Init, TypeOK
<1>2. TypeOK /\ [Next]_vars => TypeOK'
  <2> SUFFICES ASSUME TypeOK, [Next]_vars
               PROVE  TypeOK'
    OBVIOUS
  <2> USE RateLimiterAssumption
  <2>1. CASE Advance
    BY <2>1 DEF Advance, TypeOK
  <2>2. ASSUME NEW c \in Callers, NEW k \in Keys, ReadClock(c, k)
        PROVE  TypeOK'
    BY <2>2 DEF ReadClock, TypeOK
  <2>3. ASSUME NEW c \in Callers, AllowNew(c)
        PROVE  TypeOK'
    BY <2>3 DEF AllowNew, Return, Charge, TypeOK
  <2>4. ASSUME NEW c \in Callers, AllowGrants(c)
        PROVE  TypeOK'
    BY <2>4 DEF AllowGrants, Refill, Return, Charge, TypeOK
  <2>5. ASSUME NEW c \in Callers, AllowRefuses(c)
        PROVE  TypeOK'
    BY <2>5 DEF AllowRefuses, Refill, Return, TypeOK
  <2>6. CASE SweepBegins
    BY <2>6 DEF SweepBegins, Cutoff, TypeOK
  <2>7. CASE Sweep
    BY <2>7 DEF Sweep, TypeOK
  <2>8. CASE StopSweeper
    BY <2>8 DEF StopSweeper, TypeOK
  <2>9. CASE UNCHANGED vars
    BY <2>9 DEF vars, TypeOK
  <2> QED  BY <2>1, <2>2, <2>3, <2>4, <2>5, <2>6, <2>7, <2>8, <2>9 DEF Next
<1> QED  BY <1>1, <1>2, PTL DEF Spec

-----------------------------------------------------------------------------
(* Clocks: stamps are at most one stall old, and the sweeper's cutoff at     *)
(* least one TTL.                                                            *)

ClockInv ==
  /\ \A c \in Callers : key[c] # None => stamp[c] <= now /\ now - stamp[c] <= MaxStall
  /\ \A k \in Keys : lastSeen[k] <= now
  /\ sweeper = "sweep" => cutoff <= now - TTL

LEMMA ClockInvariant == Spec => []ClockInv
<1>1. Init => ClockInv
  BY DEF Init, ClockInv
<1>2. TypeOK /\ ClockInv /\ [Next]_vars => ClockInv'
  <2> SUFFICES ASSUME TypeOK, ClockInv, [Next]_vars
               PROVE  ClockInv'
    OBVIOUS
  <2> USE RateLimiterAssumption
  <2>1. CASE Advance
    BY <2>1 DEF Advance, ClockInv, TypeOK
  <2>2. ASSUME NEW c \in Callers, NEW k \in Keys, ReadClock(c, k)
        PROVE  ClockInv'
    BY <2>2 DEF ReadClock, ClockInv, TypeOK
  <2>3. ASSUME NEW c \in Callers, AllowNew(c) \/ AllowGrants(c) \/ AllowRefuses(c)
        PROVE  ClockInv'
    <3>1. /\ key[c] \in Keys /\ key[c] # None
          /\ lastSeen' = [lastSeen EXCEPT ![key[c]] = stamp[c]]
          /\ Return(c)
      BY <2>3 DEF AllowNew, AllowGrants, AllowRefuses, TypeOK
    <3> QED  BY <3>1 DEF Return, ClockInv, TypeOK
  <2>4. CASE SweepBegins
    BY <2>4 DEF SweepBegins, Cutoff, ClockInv, TypeOK
  <2>5. CASE Sweep
    BY <2>5 DEF Sweep, ClockInv, TypeOK
  <2>6. CASE StopSweeper
    BY <2>6 DEF StopSweeper, ClockInv
  <2>7. CASE UNCHANGED vars
    BY <2>7 DEF vars, ClockInv
  <2> QED  BY <2>1, <2>2, <2>3, <2>4, <2>5, <2>6, <2>7 DEF Next
<1> QED  BY <1>1, <1>2, TypeCorrect, PTL DEF Spec

-----------------------------------------------------------------------------
(* Debt *)

\* tokens - lastSeen only falls while a bucket exists, and never below -now.
DebtInv ==
  \A k \in buckets : /\ tokens[k] - lastSeen[k] >= -now
                     /\ tokens[k] >= -MaxStall

LEMMA DebtInvariant == Spec => []DebtInv
<1>1. Init => DebtInv
  BY DEF Init, DebtInv
<1>2. TypeOK /\ ClockInv /\ DebtInv /\ [Next]_vars => DebtInv'
  <2> SUFFICES ASSUME TypeOK, ClockInv, DebtInv, [Next]_vars
               PROVE  DebtInv'
    OBVIOUS
  <2> USE RateLimiterAssumption
  <2>1. CASE Advance
    BY <2>1 DEF Advance, DebtInv, TypeOK
  <2>2. ASSUME NEW c \in Callers, NEW k \in Keys, ReadClock(c, k)
        PROVE  DebtInv'
    BY <2>2 DEF ReadClock, DebtInv
  <2>3. ASSUME NEW c \in Callers, AllowNew(c)
        PROVE  DebtInv'
    BY <2>3 DEF AllowNew, Return, ClockInv, DebtInv, TypeOK
  <2>4. ASSUME NEW c \in Callers, AllowGrants(c)
        PROVE  DebtInv'
    BY <2>4 DEF AllowGrants, Refill, Enough, Return, ClockInv, DebtInv, TypeOK
  <2>5. ASSUME NEW c \in Callers, AllowRefuses(c)
        PROVE  DebtInv'
    BY <2>5 DEF AllowRefuses, Refill, Return, ClockInv, DebtInv, TypeOK
  <2>6. CASE Sweep
    BY <2>6 DEF Sweep, DebtInv, TypeOK
  <2>7. CASE SweepBegins \/ StopSweeper \/ UNCHANGED vars
    BY <2>7 DEF SweepBegins, StopSweeper, vars, DebtInv
  <2> QED  BY <2>1, <2>2, <2>3, <2>4, <2>5, <2>6, <2>7 DEF Next
<1> QED  BY <1>1, <1>2, TypeCorrect, ClockInvariant, PTL DEF Spec

\* A key without a bucket has no units, and stays that way until AllowNew.
LEMMA EmptyInvariant == Spec => [](\A k \in Keys \ buckets : tokens[k] = 0)
<1> DEFINE EmptyInv == \A k \in Keys \ buckets : tokens[k] = 0
<1>1. Init => EmptyInv
  BY DEF Init
<1>2. TypeOK /\ EmptyInv /\ [Next]_vars => EmptyInv'
  <2> SUFFICES ASSUME TypeOK, EmptyInv, [Next]_vars
               PROVE  EmptyInv'
    OBVIOUS
  <2>1. ASSUME NEW c \in Callers, AllowNew(c) \/ AllowGrants(c) \/ AllowRefuses(c)
        PROVE  EmptyInv'
    BY <2>1 DEF AllowNew, AllowGrants, AllowRefuses, TypeOK
  <2>2. CASE Sweep
    BY <2>2 DEF Sweep, Idle, TypeOK
  <2>3. CASE Advance \/ SweepBegins \/ StopSweeper \/ UNCHANGED vars
    BY <2>3 DEF Advance, SweepBegins, StopSweeper, vars
  <2>4. ASSUME NEW c \in Callers, NEW k \in Keys, ReadClock(c, k)
        PROVE  EmptyInv'
    BY <2>4 DEF ReadClock
  <2> QED  BY <2>1, <2>2, <2>3, <2>4 DEF Next
<1> QED  BY <1>1, <1>2, TypeCorrect, PTL DEF Spec

\* Stamps out of order can take a bucket below zero, by one stall at most.
DebtBounded == \A k \in Keys : tokens[k] >= -MaxStall

\* Calls that overtake each other between the clock and the mutex take a bucket
\* at most one stall below zero.
THEOREM DebtIsBounded == Spec => []DebtBounded
<1>1. TypeOK /\ DebtInv /\ (\A k \in Keys \ buckets : tokens[k] = 0) => DebtBounded
  BY RateLimiterAssumption DEF TypeOK, DebtInv, DebtBounded
<1> QED  BY <1>1, TypeCorrect, DebtInvariant, EmptyInvariant, PTL

-----------------------------------------------------------------------------
(* The sweeper and the window *)

\* What Sweep deletes would be full for any call still to come.
LEMMA SweptIsFull ==
  ASSUME TypeOK, ClockInv, DebtInv, sweeper = "sweep", NEW k \in Idle
  PROVE  tokens[k] + ((now - MaxStall) - lastSeen[k]) >= Capacity
<1>1. k \in buckets /\ k \in Keys /\ lastSeen[k] < now - TTL
  BY RateLimiterAssumption DEF Idle, ClockInv, TypeOK
<1>2. tokens[k] >= -MaxStall
  BY <1>1 DEF DebtInv
<1> QED  BY <1>1, <1>2, RateLimiterAssumption DEF TypeOK

\* Forgetting a tenant that has been idle for the TTL grants it nothing.
THEOREM SweepGrantsNothing == Spec => SweepHarmless
<1> DEFINE Harmless ==
      \A k \in buckets \ buckets' :
        tokens[k] + ((now - MaxStall) - lastSeen[k]) >= Capacity
<1>1. TypeOK /\ ClockInv /\ DebtInv /\ [Next]_vars => [Harmless]_vars
  <2> SUFFICES ASSUME TypeOK, ClockInv, DebtInv, Next
               PROVE  Harmless
    OBVIOUS
  <2>1. CASE Sweep
    BY <2>1, SweptIsFull DEF Sweep
  <2>2. CASE ~Sweep
    <3>1. buckets \subseteq buckets'
      BY <2>2 DEF Next, Advance, ReadClock, AllowNew, AllowGrants, AllowRefuses,
                  SweepBegins, StopSweeper
    <3> QED  BY <3>1
  <2> QED  BY <2>1, <2>2
<1> QED
  BY <1>1, TypeCorrect, ClockInvariant, DebtInvariant, PTL DEF Spec, SweepHarmless

\* The units a tenant got in the window so far, added to what its bucket (or the
\* full one it would start with) can still give, is at most one burst counted
\* from the start of the window.
WindowInv ==
  \A k \in Keys :
    used[k] > 0 =>
      IF k \in buckets
      THEN used[k] + (tokens[k] - lastSeen[k]) <= Capacity - win.from
      ELSE used[k] + win.from <= now - MaxStall

LEMMA WindowInvariant == Spec => [](WindowInv /\ WindowBound)
<1> DEFINE WInv == WindowInv /\ WindowBound
<1>1. Init => WInv
  BY RateLimiterAssumption DEF Init, WindowInv, WindowBound
<1>2. TypeOK /\ ClockInv /\ DebtInv /\ WInv /\ [Next]_vars => WInv'
  <2> SUFFICES ASSUME TypeOK, ClockInv, DebtInv, WInv, [Next]_vars
               PROVE  WInv'
    OBVIOUS
  <2> USE RateLimiterAssumption
  <2>1. CASE Advance
    BY <2>1 DEF Advance, WindowInv, WindowBound, TypeOK
  <2>2. ASSUME NEW c \in Callers, NEW k \in Keys, ReadClock(c, k)
        PROVE  WInv'
    BY <2>2 DEF ReadClock, WindowInv, WindowBound
  <2>3. ASSUME NEW c \in Callers, AllowNew(c)
        PROVE  WInv'
    BY <2>3 DEF AllowNew, Return, Charge, ClockInv, WindowInv, WindowBound, TypeOK
  <2>4. ASSUME NEW c \in Callers, AllowGrants(c)
        PROVE  WInv'
    BY <2>4 DEF AllowGrants, Refill, Enough, Return, Charge, ClockInv, WindowInv,
                WindowBound, TypeOK
  <2>5. ASSUME NEW c \in Callers, AllowRefuses(c)
        PROVE  WInv'
    BY <2>5 DEF AllowRefuses, Refill, Return, WindowInv, WindowBound, TypeOK
  <2>6. CASE Sweep
    <3>1. ASSUME NEW k \in Idle, used[k] > 0
          PROVE  used[k] + win.from <= now - MaxStall
      <4>1. k \in buckets /\ k \in Keys
        BY <3>1 DEF Idle, TypeOK
      <4>2. tokens[k] + ((now - MaxStall) - lastSeen[k]) >= Capacity
        BY <2>6, <3>1, SweptIsFull DEF Sweep
      <4> QED  BY <3>1, <4>1, <4>2 DEF WindowInv, TypeOK
    <3> QED  BY <2>6, <3>1 DEF Sweep, Idle, WindowInv, WindowBound, TypeOK
  <2>7. CASE SweepBegins \/ StopSweeper \/ UNCHANGED vars
    BY <2>7 DEF SweepBegins, StopSweeper, vars, WindowInv, WindowBound
  <2> QED  BY <2>1, <2>2, <2>3, <2>4, <2>5, <2>6, <2>7 DEF Next
<1> QED  BY <1>1, <1>2, TypeCorrect, ClockInvariant, DebtInvariant, PTL DEF Spec

\* In no window of time is a tenant granted more than a burst plus the refill of
\* the window: "stop one tenant from flooding the system" (ingest/handler.go).
THEOREM RateIsBounded == Spec => []WindowBound
BY WindowInvariant, PTL
=============================================================================
