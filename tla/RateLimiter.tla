---------------------------- MODULE RateLimiter ----------------------------
(***************************************************************************)
(* The per-tenant token bucket of src/internal/ratelimit/tokenbucket.go    *)
(* and its sweeper.                                                        *)
(*                                                                         *)
(* Allow reads the clock before it takes the mutex, so concurrent calls    *)
(* reach a bucket with stamps out of order and elapsed time may be         *)
(* negative; the sweeper reads the clock before the mutex as well. Time    *)
(* and tokens are integers in units chosen so that one tick refills one    *)
(* unit: a request costs Cost units and burst is Capacity of them. The     *)
(* rounding of the float64 arithmetic is left out.                         *)
(***************************************************************************)
EXTENDS Integers, FiniteSets

CONSTANTS
  Keys,       \* tenants
  Callers,    \* goroutines calling Allow
  Capacity,   \* burst, in units
  Cost,       \* one token, in units
  TTL,        \* idle time after which Sweep drops a bucket
  MaxStall,   \* longest time between reading the clock and using the stamp
  MaxTime     \* bound on the clock

None == "none"    \* the key of a caller that is not in Allow

\* The TTL is 10 minutes whatever rate and burst are configured: an idle bucket
\* must be full again well before it, stalls included. The defaults (1000/s,
\* burst 2000) leave minutes to spare.
ASSUME RateLimiterAssumption ==
  /\ Capacity \in Nat /\ Cost \in Nat \ {0} /\ Cost <= Capacity
  /\ TTL \in Nat /\ MaxStall \in Nat /\ MaxTime \in Nat
  /\ Capacity + 2 * MaxStall <= TTL
  /\ None \notin Keys

VARIABLES
  now,        \* the monotonic clock
  key,        \* the key each caller is asking for, None between calls
  stamp,      \* the time each caller read
  buckets,    \* the keys of Limiter.buckets
  tokens,     \* of each bucket, 0 when there is none
  lastSeen,   \* of each bucket, 0 when there is none
  cutoff,     \* the sweeper's cutoff between its clock read and the mutex
  sweeper,    \* "idle", "sweep" (cutoff computed), "off"
  win,        \* history: a window of time, from win.from to win.to
  used        \* history: units admitted per key on a stamp in the window

vars == <<now, key, stamp, buckets, tokens, lastSeen, cutoff, sweeper, win, used>>

Init ==
  /\ now = 0
  /\ key = [c \in Callers |-> None]
  /\ stamp = [c \in Callers |-> 0]
  /\ buckets = {}
  /\ tokens = [k \in Keys |-> 0]
  /\ lastSeen = [k \in Keys |-> 0]
  /\ cutoff = 0
  /\ sweeper = "idle"
  /\ win \in {w \in [from : 0..MaxTime, to : 0..MaxTime] : w.from <= w.to}
  /\ used = [k \in Keys |-> 0]

\* Time passes, but not so much that a caller sits on its stamp for longer than
\* MaxStall.
Advance ==
  /\ now < MaxTime
  /\ \A c \in Callers : key[c] # None => now - stamp[c] < MaxStall
  /\ now' = now + 1
  /\ UNCHANGED <<key, stamp, buckets, tokens, lastSeen, cutoff, sweeper, win, used>>

ReadClock(c, k) ==
  /\ key[c] = None
  /\ key' = [key EXCEPT ![c] = k]
  /\ stamp' = [stamp EXCEPT ![c] = now]
  /\ UNCHANGED <<now, buckets, tokens, lastSeen, cutoff, sweeper, win, used>>

\* Units of a bucket at time t. Faulty: no ceiling.
RefillUncapped(k, t) == tokens[k] + (t - lastSeen[k])
Refill(k, t) ==
  LET n == tokens[k] + (t - lastSeen[k]) IN IF n > Capacity THEN Capacity ELSE n

\* Enough for one request.
Enough(n) == n >= Cost

Return(c) ==
  /\ key' = [key EXCEPT ![c] = None]
  /\ stamp' = [stamp EXCEPT ![c] = 0]
  /\ UNCHANGED <<now, cutoff, sweeper, win>>

Charge(k, t) ==
  used' = [used EXCEPT ![k] = IF win.from <= t /\ t <= win.to THEN @ + Cost ELSE @]

\* Allow on a key that has no bucket: it starts with a full burst.
AllowNew(c) ==
  /\ key[c] \in Keys \ buckets
  /\ buckets' = buckets \cup {key[c]}
  /\ tokens' = [tokens EXCEPT ![key[c]] = Capacity - Cost]
  /\ lastSeen' = [lastSeen EXCEPT ![key[c]] = stamp[c]]
  /\ Charge(key[c], stamp[c])
  /\ Return(c)

AllowGrants(c) ==
  /\ key[c] \in buckets
  /\ Enough(Refill(key[c], stamp[c]))
  /\ tokens' = [tokens EXCEPT ![key[c]] = Refill(key[c], stamp[c]) - Cost]
  /\ lastSeen' = [lastSeen EXCEPT ![key[c]] = stamp[c]]
  /\ Charge(key[c], stamp[c])
  /\ UNCHANGED buckets
  /\ Return(c)

\* A refused call still moves lastSeen, possibly backwards.
AllowRefuses(c) ==
  /\ key[c] \in buckets
  /\ ~Enough(Refill(key[c], stamp[c]))
  /\ tokens' = [tokens EXCEPT ![key[c]] = Refill(key[c], stamp[c])]
  /\ lastSeen' = [lastSeen EXCEPT ![key[c]] = stamp[c]]
  /\ UNCHANGED <<buckets, used>>
  /\ Return(c)

\* Faulty: the TTL is not subtracted.
CutoffNow == now
Cutoff == now - TTL

SweepBegins ==
  /\ sweeper = "idle"
  /\ sweeper' = "sweep"
  /\ cutoff' = Cutoff
  /\ UNCHANGED <<now, key, stamp, buckets, tokens, lastSeen, win, used>>

Idle == {k \in buckets : lastSeen[k] < cutoff}

Sweep ==
  /\ sweeper = "sweep"
  /\ sweeper' = "idle"
  /\ cutoff' = 0
  /\ buckets' = buckets \ Idle
  /\ tokens' = [k \in Keys |-> IF k \in Idle THEN 0 ELSE tokens[k]]
  /\ lastSeen' = [k \in Keys |-> IF k \in Idle THEN 0 ELSE lastSeen[k]]
  /\ UNCHANGED <<now, key, stamp, win, used>>

\* main closed sweeperDone.
StopSweeper ==
  /\ sweeper = "idle"
  /\ sweeper' = "off"
  /\ UNCHANGED <<now, key, stamp, buckets, tokens, lastSeen, cutoff, win, used>>

Next ==
  \/ Advance
  \/ \E c \in Callers :
       \/ \E k \in Keys : ReadClock(c, k)
       \/ AllowNew(c)
       \/ AllowGrants(c)
       \/ AllowRefuses(c)
  \/ SweepBegins
  \/ Sweep
  \/ StopSweeper

Spec == Init /\ [][Next]_vars

-----------------------------------------------------------------------------
(* Properties *)

TypeOK ==
  /\ now \in 0..MaxTime
  /\ key \in [Callers -> Keys \cup {None}]
  /\ stamp \in [Callers -> 0..MaxTime]
  /\ buckets \subseteq Keys
  /\ tokens \in [Keys -> Int] /\ \A k \in Keys : tokens[k] <= Capacity
  /\ lastSeen \in [Keys -> 0..MaxTime]
  /\ cutoff \in Int
  /\ sweeper \in {"idle", "sweep", "off"}
  /\ win \in [from : 0..MaxTime, to : 0..MaxTime]
  /\ used \in [Keys -> Nat]

\* Over any window of time no tenant is granted more than one burst plus what the
\* rate refills in the window, however its calls overtake each other between
\* reading the clock and locking, and however often its bucket is swept.
WindowBound == \A k \in Keys : used[k] <= Capacity + (win.to - win.from)

\* Sweep drops only buckets that any call still to come would have found full: to
\* forget an idle tenant grants it nothing.
SweepHarmless ==
  [][\A k \in buckets \ buckets' :
       tokens[k] + ((now - MaxStall) - lastSeen[k]) >= Capacity]_vars
=============================================================================
