---------------------------- MODULE RateLimiter ------------------------------
(***************************************************************************)
(* The token bucket that limits submissions (RateLimiter in security.py,   *)
(* rate_limited in api/deps.py).  rate_limited is a plain function, so it   *)
(* runs on a thread of the pool: each call reads the monotonic clock and   *)
(* only then takes the lock, and readings may come to the bucket out of    *)
(* order.                                                                  *)
(*                                                                         *)
(* Time is counted in clock units, Parts to the second, and tokens in      *)
(* units of which One make a token, so that PerMinute units are refilled   *)
(* per clock unit.  Arithmetic is exact: the rounding of floats is left    *)
(* out, the rounding of Retry-After to whole seconds is not.               *)
(***************************************************************************)
EXTENDS Integers, Sequences

CONSTANTS
    Calls,           \* calls of limited endpoints
    Keys,            \* what has a bucket of its own
    KeyOf,           \* the bucket that a call draws from
    PerMinute,       \* rate_limit_per_minute
    Parts,           \* clock units in a second
    Delays,          \* bound: how far the clock moves at a time
    MaxClock,        \* bound: the last time of the clock
    None

ASSUME CallsAssumption == KeyOf \in [Calls -> Keys]
\* A limit of zero would divide by zero; the settings do not exclude it.
ASSUME LimitAssumption == PerMinute \in Nat \ {0} /\ Parts \in Nat \ {0}
ASSUME ClockAssumption == Delays \subseteq Nat /\ MaxClock \in Nat

Times == 0 .. MaxClock
Buckets == [tokens : Int, last : Times]
Advice == [at : Times, after : Nat]

ASSUME NoneAssumption == None \notin Int /\ None \notin Buckets

VARIABLES
    clock,      \* time.monotonic()
    reading,    \* the clock as a call read it, None before and after
    bucket,     \* per key: [tokens, last]
    grants,     \* history: the readings of the calls let in since the start, in the order of the lock
    told        \* history: the last denial since the last grant, [at, after], or None

limiterVars == <<clock, reading, bucket, grants, told>>

One == 60 * Parts
Capacity == PerMinute * One

Lesser(a, b) == IF a < b THEN a ELSE b

\* Mutant: the limit per minute is taken for one per second.
Refilled_PerSecond(b, now) == Lesser(Capacity, b.tokens + (now - b.last) * PerMinute * 60)

\* The tokens at the time of a reading.
Refilled(b, now) == Lesser(Capacity, b.tokens + (now - b.last) * PerMinute)

\* Python's round(): to the nearest, halves to the even one.
Round(a, b) ==
    LET quotient == a \div b
        twice == 2 * (a % b)
    IN  IF twice < b \/ (twice = b /\ quotient % 2 = 0) THEN quotient ELSE quotient + 1

\* Mutant: the missing tokens are taken for the seconds until they are there.
RetryAfter_Tokens(tokens) == 1

\* Retry-After of a denied call, in seconds.
RetryAfter(tokens) ==
    LET seconds == Round(One - tokens, Parts * PerMinute)
    IN  IF seconds < 1 THEN 1 ELSE seconds

\* The bucket after a call.
Stored(tokens, now) == [tokens |-> tokens, last |-> now]

LimiterInit ==
    /\ clock = 0
    /\ reading = [c \in Calls |-> None]
    /\ bucket = [k \in Keys |-> None]
    /\ grants = [k \in Keys |-> <<>>]
    /\ told = [k \in Keys |-> None]

Tick(d) ==
    /\ clock + d <= MaxClock
    /\ clock' = clock + d
    /\ UNCHANGED <<reading, bucket, grants, told>>

\* allow: now = time.monotonic()
ReadClock(c) ==
    /\ reading[c] = None
    /\ reading' = [reading EXCEPT ![c] = clock]
    /\ UNCHANGED <<clock, bucket, grants, told>>

\* The bucket that a call finds: full when it is the first.
Found(c) ==
    IF bucket[KeyOf[c]] = None THEN [tokens |-> Capacity, last |-> reading[c]] ELSE bucket[KeyOf[c]]

Tokens(c) == Refilled(Found(c), reading[c])

\* allow: with self._lock, a token is there.
Grant(c) ==
    LET k == KeyOf[c]
    IN  /\ reading[c] # None /\ Tokens(c) >= One
        /\ bucket' = [bucket EXCEPT ![k] = Stored(Tokens(c) - One, reading[c])]
        /\ grants' = [grants EXCEPT ![k] = Append(@, reading[c])]
        /\ told' = [told EXCEPT ![k] = None]
        /\ reading' = [reading EXCEPT ![c] = None]
        /\ UNCHANGED clock

\* allow: with self._lock, no token is there: 429 with Retry-After.
Deny(c) ==
    LET k == KeyOf[c]
    IN  /\ reading[c] # None /\ Tokens(c) < One
        /\ bucket' = [bucket EXCEPT ![k] = Stored(Tokens(c), reading[c])]
        /\ told' = [told EXCEPT ![k] = [at |-> reading[c], after |-> RetryAfter(Tokens(c))]]
        /\ reading' = [reading EXCEPT ![c] = None]
        /\ UNCHANGED <<clock, grants>>

\* The process that holds these buckets and serves these calls starts anew: buckets live in memory.
Forget(keys, calls) ==
    /\ bucket' = [k \in Keys |-> IF k \in keys THEN None ELSE bucket[k]]
    /\ grants' = [k \in Keys |-> IF k \in keys THEN <<>> ELSE grants[k]]
    /\ told' = [k \in Keys |-> IF k \in keys THEN None ELSE told[k]]
    /\ reading' = [c \in Calls |-> IF c \in calls THEN None ELSE reading[c]]
    /\ UNCHANGED clock

LimiterNext ==
    \/ \E d \in Delays : Tick(d)
    \/ \E c \in Calls : ReadClock(c) \/ Grant(c) \/ Deny(c)
    \/ \E keys \in SUBSET Keys, calls \in SUBSET Calls : Forget(keys, calls)

LimiterSpec == LimiterInit /\ [][LimiterNext]_limiterVars

------------------------------------------------------------------------------
LimiterTypeOK ==
    /\ clock \in Times
    /\ reading \in [Calls -> Times \cup {None}]
    /\ bucket \in [Keys -> Buckets \cup {None}]
    /\ grants \in [Keys -> Seq(Times)]
    /\ told \in [Keys -> Advice \cup {None}]

\* Between any two calls that a bucket lets in, the number let in is at most a full
\* bucket and what was refilled in the meantime, in whatever order the clock
\* readings come to the lock.
RateHolds ==
    \A k \in Keys : \A j \in 1 .. Len(grants[k]) : \A i \in 1 .. j :
        (j - i + 1) * One <= Capacity + PerMinute * (grants[k][j] - grants[k][i])

\* Whoever was denied and waits as long as Retry-After says finds a token, if nobody
\* else drew one; rounding to whole seconds costs at most half a second more.
RetryAfterSuffices ==
    \A k \in Keys :
        told[k] # None =>
            2 * (bucket[k].tokens + PerMinute * (told[k].at + told[k].after * Parts - bucket[k].last))
              + Parts * PerMinute >= 2 * One
==============================================================================
