---------------------------- MODULE Gateway_proofs ---------------------------
(***************************************************************************)
(* Proofs about the limiter, the table of rules and the gateway that has   *)
(* both, for every number of processes, tenants, events, versions and      *)
(* calls.                                                                  *)
(*                                                                         *)
(* The limiter: for every limit and order of clock readings, no more calls *)
(* are let in than the limit allows, and Retry-After is long enough.  The  *)
(* argument balances the books of a bucket: what was granted since the     *)
(* i-th grant and what is left never exceed a full bucket and the refill.  *)
(*                                                                         *)
(* The rules: the history of an event's rules stays one history.  A        *)
(* publication that is about to insert version v has seen version v - 1 of *)
(* its own tenant, and every event that has rules has version 1: so a free *)
(* key is the next one and its tenant is the event's.                      *)
(*                                                                         *)
(* The composition: the gateway does what the limiter and the table of     *)
(* rules do, so what is proved of them holds of it, and the rules a call   *)
(* is decided by were in force while it was under way, because rows are    *)
(* only added and the newest of an event is one row.                       *)
(***************************************************************************)
EXTENDS Gateway, SequenceTheorems, TLAPS

------------------------------------------------------------------------------
(* The limiter *)

\* What was let in since the i-th grant and what is left came from a full bucket and the refill.
Balanced(k, i) ==
    (Len(grants[k]) - i + 1) * One + bucket[k].tokens
        <= Capacity + PerMinute * (bucket[k].last - grants[k][i])

Books ==
    \A k \in Keys :
        /\ grants[k] # <<>> => bucket[k] # None
        /\ told[k] # None => bucket[k] # None
        /\ bucket[k] # None => bucket[k].tokens <= Capacity
        /\ \A i \in 1 .. Len(grants[k]) : Balanced(k, i)

LimiterInv == LimiterTypeOK /\ Books /\ RateHolds /\ RetryAfterSuffices

LEMMA Amounts == One \in Nat \ {0} /\ Capacity \in Nat /\ Capacity >= One
BY LimitAssumption DEF One, Capacity

\* round() is off by half at most.
LEMMA RoundIsNear ==
    ASSUME NEW a \in Nat, NEW b \in Nat \ {0}
    PROVE  Round(a, b) \in Nat /\ 2 * (Round(a, b) * b) + b >= 2 * a
<1> DEFINE q == a \div b
           r == a % b
<1>1. q \in Nat /\ r \in Nat /\ r < b /\ a = b * q + r
  OBVIOUS
<1>2. q * b = b * q /\ (q + 1) * b = b * q + b
  BY <1>1
<1>3. Round(a, b) = q \/ Round(a, b) = q + 1
  BY DEF Round
<1>4. CASE Round(a, b) = q /\ 2 * r <= b
  BY <1>1, <1>2, <1>4
<1>5. CASE Round(a, b) = q + 1
  BY <1>1, <1>2, <1>5
<1>6. (Round(a, b) = q /\ 2 * r <= b) \/ Round(a, b) = q + 1
  BY <1>1 DEF Round
<1> QED
  BY <1>4, <1>5, <1>6

\* What Retry-After promises when it is given.
LEMMA Promise ==
    ASSUME NEW tokens \in Int, tokens < One
    PROVE  /\ RetryAfter(tokens) \in Nat
           /\ 2 * (tokens + PerMinute * (RetryAfter(tokens) * Parts)) + Parts * PerMinute >= 2 * One
<1> DEFINE b == Parts * PerMinute
           s == Round(One - tokens, b)
<1>1. One - tokens \in Nat /\ b \in Nat \ {0}
  BY Amounts, LimitAssumption
<1>2. s \in Nat /\ 2 * (s * b) + b >= 2 * (One - tokens)
  BY <1>1, RoundIsNear
<1>3. RetryAfter(tokens) = IF s < 1 THEN 1 ELSE s
  BY DEF RetryAfter
<1>4. RetryAfter(tokens) \in Nat /\ RetryAfter(tokens) >= s
  BY <1>2, <1>3
<1> DEFINE t == RetryAfter(tokens)
<1> HIDE DEF s, t
<1>5. t * b >= s * b
  BY <1>1, <1>2, <1>4 DEF t
<1>6. PerMinute * (t * Parts) = t * b
  BY <1>4, LimitAssumption DEF t
<1> QED
  BY <1>1, <1>2, <1>4, <1>5, <1>6, Amounts DEF t

LEMMA InitLimiter == LimiterInit => LimiterInv
BY ClockAssumption
   DEF LimiterInit, LimiterInv, LimiterTypeOK, Times, Books, RateHolds, RetryAfterSuffices

\* A call's own reading and the bucket that it finds are numbers, and what it finds is at most full.
LEMMA Drawn ==
    ASSUME LimiterInv, NEW c \in Calls, reading[c] # None
    PROVE  /\ KeyOf[c] \in Keys /\ reading[c] \in Times /\ reading[c] \in Int
           /\ Tokens(c) \in Int /\ Tokens(c) <= Capacity
           /\ bucket[KeyOf[c]] # None =>
                  Tokens(c) <= bucket[KeyOf[c]].tokens + (reading[c] - bucket[KeyOf[c]].last) * PerMinute
<1>1. KeyOf[c] \in Keys /\ reading[c] \in Times /\ reading[c] \in Int
  BY CallsAssumption, ClockAssumption DEF LimiterInv, LimiterTypeOK, Times
<1>2. Found(c) \in [tokens : Int, last : Times]
  BY <1>1, Amounts DEF Found, LimiterInv, LimiterTypeOK, Buckets
<1>3. (reading[c] - Found(c).last) * PerMinute \in Int
  BY <1>1, <1>2, LimitAssumption, ClockAssumption DEF Times
<1> QED
  BY <1>1, <1>2, <1>3, Amounts DEF Tokens, Refilled, Lesser, Found

LEMMA GrantKeepsBooks ==
    ASSUME LimiterInv, NEW c \in Calls, Grant(c)
    PROVE  LimiterInv'
<1> DEFINE k == KeyOf[c]
           now == reading[c]
           left == Tokens(c) - One
           g == grants[k]
<1>1. k \in Keys /\ now \in Times /\ now \in Int /\ left \in Nat /\ left + One <= Capacity
  BY Drawn, Amounts DEF Grant
<1>2. /\ bucket' = [bucket EXCEPT ![k] = [tokens |-> left, last |-> now]]
      /\ grants' = [grants EXCEPT ![k] = Append(g, now)]
      /\ told' = [told EXCEPT ![k] = None]
      /\ reading' = [reading EXCEPT ![c] = None]
      /\ clock' = clock
  BY DEF Grant, Stored
<1>3. bucket[k] # None => left + One <= bucket[k].tokens + (now - bucket[k].last) * PerMinute
  BY Drawn, Amounts DEF Grant
<1> HIDE DEF left, now
<1>4. g \in Seq(Times) /\ Len(g) \in Nat
  BY <1>1 DEF LimiterInv, LimiterTypeOK
<1>5. /\ grants'[k] = Append(g, now) /\ bucket'[k] = [tokens |-> left, last |-> now] /\ told'[k] = None
      /\ Len(Append(g, now)) = Len(g) + 1
      /\ \A i \in 1 .. Len(g) : Append(g, now)[i] = g[i] /\ g[i] \in Times /\ g[i] \in Int
      /\ Append(g, now)[Len(g) + 1] = now
  BY <1>1, <1>2, <1>4, ClockAssumption DEF LimiterInv, LimiterTypeOK, Times
<1>6. LimiterTypeOK'
  <2>1. Append(g, now) \in Seq(Times)
    BY <1>1, <1>4
  <2> QED
    BY <1>1, <1>2, <2>1 DEF LimiterInv, LimiterTypeOK, Buckets
<1>7. \A i \in 1 .. Len(g) + 1 :
          (Len(g) + 1 - i + 1) * One + left <= Capacity + PerMinute * (now - Append(g, now)[i])
  <2> SUFFICES ASSUME NEW i \in 1 .. Len(g) + 1
               PROVE  (Len(g) + 1 - i + 1) * One + left
                          <= Capacity + PerMinute * (now - Append(g, now)[i])
    OBVIOUS
  <2>1. CASE i = Len(g) + 1
    <3>1. (Len(g) + 1 - i + 1) * One = One
      BY <2>1, <1>4, Amounts
    <3>2. PerMinute * (now - Append(g, now)[i]) = 0
      BY <2>1, <1>1, <1>5, LimitAssumption
    <3> QED
      BY <3>1, <3>2, <1>1, Amounts
  <2>2. CASE i \in 1 .. Len(g)
    <3> DEFINE n == Len(g) - i + 1
               then == g[i]
               had == bucket[k].tokens
               last == bucket[k].last
    <3>1. n \in Int /\ bucket[k] # None /\ had \in Int /\ last \in Int
      BY <1>1, <1>4, <2>2, ClockAssumption DEF LimiterInv, LimiterTypeOK, Books, Buckets, Times
    <3>2. n * One + had <= Capacity + PerMinute * (last - then)
      BY <1>1, <2>2 DEF LimiterInv, Books, Balanced
    <3>3. then \in Int /\ Append(g, now)[i] = then /\ n + 1 = Len(g) + 1 - i + 1
      BY <1>4, <1>5, <2>2
    <3>4. left + One <= had + (now - last) * PerMinute
      BY <1>3, <3>1
    <3> HIDE DEF n, then, had, last
    <3>5. (n + 1) * One = n * One + One /\ n * One \in Int
      BY <3>1, Amounts
    <3>6. /\ PerMinute * (now - then) = PerMinute * (last - then) + (now - last) * PerMinute
          /\ PerMinute * (last - then) \in Int /\ (now - last) * PerMinute \in Int
      BY <3>1, <3>3, <1>1, LimitAssumption
    <3>7. (n + 1) * One + left <= Capacity + PerMinute * (now - then)
      BY <3>1, <3>2, <3>4, <3>5, <3>6, <1>1, Amounts
    <3> QED
      BY <3>3, <3>7
  <2> QED
    BY <2>1, <2>2, <1>4
<1>8. Books'
  <2> SUFFICES ASSUME NEW key \in Keys
               PROVE  /\ grants'[key] # <<>> => bucket'[key] # None
                      /\ told'[key] # None => bucket'[key] # None
                      /\ bucket'[key] # None => bucket'[key].tokens <= Capacity
                      /\ \A i \in 1 .. Len(grants'[key]) :
                             (Len(grants'[key]) - i + 1) * One + bucket'[key].tokens
                                 <= Capacity + PerMinute * (bucket'[key].last - grants'[key][i])
    BY DEF Books, Balanced, One, Capacity
  <2>1. CASE key = k
    <3>1. [tokens |-> left, last |-> now] # None
      BY <1>1, NoneAssumption DEF Buckets
    <3> QED
      BY <2>1, <3>1, <1>1, <1>5, <1>7, Amounts
  <2>2. CASE key # k
    BY <2>2, <1>2 DEF LimiterInv, LimiterTypeOK, Books, Balanced
  <2> QED
    BY <2>1, <2>2
<1>9. RateHolds'
  <2> SUFFICES ASSUME NEW key \in Keys, NEW j \in 1 .. Len(grants'[key]), NEW i \in 1 .. j
               PROVE  (j - i + 1) * One <= Capacity + PerMinute * (grants'[key][j] - grants'[key][i])
    BY DEF RateHolds, One, Capacity
  <2>1. CASE key = k /\ j = Len(g) + 1
    <3> DEFINE n == j - i + 1
               then == Append(g, now)[i]
    <3>1. n * One + left <= Capacity + PerMinute * (now - then)
      BY <2>1, <1>4, <1>7
    <3>2. n \in Int /\ then \in Int
      BY <2>1, <1>1, <1>4, <1>5
    <3> HIDE DEF n, then
    <3>3. n * One \in Int /\ PerMinute * (now - then) \in Int
      BY <3>2, <1>1, Amounts, LimitAssumption
    <3>4. n * One <= Capacity + PerMinute * (now - then)
      BY <3>1, <3>3, <1>1, Amounts
    <3> QED
      BY <3>4, <2>1, <1>5 DEF n, then
  <2>2. CASE key = k /\ j \in 1 .. Len(g)
    <3>1. (j - i + 1) * One <= Capacity + PerMinute * (g[j] - g[i])
      BY <2>2, <1>1 DEF LimiterInv, RateHolds
    <3>2. i \in 1 .. Len(g) /\ grants'[key][j] = g[j] /\ grants'[key][i] = g[i]
      BY <2>2, <1>4, <1>5
    <3> QED
      BY <3>1, <3>2
  <2>3. CASE key # k
    BY <2>3, <1>2 DEF LimiterInv, LimiterTypeOK, RateHolds
  <2> QED
    BY <2>1, <2>2, <2>3, <1>4, <1>5
<1>10. RetryAfterSuffices'
  BY <1>1, <1>2 DEF LimiterInv, LimiterTypeOK, RetryAfterSuffices, One
<1> QED
  BY <1>6, <1>8, <1>9, <1>10 DEF LimiterInv

LEMMA DenyKeepsBooks ==
    ASSUME LimiterInv, NEW c \in Calls, Deny(c)
    PROVE  LimiterInv'
<1> DEFINE k == KeyOf[c]
           now == reading[c]
           left == Tokens(c)
           after == RetryAfter(left)
           g == grants[k]
           old == bucket[k]
<1>1. k \in Keys /\ now \in Times /\ now \in Int /\ left \in Int /\ left < One /\ left <= Capacity
  BY Drawn DEF Deny
<1>0. after \in Nat /\ 2 * (left + PerMinute * (after * Parts)) + Parts * PerMinute >= 2 * One
  BY <1>1, Promise
<1>2. /\ bucket' = [bucket EXCEPT ![k] = [tokens |-> left, last |-> now]]
      /\ grants' = grants
      /\ told' = [told EXCEPT ![k] = [at |-> now, after |-> after]]
      /\ reading' = [reading EXCEPT ![c] = None]
      /\ clock' = clock
  BY DEF Deny, Stored
<1>3. old # None => left <= old.tokens + (now - old.last) * PerMinute
  BY Drawn DEF Deny
<1> HIDE DEF left, now, after
<1>4. bucket'[k] = [tokens |-> left, last |-> now] /\ told'[k] = [at |-> now, after |-> after]
  BY <1>1, <1>2 DEF LimiterInv, LimiterTypeOK
<1>5. [tokens |-> left, last |-> now] # None
  BY <1>1, NoneAssumption DEF Buckets
<1>6. LimiterTypeOK'
  BY <1>0, <1>1, <1>2 DEF LimiterInv, LimiterTypeOK, Buckets, Advice
<1>7. \A i \in 1 .. Len(g) :
          (Len(g) - i + 1) * One + left <= Capacity + PerMinute * (now - g[i])
  <2> SUFFICES ASSUME NEW i \in 1 .. Len(g)
               PROVE  (Len(g) - i + 1) * One + left <= Capacity + PerMinute * (now - g[i])
    OBVIOUS
  <2> DEFINE n == Len(g) - i + 1
             then == g[i]
             had == old.tokens
             last == old.last
  <2>1. g \in Seq(Times) /\ g # <<>>
    BY <1>1 DEF LimiterInv, LimiterTypeOK
  <2>2. n \in Int /\ then \in Int
    BY <2>1, ClockAssumption DEF Times
  <2>3. old # None /\ had \in Int /\ last \in Int
    BY <2>1, <1>1, ClockAssumption DEF LimiterInv, LimiterTypeOK, Books, Buckets, Times
  <2>4. n * One + had <= Capacity + PerMinute * (last - then)
    BY <1>1 DEF LimiterInv, Books, Balanced
  <2>5. left <= had + (now - last) * PerMinute
    BY <1>3, <2>3
  <2> HIDE DEF n, then, had, last
  <2>6. n * One \in Int
    BY <2>2, Amounts
  <2>7. /\ PerMinute * (now - then) = PerMinute * (last - then) + (now - last) * PerMinute
        /\ PerMinute * (last - then) \in Int /\ (now - last) * PerMinute \in Int
    BY <2>2, <2>3, <1>1, LimitAssumption
  <2>8. n * One + left <= Capacity + PerMinute * (now - then)
    BY <2>3, <2>4, <2>5, <2>6, <2>7, <1>1, Amounts
  <2> QED
    BY <2>8 DEF n, then
<1>8. Books'
  <2> SUFFICES ASSUME NEW key \in Keys
               PROVE  /\ grants'[key] # <<>> => bucket'[key] # None
                      /\ told'[key] # None => bucket'[key] # None
                      /\ bucket'[key] # None => bucket'[key].tokens <= Capacity
                      /\ \A i \in 1 .. Len(grants'[key]) :
                             (Len(grants'[key]) - i + 1) * One + bucket'[key].tokens
                                 <= Capacity + PerMinute * (bucket'[key].last - grants'[key][i])
    BY DEF Books, Balanced, One, Capacity
  <2>1. CASE key = k
    BY <2>1, <1>1, <1>2, <1>4, <1>5, <1>7
  <2>2. CASE key # k
    BY <2>2, <1>2 DEF LimiterInv, LimiterTypeOK, Books, Balanced
  <2> QED
    BY <2>1, <2>2
<1>9. RateHolds'
  BY <1>2 DEF LimiterInv, RateHolds, One, Capacity
<1>10. RetryAfterSuffices'
  <2> SUFFICES ASSUME NEW key \in Keys, told'[key] # None
               PROVE  2 * (bucket'[key].tokens
                             + PerMinute * (told'[key].at + told'[key].after * Parts - bucket'[key].last))
                        + Parts * PerMinute >= 2 * One
    BY DEF RetryAfterSuffices, One
  <2>1. CASE key = k
    <3>1. now + after * Parts - now = after * Parts
      BY <1>0, <1>1, LimitAssumption
    <3> QED
      BY <2>1, <3>1, <1>0, <1>1, <1>4
  <2>2. CASE key # k
    BY <2>2, <1>2 DEF LimiterInv, LimiterTypeOK, RetryAfterSuffices
  <2> QED
    BY <2>1, <2>2
<1> QED
  BY <1>6, <1>8, <1>9, <1>10 DEF LimiterInv

LEMMA ForgetKeepsBooks ==
    ASSUME LimiterInv, NEW keys \in SUBSET Keys, NEW calls \in SUBSET Calls, Forget(keys, calls)
    PROVE  LimiterInv'
<1>1. LimiterTypeOK'
  BY DEF Forget, LimiterInv, LimiterTypeOK
<1>2. Books'
  BY DEF Forget, LimiterInv, LimiterTypeOK, Books, Balanced, One, Capacity
<1>3. RateHolds'
  BY DEF Forget, LimiterInv, LimiterTypeOK, RateHolds, One, Capacity
<1>4. RetryAfterSuffices'
  BY DEF Forget, LimiterInv, LimiterTypeOK, RetryAfterSuffices, One
<1> QED
  BY <1>1, <1>2, <1>3, <1>4 DEF LimiterInv

LEMMA LimiterStep == LimiterInv /\ [LimiterNext]_limiterVars => LimiterInv'
<1> SUFFICES ASSUME LimiterInv, [LimiterNext]_limiterVars
             PROVE  LimiterInv'
  OBVIOUS
<1>1. ASSUME UNCHANGED <<bucket, grants, told>>, LimiterTypeOK'
      PROVE  LimiterInv'
  BY <1>1 DEF LimiterInv, Books, Balanced, RateHolds, RetryAfterSuffices, One, Capacity
<1>2. ASSUME NEW d \in Delays, Tick(d)
      PROVE  LimiterInv'
  BY <1>1, <1>2, ClockAssumption DEF Tick, LimiterInv, LimiterTypeOK, Times
<1>3. ASSUME NEW c \in Calls, ReadClock(c)
      PROVE  LimiterInv'
  BY <1>1, <1>3 DEF ReadClock, LimiterInv, LimiterTypeOK
<1>4. CASE UNCHANGED limiterVars
  BY <1>1, <1>4 DEF limiterVars, LimiterInv, LimiterTypeOK
<1> QED
  BY <1>2, <1>3, <1>4, GrantKeepsBooks, DenyKeepsBooks, ForgetKeepsBooks DEF LimiterNext

\* The balance is kept by every step.
THEOREM LimiterInvariant == LimiterSpec => []LimiterInv
BY InitLimiter, LimiterStep, PTL DEF LimiterSpec

\* Between any two calls that a bucket lets in, no more are let in than a full bucket
\* and the refill allow, in whatever order the readings come to the lock.
THEOREM LimitIsKept == LimiterSpec => []RateHolds
<1>1. LimiterInv => RateHolds
  BY DEF LimiterInv
<1> QED
  BY <1>1, LimiterInvariant, PTL

\* A caller that waits as long as Retry-After says finds a token, but for half a second of rounding.
THEOREM WaitingSuffices == LimiterSpec => []RetryAfterSuffices
<1>1. LimiterInv => RetryAfterSuffices
  BY DEF LimiterInv
<1> QED
  BY <1>1, LimiterInvariant, PTL

------------------------------------------------------------------------------
(* The rules, and the gateway *)

\* What a publication read still holds when it inserts, and what it inserted stays.
Grounded(p) ==
    LET put == publishing[p]
    IN  /\ put # Idle /\ put.step = "insert" =>
               /\ put.version >= 1
               /\ put.version > 1 =>
                      \E row \in policies : /\ row.event = put.event /\ row.tenant = put.tenant
                                            /\ row.version = put.version - 1
        /\ put # Idle /\ put.step = "audit" => Row(put, p) \in policies

HasFirst == \A row \in policies : \E first \in policies : first.event = row.event /\ first.version = 1

PoliciesInv == PoliciesTypeOK /\ PolicyHistory /\ HasFirst /\ \A p \in Processes : Grounded(p)

LEMMA PublicationIsTyped ==
    ASSUME NEW e \in Events, NEW t \in Tenants, NEW v \in 0 .. MaxVersion,
           NEW step \in {"read", "insert", "audit"}
    PROVE  /\ Publication(e, t, v, step) \in Publications /\ Publication(e, t, v, step) # Idle
           /\ Publication(e, t, v, step).event = e /\ Publication(e, t, v, step).tenant = t
           /\ Publication(e, t, v, step).version = v /\ Publication(e, t, v, step).step = step
BY IdleAssumption DEF Publication, Publications

\* A publication that changes nothing but its own progress keeps the history.
LEMMA OnlyProgress ==
    ASSUME PoliciesInv, NEW p \in Processes, NEW next \in Publications \cup {Idle},
           publishing' = [publishing EXCEPT ![p] = next], UNCHANGED <<policies, audited>>,
           Grounded(p)'
    PROVE  PoliciesInv'
<1>1. PoliciesTypeOK' /\ PolicyHistory' /\ HasFirst'
  BY DEF PoliciesInv, PoliciesTypeOK, PolicyHistory, HasFirst
<1>2. ASSUME NEW q \in Processes, q # p
      PROVE  Grounded(q)'
  BY <1>2 DEF PoliciesInv, PoliciesTypeOK, Grounded, Row
<1> QED
  BY <1>1, <1>2 DEF PoliciesInv

LEMMA ReadKeepsHistory ==
    ASSUME PoliciesInv, NEW p \in Processes, NEW e \in Events, NEW t \in Tenants, ReadNewest(p, e, t)
    PROVE  PoliciesInv'
<1>1. PICK v \in 1 .. MaxVersion :
          Follows(v, e) /\ publishing' = [publishing EXCEPT ![p] = Publication(e, t, v, "insert")]
  BY DEF ReadNewest
<1> DEFINE next == Publication(e, t, v, "insert")
<1>2. /\ next \in Publications /\ next.event = e /\ next.tenant = t
      /\ next.version = v /\ next.step = "insert"
  BY PublicationIsTyped, VersionsAssumption
<1> HIDE DEF next
<1>3. v = 1 \/ \E row \in policies : row.event = e /\ row.tenant = t /\ row.version = v - 1
  BY <1>1, VersionsAssumption DEF Follows, ReadNewest, Newest, Of, PoliciesInv, PoliciesTypeOK, Rows
<1>4. publishing'[p] = next /\ policies' = policies /\ audited' = audited
  BY <1>1 DEF next, ReadNewest, PoliciesInv, PoliciesTypeOK
<1>5. Grounded(p)'
  BY <1>2, <1>3, <1>4, VersionsAssumption DEF Grounded
<1> QED
  BY <1>1, <1>2, <1>4, <1>5, OnlyProgress DEF next

LEMMA StopKeepsHistory ==
    ASSUME PoliciesInv, NEW p \in Processes, UNCHANGED <<policies, audited>>,
           publishing' = [publishing EXCEPT ![p] = Idle]
    PROVE  PoliciesInv'
<1>1. publishing'[p] = Idle
  BY DEF PoliciesInv, PoliciesTypeOK
<1>2. Grounded(p)'
  BY <1>1 DEF Grounded
<1> QED
  BY <1>2, OnlyProgress

LEMMA SeedKeepsHistory ==
    ASSUME PoliciesInv, NEW p \in Processes, NEW e \in Events, SeedDemo(p, e)
    PROVE  PoliciesInv'
<1> DEFINE next == Publication(e, FirstTenant, 0, "read")
<1>1. next \in Publications /\ next.step = "read"
  BY PublicationIsTyped, TenantsAssumption, VersionsAssumption
<1>2. publishing'[p] = next
  BY DEF SeedDemo, PoliciesInv, PoliciesTypeOK
<1> HIDE DEF next
<1>3. Grounded(p)'
  BY <1>1, <1>2 DEF Grounded
<1> QED
  BY <1>1, <1>3, OnlyProgress DEF SeedDemo, next

LEMMA InsertKeepsHistory ==
    ASSUME PoliciesInv, NEW p \in Processes, Insert(p)
    PROVE  PoliciesInv'
<1> DEFINE put == publishing[p]
           new == Row(put, p)
           next == Publication(put.event, put.tenant, put.version, "audit")
<1>1. put \in Publications /\ put # Idle /\ put.step = "insert" /\ KeyFree(put.event, put.version)
  BY DEF Insert, PoliciesInv, PoliciesTypeOK
<1>2. put.version >= 1
      /\ (put.version > 1 =>
              \E row \in policies : /\ row.event = put.event /\ row.tenant = put.tenant
                                    /\ row.version = put.version - 1)
  BY <1>1 DEF PoliciesInv, Grounded
<1>3. /\ new \in Rows /\ new.event = put.event /\ new.tenant = put.tenant
      /\ new.version = put.version
  BY <1>1, <1>2, VersionsAssumption DEF Row, Rows, Publications
<1>4. /\ next \in Publications /\ next # Idle /\ next.step = "audit" /\ next.event = put.event
      /\ next.tenant = put.tenant /\ next.version = put.version
  BY <1>1, PublicationIsTyped DEF Publications
<1>5. /\ policies' = policies \cup {new} /\ audited' = audited
      /\ publishing' = [publishing EXCEPT ![p] = next]
      /\ publishing'[p] = next
  BY DEF Insert, PoliciesInv, PoliciesTypeOK
<1>6. Row(next, p) = new
  BY <1>4 DEF Row
<1>7. \A row \in policies : row \in Rows /\ row.version \in Int /\ row.version >= 1
  BY VersionsAssumption DEF PoliciesInv, PoliciesTypeOK, Rows
<1>8. put.version \in Int
  BY <1>1, VersionsAssumption DEF Publications
<1> HIDE DEF put, new, next
<1>9. ASSUME NEW row \in policies, row.event = put.event
      PROVE  row.version # put.version
  BY <1>1, <1>9 DEF KeyFree, Of
\* The event's rules are of this tenant.
<1>10. ASSUME NEW row \in policies, row.event = put.event
       PROVE  row.tenant = put.tenant
  <2>1. PICK first \in policies : first.event = row.event /\ first.version = 1
    BY DEF PoliciesInv, HasFirst
  <2>2. put.version > 1
    BY <1>2, <1>8, <1>9, <1>10, <2>1
  <2> QED
    BY <1>2, <1>10, <2>2 DEF PoliciesInv, PolicyHistory
<1>11. PoliciesTypeOK'
  BY <1>3, <1>4, <1>5 DEF PoliciesInv, PoliciesTypeOK
<1>12. HasFirst'
  <2>1. \E first \in policies' : first.event = new.event /\ first.version = 1
    <3>1. CASE put.version = 1
      BY <3>1, <1>3, <1>5
    <3>2. CASE put.version > 1
      BY <3>2, <1>2, <1>3, <1>5 DEF PoliciesInv, HasFirst
    <3> QED
      BY <3>1, <3>2, <1>2, <1>8
  <2> QED
    BY <2>1, <1>5 DEF PoliciesInv, HasFirst
<1>13. PolicyHistory'
  <2>1. ASSUME NEW row \in policies', NEW other \in policies', row.event = other.event
        PROVE  row.tenant = other.tenant /\ (row.version = other.version => row = other)
    <3>1. CASE row \in policies /\ other \in policies
      BY <2>1, <3>1 DEF PoliciesInv, PolicyHistory
    <3>2. CASE row = new /\ other \in policies
      BY <2>1, <3>2, <1>3, <1>9, <1>10
    <3>3. CASE row \in policies /\ other = new
      BY <2>1, <3>3, <1>3, <1>9, <1>10
    <3> QED
      BY <3>1, <3>2, <3>3, <1>5
  <2>2. ASSUME NEW row \in policies', row.version > 1
        PROVE  \E other \in policies' : other.event = row.event /\ other.version = row.version - 1
    BY <2>2, <1>2, <1>3, <1>5 DEF PoliciesInv, PolicyHistory
  <2>3. audited' \subseteq policies'
    BY <1>5 DEF PoliciesInv, PolicyHistory
  <2> QED
    BY <2>1, <2>2, <2>3 DEF PolicyHistory
<1>14. ASSUME NEW q \in Processes
       PROVE  Grounded(q)'
  <2>1. CASE q = p
    BY <2>1, <1>4, <1>5, <1>6 DEF Grounded
  <2>2. CASE q # p
    <3>1. publishing'[q] = publishing[q]
      BY <2>2, <1>5 DEF PoliciesInv, PoliciesTypeOK
    <3> QED
      BY <3>1, <1>5 DEF PoliciesInv, Grounded, Row
  <2> QED
    BY <2>1, <2>2
<1> QED
  BY <1>11, <1>12, <1>13, <1>14 DEF PoliciesInv

LEMMA AuditKeepsHistory ==
    ASSUME PoliciesInv, NEW p \in Processes, AuditUpdate(p)
    PROVE  PoliciesInv'
<1> DEFINE new == Row(publishing[p], p)
<1>1. /\ new \in policies
      /\ policies' = policies /\ audited' = audited \cup {new}
      /\ publishing' = [publishing EXCEPT ![p] = Idle]
  BY DEF AuditUpdate, PoliciesInv, Grounded
<1> HIDE DEF new
<1>2. PoliciesTypeOK' /\ PolicyHistory' /\ HasFirst'
  BY <1>1 DEF PoliciesInv, PoliciesTypeOK, PolicyHistory, HasFirst
<1>3. ASSUME NEW q \in Processes
      PROVE  Grounded(q)'
  <2>1. CASE q = p
    BY <1>1, <2>1 DEF Grounded, PoliciesInv, PoliciesTypeOK
  <2>2. CASE q # p
    BY <1>1, <2>2 DEF Grounded, Row, PoliciesInv, PoliciesTypeOK
  <2> QED
    BY <2>1, <2>2
<1> QED
  BY <1>2, <1>3 DEF PoliciesInv

LEMMA PoliciesStep == PoliciesInv /\ [PoliciesNext]_policyVars => PoliciesInv'
<1> SUFFICES ASSUME PoliciesInv, [PoliciesNext]_policyVars
             PROVE  PoliciesInv'
  OBVIOUS
<1>1. ASSUME NEW p \in Processes, NEW e \in Events, NEW t \in Tenants, PutPolicy(p, e, t)
      PROVE  PoliciesInv'
  BY <1>1, ReadKeepsHistory DEF PutPolicy
<1>2. ASSUME NEW p \in Processes, PutDemo(p)
      PROVE  PoliciesInv'
  <2>1. publishing[p] \in Publications
    BY <1>2 DEF PutDemo, PoliciesInv, PoliciesTypeOK
  <2> QED
    BY <1>2, <2>1, ReadKeepsHistory DEF PutDemo, Publications
<1>3. ASSUME NEW p \in Processes, Refused(p) \/ StopPublishing(p)
      PROVE  PoliciesInv'
  BY <1>3, StopKeepsHistory DEF Refused, StopPublishing
<1>4. CASE UNCHANGED policyVars
  BY <1>4 DEF policyVars, PoliciesInv, PoliciesTypeOK, PolicyHistory, HasFirst, Grounded, Row
<1> QED
  BY <1>1, <1>2, <1>3, <1>4, SeedKeepsHistory, InsertKeepsHistory, AuditKeepsHistory DEF PoliciesNext

LEMMA PoliciesStart == PoliciesInit => PoliciesInv
BY DEF PoliciesInit, PoliciesInv, PoliciesTypeOK, PolicyHistory, HasFirst, Grounded

\* However many processes publish: one tenant per event, one set of rules per version, no
\* gap between versions, and no audit entry of a version that is not there.
THEOREM HistoryIsKept == PoliciesSpec => []PolicyHistory
<1>1. PoliciesInv => PolicyHistory
  BY DEF PoliciesInv
<1> QED
  BY <1>1, PoliciesStart, PoliciesStep, PTL DEF PoliciesSpec

------------------------------------------------------------------------------
(* The composition *)

LEMMA GatewayDoesBoth ==
    ASSUME [GatewayNext]_gatewayVars
    PROVE  [LimiterNext]_limiterVars /\ [PoliciesNext]_policyVars
<1>1. ASSUME NEW c \in Calls,
             Arrive(c) \/ Forbid(c) \/ Admit(c) \/ TooMany(c) \/ ReadRules(c) \/ Decide(c) \/ Decline(c)
      PROVE  [LimiterNext]_limiterVars /\ UNCHANGED policyVars
  BY <1>1 DEF Arrive, Forbid, Admit, TooMany, ReadRules, Decide, Decline, LimiterNext
<1>2. CASE Others
  BY <1>2 DEF Others, LimiterNext
<1>3. ASSUME NEW p \in Processes, Crash(p)
      PROVE  [LimiterNext]_limiterVars /\ [PoliciesNext]_policyVars
  <2> DEFINE mine == { c \in Calls : Principal[c].process = p }
             keys == { KeyOf[c] : c \in mine }
  <2>1. mine \in SUBSET Calls /\ keys \in SUBSET Keys
    BY CallsAssumption
  <2>2. Forget(keys, mine)
    BY <1>3 DEF Crash
  <2>3. LimiterNext
    BY <2>1, <2>2 DEF LimiterNext
  <2>4. [PoliciesNext]_policyVars
    BY <1>3 DEF Crash, PoliciesNext
  <2> QED
    BY <2>3, <2>4
<1>4. CASE UNCHANGED gatewayVars
  BY <1>4 DEF gatewayVars, limiterVars, policyVars
<1> QED
  BY <1>1, <1>2, <1>3, <1>4 DEF GatewayNext

\* What a call carries: the rules that were in force when it arrived, and those it is decided by.
Carries(c) ==
    /\ call[c].state \in {"asking", "admitted", "queued", "decided"} =>
           /\ Principal[c].role \in MayVerify
           /\ call[c].seen \subseteq Of(Principal[c].event)
    /\ call[c].state \in {"queued", "decided"} =>
           \E row \in policies :
               /\ call[c].used = {row}
               /\ row.event = Principal[c].event /\ row.tenant = Principal[c].tenant
               /\ \A old \in call[c].seen : old.version <= row.version

CallStates == {"new", "refused", "asking", "admitted", "queued", "decided"}
CallRecords == [state : CallStates, seen : SUBSET Rows, used : SUBSET Rows]

GatewayInv == PoliciesInv /\ call \in [Calls -> CallRecords] /\ \A c \in Calls : Carries(c)

\* Rules are never withdrawn.
LEMMA RowsStay == [PoliciesNext]_policyVars => policies \subseteq policies'
BY DEF PoliciesNext, policyVars, SeedDemo, PutPolicy, ReadNewest, PutDemo, Insert, Refused, AuditUpdate,
       StopPublishing

\* A call that keeps what it carries carries it on, while rules are added.
LEMMA CarriedOn ==
    ASSUME policies \subseteq policies', NEW c \in Calls, Carries(c),
           call'[c].seen = call[c].seen, call'[c].used = call[c].used,
           \/ call'[c].state = call[c].state
           \/ call[c].state = "asking" /\ call'[c].state = "admitted"
           \/ call[c].state = "queued" /\ call'[c].state = "decided"
    PROVE  Carries(c)'
BY DEF Carries, Of

\* The rules that are read are one row, no older than any that was in force on arrival.
LEMMA RulesAreOneRow ==
    ASSUME PoliciesInv, NEW c \in Calls, Rules(c) # {}, call[c].seen \subseteq Of(Principal[c].event)
    PROVE  \E row \in policies :
               /\ Rules(c) = {row}
               /\ row.event = Principal[c].event /\ row.tenant = Principal[c].tenant
               /\ \A old \in call[c].seen : old.version <= row.version
<1>1. PICK row \in Rules(c) : TRUE
  OBVIOUS
<1>2. \A other \in Rules(c) :
          /\ other \in policies /\ other.event = Principal[c].event /\ other.tenant = Principal[c].tenant
          /\ \A old \in Of(Principal[c].event) : old.version <= other.version
  BY DEF Rules, get_policy, Newest, Of
<1>3. \A other \in policies : other.version \in Int
  BY VersionsAssumption DEF PoliciesInv, PoliciesTypeOK, Rows
<1>4. ASSUME NEW other \in Rules(c)
      PROVE  other = row
  <2>1. other.version <= row.version /\ row.version <= other.version
    BY <1>1, <1>2 DEF Of
  <2>2. other.version = row.version
    BY <2>1, <1>1, <1>2, <1>3
  <2> QED
    BY <2>2, <1>1, <1>2 DEF PoliciesInv, PolicyHistory
<1> QED
  BY <1>1, <1>2, <1>4

\* The gateway is a limiter and a table of rules: each of its steps is one of theirs or leaves them alone.
THEOREM GatewayIsBoth == GatewaySpec => LimiterSpec /\ PoliciesSpec
<1>1. GatewayInit => LimiterInit /\ PoliciesInit
  BY DEF GatewayInit
<1>2. [GatewayNext]_gatewayVars => [LimiterNext]_limiterVars /\ [PoliciesNext]_policyVars
  BY GatewayDoesBoth
<1> QED
  BY <1>1, <1>2, PTL DEF GatewaySpec, LimiterSpec, PoliciesSpec

LEMMA GatewayStart == GatewayInit => GatewayInv
BY PoliciesStart DEF GatewayInit, GatewayInv, New, CallRecords, CallStates, Carries

\* Every step keeps what the calls carry.
LEMMA GatewayStep == GatewayInv /\ [GatewayNext]_gatewayVars => GatewayInv'
<1> SUFFICES ASSUME GatewayInv, [GatewayNext]_gatewayVars
             PROVE  GatewayInv'
  OBVIOUS
<1>1. PoliciesInv' /\ policies \subseteq policies'
  BY GatewayDoesBoth, PoliciesStep, RowsStay DEF GatewayInv
\* What one call does leaves the others as they are.
<1>2. ASSUME NEW c \in Calls, NEW next \in CallRecords, call' = [call EXCEPT ![c] = next], Carries(c)'
      PROVE  GatewayInv'
  <2>1. ASSUME NEW d \in Calls, d # c
        PROVE  Carries(d)'
    <3>1. call'[d] = call[d]
      BY <1>2, <2>1 DEF GatewayInv
    <3> QED
      BY <3>1, <1>1, CarriedOn DEF GatewayInv
  <2> QED
    BY <1>1, <1>2, <2>1 DEF GatewayInv
<1>3. Gone \in CallRecords
  BY DEF Gone, CallRecords, CallStates
<1>4. ASSUME NEW c \in Calls, Refuse(c)
      PROVE  GatewayInv'
  <2>1. call'[c] = Gone
    BY <1>4 DEF Refuse, GatewayInv
  <2>2. Carries(c)'
    BY <2>1 DEF Carries, Gone
  <2> QED
    BY <1>2, <1>3, <1>4, <2>2 DEF Refuse
<1>5. ASSUME NEW c \in Calls, Arrive(c)
      PROVE  GatewayInv'
  <2> DEFINE next == [state |-> "asking", seen |-> Newest(Principal[c].event), used |-> {}]
  <2>1. next \in CallRecords /\ Newest(Principal[c].event) \subseteq Of(Principal[c].event)
    BY DEF Newest, Of, CallRecords, CallStates, GatewayInv, PoliciesInv, PoliciesTypeOK
  <2>2. call' = [call EXCEPT ![c] = next] /\ call'[c] = next
    BY <1>5 DEF Arrive, GatewayInv
  <2>3. Principal[c].role \in MayVerify /\ policies' = policies
    BY <1>5 DEF Arrive, policyVars
  <2>4. Carries(c)'
    BY <2>1, <2>2, <2>3 DEF Carries, Of
  <2> QED
    BY <1>2, <2>1, <2>2, <2>4
<1>6. ASSUME NEW c \in Calls, Admit(c)
      PROVE  GatewayInv'
  <2> DEFINE next == [call[c] EXCEPT !.state = "admitted"]
  <2>1. /\ next \in CallRecords /\ next.state = "admitted" /\ next.seen = call[c].seen
        /\ next.used = call[c].used /\ call[c].state = "asking"
    BY <1>6 DEF Admit, GatewayInv, CallRecords, CallStates
  <2>2. call' = [call EXCEPT ![c] = next] /\ call'[c] = next
    BY <1>6 DEF Admit, GatewayInv
  <2>3. Carries(c)'
    BY <2>1, <2>2, <1>1, CarriedOn DEF GatewayInv
  <2> QED
    BY <1>2, <2>1, <2>2, <2>3
<1>7. ASSUME NEW c \in Calls, ReadRules(c)
      PROVE  GatewayInv'
  <2> DEFINE next == [call[c] EXCEPT !.state = "queued", !.used = Rules(c)]
  <2>1. /\ next \in CallRecords /\ next.state = "queued" /\ next.seen = call[c].seen /\ next.used = Rules(c)
    <3>1. Rules(c) \in SUBSET Rows
      BY DEF Rules, get_policy, Newest, Of, GatewayInv, PoliciesInv, PoliciesTypeOK
    <3> QED
      BY <3>1 DEF GatewayInv, CallRecords, CallStates
  <2>2. call' = [call EXCEPT ![c] = next] /\ call'[c] = next
    BY <1>7 DEF ReadRules, GatewayInv
  <2>3. /\ call[c].state = "admitted" /\ Rules(c) # {} /\ policies' = policies
        /\ Principal[c].role \in MayVerify /\ call[c].seen \subseteq Of(Principal[c].event)
    BY <1>7 DEF ReadRules, GatewayInv, Carries, policyVars
  <2> HIDE DEF next
  <2>4. Carries(c)'
    BY <2>1, <2>2, <2>3, RulesAreOneRow DEF Carries, Of, GatewayInv
  <2> QED
    BY <1>2, <2>1, <2>2, <2>4
<1>8. ASSUME NEW c \in Calls, Decide(c)
      PROVE  GatewayInv'
  <2> DEFINE next == [call[c] EXCEPT !.state = "decided"]
  <2>1. /\ next \in CallRecords /\ next.state = "decided" /\ next.seen = call[c].seen
        /\ next.used = call[c].used /\ call[c].state = "queued"
    BY <1>8 DEF Decide, GatewayInv, CallRecords, CallStates
  <2>2. call' = [call EXCEPT ![c] = next] /\ call'[c] = next
    BY <1>8 DEF Decide, GatewayInv
  <2>3. Carries(c)'
    BY <2>1, <2>2, <1>1, CarriedOn DEF GatewayInv
  <2> QED
    BY <1>2, <2>1, <2>2, <2>3
<1>9. ASSUME NEW p \in Processes, Crash(p)
      PROVE  GatewayInv'
  <2>1. PICK open \in SUBSET Calls : call' = [c \in Calls |-> IF c \in open THEN Gone ELSE call[c]]
    BY <1>9 DEF Crash
  <2>2. ASSUME NEW c \in Calls
        PROVE  call'[c] \in CallRecords /\ Carries(c)'
    <3>1. CASE c \in open
      BY <3>1, <2>1, <1>3 DEF Carries, Gone
    <3>2. CASE c \notin open
      BY <3>2, <2>1, <1>1, CarriedOn DEF GatewayInv
    <3> QED
      BY <3>1, <3>2
  <2>3. call' \in [Calls -> CallRecords]
    BY <2>1, <2>2
  <2> QED
    BY <1>1, <2>2, <2>3 DEF GatewayInv
<1>10. CASE call' = call
  BY <1>10, <1>1, CarriedOn DEF GatewayInv
<1>11. CASE Others \/ UNCHANGED gatewayVars
  BY <1>11, <1>10 DEF Others, gatewayVars
<1> QED
  BY <1>4, <1>5, <1>6, <1>7, <1>8, <1>9, <1>11 DEF GatewayNext, Forbid, TooMany, Decline

\* For any calls, keys, processes, publications and crashes: a call is decided by one row of its
\* own tenant that was in force between its arrival and its decision.
THEOREM DecidedByRules == GatewaySpec => []DecidedByRulesInForce
<1>1. GatewayInv => DecidedByRulesInForce
  BY DEF GatewayInv, Carries, DecidedByRulesInForce
<1> QED
  BY <1>1, GatewayStart, GatewayStep, PTL DEF GatewaySpec

\* What is proved of the limiter and of the table of rules holds of the gateway.
THEOREM GatewayKeepsLimits == GatewaySpec => [](RateHolds /\ RetryAfterSuffices /\ PolicyHistory)
BY GatewayIsBoth, LimitIsKept, WaitingSuffices, HistoryIsKept, PTL
==============================================================================
