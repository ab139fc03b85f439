----------------------------- MODULE EdgeProofs -----------------------------
(***************************************************************************)
(* Edge, proved for any processes, requests, identities, windows, limits   *)
(* and clocks.                                                             *)
(***************************************************************************)
EXTENDS Edge, DivisionLemmas

\* A request under way has a process, and a counter of a window that has begun.
HeldInv ==
  \A r \in Requests : pc[r] # "idle" =>
    /\ at[r] \in Processes
    /\ key[r] \in R!Keys /\ key[r][2] <= R!WindowAt(now)

\* The tick at which the window of a key is over.
EndOf(k) == (k[2] + 1) * R!Period

\* A key outlives its window, so that what it has counted in it is never forgotten
\* while the window runs.
CounterInv ==
  \A k \in R!Keys :
    /\ counter[k] # 0 => EndOf(k) <= dies[k] /\ now < dies[k]
    /\ R!WindowAt(now) < k[2] => admitted[k] = 0
    /\ R!WindowAt(now) = k[2] => admitted[k] <= counter[k]
    /\ admitted[k] <= Max
    /\ k \in muddled \/ admitted[k] >= Max \/ counter[k] <= admitted[k]

\* What a refused request was told stays true: once the key is gone its window has
\* passed, and whoever counts it again is a straggler.
Told(k, moment) ==
  /\ R!TellsReset(k, moment)
  /\ k \in muddled \/ counter[k] # 0 \/ k[2] < R!WindowAt(now)
RetryInv == \A r \in Requests : pc[r] = "refused" => Told(key[r], retryAt[r])

\* Requests come through an open socket, and a socket is open beside the drain only
\* in a process that does without one.
ListenerInv ==
  /\ \A p \in Processes :
       /\ listener[p] # "none" => phase[p] \notin {"down", "pool", "redis"}
       /\ listener[p] = "open" => phase[p] = "serving" \/ undrained[p]
       /\ undrained[p] => forced
  /\ \A r \in Requests : at[r] # NoProcess => listener[at[r]] \in {"open", "closed"}

ShutdownInv == ListenerInv /\ ShutdownIsGraceful

EdgeInv ==
  TypeOK /\ HeldInv /\ CounterInv /\ RetryInv /\ ShutdownInv

-----------------------------------------------------------------------------
LEMMA PeriodFacts == R!Period \in Nat \ {0} /\ Second \in Nat \ {0}
<1>1. Window \in Nat \ {0} /\ Second \in Nat \ {0}
  BY EdgeAssumption
<1>2. \A w \in Nat \ {0}, s \in Nat \ {0} : w * s \in Nat \ {0}
  BY Z3
<1> QED
  BY <1>1, <1>2 DEF R!Period

LEMMA WindowFacts ==
  ASSUME NEW s \in Nat, NEW t \in Nat, s <= t
  PROVE  /\ R!WindowAt(s) \in Nat /\ R!WindowAt(t) \in Nat
         /\ R!WindowAt(s) <= R!WindowAt(t)
  BY PeriodFacts, DivBounds, DivMonotone DEF R!WindowAt

LEMMA KeyFacts ==
  ASSUME NEW k \in R!Keys
  PROVE  k[2] \in Nat /\ k[2] <= R!WindowAt(MaxTime) /\ EndOf(k) \in Nat
<1>1. R!WindowAt(MaxTime) \in Nat
  BY EdgeAssumption, WindowFacts
<1>2. k[2] \in Nat /\ k[2] <= R!WindowAt(MaxTime)
  BY <1>1 DEF R!Keys
<1>3. \A a \in Nat, b \in Nat : (a + 1) * b \in Nat
  BY Z3
<1> QED
  BY <1>2, <1>3, PeriodFacts DEF EndOf

\* The clock is past the end of a window just when it is in a later one.
LEMMA EndFacts ==
  ASSUME NEW k \in R!Keys, NEW t \in Nat
  PROVE  /\ EndOf(k) <= t <=> k[2] < R!WindowAt(t)
         /\ k[2] <= R!WindowAt(t) => EndOf(k) <= t + R!Period
<1> DEFINE b == R!Period
           w == R!WindowAt(t)
           e == k[2]
<1>1. b \in Nat \ {0} /\ w \in Nat /\ e \in Nat /\ b * w <= t /\ t < b * w + b
  BY PeriodFacts, KeyFacts, DivBounds DEF R!WindowAt
<1>2. EndOf(k) = (e + 1) * b
  BY DEF EndOf
<1> HIDE DEF b, w, e
<1>3. (e + 1) * b = b * e + b /\ b * e \in Nat /\ b * w \in Nat
  BY <1>1, Z3
<1>4. e < w => b * e + b <= b * w
  BY <1>1, FactorsApart
<1>5. w < e => b * w + b <= b * e
  BY <1>1, FactorsApart
<1>6. EndOf(k) <= t <=> e < w
  BY <1>1, <1>2, <1>3, <1>4, <1>5
<1>7. e <= w => EndOf(k) <= t + b
  BY <1>1, <1>2, <1>3, <1>4
<1> QED
  BY <1>6, <1>7 DEF b, w, e

\* Rounding to the nearest second is half a second off at most.
LEMMA Rounding ==
  ASSUME NEW d \in Nat, NEW s \in Nat \ {0}
  PROVE  LET n == (d + s \div 2) \div s
         IN  n \in Nat /\ s * n \in Nat /\ 2 * (d - s * n) < s /\ 2 * (s * n - d) <= s
<1> DEFINE h == s \div 2
           n == (d + h) \div s
<1>1. h \in Nat /\ 2 * h <= s /\ s < 2 * h + 2
  BY DivBounds, 2 \in Nat \ {0}
<1>2. d + h \in Nat
  BY <1>1
<1>3. n \in Nat /\ s * n <= d + h /\ d + h < s * n + s
  BY <1>2, DivBounds
<1> HIDE DEF h, n
<1>4. s * n \in Nat
  BY <1>3, Z3
<1>5. 2 * (d - s * n) < s /\ 2 * (s * n - d) <= s
  <2> DEFINE m == s * n
  <2>1. m \in Nat /\ m <= d + h /\ d + h < m + s
    BY <1>3, <1>4
  <2> HIDE DEF m
  <2>2. 2 * (d - m) < s /\ 2 * (m - d) <= s
    BY <1>1, <2>1
  <2> QED
    BY <2>2 DEF m
<1> QED
  BY <1>3, <1>4, <1>5 DEF n, h

(***************************************************************************)
(* The rate limiter                                                        *)
(***************************************************************************)
\* A step of the clock or of the counters, as the requests see it.
LimitsMove ==
  /\ R!TypeOK' /\ CounterInv'
  /\ now' \in Nat /\ R!WindowAt(now) <= R!WindowAt(now')
  /\ \A k \in R!Keys, m \in Nat : Told(k, m) => Told(k, m)'

\* What a MULTI leaves behind: the key dies after the window it is named for.
LEMMA IncrementStep ==
  ASSUME R!TypeOK, CounterInv, NEW k \in R!Keys, k[2] <= R!WindowAt(now), R!Increment(k)
  PROVE  /\ counter' \in [R!Keys -> Nat] /\ dies' \in [R!Keys -> Nat]
         /\ counter'[k] = counter[k] + 1 /\ dies'[k] = R!Expiry(k)
         /\ counter[k] # 0 => dies'[k] = dies[k]
         /\ \A j \in R!Keys : j # k => counter'[j] = counter[j] /\ dies'[j] = dies[j]
         /\ EndOf(k) <= dies'[k] /\ now < dies'[k]
<1>1. now \in Nat /\ R!Period \in Nat \ {0} /\ dies[k] \in Nat /\ counter[k] \in Nat
  BY EdgeAssumption, PeriodFacts DEF R!TypeOK
<1>2. EndOf(k) <= now + R!Period /\ EndOf(k) \in Nat
  BY <1>1, EndFacts, KeyFacts
<1>3. /\ R!Expiry(k) \in Nat
      /\ EndOf(k) <= R!Expiry(k) /\ now < R!Expiry(k)
      /\ counter[k] # 0 => R!Expiry(k) = dies[k]
  BY <1>1, <1>2 DEF R!Expiry, CounterInv
<1> QED
  BY <1>1, <1>3 DEF R!Increment, R!TypeOK

LEMMA CountStep ==
  ASSUME R!TypeOK, CounterInv, NEW k \in R!Keys, k[2] <= R!WindowAt(now),
         R!Admit(k) \/ R!Refuse(k) \/ R!LoseAnswer(k)
  PROVE  /\ LimitsMove
         /\ now' = now /\ muddled \subseteq muddled'
         /\ \A j \in R!Keys : admitted'[j] >= admitted[j]
         /\ R!Refuse(k) => k \in muddled \/ (counter[k] # 0 /\ admitted[k] >= Max)
<1>1. R!Increment(k) /\ now' = now
  BY DEF R!Admit, R!Refuse, R!LoseAnswer
<1>2. /\ counter' \in [R!Keys -> Nat] /\ dies' \in [R!Keys -> Nat]
      /\ counter'[k] = counter[k] + 1
      /\ counter[k] # 0 => dies'[k] = dies[k]
      /\ \A j \in R!Keys : j # k => counter'[j] = counter[j] /\ dies'[j] = dies[j]
      /\ EndOf(k) <= dies'[k] /\ now < dies'[k]
  BY <1>1, IncrementStep
<1>3. /\ now \in Nat /\ counter \in [R!Keys -> Nat] /\ admitted \in [R!Keys -> Nat]
      /\ muddled \subseteq R!Keys
  BY DEF R!TypeOK
<1>4. R!WindowAt(now) \in Nat /\ Max \in Nat \ {0} /\ k[2] \in Nat
  BY <1>3, WindowFacts, KeyFacts, EdgeAssumption
<1>5. \/ /\ ~ R!Over(k) /\ R!WindowAt(now) = k[2] /\ muddled' = muddled
         /\ admitted' = [admitted EXCEPT ![k] = @ + 1]
      \/ muddled' = muddled \cup {k} /\ admitted' = admitted
      \/ R!Over(k) /\ muddled' = muddled /\ admitted' = admitted
  BY DEF R!Admit, R!Refuse, R!LoseAnswer
<1>6. R!Over(k) <=> counter[k] + 1 > Max
  BY DEF R!Over, R!Count
<1>7. R!TypeOK'
  BY <1>1, <1>2, <1>3, <1>5 DEF R!TypeOK
<1>8. R!Over(k) => counter[k] # 0 /\ (admitted[k] >= Max \/ k \in muddled)
  <2>1. counter[k] \in Nat /\ admitted[k] \in Nat
    BY <1>3
  <2> QED
    BY <2>1, <1>4, <1>6 DEF CounterInv
<1>9. CounterInv'
  <2> SUFFICES ASSUME NEW j \in R!Keys
               PROVE  /\ counter'[j] # 0 => EndOf(j) <= dies'[j] /\ now < dies'[j]
                      /\ R!WindowAt(now) < j[2] => admitted'[j] = 0
                      /\ R!WindowAt(now) = j[2] => admitted'[j] <= counter'[j]
                      /\ admitted'[j] <= Max
                      /\ j \in muddled' \/ admitted'[j] >= Max \/ counter'[j] <= admitted'[j]
    BY <1>1 DEF CounterInv, R!Keys, R!WindowAt, EndOf
  <2>1. CASE j # k
    BY <2>1, <1>2, <1>3, <1>5 DEF CounterInv
  <2>2. CASE j = k
    <3>1. /\ R!WindowAt(now) = k[2] => admitted[k] <= counter[k]
          /\ admitted[k] <= Max
          /\ k \in muddled \/ admitted[k] >= Max \/ counter[k] <= admitted[k]
          /\ counter[k] \in Nat /\ admitted[k] \in Nat
      BY <1>3 DEF CounterInv
    <3>2. CASE /\ ~ R!Over(k) /\ R!WindowAt(now) = k[2] /\ muddled' = muddled
               /\ admitted' = [admitted EXCEPT ![k] = @ + 1]
      <4>1. admitted'[k] = admitted[k] + 1
        BY <3>2, <1>3
      <4> QED
        BY <2>2, <3>1, <3>2, <4>1, <1>2, <1>4, <1>6
    <3>3. CASE muddled' = muddled \cup {k} /\ admitted' = admitted
      BY <2>2, <3>1, <3>3, <1>2, <1>4
    <3>4. CASE R!Over(k) /\ muddled' = muddled /\ admitted' = admitted
      BY <2>2, <3>1, <3>4, <1>2, <1>4, <1>8
    <3> QED
      BY <3>2, <3>3, <3>4, <1>5
  <2> QED
    BY <2>1, <2>2
<1>10. muddled \subseteq muddled' /\ \A j \in R!Keys : admitted'[j] >= admitted[j]
  BY <1>3, <1>5
<1>11. \A j \in R!Keys, m \in Nat : Told(j, m) => Told(j, m)'
  <2> SUFFICES ASSUME NEW j \in R!Keys, NEW m \in Nat, Told(j, m), j \notin muddled'
               PROVE  /\ 2 * (EndOf(j) - m) < Second
                      /\ counter'[j] # 0 =>
                           2 * (dies'[j] - m) < Second /\ 2 * (m - dies'[j]) <= Second
                      /\ admitted'[j] >= Max
                      /\ counter'[j] # 0 \/ j[2] < R!WindowAt(now)
    BY <1>1 DEF Told, R!TellsReset, R!WindowAt, R!Period, EndOf
  <2>1. /\ 2 * (EndOf(j) - m) < Second
        /\ counter[j] # 0 => 2 * (dies[j] - m) < Second /\ 2 * (m - dies[j]) <= Second
        /\ admitted[j] >= Max
        /\ counter[j] # 0 \/ j[2] < R!WindowAt(now)
        /\ admitted[j] \in Nat /\ admitted'[j] \in Nat /\ counter[j] \in Nat
        /\ j[2] \in Nat
    BY <1>3, <1>7, <1>10, KeyFacts DEF Told, R!TellsReset, EndOf, R!TypeOK, R!Keys, R!WindowAt,
      R!Period
  <2>2. admitted'[j] >= Max
    BY <2>1, <1>4, <1>10
  <2>3. CASE j # k
    BY <2>1, <2>2, <2>3, <1>2
  <2>4. CASE j = k
    <3>1. counter[k] # 0
      BY <2>1, <2>4, <1>4, <1>5, <1>8
    <3> QED
      BY <2>1, <2>2, <2>4, <3>1, <1>2
  <2> QED
    BY <2>3, <2>4
<1>12. LimitsMove
  <2>1. now' \in Nat /\ R!WindowAt(now) <= R!WindowAt(now')
    BY <1>1, <1>3, <1>4
  <2> QED
    BY <2>1, <1>7, <1>9, <1>11 DEF LimitsMove
<1>13. R!Refuse(k) => k \in muddled \/ (counter[k] # 0 /\ admitted[k] >= Max)
  BY <1>8 DEF R!Refuse
<1> QED
  BY <1>1, <1>10, <1>12, <1>13

\* A key may die once its window has passed, never while it runs.
LEMMA TickStep ==
  ASSUME R!TypeOK, CounterInv, R!Tick
  PROVE  LimitsMove
<1>1. /\ now \in Nat /\ now' = now + 1 /\ now' \in 0..MaxTime /\ now' \in Nat
      /\ UNCHANGED <<admitted, muddled>>
  BY EdgeAssumption DEF R!Tick, R!TypeOK
<1>2. /\ counter \in [R!Keys -> Nat] /\ dies \in [R!Keys -> Nat]
      /\ admitted \in [R!Keys -> Nat] /\ muddled \subseteq R!Keys
  BY DEF R!TypeOK
<1>3. /\ counter' = [k \in R!Keys |-> IF dies[k] <= now' THEN 0 ELSE counter[k]]
      /\ dies' = [k \in R!Keys |-> IF dies[k] <= now' THEN 0 ELSE dies[k]]
  BY DEF R!Tick
<1>4. R!TypeOK'
  BY <1>1, <1>2, <1>3 DEF R!TypeOK
<1>5. /\ R!WindowAt(now) \in Nat /\ R!WindowAt(now') \in Nat
      /\ R!WindowAt(now) <= R!WindowAt(now')
  BY <1>1, WindowFacts
<1>6. ASSUME NEW k \in R!Keys
      PROVE  \/ counter'[k] = counter[k] /\ dies'[k] = dies[k] /\ now' < dies[k]
             \/ /\ counter'[k] = 0
                /\ counter[k] = 0 \/ k[2] < R!WindowAt(now')
  <2>1. /\ dies[k] \in Nat /\ EndOf(k) \in Nat
        /\ counter[k] # 0 => EndOf(k) <= dies[k]
    BY <1>2, KeyFacts DEF CounterInv
  <2>2. CASE dies[k] <= now'
    <3>1. EndOf(k) <= now' => k[2] < R!WindowAt(now')
      BY <1>1, EndFacts
    <3> QED
      BY <2>1, <2>2, <3>1, <1>1, <1>3
  <2>3. CASE ~ (dies[k] <= now')
    BY <2>1, <2>3, <1>1, <1>3
  <2> QED
    BY <2>2, <2>3
<1>7. CounterInv'
  <2> SUFFICES ASSUME NEW k \in R!Keys
               PROVE  /\ counter'[k] # 0 => EndOf(k) <= dies'[k] /\ now' < dies'[k]
                      /\ R!WindowAt(now') < k[2] => admitted[k] = 0
                      /\ R!WindowAt(now') = k[2] => admitted[k] <= counter'[k]
                      /\ admitted[k] <= Max
                      /\ k \in muddled \/ admitted[k] >= Max \/ counter'[k] <= admitted[k]
    BY <1>1 DEF CounterInv, R!Keys, R!WindowAt, EndOf
  <2>1. /\ counter[k] # 0 => EndOf(k) <= dies[k]
        /\ R!WindowAt(now) < k[2] => admitted[k] = 0
        /\ R!WindowAt(now) = k[2] => admitted[k] <= counter[k]
        /\ admitted[k] <= Max
        /\ k \in muddled \/ admitted[k] >= Max \/ counter[k] <= admitted[k]
    BY DEF CounterInv
  <2>2. counter[k] \in Nat /\ admitted[k] \in Nat /\ k[2] \in Nat /\ Max \in Nat
    BY <1>2, KeyFacts, EdgeAssumption
  <2> QED
    BY <2>1, <2>2, <1>5, <1>6
<1>8. \A k \in R!Keys, m \in Nat : Told(k, m) => Told(k, m)'
  <2> SUFFICES ASSUME NEW k \in R!Keys, NEW m \in Nat, Told(k, m), k \notin muddled
               PROVE  /\ 2 * (EndOf(k) - m) < Second
                      /\ counter'[k] # 0 =>
                           2 * (dies'[k] - m) < Second /\ 2 * (m - dies'[k]) <= Second
                      /\ admitted[k] >= Max
                      /\ counter'[k] # 0 \/ k[2] < R!WindowAt(now')
    BY <1>1 DEF Told, R!TellsReset, R!WindowAt, R!Period, EndOf
  <2>1. /\ 2 * (EndOf(k) - m) < Second
        /\ counter[k] # 0 => 2 * (dies[k] - m) < Second /\ 2 * (m - dies[k]) <= Second
        /\ admitted[k] >= Max
        /\ counter[k] # 0 \/ k[2] < R!WindowAt(now)
        /\ k[2] \in Nat
    BY KeyFacts DEF Told, R!TellsReset, EndOf, R!WindowAt, R!Period
  <2> QED
    BY <2>1, <1>5, <1>6
<1> QED
  BY <1>1, <1>4, <1>5, <1>7, <1>8 DEF LimitsMove

LEMMA LimitsStay ==
  ASSUME R!TypeOK, CounterInv, UNCHANGED limitVars
  PROVE  LimitsMove
<1>1. UNCHANGED <<now, counter, dies, admitted, muddled>> /\ now \in Nat
  BY EdgeAssumption DEF limitVars, R!TypeOK
<1>2. R!TypeOK' /\ CounterInv'
  BY <1>1 DEF R!TypeOK, CounterInv, R!Keys, R!WindowAt, R!Period, EndOf
<1>3. R!WindowAt(now) \in Nat
  BY <1>1, WindowFacts
<1>4. \A k \in R!Keys, m \in Nat : Told(k, m) => Told(k, m)'
  BY <1>1 DEF Told, R!TellsReset, R!WindowAt, R!Period
<1> QED
  BY <1>1, <1>2, <1>3, <1>4 DEF LimitsMove

(***************************************************************************)
(* Requests                                                                *)
(***************************************************************************)
RequestType ==
  /\ pc \in [Requests -> {"idle", "limit", "refused", "work", "commit", "revoke"}]
  /\ at \in [Requests -> Processes \cup {NoProcess}]
  /\ key \in [Requests -> R!Keys \cup {NoKey}]
  /\ retryAt \in [Requests -> Nat]

\* Whatever the clock and the counters do, requests that go on or end, in processes
\* that stand still, keep the invariant.
LEMMA RequestsMove ==
  ASSUME EdgeInv, LimitsMove, RequestType', UNCHANGED lifecycleVars,
         forced' \in BOOLEAN, lost' \in BOOLEAN, forced => forced', lost' => forced',
         \A s \in Requests : at'[s] \in {at[s], NoProcess},
         \A s \in Requests : pc'[s] # "idle" =>
           at'[s] = at[s] /\ key'[s] = key[s] /\ pc[s] # "idle",
         \A s \in Requests : pc'[s] = "refused" =>
           \/ pc[s] = "refused" /\ retryAt'[s] = retryAt[s]
           \/ Told(key[s], retryAt[s])'
  PROVE  EdgeInv'
<1>1. TypeOK'
  <2>1. L!TypeOK' /\ R!TypeOK'
    BY DEF EdgeInv, TypeOK, L!TypeOK, lifecycleVars, LimitsMove
  <2>2. \A s \in Requests : at'[s] # NoProcess => phase'[at'[s]] \notin {"down", "pool", "redis"}
    BY DEF EdgeInv, TypeOK, lifecycleVars
  <2> QED
    BY <2>1, <2>2 DEF TypeOK, RequestType
<1>2. HeldInv'
  <2>1. R!WindowAt(now) \in Nat /\ R!WindowAt(now') \in Nat /\ R!WindowAt(now) <= R!WindowAt(now')
    BY EdgeAssumption, WindowFacts DEF LimitsMove, EdgeInv, TypeOK, R!TypeOK
  <2>2. \A k \in R!Keys : k[2] <= R!WindowAt(now) => k[2] <= R!WindowAt(now')
    BY <2>1, KeyFacts
  <2> QED
    BY <2>2 DEF EdgeInv, HeldInv, R!Keys, R!WindowAt, R!Period
<1>3. CounterInv'
  BY DEF LimitsMove
<1>4. RetryInv'
  <2> SUFFICES ASSUME NEW s \in Requests, pc'[s] = "refused"
               PROVE  Told(key[s], retryAt[s])'
    BY DEF RetryInv
  <2>1. CASE pc[s] = "refused" /\ retryAt'[s] = retryAt[s]
    <3>1. key'[s] = key[s] /\ key[s] \in R!Keys /\ retryAt[s] \in Nat
      BY <2>1 DEF EdgeInv, HeldInv, TypeOK
    <3>2. Told(key[s], retryAt[s])
      BY <2>1 DEF EdgeInv, RetryInv
    <3>3. PICK k \in R!Keys, m \in Nat : k = key[s] /\ m = retryAt[s]
      BY <3>1
    <3>4. Told(k, m)
      BY <3>2, <3>3
    <3>5. Told(k, m)'
      BY <3>4 DEF LimitsMove
    <3> QED
      BY <2>1, <3>1, <3>3, <3>5 DEF Told, R!TellsReset, R!WindowAt, R!Period
  <2> QED
    BY <2>1
<1>5. ShutdownInv'
  <2>1. \A p \in Processes : (Busy(p))' => Busy(p)
    BY EdgeAssumption DEF Busy
  <2>2. UNCHANGED <<phase, listener, signalled, undrained>>
    BY DEF lifecycleVars
  <2>3. ListenerInv'
    BY <2>2 DEF EdgeInv, ShutdownInv, ListenerInv
  <2> QED
    BY <2>1, <2>2, <2>3 DEF EdgeInv, ShutdownInv, ShutdownIsGraceful
<1> QED
  BY <1>1, <1>2, <1>3, <1>4, <1>5 DEF EdgeInv

\* Without Redis, a request under way is one that nobody waits for.
LEMMA ClosedUnderRequest ==
  ASSUME EdgeInv, NEW r \in Requests, pc[r] # "idle", ~ L!RedisUsable(at[r])
  PROVE  forced
<1>1. at[r] \in Processes /\ phase[at[r]] \notin {"down", "pool", "redis"} /\ Busy(at[r])
  BY EdgeAssumption DEF EdgeInv, TypeOK, HeldInv, Busy
<1>2. phase[at[r]] = "closingPool"
  BY <1>1 DEF EdgeInv, TypeOK, L!TypeOK, L!Phases, L!RedisUsable
<1> QED
  BY <1>1, <1>2 DEF EdgeInv, ShutdownInv, ShutdownIsGraceful, ListenerInv

LEMMA GotoStep ==
  ASSUME EdgeInv, LimitsMove, NEW r \in Requests, NEW label \in {"work", "commit", "revoke"},
         pc[r] # "idle", Goto(r, label), UNCHANGED <<lifecycleVars, lost>>,
         forced' \in BOOLEAN, forced => forced'
  PROVE  EdgeInv'
<1>1. RequestType'
  BY DEF EdgeInv, TypeOK, Goto, RequestType, R!Keys, R!WindowAt, R!Period
<1>2. /\ \A s \in Requests : s # r => pc'[s] = pc[s]
      /\ pc'[r] = label /\ UNCHANGED <<at, key, retryAt>>
  BY DEF EdgeInv, TypeOK, Goto
<1>3. lost' \in BOOLEAN /\ (lost' => forced')
  BY DEF EdgeInv, TypeOK, ShutdownInv, ShutdownIsGraceful
<1>4. /\ \A s \in Requests : at'[s] \in {at[s], NoProcess}
      /\ \A s \in Requests : pc'[s] # "idle" =>
           at'[s] = at[s] /\ key'[s] = key[s] /\ pc[s] # "idle"
      /\ \A s \in Requests : pc'[s] = "refused" => pc[s] = "refused" /\ retryAt'[s] = retryAt[s]
  BY <1>2
<1> QED
  BY <1>1, <1>3, <1>4, RequestsMove

LEMMA FinishStep ==
  ASSUME EdgeInv, LimitsMove, NEW r \in Requests, Finish({r}), UNCHANGED lifecycleVars,
         forced' \in BOOLEAN, lost' \in BOOLEAN, forced => forced', lost' => forced'
  PROVE  EdgeInv'
<1>1. RequestType'
  BY DEF EdgeInv, TypeOK, Finish, RequestType, R!Keys, R!WindowAt, R!Period
<1>2. /\ \A s \in Requests : s # r =>
           pc'[s] = pc[s] /\ at'[s] = at[s] /\ key'[s] = key[s] /\ retryAt'[s] = retryAt[s]
      /\ at'[r] = NoProcess /\ pc'[r] = "idle"
  BY DEF Finish
<1>3. /\ \A s \in Requests : at'[s] \in {at[s], NoProcess}
      /\ \A s \in Requests : pc'[s] # "idle" =>
           at'[s] = at[s] /\ key'[s] = key[s] /\ pc[s] # "idle"
      /\ \A s \in Requests : pc'[s] = "refused" => pc[s] = "refused" /\ retryAt'[s] = retryAt[s]
  BY <1>2
<1> QED
  BY <1>1, <1>3, RequestsMove

LEMMA ServeStep ==
  ASSUME EdgeInv, NEW r \in Requests,
         FailOpen(r) \/ Refused(r) \/ Work(r) \/ Commit(r) \/ Revoke(r)
  PROVE  EdgeInv'
<1>1. /\ forced \in BOOLEAN /\ lost \in BOOLEAN /\ (lost => forced)
      /\ R!TypeOK /\ CounterInv
  BY DEF EdgeInv, TypeOK, ShutdownInv, ShutdownIsGraceful
<1>2. L!RedisUsable(at[r]) \in BOOLEAN
  BY DEF L!RedisUsable
<1>3. CASE FailOpen(r)
  <2>1. forced' \in BOOLEAN /\ (forced => forced')
    BY <1>1, <1>2, <1>3 DEF FailOpen
  <2>2. pc[r] = "limit" /\ key[r] \in R!Keys /\ key[r][2] <= R!WindowAt(now)
    BY <1>3 DEF FailOpen, EdgeInv, HeldInv
  <2>3. LimitsMove
    <3>1. R!LoseAnswer(key[r]) \/ UNCHANGED limitVars
      BY <1>3 DEF FailOpen
    <3>2. CASE R!LoseAnswer(key[r])
      BY <1>1, <2>2, <3>2, CountStep
    <3>3. CASE UNCHANGED limitVars
      BY <1>1, <3>3, LimitsStay
    <3> QED
      BY <3>1, <3>2, <3>3
  <2> QED
    BY <1>3, <2>1, <2>2, <2>3, GotoStep DEF FailOpen
<1>4. CASE Refused(r) \/ Work(r) \/ Commit(r) \/ Revoke(r)
  <2>1. LimitsMove
    BY <1>1, <1>4, LimitsStay DEF Refused, Work, Commit, Revoke
  <2>2. CASE Refused(r)
    BY <1>1, <2>1, <2>2, FinishStep DEF Refused
  <2>3. CASE Work(r)
    BY <1>1, <2>1, <2>3, FinishStep, GotoStep DEF Work
  <2>4. CASE Commit(r)
    BY <1>1, <2>1, <2>4, FinishStep, GotoStep DEF Commit
  <2>5. CASE Revoke(r)
    <3>1. CASE L!RedisUsable(at[r]) /\ UNCHANGED <<forced, lost>>
      BY <1>1, <2>1, <2>5, <3>1, FinishStep DEF Revoke
    <3>2. CASE /\ AllowFailures \/ ~ L!RedisUsable(at[r])
               /\ lost' = TRUE
               /\ forced' = (forced \/ L!RedisUsable(at[r]))
      <4>1. pc[r] # "idle"
        BY <2>5 DEF Revoke
      <4>2. forced' = TRUE
        BY <3>2, <4>1, <1>1, <1>2, ClosedUnderRequest
      <4> QED
        BY <2>1, <2>5, <3>2, <4>2, FinishStep DEF Revoke
    <3> QED
      BY <2>5, <3>1, <3>2 DEF Revoke
  <2> QED
    BY <1>4, <2>2, <2>3, <2>4, <2>5
<1> QED
  BY <1>3, <1>4

LEMMA AcceptStep ==
  ASSUME EdgeInv, NEW r \in Requests, NEW p \in Processes, NEW id \in Identities,
         Accept(r, p, id)
  PROVE  EdgeInv'
<1> DEFINE k == R!KeyOf(id)
<1>1. now \in 0..MaxTime /\ now \in Nat
  BY EdgeAssumption DEF EdgeInv, TypeOK, R!TypeOK
<1>2. k \in R!Keys /\ k[2] = R!WindowAt(now)
  <2>1. R!WindowAt(now) \in Nat /\ R!WindowAt(MaxTime) \in Nat
        /\ R!WindowAt(now) <= R!WindowAt(MaxTime)
    BY <1>1, WindowFacts, EdgeAssumption
  <2> QED
    BY <2>1 DEF R!KeyOf, R!Keys
<1>3. /\ pc[r] = "idle" /\ listener[p] = "open"
      /\ pc' = [pc EXCEPT ![r] = "limit"]
      /\ at' = [at EXCEPT ![r] = p]
      /\ key' = [key EXCEPT ![r] = k]
      /\ UNCHANGED <<retryAt, lifecycleVars, limitVars, forced, lost>>
  BY DEF Accept, L!Accepting
<1> HIDE DEF k
<1>4. /\ phase[p] \notin {"down", "pool", "redis"}
      /\ phase[p] = "serving" \/ undrained[p]
  BY <1>3 DEF EdgeInv, ShutdownInv, ListenerInv
<1>5. /\ R!TypeOK' /\ CounterInv'
  BY <1>3, LimitsStay DEF EdgeInv, TypeOK, LimitsMove
<1>6. TypeOK'
  BY <1>2, <1>3, <1>4, <1>5 DEF EdgeInv, TypeOK, L!TypeOK, lifecycleVars, limitVars, R!Keys,
    R!WindowAt, R!Period
<1>7. HeldInv'
  <2>1. R!WindowAt(now) \in Nat
    BY <1>1, WindowFacts
  <2> QED
    BY <2>1, <1>2, <1>3 DEF EdgeInv, TypeOK, HeldInv, limitVars, R!Keys, R!WindowAt, R!Period
<1>8. RetryInv'
  BY <1>3 DEF EdgeInv, TypeOK, RetryInv, Told, R!TellsReset, limitVars, R!WindowAt, R!Period
<1>9. ShutdownInv'
  <2>1. \A q \in Processes : (Busy(q))' => Busy(q) \/ q = p
    BY <1>3 DEF EdgeInv, TypeOK, Busy
  <2>2. ListenerInv'
    BY <1>3 DEF EdgeInv, TypeOK, ShutdownInv, ListenerInv, lifecycleVars
  <2> QED
    BY <1>3, <1>4, <2>1, <2>2 DEF EdgeInv, ShutdownInv, ShutdownIsGraceful, lifecycleVars
<1> QED
  BY <1>5, <1>6, <1>7, <1>8, <1>9 DEF EdgeInv

\* A refused request is told the expiry its own count has seen.
LEMMA LimitedStep ==
  ASSUME EdgeInv, NEW r \in Requests, Limit(r)
  PROVE  EdgeInv'
<1> DEFINE k == key[r]
           e == now + Second * R!RetryAfter(k)
<1>1. /\ pc[r] = "limit" /\ k \in R!Keys /\ k[2] <= R!WindowAt(now)
      /\ R!Admit(k) \/ R!Refuse(k)
      /\ UNCHANGED <<lifecycleVars, forced, lost, at, key>>
      /\ \/ pc' = [pc EXCEPT ![r] = "work"] /\ retryAt' = retryAt
         \/ /\ R!Refuse(k)
            /\ pc' = [pc EXCEPT ![r] = "refused"]
            /\ retryAt' = [retryAt EXCEPT ![r] = e]
  BY DEF Limit, Goto, EdgeInv, HeldInv
<1>2. R!TypeOK /\ CounterInv
  BY DEF EdgeInv, TypeOK
<1>3. /\ LimitsMove
      /\ now' = now /\ muddled \subseteq muddled'
      /\ \A j \in R!Keys : admitted'[j] >= admitted[j]
      /\ R!Refuse(k) => k \in muddled \/ (counter[k] # 0 /\ admitted[k] >= Max)
  BY <1>1, <1>2, CountStep
<1>4. R!Increment(k)
  BY <1>1 DEF R!Admit, R!Refuse
<1>5. /\ dies'[k] = R!Expiry(k) /\ counter'[k] = counter[k] + 1
      /\ EndOf(k) <= dies'[k] /\ now < dies'[k] /\ dies'[k] \in Nat
  <2>1. dies' \in [R!Keys -> Nat]
    BY <1>1, <1>2, <1>4, IncrementStep
  <2>2. /\ dies'[k] = R!Expiry(k) /\ counter'[k] = counter[k] + 1
        /\ EndOf(k) <= dies'[k] /\ now < dies'[k]
    BY <1>1, <1>2, <1>4, IncrementStep
  <2> QED
    BY <1>1, <2>1, <2>2
<1>6. e \in Nat /\ 2 * (dies'[k] - e) < Second /\ 2 * (e - dies'[k]) <= Second
  <2>1. PICK d \in Nat : d = dies'[k] - now
    BY <1>5, EdgeAssumption DEF EdgeInv, TypeOK, R!TypeOK
  <2>2. R!RetryAfter(k) = (d + Second \div 2) \div Second
    BY <1>5, <2>1 DEF R!RetryAfter
  <2>3. PICK n \in Nat : n = R!RetryAfter(k)
    BY <2>2, PeriodFacts, Rounding
  <2>4. Second * n \in Nat /\ 2 * (d - Second * n) < Second /\ 2 * (Second * n - d) <= Second
    BY <2>2, <2>3, PeriodFacts, Rounding
  <2>5. now \in Nat /\ dies'[k] \in Nat /\ e = now + Second * n
    BY <1>5, <2>3, EdgeAssumption DEF EdgeInv, TypeOK, R!TypeOK
  <2>6. PICK m \in Nat : m = Second * n
    BY <2>4
  <2> HIDE DEF e
  <2> QED
    BY <2>1, <2>4, <2>5, <2>6, PeriodFacts
<1>7. /\ pc \in [Requests -> {"idle", "limit", "refused", "work", "commit", "revoke"}]
      /\ retryAt \in [Requests -> Nat]
  BY DEF EdgeInv, TypeOK
<1>8. /\ pc' \in [Requests -> {"idle", "limit", "refused", "work", "commit", "revoke"}]
      /\ retryAt' \in [Requests -> Nat]
      /\ pc'[r] \in {"work", "refused"}
      /\ pc'[r] = "refused" => R!Refuse(k) /\ retryAt'[r] = e
      /\ \A s \in Requests : s # r => pc'[s] = pc[s] /\ retryAt'[s] = retryAt[s]
  <2> HIDE DEF e, k
  <2> QED
    BY <1>1, <1>6, <1>7
<1>9. pc'[r] = "refused" => Told(key[r], retryAt[r])'
  <2> SUFFICES ASSUME pc'[r] = "refused", k \notin muddled'
               PROVE  /\ 2 * (EndOf(k) - e) < Second
                      /\ 2 * (dies'[k] - e) < Second /\ 2 * (e - dies'[k]) <= Second
                      /\ admitted'[k] >= Max
                      /\ counter'[k] # 0
    BY <1>1, <1>3, <1>8 DEF Told, R!TellsReset, R!WindowAt, R!Period, EndOf
  <2>1. k \notin muddled /\ admitted[k] >= Max
    BY <1>3, <1>8
  <2>2. admitted[k] \in Nat /\ admitted'[k] \in Nat /\ counter[k] \in Nat /\ Max \in Nat
    BY <1>1, <1>2, <1>3, EdgeAssumption DEF LimitsMove, R!TypeOK, R!Keys, R!WindowAt, R!Period
  <2>3. admitted'[k] >= admitted[k]
    BY <1>1, <1>3
  <2>4. admitted'[k] >= Max /\ counter'[k] # 0
    BY <2>1, <2>2, <2>3, <1>5
  <2>5. EndOf(k) \in Nat
    BY <1>1, KeyFacts
  <2> HIDE DEF e, k
  <2>6. 2 * (EndOf(k) - e) < Second
    BY <2>5, <1>5, <1>6, PeriodFacts
  <2> QED
    BY <2>4, <2>6, <1>6
<1>10. /\ \A s \in Requests : at'[s] \in {at[s], NoProcess}
       /\ \A s \in Requests : pc'[s] # "idle" =>
            at'[s] = at[s] /\ key'[s] = key[s] /\ pc[s] # "idle"
       /\ \A s \in Requests : pc'[s] = "refused" =>
            \/ pc[s] = "refused" /\ retryAt'[s] = retryAt[s]
            \/ Told(key[s], retryAt[s])'
  <2>1. \A s \in Requests : at'[s] = at[s] /\ key'[s] = key[s]
    BY <1>1
  <2>2. \A s \in Requests : s # r => pc'[s] = pc[s] /\ retryAt'[s] = retryAt[s]
    BY <1>8
  <2> QED
    BY <2>1, <2>2, <1>1, <1>9
<1>11. RequestType'
  BY <1>1, <1>8 DEF EdgeInv, TypeOK, RequestType, R!Keys, R!WindowAt, R!Period
<1>12. forced' \in BOOLEAN /\ lost' \in BOOLEAN /\ (forced => forced') /\ (lost' => forced')
  BY <1>1 DEF EdgeInv, TypeOK, ShutdownInv, ShutdownIsGraceful
<1> QED
  BY <1>1, <1>3, <1>10, <1>11, <1>12, RequestsMove

(***************************************************************************)
(* Processes                                                               *)
(***************************************************************************)
\* A process leaves with what it was serving.
LEMMA CutStep ==
  ASSUME EdgeInv, NEW p \in Processes, L!Exit(p), Cut(p), UNCHANGED limitVars,
         forced' \in BOOLEAN, forced => forced',
         phase[p] = "closingPool" \/ forced'
  PROVE  EdgeInv'
<1>1. /\ phase' = [phase EXCEPT ![p] = "down"]
      /\ listener' = [listener EXCEPT ![p] = "none"]
      /\ signalled' = [signalled EXCEPT ![p] = FALSE]
      /\ undrained' = [undrained EXCEPT ![p] = FALSE]
  BY DEF L!Exit, L!Listening
<1>2. \A r \in Requests :
        IF at[r] = p THEN pc'[r] = "idle" /\ at'[r] = NoProcess
        ELSE pc'[r] = pc[r] /\ at'[r] = at[r] /\ key'[r] = key[r] /\ retryAt'[r] = retryAt[r]
  BY DEF Cut, Finish
<1>3. RequestType'
  BY DEF EdgeInv, TypeOK, Cut, Finish, RequestType, limitVars, R!Keys, R!WindowAt, R!Period
<1>4. lost' \in BOOLEAN /\ (lost' => forced')
  <2>1. lost \in BOOLEAN /\ (lost => forced)
    BY DEF EdgeInv, TypeOK, ShutdownInv, ShutdownIsGraceful
  <2>2. Busy(p) => forced'
    BY DEF EdgeInv, ShutdownInv, ShutdownIsGraceful, ListenerInv
  <2> QED
    BY <2>1, <2>2 DEF Cut, Busy
<1>5. R!TypeOK' /\ CounterInv'
  BY LimitsStay DEF LimitsMove, EdgeInv, TypeOK
<1>6. TypeOK'
  <2>1. L!TypeOK'
    BY <1>1 DEF EdgeInv, TypeOK, L!TypeOK, L!Phases, L!Listeners
  <2>2. \A r \in Requests : at'[r] # NoProcess => phase'[at'[r]] \notin {"down", "pool", "redis"}
    BY <1>1, <1>2 DEF EdgeInv, TypeOK, L!TypeOK
  <2> QED
    BY <1>3, <1>4, <1>5, <2>1, <2>2 DEF TypeOK, RequestType
<1>7. HeldInv'
  BY <1>2 DEF EdgeInv, HeldInv, limitVars, R!Keys, R!WindowAt, R!Period
<1>8. RetryInv'
  BY <1>2 DEF EdgeInv, RetryInv, Told, R!TellsReset, limitVars, R!WindowAt, R!Period
<1>9. ShutdownInv'
  <2>1. \A q \in Processes : q # p /\ (Busy(q))' => Busy(q)
    BY <1>2, EdgeAssumption DEF Busy
  <2>2. \A q \in Processes : q # p =>
          /\ phase'[q] = phase[q] /\ listener'[q] = listener[q] /\ undrained'[q] = undrained[q]
    BY <1>1 DEF EdgeInv, TypeOK, L!TypeOK
  <2>3. phase'[p] = "down" /\ listener'[p] = "none" /\ undrained'[p] = FALSE
    BY <1>1 DEF EdgeInv, TypeOK, L!TypeOK
  <2>4. \A r \in Requests : at'[r] # NoProcess => at'[r] = at[r] /\ at[r] \in Processes \ {p}
    BY <1>2 DEF EdgeInv, TypeOK
  <2>5. ListenerInv'
    BY <2>2, <2>3, <2>4 DEF EdgeInv, ShutdownInv, ListenerInv
  <2>6. ShutdownIsGraceful'
    BY <2>1, <2>2, <2>3, <1>4 DEF EdgeInv, ShutdownInv, ShutdownIsGraceful
  <2> QED
    BY <2>5, <2>6 DEF ShutdownInv
<1> QED
  BY <1>5, <1>6, <1>7, <1>8, <1>9 DEF EdgeInv

\* What a step of run() or of the listener does to its own process, whoever is served.
MovesOn(p) ==
  /\ L!TypeOK' /\ forced' \in BOOLEAN /\ (forced => forced')
  /\ \A q \in Processes : q # p =>
       phase'[q] = phase[q] /\ listener'[q] = listener[q] /\ undrained'[q] = undrained[q]
  /\ listener'[p] # "none" => phase'[p] \notin {"down", "pool", "redis"}
  /\ listener'[p] = "open" => phase'[p] = "serving" \/ undrained'[p]
  /\ undrained'[p] => forced'
  /\ Busy(p) =>
       /\ phase'[p] \notin {"down", "pool", "redis"}
       /\ listener'[p] \in {"open", "closed"}
       /\ phase'[p] \in {"drained", "closingPool"} => undrained'[p]

LEMMA MovesOnStep ==
  ASSUME EdgeInv, NEW p \in Processes, UNCHANGED <<limitVars, requestVars, lost>>, MovesOn(p)
  PROVE  EdgeInv'
<1>1. UNCHANGED <<pc, at, key, retryAt, now, counter, dies, admitted, muddled>>
  BY DEF limitVars, requestVars
<1>2. R!TypeOK' /\ CounterInv'
  BY LimitsStay DEF LimitsMove, EdgeInv, TypeOK
<1>3. TypeOK'
  <2>1. \A r \in Requests : at[r] # NoProcess => phase'[at[r]] \notin {"down", "pool", "redis"}
    BY DEF EdgeInv, TypeOK, Busy, MovesOn
  <2> QED
    BY <2>1, <1>1, <1>2 DEF EdgeInv, TypeOK, MovesOn, R!Keys, R!WindowAt, R!Period
<1>4. HeldInv' /\ RetryInv'
  BY <1>1 DEF EdgeInv, HeldInv, RetryInv, Told, R!TellsReset, R!Keys, R!WindowAt, R!Period
<1>5. ListenerInv'
  <2>1. \A r \in Requests : at[r] # NoProcess => listener'[at[r]] \in {"open", "closed"}
    BY DEF EdgeInv, TypeOK, ShutdownInv, ListenerInv, Busy, MovesOn
  <2> QED
    BY <2>1, <1>1 DEF EdgeInv, ShutdownInv, ListenerInv, MovesOn
<1>6. ShutdownIsGraceful'
  <2>1. \A q \in Processes : (Busy(q))' <=> Busy(q)
    BY <1>1 DEF Busy
  <2> QED
    BY <2>1 DEF EdgeInv, ShutdownInv, ShutdownIsGraceful, MovesOn
<1> QED
  BY <1>2, <1>3, <1>4, <1>5, <1>6 DEF EdgeInv, ShutdownInv

\* The steps of a process in which no request takes part.
LEMMA PhaseStep ==
  ASSUME EdgeInv, NEW p \in Processes,
         \/ /\ \/ L!Start(p) \/ L!BeginShutdown(p) \/ L!Drained(p, Busy(p)) \/ L!CloseRedis(p)
               \/ L!Signal(p) \/ L!FailStart(p) \/ L!FailListen(p)
            /\ UNCHANGED forced
         \/ (L!ServerErr(p) \/ L!TimeOut(p) \/ L!FailShutdown(p)) /\ forced' = TRUE
         \/ L!Listen(p) /\ forced' = (forced \/ undrained'[p])
  PROVE  MovesOn(p)
<1> USE DEF L!Move, L!Listening
<1>1. /\ phase \in [Processes -> L!Phases] /\ listener \in [Processes -> L!Listeners]
      /\ undrained \in [Processes -> BOOLEAN] /\ signalled \in [Processes -> BOOLEAN]
      /\ forced \in BOOLEAN
  BY DEF EdgeInv, TypeOK, L!TypeOK
<1>2. /\ listener[p] # "none" => phase[p] \notin {"down", "pool", "redis"}
      /\ listener[p] = "open" => phase[p] = "serving" \/ undrained[p]
      /\ undrained[p] => forced
      /\ Busy(p) => /\ phase[p] \notin {"down", "pool", "redis"}
                    /\ listener[p] \in {"open", "closed"}
                    /\ phase[p] \in {"drained", "closingPool"} => undrained[p]
  BY EdgeAssumption DEF EdgeInv, TypeOK, ShutdownInv, ListenerInv, ShutdownIsGraceful, Busy
<1> DEFINE b == Busy(p)
<1>3. ASSUME \/ L!Start(p) \/ L!FailStart(p) \/ L!Signal(p)
             \/ L!Listen(p) \/ L!FailListen(p) \/ L!BeginShutdown(p) \/ L!FailShutdown(p)
             \/ L!ServerErr(p) \/ L!TimeOut(p) \/ L!Drained(p, b) \/ L!CloseRedis(p)
      PROVE  /\ L!TypeOK'
             /\ \A q \in Processes : q # p =>
                  /\ phase'[q] = phase[q] /\ listener'[q] = listener[q]
                  /\ undrained'[q] = undrained[q]
  <2>1. CASE L!Start(p) \/ L!FailStart(p) \/ L!Signal(p)
    BY <1>1, <2>1 DEF L!Start, L!FailStart, L!Signal, L!Exit, L!TypeOK, L!Phases, L!Listeners
  <2>2. CASE L!Listen(p) \/ L!FailListen(p) \/ L!BeginShutdown(p) \/ L!FailShutdown(p)
    BY <1>1, <2>2 DEF L!Listen, L!FailListen, L!BeginShutdown, L!FailShutdown, L!TypeOK,
      L!Phases, L!Listeners
  <2>3. CASE L!ServerErr(p) \/ L!TimeOut(p) \/ L!Drained(p, b) \/ L!CloseRedis(p)
    BY <1>1, <2>3 DEF L!ServerErr, L!TimeOut, L!Drained, L!CloseRedis, L!TypeOK, L!Phases,
      L!Listeners
  <2> QED
    BY <1>3, <2>1, <2>2, <2>3
<1>4. forced' \in BOOLEAN /\ (forced => forced')
  <2>1. CASE L!Listen(p) /\ forced' = (forced \/ undrained'[p])
    BY <1>1, <2>1 DEF L!Listen
  <2> QED
    BY <1>1, <2>1
<1> HIDE DEF b
<1>5. CASE L!Start(p) /\ UNCHANGED forced
  BY <1>1, <1>2, <1>3, <1>4, <1>5 DEF L!Start, MovesOn, b
<1>6. CASE L!FailStart(p) /\ UNCHANGED forced
  BY <1>1, <1>2, <1>3, <1>4, <1>6 DEF L!FailStart, L!Exit, MovesOn, b
<1>7. CASE L!Signal(p) /\ UNCHANGED forced
  BY <1>1, <1>2, <1>3, <1>4, <1>7 DEF L!Signal, MovesOn, b
<1>8. CASE L!Listen(p) /\ forced' = (forced \/ undrained'[p])
  BY <1>1, <1>2, <1>3, <1>4, <1>8 DEF L!Listen, MovesOn, b
<1>9. CASE L!FailListen(p) /\ UNCHANGED forced
  BY <1>1, <1>2, <1>3, <1>4, <1>9 DEF L!FailListen, MovesOn, b
<1>10. CASE L!BeginShutdown(p) /\ UNCHANGED forced
  BY <1>1, <1>2, <1>3, <1>4, <1>10 DEF L!BeginShutdown, MovesOn, b
<1>11. CASE (L!ServerErr(p) \/ L!TimeOut(p) \/ L!FailShutdown(p)) /\ forced' = TRUE
  BY <1>1, <1>2, <1>3, <1>4, <1>11 DEF L!ServerErr, L!TimeOut, L!FailShutdown, MovesOn, b
<1>12. CASE (L!Drained(p, b) \/ L!CloseRedis(p)) /\ UNCHANGED forced
  BY <1>1, <1>2, <1>3, <1>4, <1>12 DEF L!Drained, L!CloseRedis, MovesOn, b
<1> QED
  BY <1>5, <1>6, <1>7, <1>8, <1>9, <1>10, <1>11, <1>12 DEF b

LEMMA ProcessStep ==
  ASSUME EdgeInv, NEW p \in Processes, Run(p) \/ Timer(p) \/ Interrupt(p), UNCHANGED limitVars
  PROVE  EdgeInv'
<1>1. forced \in BOOLEAN
  BY DEF EdgeInv, TypeOK
<1>2. CASE L!ClosePool(p, Connected(p)) /\ Cut(p) /\ UNCHANGED forced
  BY <1>1, <1>2, CutStep DEF L!ClosePool
<1>3. CASE L!Exit(p) /\ Cut(p) /\ forced' = TRUE
  BY <1>3, CutStep
<1>4. CASE /\ UNCHANGED <<requestVars, lost>>
           /\ \/ /\ \/ L!Start(p) \/ L!BeginShutdown(p) \/ L!Drained(p, Busy(p))
                    \/ L!CloseRedis(p) \/ L!Signal(p) \/ L!FailStart(p) \/ L!FailListen(p)
                 /\ UNCHANGED forced
              \/ (L!ServerErr(p) \/ L!TimeOut(p) \/ L!FailShutdown(p)) /\ forced' = TRUE
              \/ L!Listen(p) /\ forced' = (forced \/ undrained'[p])
  BY <1>4, PhaseStep, MovesOnStep
<1> QED
  BY <1>2, <1>3, <1>4 DEF Run, Timer, Interrupt

(***************************************************************************)
(* Theorems                                                                *)
(***************************************************************************)
LEMMA EdgeStart == ASSUME Init PROVE EdgeInv
<1> USE DEF Init, L!Init, R!Init
<1>1. 0 \in 0..MaxTime /\ R!WindowAt(0) \in Nat
  BY EdgeAssumption, WindowFacts
<1>2. TypeOK
  BY <1>1 DEF TypeOK, L!TypeOK, L!Phases, L!Listeners, R!TypeOK
<1>3. CounterInv
  BY <1>1, EdgeAssumption DEF CounterInv
<1>4. HeldInv /\ RetryInv
  BY DEF HeldInv, RetryInv
<1>5. ShutdownInv
  BY DEF ShutdownInv, ListenerInv, ShutdownIsGraceful
<1> QED
  BY <1>2, <1>3, <1>4, <1>5 DEF EdgeInv

LEMMA EdgeStep ==
  ASSUME EdgeInv, [Next]_vars
  PROVE  EdgeInv'
<1>1. ASSUME NEW r \in Requests, Serve(r)
      PROVE  EdgeInv'
  BY <1>1, LimitedStep, ServeStep DEF Serve
<1>2. ASSUME NEW r \in Requests, NEW p \in Processes, NEW id \in Identities, Accept(r, p, id)
      PROVE  EdgeInv'
  BY <1>2, AcceptStep
<1>3. ASSUME NEW p \in Processes, Run(p) \/ Timer(p) \/ Interrupt(p), UNCHANGED limitVars
      PROVE  EdgeInv'
  BY <1>3, ProcessStep
<1>4. CASE R!Tick /\ UNCHANGED <<lifecycleVars, requestVars, forced, lost>>
  <2>1. LimitsMove
    BY <1>4, TickStep DEF EdgeInv, TypeOK
  <2>2. UNCHANGED <<pc, at, key, retryAt, forced, lost, lifecycleVars>>
    BY <1>4 DEF requestVars
  <2>3. /\ RequestType'
        /\ forced' \in BOOLEAN /\ lost' \in BOOLEAN /\ (forced => forced') /\ (lost' => forced')
    BY <2>2 DEF EdgeInv, TypeOK, RequestType, ShutdownInv, ShutdownIsGraceful, R!Keys,
      R!WindowAt, R!Period
  <2> QED
    BY <2>1, <2>2, <2>3, RequestsMove
<1>5. CASE UNCHANGED vars
  BY <1>5 DEF vars, lifecycleVars, limitVars, requestVars, EdgeInv, TypeOK, L!TypeOK, R!TypeOK,
    HeldInv, CounterInv, RetryInv, Told, R!TellsReset, EndOf, ShutdownInv, ListenerInv,
    ShutdownIsGraceful, Busy, R!Keys, R!WindowAt, R!Period
<1> QED
  BY <1>1, <1>2, <1>3, <1>4, <1>5 DEF Next

\* The inductive invariant of the edge.
THEOREM EdgeTheorem == Spec => []EdgeInv
  BY EdgeStart, EdgeStep, PTL DEF Spec

\* Every request is of a process that serves it, and every counter is a number.
THEOREM EdgeTypeCorrect == Spec => []TypeOK
<1>1. EdgeInv => TypeOK
  BY DEF EdgeInv
<1> QED
  BY <1>1, EdgeTheorem, PTL

\* ratelimit.go:29, the fixed window: however many replicas share the counter, at most Max
\* requests of an identity get through in a window by being counted in it.
THEOREM MaxTheorem == Spec => []AtMostMax
<1>1. EdgeInv => AtMostMax
  BY DEF EdgeInv, CounterInv, AtMostMax, R!AtMostMax
<1> QED
  BY <1>1, EdgeTheorem, PTL

\* ratelimit.go:71-74: a refusal follows Max others, and the caller is told when its key
\* dies to the nearest second, whatever is counted after it.
THEOREM RetryTheorem == Spec => []RetryWhenReset
<1>1. EdgeInv => RetryWhenReset
  BY DEF EdgeInv, RetryInv, Told, RetryWhenReset
<1> QED
  BY <1>1, EdgeTheorem, PTL

\* app_main.go:151: a shutdown that drains drops no request, and no revocation; run()
\* closes things under a request only after it went on without a drain.
THEOREM GracefulTheorem == Spec => []ShutdownIsGraceful
<1>1. EdgeInv => ShutdownIsGraceful
  BY DEF EdgeInv, ShutdownInv
<1> QED
  BY <1>1, EdgeTheorem, PTL
=============================================================================
