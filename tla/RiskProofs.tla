------------------------------- MODULE RiskProofs -------------------------------
(***************************************************************************)
(* The theorems of the parts of the risk layer that share no state with the*)
(* ledger.  The order rate limiter grants what it was paid for, whatever   *)
(* its threads interleave; no breach of a drawdown limit goes without a    *)
(* halt; stops hang on the best price, and a target is taken once.         *)
(***************************************************************************)
EXTENDS OrderRateLimiter, DrawdownGuard, ExitEngines, SequenceTheorems, TLAPS

-----------------------------------------------------------------------------
(* The order rate limiter                                                  *)

\* What a thread has read is of use: time has passed between the stamp and the
\* clock it refills for, and the level it takes a token from holds one.
ReadingsAreSound ==
  \A t \in Callers :
    /\ caller[t].step \in {"level", "refill", "restamp"} => caller[t].last < caller[t].now
    /\ caller[t].step = "take" => Token <= caller[t].tokens

\* The type invariant alone is not inductive: that a refill never lowers the
\* level, and that taking never makes it negative, rests on the readings.
LimiterInv == LimiterTypeOK /\ ReadingsAreSound /\ GrantsArePaid

Reading == [step : Steps, now : 0 .. now, last : 0 .. now,
            tokens : 0 .. m_burstCapacity, attempt : 0 .. kMaxRetries]

\* A record is a reading when its fields are.
LEMMA ReadingFields ==
  ASSUME NEW hour \in Nat, NEW s \in Steps, NEW n \in 0 .. hour, NEW l \in 0 .. hour,
         NEW k \in 0 .. m_burstCapacity, NEW a \in 0 .. kMaxRetries
  PROVE  [step |-> s, now |-> n, last |-> l, tokens |-> k, attempt |-> a]
           \in [step : Steps, now : 0 .. hour, last : 0 .. hour,
                tokens : 0 .. m_burstCapacity, attempt : 0 .. kMaxRetries]
  OBVIOUS

\* A refill for a time that has passed raises the level, and within the capacity.
LEMMA RefillsRaise ==
  ASSUME LimiterInv, NEW t \in Callers, caller[t].step = "refill"
  PROVE  Refilled(t) \in caller[t].tokens .. m_burstCapacity
<1>1. /\ caller[t].tokens \in 0 .. m_burstCapacity
      /\ caller[t].now \in Nat /\ caller[t].last \in Nat
      /\ caller[t].last < caller[t].now
  BY LimiterAssumption DEF LimiterInv, LimiterTypeOK, ReadingsAreSound
<1> DEFINE added == (caller[t].now - caller[t].last) * m_maxRate
<1>2. added \in Nat
  <2>1. caller[t].now - caller[t].last \in Nat
    BY <1>1
  <2>2. \A a, b \in Nat : a * b \in Nat
    OBVIOUS
  <2> QED BY <2>1, <2>2, LimiterAssumption
<1>3. Refilled(t) = IF caller[t].tokens + added > m_burstCapacity
                    THEN m_burstCapacity ELSE caller[t].tokens + added
  BY DEF Refilled
<1> HIDE DEF added
<1> QED BY <1>1, <1>2, <1>3, LimiterAssumption

-----------------------------------------------------------------------------

LEMMA LimiterStarts == LimiterInit => LimiterInv
<1> SUFFICES ASSUME LimiterInit PROVE LimiterInv
  OBVIOUS
<1>1. LimiterTypeOK
  BY LimiterAssumption DEF LimiterInit, LimiterTypeOK, Idle, Call, Steps, kMaxRetries
<1>2. ReadingsAreSound
  BY DEF LimiterInit, ReadingsAreSound, Idle, Call
<1>3. GrantsArePaid
  BY LimiterAssumption DEF LimiterInit, GrantsArePaid
<1> QED BY <1>1, <1>2, <1>3 DEF LimiterInv

\* A step of a thread that keeps the clock leaves every reading sound when the
\* new one is.
LEMMA CallStep ==
  ASSUME LimiterInv, NEW t \in Callers, now' = now,
         NEW s \in Steps, NEW n \in 0 .. now, NEW l \in 0 .. now,
         NEW k \in 0 .. m_burstCapacity, NEW a \in 0 .. kMaxRetries,
         s \in {"level", "refill", "restamp"} => l < n,
         s = "take" => Token <= k,
         goes(t, Call(s, n, l, k, a))
  PROVE  /\ caller' \in [Callers -> Reading]'
         /\ ReadingsAreSound'
<1> DEFINE next == Call(s, n, l, k, a)
<1>1. next \in Reading
  <2>1. now \in Nat
    BY LimiterAssumption DEF LimiterInv, LimiterTypeOK
  <2> QED BY <2>1, ReadingFields DEF Call, Reading
<1>2. next.step = s /\ next.now = n /\ next.last = l /\ next.tokens = k
  BY DEF Call
<1> HIDE DEF next
<1>3. caller \in [Callers -> Reading] /\ Reading' = Reading
  BY DEF LimiterInv, LimiterTypeOK, Reading
<1>4. caller' = [caller EXCEPT ![t] = next]
  BY DEF goes, next
<1>5. caller' \in [Callers -> Reading]'
  BY <1>1, <1>3, <1>4
<1>6. ASSUME NEW u \in Callers
      PROVE  /\ caller'[u].step \in {"level", "refill", "restamp"} => caller'[u].last < caller'[u].now
             /\ caller'[u].step = "take" => Token <= caller'[u].tokens
  <2>1. caller'[u] = IF u = t THEN next ELSE caller[u]
    BY <1>3, <1>4
  <2>2. CASE u = t
    BY <2>1, <2>2, <1>2
  <2>3. CASE u # t
    BY <2>1, <2>3 DEF LimiterInv, ReadingsAreSound
  <2> QED BY <2>2, <2>3
<1> QED BY <1>5, <1>6 DEF ReadingsAreSound

\* What a thread has read, field by field.
LEMMA ReadingOf ==
  ASSUME LimiterInv, NEW t \in Callers
  PROVE  /\ caller[t].step \in Steps
         /\ caller[t].now \in 0 .. now /\ caller[t].last \in 0 .. now
         /\ caller[t].tokens \in 0 .. m_burstCapacity
         /\ caller[t].attempt \in 0 .. kMaxRetries
  BY DEF LimiterInv, LimiterTypeOK

LEMMA Levels ==
  ASSUME LimiterInv
  PROVE  /\ now \in 0 .. MaxNow /\ now \in Nat
         /\ m_lastRefillNs \in 0 .. now /\ m_tokens \in 0 .. m_burstCapacity
         /\ granted \in Nat /\ refilled \in Nat /\ resets \in Nat
  BY LimiterAssumption DEF LimiterInv, LimiterTypeOK

\* Where the bucket stays as it is, a sound reading is all there is to show.
LEMMA ReadingStep ==
  ASSUME LimiterInv, UNCHANGED <<now, bucket, history>>,
         caller' \in [Callers -> Reading]', ReadingsAreSound'
  PROVE  LimiterInv'
<1>1. LimiterTypeOK'
  BY DEF LimiterInv, LimiterTypeOK, Reading, bucket, history
<1>2. GrantsArePaid'
  BY DEF LimiterInv, GrantsArePaid, bucket, history
<1> QED BY <1>1, <1>2 DEF LimiterInv

\* The steps that only read.
LEMMA ReadingSteps ==
  ASSUME LimiterInv, NEW t \in Callers,
         \/ tryAcquire(t) \/ loadLastRefill(t) \/ loadTokens(t) \/ refillFails(t)
         \/ loadLevel(t) \/ takeFails(t) \/ resetClock(t)
  PROVE  LimiterInv'
<1> USE LimiterAssumption DEF Steps, kMaxRetries
<1>1. CASE tryAcquire(t)
  <2>1. caller' \in [Callers -> Reading]' /\ ReadingsAreSound'
    BY <1>1, Levels, CallStep DEF tryAcquire
  <2> QED BY <1>1, <2>1, ReadingStep DEF tryAcquire
<1>2. CASE loadLastRefill(t)
  <2>1. caller' \in [Callers -> Reading]' /\ ReadingsAreSound'
    <3>1. CASE caller[t].now <= m_lastRefillNs
      BY <1>2, <3>1, Levels, CallStep DEF loadLastRefill, Taking
    <3>2. CASE ~(caller[t].now <= m_lastRefillNs)
      BY <1>2, <3>2, Levels, ReadingOf, CallStep DEF loadLastRefill
    <3> QED BY <3>1, <3>2
  <2> QED BY <1>2, <2>1, ReadingStep DEF loadLastRefill
<1>3. CASE loadTokens(t)
  <2>1. caller' \in [Callers -> Reading]' /\ ReadingsAreSound'
    <3>1. caller[t].last < caller[t].now
      BY <1>3 DEF loadTokens, at, LimiterInv, ReadingsAreSound
    <3>2. goes(t, Call("refill", caller[t].now, caller[t].last, m_tokens, 0)) /\ now' = now
      BY <1>3 DEF loadTokens
    <3> QED BY <3>1, <3>2, Levels, ReadingOf, CallStep
  <2> QED BY <1>3, <2>1, ReadingStep DEF loadTokens
<1>4. CASE refillFails(t)
  <2>1. caller' \in [Callers -> Reading]' /\ ReadingsAreSound'
    BY <1>4, Levels, CallStep DEF refillFails, Taking
  <2> QED BY <1>4, <2>1, ReadingStep DEF refillFails
<1>5. CASE loadLevel(t)
  <2>1. caller' \in [Callers -> Reading]' /\ ReadingsAreSound'
    <3>1. CASE m_tokens < Token
      BY <1>5, <3>1, Levels, CallStep DEF loadLevel, Idle
    <3>2. CASE ~(m_tokens < Token)
      <4>1. Token <= m_tokens
        BY <3>2, Levels
      <4>2. goes(t, Call("take", 0, 0, m_tokens, caller[t].attempt)) /\ now' = now
        BY <1>5, <3>2 DEF loadLevel
      <4>3. 0 \in 0 .. now /\ m_tokens \in 0 .. m_burstCapacity
            /\ caller[t].attempt \in 0 .. kMaxRetries
        BY Levels, ReadingOf
      <4> QED BY <4>1, <4>2, <4>3, CallStep
    <3> QED BY <3>1, <3>2
  <2> QED BY <1>5, <2>1, ReadingStep DEF loadLevel
<1>6. CASE takeFails(t)
  <2>1. caller' \in [Callers -> Reading]' /\ ReadingsAreSound'
    <3>1. CASE caller[t].attempt = kMaxRetries
      BY <1>6, <3>1, Levels, CallStep DEF takeFails, Idle
    <3>2. CASE caller[t].attempt # kMaxRetries
      <4>1. caller[t].attempt + 1 \in 0 .. kMaxRetries
        BY <3>2, ReadingOf
      <4>2. goes(t, Call("load", 0, 0, 0, caller[t].attempt + 1)) /\ now' = now
        BY <1>6, <3>2 DEF takeFails
      <4> QED BY <4>1, <4>2, Levels, CallStep
    <3> QED BY <3>1, <3>2
  <2> QED BY <1>6, <2>1, ReadingStep DEF takeFails
<1>7. CASE resetClock(t)
  <2>1. caller' \in [Callers -> Reading]' /\ ReadingsAreSound'
    BY <1>7, Levels, CallStep DEF resetClock
  <2> QED BY <1>7, <2>1, ReadingStep DEF resetClock
<1> QED BY <1>1, <1>2, <1>3, <1>4, <1>5, <1>6, <1>7

-----------------------------------------------------------------------------
\* A refill that lands adds what it says it adds.
LEMMA RefillTokens ==
  ASSUME LimiterInv, NEW t \in Callers, refillTokens(t)
  PROVE  LimiterInv'
<1>1. caller' \in [Callers -> Reading]' /\ ReadingsAreSound'
  <2>1. caller[t].step = "refill" => caller[t].last < caller[t].now
    BY DEF LimiterInv, ReadingsAreSound
  <2> QED BY <2>1, Levels, ReadingOf, CallStep, LimiterAssumption
          DEF refillTokens, at, Steps, kMaxRetries
<1>2. m_tokens' \in m_tokens .. m_burstCapacity
  BY RefillsRaise DEF refillTokens, at
<1>3. LimiterTypeOK'
  BY <1>1, <1>2, Levels, LimiterAssumption DEF refillTokens, LimiterTypeOK, Reading
<1>4. GrantsArePaid'
  <2> DEFINE paid == m_burstCapacity * (1 + resets)
  <2>1. paid \in Nat
    <3>1. \A a, b \in Nat : a * b \in Nat
      OBVIOUS
    <3>2. 1 + resets \in Nat
      BY Levels
    <3> QED BY <3>1, <3>2, LimiterAssumption
  <2>2. granted + m_tokens <= paid + refilled
    BY DEF LimiterInv, GrantsArePaid
  <2>3. paid' = paid
    BY DEF refillTokens
  <2> HIDE DEF paid
  <2>4. granted' + m_tokens' <= paid + refilled'
    BY <1>2, <2>1, <2>2, Levels, LimiterAssumption DEF refillTokens
  <2>5. m_burstCapacity * (1 + resets') = paid
    BY <2>3 DEF paid
  <2> QED BY <2>4, <2>5 DEF GrantsArePaid
<1> QED BY <1>1, <1>3, <1>4 DEF LimiterInv

LEMMA RefillStamp ==
  ASSUME LimiterInv, NEW t \in Callers, refillStamp(t)
  PROVE  LimiterInv'
<1>1. caller' \in [Callers -> Reading]' /\ ReadingsAreSound'
  BY Levels, CallStep, LimiterAssumption DEF refillStamp, Taking, Steps, kMaxRetries
<1>2. m_lastRefillNs' \in 0 .. now
  BY Levels, ReadingOf DEF refillStamp
<1>3. LimiterTypeOK'
  BY <1>1, <1>2, Levels DEF refillStamp, LimiterTypeOK, Reading, history
<1>4. GrantsArePaid'
  BY DEF LimiterInv, GrantsArePaid, refillStamp, history
<1> QED BY <1>1, <1>3, <1>4 DEF LimiterInv

\* A grant takes its token from the bucket.
LEMMA TakeToken ==
  ASSUME LimiterInv, NEW t \in Callers, takeToken(t)
  PROVE  LimiterInv'
<1>1. caller' \in [Callers -> Reading]' /\ ReadingsAreSound'
  BY Levels, CallStep, LimiterAssumption DEF takeToken, Idle, Steps, kMaxRetries
<1>2. Token <= m_tokens
  BY DEF takeToken, at, LimiterInv, ReadingsAreSound
<1>3. LimiterTypeOK'
  BY <1>1, <1>2, Levels, LimiterAssumption DEF takeToken, LimiterTypeOK, Reading
<1>4. granted' + m_tokens' = granted + m_tokens
  BY Levels, LimiterAssumption DEF takeToken
<1>5. GrantsArePaid'
  BY <1>4 DEF LimiterInv, GrantsArePaid, takeToken
<1> QED BY <1>1, <1>3, <1>5 DEF LimiterInv

\* A reset fills the bucket once, whatever was in it.
LEMMA ResetTokens ==
  ASSUME LimiterInv, NEW t \in Callers, resetTokens(t)
  PROVE  LimiterInv'
<1>1. caller' \in [Callers -> Reading]' /\ ReadingsAreSound'
  BY Levels, CallStep, LimiterAssumption DEF resetTokens, Steps, kMaxRetries
<1>2. LimiterTypeOK'
  BY <1>1, Levels, LimiterAssumption DEF resetTokens, LimiterTypeOK, Reading
<1>3. GrantsArePaid'
  <2>1. m_burstCapacity * (1 + (resets + 1)) = m_burstCapacity * (1 + resets) + m_burstCapacity
    BY Levels, LimiterAssumption
  <2> DEFINE paid == m_burstCapacity * (1 + resets)
  <2>2. granted + m_tokens <= paid + refilled
    BY DEF LimiterInv, GrantsArePaid
  <2>3. m_burstCapacity * (1 + resets') = paid + m_burstCapacity
    BY <2>1 DEF resetTokens
  <2>4. paid \in Nat
    <3>1. \A a, b \in Nat : a * b \in Nat
      OBVIOUS
    <3>2. 1 + resets \in Nat
      BY Levels
    <3> QED BY <3>1, <3>2, LimiterAssumption
  <2> HIDE DEF paid
  <2>5. granted' + m_tokens' <= (paid + m_burstCapacity) + refilled'
    BY <2>2, <2>4, Levels, LimiterAssumption DEF resetTokens
  <2> QED BY <2>3, <2>5 DEF GrantsArePaid
<1> QED BY <1>1, <1>2, <1>3 DEF LimiterInv

LEMMA ResetStamp ==
  ASSUME LimiterInv, NEW t \in Callers, resetStamp(t)
  PROVE  LimiterInv'
<1>1. caller' \in [Callers -> Reading]' /\ ReadingsAreSound'
  BY Levels, CallStep, LimiterAssumption DEF resetStamp, Idle, Steps, kMaxRetries
<1>2. LimiterTypeOK'
  BY <1>1, Levels, ReadingOf DEF resetStamp, LimiterTypeOK, Reading, history
<1>3. GrantsArePaid'
  BY DEF LimiterInv, GrantsArePaid, resetStamp, history
<1> QED BY <1>1, <1>2, <1>3 DEF LimiterInv

\* As the clock advances, what was not in the future stays so.
LEMMA Tick ==
  ASSUME LimiterInv, tick
  PROVE  LimiterInv'
<1>1. now' \in 0 .. MaxNow /\ now < now'
  BY Levels, LimiterAssumption DEF tick
<1>2. \A n \in 0 .. now : n \in 0 .. now'
  BY <1>1, Levels
<1>3. [step : Steps, now : 0 .. now, last : 0 .. now,
       tokens : 0 .. m_burstCapacity, attempt : 0 .. kMaxRetries]
        \subseteq Reading'
  BY <1>2 DEF Reading
<1>4. caller' \in [Callers -> Reading]'
  BY <1>3 DEF tick, LimiterInv, LimiterTypeOK
<1>5. LimiterTypeOK'
  BY <1>1, <1>2, <1>4, Levels DEF tick, LimiterTypeOK, Reading, bucket, history
<1>6. ReadingsAreSound' /\ GrantsArePaid'
  BY DEF tick, LimiterInv, ReadingsAreSound, GrantsArePaid, bucket, history
<1> QED BY <1>5, <1>6 DEF LimiterInv

LEMMA LimiterStep == LimiterInv /\ [LimiterNext]_limiterVars => LimiterInv'
<1> SUFFICES ASSUME LimiterInv, [LimiterNext]_limiterVars PROVE LimiterInv'
  OBVIOUS
<1>1. CASE UNCHANGED limiterVars
  BY <1>1 DEF limiterVars, bucket, history, LimiterInv, LimiterTypeOK, ReadingsAreSound, GrantsArePaid
<1>2. CASE tick
  BY <1>2, Tick
<1>3. ASSUME NEW t \in Callers, step(t)
      PROVE  LimiterInv'
  BY <1>3, ReadingSteps, RefillTokens, RefillStamp, TakeToken, ResetTokens, ResetStamp DEF step
<1> QED BY <1>1, <1>2, <1>3 DEF LimiterNext

-----------------------------------------------------------------------------
\* The invariant of the bucket, in every state of every run.
THEOREM LimiterInvariant == LimiterSpec => []LimiterInv
<1>1. LimiterInit => LimiterInv
  BY LimiterStarts
<1> QED BY <1>1, LimiterStep, PTL DEF LimiterSpec

\* The level of the bucket stays between nothing and the burst capacity, however
\* the loads and exchanges of tryAcquire and reset interleave.
THEOREM LevelWithinBounds == LimiterSpec => []LimiterTypeOK
<1>1. LimiterInv => LimiterTypeOK
  BY DEF LimiterInv
<1> QED BY <1>1, LimiterInvariant, PTL

\* No token is handed out twice: what tryAcquire granted is covered by the first
\* filling, the refills and the resets, for every number of threads.
THEOREM NoTokenTwice == LimiterSpec => []GrantsArePaid
<1>1. LimiterInv => GrantsArePaid
  BY DEF LimiterInv
<1> QED BY <1>1, LimiterInvariant, PTL

-----------------------------------------------------------------------------
\* The time the bucket was refilled for: a call that refilled and has not stored its clock yet
\* knows better than the time stamp.
RefilledFor(one) == IF caller[one].step = "restamp" THEN caller[one].now ELSE m_lastRefillNs

\* The one caller there is finds the time stamp it has read, and none later than its clock.
StampIsItsOwn(one) ==
  /\ caller[one].step \in {"level", "refill", "restamp"} => caller[one].last = m_lastRefillNs
  /\ caller[one].step = "store" => m_lastRefillNs <= caller[one].now
  /\ refilled <= m_maxRate * RefilledFor(one)

LEMMA RateIsMonotone ==
  ASSUME NEW early \in Nat, NEW late \in Nat, early <= late
  PROVE  m_maxRate * early <= m_maxRate * late /\ m_maxRate * early \in Nat
<1> PICK rate, d : rate = m_maxRate /\ d = late - early
  OBVIOUS
<1>1. rate \in Nat /\ d \in Nat /\ late = early + d
  BY LimiterAssumption
<1>2. rate * (early + d) = rate * early + rate * d
  BY <1>1
<1>3. \A a, b \in Nat : a * b \in Nat
  OBVIOUS
<1>4. rate * early \in Nat /\ rate * d \in Nat
  BY ONLY <1>1, <1>3, early \in Nat
<1>5. rate * early <= rate * early + rate * d
  BY ONLY <1>4
<1> QED
  BY <1>1, <1>2, <1>4, <1>5

\* A refill adds at most what the time it is for is worth.
LEMMA RefillIsWorthItsTime ==
  ASSUME LimiterInv, NEW one \in Callers, StampIsItsOwn(one), refillTokens(one)
  PROVE  refilled' <= m_maxRate * caller[one].now
<1>1. /\ caller[one].step = "refill" /\ m_tokens = caller[one].tokens
      /\ m_tokens' = Refilled(one) /\ refilled' = refilled + (m_tokens' - m_tokens)
  BY DEF refillTokens, at
<1>2. caller[one].last = m_lastRefillNs /\ caller[one].last < caller[one].now
      /\ refilled <= m_maxRate * m_lastRefillNs
  BY <1>1 DEF StampIsItsOwn, RefilledFor, LimiterInv, ReadingsAreSound
<1>3. m_lastRefillNs \in Nat /\ caller[one].now \in Nat /\ refilled \in Nat /\ m_tokens \in Nat /\ m_maxRate \in Nat
  BY Levels, ReadingOf, LimiterAssumption
<1> PICK d, added, before : d = caller[one].now - m_lastRefillNs /\ added = d * m_maxRate
                            /\ before = m_maxRate * m_lastRefillNs
  OBVIOUS
<1>4. d \in Nat /\ caller[one].now = m_lastRefillNs + d
  BY <1>2, <1>3
<1>5. m_maxRate * (m_lastRefillNs + d) = before + added
  BY <1>3, <1>4
<1>6. \A a, b \in Nat : a * b \in Nat
  OBVIOUS
<1>7. added \in Nat /\ before \in Nat
  BY <1>3, <1>4, <1>6
<1>8. m_tokens' \in Nat /\ m_tokens' <= m_tokens + added
  <2>1. Refilled(one) = IF m_tokens + added > m_burstCapacity THEN m_burstCapacity ELSE m_tokens + added
    BY <1>1, <1>2 DEF Refilled
  <2> QED
    BY ONLY <1>1, <1>3, <1>7, <2>1, LimiterAssumption
<1>9. refilled' <= before + added
  <2>1. refilled <= before
    BY <1>2
  <2> QED
    BY ONLY <1>1, <1>3, <1>7, <1>8, <2>1
<1> QED
  BY <1>4, <1>5, <1>9

LEMMA OneCallerStep ==
  ASSUME NEW one, Callers = {one}, LimiterInv, StampIsItsOwn(one), [LimiterNext]_limiterVars
  PROVE  StampIsItsOwn(one)'
<1> USE DEF at, goes, Call, Idle, Taking
<1>1. /\ caller[one].now \in 0 .. now /\ caller[one].last \in 0 .. now /\ m_lastRefillNs \in 0 .. now
      /\ now \in Nat /\ one \in DOMAIN caller
  BY Levels, ReadingOf DEF LimiterInv, LimiterTypeOK
<1>2. CASE tick \/ UNCHANGED limiterVars
  BY <1>2 DEF tick, limiterVars, bucket, history, StampIsItsOwn, RefilledFor
<1>3. CASE \/ tryAcquire(one) \/ loadLastRefill(one) \/ loadTokens(one) \/ refillFails(one) \/ loadLevel(one)
           \/ takeToken(one) \/ takeFails(one) \/ resetTokens(one) \/ resetClock(one)
  <2>1. /\ caller[one].step \notin {"restamp", "store"} /\ caller'[one].step # "restamp"
        /\ m_lastRefillNs' = m_lastRefillNs /\ refilled' = refilled
        /\ caller'[one].step \in {"level", "refill"} => caller'[one].last = m_lastRefillNs
        /\ caller'[one].step = "store" => caller'[one].now = now
    BY <1>1, <1>3 DEF tryAcquire, loadLastRefill, loadTokens, refillFails, loadLevel, takeToken, takeFails,
                      resetTokens, resetClock, bucket, history, StampIsItsOwn
  <2> QED
    BY <1>1, <2>1 DEF StampIsItsOwn, RefilledFor
<1>4. CASE refillTokens(one)
  <2>1. refilled' <= m_maxRate * caller[one].now
    BY <1>4, RefillIsWorthItsTime
  <2>2. /\ caller[one].step = "refill" /\ m_lastRefillNs' = m_lastRefillNs
        /\ caller'[one].step = "restamp" /\ caller'[one].now = caller[one].now
        /\ caller'[one].last = caller[one].last
    BY <1>1, <1>4 DEF refillTokens
  <2> QED
    BY <2>1, <2>2 DEF StampIsItsOwn, RefilledFor
<1>5. CASE refillStamp(one)
  <2>1. /\ caller[one].step = "restamp" /\ m_lastRefillNs' = caller[one].now /\ refilled' = refilled
        /\ caller'[one].step = "load"
    BY <1>1, <1>5 DEF refillStamp, StampIsItsOwn, history
  <2> QED
    BY <2>1 DEF StampIsItsOwn, RefilledFor
<1>6. CASE resetStamp(one)
  <2>1. /\ caller[one].step = "store" /\ m_lastRefillNs' = caller[one].now /\ refilled' = refilled
        /\ caller'[one].step = "idle"
    BY <1>1, <1>6 DEF resetStamp, history
  <2>2. m_lastRefillNs <= caller[one].now /\ refilled <= m_maxRate * m_lastRefillNs
    BY <2>1 DEF StampIsItsOwn, RefilledFor
  <2>3. m_maxRate * m_lastRefillNs <= m_maxRate * caller[one].now
        /\ m_maxRate * m_lastRefillNs \in Nat /\ m_maxRate * caller[one].now \in Nat
    BY <1>1, <2>2, RateIsMonotone
  <2>4. refilled <= m_maxRate * caller[one].now
    <3> PICK before, after : before = m_maxRate * m_lastRefillNs /\ after = m_maxRate * caller[one].now
      OBVIOUS
    <3>1. refilled \in Nat
      BY Levels
    <3> QED
      BY <2>2, <2>3, <3>1
  <2> QED
    BY <2>1, <2>4 DEF StampIsItsOwn, RefilledFor
<1> QED
  BY <1>2, <1>3, <1>4, <1>5, <1>6 DEF LimiterNext, step

\* One thread, as the application has it, refills the bucket at the configured rate, whatever
\* its exchanges fail for and whenever it resets: tryAcquire's two halves cannot cross another's.
THEOREM OneCallerFollowsTheClock ==
  ASSUME NEW one, Callers = {one}
  PROVE  LimiterSpec => []RefillsFollowTheClock
<1>1. LimiterInit => StampIsItsOwn(one)
  BY LimiterAssumption DEF LimiterInit, StampIsItsOwn, RefilledFor, Idle, Call
<1>2. LimiterInv /\ StampIsItsOwn(one) => RefillsFollowTheClock
  <2> SUFFICES ASSUME LimiterInv, StampIsItsOwn(one) PROVE refilled <= m_maxRate * now
    BY DEF RefillsFollowTheClock
  <2> PICK time : time = RefilledFor(one)
    OBVIOUS
  <2>1. time \in 0 .. now /\ now \in Nat /\ refilled \in Nat
    BY Levels, ReadingOf DEF RefilledFor
  <2>2. refilled <= m_maxRate * time
    BY DEF StampIsItsOwn
  <2> PICK before, after : before = m_maxRate * time /\ after = m_maxRate * now
    OBVIOUS
  <2>3. before <= after /\ before \in Nat
    BY <2>1, RateIsMonotone
  <2>4. after \in Nat
    BY <2>1, RateIsMonotone
  <2> QED
    BY <2>1, <2>2, <2>3, <2>4
<1>3. LimiterInv /\ StampIsItsOwn(one) /\ [LimiterNext]_limiterVars => (LimiterInv /\ StampIsItsOwn(one))'
  BY LimiterStep, OneCallerStep
<1> QED
  BY <1>1, <1>2, <1>3, LimiterStarts, PTL DEF LimiterSpec

-----------------------------------------------------------------------------
(* The drawdown guard                                                      *)

\* The equity last reported breaks a limit.
Breached ==
  \/ Below(m_currentEquity, maxDailyDrawdown, m_dailyStartEquity)
  \/ Below(m_currentEquity, maxDrawdown, m_peakEquity)

\* While a halt is about to be stored there is one thread to store it: what BreachesHalt
\* has only when the lock is free.
BreachIsHandled == Breached => m_halted \/ cleared \/ \E t \in Threads : call[t] = "halt"

GuardInv == GuardTypeOK /\ BreachIsHandled

\* Only these are compared with each other.
Equities ==
  /\ m_currentEquity \in Nat /\ m_peakEquity \in Nat /\ m_dailyStartEquity \in Nat

LEMMA TypesAreEquities == GuardTypeOK => Equities
BY GuardAssumption DEF GuardTypeOK, Equities

\* What the code tests is what less than the limit allows means.
LEMMA BelowExceeds ==
  ASSUME NEW from \in Nat, NEW to \in Nat, NEW limit \in 1 .. 100, Below(to, limit, from)
  PROVE  Exceeds(from, to, limit)
<1>1. to * 100 < (100 - limit) * from
  BY DEF Below
<1>2. (100 - limit) * from = 100 * from - limit * from
  OBVIOUS
<1>3. from > 0
  <2>1. (100 - limit) * 0 = 0
    OBVIOUS
  <2>2. SUFFICES ASSUME from = 0 PROVE FALSE
    OBVIOUS
  <2> QED BY <1>1, <2>1, <2>2
<1>4. (from - to) * 100 = 100 * from - 100 * to
  OBVIOUS
<1>5. limit * from \in Int
  OBVIOUS
<1> QED BY <1>1, <1>2, <1>3, <1>4, <1>5 DEF Exceeds

\* Nothing is lost of a day that begins.
LEMMA NothingLost ==
  ASSUME NEW amount \in Nat, NEW limit \in 1 .. 100
  PROVE  ~Below(amount, limit, amount)
<1>1. (100 - limit) * amount = 100 * amount - limit * amount
  OBVIOUS
<1>2. limit * amount \in Nat
  <2>1. \A a, b \in Nat : a * b \in Nat
    OBVIOUS
  <2> QED BY <2>1
<1> QED BY <1>1, <1>2 DEF Below

-----------------------------------------------------------------------------
(* Types                                                                   *)

LEMMA GuardStarts == GuardInit => GuardInv
<1> SUFFICES ASSUME GuardInit PROVE GuardInv
  OBVIOUS
<1>1. GuardTypeOK
  <2>1. /\ account \in 0 .. MaxEquity /\ opening \in 0 .. MaxEquity
        /\ m_peakEquity \in 0 .. MaxEquity
        /\ m_currentEquity \in 0 .. m_peakEquity /\ m_dailyStartEquity \in 0 .. m_peakEquity
        /\ m_dailyPnl = account - opening
    BY GuardAssumption DEF GuardInit
  <2>2. /\ call \in [Threads -> {"idle", "halt", "reason", "clear"}]
        /\ \A t \in Threads : call[t] = "idle"
    BY DEF GuardInit
  <2> QED BY <2>1, <2>2 DEF GuardInit, GuardTypeOK
<1>2. ~Breached
  <2>1. \A limit \in 1 .. 100 : ~Below(0, limit, 0)
    BY NothingLost
  <2> QED BY <2>1, GuardAssumption DEF GuardInit, Breached
<1> QED BY <1>1, <1>2 DEF GuardInv, BreachIsHandled

LEMMA StepKeepsTypes == GuardTypeOK /\ [GuardNext]_guardVars => GuardTypeOK'
<1> SUFFICES ASSUME GuardTypeOK, [GuardNext]_guardVars PROVE GuardTypeOK'
  OBVIOUS
<1> USE GuardAssumption
<1>1. CASE UNCHANGED guardVars
  BY <1>1 DEF guardVars, equity, GuardTypeOK
<1>2. ASSUME NEW t \in Threads, NEW pnl \in Profits \cup {-loss : loss \in Losses}, recordPnl(t, pnl)
      PROVE  GuardTypeOK'
  BY <1>2 DEF recordPnl, equity, GuardTypeOK
<1>3. ASSUME NEW t \in Threads, updateEquity(t) PROVE GuardTypeOK'
  <2>1. /\ m_currentEquity' \in 0 .. m_peakEquity' /\ m_peakEquity' \in 0 .. MaxEquity
        /\ m_dailyStartEquity' \in 0 .. m_peakEquity'
    BY <1>3 DEF updateEquity, GuardTypeOK
  <2>2. /\ call' \in [Threads -> {"idle", "halt", "reason", "clear"}]
        /\ \A s, u \in Threads :
             call'[s] \in {"halt", "reason"} /\ call'[u] \in {"halt", "reason"} => s = u
    BY <1>3 DEF updateEquity, Unlocked, GuardTypeOK
  <2> QED BY <1>3, <2>1, <2>2 DEF updateEquity, GuardTypeOK
<1>4. ASSUME NEW t \in Threads, storeHalt(t) \/ storeReason(t) PROVE GuardTypeOK'
  <2>1. CASE storeHalt(t)
    BY <2>1 DEF storeHalt, equity, GuardTypeOK
  <2>2. CASE storeReason(t)
    BY <2>2 DEF storeReason, equity, GuardTypeOK
  <2> QED BY <1>4, <2>1, <2>2
<1>5. ASSUME NEW t \in Threads, resetDaily(t) PROVE GuardTypeOK'
  BY <1>5 DEF resetDaily, GuardTypeOK
<1>6. ASSUME NEW t \in Threads, clearHalt(t) \/ clearReason(t) PROVE GuardTypeOK'
  <2>1. CASE clearHalt(t)
    BY <2>1 DEF clearHalt, equity, GuardTypeOK
  <2>2. CASE clearReason(t)
    BY <2>2 DEF clearReason, equity, GuardTypeOK
  <2> QED BY <1>6, <2>1, <2>2
<1> QED BY <1>1, <1>2, <1>3, <1>4, <1>5, <1>6 DEF GuardNext

\* Every equity is a natural number, none above the peak, and the day's profit and loss
\* is what the account gained or lost since the day began (GuardTypeOK).
THEOREM GuardTypes == GuardSpec => []GuardTypeOK
<1>1. GuardInit => GuardTypeOK
  BY GuardStarts DEF GuardInv
<1> QED BY <1>1, StepKeepsTypes, PTL DEF GuardSpec

-----------------------------------------------------------------------------
(* Breaches                                                                *)

LEMMA StepHandlesBreach == GuardInv /\ [GuardNext]_guardVars => BreachIsHandled'
<1> SUFFICES ASSUME GuardInv, [GuardNext]_guardVars PROVE BreachIsHandled'
  OBVIOUS
<1>1. GuardTypeOK /\ Equities
  BY TypesAreEquities DEF GuardInv
<1>2. CASE UNCHANGED guardVars
  BY <1>2 DEF guardVars, equity, GuardInv, BreachIsHandled, Breached
<1>3. ASSUME NEW t \in Threads, NEW pnl \in Profits \cup {-loss : loss \in Losses}, recordPnl(t, pnl)
      PROVE  BreachIsHandled'
  BY <1>3 DEF recordPnl, equity, GuardInv, BreachIsHandled, Breached
<1>4. ASSUME NEW t \in Threads, updateEquity(t) PROVE BreachIsHandled'
  <2> SUFFICES ASSUME Breached' PROVE call'[t] = "halt"
    BY DEF BreachIsHandled
  <2>1. Equities'
    <3>1. GuardTypeOK'
      BY StepKeepsTypes, <1>1
    <3> QED BY <3>1, GuardAssumption DEF GuardTypeOK, Equities
  <2>2. Breach(m_peakEquity', m_dailyStartEquity', m_currentEquity')
    <3>1. CASE Below(m_currentEquity', maxDailyDrawdown, m_dailyStartEquity')
      <4>1. Exceeds(m_dailyStartEquity', m_currentEquity', maxDailyDrawdown)
        BY <2>1, <3>1, BelowExceeds, GuardAssumption DEF Equities
      <4> QED BY <4>1 DEF Breach
    <3>2. CASE Below(m_currentEquity', maxDrawdown, m_peakEquity')
      <4>1. Exceeds(m_peakEquity', m_currentEquity', maxDrawdown)
        BY <2>1, <3>2, BelowExceeds, GuardAssumption DEF Equities
      <4> QED BY <4>1 DEF Breach
    <3> QED BY <3>1, <3>2 DEF Breached
  <2> QED BY <1>1, <1>4, <2>2 DEF updateEquity, GuardTypeOK
<1>5. ASSUME NEW t \in Threads, storeHalt(t) PROVE BreachIsHandled'
  BY <1>5 DEF storeHalt, BreachIsHandled
<1>6. ASSUME NEW t \in Threads, storeReason(t) PROVE BreachIsHandled'
  <2>1. Breached' = Breached
    BY <1>6 DEF storeReason, equity, Breached
  <2>2. \A u \in Threads : call[u] # "halt"
    BY <1>1, <1>6 DEF storeReason, GuardTypeOK
  <2> QED BY <1>6, <2>1, <2>2 DEF storeReason, GuardInv, BreachIsHandled
<1>7. ASSUME NEW t \in Threads, resetDaily(t) PROVE BreachIsHandled'
  <2>1. ~Below(m_currentEquity', maxDailyDrawdown, m_dailyStartEquity')
    BY <1>1, <1>7, NothingLost, GuardAssumption DEF resetDaily, Equities
  <2>2. Below(m_currentEquity', maxDrawdown, m_peakEquity')
          = Below(m_currentEquity, maxDrawdown, m_peakEquity)
    BY <1>7 DEF resetDaily
  <2> QED BY <1>7, <2>1, <2>2 DEF resetDaily, GuardInv, BreachIsHandled, Breached
<1>8. ASSUME NEW t \in Threads, clearHalt(t) PROVE BreachIsHandled'
  BY <1>8 DEF clearHalt, BreachIsHandled
<1>9. ASSUME NEW t \in Threads, clearReason(t) PROVE BreachIsHandled'
  <2>1. Breached' = Breached
    BY <1>9 DEF clearReason, equity, Breached
  <2>2. \A u \in Threads : call[u] = "halt" => call'[u] = "halt"
    BY <1>1, <1>9 DEF clearReason, GuardTypeOK
  <2> QED BY <1>9, <2>1, <2>2 DEF clearReason, GuardInv, BreachIsHandled
<1> QED BY <1>2, <1>3, <1>4, <1>5, <1>6, <1>7, <1>8, <1>9 DEF GuardNext

\* An equity that was reported and breaks a limit has halted trading, in spite of daily
\* resets and recoveries, unless the halt was cleared since (DrawdownGuard::updateEquity).
THEOREM BreachesAlwaysHalt == GuardSpec => []BreachesHalt
<1>1. GuardInv /\ [GuardNext]_guardVars => GuardInv'
  BY StepKeepsTypes, StepHandlesBreach DEF GuardInv
<1>2. GuardInv => BreachesHalt
  BY DEF GuardInv, BreachIsHandled, Breached, BreachesHalt, Unlocked
<1> QED BY <1>1, <1>2, GuardStarts, PTL DEF GuardSpec

-----------------------------------------------------------------------------
(* The exit engines                                                        *)

Position == [side : Sides, entry_price : Nat, open_time : Nat]
Stop == [mode : StopModes, side : Sides, entry_price : Nat, open_time : Nat, best_price : Nat]
Signal == Nat \X (0 .. 100)
Target == [side : Sides, entry_price : Nat, next_target_idx : Nat]

\* Every variable has its type; only trades are registered.
ExitTypeOK ==
  /\ mark \in Nat /\ clock \in Nat
  /\ DOMAIN positions \subseteq Trades /\ \A t \in DOMAIN positions : positions[t] \in Position
  /\ DOMAIN m_stops \subseteq Trades /\ \A t \in DOMAIN m_stops : m_stops[t] \in Stop
  /\ DOMAIN m_targets \subseteq Trades /\ \A t \in DOMAIN m_targets : m_targets[t] \in Target
  /\ seen \in [Trades -> SUBSET Nat]
  /\ signals \in [Trades -> Seq(Signal)]

\* The engine looks for the target after those it has signalled: what TargetsComeOnce
\* rests on, and does not say.
LadderIsAtItsTop ==
  \A t \in DOMAIN m_targets :
    /\ m_targets[t].next_target_idx = Len(signals[t])
    /\ Len(signals[t]) <= Len(targets_pct)

ExitInv == ExitTypeOK /\ StopsFollowTheBest /\ LadderIsAtItsTop /\ TargetsComeOnce

-----------------------------------------------------------------------------
(* Functions that gain and lose an element                                 *)

LEMMA WithType ==
  ASSUME NEW f, NEW x, NEW v, NEW S, \A y \in DOMAIN f : f[y] \in S, v \in S
  PROVE  /\ DOMAIN With(f, x, v) = DOMAIN f \cup {x}
         /\ \A y \in DOMAIN With(f, x, v) :
              With(f, x, v)[y] = (IF y = x THEN v ELSE f[y]) /\ With(f, x, v)[y] \in S
BY DEF With

LEMMA WithoutType ==
  ASSUME NEW f, NEW x, NEW S, \A y \in DOMAIN f : f[y] \in S
  PROVE  /\ DOMAIN Without(f, x) = DOMAIN f \ {x}
         /\ \A y \in DOMAIN Without(f, x) : Without(f, x)[y] = f[y] /\ f[y] \in S
BY DEF Without

-----------------------------------------------------------------------------
(* Stops                                                                   *)

\* The best mark of a stop after an evaluation is no worse than any before it.
LEMMA BestIsBest ==
  ASSUME mark \in Nat, NEW stop \in Stop, NEW marks \in SUBSET Nat, stop.best_price \in marks,
         \A p \in marks : ~Better(stop.side, p, stop.best_price)
  PROVE  /\ Best(stop) \in marks \cup {mark} /\ Best(stop) \in Nat
         /\ \A p \in marks \cup {mark} : ~Better(stop.side, p, Best(stop))
<1>1. stop.best_price \in Nat
  BY DEF Stop
<1> QED BY <1>1 DEF Best, Better

LEMMA FractionType == ASSUME NEW i \in Nat PROVE Fraction(i) \in 0 .. 100
<1>1. fractions \in Seq(0 .. 100)
  BY ExitAssumption
<1>2. CASE i < Len(fractions)
  <2>1. i + 1 \in 1 .. Len(fractions)
    BY <1>1, <1>2
  <2>2. fractions[i + 1] \in 0 .. 100
    BY <1>1, <2>1, ElementOfSeq
  <2> QED BY <1>2, <2>2 DEF Fraction
<1>3. CASE ~(i < Len(fractions))
  BY <1>3 DEF Fraction
<1> QED BY <1>2, <1>3

LEMMA EvaluatedStops ==
  ASSUME ExitInv, evaluateStops
  PROVE  /\ DOMAIN m_stops' = DOMAIN m_stops /\ \A t \in DOMAIN m_stops : m_stops'[t] \in Stop
         /\ seen' \in [Trades -> SUBSET Nat]
         /\ StopsFollowTheBest'
<1> DEFINE current == DOMAIN m_stops \cap DOMAIN positions
<1>1. /\ m_stops' = [t \in DOMAIN m_stops |->
                       IF t \in current THEN [m_stops[t] EXCEPT !.best_price = Best(m_stops[t])]
                       ELSE m_stops[t]]
      /\ seen' = [t \in Trades |-> IF t \in current THEN seen[t] \cup {mark} ELSE seen[t]]
  BY DEF evaluateStops
<1>2. DOMAIN m_stops' = DOMAIN m_stops /\ seen' \in [Trades -> SUBSET Nat]
  BY <1>1 DEF ExitInv, ExitTypeOK
<1>3. ASSUME NEW t \in DOMAIN m_stops
      PROVE  /\ m_stops'[t] \in Stop
             /\ m_stops'[t].best_price \in seen'[t]
             /\ \A p \in seen'[t] : ~Better(m_stops'[t].side, p, m_stops'[t].best_price)
  <2>1. /\ m_stops[t] \in Stop /\ seen[t] \in SUBSET Nat /\ t \in Trades /\ mark \in Nat
        /\ m_stops[t].best_price \in seen[t]
        /\ \A p \in seen[t] : ~Better(m_stops[t].side, p, m_stops[t].best_price)
    BY DEF ExitInv, ExitTypeOK, StopsFollowTheBest
  <2>2. CASE t \in current
    <3> DEFINE best == Best(m_stops[t])
    <3>1. /\ best \in seen[t] \cup {mark} /\ best \in Nat
          /\ \A p \in seen[t] \cup {mark} : ~Better(m_stops[t].side, p, best)
      BY <2>1, BestIsBest
    <3>2. /\ m_stops'[t] = [m_stops[t] EXCEPT !.best_price = best]
          /\ seen'[t] = seen[t] \cup {mark}
      BY <1>1, <2>1, <2>2
    <3> HIDE DEF best
    <3>3. /\ m_stops'[t] \in Stop /\ m_stops'[t].best_price = best
          /\ m_stops'[t].side = m_stops[t].side
      BY <2>1, <3>1, <3>2 DEF Stop
    <3> QED BY <3>1, <3>2, <3>3
  <2>3. CASE t \notin current
    <3>1. m_stops'[t] = m_stops[t] /\ seen'[t] = seen[t]
      BY <1>1, <2>1, <2>3
    <3> QED BY <2>1, <3>1
  <2> QED BY <2>2, <2>3
<1> QED BY <1>2, <1>3 DEF StopsFollowTheBest

LEMMA RegisteredStop ==
  ASSUME ExitInv, NEW t \in Trades, NEW mode \in StopModes, registerStop(t, mode)
  PROVE  /\ DOMAIN m_stops' \subseteq Trades /\ \A u \in DOMAIN m_stops' : m_stops'[u] \in Stop
         /\ seen' \in [Trades -> SUBSET Nat]
         /\ StopsFollowTheBest'
<1> DEFINE entry == positions[t].entry_price
           stop == [mode |-> mode, side |-> positions[t].side, entry_price |-> entry,
                    open_time |-> positions[t].open_time, best_price |-> entry]
<1>1. positions[t] \in Position /\ m_stops' = With(m_stops, t, stop)
  BY DEF registerStop, ExitInv, ExitTypeOK
<1>2. stop \in Stop /\ entry \in Nat /\ stop.best_price = entry
  BY <1>1 DEF Stop, Position
<1>3. seen' = [seen EXCEPT ![t] = {entry}] /\ seen' \in [Trades -> SUBSET Nat]
  BY <1>2 DEF registerStop, ExitInv, ExitTypeOK
<1> HIDE DEF stop, entry
<1>4. /\ DOMAIN m_stops' = DOMAIN m_stops \cup {t}
      /\ \A u \in DOMAIN m_stops' :
           m_stops'[u] = (IF u = t THEN stop ELSE m_stops[u]) /\ m_stops'[u] \in Stop
  <2>1. \A u \in DOMAIN m_stops : m_stops[u] \in Stop
    BY DEF ExitInv, ExitTypeOK
  <2> QED BY <1>1, <1>2, <2>1 DEF With
<1>5. ~Better(stop.side, entry, entry)
  BY <1>2 DEF Better
<1>6. ASSUME NEW u \in DOMAIN m_stops'
      PROVE  /\ m_stops'[u].best_price \in seen'[u]
             /\ \A p \in seen'[u] : ~Better(m_stops'[u].side, p, m_stops'[u].best_price)
  <2>1. CASE u = t
    BY <1>2, <1>3, <1>4, <1>5, <2>1 DEF ExitInv, ExitTypeOK
  <2>2. CASE u # t
    BY <1>3, <1>4, <2>2 DEF ExitInv, ExitTypeOK, StopsFollowTheBest
  <2> QED BY <2>1, <2>2
<1> QED BY <1>3, <1>4, <1>6 DEF ExitInv, ExitTypeOK, StopsFollowTheBest

-----------------------------------------------------------------------------
(* Targets                                                                 *)

LEMMA EvaluatedTargets ==
  ASSUME ExitInv, evaluateTargets
  PROVE  /\ DOMAIN m_targets' = DOMAIN m_targets
         /\ \A t \in DOMAIN m_targets : m_targets'[t] \in Target
         /\ signals' \in [Trades -> Seq(Signal)]
         /\ LadderIsAtItsTop' /\ TargetsComeOnce'
<1> DEFINE hit == {t \in DOMAIN m_targets \cap DOMAIN positions : Hit(m_targets[t])}
           idx(t) == m_targets[t].next_target_idx
           signal(t) == <<idx(t), Fraction(idx(t))>>
<1>1. /\ m_targets' = [t \in DOMAIN m_targets |->
                         IF t \in hit
                         THEN [m_targets[t] EXCEPT !.next_target_idx = NextTarget(m_targets[t])]
                         ELSE m_targets[t]]
      /\ signals' = [t \in Trades |->
                       IF t \in hit /\ Len(signals[t]) <= Len(targets_pct)
                       THEN Append(signals[t], signal(t)) ELSE signals[t]]
  BY DEF evaluateTargets
<1>2. ASSUME NEW t \in hit
      PROVE  /\ t \in Trades /\ t \in DOMAIN m_targets /\ m_targets[t] \in Target
             /\ idx(t) = Len(signals[t]) /\ idx(t) \in Nat /\ idx(t) < Len(targets_pct)
             /\ signal(t) \in Signal
             /\ signals'[t] = Append(signals[t], signal(t))
             /\ m_targets'[t] = [m_targets[t] EXCEPT !.next_target_idx = idx(t) + 1]
  <2>1. /\ t \in Trades /\ t \in DOMAIN m_targets /\ m_targets[t] \in Target
        /\ idx(t) = Len(signals[t]) /\ Len(signals[t]) <= Len(targets_pct)
    BY DEF ExitInv, ExitTypeOK, LadderIsAtItsTop
  <2>2. idx(t) \in Nat
    BY <2>1 DEF Target
  <2>3. idx(t) < Len(targets_pct)
    BY DEF Hit
  <2>4. signal(t) \in Signal
    BY <2>2, FractionType DEF Signal
  <2>5. signals'[t] = Append(signals[t], signal(t))
    BY <1>1, <2>1
  <2>6. m_targets'[t] = [m_targets[t] EXCEPT !.next_target_idx = idx(t) + 1]
    BY <1>1, <2>1 DEF NextTarget
  <2> QED BY <2>1, <2>2, <2>3, <2>4, <2>5, <2>6
<1>3. ASSUME NEW t \in Trades, t \notin hit
      PROVE  /\ signals'[t] = signals[t]
             /\ t \in DOMAIN m_targets => m_targets'[t] = m_targets[t]
  BY <1>1, <1>3
<1>4. DOMAIN m_targets' = DOMAIN m_targets /\ DOMAIN signals' = Trades
  BY <1>1
<1> HIDE DEF hit, signal
<1>5. ASSUME NEW t \in Trades
      PROVE  /\ signals'[t] \in Seq(Signal)
             /\ \A i \in DOMAIN signals'[t] : signals'[t][i] = <<i - 1, Fraction(i - 1)>>
             /\ t \in DOMAIN m_targets =>
                  /\ m_targets'[t] \in Target
                  /\ m_targets'[t].next_target_idx = Len(signals'[t])
                  /\ Len(signals'[t]) <= Len(targets_pct)
  <2>1. /\ signals[t] \in Seq(Signal)
        /\ \A i \in 1 .. Len(signals[t]) : signals[t][i] = <<i - 1, Fraction(i - 1)>>
    BY DEF ExitInv, ExitTypeOK, TargetsComeOnce
  <2>2. CASE t \in hit
    <3>1. /\ signals'[t] \in Seq(Signal)
          /\ Len(signals'[t]) = Len(signals[t]) + 1
          /\ \A i \in 1 .. Len(signals[t]) : signals'[t][i] = signals[t][i]
          /\ signals'[t][Len(signals[t]) + 1] = signal(t)
      <4>1. signals[t] \in Seq(Signal) /\ signal(t) \in Signal
            /\ signals'[t] = Append(signals[t], signal(t))
        BY <1>2, <2>1, <2>2
      <4>2. \A seq \in Seq(Signal), e \in Signal :
              /\ Append(seq, e) \in Seq(Signal) /\ Len(Append(seq, e)) = Len(seq) + 1
              /\ \A i \in 1 .. Len(seq) : Append(seq, e)[i] = seq[i]
              /\ Append(seq, e)[Len(seq) + 1] = e
        BY AppendProperties
      <4> QED BY <4>1, <4>2
    <3>2. signal(t) = <<Len(signals[t]), Fraction(Len(signals[t]))>>
      BY <1>2, <2>2 DEF signal
    <3>3. ASSUME NEW i \in DOMAIN signals'[t] PROVE signals'[t][i] = <<i - 1, Fraction(i - 1)>>
      <4>1. Len(signals[t]) \in Nat /\ i \in 1 .. Len(signals[t]) + 1
        BY <2>1, <3>1
      <4>2. CASE i \in 1 .. Len(signals[t])
        BY <2>1, <3>1, <4>2
      <4>3. CASE i = Len(signals[t]) + 1
        <5>1. i - 1 = Len(signals[t])
          BY <4>1, <4>3
        <5> QED BY <3>1, <3>2, <4>3, <5>1
      <4> QED BY <4>1, <4>2, <4>3
    <3>4. /\ m_targets'[t] \in Target
          /\ m_targets'[t].next_target_idx = Len(signals'[t])
          /\ Len(signals'[t]) <= Len(targets_pct)
      <4>1. m_targets[t] \in Target /\ idx(t) \in Nat
            /\ m_targets'[t] = [m_targets[t] EXCEPT !.next_target_idx = idx(t) + 1]
        BY <1>2, <2>2
      <4>2. m_targets'[t] \in Target /\ m_targets'[t].next_target_idx = idx(t) + 1
        BY <4>1 DEF Target
      <4>3. Len(targets_pct) \in Nat
        BY ExitAssumption
      <4>4. idx(t) = Len(signals[t]) /\ idx(t) < Len(targets_pct)
        BY <1>2, <2>2
      <4>5. Len(signals'[t]) = idx(t) + 1
        BY <3>1, <4>4
      <4> HIDE DEF idx
      <4> QED BY <4>1, <4>2, <4>3, <4>4, <4>5
    <3> QED BY <3>1, <3>3, <3>4
  <2>3. CASE t \notin hit
    <3>1. /\ signals'[t] = signals[t]
          /\ t \in DOMAIN m_targets => m_targets'[t] = m_targets[t]
      BY <1>3, <2>3
    <3> QED BY <2>1, <3>1 DEF ExitInv, ExitTypeOK, LadderIsAtItsTop
  <2> QED BY <2>2, <2>3
<1>6. signals' \in [Trades -> Seq(Signal)]
  BY <1>1, <1>5
<1>7. \A t \in DOMAIN m_targets : t \in Trades
  BY DEF ExitInv, ExitTypeOK
<1> QED BY <1>4, <1>5, <1>6, <1>7 DEF LadderIsAtItsTop, TargetsComeOnce

LEMMA RegisteredTarget ==
  ASSUME ExitInv, NEW t \in Trades, registerTarget(t)
  PROVE  /\ DOMAIN m_targets' \subseteq Trades /\ \A u \in DOMAIN m_targets' : m_targets'[u] \in Target
         /\ signals' \in [Trades -> Seq(Signal)]
         /\ LadderIsAtItsTop' /\ TargetsComeOnce'
<1> DEFINE target == [side |-> positions[t].side, entry_price |-> positions[t].entry_price,
                      next_target_idx |-> 0]
<1>1. /\ positions[t] \in Position /\ m_targets' = With(m_targets, t, target)
      /\ signals' = [signals EXCEPT ![t] = << >>] /\ signals \in [Trades -> Seq(Signal)]
  BY DEF registerTarget, ExitInv, ExitTypeOK
<1>2. target \in Target /\ target.next_target_idx = 0
  BY <1>1 DEF Target, Position
<1> HIDE DEF target
<1>3. \A u \in DOMAIN m_targets : m_targets[u] \in Target
  BY DEF ExitInv, ExitTypeOK
<1>4. /\ DOMAIN m_targets' = DOMAIN m_targets \cup {t}
      /\ \A u \in DOMAIN m_targets' :
           m_targets'[u] = (IF u = t THEN target ELSE m_targets[u]) /\ m_targets'[u] \in Target
  BY <1>1, <1>2, <1>3 DEF With
<1>5. << >> \in Seq(Signal) /\ Len(<< >>) = 0 /\ DOMAIN << >> = {} /\ Len(targets_pct) \in Nat
  BY ExitAssumption
<1>6. /\ signals' \in [Trades -> Seq(Signal)] /\ signals'[t] = << >>
      /\ \A u \in Trades : u # t => signals'[u] = signals[u]
  BY <1>1, <1>5
<1>7. TargetsComeOnce'
  BY <1>5, <1>6 DEF ExitInv, TargetsComeOnce
<1>8. LadderIsAtItsTop'
  <2> SUFFICES ASSUME NEW u \in DOMAIN m_targets'
               PROVE  /\ m_targets'[u].next_target_idx = Len(signals'[u])
                      /\ Len(signals'[u]) <= Len(targets_pct)
    BY DEF LadderIsAtItsTop
  <2>1. CASE u = t
    BY <1>2, <1>4, <1>5, <1>6, <2>1
  <2>2. CASE u # t
    BY <1>4, <1>6, <2>2 DEF ExitInv, ExitTypeOK, LadderIsAtItsTop
  <2> QED BY <2>1, <2>2
<1> QED BY <1>4, <1>6, <1>7, <1>8 DEF ExitInv, ExitTypeOK

-----------------------------------------------------------------------------

LEMMA ExitsStart == ExitInit => ExitInv
<1> SUFFICES ASSUME ExitInit PROVE ExitInv
  OBVIOUS
<1>1. DOMAIN positions = {} /\ DOMAIN m_stops = {} /\ DOMAIN m_targets = {}
  BY DEF ExitInit
<1>2. mark \in Nat
  BY ExitAssumption DEF ExitInit
<1>3. /\ seen \in [Trades -> SUBSET Nat] /\ clock \in Nat
      /\ signals \in [Trades -> Seq(Signal)]
  BY DEF ExitInit
<1>4. \A t \in Trades : DOMAIN signals[t] = {}
  <2>1. DOMAIN << >> = {}
    OBVIOUS
  <2> QED BY <2>1 DEF ExitInit
<1> QED BY <1>1, <1>2, <1>3, <1>4
      DEF ExitInv, ExitTypeOK, StopsFollowTheBest, LadderIsAtItsTop, TargetsComeOnce

LEMMA ExitStep == ExitInv /\ [ExitNext]_exitVars => ExitInv'
<1> SUFFICES ASSUME ExitInv, [ExitNext]_exitVars PROVE ExitInv'
  OBVIOUS
<1>1. CASE UNCHANGED exitVars
  BY <1>1 DEF exitVars, ExitInv, ExitTypeOK, StopsFollowTheBest, LadderIsAtItsTop, TargetsComeOnce
<1>2. CASE priceMoves \/ secondPasses
  <2>1. CASE priceMoves
    BY <2>1, ExitAssumption DEF priceMoves, ExitInv, ExitTypeOK, StopsFollowTheBest,
       LadderIsAtItsTop, TargetsComeOnce
  <2>2. CASE secondPasses
    BY <2>2 DEF secondPasses, ExitInv, ExitTypeOK, StopsFollowTheBest, LadderIsAtItsTop,
       TargetsComeOnce
  <2> QED BY <1>2, <2>1, <2>2
<1>3. ASSUME NEW t \in Trades, NEW side \in Sides, open(t, side) PROVE ExitInv'
  <2> DEFINE position == [side |-> side, entry_price |-> mark, open_time |-> clock]
  <2>1. position \in Position /\ positions' = With(positions, t, position)
    BY <1>3 DEF open, Position, ExitInv, ExitTypeOK
  <2> HIDE DEF position
  <2>2. \A u \in DOMAIN positions : positions[u] \in Position
    BY DEF ExitInv, ExitTypeOK
  <2>3. /\ DOMAIN positions' = DOMAIN positions \cup {t}
        /\ \A u \in DOMAIN positions' : positions'[u] \in Position
    BY <2>1, <2>2, WithType, Zenon
  <2> QED BY <1>3, <2>3 DEF open, ExitInv, ExitTypeOK, StopsFollowTheBest, LadderIsAtItsTop,
             TargetsComeOnce
<1>4. ASSUME NEW t \in Trades, close(t) PROVE ExitInv'
  <2>1. /\ DOMAIN positions' \subseteq Trades
        /\ \A u \in DOMAIN positions' : positions'[u] \in Position
    BY <1>4 DEF close, Without, ExitInv, ExitTypeOK
  <2> QED BY <1>4, <2>1 DEF close, ExitInv, ExitTypeOK, StopsFollowTheBest, LadderIsAtItsTop,
             TargetsComeOnce
<1>5. ASSUME NEW t \in Trades, removeStop(t) PROVE ExitInv'
  <2>1. /\ DOMAIN m_stops' \subseteq DOMAIN m_stops
        /\ \A u \in DOMAIN m_stops' : m_stops'[u] = m_stops[u]
    BY <1>5 DEF removeStop, Without
  <2> QED BY <1>5, <2>1 DEF removeStop, ExitInv, ExitTypeOK, StopsFollowTheBest, LadderIsAtItsTop,
             TargetsComeOnce
<1>6. ASSUME NEW t \in Trades, removeTarget(t) PROVE ExitInv'
  <2>1. /\ DOMAIN m_targets' \subseteq DOMAIN m_targets
        /\ \A u \in DOMAIN m_targets' : m_targets'[u] = m_targets[u]
    BY <1>6 DEF removeTarget, Without
  <2> QED BY <1>6, <2>1 DEF removeTarget, ExitInv, ExitTypeOK, StopsFollowTheBest,
             LadderIsAtItsTop, TargetsComeOnce
<1>7. ASSUME NEW t \in Trades, registerTarget(t) PROVE ExitInv'
  BY <1>7, RegisteredTarget DEF registerTarget, ExitInv, ExitTypeOK, StopsFollowTheBest
<1>8. ASSUME NEW t \in Trades, NEW mode \in StopModes, registerStop(t, mode) PROVE ExitInv'
  BY <1>8, RegisteredStop DEF registerStop, ExitInv, ExitTypeOK, LadderIsAtItsTop, TargetsComeOnce
<1>9. CASE evaluateStops
  BY <1>9, EvaluatedStops DEF evaluateStops, ExitInv, ExitTypeOK, LadderIsAtItsTop, TargetsComeOnce
<1>10. CASE evaluateTargets
  BY <1>10, EvaluatedTargets DEF evaluateTargets, ExitInv, ExitTypeOK, StopsFollowTheBest
<1> QED BY <1>1, <1>2, <1>3, <1>4, <1>5, <1>6, <1>7, <1>8, <1>9, <1>10 DEF ExitNext

\* A trailing stop hangs on the best mark it was evaluated at since it was registered, for
\* every order of marks and evaluations (StopLossEngine::evaluate).
THEOREM StopsHangOnTheBest == ExitSpec => []StopsFollowTheBest
<1>1. ExitInv => StopsFollowTheBest
  BY DEF ExitInv
<1> QED BY <1>1, ExitsStart, ExitStep, PTL DEF ExitSpec

\* From its registration on, the targets of a position are signalled in their order,
\* each once (TakeProfitEngine::evaluate).
THEOREM LaddersAreClimbedOnce == ExitSpec => []TargetsComeOnce
<1>1. ExitInv => TargetsComeOnce
  BY DEF ExitInv
<1> QED BY <1>1, ExitsStart, ExitStep, PTL DEF ExitSpec
=============================================================================
