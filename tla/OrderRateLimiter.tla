--------------------------- MODULE OrderRateLimiter ---------------------------
(***************************************************************************)
(* The token bucket of the risk layer (src/risk/OrderRateLimiter): two     *)
(* atomics, read and exchanged without a lock.  Every load and every       *)
(* compare-and-swap is a step of its own, so that calls interleave between *)
(* any two of them, and a weak compare-and-swap may fail for no reason.    *)
(*                                                                         *)
(* Tokens are counted in units: an order costs Token of them, and a tick   *)
(* of the clock refills m_maxRate.  A unit is the smallest amount a refill *)
(* adds, a thousandth of a token in the code.                              *)
(***************************************************************************)
EXTENDS Integers

CONSTANTS
  Callers,          \* the threads that call tryAcquire and reset
  Token,            \* the units an order costs
  m_maxRate,        \* the units a tick refills
  m_burstCapacity,  \* the units the bucket holds
  MaxNow,           \* bound of a run: the last tick of the clock
  MaxResets         \* bound of a run: how often reset is called

ASSUME LimiterAssumption ==
  /\ Token \in Nat \ {0}
  /\ m_maxRate \in Nat \ {0}
  /\ m_burstCapacity \in Nat \ {0}
  /\ MaxNow \in Nat
  /\ MaxResets \in Nat

\* How often a call tries to take a token before it gives up.
kMaxRetries == 10

VARIABLES
  now,             \* the steady clock
  m_tokens,        \* the units in the bucket
  m_lastRefillNs,  \* the tick the bucket was last refilled at
  caller,          \* thread -> where its call is, and what it has read
  granted,         \* history: the units orders were granted for
  refilled,        \* history: the units refills added
  resets           \* history: how often the bucket was reset

bucket == <<m_tokens, m_lastRefillNs>>
history == <<granted, refilled, resets>>
limiterVars == <<now, bucket, caller, history>>

\* A step of a call, and what the call has read: the clock, the time stamp of
\* the last refill, the level of the bucket.
Call(step, clock, last, tokens, attempt) ==
  [step |-> step, now |-> clock, last |-> last, tokens |-> tokens, attempt |-> attempt]

Idle == Call("idle", 0, 0, 0, 0)

LimiterInit ==
  /\ now = 0
  /\ m_tokens = m_burstCapacity
  /\ m_lastRefillNs = 0
  /\ caller = [t \in Callers |-> Idle]
  /\ granted = 0
  /\ refilled = 0
  /\ resets = 0

at(t, step) == caller[t].step = step

goes(t, next) == caller' = [caller EXCEPT ![t] = next]

\* The refill ends, and the call goes on to take a token.
Taking == Call("load", 0, 0, 0, 1)

tick ==
  /\ now < MaxNow
  /\ now' = now + 1
  /\ UNCHANGED <<bucket, caller, history>>

-----------------------------------------------------------------------------
(* refill, the first half of tryAcquire                                    *)

tryAcquire(t) ==
  /\ at(t, "idle")
  /\ goes(t, Call("stamp", now, 0, 0, 0))
  /\ UNCHANGED <<now, bucket, history>>

\* Nothing to refill when no time has passed since the last refill.
loadLastRefill(t) ==
  /\ at(t, "stamp")
  /\ goes(t, IF caller[t].now <= m_lastRefillNs THEN Taking
             ELSE Call("level", caller[t].now, m_lastRefillNs, 0, 0))
  /\ UNCHANGED <<now, bucket, history>>

loadTokens(t) ==
  /\ at(t, "level")
  /\ goes(t, Call("refill", caller[t].now, caller[t].last, m_tokens, 0))
  /\ UNCHANGED <<now, bucket, history>>

\* The level after a refill: what was read and what the elapsed time is worth.
Refilled(t) ==
  LET updated == caller[t].tokens + (caller[t].now - caller[t].last) * m_maxRate
  IN  IF updated > m_burstCapacity THEN m_burstCapacity ELSE updated

refillTokens(t) ==
  /\ at(t, "refill")
  /\ m_tokens = caller[t].tokens
  /\ m_tokens' = Refilled(t)
  /\ refilled' = refilled + (m_tokens' - m_tokens)
  /\ goes(t, Call("restamp", caller[t].now, caller[t].last, 0, 0))
  /\ UNCHANGED <<now, m_lastRefillNs, granted, resets>>

\* The time stamp moves unless another thread moved it first.
refillStamp(t) ==
  /\ at(t, "restamp")
  /\ m_lastRefillNs' = IF m_lastRefillNs = caller[t].last THEN caller[t].now ELSE m_lastRefillNs
  /\ goes(t, Taking)
  /\ UNCHANGED <<now, m_tokens, history>>

\* The exchange failed, because the level moved or for no reason: no refill.
refillFails(t) ==
  /\ at(t, "refill")
  /\ goes(t, Taking)
  /\ UNCHANGED <<now, bucket, history>>

-----------------------------------------------------------------------------
(* Taking a token, the second half of tryAcquire                           *)

\* The call is refused when less than a token is left.
loadLevel(t) ==
  /\ at(t, "load")
  /\ goes(t, IF m_tokens < Token THEN Idle
             ELSE Call("take", 0, 0, m_tokens, caller[t].attempt))
  /\ UNCHANGED <<now, bucket, history>>

\* Fault: the new level is stored, whatever the level is by now.
takeToken_Store(t) ==
  /\ at(t, "take")
  /\ m_tokens' = caller[t].tokens - Token
  /\ granted' = granted + Token
  /\ goes(t, Idle)
  /\ UNCHANGED <<now, m_lastRefillNs, refilled, resets>>

takeToken(t) ==
  /\ at(t, "take")
  /\ m_tokens = caller[t].tokens
  /\ m_tokens' = m_tokens - Token
  /\ granted' = granted + Token
  /\ goes(t, Idle)
  /\ UNCHANGED <<now, m_lastRefillNs, refilled, resets>>

\* The exchange failed: the level is loaded again, kMaxRetries times in all.
takeFails(t) ==
  /\ at(t, "take")
  /\ goes(t, IF caller[t].attempt = kMaxRetries THEN Idle
             ELSE Call("load", 0, 0, 0, caller[t].attempt + 1))
  /\ UNCHANGED <<now, bucket, history>>

-----------------------------------------------------------------------------
(* reset: two stores                                                       *)

resetTokens(t) ==
  /\ at(t, "idle")
  /\ resets < MaxResets
  /\ m_tokens' = m_burstCapacity
  /\ resets' = resets + 1
  /\ goes(t, Call("reset", 0, 0, 0, 0))
  /\ UNCHANGED <<now, m_lastRefillNs, granted, refilled>>

\* The clock is read before the time stamp is stored.
resetClock(t) ==
  /\ at(t, "reset")
  /\ goes(t, Call("store", now, 0, 0, 0))
  /\ UNCHANGED <<now, bucket, history>>

resetStamp(t) ==
  /\ at(t, "store")
  /\ m_lastRefillNs' = caller[t].now
  /\ goes(t, Idle)
  /\ UNCHANGED <<now, m_tokens, history>>

-----------------------------------------------------------------------------
step(t) ==
  \/ tryAcquire(t) \/ loadLastRefill(t) \/ loadTokens(t)
  \/ refillTokens(t) \/ refillStamp(t) \/ refillFails(t)
  \/ loadLevel(t) \/ takeToken(t) \/ takeFails(t)
  \/ resetTokens(t) \/ resetClock(t) \/ resetStamp(t)

LimiterNext == tick \/ \E t \in Callers : step(t)

LimiterSpec == LimiterInit /\ [][LimiterNext]_limiterVars

-----------------------------------------------------------------------------
(* Properties                                                              *)

Steps == {"idle", "stamp", "level", "refill", "restamp", "load", "take", "reset", "store"}

\* The level stays between nothing and the burst capacity, and no thread holds
\* a reading from outside these bounds or from the future.
LimiterTypeOK ==
  /\ now \in 0 .. MaxNow
  /\ m_tokens \in 0 .. m_burstCapacity
  /\ m_lastRefillNs \in 0 .. now
  /\ caller \in [Callers -> [step : Steps, now : 0 .. now, last : 0 .. now,
                             tokens : 0 .. m_burstCapacity, attempt : 0 .. kMaxRetries]]
  /\ granted \in Nat /\ refilled \in Nat /\ resets \in Nat

\* Every grant is paid for: two calls never take the same token, and what was
\* granted is covered by the first filling, the refills and the resets, whatever
\* loads and exchanges of the threads cross each other.
GrantsArePaid ==
  granted + m_tokens <= m_burstCapacity * (1 + resets) + refilled

\* A refill is never made twice for the same time: the bucket is refilled at the
\* configured rate.  This holds of a single caller.
RefillsFollowTheClock == refilled <= m_maxRate * now
=============================================================================
