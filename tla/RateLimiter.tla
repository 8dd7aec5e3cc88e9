---------------------------- MODULE RateLimiter -----------------------------
(***************************************************************************)
(* The fixed-window rate limiter of the gateway and the auth service, for  *)
(* one key.  A request takes the number of the window from its clock, then *)
(* a script counts it under that number in Redis; the count expires a      *)
(* window after its first request.  The script may run later than the      *)
(* clock was read, up to the timeout of the call.                          *)
(***************************************************************************)
EXTENDS Integers, FiniteSets, Sequences

CONSTANTS
    Window,          \* length of a window, in ticks of the clock
    Limit,           \* requests allowed in a window
    MaxDelay,        \* the timeout of the call to Redis, in ticks
    LimiterCalls,    \* requests in progress
    MaxClock         \* bound: ticks of the clock

ASSUME RateLimiterAssumption ==
    /\ Window \in Nat \ {0} /\ Limit \in Nat \ {0}
    /\ MaxDelay \in 0 .. Window - 1 /\ MaxClock \in Nat

Slots == 0 .. MaxClock \div Window
Times == 0 .. MaxClock

VARIABLES
    clock,
    counter,         \* Redis: the count of each window and when it expires
    limiting,        \* the requests: the window they read and when
    allowed          \* history: requests let through, with the count each of them got

limiterVars == <<clock, counter, limiting, allowed>>

NoCounter == [count |-> 0, expires |-> 0]
NotLimiting == [slot |-> 0, at |-> 0, running |-> FALSE]

RateLimiterTypeOK ==
    /\ clock \in Times
    /\ counter \in [Slots -> [count : 0 .. Limit + 1, expires : Nat]]
    /\ limiting \in [LimiterCalls -> [slot : Slots, at : Times, running : BOOLEAN]]
    /\ allowed \in Seq([slot : Slots, at : Times, nth : 1 .. Limit, expires : Nat])

\* allowRedis reads the clock.
Allow(c) ==
    /\ ~ limiting[c].running
    /\ limiting' = [limiting EXCEPT ![c] = [slot |-> clock \div Window, at |-> clock, running |-> TRUE]]
    /\ UNCHANGED <<clock, counter, allowed>>

\* The count a script finds: an expired key is not there.
Counted(s) == IF counter[s].expires > clock THEN counter[s].count ELSE 0

\* A request more.  How far a count is beyond the limit makes no difference.
Incremented(s) == IF Counted(s) > Limit THEN Limit + 1 ELSE Counted(s) + 1

\* INCR, and PEXPIRE when the key is new: one script, one step.
CountRequest(s) ==
    LET n == Incremented(s)
    IN  [counter EXCEPT ![s] = [count |-> n, expires |-> IF n = 1 THEN clock + Window ELSE @.expires]]

\* A request that is let through: its window, the time, the count it got and when that
\* count expires.
LetThrough(s) == [slot |-> s, at |-> clock, nth |-> Incremented(s), expires |-> CountRequest(s)[s].expires]

fixedWindowScript(c) ==
    LET s == limiting[c].slot
    IN  /\ limiting[c].running
        /\ counter' = CountRequest(s)
        /\ allowed' = IF Incremented(s) <= Limit THEN Append(allowed, LetThrough(s)) ELSE allowed
        /\ limiting' = [limiting EXCEPT ![c] = NotLimiting]
        /\ UNCHANGED clock

\* As it would be if a request were let through when Redis fails.
FailOpen(c) ==
    /\ limiting[c].running
    /\ allowed' = Append(allowed, LetThrough(limiting[c].slot))
    /\ limiting' = [limiting EXCEPT ![c] = NotLimiting]
    /\ UNCHANGED <<clock, counter>>

\* The call fails, before or after the script ran: the request is refused.
RedisFails(c) ==
    /\ limiting[c].running
    /\ counter' \in {counter, CountRequest(limiting[c].slot)}
    /\ limiting' = [limiting EXCEPT ![c] = NotLimiting]
    /\ UNCHANGED <<clock, allowed>>

\* A call runs out of its timeout before the clock leaves it behind.
TickClock ==
    /\ clock < MaxClock
    /\ \A c \in LimiterCalls : limiting[c].running => clock - limiting[c].at < MaxDelay
    /\ clock' = clock + 1
    /\ UNCHANGED <<counter, limiting, allowed>>

RateLimiterInit ==
    /\ clock = 0
    /\ counter = [s \in Slots |-> NoCounter]
    /\ limiting = [c \in LimiterCalls |-> NotLimiting]
    /\ allowed = <<>>

RateLimiterNext ==
    \/ \E c \in LimiterCalls : Allow(c) \/ fixedWindowScript(c) \/ RedisFails(c)
    \/ TickClock

RateLimiterSpec == RateLimiterInit /\ [][RateLimiterNext]_limiterVars

-----------------------------------------------------------------------------
\* The requests that were let through in their window, and in the time of a window from t.
InWindow(s) == {i \in DOMAIN allowed : allowed[i].slot = s /\ allowed[i].at \div Window = s}
During(t) == {i \in DOMAIN allowed : t <= allowed[i].at /\ allowed[i].at < t + Window}

\* A time as long as a window meets two windows, and a third of which a call was delayed.
\* When calls outlive the count of their window they begin another one: the two earlier
\* windows can have two counts each, of which the first began before that time.
SlidingQuota ==
    CASE MaxDelay = 0 -> 2 * Limit
      [] MaxDelay = 1 -> 3 * Limit - 1
      [] OTHER        -> 5 * Limit - 2

\* The quota of a window holds for the requests counted within it, also when calls fail
\* (fixed_window.go allowRedis, which fails closed), and any time as long as a window sees
\* no more than the windows and the counts that it meets allow.
QuotaHolds ==
    /\ \A s \in Slots : Cardinality(InWindow(s)) <= Limit
    /\ \A t \in Times : Cardinality(During(t)) <= SlidingQuota
=============================================================================
