---------------------------- MODULE RateLimiter -----------------------------
(***************************************************************************)
(* The limiter that throttles the backfill consumer (consumers/            *)
(* backfill_consumer.py).  One coroutine calls acquire() over and over; a  *)
(* call reads the clock, may open a new window, may sleep to the end of    *)
(* the current one, and returns with one more grant counted.               *)
(*                                                                         *)
(* The code calls itself a token bucket; it is a fixed window whose start  *)
(* moves to the first call after the old one has run out.                  *)
(***************************************************************************)
EXTENDS Integers, Sequences

CONSTANTS
  MaxPerMinute,   \* settings.backfill_rate_limit_per_minute
  Window,         \* sixty seconds, in ticks of the monotonic clock
  Horizon         \* bound on the clock

ASSUME LimiterParameters ==
  /\ MaxPerMinute \in Nat
  /\ Window \in Nat \ {0}
  /\ Horizon \in Nat

VARIABLES
  now,            \* time.monotonic()
  windowStart,
  countInWindow,
  wakeAt,         \* when the sleeping call is due, or NotSleeping
  grants          \* history: when each acquire() returned

vars == <<now, windowStart, countInWindow, wakeAt, grants>>

NotSleeping == -1

Init ==
  /\ now = 0
  /\ windowStart = 0
  /\ countInWindow = 0
  /\ wakeAt = NotSleeping
  /\ grants = <<>>

\* acquire() returns, with the window it leaves behind.
Grant(start, count) ==
  /\ windowStart' = start
  /\ countInWindow' = count + 1
  /\ wakeAt' = NotSleeping
  /\ grants' = Append(grants, now)
  /\ UNCHANGED now

Elapsed == now - windowStart

\* The count acquire() compares with the limit: a window that has run out is
\* replaced first.
CountOnEntry == IF Elapsed >= Window THEN 0 ELSE countInWindow
StartOnEntry == IF Elapsed >= Window THEN now ELSE windowStart

\* Below the limit, or nothing left to wait for.
MutAcquireNow ==
  /\ wakeAt = NotSleeping
  /\ CountOnEntry <= MaxPerMinute
  /\ Grant(StartOnEntry, CountOnEntry)

AcquireNow ==
  /\ wakeAt = NotSleeping
  /\ \/ /\ CountOnEntry < MaxPerMinute
        /\ Grant(StartOnEntry, CountOnEntry)
     \/ /\ CountOnEntry >= MaxPerMinute
        /\ Elapsed >= Window
        /\ Grant(now, 0)

\* At the limit: asyncio.sleep(60 - elapsed).
AcquireSleeps ==
  /\ wakeAt = NotSleeping
  /\ CountOnEntry >= MaxPerMinute
  /\ Elapsed < Window
  /\ wakeAt' = now + (Window - Elapsed)
  /\ UNCHANGED <<now, windowStart, countInWindow, grants>>

\* The sleep ends when it is due or, on a busy event loop, later.
MutWake ==
  /\ wakeAt # NotSleeping
  /\ now >= wakeAt
  /\ Grant(windowStart, 0)

Wake ==
  /\ wakeAt # NotSleeping
  /\ now >= wakeAt
  /\ Grant(now, 0)

Tick ==
  /\ now < Horizon
  /\ now' = now + 1
  /\ UNCHANGED <<windowStart, countInWindow, wakeAt, grants>>

Next == AcquireNow \/ AcquireSleeps \/ Wake \/ Tick

Spec == Init /\ [][Next]_vars

-----------------------------------------------------------------------------
(* Properties *)

\* A limit of zero does not stop the backfill: one document a window gets through.
Limit == IF MaxPerMinute = 0 THEN 1 ELSE MaxPerMinute

\* The clock and the window it opens advance together; a sleep is never longer
\* than what is left of the window.
TypeOK ==
  /\ now \in 0..Horizon
  /\ windowStart \in 0..now
  /\ countInWindow \in 0..Limit
  /\ wakeAt = NotSleeping \/ wakeAt = windowStart + Window
  /\ grants \in Seq(0..now)

\* Any n + 1 grants in a row take at least one window.
SpreadOver(n) ==
  \A i \in 1..(Len(grants) - n) : grants[i + n] - grants[i] >= Window

\* events.md: the backfill self-throttles to at most N documents per minute.
\* What the fixed window guarantees is twice that: a full window's worth just
\* before a boundary and another just after it.
TwiceTheLimitPerWindow == SpreadOver(2 * Limit)

\* What makes the bound inductive: every grant belongs to the current window or
\* lies at or before its start, and but for the last Limit of those, at or before
\* the start of the window that preceded it.
Earlier == Len(grants) - countInWindow

WindowsAreApart ==
  /\ Earlier >= 0
  /\ \A i \in 1..Len(grants) : i > Earlier => grants[i] >= windowStart
  /\ \A i \in 1..Len(grants) : i <= Earlier => grants[i] <= windowStart
  /\ \A i \in 1..Len(grants) : i <= Earlier - Limit => grants[i] <= windowStart - Window

=============================================================================
