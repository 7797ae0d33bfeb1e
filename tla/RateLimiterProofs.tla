------------------------- MODULE RateLimiterProofs --------------------------
(* The bound the backfill limiter really gives, for every limit and window. *)
EXTENDS RateLimiter, TLAPS

IInv == TypeOK /\ WindowsAreApart /\ TwiceTheLimitPerWindow

LEMMA LimitIsPositive == Limit \in Nat \ {0} /\ MaxPerMinute <= Limit
  BY LimiterParameters DEF Limit

LEMMA InitEstablishes == Init => IInv
<1> SUFFICES ASSUME Init PROVE IInv
  OBVIOUS
<1> USE LimiterParameters, LimitIsPositive DEF Init, NotSleeping
<1>1. TypeOK
  BY DEF TypeOK
<1>2. WindowsAreApart
  BY DEF WindowsAreApart, Earlier
<1>3. TwiceTheLimitPerWindow
  BY DEF TwiceTheLimitPerWindow, SpreadOver
<1> QED
  BY <1>1, <1>2, <1>3 DEF IInv

(* A grant preserves the invariant if it stays in the window and below the *)
(* limit, or opens a window at least Window after the start of the old.    *)
LEMMA GrantPreserves ==
  ASSUME IInv, NEW start \in Nat, NEW count \in Nat, Grant(start, count),
         count < Limit,
         \/ start = windowStart /\ count = countInWindow
         \/ start = now /\ count = 0 /\ now >= windowStart + Window
  PROVE  IInv'
<1> USE LimiterParameters, LimitIsPositive
<1>1. /\ now \in 0..Horizon /\ windowStart \in 0..now /\ countInWindow \in 0..Limit
      /\ grants \in Seq(0..now)
  BY DEF IInv, TypeOK
<1>2. /\ windowStart' = start /\ countInWindow' = count + 1 /\ now' = now
      /\ wakeAt' = NotSleeping /\ grants' = Append(grants, now)
  BY DEF Grant
<1>3. /\ Len(grants) \in Nat /\ Len(grants') = Len(grants) + 1
      /\ \A i \in 1..Len(grants) : grants[i] \in 0..now
      /\ \A i \in 1..Len(grants') : grants'[i] = IF i <= Len(grants) THEN grants[i] ELSE now
  <2>1. Len(grants) \in Nat /\ \A i \in 1..Len(grants) : grants[i] \in 0..now
    BY <1>1
  <2>2. Len(grants') = Len(grants) + 1
    BY <1>1, <1>2
  <2>3. ASSUME NEW i \in 1..Len(grants')
        PROVE  grants'[i] = IF i <= Len(grants) THEN grants[i] ELSE now
    BY <1>1, <1>2, <2>1, <2>2, <2>3
  <2> QED
    BY <2>1, <2>2, <2>3
<1>4. Len(grants) \in Nat /\ Len(grants') = Len(grants) + 1
  BY <1>3
<1>5. TypeOK'
  BY <1>1, <1>2, Limit' = Limit DEF TypeOK, Limit
<1>6. /\ Limit' = Limit /\ Earlier \in Int
      /\ Earlier >= 0
      /\ \A i \in 1..Len(grants) : i > Earlier => grants[i] >= windowStart
      /\ \A i \in 1..Len(grants) : i <= Earlier => grants[i] <= windowStart
      /\ \A i \in 1..Len(grants) : i <= Earlier - Limit => grants[i] <= windowStart - Window
  BY <1>1, <1>3 DEF IInv, WindowsAreApart, Earlier, Limit
<1>7. CASE start = windowStart /\ count = countInWindow
  <2>1. Earlier' = Earlier
    BY <1>1, <1>2, <1>3, <1>7 DEF Earlier
  <2>2. WindowsAreApart'
    <3>1. ASSUME NEW i \in 1..Len(grants')
          PROVE  /\ i > Earlier => grants'[i] >= windowStart
                 /\ i <= Earlier => grants'[i] <= windowStart
                 /\ i <= Earlier - Limit => grants'[i] <= windowStart - Window
      <4>1. CASE i <= Len(grants)
        BY <4>1, <3>1, <1>3, <1>6
      <4>2. CASE i = Len(grants) + 1
        <5>1. grants'[i] = now /\ i \in Int
          BY <4>2, <3>1, <1>1, <1>3
        <5>2. ~(i <= Earlier)
          BY <4>2, <1>1, <1>3 DEF Earlier
        <5> QED
          BY <5>1, <5>2, <1>1, <1>6
      <4> QED
        BY <4>1, <4>2, <3>1, <1>4
    <3> QED
      BY <3>1, <2>1, <1>2, <1>6, <1>7 DEF WindowsAreApart
  <2>3. ASSUME NEW i \in 1..(Len(grants') - 2 * Limit)
        PROVE  grants'[i + 2 * Limit] - grants'[i] >= Window
    <3> DEFINE j == i + 2 * Limit
    <3>1. /\ i \in 1..Len(grants') /\ i \in 1..Len(grants) /\ j \in 1..Len(grants')
          /\ i \in Int /\ j \in Int
      BY <1>3, <2>3
    <3> HIDE DEF j
    <3>2. CASE j <= Len(grants)
      <4>1. i \in 1..(Len(grants) - 2 * Limit)
        BY <1>3, <3>1, <3>2 DEF j
      <4>2. grants[j] - grants[i] >= Window
        BY <4>1 DEF IInv, TwiceTheLimitPerWindow, SpreadOver, j
      <4>3. grants'[j] = grants[j] /\ grants'[i] = grants[i]
        BY <1>3, <3>1, <3>2
      <4> QED
        BY <4>2, <4>3 DEF j
    <3>3. CASE j = Len(grants) + 1
      <4>1. i <= Earlier - Limit
        BY <1>1, <1>3, <1>7, <3>1, <3>3 DEF Earlier, j
      <4>2. grants[i] <= windowStart - Window
        BY <4>1, <3>1, <1>6
      <4>3. grants'[i] = grants[i] /\ grants[i] \in Int
        BY <1>1, <1>3, <3>1
      <4>4. grants'[j] = now
        <5>1. ~(j <= Len(grants))
          BY <1>4, <3>3
        <5> QED
          BY <5>1, <1>3, <3>1
      <4>5. grants'[j] - grants'[i] >= Window
        BY <4>2, <4>3, <4>4, <1>1
      <4> QED
        BY <4>5 DEF j
    <3> QED
      <4>1. j <= Len(grants) \/ j = Len(grants) + 1
        BY <1>4, <3>1
      <4> QED
        BY <4>1, <3>2, <3>3
  <2> QED
    BY <1>5, <1>6, <2>2, <2>3 DEF IInv, TwiceTheLimitPerWindow, SpreadOver
<1>8. CASE start = now /\ count = 0 /\ now >= windowStart + Window
  <2>1. Earlier' = Len(grants)
    BY <1>1, <1>2, <1>3, <1>8 DEF Earlier
  <2>2. ASSUME NEW i \in 1..Len(grants), i <= Len(grants) - Limit
        PROVE  grants[i] <= now - Window
    <3>1. i <= Earlier
      BY <1>1, <1>3, <2>2 DEF Earlier
    <3> QED
      BY <3>1, <1>1, <1>3, <1>6, <1>8
  <2>3. WindowsAreApart'
    <3>1. ASSUME NEW i \in 1..Len(grants')
          PROVE  /\ i > Len(grants) => grants'[i] >= now
                 /\ i <= Len(grants) => grants'[i] <= now
                 /\ i <= Len(grants) - Limit => grants'[i] <= now - Window
      <4>1. CASE i <= Len(grants)
        <5>1. i \in 1..Len(grants) /\ ~(i > Len(grants))
          BY <4>1, <3>1, <1>4
        <5>2. grants'[i] = grants[i] /\ grants[i] <= now
          BY <4>1, <5>1, <3>1, <1>1, <1>3
        <5> QED
          BY <5>1, <5>2, <2>2
      <4>2. CASE i = Len(grants) + 1
        <5>1. grants'[i] = now /\ now >= now
          BY <4>2, <3>1, <1>1, <1>3
        <5>2. ~(i <= Len(grants)) /\ ~(i <= Len(grants) - Limit)
          BY <4>2, <1>4
        <5> QED
          BY <5>1, <5>2
      <4> QED
        BY <4>1, <4>2, <3>1, <1>4
    <3> QED
      BY <3>1, <2>1, <1>2, <1>3, <1>6, <1>8 DEF WindowsAreApart
  <2>4. ASSUME NEW i \in 1..(Len(grants') - 2 * Limit)
        PROVE  grants'[i + 2 * Limit] - grants'[i] >= Window
    <3> DEFINE j == i + 2 * Limit
    <3>1. /\ i \in 1..Len(grants') /\ i \in 1..Len(grants) /\ j \in 1..Len(grants')
          /\ i \in Int /\ j \in Int
      BY <1>3, <2>4
    <3> HIDE DEF j
    <3>2. CASE j <= Len(grants)
      <4>1. i \in 1..(Len(grants) - 2 * Limit)
        BY <1>3, <3>1, <3>2 DEF j
      <4>2. grants[j] - grants[i] >= Window
        BY <4>1 DEF IInv, TwiceTheLimitPerWindow, SpreadOver, j
      <4>3. grants'[j] = grants[j] /\ grants'[i] = grants[i]
        BY <1>3, <3>1, <3>2
      <4> QED
        BY <4>2, <4>3 DEF j
    <3>3. CASE j = Len(grants) + 1
      <4>1. i <= Len(grants) - Limit
        BY <1>3, <3>1, <3>3 DEF j
      <4>2. grants[i] <= now - Window
        BY <4>1, <3>1, <2>2
      <4>3. grants'[i] = grants[i] /\ grants[i] \in Int
        BY <1>1, <1>3, <3>1
      <4>4. grants'[j] = now
        <5>1. ~(j <= Len(grants))
          BY <1>4, <3>3
        <5> QED
          BY <5>1, <1>3, <3>1
      <4>5. grants'[j] - grants'[i] >= Window
        BY <4>2, <4>3, <4>4, <1>1
      <4> QED
        BY <4>5 DEF j
    <3> QED
      <4>1. j <= Len(grants) \/ j = Len(grants) + 1
        BY <1>4, <3>1
      <4> QED
        BY <4>1, <3>2, <3>3
  <2> QED
    BY <1>5, <1>6, <2>3, <2>4 DEF IInv, TwiceTheLimitPerWindow, SpreadOver
<1> QED
  BY <1>7, <1>8

LEMMA StepPreserves == IInv /\ [Next]_vars => IInv'
<1> SUFFICES ASSUME IInv, [Next]_vars PROVE IInv'
  OBVIOUS
<1> USE LimiterParameters, LimitIsPositive
<1>1. /\ now \in 0..Horizon /\ windowStart \in 0..now /\ countInWindow \in 0..Limit
      /\ wakeAt = NotSleeping \/ wakeAt = windowStart + Window
      /\ grants \in Seq(0..now)
  BY DEF IInv, TypeOK
<1>2. CASE AcquireNow
  <2>1. CASE CountOnEntry < MaxPerMinute /\ Grant(StartOnEntry, CountOnEntry)
    <3>1. CASE Elapsed >= Window
      <4>1. Grant(now, 0) /\ now >= windowStart + Window
        BY <1>1, <2>1, <3>1 DEF CountOnEntry, StartOnEntry, Elapsed
      <4> QED
        BY <4>1, <1>1, GrantPreserves
    <3>2. CASE ~(Elapsed >= Window)
      <4>1. Grant(windowStart, countInWindow) /\ countInWindow < Limit
        BY <1>1, <2>1, <3>2 DEF CountOnEntry, StartOnEntry
      <4> QED
        BY <4>1, <1>1, GrantPreserves
    <3> QED
      BY <3>1, <3>2
  <2>2. CASE Elapsed >= Window /\ Grant(now, 0)
    <3>1. now >= windowStart + Window
      BY <1>1, <2>2 DEF Elapsed
    <3> QED
      BY <3>1, <2>2, <1>1, GrantPreserves
  <2> QED
    BY <1>2, <2>1, <2>2 DEF AcquireNow
<1>3. CASE Wake
  <2>1. Grant(now, 0) /\ now >= windowStart + Window
    BY <1>1, <1>3 DEF Wake, NotSleeping
  <2> QED
    BY <2>1, <1>1, GrantPreserves
<1>4. CASE AcquireSleeps
  <2>1. wakeAt' = windowStart + Window
        /\ UNCHANGED <<now, windowStart, countInWindow, grants>>
    BY <1>1, <1>4 DEF AcquireSleeps, Elapsed
  <2>2. TypeOK'
    BY <2>1, <1>1 DEF TypeOK, Limit
  <2> QED
    BY <2>1, <2>2 DEF IInv, WindowsAreApart, Earlier, TwiceTheLimitPerWindow, SpreadOver, Limit
<1>5. CASE Tick
  <2>1. now' \in 0..Horizon /\ now' >= now
        /\ UNCHANGED <<windowStart, countInWindow, wakeAt, grants>>
    BY <1>1, <1>5 DEF Tick
  <2>2. grants \in Seq(0..now')
    BY <2>1, <1>1
  <2>3. TypeOK'
    BY <2>1, <2>2, <1>1 DEF TypeOK, Limit
  <2> QED
    BY <2>1, <2>3 DEF IInv, WindowsAreApart, Earlier, TwiceTheLimitPerWindow, SpreadOver, Limit
<1>6. CASE UNCHANGED vars
  BY <1>6 DEF vars, IInv, TypeOK, WindowsAreApart, Earlier, TwiceTheLimitPerWindow,
              SpreadOver, Limit
<1> QED
  BY <1>2, <1>3, <1>4, <1>5, <1>6 DEF Next

\* RateLimiter.acquire: for every configured limit, zero included, and every
\* window length, the clock, the count and the sleep are well formed, and no
\* window of time sees more than twice the limit's worth of documents.
THEOREM LimiterBound == Spec => [](TypeOK /\ TwiceTheLimitPerWindow)
<1>1. IInv => TypeOK /\ TwiceTheLimitPerWindow
  BY DEF IInv
<1> QED
  BY <1>1, InitEstablishes, StepPreserves, PTL DEF Spec

\* RateLimiter.acquire: the window, its count and the grants stay well formed.
THEOREM LimiterIsTyped == Spec => []TypeOK
  BY LimiterBound, PTL

\* RateLimiter.acquire: a full window lies a window's length behind its successor.
THEOREM WindowsStayApart == Spec => []WindowsAreApart
<1>1. IInv => WindowsAreApart
  BY DEF IInv
<1> QED
  BY <1>1, InitEstablishes, StepPreserves, PTL DEF Spec


=============================================================================
