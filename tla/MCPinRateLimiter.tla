-------------------------- MODULE MCPinRateLimiter --------------------------
\* Instances of PinRateLimiter: one caller with bulk calls longer than the
\* limit, and two callers at once.
EXTENDS PinRateLimiter

\* What client.py 197 writes as a filter over the list, on every list that is
\* in order and a little longer than the limit.
ASSUME RecentIsFilter ==
  \A n \in 0 .. Limit + 2 : \A ages \in [1 .. n -> 0 .. Window] :
    (\A i, j \in 1 .. n : i <= j => ages[i] >= ages[j])
      => Recent(ages) = SelectSeq(ages, LAMBDA a : a < Window)
=============================================================================
