---------------------------- MODULE MCTokenClient ----------------------------
\* Instances of TokenClient: two calls share one server, a third runs in a
\* second server with the same token file.
EXTENDS TokenClient, TLC

CONSTANTS c1, c2, c3, s1, s2

MCHome == c1 :> s1 @@ c2 :> s1 @@ c3 :> s2
MCHomeAlone == c1 :> s1 @@ c2 :> s1
MCSymmetry == Permutations({c1, c2})
=============================================================================
