---------------------------- MODULE MCReplayGuard ----------------------------
\* ReplayGuard for TLC: a request that stays in the skew window while its row
\* is retained, one with the same nonce for a later time, a forgery of it and
\* two requests with other nonces, one more than the table can hold.
EXTENDS ReplayGuard, TLC

CONSTANTS n1, n2, n3

Request(t, x, s) == [timestamp |-> t, nonce |-> x, signature |-> s]

MCMessages == {Request(1, n1, "right"), Request(5, n1, "right"),
               Request(1, n1, "wrong"), Request(4, n2, "right"),
               Request(3, n3, "right")}

HandlerSymmetry == Permutations(Handlers)
=============================================================================
