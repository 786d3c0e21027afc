--------------------------- MODULE MCRateLimiter ---------------------------
(* The rate limiter for TLC: every kind of value of RATE_LIMIT_PER_MINUTE. *)
EXTENDS RateLimiterProps

RawLimits == {Unset, Garbled, -1, 0, 1}
=============================================================================
