--------------------- MODULE MCAuthenticationRateLimiter ---------------------
(* The rate limiter for TLC: callers and scopes are interchangeable. *)
EXTENDS AuthenticationRateLimiter, TLC

Symmetry == Permutations(Callers) \cup Permutations(Scopes)
=============================================================================
