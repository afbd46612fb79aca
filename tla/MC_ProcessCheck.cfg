\* Every mode, TLS expectation and process listing (each type absent, or
\* present with either IsSecure and either reachability).
CONSTANTS
  NotFound = NotFound
SPECIFICATION Spec
INVARIANT MatchesContract
