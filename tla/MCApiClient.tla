---------------------------- MODULE MCApiClient ----------------------------
(* The chain is called from its end: the breaker is inside of the retries. *)
EXTENDS ApiClient

BreakerThenRetry == <<"breaker", "retry">>
=============================================================================
