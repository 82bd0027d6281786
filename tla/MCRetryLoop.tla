----------------------------- MODULE MCRetryLoop -----------------------------
(***************************************************************************)
(* RetryLoop for TLC.  Bounds: up to two retries, delays and timeouts of a *)
(* few milliseconds, one status and one gRPC code of each class and one    *)
(* Retry-After longer than max_delay.  The backoff reaches its cap with    *)
(* the second retry (2, then 4, against a max_delay of 3 or 1).            *)
(***************************************************************************)
EXTENDS RetryLoop

MCPolicy ==
    {p \in [max_retries : {0, 2}, base_delay : {2}, max_delay : {1, 3}, multiplier : {2},
            honor_retry_after : BOOLEAN, max_elapsed : {None, 0, 4}] :
        p.max_retries = 0 => p.max_delay = 3 /\ p.honor_retry_after}

MCHttpStatus == {204, 400, 429, 501, 503}
MCGrpcCode == {3, 14}
MCRetryAfter == {0, 5}
=============================================================================
