----------------------------- MODULE RetryClasses -----------------------------
(***************************************************************************)
(* What is worth a retry: the three classifiers of retry.rs, which writes, *)
(* awaited queries and streams share.                                      *)
(***************************************************************************)
EXTENDS Integers

\* Mutant of retryable_status: every error status.
any_status(code) == code >= 400

retryable_status(code) == code \in {429, 500, 502, 503, 504}

retryable_reqwest(kind) == kind \in {"timeout", "connect", "request"}

\* DeadlineExceeded, ResourceExhausted, Aborted, Internal, Unavailable.
retryable_tonic(code) == code \in {4, 8, 10, 13, 14}
=============================================================================
