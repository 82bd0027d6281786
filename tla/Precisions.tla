------------------------------ MODULE Precisions ------------------------------
(***************************************************************************)
(* How nanoseconds become the unit of a write (precision.rs), on both ways *)
(* that a timestamp can reach a line.                                      *)
(***************************************************************************)
EXTENDS Integers

\* Integer division in Rust truncates towards zero.
truncated(n, d) == IF n >= 0 THEN n \div d ELSE -((-n) \div d)

\* Mutant of scale_timestamp: rounded down, also before the epoch.
scaled_down(nanos, unit) == nanos \div unit

scale_timestamp(nanos, unit) == truncated(nanos, unit)
=============================================================================
