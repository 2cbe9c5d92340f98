------------------------- MODULE NetstackContracts --------------------------
(* What comments of the netstack say and its code does not do.             *)
EXTENDS MCNetstack

\* "set is safe to call from a goroutine other than the one blocked in wait()":
\* no sequence of calls makes a deadline panic (deadline.go:43).
SetIsSafe == ~Panicked
=============================================================================
