---------------------------- MODULE MCRetryBudget ----------------------------
(* RetryBudget for TLC: every mix of a total and two counters of their own.  *)
EXTENDS RetryBudget, TLC

Mixed ==
  { NewRetry([total |-> total, connect |-> connect, read |-> read,
              redirect |-> redirect, status |-> None, other |-> other], raises, <<>>) :
      total \in {None, PyFalse, 0, 2, 3}, connect \in {None, PyFalse, 1},
      read \in {None, PyFalse, 0, 2}, redirect \in {None, PyFalse, 1},
      other \in {None, 1}, raises \in {TRUE} }
=============================================================================
