----------------------------- MODULE MCRedirect -----------------------------
(* Redirect for TLC: an http and an https server, and each way to limit the   *)
(* redirects.                                                                *)
EXTENDS Redirect, TLC

CONSTANTS a, b

TwoSchemes == { [scheme |-> "http", netloc |-> a], [scheme |-> "https", netloc |-> b] }

Limits(total, redirect) ==
  [c \in Counters |-> CASE c = "total" -> total [] c = "redirect" -> redirect
                      [] OTHER -> None]

EveryLimit ==
  { Number(None), Number(PyFalse), Number(0), Number(2) }
    \cup { Object(NewRetry(Limits(total, redirect), raises, <<>>)) :
             total \in {None, 1, 3}, redirect \in {PyFalse, 0, 2}, raises \in BOOLEAN }
=============================================================================
