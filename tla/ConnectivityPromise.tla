-------------------------- MODULE ConnectivityPromise --------------------------
(****************************************************************************)
(* What validateConnectivity promises its caller, whatever walks it uses:   *)
(* its findings only grow, each is true and raised once, they come in the   *)
(* order of the sorted steps, and when it returns none is missing.          *)
(****************************************************************************)
EXTENDS ConnectivityFindings

VARIABLES flow, errors, warnings, returned

vars == <<flow, errors, warnings, returned>>

Grows(old, new, truth) ==
  /\ IsPrefix(old, new)
  /\ Mentioned(new) \subseteq truth
  /\ IsInjective(new)
  /\ InOrder(new)

Init ==
  /\ flow \in Flows
  /\ errors = <<>> /\ warnings = <<>>
  /\ returned = FALSE

Report ==
  /\ ~returned
  /\ Grows(errors, errors', TrueErrors(flow))
  /\ Grows(warnings, warnings', TrueWarnings(flow))
  /\ returned' \in BOOLEAN
  /\ returned' => /\ Mentioned(errors') = TrueErrors(flow)
                  /\ Mentioned(warnings') = TrueWarnings(flow)
  /\ UNCHANGED flow

Safety == Init /\ [][Report]_vars

Spec == Safety /\ <>returned
==============================================================================
