---------------------------- MODULE FlowDocument ----------------------------
(****************************************************************************)
(* The one document a call of validateConnectivity judges: both walks and   *)
(* the reference check read it.                                             *)
(****************************************************************************)
EXTENDS FlowPaths

VARIABLE flow   \* the document: chosen once, never written
==============================================================================
