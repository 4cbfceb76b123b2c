----------------------------- MODULE MCAICalls -----------------------------
(***************************************************************************)
(* Two concurrent calls over three labels, one of them hedged; two Redis   *)
(* commands may fail.                                                      *)
(***************************************************************************)
EXTENDS AICalls, TLC
=============================================================================
