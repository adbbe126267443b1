---------------------------- MODULE MCDlmsReceiver -----------------------------
(***************************************************************************)
(* DlmsReceiver for TLC.                                                   *)
(***************************************************************************)
EXTENDS DlmsReceiver
===============================================================================
