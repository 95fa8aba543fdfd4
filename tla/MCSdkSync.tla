------------------------------ MODULE MCSdkSync ------------------------------
(***************************************************************************)
(* SdkSync for TLC.                                                        *)
(***************************************************************************)
EXTENDS SdkSync
=============================================================================
