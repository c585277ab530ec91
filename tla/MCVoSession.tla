----------------------------- MODULE MCVoSession -----------------------------
(* An instance of VoSession for TLC.  Four numbers stand for the 256 of a   *)
(* byte: the number wraps, and skips zero, within one boot.                 *)
EXTENDS VoSession
=============================================================================
