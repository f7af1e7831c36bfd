---------------------------- MODULE MCLogFormat ----------------------------
(* The instance of the log for TLC: blocks of six bytes, headers of two;   *)
(* the constants are in the .cfg.                                          *)
EXTENDS LogFormatProperties
=============================================================================
