----------------------------- MODULE MCLauncher -----------------------------
(***************************************************************************)
(* One command, one process it may fork, both streams.                     *)
(***************************************************************************)
EXTENDS Launcher, TLC

MCStreams == {"stdout", "stderr"}
=============================================================================
