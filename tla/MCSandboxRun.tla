---------------------------- MODULE MCSandboxRun ----------------------------
(* A small instance of SandboxRun for TLC: the values are in the .cfg file,  *)
(* runs being model values.                                                  *)
EXTENDS SandboxRun
=============================================================================
