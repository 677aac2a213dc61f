-------------------------- MODULE MCCaptureSession --------------------------
(* Two captures of one target: each can meet the other at every command.   *)
EXTENDS CaptureSession
=============================================================================
