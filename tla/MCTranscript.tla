---------------------------- MODULE MCTranscript ----------------------------
(* Constants of Transcript for TLC. *)
EXTENDS Transcript

CONSTANTS f1
=============================================================================
