-------------------------- MODULE MCConfigRevision --------------------------
(* Small instances of ConfigRevision for TLC.                              *)
EXTENDS ConfigRevision
=============================================================================
