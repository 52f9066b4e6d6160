-------------------------- MODULE MCBackgroundWork --------------------------
(* Small instances of BackgroundWork for TLC.                              *)
EXTENDS BackgroundWork

\* max_attempts is 3 for prepared views and config summaries and 2 for the
\* retention job.  Two attempts tell a retry from the last failure; with one, the
\* first failure is the last.
MCAttempts == [k \in Kinds |-> IF k = "retention" THEN 1 ELSE 2]
=============================================================================
