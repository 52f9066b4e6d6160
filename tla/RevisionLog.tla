---------------------------- MODULE RevisionLog ----------------------------
(***************************************************************************)
(* What the revisioned configuration promises its readers: writes happen   *)
(* one after the other, and each one makes the next revision together with *)
(* its journal row and its outbox event.                                   *)
(***************************************************************************)
EXTENDS Naturals

VARIABLES revision, journal, outbox

Init == /\ revision = 1
        /\ journal = {1}
        /\ outbox = {1}

Write == /\ revision' = revision + 1
         /\ journal' = journal \cup {revision'}
         /\ outbox' = outbox \cup {revision'}

Spec == Init /\ [][Write]_<<revision, journal, outbox>>
=============================================================================
