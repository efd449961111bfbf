------------------------------ MODULE MCIntake ------------------------------
(***************************************************************************)
(* The intake for TLC: three requests with one key, one of them with a bad *)
(* card, and a fourth with a key of its own.                               *)
(***************************************************************************)
EXTENDS IntakeProperties

CONSTANTS r1, r2, r3, r4, k1, k2

MCKeys == {k1, k2}
MCRequests == {r1, r2, r3, r4}
MCKey == [r \in MCRequests |-> IF r = r4 THEN k2 ELSE k1]

=============================================================================
