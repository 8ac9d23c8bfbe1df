------------------------------- MODULE MCOpen -------------------------------
(***************************************************************************)
(* Instances of Open for TLC.                                              *)
(***************************************************************************)
EXTENDS Open

CONSTANTS p, q, r,      \* processes
          good, other,  \* passwords
          u1, u2, u3,   \* random uids
          v             \* a uid an application chooses

MCKey == [x \in Process |-> IF x = r THEN other ELSE good]
=============================================================================
