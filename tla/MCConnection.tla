---------------------------- MODULE MCConnection ----------------------------
(***************************************************************************)
(* Instances of Connection for TLC.                                        *)
(***************************************************************************)
EXTENDS Connection

CONSTANTS user, sync    \* threads

By(byUser, bySync) == [t \in Thread |-> IF t = user THEN byUser ELSE bySync]
MCUses ==
  { \* One thread that edits and synchronises.
    [op |-> By({"put", "delete", "insert"}, {}), calls |-> 5, failures |-> 2],
    \* Two that edit.
    [op |-> By({"put", "delete"}, {"put"}), calls |-> 4, failures |-> 3],
    \* One that resolves while another synchronises.
    [op |-> By({"resolve"}, {"insert"}), calls |-> 5, failures |-> 0],
    \* Two that do anything.
    [op |-> By(Operation, Operation), calls |-> 3, failures |-> 1] }
=============================================================================
