------------------------------ MODULE MCSnesExec ------------------------------
(***************************************************************************)
(* Small instances of SnesExec: a frame of one visible line and one or two *)
(* lines of v-blank, a few cycles a line.                                  *)
(***************************************************************************)
EXTENDS SnesExec

MCDmaSizes == {1, 4}
MCHTimes == {0, 2, 4, 6}
=============================================================================
