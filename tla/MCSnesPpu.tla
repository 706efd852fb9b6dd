------------------------------ MODULE MCSnesPpu ------------------------------
(***************************************************************************)
(* Small instances of SnesPpu: two visible lines in a frame of four, a     *)
(* queue of two writes.                                                    *)
(***************************************************************************)
EXTENDS SnesPpu

MCOamValues == {1}
=============================================================================
