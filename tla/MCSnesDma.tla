------------------------------ MODULE MCSnesDma ------------------------------
(***************************************************************************)
(* Small instances of SnesDma: two channels, banks of sixteen bytes, a     *)
(* buffer of eight bytes, patterns of four.                                *)
(***************************************************************************)
EXTENDS SnesDma

MCSizes == {0, 6}
MCSources == {0, 13}
MCSlices == {1, 9}
=============================================================================
