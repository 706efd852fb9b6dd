----------------------------- MODULE MCSnesHdma -----------------------------
(***************************************************************************)
(* Small instances of SnesHdma: the repeat bit is 4 for 0x80, so a count   *)
(* byte is below 8; every table of five cells, transfers of one and two    *)
(* bytes.                                                                  *)
(***************************************************************************)
EXTENDS SnesHdma

MCCountBytes == {0, 1, 4, 5, 7}
MCUnitSizes == {1, 2}
=============================================================================
