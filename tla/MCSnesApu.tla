------------------------------ MODULE MCSnesApu ------------------------------
(***************************************************************************)
(* Small instances of SnesApu: two ports cleared by one control bit, a     *)
(* queue of three writes, a frame of five or six cycles.                   *)
(***************************************************************************)
EXTENDS SnesApu

CONSTANTS p1, p2

MCPorts == {p1, p2}
MCPortPairs == {{p1, p2}}
MCCpuSteps == {1, 3}
MCSpcCosts == {1, 2}
=============================================================================
