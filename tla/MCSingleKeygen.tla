--------------------------- MODULE MCSingleKeygen ---------------------------
(***************************************************************************)
(* Small instances of SingleKeygen: runs of one arm, with two IRs.         *)
(***************************************************************************)
EXTENDS SingleKeygen

CONSTANTS r1, r2, r3, port, ir1, ir2

MCArm == [r \in Runs |-> port]
MCZkir == [r \in Runs |-> IF r = r1 THEN ir1 ELSE ir2]
=============================================================================
