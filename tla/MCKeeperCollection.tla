------------------------- MODULE MCKeeperCollection -------------------------
(* Two overlapping requests to collect the fees of one mint.               *)
EXTENDS KeeperCollection

CONSTANTS r1, r2

MCRequests == {r1, r2}
=============================================================================
