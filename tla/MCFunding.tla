------------------------------ MODULE MCFunding ------------------------------
(***************************************************************************)
(* The instance of Funding that TLC checks: two calls, of two signers or   *)
(* of one, or writes, which read the server wallet's nonce, the balance    *)
(* and the fees at any time between each other's steps.  A tenth of a gwei *)
(* is the unit.  At 10 gwei the prepared maximum is below Polygon's floor, *)
(* at 14 above it, and at 600 a write on Polygon is above the ceiling.     *)
(***************************************************************************)
EXTENDS Funding

CONSTANTS sa, sb, server, j1, j2

=============================================================================
