--------------------------- MODULE MCSessionServer ---------------------------
(***************************************************************************)
(* The instance of SessionServer that TLC checks: two pages of a browser   *)
(* with two rivets and one contract, so that both may speak for the same   *)
(* identity, and a request that fails at any point.  Two attempts of a     *)
(* bind are a first, which another follows, and a last one.                *)
(***************************************************************************)
EXTENDS SessionServer

CONSTANTS ra, rb, c1, p1, p2

=============================================================================
