------------------------- MODULE MCIdentityContract -------------------------
(***************************************************************************)
(* The instance of IdentityContract that TLC checks: two devices, the      *)
(* contract's own address (which a caller may also try to add as a rivet), *)
(* the profile section and one attribute key.  Four slots let a rivet be   *)
(* removed and added again.                                                *)
(***************************************************************************)
EXTENDS IdentityContract, TLC

CONSTANTS anyone, zero, this, phone, laptop, profile, displayName

MCAddress    == {anyone, zero, this, phone, laptop}
MCRivetInput == MCAddress \ {anyone}

MCSymmetry == Permutations({phone, laptop})

=============================================================================
