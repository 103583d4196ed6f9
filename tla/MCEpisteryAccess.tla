-------------------------- MODULE MCEpisteryAccess --------------------------
(***************************************************************************)
(* The instance of EpisteryAccess that TLC checks: two sections and two    *)
(* codes; alice and the default sentinel can both be listed on either      *)
(* section, so that a removal can move the other's entry of a list and of  *)
(* a membership array; the roles read and admin, and the two invalid ones. *)
(* Attributes are left to the instance of IdentityContract.                *)
(***************************************************************************)
EXTENDS EpisteryAccess, TLC

CONSTANTS anyone, zero, alice, s1, s2, c1, c2

MCAddress   == {anyone, zero, alice}
MCSection   == {s1, s2}
MCCode      == {c1, c2}
MCRoleInput == {0, 1, 3, 5}

\* No rule tells one section, or one code, from the other.
MCSymmetry == Permutations(MCSection) \cup Permutations(MCCode)

=============================================================================
