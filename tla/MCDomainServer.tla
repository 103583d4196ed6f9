--------------------------- MODULE MCDomainServer ---------------------------
(***************************************************************************)
(* The instances of DomainServer that TLC checks.  With one request at a   *)
(* time (r1): two domains, two addresses, two tokens, so that a challenge  *)
(* whose save has failed can be followed by another, and a restart at      *)
(* every await; a fido request reads as a query does, and leaves the       *)
(* shared path elsewhere.  With two requests (r1, r2) there is one domain  *)
(* and two addresses, or two domains and one address, or only one of each. *)
(* One wallet more than can be in use at once.  A root file that names no  *)
(* provider makes every domain look for one.                               *)
(***************************************************************************)
EXTENDS DomainServer

CONSTANTS d1, d2, alice, bob, r1, r2

MCToken  == 1 .. 2
MCWallet == 1 .. 3
MCRoute  == {"query", "post", "dns", "initialize", "fido"}

=============================================================================
