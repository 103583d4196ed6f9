--------------------------- MODULE MCWitnessStore ---------------------------
(***************************************************************************)
(* The instances of WitnessStore that TLC checks: two pages and two calls  *)
(* in flight, of one page or of two; two rivets, so that a page's wallet   *)
(* can be another than the one a bind works on; a passkey wallet that has  *)
(* no master key; a wallet of before 2.0.  One contract is enough: a token *)
(* may be for the wrong rivet, and a rivet bound already.                  *)
(***************************************************************************)
EXTENDS WitnessStore, TLC

CONSTANTS w1, w2, p1, l1, c1, f1, f2, t1, t2

\* Nothing; a plain-text wallet; one listed with a rivet and the passkey wallet.
MCLegacy ==
  {[listed |-> L, made |-> {l1}] : L \in {{}, {l1}}} \cup
  {[listed |-> {l1, w, p1}, made |-> Wallet] : w \in Rivet}
MCLegacyBind == {[listed |-> {}, made |-> {}]}

MCCall  == {"connect", "add", "bind", "setDefault", "remove", "reset"}
MCCallBind == {"connect", "add", "bind", "setDefault"}

Symmetry == Permutations(Rivet) \cup Permutations(Tab) \cup Permutations(Flow)

=============================================================================
