------------------------------ MODULE ClaimSpec ------------------------------
(***************************************************************************)
(* What the claim routes promise the owner of a domain: the first address  *)
(* that asks gets a challenge, the challenge stands until somebody who     *)
(* controls the domain's DNS has published it, and then that address, and  *)
(* no other, is the domain's administrator for good.  No requests, no      *)
(* files: those belong to DomainServer.                                    *)
(***************************************************************************)
CONSTANTS
  Domain,
  Address,
  Token,   \* challenge tokens
  None     \* neither an address nor a token

VARIABLES
  claim,   \* [Domain -> the state of its claim]
  zone     \* [Domain -> the challenges in its TXT records]

vars == <<claim, zone>>

Free             == [is |-> "free", by |-> None, token |-> None]
Challenged(a, t) == [is |-> "challenged", by |-> a, token |-> t]
Claimed(a)       == [is |-> "claimed", by |-> a, token |-> None]

Init ==
  /\ claim = [d \in Domain |-> Free]
  /\ zone = [d \in Domain |-> {}]

Challenge ==
  \E d \in Domain, a \in Address, t \in Token :
    /\ claim[d] = Free
    /\ claim' = [claim EXCEPT ![d] = Challenged(a, t)]
    /\ UNCHANGED zone

Complete ==
  \E d \in Domain :
    /\ claim[d].is = "challenged"
    /\ claim[d].token \in zone[d]
    /\ claim' = [claim EXCEPT ![d] = Claimed(claim[d].by)]
    /\ UNCHANGED zone

Publish ==
  \E d \in Domain, t \in Token :
    /\ zone' = [zone EXCEPT ![d] = @ \cup {t}]
    /\ UNCHANGED claim

Next == Challenge \/ Complete \/ Publish

Spec == Init /\ [][Next]_vars

=============================================================================
