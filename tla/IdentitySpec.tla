---------------------------- MODULE IdentitySpec ----------------------------
(***************************************************************************)
(* What an identity contract promises its owner: it is a set of rivets,    *)
(* any device among them may enrol or dismiss another, the set never       *)
(* becomes empty, and a dismissed host is no longer the host.              *)
(***************************************************************************)
CONSTANTS
  Address,  \* every address that occurs
  ZERO,     \* address(0)
  Self      \* the identity contract's own address

VARIABLES
  rivets,   \* the active rivets
  host      \* the recovery signer, ZERO for none

vars == <<rivets, host>>

\* Only a device has a key: the contract itself acts through one.
Device == Address \ {ZERO, Self}

Init ==
  \E first \in Device, backup \in Device \cup {ZERO} :
    /\ rivets = {first, backup} \ {ZERO}
    /\ host = IF backup = first THEN ZERO ELSE backup

DeviceActs == rivets \cap Device # {}

Enrol ==
  /\ DeviceActs
  /\ \E r \in Address \ ({ZERO} \cup rivets) : rivets' = rivets \cup {r}
  /\ UNCHANGED host

Dismiss ==
  /\ DeviceActs
  /\ \E r \in rivets :
       /\ rivets' = rivets \ {r}
       /\ rivets' # {}
       /\ host' = IF host = r THEN ZERO ELSE host

Designate ==
  /\ DeviceActs
  /\ host' \in rivets \cup {Self, ZERO}
  /\ UNCHANGED rivets

Next == Enrol \/ Dismiss \/ Designate

Spec == Init /\ [][Next]_vars

=============================================================================
