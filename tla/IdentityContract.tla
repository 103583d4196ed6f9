-------------------------- MODULE IdentityContract --------------------------
(***************************************************************************)
(* contracts/IdentityContract.sol: an identity as a set of devices         *)
(* (rivets), each of which may act for it, with the sections, attributes   *)
(* and invites it inherits from EpisteryAccess.  The stewards of those     *)
(* sections are the active rivets and the contract itself.                 *)
(*                                                                         *)
(* executeTransaction lets a rivet make the contract call any target,      *)
(* itself included: such a nested call has the contract as its sender, and *)
(* the whole transaction reverts if it does.  So a call with sender Self   *)
(* happens exactly when some device is a steward.  Ether, ERC-20 tokens    *)
(* and calls to other contracts leave this state alone and are left out.   *)
(***************************************************************************)
EXTENDS Naturals, Sequences, FiniteSets

CONSTANTS
  Address, DEFAULT_MEMBER, ZERO, Section, Key, Code, RoleInput,
  Self,             \* address(this)
  PROFILE_SECTION,  \* "_profile"
  NameKey,          \* "name"
  RivetInput,       \* the addresses callers pass to addRivet, valid or not
  MaxSlots,         \* bound: elements ever pushed on authorizedRivets
  MaxMessages       \* bound: messages the fallback accepts

ASSUME IdentityAssumption ==
  /\ {DEFAULT_MEMBER, ZERO, Self} \subseteq Address
  /\ DEFAULT_MEMBER # ZERO /\ Self # ZERO /\ Self # DEFAULT_MEMBER
  /\ RivetInput \subseteq Address \ {DEFAULT_MEMBER}
  /\ PROFILE_SECTION \in Section /\ NameKey \in Key
  /\ RoleInput \subseteq 0 .. 255
  /\ MaxSlots \in Nat /\ MaxMessages \in Nat

VARIABLES
  acl, aclIndex, memberships, sectionNames, sectionSeen, keyList, keySeen,
  invites,
  host,                  \* the recovery signer, ZERO for none
  authorizedRivets,      \* Seq(Address): every rivet ever added, in order
  isAuthorized,          \* [Address -> BOOLEAN]
  rivetActive,           \* [Address -> BOOLEAN]
  hasPublicKey,          \* [Address -> BOOLEAN]: rivetPublicKeys is not empty
  rivetCount,
  removeRivetThreshold,
  messageCount

IsRivet(a) == isAuthorized[a] /\ rivetActive[a]

Rivets == {a \in Address : IsRivet(a)}

\* _isSteward: the identity itself and any active rivet.
Stewards == {Self} \cup Rivets

Access == INSTANCE EpisteryAccess WITH stewards <- Stewards

accessVars   == <<acl, aclIndex, memberships, sectionNames, sectionSeen, keyList,
                  keySeen, invites>>
rivetVars    == <<authorizedRivets, isAuthorized, rivetActive, rivetCount>>
identityVars == <<rivetVars, host, hasPublicKey, removeRivetThreshold, messageCount>>
vars         == <<accessVars, identityVars>>

\* The addresses with a key of their own.
Device == Address \ {ZERO, DEFAULT_MEMBER, Self}

\* msg.sender: a device, or the contract on behalf of a device that is a
\* steward (executeTransaction with the contract as target).
Sender == Device \cup {a \in {Self} : Device \cap Stewards # {}}

TypeOK ==
  /\ Access!TypeOK
  /\ host \in Address
  /\ authorizedRivets \in Seq(Address)
  /\ isAuthorized \in [Address -> BOOLEAN]
  /\ rivetActive \in [Address -> BOOLEAN]
  /\ hasPublicKey \in [Address -> BOOLEAN]
  /\ rivetCount \in Nat
  /\ removeRivetThreshold \in Nat \ {0}
  /\ messageCount \in Nat

-----------------------------------------------------------------------------
(***************************************************************************)
(* The constructor: a first device, an optional host that is a rivet of    *)
(* its own unless it is that device, an optional public key and an         *)
(* optional display name.                                                  *)
(***************************************************************************)
Init ==
  \E firstRivet \in Device, host_ \in Device \cup {ZERO}, named, keyed \in BOOLEAN :
    LET others == IF host_ \in {ZERO, firstRivet} THEN {} ELSE {host_}
        name(kind, s, k) == named /\ kind = "public" /\ s = PROFILE_SECTION /\ k = NameKey
    IN
    /\ authorizedRivets = IF others = {} THEN <<firstRivet>> ELSE <<firstRivet, host_>>
    /\ isAuthorized = [a \in Address |-> a \in {firstRivet} \cup others]
    /\ rivetActive = isAuthorized
    /\ rivetCount = Len(authorizedRivets)
    /\ host = IF others = {} THEN ZERO ELSE host_
    /\ hasPublicKey = [a \in Address |-> keyed /\ a = firstRivet]
    /\ removeRivetThreshold = 1
    /\ messageCount = 0
    /\ acl = [s \in Section |-> <<>>]
    /\ aclIndex = [s \in Section |-> [a \in Address |-> 0]]
    /\ memberships = [a \in Address |-> <<>>]
    /\ sectionNames = IF named THEN <<PROFILE_SECTION>> ELSE <<>>
    /\ sectionSeen = [s \in Section |-> named /\ s = PROFILE_SECTION]
    /\ keyList = [kind \in Access!Kind |-> [s \in Section |->
                    IF name(kind, s, NameKey) THEN <<NameKey>> ELSE <<>>]]
    /\ keySeen = [kind \in Access!Kind |-> [s \in Section |->
                    [k \in Key |-> name(kind, s, k)]]]
    /\ invites = [c \in {} |-> 0]

-----------------------------------------------------------------------------
\* Mutant: a rivet can be added a second time.
AddRivetAgain(sender, rivet) ==
  /\ sender \in Stewards
  /\ rivet # ZERO
  /\ Len(authorizedRivets) < MaxSlots
  /\ authorizedRivets' = Append(authorizedRivets, rivet)
  /\ isAuthorized' = [isAuthorized EXCEPT ![rivet] = TRUE]
  /\ rivetActive' = [rivetActive EXCEPT ![rivet] = TRUE]
  /\ rivetCount' = rivetCount + 1
  /\ UNCHANGED <<host, hasPublicKey, removeRivetThreshold, messageCount>>

\* Mutant: anybody can add a rivet.
AddRivetByAnyone(sender, rivet) ==
  /\ rivet # ZERO
  /\ ~isAuthorized[rivet]
  /\ Len(authorizedRivets) < MaxSlots
  /\ authorizedRivets' = Append(authorizedRivets, rivet)
  /\ isAuthorized' = [isAuthorized EXCEPT ![rivet] = TRUE]
  /\ rivetActive' = [rivetActive EXCEPT ![rivet] = TRUE]
  /\ rivetCount' = rivetCount + 1
  /\ UNCHANGED <<host, hasPublicKey, removeRivetThreshold, messageCount>>

\* addRivet, with _addRivet
AddRivet(sender, rivet) ==
  /\ sender \in Stewards
  /\ rivet # ZERO
  /\ ~isAuthorized[rivet]
  /\ Len(authorizedRivets) < MaxSlots
  /\ authorizedRivets' = Append(authorizedRivets, rivet)
  /\ isAuthorized' = [isAuthorized EXCEPT ![rivet] = TRUE]
  /\ rivetActive' = [rivetActive EXCEPT ![rivet] = TRUE]
  /\ rivetCount' = rivetCount + 1
  /\ UNCHANGED <<host, hasPublicKey, removeRivetThreshold, messageCount>>

\* What removeRivet does to the rivet itself: it stays in authorizedRivets.
Deactivate(rivet) ==
  /\ isAuthorized' = [isAuthorized EXCEPT ![rivet] = FALSE]
  /\ rivetActive' = [rivetActive EXCEPT ![rivet] = FALSE]
  /\ rivetCount' = rivetCount - 1
  /\ UNCHANGED authorizedRivets

\* Mutant: the last rivet can be removed.
AnyRivetRemovable == TRUE

NotLastRivet == rivetCount > 1

\* Mutant: the device's communications key is not deleted.
KeepPublicKey(rivet) == UNCHANGED hasPublicKey

DeletePublicKey(rivet) == hasPublicKey' = [hasPublicKey EXCEPT ![rivet] = FALSE]

\* Mutant: a removed host stays the host.
KeepHost(rivet) == UNCHANGED host

\* Removing the host is exactly how it is kicked out.
ClearHost(rivet) == host' = IF rivet = host THEN ZERO ELSE host

\* removeRivet
RemoveRivet(sender, rivet) ==
  /\ sender \in Stewards
  /\ isAuthorized[rivet]
  /\ NotLastRivet
  /\ Deactivate(rivet)
  /\ DeletePublicKey(rivet)
  /\ ClearHost(rivet)
  /\ UNCHANGED <<removeRivetThreshold, messageCount>>

\* Mutant: any address can be made the host.
DesignateAnyHost(sender, newHost) ==
  /\ sender \in Stewards
  /\ host' = newHost
  /\ UNCHANGED <<rivetVars, hasPublicKey, removeRivetThreshold, messageCount>>

\* designateHost: none, or any steward.
DesignateHost(sender, newHost) ==
  /\ sender \in Stewards
  /\ newHost = ZERO \/ newHost \in Stewards
  /\ host' = newHost
  /\ UNCHANGED <<rivetVars, hasPublicKey, removeRivetThreshold, messageCount>>

\* Mutant: zero is accepted.
SetAnyThreshold(sender, newThreshold) ==
  /\ sender \in Stewards
  /\ newThreshold <= rivetCount
  /\ removeRivetThreshold' = newThreshold
  /\ UNCHANGED <<rivetVars, host, hasPublicKey, messageCount>>

\* setRemoveRivetThreshold
SetRemoveRivetThreshold(sender, newThreshold) ==
  /\ sender \in Stewards
  /\ newThreshold > 0
  /\ newThreshold <= rivetCount
  /\ removeRivetThreshold' = newThreshold
  /\ UNCHANGED <<rivetVars, host, hasPublicKey, messageCount>>

\* setPublicKey, for the sender itself; the empty string clears it.
SetPublicKey(sender, present) ==
  /\ sender \in Stewards
  /\ hasPublicKey' = [hasPublicKey EXCEPT ![sender] = present]
  /\ UNCHANGED <<rivetVars, host, removeRivetThreshold, messageCount>>

\* fallback: a call that names no function is a message, from anyone.
ReceiveMessage ==
  /\ messageCount < MaxMessages
  /\ messageCount' = messageCount + 1
  /\ UNCHANGED <<rivetVars, host, hasPublicKey, removeRivetThreshold>>

\* A call to a function of IdentityContract itself.
IdentityCall(sender) ==
  \/ \E rivet \in RivetInput : AddRivet(sender, rivet)
  \/ \E rivet \in Address : RemoveRivet(sender, rivet)
  \/ \E newHost \in Address : DesignateHost(sender, newHost)
  \/ \E n \in 0 .. rivetCount + 1 : SetRemoveRivetThreshold(sender, n)
  \/ \E present \in BOOLEAN : SetPublicKey(sender, present)
  \/ ReceiveMessage

Next ==
  \E sender \in Sender :
    \/ IdentityCall(sender) /\ UNCHANGED accessVars
    \/ Access!Call(sender) /\ UNCHANGED identityVars

Spec == Init /\ [][Next]_vars

-----------------------------------------------------------------------------
(***************************************************************************)
(* Properties.                                                             *)
(***************************************************************************)

\* What the loop of getRivets finds: the active entries of the list.
ActiveSlots == {i \in 1 .. Len(authorizedRivets) : IsRivet(authorizedRivets[i])}

\* getRivets returns: the array it fills has room for every element the loop
\* writes (an out-of-range write reverts the call).
GetRivetsReturns == Cardinality(ActiveSlots) <= rivetCount

\* The counter that guards removals counts the devices that can act, through
\* any sequence of additions, removals and re-additions: the two flags of a
\* rivet agree, every rivet that can act can be enumerated, and getRivets,
\* when it returns, does so without repeating one.
RivetCountExact ==
  /\ rivetCount = Cardinality(Rivets)
  /\ isAuthorized = rivetActive
  /\ \A a \in Rivets : \E i \in ActiveSlots : authorizedRivets[i] = a
  /\ GetRivetsReturns =>
       \A i, j \in ActiveSlots : authorizedRivets[i] = authorizedRivets[j] => i = j

\* An identity is never left without a rivet ("cannot remove last rivet").
NeverWithoutRivet == Rivets # {}

\* The recovery host never dangles: when the host is removed as a rivet by
\* anyone, in any order with designateHost, it is no longer the host
\* (IdentityContract.sol:149-150, "fully revocable").
HostNeverDangles == host = ZERO \/ host \in Stewards

\* Peers encrypt to rivetPublicKeys: a key is only ever offered for an address
\* that can act for the identity, so a removed device gets no more messages.
KeysOnlyOfStewards == \A a \in Address : hasPublicKey[a] => a \in Stewards

\* The contract's own address may be added as a rivet, and then the last device
\* removed (121-141): nobody can act for such an identity any more.  It is then
\* frozen for good: no outsider can take it over, by whatever sequence of calls.
OrphanedIsFrozen ==
  [][Device \cap Rivets = {} =>
       UNCHANGED <<rivetVars, host, hasPublicKey, removeRivetThreshold>>]_vars

\* The attributes stay enumerable with the name the constructor seeds, before
\* any call.
AttributesEnumerable == Access!AttributesEnumerable

\* The arrays, flags and counters implement the plain set of rivets of
\* IdentitySpec.
Abstract == INSTANCE IdentitySpec WITH rivets <- Rivets

ImplementsIdentitySpec == Abstract!Spec

=============================================================================
