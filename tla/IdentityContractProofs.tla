----------------------- MODULE IdentityContractProofs -----------------------
(***************************************************************************)
(* Theorems about IdentityContract, for every set of addresses, sections,  *)
(* keys and codes and every bound.  Two invariants carry them: RivetInv,   *)
(* about the devices, and the storage invariant that EpisteryAccessProofs  *)
(* proves of the inherited sections, taken here with the stewards an       *)
(* identity has.  A call changes one of the two halves of the storage.     *)
(***************************************************************************)
EXTENDS IdentityContract, FiniteSetTheorems, SequenceTheorems, TLAPS

\* The inherited contract and what is proved about it.
Inherited == INSTANCE EpisteryAccessProofs WITH stewards <- Stewards

-----------------------------------------------------------------------------
(***************************************************************************)
(* The inductive invariant.                                                *)
(***************************************************************************)

\* What is only counted or recorded.
CounterTypes == removeRivetThreshold \in Nat \ {0} /\ messageCount \in Nat

\* The flags and the list of the rivets, and their types.
FlagsInv ==
  /\ authorizedRivets \in Seq(Address)
  /\ isAuthorized \in [Address -> BOOLEAN]
  /\ rivetActive = isAuthorized
  /\ \A a \in Rivets : \E i \in 1 .. Len(authorizedRivets) : authorizedRivets[i] = a
  /\ Rivets \cap {ZERO, DEFAULT_MEMBER} = {}

\* The counter counts a finite set, and is never zero: removeRivet compares
\* it, and not the set, with one.
CountInv ==
  /\ IsFiniteSet(Rivets)
  /\ rivetCount = Cardinality(Rivets)
  /\ Rivets # {}

\* What refers to a steward.
ReferenceInv ==
  /\ host \in Address
  /\ hasPublicKey \in [Address -> BOOLEAN]
  /\ HostNeverDangles
  /\ KeysOnlyOfStewards

RivetInv == CounterTypes /\ FlagsInv /\ CountInv /\ ReferenceInv

IdentityInv == RivetInv /\ Inherited!StorageInv

-----------------------------------------------------------------------------
(***************************************************************************)
(* Senders and stewards.                                                   *)
(***************************************************************************)

\* The assumptions of the inherited contract follow from those made here.
LEMMA InheritedAssumptions ==
  Inherited!AddressAssumption /\ Inherited!RoleInputAssumption
BY IdentityAssumption DEF Inherited!AddressAssumption, Inherited!RoleInputAssumption

\* Whoever sends a transaction may call the inherited functions, and if it is
\* a steward then some device is: executeTransaction gives the contract itself
\* no power that no device has.
LEMMA SenderIsBacked ==
  ASSUME NEW sender \in Sender
  PROVE  /\ sender \in Inherited!Caller
         /\ sender \in Address
         /\ sender \in Stewards => Device \cap Rivets # {}
BY IdentityAssumption DEF Sender, Device, Stewards, Inherited!Caller

LEMMA StewardsCanCall ==
  ASSUME FlagsInv
  PROVE  Stewards \subseteq Inherited!Caller
BY IdentityAssumption DEF FlagsInv, Stewards, Rivets, Inherited!Caller

\* With equal flags the rivets are the authorized addresses.
LEMMA RivetsAreAuthorized ==
  ASSUME rivetActive = isAuthorized
  PROVE  Rivets = {a \in Address : isAuthorized[a]}
BY DEF Rivets, IsRivet

\* A counter of a finite set that is not empty is positive.
LEMMA CountPositive ==
  ASSUME CountInv
  PROVE  rivetCount \in Nat \ {0}
BY FS_CardinalityType, FS_EmptySet DEF CountInv

-----------------------------------------------------------------------------
(***************************************************************************)
(* The constructor.                                                        *)
(***************************************************************************)

\* The constructor enrols one device, or two with a host of its own, and the
\* host is none or one of them.
LEMMA InitRivets ==
  ASSUME Init
  PROVE  RivetInv /\ Abstract!Init
<1>1. PICK firstRivet \in Device, host_ \in Device \cup {ZERO}, named, keyed \in BOOLEAN :
        LET others == IF host_ \in {ZERO, firstRivet} THEN {} ELSE {host_}
            name(kind, s, k) == named /\ kind = "public" /\ s = PROFILE_SECTION /\ k = NameKey
        IN
        /\ authorizedRivets = IF others = {} THEN <<firstRivet>> ELSE <<firstRivet, host_>>
        /\ isAuthorized = [a \in Address |-> a \in {firstRivet} \cup others]
        /\ rivetActive = isAuthorized
        /\ rivetCount = Len(authorizedRivets)
        /\ host = IF others = {} THEN ZERO ELSE host_
        /\ hasPublicKey = [a \in Address |-> keyed /\ a = firstRivet]
        /\ removeRivetThreshold = 1
        /\ messageCount = 0
        /\ acl = [s \in Section |-> <<>>]
        /\ aclIndex = [s \in Section |-> [a \in Address |-> 0]]
        /\ memberships = [a \in Address |-> <<>>]
        /\ sectionNames = IF named THEN <<PROFILE_SECTION>> ELSE <<>>
        /\ sectionSeen = [s \in Section |-> named /\ s = PROFILE_SECTION]
        /\ keyList = [kind \in Access!Kind |-> [s \in Section |->
                        IF name(kind, s, NameKey) THEN <<NameKey>> ELSE <<>>]]
        /\ keySeen = [kind \in Access!Kind |-> [s \in Section |->
                        [k \in Key |-> name(kind, s, k)]]]
        /\ invites = [c \in {} |-> 0]
  BY Zenon DEF Init
<1> DEFINE others == IF host_ \in {ZERO, firstRivet} THEN {} ELSE {host_}
<1>2. /\ firstRivet \in Address \ {ZERO, DEFAULT_MEMBER, Self}
      /\ others \subseteq Address \ {ZERO, DEFAULT_MEMBER, Self, firstRivet}
      /\ host_ \in Address
  BY <1>1, IdentityAssumption DEF Device
<1>3. Rivets = {firstRivet} \cup others
  BY <1>1, <1>2, RivetsAreAuthorized
<1>4. CASE others = {}
  <2>1. authorizedRivets = <<firstRivet>> /\ host = ZERO /\ Rivets = {firstRivet}
    BY <1>1, <1>3, <1>4
  <2>2. /\ authorizedRivets \in Seq(Address)
        /\ Len(authorizedRivets) = 1 /\ authorizedRivets[1] = firstRivet
    BY <2>1, <1>2
  <2>3. FlagsInv
    BY <1>1, <1>2, <2>1, <2>2 DEF FlagsInv
  <2>4. CountInv
    BY <1>1, <2>1, <2>2, FS_Singleton DEF CountInv
  <2>5. ReferenceInv
    BY <1>1, <1>2, <2>1, IdentityAssumption
       DEF ReferenceInv, HostNeverDangles, KeysOnlyOfStewards, Stewards
  <2>6. Abstract!Init
    <3>1. PICK backup \in {ZERO, firstRivet} : host_ = backup
      BY <1>4
    <3>2. /\ Rivets = {firstRivet, backup} \ {ZERO}
          /\ host = IF backup = firstRivet THEN ZERO ELSE backup
      BY <3>1, <2>1, <1>2
    <3> QED
      BY <3>1, <3>2, <1>2 DEF Abstract!Init, Abstract!Device
  <2> QED
    BY <1>1, <2>3, <2>4, <2>5, <2>6 DEF RivetInv, CounterTypes
<1>5. CASE others # {}
  <2>1. /\ authorizedRivets = <<firstRivet, host_>> /\ host = host_
        /\ host_ \notin {ZERO, firstRivet} /\ others = {host_}
        /\ Rivets = {firstRivet} \cup {host_}
    BY <1>1, <1>3, <1>5
  <2>2. /\ authorizedRivets \in Seq(Address)
        /\ Len(authorizedRivets) = 2
        /\ authorizedRivets[1] = firstRivet /\ authorizedRivets[2] = host_
    BY <2>1, <1>2
  <2>3. FlagsInv
    BY <1>1, <1>2, <2>1, <2>2 DEF FlagsInv
  <2>4. CountInv
    <3>1. IsFiniteSet({firstRivet}) /\ Cardinality({firstRivet}) = 1
      BY FS_Singleton
    <3>2. IsFiniteSet(Rivets) /\ Cardinality(Rivets) = 2
      BY <3>1, <2>1, FS_AddElement
    <3> QED
      BY <1>1, <2>1, <2>2, <3>2 DEF CountInv
  <2>5. ReferenceInv
    BY <1>1, <1>2, <2>1, IdentityAssumption
       DEF ReferenceInv, HostNeverDangles, KeysOnlyOfStewards, Stewards
  <2>6. Abstract!Init
    <3>1. /\ Rivets = {firstRivet, host_} \ {ZERO}
          /\ host = IF host_ = firstRivet THEN ZERO ELSE host_
      BY <2>1, <1>2
    <3> QED
      BY <3>1, <1>2, <2>1 DEF Abstract!Init, Abstract!Device
  <2> QED
    BY <1>1, <2>3, <2>4, <2>5, <2>6 DEF RivetInv, CounterTypes
<1> QED
  BY <1>4, <1>5

\* The constructor leaves the inherited storage empty, or with the display
\* name as the one attribute of the profile section.
LEMMA InitStorage ==
  ASSUME Init
  PROVE  Inherited!StorageInv
<1>1. PICK named \in BOOLEAN :
        /\ acl = [s \in Section |-> <<>>]
        /\ aclIndex = [s \in Section |-> [a \in Address |-> 0]]
        /\ memberships = [a \in Address |-> <<>>]
        /\ sectionNames = IF named THEN <<PROFILE_SECTION>> ELSE <<>>
        /\ sectionSeen = [s \in Section |-> named /\ s = PROFILE_SECTION]
        /\ keyList = [kind \in Access!Kind |-> [s \in Section |->
             IF named /\ kind = "public" /\ s = PROFILE_SECTION /\ NameKey = NameKey
               THEN <<NameKey>> ELSE <<>>]]
        /\ keySeen = [kind \in Access!Kind |-> [s \in Section |-> [k \in Key |->
             named /\ kind = "public" /\ s = PROFILE_SECTION /\ k = NameKey]]]
        /\ invites = [c \in {} |-> 0]
  BY DEF Init
<1>2. Inherited!Kind = {"public", "secret"} /\ Access!Kind = {"public", "secret"}
  BY DEF Inherited!Kind, Access!Kind
<1>3. /\ \A S : <<>> \in Seq(S)
      /\ <<>> \in Seq(Section)
      /\ Len(<<>>) = 0 /\ 1 .. 0 = {}
      /\ <<PROFILE_SECTION>> \in Seq(Section) /\ <<NameKey>> \in Seq(Key)
      /\ Len(<<PROFILE_SECTION>>) = 1 /\ <<PROFILE_SECTION>>[1] = PROFILE_SECTION
      /\ Len(<<NameKey>>) = 1 /\ <<NameKey>>[1] = NameKey
  BY IdentityAssumption
<1>4. Inherited!ListInv
  BY <1>1, <1>3 DEF Inherited!ListInv, Inherited!ListTypes, Inherited!IndexMatchesList,
                    Inherited!MembershipsMirrorACL
<1>5. Inherited!CatalogueTypes /\ Inherited!SectionsListedOnce
  <2>1. /\ sectionNames \in Seq(Section) /\ sectionSeen \in [Section -> BOOLEAN]
        /\ \A s \in Section : sectionSeen[s] <=> (named /\ s = PROFILE_SECTION)
    BY <1>1, <1>3
  <2>2. CASE named
    <3>1. Len(sectionNames) = 1 /\ sectionNames[1] = PROFILE_SECTION
      BY <1>1, <1>3, <2>2
    <3> QED
      BY <2>1, <2>2, <3>1 DEF Inherited!CatalogueTypes, Inherited!SectionsListedOnce
  <2>3. CASE ~named
    <3>1. Len(sectionNames) = 0
      BY <1>1, <1>3, <2>3
    <3> QED
      BY <2>1, <2>3, <3>1 DEF Inherited!CatalogueTypes, Inherited!SectionsListedOnce
  <2> QED
    BY <2>2, <2>3
<1>6. Inherited!KeyTypes
  BY <1>1, <1>2, <1>3 DEF Inherited!KeyTypes
<1>7. ASSUME NEW kind \in Inherited!Kind, NEW s \in Section
      PROVE  \/ /\ keyList[kind][s] = <<>>
                /\ \A k \in Key : ~keySeen[kind][s][k]
             \/ /\ named /\ s = PROFILE_SECTION
                /\ keyList[kind][s] = <<NameKey>>
                /\ \A k \in Key : keySeen[kind][s][k] <=> k = NameKey
  BY <1>1, <1>2
<1>8. Inherited!AttributesEnumerable
  <2> SUFFICES ASSUME NEW kind \in Inherited!Kind, NEW s \in Section
               PROVE  /\ \A k \in Key :
                           keySeen[kind][s][k] <=>
                             \E i \in 1 .. Len(keyList[kind][s]) : keyList[kind][s][i] = k
                      /\ \A i, j \in 1 .. Len(keyList[kind][s]) :
                           keyList[kind][s][i] = keyList[kind][s][j] => i = j
    BY DEF Inherited!AttributesEnumerable
  <2> QED
    BY <1>3, <1>7
<1>9. Inherited!InviteTypes
  BY <1>1 DEF Inherited!InviteTypes
<1>10. \A s \in Section : Inherited!HoldsSomething(s) => sectionSeen[s]
  BY <1>1, <1>7 DEF Inherited!HoldsSomething
<1> QED
  BY <1>4, <1>5, <1>6, <1>8, <1>9, <1>10
     DEF Inherited!StorageInv, Inherited!SectionsCatalogued

-----------------------------------------------------------------------------
(***************************************************************************)
(* The calls of the identity's own functions.  Each keeps RivetInv and is  *)
(* a step of IdentitySpec or changes nothing that it sees.                 *)
(***************************************************************************)

\* addRivet: one more rivet, counted and listed, that is neither sentinel.
LEMMA AddRivetStep ==
  ASSUME RivetInv, NEW sender \in Sender, NEW rivet \in RivetInput,
         AddRivet(sender, rivet)
  PROVE  RivetInv' /\ Abstract!Enrol
<1>1. /\ rivet \in Address \ {DEFAULT_MEMBER, ZERO}
      /\ Device \cap Rivets # {}
  BY SenderIsBacked, IdentityAssumption DEF AddRivet
<1>2. isAuthorized' = rivetActive'
  BY DEF AddRivet, RivetInv, FlagsInv
<1>3. Rivets' = Rivets \cup {rivet} /\ rivet \notin Rivets
  <2>1. Rivets = {a \in Address : isAuthorized[a]}
    BY RivetsAreAuthorized DEF RivetInv, FlagsInv
  <2>2. Rivets' = {a \in Address : isAuthorized'[a]}
    BY <1>2 DEF Rivets, IsRivet
  <2> QED
    BY <1>1, <2>1, <2>2 DEF AddRivet, RivetInv, FlagsInv
<1>4. CountInv'
  BY <1>3, FS_AddElement DEF AddRivet, RivetInv, CountInv
<1>5. FlagsInv'
  <2>1. /\ Append(authorizedRivets, rivet) \in Seq(Address)
        /\ Len(Append(authorizedRivets, rivet)) = Len(authorizedRivets) + 1
        /\ \A i \in 1 .. Len(authorizedRivets) :
             Append(authorizedRivets, rivet)[i] = authorizedRivets[i]
        /\ Append(authorizedRivets, rivet)[Len(authorizedRivets) + 1] = rivet
    BY <1>1, AppendProperties DEF RivetInv, FlagsInv
  <2>2. Len(authorizedRivets) \in Nat
    BY LenProperties DEF RivetInv, FlagsInv
  <2>3. \A a \in Rivets' :
          \E i \in 1 .. Len(authorizedRivets') : authorizedRivets'[i] = a
    BY <1>3, <2>1, <2>2 DEF AddRivet, RivetInv, FlagsInv
  <2>4. isAuthorized' \in [Address -> BOOLEAN]
    BY DEF AddRivet, RivetInv, FlagsInv
  <2> QED
    BY <1>1, <1>2, <1>3, <2>1, <2>3, <2>4 DEF AddRivet, RivetInv, FlagsInv
<1>6. ReferenceInv'
  BY <1>3 DEF AddRivet, RivetInv, ReferenceInv, HostNeverDangles, KeysOnlyOfStewards, Stewards
<1>7. CounterTypes'
  BY DEF AddRivet, RivetInv, CounterTypes
<1>8. Abstract!Enrol
  BY <1>1, <1>3, IdentityAssumption
     DEF AddRivet, Abstract!Enrol, Abstract!DeviceActs, Abstract!Device, Device
<1> QED
  BY <1>4, <1>5, <1>6, <1>7, <1>8 DEF RivetInv

\* removeRivet: one rivet fewer, never none, and whatever named it forgets it.
LEMMA RemoveRivetStep ==
  ASSUME RivetInv, NEW sender \in Sender, NEW rivet \in Address,
         RemoveRivet(sender, rivet)
  PROVE  RivetInv' /\ Abstract!Dismiss
<1>1. Device \cap Rivets # {}
  BY SenderIsBacked DEF RemoveRivet
<1>2. isAuthorized' = rivetActive'
  BY DEF RemoveRivet, Deactivate, RivetInv, FlagsInv
<1>3. Rivets' = Rivets \ {rivet} /\ rivet \in Rivets
  <2>1. Rivets = {a \in Address : isAuthorized[a]}
    BY RivetsAreAuthorized DEF RivetInv, FlagsInv
  <2>2. Rivets' = {a \in Address : isAuthorized'[a]}
    BY <1>2 DEF Rivets, IsRivet
  <2> QED
    BY <2>1, <2>2 DEF RemoveRivet, Deactivate, RivetInv, FlagsInv
<1>4. CountInv'
  <2>1. /\ IsFiniteSet(Rivets')
        /\ Cardinality(Rivets') = rivetCount'
    BY <1>3, FS_RemoveElement DEF RemoveRivet, Deactivate, RivetInv, CountInv
  <2>2. rivetCount' # 0
    BY CountPositive DEF RemoveRivet, Deactivate, NotLastRivet, RivetInv
  <2> QED
    BY <2>1, <2>2, FS_EmptySet DEF CountInv
<1>5. FlagsInv'
  BY <1>2, <1>3 DEF RemoveRivet, Deactivate, RivetInv, FlagsInv
<1>6. ReferenceInv'
  BY <1>3, IdentityAssumption
     DEF RemoveRivet, DeletePublicKey, ClearHost, RivetInv, ReferenceInv,
         HostNeverDangles, KeysOnlyOfStewards, Stewards
<1>7. CounterTypes'
  BY DEF RemoveRivet, RivetInv, CounterTypes
<1>8. Abstract!Dismiss
  BY <1>1, <1>3, <1>4, IdentityAssumption
     DEF RemoveRivet, ClearHost, CountInv, Abstract!Dismiss, Abstract!DeviceActs,
         Abstract!Device, Device
<1> QED
  BY <1>4, <1>5, <1>6, <1>7, <1>8 DEF RivetInv

\* A step that leaves the rivets alone keeps what is said of them.
LEMMA UnchangedRivets ==
  ASSUME RivetInv, UNCHANGED rivetVars
  PROVE  FlagsInv' /\ CountInv' /\ Rivets' = Rivets /\ Stewards' = Stewards
<1>1. UNCHANGED <<authorizedRivets, isAuthorized, rivetActive, rivetCount>>
  BY DEF rivetVars
<1>2. Rivets' = Rivets /\ Stewards' = Stewards
  BY <1>1 DEF Rivets, IsRivet, Stewards
<1> QED
  BY <1>1, <1>2 DEF RivetInv, FlagsInv, CountInv

\* designateHost: the host is none or a steward.
LEMMA DesignateHostStep ==
  ASSUME RivetInv, NEW sender \in Sender, NEW newHost \in Address,
         DesignateHost(sender, newHost)
  PROVE  RivetInv' /\ Abstract!Designate
<1>1. /\ FlagsInv' /\ CountInv' /\ Rivets' = Rivets /\ Stewards' = Stewards
      /\ Device \cap Rivets # {}
  BY UnchangedRivets, SenderIsBacked DEF DesignateHost
<1>2. ReferenceInv' /\ CounterTypes'
  BY <1>1 DEF DesignateHost, RivetInv, ReferenceInv, CounterTypes, HostNeverDangles,
              KeysOnlyOfStewards
<1>3. Abstract!Designate
  BY <1>1, IdentityAssumption
     DEF DesignateHost, Stewards, Abstract!Designate, Abstract!DeviceActs,
         Abstract!Device, Device
<1> QED
  BY <1>1, <1>2, <1>3 DEF RivetInv

\* The calls that touch neither the rivets nor the host: a threshold within
\* range, the sender's own key, a message.
LEMMA OtherCallStep ==
  ASSUME RivetInv, NEW sender \in Sender,
         \/ \E n \in 0 .. rivetCount + 1 : SetRemoveRivetThreshold(sender, n)
         \/ \E present \in BOOLEAN : SetPublicKey(sender, present)
         \/ ReceiveMessage
  PROVE  RivetInv' /\ UNCHANGED Abstract!vars
<1>1. /\ FlagsInv' /\ CountInv' /\ Rivets' = Rivets /\ Stewards' = Stewards
      /\ UNCHANGED host
  BY UnchangedRivets DEF SetRemoveRivetThreshold, SetPublicKey, ReceiveMessage
<1>2. CounterTypes'
  BY DEF SetRemoveRivetThreshold, SetPublicKey, ReceiveMessage, RivetInv, CounterTypes
<1>3. /\ hasPublicKey' \in [Address -> BOOLEAN]
      /\ \A a \in Address : hasPublicKey'[a] => hasPublicKey[a] \/ a \in Stewards
  BY DEF SetRemoveRivetThreshold, SetPublicKey, ReceiveMessage, RivetInv, ReferenceInv
<1>4. ReferenceInv'
  BY <1>1, <1>3 DEF RivetInv, ReferenceInv, HostNeverDangles, KeysOnlyOfStewards
<1> QED
  BY <1>1, <1>2, <1>4 DEF RivetInv, Abstract!vars

LEMMA IdentityCallStep ==
  ASSUME RivetInv, NEW sender \in Sender, IdentityCall(sender)
  PROVE  RivetInv' /\ [Abstract!Next]_(Abstract!vars)
<1>1. CASE \E rivet \in RivetInput : AddRivet(sender, rivet)
  BY <1>1, AddRivetStep DEF Abstract!Next
<1>2. CASE \E rivet \in Address : RemoveRivet(sender, rivet)
  BY <1>2, RemoveRivetStep DEF Abstract!Next
<1>3. CASE \E newHost \in Address : DesignateHost(sender, newHost)
  BY <1>3, DesignateHostStep DEF Abstract!Next
<1>4. CASE \/ \E n \in 0 .. rivetCount + 1 : SetRemoveRivetThreshold(sender, n)
           \/ \E present \in BOOLEAN : SetPublicKey(sender, present)
           \/ ReceiveMessage
  BY <1>4, OtherCallStep
<1> QED
  BY <1>1, <1>2, <1>3, <1>4 DEF IdentityCall

-----------------------------------------------------------------------------
(***************************************************************************)
(* The calls of the inherited functions, and the whole step.               *)
(***************************************************************************)

\* IdentityContract and the theorems about EpisteryAccess name the same calls.
LEMMA SameCall ==
  ASSUME NEW sender, Access!Call(sender)
  PROVE  Inherited!Call(sender)
<1> USE DEF Access!CanManage, Access!RoleOf, Access!Listed, Access!TrackSection,
            Access!Enroll, Access!Reassign, Access!UpdatedMembershipRole,
            Access!IsFirstFor, Access!ROLE_NONE, Access!ROLE_ADMIN, Access!ROLE_OWNER,
            Access!aclVars, Access!sectionVars, Access!keyVars,
            Inherited!CanManage, Inherited!RoleOf, Inherited!Listed,
            Inherited!TrackSection, Inherited!Enroll, Inherited!Reassign,
            Inherited!UpdatedMembershipRole, Inherited!IsFirstFor,
            Inherited!ROLE_NONE, Inherited!ROLE_ADMIN, Inherited!ROLE_OWNER,
            Inherited!aclVars, Inherited!sectionVars, Inherited!keyVars
<1>1. ASSUME NEW s \in Section, NEW a \in Address, NEW r \in RoleInput,
             Access!SetMember(sender, s, a, r)
      PROVE  Inherited!SetMember(sender, s, a, r)
  BY <1>1 DEF Access!SetMember, Inherited!SetMember
<1>2. ASSUME NEW s \in Section, NEW a \in Address, Access!RemoveMember(sender, s, a)
      PROVE  Inherited!RemoveMember(sender, s, a)
  BY <1>2 DEF Access!RemoveMember, Access!SwapPop, Access!Reindexed,
              Access!RemovedMembership, Inherited!RemoveMember, Inherited!SwapPop,
              Inherited!Reindexed, Inherited!RemovedMembership
<1>3. ASSUME NEW kind \in Access!Kind, NEW s \in Section, NEW k \in Key,
             Access!SetAttribute(sender, kind, s, k)
      PROVE  Inherited!SetAttribute(sender, kind, s, k) /\ kind \in Inherited!Kind
  BY <1>3 DEF Access!SetAttribute, Access!WriteAttribute, Access!Kind,
              Inherited!SetAttribute, Inherited!WriteAttribute, Inherited!Kind
<1>4. ASSUME NEW c \in Code, NEW s \in Section, NEW r \in RoleInput,
             Access!CreateInvite(sender, c, s, r)
      PROVE  Inherited!CreateInvite(sender, c, s, r)
  BY <1>4 DEF Access!CreateInvite, Access!WithInvite, Inherited!CreateInvite,
              Inherited!WithInvite
<1>5. ASSUME NEW c \in Code, NEW a \in Address, Access!RedeemInvite(c, a)
      PROVE  Inherited!RedeemInvite(c, a)
  BY <1>5 DEF Access!RedeemInvite, Inherited!RedeemInvite
<1> QED
  BY <1>1, <1>2, <1>3, <1>4, <1>5 DEF Access!Call, Inherited!Call

\* A step that leaves the identity's own storage alone keeps RivetInv.
LEMMA UnchangedIdentity ==
  ASSUME RivetInv, UNCHANGED identityVars
  PROVE  RivetInv' /\ UNCHANGED Abstract!vars
<1>1. UNCHANGED <<rivetVars, host, hasPublicKey, removeRivetThreshold, messageCount>>
  BY DEF identityVars
<1>2. FlagsInv' /\ CountInv' /\ Rivets' = Rivets /\ Stewards' = Stewards
  BY <1>1, UnchangedRivets
<1>3. ReferenceInv' /\ CounterTypes'
  BY <1>1, <1>2 DEF RivetInv, ReferenceInv, CounterTypes, HostNeverDangles,
                    KeysOnlyOfStewards
<1> QED
  BY <1>1, <1>2, <1>3 DEF RivetInv, Abstract!vars

\* Adding, removing or designating a device leaves the sections alone.
LEMMA UnchangedSections ==
  ASSUME Inherited!StorageInv, UNCHANGED accessVars
  PROVE  Inherited!StorageInv'
<1>1. UNCHANGED Inherited!accessVars
  BY DEF accessVars, Inherited!accessVars, Inherited!aclVars, Inherited!sectionVars,
         Inherited!keyVars
<1> QED
  BY <1>1, Inherited!UnchangedStorage, InheritedAssumptions

LEMMA IdentityStep ==
  ASSUME IdentityInv, [Next]_vars
  PROVE  IdentityInv' /\ [Abstract!Next]_(Abstract!vars)
<1>1. ASSUME NEW sender \in Sender, IdentityCall(sender), UNCHANGED accessVars
      PROVE  IdentityInv' /\ [Abstract!Next]_(Abstract!vars)
  BY <1>1, IdentityCallStep, UnchangedSections DEF IdentityInv
<1>2. ASSUME NEW sender \in Sender, Access!Call(sender), UNCHANGED identityVars
      PROVE  IdentityInv' /\ [Abstract!Next]_(Abstract!vars)
  <2>1. Inherited!StorageInv'
    BY <1>2, SameCall, SenderIsBacked, Inherited!CallStep, InheritedAssumptions
       DEF IdentityInv
  <2> QED
    BY <1>2, <2>1, UnchangedIdentity DEF IdentityInv
<1>3. CASE UNCHANGED vars
  BY <1>3, UnchangedIdentity, UnchangedSections DEF IdentityInv, vars
<1> QED
  BY <1>1, <1>2, <1>3 DEF Next

-----------------------------------------------------------------------------
(***************************************************************************)
(* The theorems.                                                           *)
(***************************************************************************)

\* The constructor establishes, and every transaction of every sender keeps,
\* what is said of the devices and of the sections.
THEOREM IdentityIsConsistent == Spec => []IdentityInv
<1>1. Init => IdentityInv
  BY InitRivets, InitStorage DEF IdentityInv
<1>2. IdentityInv /\ [Next]_vars => IdentityInv'
  BY IdentityStep
<1> QED
  BY <1>1, <1>2, PTL DEF Spec

\* Every variable keeps its type; no sentinel ever becomes a steward.
THEOREM IdentityTypesCorrect == Spec => []TypeOK
<1>1. IdentityInv => TypeOK
  <2> SUFFICES ASSUME IdentityInv PROVE TypeOK
    OBVIOUS
  <2>1. Stewards \subseteq Inherited!Caller
    BY StewardsCanCall DEF IdentityInv, RivetInv
  <2>2. Access!TypeOK
    BY <2>1 DEF IdentityInv, Access!TypeOK, Access!ACLEntry, Access!Membership,
       Access!Invite, Access!Role, Access!Kind, Access!Caller, Access!ROLE_NONE,
       Access!ROLE_OWNER, Inherited!StorageInv, Inherited!ListInv,
       Inherited!ListTypes, Inherited!CatalogueTypes, Inherited!KeyTypes,
       Inherited!InviteTypes, Inherited!ACLEntry, Inherited!Membership,
       Inherited!Invite, Inherited!Role, Inherited!Kind, Inherited!Caller,
       Inherited!ROLE_NONE, Inherited!ROLE_OWNER
  <2>3. rivetCount \in Nat
    BY CountPositive DEF IdentityInv, RivetInv
  <2> QED
    BY <2>2, <2>3 DEF IdentityInv, RivetInv, CounterTypes, FlagsInv, ReferenceInv, TypeOK
<1> QED
  BY <1>1, IdentityIsConsistent, PTL

\* A list that has as many active entries as there are rivets, or fewer, and
\* has every rivet, repeats none.
LEMMA ActiveSlotsExact ==
  ASSUME FlagsInv, CountInv
  PROVE  /\ \A a \in Rivets : \E i \in ActiveSlots : authorizedRivets[i] = a
         /\ GetRivetsReturns =>
              \A i, j \in ActiveSlots : authorizedRivets[i] = authorizedRivets[j] => i = j
<1> DEFINE slot == [i \in ActiveSlots |-> authorizedRivets[i]]
<1>1. Len(authorizedRivets) \in Nat /\ IsFiniteSet(ActiveSlots)
  <2>1. Len(authorizedRivets) \in Nat
    BY LenProperties DEF FlagsInv
  <2>2. IsFiniteSet(1 .. Len(authorizedRivets))
    BY <2>1, FS_Interval
  <2>3. ActiveSlots \subseteq 1 .. Len(authorizedRivets)
    BY DEF ActiveSlots
  <2> QED
    BY <2>1, <2>2, <2>3, FS_Subset
<1>2. \A a \in Rivets : \E i \in ActiveSlots : authorizedRivets[i] = a
  BY DEF FlagsInv, ActiveSlots, Rivets
<1>3. slot \in Surjection(ActiveSlots, Rivets)
  <2>1. \A i \in ActiveSlots : authorizedRivets[i] \in Rivets
    BY <1>1, ElementOfSeq DEF FlagsInv, ActiveSlots, Rivets
  <2> QED
    BY <1>2, <2>1 DEF Surjection
<1>4. ASSUME GetRivetsReturns, NEW i \in ActiveSlots, NEW j \in ActiveSlots,
             authorizedRivets[i] = authorizedRivets[j]
      PROVE  i = j
  <2>1. /\ Cardinality(Rivets) <= Cardinality(ActiveSlots)
        /\ Cardinality(Rivets) = Cardinality(ActiveSlots) =>
             slot \in Injection(ActiveSlots, Rivets)
    <3> HIDE DEF slot
    <3> QED
      BY <1>1, <1>3, FS_Surjection
  <2>2. Cardinality(ActiveSlots) \in Nat /\ Cardinality(Rivets) \in Nat
    BY <1>1, FS_CardinalityType DEF CountInv
  <2>3. Cardinality(Rivets) = Cardinality(ActiveSlots)
    BY <1>4, <2>1, <2>2 DEF GetRivetsReturns, CountInv
  <2>4. slot[i] = slot[j] /\ i \in DOMAIN slot /\ j \in DOMAIN slot
    BY <1>4
  <2> HIDE DEF slot
  <2> QED
    BY <2>1, <2>3, <2>4 DEF Injection, IsInjective
<1> QED
  BY <1>2, <1>4

\* The counter removeRivet compares with one counts exactly the devices that
\* can act; getRivets can find each of them, and finds each once if it returns.
THEOREM RivetsAlwaysCounted == Spec => []RivetCountExact
<1>1. IdentityInv => RivetCountExact
  BY ActiveSlotsExact DEF IdentityInv, RivetInv, FlagsInv, CountInv, RivetCountExact
<1> QED
  BY <1>1, IdentityIsConsistent, PTL

\* No sequence of calls removes the last rivet ("cannot remove last rivet").
THEOREM AlwaysARivet == Spec => []NeverWithoutRivet
<1>1. IdentityInv => NeverWithoutRivet
  BY DEF IdentityInv, RivetInv, CountInv, NeverWithoutRivet
<1> QED
  BY <1>1, IdentityIsConsistent, PTL

\* A removed recovery signer is no longer the host, whoever removes it.
THEOREM HostAlwaysASteward == Spec => []HostNeverDangles
<1>1. IdentityInv => HostNeverDangles
  BY DEF IdentityInv, RivetInv, ReferenceInv
<1> QED
  BY <1>1, IdentityIsConsistent, PTL

\* rivetPublicKeys offers no key of a device that was removed.
THEOREM KeysAlwaysOfStewards == Spec => []KeysOnlyOfStewards
<1>1. IdentityInv => KeysOnlyOfStewards
  BY DEF IdentityInv, RivetInv, ReferenceInv
<1> QED
  BY <1>1, IdentityIsConsistent, PTL

\* Without a device among the rivets nobody is a steward who can send: the
\* devices, the host, the keys and the threshold stay as they are for good.
THEOREM OrphanedStaysFrozen == Spec => OrphanedIsFrozen
<1>1. ASSUME IdentityInv, [Next]_vars, Device \cap Rivets = {}
      PROVE  UNCHANGED <<rivetVars, host, hasPublicKey, removeRivetThreshold>>
  <2>1. ASSUME NEW sender \in Sender, IdentityCall(sender)
        PROVE  UNCHANGED <<rivetVars, host, hasPublicKey, removeRivetThreshold>>
    <3>1. sender \notin Stewards
      BY <1>1, SenderIsBacked
    <3> QED
      BY <2>1, <3>1 DEF IdentityCall, AddRivet, RemoveRivet, DesignateHost,
                        SetRemoveRivetThreshold, SetPublicKey, ReceiveMessage
  <2> QED
    BY <1>1, <2>1 DEF Next, vars, identityVars
<1>2. IdentityInv /\ [Next]_vars =>
        [Device \cap Rivets = {} =>
           UNCHANGED <<rivetVars, host, hasPublicKey, removeRivetThreshold>>]_vars
  BY <1>1
<1> QED
  BY <1>2, IdentityIsConsistent, PTL DEF Spec, OrphanedIsFrozen

\* The display name the constructor seeds, and every later attribute, is
\* listed once.
THEOREM NameAlwaysEnumerable == Spec => []AttributesEnumerable
<1>1. IdentityInv => AttributesEnumerable
  BY DEF IdentityInv, Inherited!StorageInv, AttributesEnumerable,
         Access!AttributesEnumerable, Inherited!AttributesEnumerable,
         Access!Kind, Inherited!Kind
<1> QED
  BY <1>1, IdentityIsConsistent, PTL

\* The arrays, flags and counters implement the plain set of rivets: every
\* transaction enrols one, dismisses one, designates a host, or does not
\* concern the set.
THEOREM IdentityImplemented == Spec => ImplementsIdentitySpec
<1>1. Init => Abstract!Init
  BY InitRivets
<1>2. IdentityInv /\ [Next]_vars => [Abstract!Next]_(Abstract!vars)
  BY IdentityStep
<1> QED
  BY <1>1, <1>2, IdentityIsConsistent, PTL DEF Spec, ImplementsIdentitySpec, Abstract!Spec

=============================================================================
