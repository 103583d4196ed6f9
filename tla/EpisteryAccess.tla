--------------------------- MODULE EpisteryAccess ---------------------------
(***************************************************************************)
(* contracts/EpisteryAccess.sol: sections, their access lists, attributes  *)
(* and invites, as the contract stores them.  The access list of a section *)
(* is an array with a 1-based index beside it (0 = absent), and every      *)
(* address has an array of its memberships: three copies of one relation,  *)
(* kept in step by swap-and-pop removals.                                  *)
(*                                                                         *)
(* A transaction is atomic, so an action is one external call; a reverted  *)
(* call changes nothing and is a disabled action.  Member names, entry     *)
(* meta data, attribute values and the issuer of an invite are data that   *)
(* no rule looks at (of the issuer, only whether there is one).            *)
(***************************************************************************)
EXTENDS Naturals, Sequences, FiniteSets

CONSTANTS
  Address,         \* every address that occurs, the two sentinels included
  DEFAULT_MEMBER,  \* 0xDEFA0117, the entry every unlisted address falls back to
  ZERO,            \* address(0)
  Section,         \* section names
  Key,             \* attribute keys
  Code,            \* hashes of invite codes
  RoleInput        \* the uint8 roles callers pass, valid or not

ASSUME AddressAssumption ==
  /\ DEFAULT_MEMBER \in Address
  /\ ZERO \in Address
  /\ DEFAULT_MEMBER # ZERO

ASSUME RoleInputAssumption == RoleInput \subseteq 0 .. 255

VARIABLES
  acl,           \* [Section -> Seq(ACLEntry)]                      _acl
  aclIndex,      \* [Section -> [Address -> Nat]], index+1, 0 none  _aclIndex
  memberships,   \* [Address -> Seq(Membership)]                    _memberships
  sectionNames,  \* Seq(Section)                                    _sectionNames
  sectionSeen,   \* [Section -> BOOLEAN]                            _sectionSeen
  keyList,       \* [Kind -> [Section -> Seq(Key)]]       _public/_secretKeyList
  keySeen,       \* [Kind -> [Section -> [Key -> BOOLEAN]]]    _..KeySeen
  invites,       \* codeHash -> Invite, for the codes that have an issuer
  stewards       \* the addresses for which _isSteward answers true

aclVars     == <<acl, aclIndex, memberships>>
sectionVars == <<sectionNames, sectionSeen>>
keyVars     == <<keyList, keySeen>>
accessVars  == <<aclVars, sectionVars, keyVars, invites>>
vars        == <<accessVars, stewards>>

ROLE_NONE  == 0
ROLE_READ  == 1
ROLE_ADMIN == 3
ROLE_OWNER == 4
Role       == ROLE_NONE .. ROLE_OWNER

\* A section's attributes come in two kinds with the same bookkeeping.
Kind == {"public", "secret"}

ACLEntry   == [addr : Address \ {ZERO}, role : Role \ {ROLE_NONE}]
Membership == [section : Section, role : Role \ {ROLE_NONE}]

\* Who can sign a transaction: neither sentinel has a key.
Caller == Address \ {ZERO, DEFAULT_MEMBER}

Invite == [section : Section, role : Role \ {ROLE_NONE}, used : BOOLEAN]

TypeOK ==
  /\ acl \in [Section -> Seq(ACLEntry)]
  /\ aclIndex \in [Section -> [Address -> Nat]]
  /\ memberships \in [Address -> Seq(Membership)]
  /\ sectionNames \in Seq(Section)
  /\ sectionSeen \in [Section -> BOOLEAN]
  /\ keyList \in [Kind -> [Section -> Seq(Key)]]
  /\ keySeen \in [Kind -> [Section -> [Key -> BOOLEAN]]]
  /\ DOMAIN invites \subseteq Code
  /\ \A c \in DOMAIN invites : invites[c] \in Invite
  /\ stewards \subseteq Caller

-----------------------------------------------------------------------------
(***************************************************************************)
(* Queries.                                                                *)
(***************************************************************************)

\* The role the access list of s itself holds for a.
Listed(s, a) ==
  IF aclIndex[s][a] = 0 THEN ROLE_NONE ELSE acl[s][aclIndex[s][a]].role

\* The relation the three copies stand for.
Grants == [s \in Section |-> [a \in Address |-> Listed(s, a)]]

\* roleOf: stewards own, the listed have their entry, the rest the default.
RoleOf(s, who) ==
  IF who \in stewards THEN ROLE_OWNER
  ELSE IF aclIndex[s][who] # 0 THEN acl[s][aclIndex[s][who]].role
  ELSE Listed(s, DEFAULT_MEMBER)

\* authorized, the question relays and plugins ask.
Authorized(s, who, minRole) == minRole # ROLE_NONE /\ RoleOf(s, who) >= minRole

\* _canManage
CanManage(s, who) == RoleOf(s, who) >= ROLE_ADMIN

-----------------------------------------------------------------------------
(***************************************************************************)
(* Storage helpers.                                                        *)
(***************************************************************************)

\* Solidity's removal from an array: the last element takes the place of the
\* i-th, and the array gets one shorter.
SwapPop(seq, i) ==
  [j \in 1 .. Len(seq) - 1 |-> IF j = i THEN seq[Len(seq)] ELSE seq[j]]

\* The first element of an address's memberships that is for section s.
IsFirstFor(m, s, i) ==
  /\ i \in 1 .. Len(m)
  /\ m[i].section = s
  /\ \A j \in 1 .. i - 1 : m[j].section # s

\* Mutant: the section is pushed again by every call.
TrackSectionAlways(s) ==
  /\ sectionSeen' = [sectionSeen EXCEPT ![s] = TRUE]
  /\ sectionNames' = Append(sectionNames, s)

\* _trackSection
TrackSection(s) ==
  /\ sectionSeen' = [sectionSeen EXCEPT ![s] = TRUE]
  /\ sectionNames' = IF sectionSeen[s] THEN sectionNames
                                       ELSE Append(sectionNames, s)

\* _updateMembershipRole: the loop stops at the first match, and does nothing
\* without one.
UpdatedMembershipRole(m, s, r) ==
  [i \in 1 .. Len(m) |->
     IF IsFirstFor(m, s, i) THEN [m[i] EXCEPT !.role = r] ELSE m[i]]

\* _removeMembership
RemovedMembership(m, s) ==
  IF \E i \in 1 .. Len(m) : m[i].section = s
    THEN SwapPop(m, CHOOSE i \in 1 .. Len(m) : IsFirstFor(m, s, i))
    ELSE m

\* The branch of setMember and redeemInvite for an address that is not listed.
Enroll(s, a, r) ==
  /\ aclIndex[s][a] = 0
  /\ acl' = [acl EXCEPT ![s] = Append(@, [addr |-> a, role |-> r])]
  /\ aclIndex' = [aclIndex EXCEPT ![s][a] = Len(acl[s]) + 1]
  /\ memberships' =
       [memberships EXCEPT ![a] = Append(@, [section |-> s, role |-> r])]

\* Mutant: the member's own list keeps the old role.
ReassignListOnly(s, a, r) ==
  /\ aclIndex[s][a] # 0
  /\ acl' = [acl EXCEPT ![s][aclIndex[s][a]].role = r]
  /\ UNCHANGED <<aclIndex, memberships>>

\* The branch for an address that is listed already: the role is overwritten.
Reassign(s, a, r) ==
  /\ aclIndex[s][a] # 0
  /\ acl' = [acl EXCEPT ![s][aclIndex[s][a]].role = r]
  /\ memberships' =
       [memberships EXCEPT ![a] = UpdatedMembershipRole(@, s, r)]
  /\ UNCHANGED aclIndex

\* Mutant: the index of the moved entry is not updated.
ReindexedNoMove(s, a) == [aclIndex[s] EXCEPT ![a] = 0]

\* The index of s once the entry of a is gone and the last entry moved to its
\* place.
Reindexed(s, a) ==
  [b \in Address |->
     IF b = a THEN 0
     ELSE IF b = acl[s][Len(acl[s])].addr THEN aclIndex[s][a]
     ELSE aclIndex[s][b]]

-----------------------------------------------------------------------------
(***************************************************************************)
(* Transactions.                                                           *)
(***************************************************************************)

\* Mutant: an admin check that only looks at the caller's role on any section.
SetMemberAnyAdmin(caller, s, a, r) ==
  /\ r <= ROLE_OWNER /\ r # ROLE_NONE /\ a # ZERO
  /\ \E t \in Section : CanManage(t, caller)
  /\ TrackSection(s)
  /\ Enroll(s, a, r) \/ Reassign(s, a, r)
  /\ UNCHANGED <<keyVars, invites>>

\* Mutant: the upper bound on the role is forgotten.
SetMemberAnyRole(caller, s, a, r) ==
  /\ r # ROLE_NONE /\ a # ZERO
  /\ CanManage(s, caller)
  /\ TrackSection(s)
  /\ Enroll(s, a, r) \/ Reassign(s, a, r)
  /\ UNCHANGED <<keyVars, invites>>

\* setMember
SetMember(caller, s, a, r) ==
  /\ r <= ROLE_OWNER
  /\ r # ROLE_NONE
  /\ a # ZERO
  /\ CanManage(s, caller)
  /\ TrackSection(s)
  /\ Enroll(s, a, r) \/ Reassign(s, a, r)
  /\ UNCHANGED <<keyVars, invites>>

\* removeMember
RemoveMember(caller, s, a) ==
  /\ CanManage(s, caller)
  /\ aclIndex[s][a] # 0
  /\ acl' = [acl EXCEPT ![s] = SwapPop(@, aclIndex[s][a])]
  /\ aclIndex' = [aclIndex EXCEPT ![s] = Reindexed(s, a)]
  /\ memberships' = [memberships EXCEPT ![a] = RemovedMembership(@, s)]
  /\ UNCHANGED <<sectionVars, keyVars, invites>>

\* Mutant: the key is not marked as seen.
WriteAttributeUnmarked(kind, s, k) ==
  /\ TrackSection(s)
  /\ keyList' = IF keySeen[kind][s][k] THEN keyList
                ELSE [keyList EXCEPT ![kind][s] = Append(@, k)]
  /\ UNCHANGED keySeen

\* _setPublic and the body of setSecret: the key is listed the first time.
WriteAttribute(kind, s, k) ==
  /\ TrackSection(s)
  /\ keySeen' = [keySeen EXCEPT ![kind][s][k] = TRUE]
  /\ keyList' = IF keySeen[kind][s][k] THEN keyList
                ELSE [keyList EXCEPT ![kind][s] = Append(@, k)]

\* setPublic and setSecret
SetAttribute(caller, kind, s, k) ==
  /\ CanManage(s, caller)
  /\ WriteAttribute(kind, s, k)
  /\ UNCHANGED <<aclVars, invites>>

\* invites with the invite of c set to inv
WithInvite(c, inv) ==
  [x \in DOMAIN invites \cup {c} |-> IF x = c THEN inv ELSE invites[x]]

\* Mutant: a code that is taken can be issued again.
CreateInviteAgain(caller, c, s, r) ==
  /\ r # ROLE_NONE /\ r <= ROLE_OWNER
  /\ CanManage(s, caller)
  /\ TrackSection(s)
  /\ invites' = WithInvite(c, [section |-> s, role |-> r, used |-> FALSE])
  /\ UNCHANGED <<aclVars, keyVars>>

\* createInvite
CreateInvite(caller, c, s, r) ==
  /\ r # ROLE_NONE
  /\ r <= ROLE_OWNER
  /\ CanManage(s, caller)
  /\ c \notin DOMAIN invites
  /\ TrackSection(s)
  /\ invites' = WithInvite(c, [section |-> s, role |-> r, used |-> FALSE])
  /\ UNCHANGED <<aclVars, keyVars>>

\* Mutant: the invite stays redeemable.
RedeemInviteTwice(c, redeemer) ==
  /\ c \in DOMAIN invites
  /\ redeemer # ZERO
  /\ LET inv == invites[c]
     IN  Enroll(inv.section, redeemer, inv.role)
         \/ Reassign(inv.section, redeemer, inv.role)
  /\ UNCHANGED <<sectionVars, keyVars, invites>>

\* redeemInvite: any caller, for any address; the role of an address that is
\* on the section already is overwritten.
RedeemInvite(c, redeemer) ==
  /\ c \in DOMAIN invites
  /\ ~invites[c].used
  /\ redeemer # ZERO
  /\ invites' = [invites EXCEPT ![c].used = TRUE]
  /\ LET inv == invites[c]
     IN  Enroll(inv.section, redeemer, inv.role)
         \/ Reassign(inv.section, redeemer, inv.role)
  /\ UNCHANGED <<sectionVars, keyVars>>

-----------------------------------------------------------------------------
Init ==
  /\ acl = [s \in Section |-> <<>>]
  /\ aclIndex = [s \in Section |-> [a \in Address |-> 0]]
  /\ memberships = [a \in Address |-> <<>>]
  /\ sectionNames = <<>>
  /\ sectionSeen = [s \in Section |-> FALSE]
  /\ keyList = [kind \in Kind |-> [s \in Section |-> <<>>]]
  /\ keySeen = [kind \in Kind |-> [s \in Section |-> [k \in Key |-> FALSE]]]
  /\ invites = [c \in {} |-> 0]
  /\ stewards \in SUBSET Caller

\* An external call by caller that changes the contract's storage.
Call(caller) ==
  \/ \E s \in Section, a \in Address, r \in RoleInput : SetMember(caller, s, a, r)
  \/ \E s \in Section, a \in Address : RemoveMember(caller, s, a)
  \/ \E kind \in Kind, s \in Section, k \in Key : SetAttribute(caller, kind, s, k)
  \/ \E c \in Code, s \in Section, r \in RoleInput : CreateInvite(caller, c, s, r)
  \/ \E c \in Code, a \in Address : RedeemInvite(c, a)

\* _isSteward is the inheriting contract's: here it may change at any time.
StewardsChange ==
  /\ stewards' \in SUBSET Caller
  /\ UNCHANGED accessVars

Next ==
  \/ \E caller \in Caller : Call(caller) /\ UNCHANGED stewards
  \/ StewardsChange

Spec == Init /\ [][Next]_vars

-----------------------------------------------------------------------------
(***************************************************************************)
(* Properties.                                                             *)
(***************************************************************************)

\* The index is the inverse of the list: what it says of an address is where
\* that address's entry is, and every entry is indexed.  roleOf answers from
\* the index alone, getACL from the list alone, and every removal moves an
\* entry (EpisteryAccess.sol:149-156).
IndexMatchesList ==
  \A s \in Section :
    /\ \A a \in Address :
         aclIndex[s][a] # 0 => /\ aclIndex[s][a] \in 1 .. Len(acl[s])
                               /\ acl[s][aclIndex[s][a]].addr = a
    /\ \A i \in 1 .. Len(acl[s]) : aclIndex[s][acl[s][i].addr] = i

\* getSectionsForMember tells an address the same sections and roles as the
\* sections' own lists: the second copy, which the loops of
\* _updateMembershipRole and _removeMembership maintain, never drifts.
MembershipsMirrorACL ==
  \A a \in Address :
    /\ \A i \in 1 .. Len(memberships[a]) :
         Grants[memberships[a][i].section][a] = memberships[a][i].role
    /\ \A i, j \in 1 .. Len(memberships[a]) :
         memberships[a][i].section = memberships[a][j].section => i = j
    /\ \A s \in Section :
         aclIndex[s][a] # 0 =>
           \E i \in 1 .. Len(memberships[a]) : memberships[a][i].section = s

\* getSectionNames has every section that was ever touched, once.
SectionsListedOnce ==
  /\ \A s \in Section :
       sectionSeen[s] <=> \E i \in 1 .. Len(sectionNames) : sectionNames[i] = s
  /\ \A i, j \in 1 .. Len(sectionNames) :
       sectionNames[i] = sectionNames[j] => i = j

HoldsSomething(s) ==
  \/ acl[s] # <<>>
  \/ \E kind \in Kind : keyList[kind][s] # <<>>
  \/ \E c \in DOMAIN invites : invites[c].section = s

\* A section that holds anything at all (an entry, an attribute, an invite
\* that may still add one) is found, once, by getSectionNames: redeemInvite
\* does not track the section and relies on createInvite having done so.
SectionsCatalogued ==
  /\ SectionsListedOnce
  /\ \A s \in Section : HoldsSomething(s) => sectionSeen[s]

\* Every attribute ever written to a section is listed, once, by getPublicKeys
\* and getSecretKeys.
AttributesEnumerable ==
  \A kind \in Kind, s \in Section :
    /\ \A k \in Key :
         keySeen[kind][s][k] <=>
           \E i \in 1 .. Len(keyList[kind][s]) : keyList[kind][s][i] = k
    /\ \A i, j \in 1 .. Len(keyList[kind][s]) :
         keyList[kind][s][i] = keyList[kind][s][j] => i = j

\* Once issued, an invite keeps its section and role, and once used it stays
\* used, whoever calls createInvite with its code (207-214).
InvitesAreFinal ==
  [][\A c \in DOMAIN invites :
       /\ c \in DOMAIN invites'
       /\ [invites'[c] EXCEPT !.used = invites[c].used] = invites[c]
       /\ invites[c].used => invites'[c].used]_vars

\* A section nobody manages (no steward, no admin, no admin default) is
\* frozen: the one thing that can still change its list is an invite issued
\* before, and nothing can change its attributes or add an invite.
UnmanagedSectionFrozen ==
  [][\A s \in Section :
       (\A u \in Caller : ~CanManage(s, u)) =>
         /\ \/ acl'[s] = acl[s]
            \/ \E c \in DOMAIN invites :
                 /\ invites[c].section = s
                 /\ ~invites[c].used /\ invites'[c].used
         /\ \A kind \in Kind : keyList'[kind][s] = keyList[kind][s]
         /\ \A c \in DOMAIN invites' \ DOMAIN invites : invites'[c].section # s]_vars

\* The lists, the index and the swaps implement the plain relation of
\* AccessSpec: each call changes exactly the one grant it names, roleOf and
\* the abstract role agree at every moment, and an invite is good for one
\* grant.
Abstract == INSTANCE AccessSpec WITH
  grant  <- Grants,
  invite <- invites

ImplementsAccessSpec == Abstract!Spec

=============================================================================
