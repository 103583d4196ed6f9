------------------------ MODULE EpisteryAccessProofs ------------------------
(***************************************************************************)
(* Theorems about EpisteryAccess, for every set of addresses, sections,    *)
(* keys and codes.  The three copies of the access relation (lists, index, *)
(* memberships) are handled by ListInv, which Enroll, Reassign and         *)
(* RemoveMember preserve; everything else follows action by action.        *)
(***************************************************************************)
EXTENDS EpisteryAccess, SequenceTheorems, TLAPS

-----------------------------------------------------------------------------
(***************************************************************************)
(* Sequences.                                                              *)
(***************************************************************************)

\* Swap-and-pop keeps the elements' type, and moves exactly the last one.
LEMMA SwapPopProperties ==
  ASSUME NEW S, NEW q \in Seq(S), NEW i \in 1 .. Len(q)
  PROVE  /\ SwapPop(q, i) \in Seq(S)
         /\ Len(SwapPop(q, i)) = Len(q) - 1
         /\ \A j \in 1 .. Len(q) - 1 :
              SwapPop(q, i)[j] = IF j = i THEN q[Len(q)] ELSE q[j]
<1>1. Len(q) - 1 \in Nat
  BY LenProperties
<1>2. \A j \in 1 .. Len(q) : q[j] \in S
  BY ElementOfSeq
<1>3. SwapPop(q, i) \in [1 .. Len(q) - 1 -> S]
  BY <1>1, <1>2 DEF SwapPop
<1>4. SwapPop(q, i) \in Seq(S)
  BY <1>1, <1>3, SeqDef
<1>5. Len(SwapPop(q, i)) = Len(q) - 1
  BY <1>1, <1>3, <1>4, LenProperties
<1> QED
  BY <1>4, <1>5 DEF SwapPop

\* A sequence with one role rewritten.
LEMMA UpdatedMembershipRoleProperties ==
  ASSUME NEW m \in Seq(Membership), NEW s \in Section,
         NEW r \in Role \ {ROLE_NONE}
  PROVE  /\ UpdatedMembershipRole(m, s, r) \in Seq(Membership)
         /\ Len(UpdatedMembershipRole(m, s, r)) = Len(m)
         /\ \A i \in 1 .. Len(m) :
              UpdatedMembershipRole(m, s, r)[i] =
                IF IsFirstFor(m, s, i) THEN [m[i] EXCEPT !.role = r] ELSE m[i]
<1> DEFINE u == UpdatedMembershipRole(m, s, r)
<1>1. Len(m) \in Nat
  BY LenProperties
<1>2. \A i \in 1 .. Len(m) : m[i] \in Membership
  BY ElementOfSeq
<1>3. \A i \in 1 .. Len(m) : [m[i] EXCEPT !.role = r] \in Membership
  BY <1>2 DEF Membership
<1>4. u \in [1 .. Len(m) -> Membership]
  BY <1>2, <1>3 DEF UpdatedMembershipRole
<1>5. u \in Seq(Membership)
  BY <1>1, <1>4, SeqDef
<1>6. Len(u) = Len(m)
  BY <1>1, <1>4, <1>5, LenProperties
<1> QED
  BY <1>5, <1>6 DEF UpdatedMembershipRole

-----------------------------------------------------------------------------
(***************************************************************************)
(* The three copies of the access relation.                                *)
(***************************************************************************)

ListTypes ==
  /\ acl \in [Section -> Seq(ACLEntry)]
  /\ aclIndex \in [Section -> [Address -> Nat]]
  /\ memberships \in [Address -> Seq(Membership)]

ListInv == ListTypes /\ IndexMatchesList /\ MembershipsMirrorACL

\* An address that is listed has a role.
LEMMA ListedRole ==
  ASSUME ListTypes, IndexMatchesList, NEW s \in Section, NEW a \in Address
  PROVE  /\ Listed(s, a) \in Role
         /\ aclIndex[s][a] # 0 <=> Listed(s, a) # ROLE_NONE
<1>1. aclIndex[s][a] # 0 => aclIndex[s][a] \in 1 .. Len(acl[s])
  BY DEF IndexMatchesList
<1>2. aclIndex[s][a] # 0 => acl[s][aclIndex[s][a]] \in ACLEntry
  BY <1>1, ElementOfSeq DEF ListTypes
<1> QED
  BY <1>2 DEF Listed, ACLEntry, Role, ROLE_NONE, ROLE_OWNER

LEMMA GrantsType ==
  ASSUME ListTypes, IndexMatchesList
  PROVE  Grants \in [Section -> [Address -> Role]]
BY ListedRole DEF Grants

\* Enrolling an address keeps the types and the index, and grants the role.
LEMMA EnrollIndex ==
  ASSUME ListTypes, IndexMatchesList,
         NEW s \in Section, NEW a \in Address \ {ZERO},
         NEW r \in Role \ {ROLE_NONE}, Enroll(s, a, r)
  PROVE  /\ ListTypes'
         /\ IndexMatchesList'
         /\ Grants' = [Grants EXCEPT ![s][a] = r]
<1> DEFINE e == [addr |-> a, role |-> r]
           n == Len(acl[s])
<1>1. e \in ACLEntry
  BY DEF ACLEntry
<1>2. acl[s] \in Seq(ACLEntry) /\ n \in Nat
  BY LenProperties DEF ListTypes
<1>3. /\ Append(acl[s], e) \in Seq(ACLEntry)
      /\ Len(Append(acl[s], e)) = n + 1
      /\ \A i \in 1 .. n : Append(acl[s], e)[i] = acl[s][i]
      /\ Append(acl[s], e)[n + 1] = e
  BY <1>1, <1>2, AppendProperties
<1>4. [section |-> s, role |-> r] \in Membership
  BY DEF Membership
<1>5. Append(memberships[a], [section |-> s, role |-> r]) \in Seq(Membership)
  BY <1>4, AppendProperties DEF ListTypes
<1>6. ListTypes'
  BY <1>2, <1>3, <1>5 DEF Enroll, ListTypes
<1>7. /\ acl' = [acl EXCEPT ![s] = Append(acl[s], e)]
      /\ aclIndex' = [aclIndex EXCEPT ![s][a] = n + 1]
  BY DEF Enroll
<1>8. /\ acl'[s] = Append(acl[s], e)
      /\ aclIndex'[s][a] = n + 1
      /\ \A b \in Address \ {a} : aclIndex'[s][b] = aclIndex[s][b]
      /\ \A t \in Section \ {s} : acl'[t] = acl[t] /\ aclIndex'[t] = aclIndex[t]
  BY <1>7 DEF ListTypes
<1>9. \A b \in Address : aclIndex[s][b] # 0 => aclIndex[s][b] \in 1 .. n
  BY DEF IndexMatchesList
<1>10. \A i \in 1 .. n : acl[s][i].addr # a
  BY DEF IndexMatchesList, Enroll
<1>11. \A i \in 1 .. n : acl[s][i].addr \in Address
  <2>1. \A i \in 1 .. n : acl[s][i] \in ACLEntry
    BY <1>2, ElementOfSeq
  <2> QED
    BY <2>1 DEF ACLEntry
<1>12. IndexMatchesList'
  <2> SUFFICES ASSUME NEW t \in Section
               PROVE  /\ \A b \in Address :
                           aclIndex'[t][b] # 0 =>
                             /\ aclIndex'[t][b] \in 1 .. Len(acl'[t])
                             /\ acl'[t][aclIndex'[t][b]].addr = b
                      /\ \A i \in 1 .. Len(acl'[t]) : aclIndex'[t][acl'[t][i].addr] = i
    BY DEF IndexMatchesList
  <2>1. CASE t # s
    BY <2>1, <1>8 DEF IndexMatchesList
  <2>2. CASE t = s
    <3>1. \A b \in Address :
            aclIndex'[s][b] # 0 => /\ aclIndex'[s][b] \in 1 .. n + 1
                                   /\ acl'[s][aclIndex'[s][b]].addr = b
      BY <1>2, <1>3, <1>8, <1>9 DEF IndexMatchesList
    <3>2. \A i \in 1 .. n + 1 : aclIndex'[s][acl'[s][i].addr] = i
      BY <1>2, <1>3, <1>8, <1>10, <1>11 DEF IndexMatchesList
    <3> QED
      BY <2>2, <3>1, <3>2, <1>3, <1>8
  <2> QED
    BY <2>1, <2>2
<1>13. ASSUME NEW t \in Section, NEW b \in Address
       PROVE  Listed(t, b)' = IF t = s /\ b = a THEN r ELSE Listed(t, b)
  <2>1. CASE t = s /\ b = a
    BY <2>1, <1>2, <1>3, <1>8 DEF Listed, ROLE_NONE
  <2>2. CASE t = s /\ b # a
    BY <2>2, <1>2, <1>3, <1>8, <1>9 DEF Listed
  <2>3. CASE t # s
    BY <2>3, <1>8 DEF Listed
  <2> QED
    BY <2>1, <2>2, <2>3
<1>14. Grants' = [Grants EXCEPT ![s][a] = r]
  BY <1>13 DEF Grants
<1> QED
  BY <1>6, <1>12, <1>14

\* Enrolling an address adds the one membership that says so.
LEMMA EnrollMemberships ==
  ASSUME ListInv, NEW s \in Section, NEW a \in Address \ {ZERO},
         NEW r \in Role \ {ROLE_NONE}, Enroll(s, a, r)
  PROVE  MembershipsMirrorACL'
<1> DEFINE e == [section |-> s, role |-> r]
           n == Len(memberships[a])
<1>1. e \in Membership
  BY DEF Membership
<1>2. memberships[a] \in Seq(Membership) /\ n \in Nat
  BY LenProperties DEF ListInv, ListTypes
<1>3. /\ Len(Append(memberships[a], e)) = n + 1
      /\ \A i \in 1 .. n : Append(memberships[a], e)[i] = memberships[a][i]
      /\ Append(memberships[a], e)[n + 1] = e
  BY <1>1, <1>2, AppendProperties
<1>4. /\ memberships'[a] = Append(memberships[a], e)
      /\ \A b \in Address \ {a} : memberships'[b] = memberships[b]
  BY DEF Enroll, ListInv, ListTypes
<1>5. \A t \in Section, b \in Address :
        Grants'[t][b] = IF t = s /\ b = a THEN r ELSE Grants[t][b]
  BY EnrollIndex, GrantsType DEF ListInv
<1>6. /\ \A t \in Section, b \in Address :
           (t # s \/ b # a) => (aclIndex'[t][b] # 0 <=> aclIndex[t][b] # 0)
      /\ aclIndex[s][a] = 0
  BY DEF Enroll, ListInv, ListTypes
<1>7. \A b \in Address : \A i \in 1 .. Len(memberships[b]) :
        memberships[b][i].section \in Section
  <2>1. \A b \in Address : \A i \in 1 .. Len(memberships[b]) :
          memberships[b][i] \in Membership
    BY ElementOfSeq DEF ListInv, ListTypes
  <2> QED
    BY <2>1 DEF Membership
<1>8. \A i \in 1 .. n : memberships[a][i].section # s
  <2> SUFFICES ASSUME NEW i \in 1 .. n, memberships[a][i].section = s
               PROVE  FALSE
    OBVIOUS
  <2>1. Grants[s][a] = memberships[a][i].role
    BY DEF ListInv, MembershipsMirrorACL
  <2>2. memberships[a][i] \in Membership
    BY <1>2, ElementOfSeq
  <2>3. memberships[a][i].role # ROLE_NONE
    BY <2>2 DEF Membership
  <2> QED
    BY <2>1, <2>3, <1>6 DEF Grants, Listed
<1> SUFFICES ASSUME NEW b \in Address
             PROVE  /\ \A i \in 1 .. Len(memberships'[b]) :
                         Grants'[memberships'[b][i].section][b] = memberships'[b][i].role
                    /\ \A i, j \in 1 .. Len(memberships'[b]) :
                         memberships'[b][i].section = memberships'[b][j].section => i = j
                    /\ \A t \in Section :
                         aclIndex'[t][b] # 0 =>
                           \E i \in 1 .. Len(memberships'[b]) : memberships'[b][i].section = t
  BY DEF MembershipsMirrorACL
<1>9. CASE b # a
  BY <1>4, <1>5, <1>6, <1>7, <1>9 DEF ListInv, MembershipsMirrorACL
<1>10. CASE b = a
  <2>1. \A i \in 1 .. n + 1 :
          Grants'[memberships'[a][i].section][a] = memberships'[a][i].role
    BY <1>2, <1>3, <1>4, <1>5, <1>7, <1>8 DEF ListInv, MembershipsMirrorACL
  <2>2. \A i, j \in 1 .. n + 1 :
          memberships'[a][i].section = memberships'[a][j].section => i = j
    BY <1>2, <1>3, <1>4, <1>8 DEF ListInv, MembershipsMirrorACL
  <2>3. \A t \in Section :
          aclIndex'[t][a] # 0 =>
            \E i \in 1 .. n + 1 : memberships'[a][i].section = t
    <3> SUFFICES ASSUME NEW t \in Section, aclIndex'[t][a] # 0
                 PROVE  \E i \in 1 .. n + 1 : memberships'[a][i].section = t
      OBVIOUS
    <3>1. CASE t = s
      BY <3>1, <1>2, <1>3, <1>4
    <3>2. CASE t # s
      <4>1. PICK i \in 1 .. n : memberships[a][i].section = t
        BY <3>2, <1>6 DEF ListInv, MembershipsMirrorACL
      <4> QED
        BY <4>1, <1>2, <1>3, <1>4
    <3> QED
      BY <3>1, <3>2
  <2> QED
    BY <1>10, <1>3, <1>4, <2>1, <2>2, <2>3
<1> QED
  BY <1>9, <1>10

\* Overwriting a role keeps the types and the index, and grants the role.
LEMMA ReassignIndex ==
  ASSUME ListTypes, IndexMatchesList,
         NEW s \in Section, NEW a \in Address \ {ZERO},
         NEW r \in Role \ {ROLE_NONE}, Reassign(s, a, r)
  PROVE  /\ ListTypes'
         /\ IndexMatchesList'
         /\ Grants' = [Grants EXCEPT ![s][a] = r]
<1> DEFINE k == aclIndex[s][a]
           n == Len(acl[s])
<1>1. /\ acl[s] \in Seq(ACLEntry) /\ n \in Nat
      /\ acl[s] \in [1 .. n -> ACLEntry]
  BY LenProperties DEF ListTypes
<1>2. k \in 1 .. n /\ acl[s][k].addr = a
  BY DEF Reassign, IndexMatchesList
<1>3. \A i \in 1 .. n : acl[s][i] \in ACLEntry
  BY <1>1
<1>4. [acl[s][k] EXCEPT !.role = r] \in ACLEntry
  BY <1>2, <1>3 DEF ACLEntry
<1>5. /\ acl'[s] = [acl[s] EXCEPT ![k] = [acl[s][k] EXCEPT !.role = r]]
      /\ \A t \in Section \ {s} : acl'[t] = acl[t]
      /\ acl' = [acl EXCEPT ![s] = [acl[s] EXCEPT ![k] = [acl[s][k] EXCEPT !.role = r]]]
  BY DEF Reassign, ListTypes
<1>6. /\ acl'[s] \in Seq(ACLEntry)
      /\ Len(acl'[s]) = n
      /\ \A i \in 1 .. n : acl'[s][i] =
           IF i = k THEN [acl[s][k] EXCEPT !.role = r] ELSE acl[s][i]
  BY <1>1, <1>2, <1>4, <1>5, ExceptSeq
<1>7. UpdatedMembershipRole(memberships[a], s, r) \in Seq(Membership)
  BY UpdatedMembershipRoleProperties DEF ListTypes
<1>8. ListTypes'
  BY <1>5, <1>6, <1>7 DEF Reassign, ListTypes
<1>9. \A i \in 1 .. n : acl'[s][i].addr = acl[s][i].addr
  BY <1>3, <1>6 DEF ACLEntry
<1>10. aclIndex' = aclIndex
  BY DEF Reassign
<1>11. IndexMatchesList'
  <2> SUFFICES ASSUME NEW t \in Section
               PROVE  /\ \A b \in Address :
                           aclIndex[t][b] # 0 =>
                             /\ aclIndex[t][b] \in 1 .. Len(acl'[t])
                             /\ acl'[t][aclIndex[t][b]].addr = b
                      /\ \A i \in 1 .. Len(acl'[t]) : aclIndex[t][acl'[t][i].addr] = i
    BY <1>10 DEF IndexMatchesList
  <2>1. CASE t # s
    BY <2>1, <1>5 DEF IndexMatchesList
  <2>2. CASE t = s
    BY <2>2, <1>6, <1>9 DEF IndexMatchesList
  <2> QED
    BY <2>1, <2>2
<1>12. ASSUME NEW t \in Section, NEW b \in Address
       PROVE  Listed(t, b)' = IF t = s /\ b = a THEN r ELSE Listed(t, b)
  <2>1. CASE t = s /\ b = a
    BY <2>1, <1>2, <1>3, <1>6, <1>10 DEF Listed, ACLEntry
  <2>2. CASE t = s /\ b # a
    <3>1. aclIndex[s][b] # 0 => aclIndex[s][b] \in 1 .. n /\ aclIndex[s][b] # k
      BY <2>2, <1>2 DEF IndexMatchesList
    <3> QED
      BY <2>2, <3>1, <1>6, <1>10 DEF Listed
  <2>3. CASE t # s
    BY <2>3, <1>5, <1>10 DEF Listed
  <2> QED
    BY <2>1, <2>2, <2>3
<1>13. Grants' = [Grants EXCEPT ![s][a] = r]
  BY <1>12 DEF Grants
<1> QED
  BY <1>8, <1>11, <1>13

\* The membership that says so is rewritten too: it is the only one for its
\* section, so the first match is the one.
LEMMA ReassignMemberships ==
  ASSUME ListInv, NEW s \in Section, NEW a \in Address \ {ZERO},
         NEW r \in Role \ {ROLE_NONE}, Reassign(s, a, r)
  PROVE  MembershipsMirrorACL'
<1> DEFINE m == memberships[a]
           n == Len(m)
<1>1. m \in Seq(Membership) /\ n \in Nat
  BY LenProperties DEF ListInv, ListTypes
<1>2. \A i \in 1 .. n : m[i] \in Membership
  BY <1>1, ElementOfSeq
<1>3. \A i, j \in 1 .. n : m[i].section = m[j].section => i = j
  BY DEF ListInv, MembershipsMirrorACL
<1>4. \A i \in 1 .. n : IsFirstFor(m, s, i) <=> m[i].section = s
  <2> SUFFICES ASSUME NEW i \in 1 .. n, m[i].section = s, NEW j \in 1 .. i - 1
               PROVE  m[j].section # s
    BY DEF IsFirstFor
  <2>1. j \in 1 .. n /\ j # i
    BY <1>1
  <2> QED
    BY <2>1, <1>3
<1>5. /\ memberships'[a] = UpdatedMembershipRole(m, s, r)
      /\ \A b \in Address \ {a} : memberships'[b] = memberships[b]
      /\ aclIndex' = aclIndex
  BY DEF Reassign, ListInv, ListTypes
<1>6. /\ Len(memberships'[a]) = n
      /\ \A i \in 1 .. n : memberships'[a][i] =
           IF m[i].section = s THEN [m[i] EXCEPT !.role = r] ELSE m[i]
  BY <1>1, <1>4, <1>5, UpdatedMembershipRoleProperties
<1>7. /\ \A i \in 1 .. n : memberships'[a][i].section = m[i].section
      /\ \A i \in 1 .. n : memberships'[a][i].role =
           IF m[i].section = s THEN r ELSE m[i].role
  BY <1>2, <1>6 DEF Membership
<1>8. \A t \in Section, b \in Address :
        Grants'[t][b] = IF t = s /\ b = a THEN r ELSE Grants[t][b]
  BY ReassignIndex, GrantsType DEF ListInv
<1>9. \A b \in Address : \A i \in 1 .. Len(memberships[b]) :
        memberships[b][i].section \in Section
  <2>1. \A b \in Address : \A i \in 1 .. Len(memberships[b]) :
          memberships[b][i] \in Membership
    BY ElementOfSeq DEF ListInv, ListTypes
  <2> QED
    BY <2>1 DEF Membership
<1> SUFFICES ASSUME NEW b \in Address
             PROVE  /\ \A i \in 1 .. Len(memberships'[b]) :
                         Grants'[memberships'[b][i].section][b] = memberships'[b][i].role
                    /\ \A i, j \in 1 .. Len(memberships'[b]) :
                         memberships'[b][i].section = memberships'[b][j].section => i = j
                    /\ \A t \in Section :
                         aclIndex'[t][b] # 0 =>
                           \E i \in 1 .. Len(memberships'[b]) : memberships'[b][i].section = t
  BY DEF MembershipsMirrorACL
<1>10. CASE b # a
  BY <1>10, <1>5, <1>8, <1>9 DEF ListInv, MembershipsMirrorACL
<1>11. CASE b = a
  <2>1. \A i \in 1 .. n :
          Grants'[memberships'[a][i].section][a] = memberships'[a][i].role
    BY <1>7, <1>8, <1>9 DEF ListInv, MembershipsMirrorACL
  <2>2. \A i, j \in 1 .. n :
          memberships'[a][i].section = memberships'[a][j].section => i = j
    BY <1>3, <1>7
  <2>3. \A t \in Section :
          aclIndex'[t][a] # 0 =>
            \E i \in 1 .. n : memberships'[a][i].section = t
    BY <1>5, <1>7 DEF ListInv, MembershipsMirrorACL
  <2> QED
    BY <1>11, <1>6, <2>1, <2>2, <2>3
<1> QED
  BY <1>10, <1>11

\* Removing an address closes the gap with the last entry, reindexes that one
\* entry, and takes back the one grant.
LEMMA RemoveIndex ==
  ASSUME ListTypes, IndexMatchesList, NEW caller \in Caller,
         NEW s \in Section, NEW a \in Address, RemoveMember(caller, s, a)
  PROVE  /\ ListTypes'
         /\ IndexMatchesList'
         /\ Grants' = [Grants EXCEPT ![s][a] = ROLE_NONE]
         /\ aclIndex'[s][a] = 0
         /\ \A t \in Section, b \in Address :
              aclIndex'[t][b] # 0 => aclIndex[t][b] # 0
<1> DEFINE k == aclIndex[s][a]
           n == Len(acl[s])
           q == SwapPop(acl[s], k)
<1>1. acl[s] \in Seq(ACLEntry) /\ n \in Nat
  BY LenProperties DEF ListTypes
<1>2. k \in 1 .. n /\ acl[s][k].addr = a
  BY DEF RemoveMember, IndexMatchesList
<1>3. \A i \in 1 .. n : acl[s][i] \in ACLEntry
  BY <1>1, ElementOfSeq
<1>4. \A i \in 1 .. n : acl[s][i].addr \in Address
  BY <1>3 DEF ACLEntry
<1>5. /\ q \in Seq(ACLEntry)
      /\ Len(q) = n - 1
      /\ \A j \in 1 .. n - 1 : q[j] = IF j = k THEN acl[s][n] ELSE acl[s][j]
  BY <1>1, <1>2, SwapPopProperties
<1>6. /\ acl'[s] = q
      /\ \A t \in Section \ {s} : acl'[t] = acl[t] /\ aclIndex'[t] = aclIndex[t]
      /\ aclIndex'[s] = Reindexed(s, a)
  BY DEF RemoveMember, ListTypes
<1>7. n \in 1 .. n /\ n - 1 \in Nat /\ k \in Nat
  BY <1>1, <1>2
<1>8. Reindexed(s, a) \in [Address -> Nat]
  BY <1>7 DEF Reindexed, ListTypes
<1>9. RemovedMembership(memberships[a], s) \in Seq(Membership)
  <2> DEFINE m == memberships[a]
  <2>1. m \in Seq(Membership) /\ Len(m) \in Nat
    BY LenProperties DEF ListTypes
  <2>2. CASE ~ \E i \in 1 .. Len(m) : m[i].section = s
    BY <2>1, <2>2 DEF RemovedMembership
  <2>3. CASE \E i \in 1 .. Len(m) : m[i].section = s
    <3> DEFINE p == CHOOSE i \in 1 .. Len(m) : IsFirstFor(m, s, i)
    <3>1. RemovedMembership(m, s) = [j \in 1 .. Len(m) - 1 |->
                                       IF j = p THEN m[Len(m)] ELSE m[j]]
      BY <2>3 DEF RemovedMembership, SwapPop
    <3>2. \A j \in 1 .. Len(m) : m[j] \in Membership
      BY <2>1, ElementOfSeq
    <3>3. Len(m) - 1 \in Nat /\ Len(m) \in 1 .. Len(m)
      BY <2>1, <2>3
    <3>4. RemovedMembership(m, s) \in [1 .. Len(m) - 1 -> Membership]
      BY <3>1, <3>2, <3>3
    <3> QED
      BY <3>3, <3>4, SeqDef
  <2> QED
    BY <2>2, <2>3
<1>10. ListTypes'
  BY <1>5, <1>8, <1>9 DEF RemoveMember, ListTypes
<1>11. /\ Reindexed(s, a)[a] = 0
       /\ acl[s][n].addr # a => Reindexed(s, a)[acl[s][n].addr] = k
       /\ \A b \in Address \ {a, acl[s][n].addr} : Reindexed(s, a)[b] = aclIndex[s][b]
  BY <1>4, <1>7 DEF Reindexed
<1>12. \A b \in Address : aclIndex[s][b] # 0 =>
         aclIndex[s][b] \in 1 .. n /\ acl[s][aclIndex[s][b]].addr = b
  BY DEF IndexMatchesList
<1>13. \A i \in 1 .. n : aclIndex[s][acl[s][i].addr] = i
  BY DEF IndexMatchesList
<1>14. \A b \in Address : Reindexed(s, a)[b] # 0 =>
         /\ Reindexed(s, a)[b] \in 1 .. n - 1
         /\ q[Reindexed(s, a)[b]] = acl[s][aclIndex[s][b]]
         /\ aclIndex[s][b] # 0 /\ b # a
  <2> SUFFICES ASSUME NEW b \in Address, Reindexed(s, a)[b] # 0
               PROVE  /\ Reindexed(s, a)[b] \in 1 .. n - 1
                      /\ q[Reindexed(s, a)[b]] = acl[s][aclIndex[s][b]]
                      /\ aclIndex[s][b] # 0 /\ b # a
    OBVIOUS
  <2>1. b # a
    BY <1>11
  <2>2. CASE b = acl[s][n].addr
    <3>1. aclIndex[s][b] = n /\ k # n
      BY <2>1, <2>2, <1>2, <1>7, <1>13
    <3>2. Reindexed(s, a)[b] = k /\ k \in 1 .. n - 1
      BY <2>1, <2>2, <3>1, <1>2, <1>7, <1>11
    <3> QED
      BY <2>1, <3>1, <3>2, <1>5, <1>7
  <2>3. CASE b # acl[s][n].addr
    <3>1. Reindexed(s, a)[b] = aclIndex[s][b]
      BY <2>1, <2>3, <1>11
    <3>2. aclIndex[s][b] \in 1 .. n /\ aclIndex[s][b] # n /\ aclIndex[s][b] # k
      BY <2>1, <2>3, <3>1, <1>2, <1>12
    <3>3. aclIndex[s][b] \in 1 .. n - 1
      BY <3>2, <1>7
    <3> QED
      BY <2>1, <3>1, <3>2, <3>3, <1>5, <1>7
  <2> QED
    BY <2>2, <2>3
<1>15. \A b \in Address \ {a} : aclIndex[s][b] # 0 => Reindexed(s, a)[b] # 0
  BY <1>2, <1>7, <1>11
<1>16. \A i \in 1 .. n - 1 : Reindexed(s, a)[q[i].addr] = i
  <2> SUFFICES ASSUME NEW i \in 1 .. n - 1
               PROVE  Reindexed(s, a)[q[i].addr] = i
    OBVIOUS
  <2>1. i \in 1 .. n /\ i # n
    BY <1>7
  <2>2. CASE i = k
    <3>1. acl[s][n].addr # a
      BY <2>1, <2>2, <1>7, <1>13
    <3> QED
      BY <2>2, <3>1, <1>5, <1>11
  <2>3. CASE i # k
    <3>1. q[i] = acl[s][i]
      BY <2>3, <1>5
    <3>2. acl[s][i].addr \in Address \ {a, acl[s][n].addr}
      BY <2>1, <2>3, <1>4, <1>7, <1>13
    <3> QED
      BY <2>1, <3>1, <3>2, <1>11, <1>13
  <2> QED
    BY <2>2, <2>3
<1>17. IndexMatchesList'
  <2> SUFFICES ASSUME NEW t \in Section
               PROVE  /\ \A b \in Address :
                           aclIndex'[t][b] # 0 =>
                             /\ aclIndex'[t][b] \in 1 .. Len(acl'[t])
                             /\ acl'[t][aclIndex'[t][b]].addr = b
                      /\ \A i \in 1 .. Len(acl'[t]) : aclIndex'[t][acl'[t][i].addr] = i
    BY DEF IndexMatchesList
  <2>1. CASE t # s
    BY <2>1, <1>6 DEF IndexMatchesList
  <2>2. CASE t = s
    BY <2>2, <1>5, <1>6, <1>12, <1>14, <1>16
  <2> QED
    BY <2>1, <2>2
<1>18. ASSUME NEW t \in Section, NEW b \in Address
       PROVE  Listed(t, b)' = IF t = s /\ b = a THEN ROLE_NONE ELSE Listed(t, b)
  <2>1. CASE t = s /\ b = a
    BY <2>1, <1>6, <1>11 DEF Listed
  <2>2. CASE t = s /\ b # a
    <3>1. CASE aclIndex[s][b] = 0
      BY <2>2, <3>1, <1>6, <1>14 DEF Listed
    <3>2. CASE aclIndex[s][b] # 0
      BY <2>2, <3>2, <1>6, <1>14, <1>15 DEF Listed
    <3> QED
      BY <3>1, <3>2
  <2>3. CASE t # s
    BY <2>3, <1>6 DEF Listed
  <2> QED
    BY <2>1, <2>2, <2>3
<1>19. Grants' = [Grants EXCEPT ![s][a] = ROLE_NONE]
  BY <1>18 DEF Grants
<1>20. \A t \in Section, b \in Address :
         aclIndex'[t][b] # 0 => aclIndex[t][b] # 0
  BY <1>6, <1>14
<1> QED
  BY <1>6, <1>10, <1>11, <1>17, <1>19, <1>20

\* The one membership for that section goes; the last takes its place.
LEMMA RemoveMemberships ==
  ASSUME ListInv, NEW caller \in Caller,
         NEW s \in Section, NEW a \in Address, RemoveMember(caller, s, a)
  PROVE  MembershipsMirrorACL'
<1> DEFINE m == memberships[a]
           n == Len(m)
           p == CHOOSE i \in 1 .. n : IsFirstFor(m, s, i)
<1>1. m \in Seq(Membership) /\ n \in Nat
  BY LenProperties DEF ListInv, ListTypes
<1>2. \A i, j \in 1 .. n : m[i].section = m[j].section => i = j
  BY DEF ListInv, MembershipsMirrorACL
<1>3. \E i \in 1 .. n : m[i].section = s
  BY DEF RemoveMember, ListInv, MembershipsMirrorACL
<1>4. \E i \in 1 .. n : IsFirstFor(m, s, i)
  <2>1. PICK i \in 1 .. n : m[i].section = s
    BY <1>3
  <2>2. \A j \in 1 .. i - 1 : m[j].section # s
    <3> SUFFICES ASSUME NEW j \in 1 .. i - 1, m[j].section = s PROVE FALSE
      OBVIOUS
    <3>1. j \in 1 .. n /\ j # i
      BY <1>1
    <3> QED
      BY <2>1, <3>1, <1>2
  <2> QED
    BY <2>1, <2>2 DEF IsFirstFor
<1>5. p \in 1 .. n /\ m[p].section = s
  BY <1>4 DEF IsFirstFor
<1>6. /\ memberships'[a] = SwapPop(m, p)
      /\ \A b \in Address \ {a} : memberships'[b] = memberships[b]
  BY <1>3 DEF RemoveMember, RemovedMembership, ListInv, ListTypes
<1> HIDE DEF p
<1>7. /\ Len(memberships'[a]) = n - 1
      /\ \A j \in 1 .. n - 1 : memberships'[a][j] = IF j = p THEN m[n] ELSE m[j]
  <2> HIDE DEF m
  <2>1. /\ Len(SwapPop(m, p)) = Len(m) - 1
        /\ \A j \in 1 .. Len(m) - 1 : SwapPop(m, p)[j] = IF j = p THEN m[Len(m)] ELSE m[j]
    BY <1>1, <1>5, SwapPopProperties
  <2> QED
    BY <1>6, <2>1
<1>8. \A t \in Section, b \in Address :
        Grants'[t][b] = IF t = s /\ b = a THEN ROLE_NONE ELSE Grants[t][b]
  BY RemoveIndex, GrantsType DEF ListInv
<1>9. \A b \in Address : \A i \in 1 .. Len(memberships[b]) :
        memberships[b][i].section \in Section
  <2>1. \A b \in Address : \A i \in 1 .. Len(memberships[b]) :
          memberships[b][i] \in Membership
    BY ElementOfSeq DEF ListInv, ListTypes
  <2> QED
    BY <2>1 DEF Membership
<1>10. /\ \A t \in Section, b \in Address : aclIndex'[t][b] # 0 => aclIndex[t][b] # 0
       /\ aclIndex'[s][a] = 0
  BY RemoveIndex DEF ListInv
<1> SUFFICES ASSUME NEW b \in Address
             PROVE  /\ \A i \in 1 .. Len(memberships'[b]) :
                         Grants'[memberships'[b][i].section][b] = memberships'[b][i].role
                    /\ \A i, j \in 1 .. Len(memberships'[b]) :
                         memberships'[b][i].section = memberships'[b][j].section => i = j
                    /\ \A t \in Section :
                         aclIndex'[t][b] # 0 =>
                           \E i \in 1 .. Len(memberships'[b]) : memberships'[b][i].section = t
  BY DEF MembershipsMirrorACL
<1>11. CASE b # a
  BY <1>11, <1>6, <1>8, <1>9, <1>10 DEF ListInv, MembershipsMirrorACL
<1>12. CASE b = a
  <2>1. ASSUME NEW j \in 1 .. n - 1
        PROVE  \E i \in 1 .. n : i # p /\ memberships'[a][j] = m[i]
    <3>1. CASE j = p
      <4>1. n \in 1 .. n /\ n # p
        BY <3>1, <1>1
      <4> QED
        BY <3>1, <4>1, <1>7
    <3>2. CASE j # p
      BY <3>2, <1>1, <1>7
    <3> QED
      BY <3>1, <3>2
  <2>2. \A i \in 1 .. n : i # p => m[i].section # s
    BY <1>2, <1>5
  <2>3. \A j \in 1 .. n - 1 :
          Grants'[memberships'[a][j].section][a] = memberships'[a][j].role
    <3> SUFFICES ASSUME NEW j \in 1 .. n - 1
                 PROVE  Grants'[memberships'[a][j].section][a] = memberships'[a][j].role
      OBVIOUS
    <3>1. PICK i \in 1 .. n : i # p /\ memberships'[a][j] = m[i]
      BY <2>1
    <3>2. Grants[m[i].section][a] = m[i].role
      BY DEF ListInv, MembershipsMirrorACL
    <3> QED
      BY <3>1, <3>2, <2>2, <1>8, <1>9
  <2>4. \A i, j \in 1 .. n - 1 :
          memberships'[a][i].section = memberships'[a][j].section => i = j
    <3>1. n \in 1 .. n /\ \A i \in 1 .. n - 1 : i \in 1 .. n /\ i # n
      BY <1>1, <1>5
    <3> QED
      BY <3>1, <1>2, <1>5, <1>7
  <2>5. \A t \in Section :
          aclIndex'[t][a] # 0 => \E i \in 1 .. n - 1 : memberships'[a][i].section = t
    <3> SUFFICES ASSUME NEW t \in Section, aclIndex'[t][a] # 0
                 PROVE  \E i \in 1 .. n - 1 : memberships'[a][i].section = t
      OBVIOUS
    <3>1. PICK i \in 1 .. n : m[i].section = t
      BY <1>10 DEF ListInv, MembershipsMirrorACL
    <3>2. i # p
      BY <3>1, <1>5, <1>10
    <3>3. CASE i = n
      BY <3>1, <3>2, <3>3, <1>1, <1>5, <1>7
    <3>4. CASE i # n
      BY <3>1, <3>2, <3>4, <1>1, <1>7
    <3> QED
      BY <3>3, <3>4
  <2> QED
    BY <1>12, <1>7, <2>3, <2>4, <2>5
<1> QED
  BY <1>11, <1>12

\* Either way of granting keeps the three copies in step.
LEMMA GrantKeepsLists ==
  ASSUME ListInv, NEW s \in Section, NEW a \in Address \ {ZERO},
         NEW r \in Role \ {ROLE_NONE}, Enroll(s, a, r) \/ Reassign(s, a, r)
  PROVE  ListInv' /\ Grants' = [Grants EXCEPT ![s][a] = r]
<1>1. CASE Enroll(s, a, r)
  BY <1>1, EnrollIndex, EnrollMemberships DEF ListInv
<1>2. CASE Reassign(s, a, r)
  BY <1>2, ReassignIndex, ReassignMemberships DEF ListInv
<1> QED
  BY <1>1, <1>2

LEMMA RemoveKeepsLists ==
  ASSUME ListInv, NEW caller \in Caller,
         NEW s \in Section, NEW a \in Address, RemoveMember(caller, s, a)
  PROVE  ListInv' /\ Grants' = [Grants EXCEPT ![s][a] = ROLE_NONE]
BY RemoveIndex, RemoveMemberships DEF ListInv

\* Calls that do not touch the three copies keep them in step.
LEMMA UnchangedLists ==
  ASSUME ListInv, UNCHANGED aclVars
  PROVE  ListInv' /\ Grants' = Grants
<1>1. UNCHANGED <<acl, aclIndex, memberships>>
  BY DEF aclVars
<1>2. Grants' = Grants
  BY <1>1 DEF Grants, Listed
<1>3. ListTypes' /\ IndexMatchesList'
  BY <1>1 DEF ListInv, ListTypes, IndexMatchesList
<1>4. MembershipsMirrorACL'
  BY <1>1, <1>2 DEF ListInv, MembershipsMirrorACL
<1> QED
  BY <1>2, <1>3, <1>4 DEF ListInv

-----------------------------------------------------------------------------
(***************************************************************************)
(* The catalogue of sections and the lists of attribute keys.              *)
(***************************************************************************)

\* Tracking a section lists it, and loses no other.
LEMMA TrackKeepsCatalogue ==
  ASSUME sectionNames \in Seq(Section), sectionSeen \in [Section -> BOOLEAN],
         SectionsListedOnce, NEW s \in Section, TrackSection(s)
  PROVE  /\ sectionNames' \in Seq(Section)
         /\ sectionSeen' \in [Section -> BOOLEAN]
         /\ SectionsListedOnce'
         /\ sectionSeen'[s]
         /\ \A t \in Section : sectionSeen[t] => sectionSeen'[t]
<1> DEFINE n == Len(sectionNames)
<1>1. n \in Nat
  BY LenProperties
<1>2. /\ sectionSeen' \in [Section -> BOOLEAN]
      /\ sectionSeen'[s]
      /\ \A t \in Section \ {s} : sectionSeen'[t] = sectionSeen[t]
  BY DEF TrackSection
<1>3. CASE sectionSeen[s]
  BY <1>2, <1>3 DEF TrackSection, SectionsListedOnce
<1>4. CASE ~sectionSeen[s]
  <2>1. /\ sectionNames' \in Seq(Section)
        /\ Len(sectionNames') = n + 1
        /\ \A i \in 1 .. n : sectionNames'[i] = sectionNames[i]
        /\ sectionNames'[n + 1] = s
    BY <1>4, AppendProperties DEF TrackSection
  <2>2. \A i \in 1 .. n : sectionNames[i] # s
    BY <1>4 DEF SectionsListedOnce
  <2>3. \A i, j \in 1 .. n + 1 : sectionNames'[i] = sectionNames'[j] => i = j
    BY <1>1, <2>1, <2>2 DEF SectionsListedOnce
  <2>4. ASSUME NEW t \in Section
        PROVE  sectionSeen'[t] <=> \E i \in 1 .. n + 1 : sectionNames'[i] = t
    <3>1. CASE t = s
      BY <3>1, <1>1, <1>2, <2>1
    <3>2. CASE t # s
      <4>1. sectionSeen'[t] <=> \E i \in 1 .. n : sectionNames[i] = t
        BY <3>2, <1>2 DEF SectionsListedOnce
      <4> QED
        BY <3>2, <4>1, <1>1, <2>1
    <3> QED
      BY <3>1, <3>2
  <2> QED
    BY <1>2, <2>1, <2>3, <2>4 DEF SectionsListedOnce
<1> QED
  BY <1>3, <1>4

KeyTypes ==
  /\ keyList \in [Kind -> [Section -> Seq(Key)]]
  /\ keySeen \in [Kind -> [Section -> [Key -> BOOLEAN]]]

\* What AttributesEnumerable says of one kind and section: sn is the seen
\* flags, q the list.
Enumerated(sn, q) ==
  /\ \A k \in Key : sn[k] <=> \E i \in 1 .. Len(q) : q[i] = k
  /\ \A i, j \in 1 .. Len(q) : q[i] = q[j] => i = j

LEMMA EnumerableEachway ==
  /\ AttributesEnumerable <=>
       \A d \in Kind, t \in Section : Enumerated(keySeen[d][t], keyList[d][t])
  /\ AttributesEnumerable' <=>
       \A d \in Kind, t \in Section : Enumerated(keySeen'[d][t], keyList'[d][t])
BY DEF AttributesEnumerable, Enumerated

\* A key that is not listed yet can be appended and flagged.
LEMMA AppendEnumerated ==
  ASSUME NEW q \in Seq(Key), NEW sn \in [Key -> BOOLEAN], Enumerated(sn, q),
         NEW k \in Key, ~sn[k]
  PROVE  Enumerated([sn EXCEPT ![k] = TRUE], Append(q, k))
<1> DEFINE n == Len(q)
           u == Append(q, k)
<1>1. /\ n \in Nat
      /\ Len(u) = n + 1
      /\ \A i \in 1 .. n : u[i] = q[i]
      /\ u[n + 1] = k
  BY LenProperties, AppendProperties
<1>2. \A i \in 1 .. n : q[i] # k
  BY DEF Enumerated
<1> HIDE DEF u
<1>3. \A i, j \in 1 .. n + 1 : u[i] = u[j] => i = j
  BY <1>1, <1>2 DEF Enumerated
<1>4. ASSUME NEW l \in Key
      PROVE  [sn EXCEPT ![k] = TRUE][l] <=> \E i \in 1 .. n + 1 : u[i] = l
  <2>1. CASE l = k
    BY <2>1, <1>1
  <2>2. CASE l # k
    <3>1. [sn EXCEPT ![k] = TRUE][l] <=> \E i \in 1 .. n : q[i] = l
      BY <2>2 DEF Enumerated
    <3> QED
      BY <2>2, <3>1, <1>1
  <2> QED
    BY <2>1, <2>2
<1> QED
  BY <1>1, <1>3, <1>4 DEF Enumerated, u

\* Writing an attribute lists its key the first time, and touches no other
\* section's list.
LEMMA WriteKeepsKeys ==
  ASSUME KeyTypes, AttributesEnumerable,
         NEW kind \in Kind, NEW s \in Section, NEW k \in Key,
         WriteAttribute(kind, s, k)
  PROVE  /\ KeyTypes'
         /\ AttributesEnumerable'
         /\ \A t \in Section \ {s}, d \in Kind : keyList'[d][t] = keyList[d][t]
<1> DEFINE q  == keyList[kind][s]
           sn == keySeen[kind][s]
<1>1. q \in Seq(Key) /\ sn \in [Key -> BOOLEAN]
  BY DEF KeyTypes
<1>2. \A d \in Kind, t \in Section : Enumerated(keySeen[d][t], keyList[d][t])
  BY EnumerableEachway
<1>3. /\ keySeen' \in [Kind -> [Section -> [Key -> BOOLEAN]]]
      /\ keySeen'[kind][s] = [sn EXCEPT ![k] = TRUE]
      /\ \A d \in Kind, t \in Section :
           (d # kind \/ t # s) => keySeen'[d][t] = keySeen[d][t]
  BY DEF WriteAttribute, KeyTypes
<1>4. CASE sn[k]
  <2>1. keyList' = keyList
    BY <1>4 DEF WriteAttribute
  <2>2. [sn EXCEPT ![k] = TRUE] = sn
    BY <1>1, <1>4
  <2>3. \A d \in Kind, t \in Section : keySeen'[d][t] = keySeen[d][t]
    BY <1>3, <2>2
  <2> QED
    BY <1>2, <1>3, <2>1, <2>3, EnumerableEachway DEF KeyTypes
<1>5. CASE ~sn[k]
  <2>1. Append(q, k) \in Seq(Key)
    BY <1>1, AppendProperties
  <2>2. keyList' = [keyList EXCEPT ![kind][s] = Append(q, k)]
    BY <1>5 DEF WriteAttribute
  <2>3. /\ keyList' \in [Kind -> [Section -> Seq(Key)]]
        /\ keyList'[kind][s] = Append(q, k)
        /\ \A d \in Kind, t \in Section :
             (d # kind \/ t # s) => keyList'[d][t] = keyList[d][t]
    BY <2>1, <2>2 DEF KeyTypes
  <2>4. Enumerated([sn EXCEPT ![k] = TRUE], Append(q, k))
    BY <1>1, <1>2, <1>5, AppendEnumerated
  <2>5. \A d \in Kind, t \in Section : Enumerated(keySeen'[d][t], keyList'[d][t])
    BY <1>2, <1>3, <2>3, <2>4
  <2> QED
    BY <1>3, <2>3, <2>5, EnumerableEachway DEF KeyTypes
<1> QED
  BY <1>4, <1>5

-----------------------------------------------------------------------------
(***************************************************************************)
(* The inductive invariant: every part of the contract's own storage.      *)
(* Only TypeOK speaks of the stewards, who are the inheriting contract's.  *)
(***************************************************************************)

CatalogueTypes ==
  /\ sectionNames \in Seq(Section)
  /\ sectionSeen \in [Section -> BOOLEAN]

InviteTypes ==
  /\ DOMAIN invites \subseteq Code
  /\ \A c \in DOMAIN invites : invites[c] \in Invite

StorageInv ==
  /\ ListInv
  /\ CatalogueTypes
  /\ SectionsCatalogued
  /\ KeyTypes
  /\ AttributesEnumerable
  /\ InviteTypes

\* A step keeps the catalogue complete when every section that holds
\* something after it did so before or is marked by it.
LEMMA CatalogueStaysComplete ==
  ASSUME StorageInv, SectionsListedOnce',
         \A t \in Section : sectionSeen[t] => sectionSeen'[t],
         \A t \in Section : HoldsSomething(t)' => HoldsSomething(t) \/ sectionSeen'[t]
  PROVE  SectionsCatalogued'
BY DEF StorageInv, SectionsCatalogued

\* The roles a call lets through are the roles an entry may have.
LEMMA ValidRole ==
  ASSUME NEW r \in RoleInput, r <= ROLE_OWNER, r # ROLE_NONE
  PROVE  r \in Role \ {ROLE_NONE}
BY RoleInputAssumption DEF Role, ROLE_NONE, ROLE_OWNER

LEMMA SetMemberStep ==
  ASSUME StorageInv, NEW caller \in Caller, NEW s \in Section, NEW a \in Address,
         NEW r \in RoleInput, SetMember(caller, s, a, r)
  PROVE  /\ StorageInv'
         /\ Grants' = [Grants EXCEPT ![s][a] = r]
<1>1. r \in Role \ {ROLE_NONE} /\ a \in Address \ {ZERO}
  BY ValidRole DEF SetMember
<1>2. ListInv' /\ Grants' = [Grants EXCEPT ![s][a] = r]
  BY <1>1, GrantKeepsLists DEF SetMember, StorageInv
<1>3. /\ CatalogueTypes' /\ SectionsListedOnce'
      /\ sectionSeen'[s]
      /\ \A t \in Section : sectionSeen[t] => sectionSeen'[t]
  BY TrackKeepsCatalogue DEF SetMember, StorageInv, CatalogueTypes, SectionsCatalogued
<1>4. UNCHANGED <<keyList, keySeen, invites>>
  BY DEF SetMember, keyVars
<1>5. \A t \in Section : HoldsSomething(t)' => HoldsSomething(t) \/ sectionSeen'[t]
  <2>1. \A t \in Section \ {s} : acl'[t] = acl[t]
    BY DEF SetMember, Enroll, Reassign, StorageInv, ListInv, ListTypes
  <2> QED
    BY <2>1, <1>3, <1>4 DEF HoldsSomething
<1>6. SectionsCatalogued'
  BY <1>3, <1>5, CatalogueStaysComplete
<1>7. KeyTypes' /\ AttributesEnumerable' /\ InviteTypes'
  BY <1>4 DEF StorageInv, KeyTypes, AttributesEnumerable, InviteTypes
<1> QED
  BY <1>2, <1>3, <1>6, <1>7 DEF StorageInv

LEMMA RemoveMemberStep ==
  ASSUME StorageInv, NEW caller \in Caller, NEW s \in Section, NEW a \in Address,
         RemoveMember(caller, s, a)
  PROVE  /\ StorageInv'
         /\ Grants' = [Grants EXCEPT ![s][a] = ROLE_NONE]
<1>1. ListInv' /\ Grants' = [Grants EXCEPT ![s][a] = ROLE_NONE]
  BY RemoveKeepsLists DEF StorageInv
<1>2. UNCHANGED <<sectionNames, sectionSeen, keyList, keySeen, invites>>
  BY DEF RemoveMember, sectionVars, keyVars
<1>3. SectionsListedOnce' /\ CatalogueTypes' /\ KeyTypes' /\ AttributesEnumerable' /\ InviteTypes'
  BY <1>2 DEF StorageInv, SectionsCatalogued, SectionsListedOnce, CatalogueTypes,
              KeyTypes, AttributesEnumerable, InviteTypes
<1>4. \A t \in Section : HoldsSomething(t)' => HoldsSomething(t)
  <2>1. \A t \in Section \ {s} : acl'[t] = acl[t]
    BY DEF RemoveMember, StorageInv, ListInv, ListTypes
  <2>2. acl[s] # <<>>
    <3>1. aclIndex[s][a] \in 1 .. Len(acl[s])
      BY DEF RemoveMember, StorageInv, ListInv, IndexMatchesList
    <3>2. Len(acl[s]) # 0
      BY <3>1
    <3> QED
      BY <3>2, EmptySeq
  <2> QED
    BY <2>1, <2>2, <1>2 DEF HoldsSomething
<1>5. SectionsCatalogued'
  BY <1>2, <1>3, <1>4, CatalogueStaysComplete
<1> QED
  BY <1>1, <1>3, <1>5 DEF StorageInv

LEMMA SetAttributeStep ==
  ASSUME StorageInv, NEW caller \in Caller, NEW kind \in Kind, NEW s \in Section,
         NEW k \in Key, SetAttribute(caller, kind, s, k)
  PROVE  StorageInv' /\ Grants' = Grants
<1>1. ListInv' /\ Grants' = Grants /\ UNCHANGED <<acl, invites>>
  BY UnchangedLists DEF SetAttribute, StorageInv, aclVars
<1>2. /\ CatalogueTypes' /\ SectionsListedOnce'
      /\ sectionSeen'[s]
      /\ \A t \in Section : sectionSeen[t] => sectionSeen'[t]
  BY TrackKeepsCatalogue DEF SetAttribute, WriteAttribute, StorageInv, CatalogueTypes,
                             SectionsCatalogued
<1>3. /\ KeyTypes' /\ AttributesEnumerable'
      /\ \A t \in Section \ {s}, d \in Kind : keyList'[d][t] = keyList[d][t]
  BY WriteKeepsKeys DEF SetAttribute, StorageInv
<1>4. \A t \in Section : HoldsSomething(t)' => HoldsSomething(t) \/ sectionSeen'[t]
  BY <1>1, <1>2, <1>3 DEF HoldsSomething
<1>5. SectionsCatalogued'
  BY <1>2, <1>4, CatalogueStaysComplete
<1>6. InviteTypes'
  BY <1>1 DEF StorageInv, InviteTypes
<1> QED
  BY <1>1, <1>2, <1>3, <1>5, <1>6 DEF StorageInv

LEMMA CreateInviteStep ==
  ASSUME StorageInv, NEW caller \in Caller, NEW c \in Code, NEW s \in Section,
         NEW r \in RoleInput, CreateInvite(caller, c, s, r)
  PROVE  /\ StorageInv' /\ Grants' = Grants
         /\ r \in Role \ {ROLE_NONE}
<1>1. ListInv' /\ Grants' = Grants /\ UNCHANGED <<acl, keyList, keySeen>>
  BY UnchangedLists DEF CreateInvite, StorageInv, aclVars, keyVars
<1>2. /\ CatalogueTypes' /\ SectionsListedOnce'
      /\ sectionSeen'[s]
      /\ \A t \in Section : sectionSeen[t] => sectionSeen'[t]
  BY TrackKeepsCatalogue DEF CreateInvite, StorageInv, CatalogueTypes, SectionsCatalogued
<1>3. KeyTypes' /\ AttributesEnumerable'
  BY <1>1 DEF StorageInv, KeyTypes, AttributesEnumerable
<1>4. r \in Role \ {ROLE_NONE}
  BY ValidRole DEF CreateInvite
<1>5. /\ DOMAIN invites' = DOMAIN invites \cup {c}
      /\ \A d \in DOMAIN invites' : invites'[d] =
           IF d = c THEN [section |-> s, role |-> r, used |-> FALSE] ELSE invites[d]
  BY DEF CreateInvite, WithInvite
<1>6. InviteTypes'
  <2>1. [section |-> s, role |-> r, used |-> FALSE] \in Invite
    BY <1>4 DEF Invite
  <2> QED
    BY <2>1, <1>5 DEF InviteTypes, StorageInv
<1>7. \A t \in Section : HoldsSomething(t)' => HoldsSomething(t) \/ sectionSeen'[t]
  <2>1. \A d \in DOMAIN invites' : d = c \/ (d \in DOMAIN invites /\ invites'[d] = invites[d])
    BY <1>5
  <2>2. invites'[c].section = s
    BY <1>5
  <2> QED
    BY <2>1, <2>2, <1>1, <1>2 DEF HoldsSomething
<1>8. SectionsCatalogued'
  BY <1>2, <1>7, CatalogueStaysComplete
<1> QED
  BY <1>1, <1>2, <1>3, <1>4, <1>6, <1>8 DEF StorageInv

\* redeemInvite tracks nothing: the invite it uses keeps its section marked.
LEMMA RedeemInviteStep ==
  ASSUME StorageInv, NEW c \in Code, NEW a \in Address, RedeemInvite(c, a)
  PROVE  /\ StorageInv'
         /\ c \in DOMAIN invites
         /\ invites[c] \in Invite
         /\ Grants' = [Grants EXCEPT ![invites[c].section][a] = invites[c].role]
<1> DEFINE inv == invites[c]
           s   == inv.section
<1>1. c \in DOMAIN invites /\ inv \in Invite
  BY DEF RedeemInvite, StorageInv, InviteTypes
<1>2. s \in Section /\ inv.role \in Role \ {ROLE_NONE} /\ a \in Address \ {ZERO}
  BY <1>1 DEF Invite, RedeemInvite
<1>3. Enroll(s, a, inv.role) \/ Reassign(s, a, inv.role)
  BY DEF RedeemInvite
<1>4. ListInv' /\ Grants' = [Grants EXCEPT ![s][a] = inv.role]
  BY <1>2, <1>3, GrantKeepsLists DEF StorageInv
<1>5. UNCHANGED <<sectionNames, sectionSeen, keyList, keySeen>>
  BY DEF RedeemInvite, sectionVars, keyVars
<1>6. SectionsListedOnce' /\ CatalogueTypes' /\ KeyTypes' /\ AttributesEnumerable'
  BY <1>5 DEF StorageInv, SectionsCatalogued, SectionsListedOnce, CatalogueTypes,
              KeyTypes, AttributesEnumerable
<1>7. /\ DOMAIN invites' = DOMAIN invites
      /\ \A d \in DOMAIN invites :
           invites'[d] = IF d = c THEN [inv EXCEPT !.used = TRUE] ELSE invites[d]
  BY DEF RedeemInvite
<1>8. [inv EXCEPT !.used = TRUE] \in Invite /\ [inv EXCEPT !.used = TRUE].section = s
  BY <1>1 DEF Invite
<1>9. InviteTypes'
  BY <1>7, <1>8 DEF InviteTypes, StorageInv
<1>10. \A t \in Section : HoldsSomething(t)' => HoldsSomething(t) \/ sectionSeen'[t]
  <2>1. \A t \in Section \ {s} : acl'[t] = acl[t]
    BY <1>2, <1>3 DEF Enroll, Reassign, StorageInv, ListInv, ListTypes
  <2>2. \A d \in DOMAIN invites' : d \in DOMAIN invites /\ invites'[d].section = invites[d].section
    BY <1>7, <1>8
  <2>3. HoldsSomething(s)
    BY <1>1 DEF HoldsSomething
  <2> QED
    BY <2>1, <2>2, <2>3, <1>5 DEF HoldsSomething
<1>11. SectionsCatalogued'
  BY <1>5, <1>6, <1>10, CatalogueStaysComplete
<1> QED
  BY <1>1, <1>4, <1>6, <1>9, <1>11 DEF StorageInv

-----------------------------------------------------------------------------
(***************************************************************************)
(* The theorems.                                                           *)
(***************************************************************************)

LEMMA InitStorage ==
  ASSUME Init
  PROVE  StorageInv /\ stewards \subseteq Caller
<1>1. /\ Len(<<>>) = 0
      /\ \A S : <<>> \in Seq(S)
  OBVIOUS
<1>2. ListInv
  BY <1>1 DEF Init, ListInv, ListTypes, IndexMatchesList, MembershipsMirrorACL
<1>3. CatalogueTypes /\ SectionsListedOnce
  BY <1>1 DEF Init, CatalogueTypes, SectionsListedOnce
<1>4. \A s \in Section : ~HoldsSomething(s)
  BY DEF Init, HoldsSomething
<1>5. KeyTypes
  BY <1>1 DEF Init, KeyTypes
<1>6. AttributesEnumerable
  BY <1>1 DEF Init, AttributesEnumerable
<1>7. InviteTypes
  BY DEF Init, InviteTypes
<1> QED
  BY <1>2, <1>3, <1>4, <1>5, <1>6, <1>7 DEF StorageInv, SectionsCatalogued, Init

\* Every call keeps the storage invariant.
LEMMA CallStep ==
  ASSUME StorageInv, NEW caller \in Caller, Call(caller)
  PROVE  StorageInv'
<1>1. CASE \E s \in Section, a \in Address, r \in RoleInput : SetMember(caller, s, a, r)
  BY <1>1, SetMemberStep
<1>2. CASE \E s \in Section, a \in Address : RemoveMember(caller, s, a)
  BY <1>2, RemoveMemberStep
<1>3. CASE \E kind \in Kind, s \in Section, k \in Key : SetAttribute(caller, kind, s, k)
  BY <1>3, SetAttributeStep
<1>4. CASE \E c \in Code, s \in Section, r \in RoleInput : CreateInvite(caller, c, s, r)
  BY <1>4, CreateInviteStep
<1>5. CASE \E c \in Code, a \in Address : RedeemInvite(c, a)
  BY <1>5, RedeemInviteStep
<1> QED
  BY <1>1, <1>2, <1>3, <1>4, <1>5 DEF Call

\* A step that leaves the storage alone keeps the invariant.
LEMMA UnchangedStorage ==
  ASSUME StorageInv, UNCHANGED accessVars
  PROVE  StorageInv' /\ Grants' = Grants
<1>1. UNCHANGED <<aclVars, sectionNames, sectionSeen, keyList, keySeen, invites>>
  BY DEF accessVars, sectionVars, keyVars
<1>2. ListInv' /\ Grants' = Grants /\ acl' = acl
  BY <1>1, UnchangedLists DEF StorageInv, aclVars
<1>3. CatalogueTypes' /\ SectionsListedOnce' /\ KeyTypes' /\ AttributesEnumerable' /\ InviteTypes'
  BY <1>1 DEF StorageInv, SectionsCatalogued, SectionsListedOnce, CatalogueTypes,
              KeyTypes, AttributesEnumerable, InviteTypes
<1>4. SectionsCatalogued'
  BY <1>1, <1>2, <1>3 DEF StorageInv, SectionsCatalogued, HoldsSomething
<1> QED
  BY <1>2, <1>3, <1>4 DEF StorageInv

LEMMA StorageStep ==
  ASSUME StorageInv, stewards \subseteq Caller, [Next]_vars
  PROVE  StorageInv' /\ stewards' \subseteq Caller
<1>1. CASE \E caller \in Caller : Call(caller) /\ UNCHANGED stewards
  BY <1>1, CallStep
<1>2. CASE StewardsChange
  BY <1>2, UnchangedStorage DEF StewardsChange
<1>3. CASE UNCHANGED vars
  BY <1>3, UnchangedStorage DEF vars
<1> QED
  BY <1>1, <1>2, <1>3 DEF Next

\* The contract's storage is consistent in every reachable state.
THEOREM StorageIsConsistent == Spec => [](StorageInv /\ stewards \subseteq Caller)
<1>1. Init => StorageInv /\ stewards \subseteq Caller
  BY InitStorage
<1>2. StorageInv /\ stewards \subseteq Caller /\ [Next]_vars
        => (StorageInv /\ stewards \subseteq Caller)'
  BY StorageStep
<1> QED
  BY <1>1, <1>2, PTL DEF Spec

\* Every variable keeps its type: in particular no entry ever has a role
\* above owner, whatever role the callers of setMember and createInvite pass.
THEOREM TypesCorrect == Spec => []TypeOK
<1>1. StorageInv /\ stewards \subseteq Caller => TypeOK
  BY DEF StorageInv, ListInv, ListTypes, CatalogueTypes, KeyTypes, InviteTypes, TypeOK
<1> QED
  BY <1>1, StorageIsConsistent, PTL

\* The 1-based index and the list of a section never disagree (setMember,
\* removeMember with its swap, redeemInvite).
THEOREM IndexAlwaysMatchesList == Spec => []IndexMatchesList
<1>1. StorageInv => IndexMatchesList
  BY DEF StorageInv, ListInv
<1> QED
  BY <1>1, StorageIsConsistent, PTL

\* An address's own memberships say what the sections' lists say of it.
THEOREM MembershipsAlwaysMirrorACL == Spec => []MembershipsMirrorACL
<1>1. StorageInv => MembershipsMirrorACL
  BY DEF StorageInv, ListInv
<1> QED
  BY <1>1, StorageIsConsistent, PTL

\* No section that holds anything is missing from getSectionNames, though
\* redeemInvite tracks none.
THEOREM SectionsAlwaysCatalogued == Spec => []SectionsCatalogued
<1>1. StorageInv => SectionsCatalogued
  BY DEF StorageInv
<1> QED
  BY <1>1, StorageIsConsistent, PTL

\* getPublicKeys and getSecretKeys list every attribute once.
THEOREM AttributesAlwaysEnumerable == Spec => []AttributesEnumerable
<1>1. StorageInv => AttributesEnumerable
  BY DEF StorageInv
<1> QED
  BY <1>1, StorageIsConsistent, PTL

-----------------------------------------------------------------------------
(***************************************************************************)
(* What a step may never do.                                               *)
(***************************************************************************)

\* Only createInvite adds an invite, only redeemInvite rewrites one.
LEMMA InviteStep ==
  ASSUME StorageInv, [Next]_vars, NEW c \in DOMAIN invites
  PROVE  /\ c \in DOMAIN invites'
         /\ [invites'[c] EXCEPT !.used = invites[c].used] = invites[c]
         /\ invites[c].used => invites'[c].used
<1>1. invites[c] \in Invite
  BY DEF StorageInv, InviteTypes
<1>2. [invites[c] EXCEPT !.used = invites[c].used] = invites[c]
  BY <1>1 DEF Invite
<1>3. CASE UNCHANGED invites
  BY <1>2, <1>3
<1>4. ASSUME NEW caller \in Caller, NEW d \in Code, NEW s \in Section, NEW r \in RoleInput,
             CreateInvite(caller, d, s, r)
      PROVE  c \in DOMAIN invites' /\ invites'[c] = invites[c]
  BY <1>4 DEF CreateInvite, WithInvite
<1>5. ASSUME NEW d \in Code, NEW a \in Address, RedeemInvite(d, a)
      PROVE  /\ c \in DOMAIN invites'
             /\ invites'[c] = IF c = d THEN [invites[c] EXCEPT !.used = TRUE] ELSE invites[c]
  BY <1>5 DEF RedeemInvite
<1>6. [[invites[c] EXCEPT !.used = TRUE] EXCEPT !.used = invites[c].used] = invites[c]
  BY <1>1 DEF Invite
<1>7. [invites[c] EXCEPT !.used = TRUE].used
  BY <1>1 DEF Invite
<1>8. CASE \E caller \in Caller : Call(caller)
  <2>1. CASE \E d \in Code, a \in Address : RedeemInvite(d, a)
    BY <2>1, <1>2, <1>5, <1>6, <1>7
  <2>2. CASE \E caller \in Caller, d \in Code, s \in Section, r \in RoleInput :
               CreateInvite(caller, d, s, r)
    BY <2>2, <1>2, <1>4
  <2>3. CASE UNCHANGED invites
    BY <2>3, <1>3
  <2> QED
    BY <1>8, <2>1, <2>2, <2>3 DEF Call, SetMember, RemoveMember, SetAttribute
<1> QED
  BY <1>3, <1>8 DEF Next, StewardsChange, vars, accessVars

\* An invite is never issued twice, rewritten or revived.
THEOREM InvitesStayFinal == Spec => InvitesAreFinal
<1>1. StorageInv /\ [Next]_vars =>
        [\A c \in DOMAIN invites :
           /\ c \in DOMAIN invites'
           /\ [invites'[c] EXCEPT !.used = invites[c].used] = invites[c]
           /\ invites[c].used => invites'[c].used]_vars
  BY InviteStep
<1> QED
  BY <1>1, StorageIsConsistent, PTL DEF Spec, InvitesAreFinal

\* The parts of a step that concern a section nobody manages.
LEMMA FrozenStep ==
  ASSUME StorageInv, Next, NEW s \in Section,
         \A u \in Caller : ~CanManage(s, u)
  PROVE  /\ \/ acl'[s] = acl[s]
            \/ \E c \in DOMAIN invites :
                 /\ invites[c].section = s
                 /\ ~invites[c].used /\ invites'[c].used
         /\ \A kind \in Kind : keyList'[kind][s] = keyList[kind][s]
         /\ \A c \in DOMAIN invites' \ DOMAIN invites : invites'[c].section # s
<1>1. CASE StewardsChange
  BY <1>1 DEF StewardsChange, accessVars, aclVars, keyVars
<1>2. ASSUME NEW caller \in Caller, NEW t \in Section, NEW a \in Address,
             (\E r \in RoleInput : SetMember(caller, t, a, r)) \/ RemoveMember(caller, t, a)
      PROVE  acl'[s] = acl[s] /\ UNCHANGED <<keyList, invites>>
  <2>1. t # s
    BY <1>2 DEF SetMember, RemoveMember
  <2> QED
    BY <1>2, <2>1 DEF SetMember, RemoveMember, Enroll, Reassign, keyVars,
                      StorageInv, ListInv, ListTypes
<1>3. ASSUME NEW caller \in Caller, NEW kind \in Kind, NEW t \in Section, NEW k \in Key,
             SetAttribute(caller, kind, t, k)
      PROVE  /\ UNCHANGED <<acl, invites>>
             /\ \A d \in Kind : keyList'[d][s] = keyList[d][s]
  <2>1. t # s
    BY <1>3 DEF SetAttribute
  <2>2. \A u \in Section \ {t}, d \in Kind : keyList'[d][u] = keyList[d][u]
    BY <1>3, WriteKeepsKeys DEF SetAttribute, StorageInv
  <2> QED
    BY <1>3, <2>1, <2>2 DEF SetAttribute, aclVars
<1>4. ASSUME NEW caller \in Caller, NEW c \in Code, NEW t \in Section, NEW r \in RoleInput,
             CreateInvite(caller, c, t, r)
      PROVE  /\ UNCHANGED <<acl, keyList>>
             /\ \A d \in DOMAIN invites' \ DOMAIN invites : invites'[d].section # s
  <2>1. t # s
    BY <1>4 DEF CreateInvite
  <2>2. \A d \in DOMAIN invites' \ DOMAIN invites : invites'[d].section = t
    BY <1>4 DEF CreateInvite, WithInvite
  <2> QED
    BY <1>4, <2>1, <2>2 DEF CreateInvite, aclVars, keyVars
<1>5. ASSUME NEW c \in Code, NEW a \in Address, RedeemInvite(c, a)
      PROVE  /\ UNCHANGED keyList
             /\ DOMAIN invites' = DOMAIN invites
             /\ \/ acl'[s] = acl[s]
                \/ c \in DOMAIN invites /\ invites[c].section = s
                     /\ ~invites[c].used /\ invites'[c].used
  <2>1. c \in DOMAIN invites /\ invites[c] \in Invite
    BY <1>5 DEF RedeemInvite, StorageInv, InviteTypes
  <2>2. invites'[c].used
    BY <1>5, <2>1 DEF RedeemInvite, Invite
  <2>3. invites[c].section # s => acl'[s] = acl[s]
    BY <1>5, <2>1 DEF RedeemInvite, Enroll, Reassign, StorageInv, ListInv, ListTypes
  <2> QED
    BY <1>5, <2>1, <2>2, <2>3 DEF RedeemInvite, keyVars
<1>6. CASE \E caller \in Caller : Call(caller)
  BY <1>6, <1>2, <1>3, <1>4, <1>5 DEF Call
<1> QED
  BY <1>1, <1>6 DEF Next

\* A section without a manager changes only by invites that are out already.
THEOREM UnmanagedSectionsFrozen == Spec => UnmanagedSectionFrozen
<1>1. StorageInv /\ [Next]_vars =>
        [\A s \in Section :
           (\A u \in Caller : ~CanManage(s, u)) =>
             /\ \/ acl'[s] = acl[s]
                \/ \E c \in DOMAIN invites :
                     /\ invites[c].section = s
                     /\ ~invites[c].used /\ invites'[c].used
             /\ \A kind \in Kind : keyList'[kind][s] = keyList[kind][s]
             /\ \A c \in DOMAIN invites' \ DOMAIN invites : invites'[c].section # s]_vars
  BY FrozenStep
<1> QED
  BY <1>1, StorageIsConsistent, PTL DEF Spec, UnmanagedSectionFrozen

-----------------------------------------------------------------------------
(***************************************************************************)
(* Refinement: the mapping takes the lists to the relation they stand for, *)
(* and every step to one step of AccessSpec or to none.                    *)
(***************************************************************************)

\* Both specifications give an address the same role.
LEMMA RolesAgree ==
  ASSUME StorageInv, NEW s \in Section, NEW a \in Address
  PROVE  RoleOf(s, a) = Abstract!RoleOf(s, a)
BY ListedRole, AddressAssumption
   DEF RoleOf, Abstract!RoleOf, Abstract!Owner, Abstract!None, ROLE_OWNER, ROLE_NONE,
       Grants, Listed, StorageInv, ListInv

LEMMA ManagersAgree ==
  ASSUME StorageInv, NEW s \in Section, NEW a \in Address, CanManage(s, a)
  PROVE  Abstract!Manages(s, a)
BY RolesAgree DEF CanManage, Abstract!Manages, Abstract!Admin, ROLE_ADMIN

LEMMA SameRoles ==
  /\ Role = Abstract!Role
  /\ Role \ {ROLE_NONE} = Abstract!Role \ {Abstract!None}
  /\ ROLE_NONE \in Abstract!Role
  /\ Caller = Abstract!Caller
BY DEF Role, Abstract!Role, ROLE_NONE, ROLE_OWNER, Abstract!None, Abstract!Owner,
       Caller, Abstract!Caller

LEMMA InitRefines ==
  ASSUME Init
  PROVE  Abstract!Init
BY DEF Init, Abstract!Init, Grants, Listed, ROLE_NONE, Abstract!None, Caller, Abstract!Caller

LEMMA StepRefines ==
  ASSUME StorageInv, [Next]_vars
  PROVE  [Abstract!Next]_(Abstract!vars)
<1>1. ASSUME NEW caller \in Caller, UNCHANGED stewards,
             NEW s \in Section, NEW a \in Address, NEW r \in RoleInput,
             SetMember(caller, s, a, r)
      PROVE  Abstract!Assign
  <2>1. Grants' = [Grants EXCEPT ![s][a] = r]
    BY <1>1, SetMemberStep
  <2>2. r \in Abstract!Role /\ a \in Address \ {ZERO}
    BY <1>1, ValidRole, SameRoles DEF SetMember
  <2>3. Abstract!Manages(s, caller) /\ caller \in Abstract!Caller
    BY <1>1, ManagersAgree, SameRoles DEF SetMember, Caller
  <2> QED
    BY <1>1, <2>1, <2>2, <2>3 DEF Abstract!Assign, SetMember
<1>2. ASSUME NEW caller \in Caller, UNCHANGED stewards,
             NEW s \in Section, NEW a \in Address, RemoveMember(caller, s, a)
      PROVE  Abstract!Assign
  <2>1. Grants' = [Grants EXCEPT ![s][a] = ROLE_NONE]
    BY <1>2, RemoveMemberStep
  <2>2. a # ZERO
    <3>1. /\ aclIndex[s][a] \in 1 .. Len(acl[s])
          /\ acl[s][aclIndex[s][a]].addr = a
      BY <1>2 DEF RemoveMember, StorageInv, ListInv, IndexMatchesList
    <3>2. acl[s][aclIndex[s][a]] \in ACLEntry
      BY <3>1, ElementOfSeq DEF StorageInv, ListInv, ListTypes
    <3> QED
      BY <3>1, <3>2 DEF ACLEntry
  <2>3. Abstract!Manages(s, caller) /\ caller \in Abstract!Caller
    BY <1>2, ManagersAgree, SameRoles DEF RemoveMember, Caller
  <2> QED
    BY <1>2, <2>1, <2>2, <2>3, SameRoles DEF Abstract!Assign, RemoveMember
<1>3. ASSUME NEW caller \in Caller, UNCHANGED stewards,
             NEW kind \in Kind, NEW s \in Section, NEW k \in Key,
             SetAttribute(caller, kind, s, k)
      PROVE  UNCHANGED Abstract!vars
  BY <1>3, SetAttributeStep DEF SetAttribute, Abstract!vars
<1>4. ASSUME NEW caller \in Caller, UNCHANGED stewards,
             NEW c \in Code, NEW s \in Section, NEW r \in RoleInput,
             CreateInvite(caller, c, s, r)
      PROVE  Abstract!Issue
  <2>1. Grants' = Grants /\ r \in Abstract!Role \ {Abstract!None}
    BY <1>4, CreateInviteStep, SameRoles
  <2>2. Abstract!Manages(s, caller) /\ caller \in Abstract!Caller
    BY <1>4, ManagersAgree, SameRoles DEF CreateInvite, Caller
  <2> QED
    BY <1>4, <2>1, <2>2 DEF Abstract!Issue, CreateInvite, WithInvite
<1>5. ASSUME UNCHANGED stewards, NEW c \in Code, NEW a \in Address, RedeemInvite(c, a)
      PROVE  Abstract!Redeem
  BY <1>5, RedeemInviteStep DEF Abstract!Redeem, RedeemInvite
<1>6. ASSUME StewardsChange
      PROVE  Abstract!Restaff
  BY <1>6, UnchangedStorage, SameRoles DEF StewardsChange, Abstract!Restaff, accessVars
<1>7. CASE UNCHANGED vars
  BY <1>7, UnchangedStorage DEF vars, Abstract!vars, accessVars
<1>8. CASE \E caller \in Caller : Call(caller) /\ UNCHANGED stewards
  BY <1>8, <1>1, <1>2, <1>3, <1>4, <1>5 DEF Call, Abstract!Next
<1> QED
  BY <1>6, <1>7, <1>8 DEF Next, Abstract!Next

\* The contract implements the plain relation, and roleOf answers from it.
THEOREM AccessImplemented == Spec => ImplementsAccessSpec
<1>1. Init => Abstract!Init
  BY InitRefines
<1>2. StorageInv /\ [Next]_vars => [Abstract!Next]_(Abstract!vars)
  BY StepRefines
<1> QED
  BY <1>1, <1>2, StorageIsConsistent, PTL DEF Spec, ImplementsAccessSpec, Abstract!Spec

=============================================================================
