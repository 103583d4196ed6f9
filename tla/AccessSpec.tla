----------------------------- MODULE AccessSpec -----------------------------
(***************************************************************************)
(* What EpisteryAccess promises to the contracts that inherit it and to    *)
(* the services that ask it who may do what: one role per section and      *)
(* address, one-shot invites, and managers as the only source of either.   *)
(* No lists, no indices: those belong to EpisteryAccess, which is shown to *)
(* implement this module.                                                  *)
(***************************************************************************)
EXTENDS Naturals

CONSTANTS
  Address,         \* every address that occurs, the two sentinels included
  DEFAULT_MEMBER,  \* the sentinel whose grant every unlisted address gets
  ZERO,            \* address(0)
  Section,         \* section names
  Code             \* hashes of invite codes

VARIABLES
  grant,     \* [Section -> [Address -> Role]], None where there is no grant
  invite,    \* the invites issued so far: codeHash -> [section, role, used]
  stewards   \* the addresses the concrete contract calls stewards

vars == <<grant, invite, stewards>>

None  == 0
Admin == 3
Owner == 4
Role  == None .. Owner

Caller == Address \ {ZERO, DEFAULT_MEMBER}

(***************************************************************************)
(* A steward owns every section; a listed address has exactly its grant;   *)
(* everybody else has the section's default.                               *)
(***************************************************************************)
RoleOf(s, a) ==
  IF a \in stewards THEN Owner
  ELSE IF grant[s][a] # None THEN grant[s][a]
  ELSE grant[s][DEFAULT_MEMBER]

Manages(s, a) == RoleOf(s, a) >= Admin

TypeOK ==
  /\ grant \in [Section -> [Address -> Role]]
  /\ DOMAIN invite \subseteq Code
  /\ \A c \in DOMAIN invite :
       invite[c] \in [section : Section, role : Role \ {None}, used : BOOLEAN]
  /\ stewards \subseteq Caller

-----------------------------------------------------------------------------
Init ==
  /\ grant = [s \in Section |-> [a \in Address |-> None]]
  /\ invite = [c \in {} |-> 0]
  /\ stewards \in SUBSET Caller

\* A manager of a section gives an address a role on it, or takes it away.
Assign ==
  \E s \in Section, by \in Caller, a \in Address \ {ZERO}, r \in Role :
    /\ Manages(s, by)
    /\ grant' = [grant EXCEPT ![s][a] = r]
    /\ UNCHANGED <<invite, stewards>>

\* A manager of a section issues an invite to it, under a code never used before.
Issue ==
  \E s \in Section, by \in Caller, c \in Code \ DOMAIN invite, r \in Role \ {None} :
    /\ Manages(s, by)
    /\ invite' = [x \in DOMAIN invite \cup {c} |->
                    IF x = c THEN [section |-> s, role |-> r, used |-> FALSE]
                             ELSE invite[x]]
    /\ UNCHANGED <<grant, stewards>>

\* Whoever has the code redeems it, once, for the address of their choice.
Redeem ==
  \E c \in DOMAIN invite, a \in Address \ {ZERO} :
    /\ ~invite[c].used
    /\ invite' = [invite EXCEPT ![c].used = TRUE]
    /\ grant' = [grant EXCEPT ![invite[c].section][a] = invite[c].role]
    /\ UNCHANGED stewards

\* The concrete contract decides who its stewards are, by its own rules.
Restaff ==
  /\ stewards' \in SUBSET Caller
  /\ UNCHANGED <<grant, invite>>

Next == Assign \/ Issue \/ Redeem \/ Restaff

Spec == Init /\ [][Next]_vars

=============================================================================
