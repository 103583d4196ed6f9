--------------------------- MODULE SessionServer ---------------------------
(***************************************************************************)
(* Sessions of a browser with a host: the handshake of client/witness.js   *)
(* (performKeyExchange, and the retries of bindToEpisteryIdentity), the    *)
(* host's /connect route (routes/connect.mjs, handleKeyExchange) and its   *)
(* authentication middleware (index.mjs), and of the chain what            *)
(* isAuthorized answers.                                                   *)
(*                                                                         *)
(* The host keeps no sessions: what it knows of a client is in the cookie. *)
(* The browser has one cookie for the host, and pages of it may have their *)
(* handshakes at the same time.  An action is what page, host or chain do  *)
(* between two awaits.  Signatures are what they prove, a message is the   *)
(* facts in it; keys, names, profiles and the host's own proof are left    *)
(* out, and so is the host's choice of its domain (DomainServer).          *)
(***************************************************************************)
EXTENDS Naturals

CONSTANTS
  Rivet,     \* the browser's rivets
  Contract,  \* identity contracts
  None,      \* none of these
  Page,      \* pages of the browser
  Attempts,  \* how often a bind tries: the length of delays
  Faults     \* bound: failing requests, changed wallets and closed pages

ASSUME SessionAssumption ==
  /\ None \notin Rivet \cup Contract
  /\ Attempts \in Nat \ {0} /\ Faults \in Nat

VARIABLES
  authorized,  \* [Contract -> the rivets it lists]
  pool,        \* addRivet transactions that are not mined
  listed,      \* <<contract, rivet>> that were ever authorized
  bound,       \* [Rivet -> the contract it was upgraded to]
  jar,         \* the cookie _epistery
  page,        \* [Page -> its handshake]
  author,      \* whose signature the handshake of that cookie had (observed)
  faults       \* how much has failed

vars == <<authorized, pool, listed, bound, jar, author, page, faults>>

chainUnchanged == UNCHANGED <<authorized, pool, listed>>

\* The two facts of a wallet, and of a cookie.
Facts  == [signer : Rivet, contract : Contract \cup {None}]
Nobody == [signer |-> None, contract |-> None]

\* identityAddress: never stored, always derived.
Identity(facts) == IF facts.contract # None THEN facts.contract ELSE facts.signer

\* A page without a handshake.  mine is its this.wallet, wallet the facts that the
\* attempt has read of it.  goal is the contract of a bind whose user has not
\* switched wallets; alone: no other page has had a handshake since it began.
Rest == [at |-> "idle", mine |-> Nobody, wallet |-> Nobody, goal |-> None, attempt |-> 0,
         seen |-> Nobody, proof |-> None, reply |-> Nobody, alone |-> FALSE]

Ended == {"idle", "bound"}

TypeOK ==
  /\ authorized \in [Contract -> SUBSET Rivet]
  /\ pool \subseteq Contract \X Rivet /\ listed \subseteq Contract \X Rivet
  /\ \A c \in Contract : \A r \in authorized[c] : <<c, r>> \in listed
  /\ bound \in [Rivet -> Contract \cup {None}]
  /\ jar \in Facts \cup {Nobody}
  /\ \A p \in Page :
       /\ page[p].at \in Ended \cup {"ask", "asked", "posted", "chain", "reply", "pause"}
       /\ page[p].wallet \in Facts \cup {Nobody} /\ page[p].mine \in Facts \cup {Nobody}
       /\ page[p].attempt \in 0 .. Attempts
       /\ page[p].reply # Nobody => page[p].at = "reply"
  /\ author \in Rivet \cup {None}
  /\ faults \in 0 .. Faults

Fault == faults < Faults /\ faults' = faults + 1
Fine  == UNCHANGED faults

-----------------------------------------------------------------------------
(***************************************************************************)
(* The page.                                                               *)
(***************************************************************************)

\* Another page's handshake has begun: the page is not alone any more.
Disturbed(q) ==
  IF page[q].at \in Ended THEN Rest ELSE [page[q] EXCEPT !.alone = FALSE, !.goal = None]

\* A handshake begins, for one attempt (connect) or several (bind, attempt 1).
Begin(p, wallet, attempt, goal) ==
  LET alone == attempt # 0 /\ \A x \in Page : page[x].at \in Ended
  IN  page' = [q \in Page |->
                 IF q = p
                   THEN [Rest EXCEPT !.at = "ask", !.mine = wallet, !.wallet = wallet, !.attempt = attempt,
                                     !.alone = alone, !.goal = IF alone THEN goal ELSE None]
                   ELSE Disturbed(q)]

\* What a wallet of the rivet r may state: its record may be read before it was bound.
Stated(r) == [signer : {r}, contract : {None, bound[r]}]

\* connect: with the wallet as it was when the page loaded it.
Connect(p, r, c) ==
  /\ page[p].at \in Ended /\ c \in {None, bound[r]}
  /\ Begin(p, [signer |-> r, contract |-> c], 0, None)
  /\ chainUnchanged /\ Fine
  /\ UNCHANGED <<bound, jar, author>>

\* bindToEpisteryIdentity: the token is accepted, and the rivet r upgraded,
\* while the issuer's addRivet transaction is on its way.  The handshake is for
\* this.wallet: another, if the user has switched while the issuer's window was open.
Bind(p, r, c) ==
  /\ page[p].at \in Ended /\ bound[r] = None
  /\ bound' = [bound EXCEPT ![r] = c]
  /\ pool' = pool \cup {<<c, r>>}
  /\ \/ Fine  /\ Begin(p, [signer |-> r, contract |-> c], 1, c)
     \/ Fault /\ \E x \in Rivet \ {r} : \E wallet \in Stated(x) : Begin(p, wallet, 1, None)
  /\ UNCHANGED <<authorized, listed, jar, author>>

\* setDefaultWallet, in the middle of a bind (a page's connect comes before its
\* user can).  this.wallet is read when an attempt begins and when it signs: a
\* switch at another time is one before these.
Switch(p) ==
  /\ page[p].at \in {"asked", "pause"} /\ page[p].attempt # 0 /\ Fault
  /\ \E r \in Rivet : \E wallet \in Stated(r) \ {page[p].mine} :
       page' = [page EXCEPT ![p].mine = wallet, ![p].goal = None]
  /\ chainUnchanged
  /\ UNCHANGED <<bound, jar, author>>

\* The page's bind waits for its next attempt.
Paused(p, attempt) ==
  [Rest EXCEPT !.at = "pause", !.mine = page[p].mine, !.goal = page[p].goal,
               !.attempt = attempt, !.alone = page[p].alone]

\* Mutant: failures are not counted.
FailUncounted(p) ==
  page' = [page EXCEPT ![p] =
             IF page[p].attempt = 0 THEN Rest ELSE Paused(p, page[p].attempt)]

\* Mutant: there is always another attempt.
FailForEver(p) ==
  page' = [page EXCEPT ![p] =
             IF page[p].attempt = 0 THEN Rest ELSE Paused(p, page[p].attempt + 1)]

\* performKeyExchange throws: a bind waits and tries again, or throws too.
Fail(p) ==
  page' = [page EXCEPT ![p] =
             IF page[p].attempt \in {0, Attempts} THEN Rest ELSE Paused(p, page[p].attempt + 1)]

Succeed(p) ==
  page' = [page EXCEPT ![p] =
             IF ~page[p].alone THEN Rest
             ELSE [Rest EXCEPT !.at = "bound", !.wallet = page[p].wallet,
                               !.goal = page[p].goal, !.alone = TRUE]]

\* GET /connect: the middleware tells what is in the cookie.
Ask(p) ==
  /\ page[p].at = "ask"
  /\ \/ Fine  /\ page' = [page EXCEPT ![p].at = "asked", ![p].seen = jar]
     \/ Fault /\ page' = [page EXCEPT ![p].at = "asked"]
  /\ chainUnchanged
  /\ UNCHANGED <<bound, jar, author>>

\* Mutant: a session of the same rivet is good enough.
SameSigner(seen, wallet) == seen.signer = wallet.signer

\* Mutant: any session is good enough.
AnySession(seen, wallet) == seen # Nobody

\* The cookie already names the identity.
AlreadyKnown(seen, wallet) == seen # Nobody /\ Identity(seen) = Identity(wallet)

\* The handshake is skipped, or its message is signed, by what is this.wallet by now.
Decide(p) ==
  /\ page[p].at = "asked"
  /\ \/ AlreadyKnown(page[p].seen, page[p].wallet) /\ Fine /\ Succeed(p)
     \/ /\ ~AlreadyKnown(page[p].seen, page[p].wallet)
        /\ \/ Fault /\ Fail(p)
           \/ /\ Fine
              /\ page' = [page EXCEPT ![p].at = "posted", ![p].proof = page[p].mine.signer,
                                      ![p].seen = Nobody]
  /\ chainUnchanged
  /\ UNCHANGED <<bound, jar, author>>

-----------------------------------------------------------------------------
(***************************************************************************)
(* The host's POST /connect, and the chain.                                *)
(***************************************************************************)

\* The host's answer: a cookie, or an error (Nobody).
Answer(p, cookie) ==
  page' = [page EXCEPT ![p].at = "reply", ![p].reply = cookie,
                       ![p].proof = IF cookie = Nobody THEN None ELSE @]

\* Mutant: whose signature it is does not matter.
ReceiveUnsigned(p) ==
  LET wallet == page[p].wallet
  IN  /\ page[p].at = "posted"
      /\ \/ wallet.contract = None /\ Answer(p, wallet)
         \/ /\ wallet.contract # None
            /\ page' = [page EXCEPT ![p].at = "chain"]
      /\ chainUnchanged /\ Fine
      /\ UNCHANGED <<bound, jar, author>>

\* handleKeyExchange: the signature must be the signer's.  A contract that is
\* claimed is looked up.
Receive(p) ==
  LET wallet == page[p].wallet
  IN  /\ page[p].at = "posted"
      /\ \/ page[p].proof # wallet.signer /\ Answer(p, Nobody)
         \/ page[p].proof = wallet.signer /\ wallet.contract = None /\ Answer(p, wallet)
         \/ /\ page[p].proof = wallet.signer /\ wallet.contract # None
            /\ page' = [page EXCEPT ![p].at = "chain"]
      /\ chainUnchanged /\ Fine
      /\ UNCHANGED <<bound, jar, author>>

\* Mutant: an answer of the chain is kept.
IsAuthorizedCached(facts) == <<facts.contract, facts.signer>> \in listed

\* isAuthorized, of the chain as it is now.
IsAuthorized(facts) == facts.signer \in authorized[facts.contract]

\* The chain answers; any error refuses the claim.
Verify(p) ==
  /\ page[p].at = "chain"
  /\ \/ Fine  /\ Answer(p, IF IsAuthorized(page[p].wallet) THEN page[p].wallet ELSE Nobody)
     \/ Fault /\ Answer(p, Nobody)
  /\ chainUnchanged
  /\ UNCHANGED <<bound, jar, author>>

\* The answer reaches the browser, which keeps its cookie, or is lost.  With the
\* cookie set the attempt may still fail: the host's onAuthenticated throws, or
\* the page cannot verify the host.
Replied(p) ==
  /\ page[p].at = "reply"
  /\ \/ /\ page[p].reply # Nobody
        /\ jar' = page[p].reply /\ author' = page[p].proof
        /\ (Fine /\ Succeed(p)) \/ (Fault /\ Fail(p))
     \/ /\ (page[p].reply = Nobody /\ Fine) \/ Fault
        /\ Fail(p)
        /\ UNCHANGED <<jar, author>>
  /\ chainUnchanged
  /\ UNCHANGED bound

\* The delay before the next attempt of a bind is over: it is for what is
\* this.wallet by now.
Retry(p) ==
  /\ page[p].at = "pause"
  /\ page' = [page EXCEPT ![p].at = "ask", ![p].wallet = page[p].mine]
  /\ chainUnchanged /\ Fine
  /\ UNCHANGED <<bound, jar, author>>

Step(p) == Ask(p) \/ Decide(p) \/ Receive(p) \/ Verify(p) \/ Replied(p) \/ Retry(p)

\* The page is closed in the middle of its handshake.
Close(p) ==
  /\ page[p].at \notin Ended /\ Fault
  /\ page' = [page EXCEPT ![p] = Rest]
  /\ chainUnchanged
  /\ UNCHANGED <<bound, jar, author>>

\* 24 hours after it was set the browser drops the cookie.
Expire ==
  /\ jar # Nobody /\ jar' = Nobody /\ author' = None
  /\ chainUnchanged /\ Fine
  /\ UNCHANGED <<bound, page>>

Mine(c, r) ==
  /\ <<c, r>> \in pool
  /\ pool' = pool \ {<<c, r>>}
  /\ authorized' = [authorized EXCEPT ![c] = @ \cup {r}]
  /\ listed' = listed \cup {<<c, r>>}
  /\ UNCHANGED <<bound, jar, author, page, faults>>

\* Another rivet of the contract removes this one.
Remove(c, r) ==
  /\ r \in authorized[c]
  /\ authorized' = [authorized EXCEPT ![c] = @ \ {r}]
  /\ UNCHANGED <<pool, listed, bound, jar, author, page, faults>>

Init ==
  /\ authorized = [c \in Contract |-> {}]
  /\ pool = {} /\ listed = {}
  /\ bound = [r \in Rivet |-> None]
  /\ jar = Nobody /\ author = None
  /\ page = [p \in Page |-> Rest]
  /\ faults = 0

Next ==
  \/ \E p \in Page : Step(p) \/ Switch(p) \/ Close(p)
  \/ \E p \in Page, r \in Rivet, c \in Contract \cup {None} : Connect(p, r, c)
  \/ \E p \in Page, r \in Rivet, c \in Contract : Bind(p, r, c)
  \/ \E c \in Contract, r \in Rivet : Mine(c, r) \/ Remove(c, r)
  \/ Expire

\* Page and host go on, timers fire, and cookies expire.  Nothing makes a
\* transaction be mined, or users come back.
Spec == Init /\ [][Next]_vars /\ WF_vars(Expire) /\ \A p \in Page : WF_vars(Step(p))

-----------------------------------------------------------------------------
(***************************************************************************)
(* Properties.                                                             *)
(***************************************************************************)

\* Vouched for: its signer has signed, and the chain once listed it for the contract.
Vouched(facts, proof) ==
  facts # Nobody =>
    /\ facts.signer = proof
    /\ facts.contract # None => <<facts.contract, facts.signer>> \in listed

\* A session is of the rivet whose signature the host has seen, and speaks for a
\* contract only if the chain once listed that rivet, whatever was switched while
\* the page signed, or pending, removed or claimed by another page meanwhile
\* (connect.mjs:60-93).  Of a browser that keeps the cookie as it was set: the
\* cookie itself is not signed.
CookieVouched ==
  /\ Vouched(jar, author)
  /\ \A p \in Page : Vouched(page[p].reply, page[p].proof)

\* When a bind has ended well the host knows the identity that its last attempt
\* stated, and this is the new one if the user has not switched wallets: the
\* cookie of before, which names the same rivet, is not taken for it, and no
\* attempt that failed has left another (witness.js:494-516, 782-787).  Unless
\* another page had a handshake at the same time, or the cookie is gone.  For a
\* user who has switched, this.wallet is what the bind ends well with.
SessionNamesIdentity ==
  \A p \in Page :
    page[p].at = "bound" /\ page[p].alone /\ jar # Nobody =>
      /\ Identity(jar) = Identity(page[p].wallet)
      /\ page[p].goal # None => Identity(jar) = page[p].goal

\* Every handshake ends, bound or not, though the transaction is never mined.
HandshakeEnds == \A p \in Page : []<>(page[p].at \in Ended)

\* A rivet that was removed speaks for the identity no longer than its last
\* cookie lives: no handshake renews it (connect.mjs:60-64, 139-145).
RevokedSessionsEnd ==
  \A c \in Contract, r \in Rivet :
    <>[](r \notin authorized[c]) => <>[](jar # [signer |-> r, contract |-> c])

\* Giving up is not final: once the transaction is mined, a user who keeps
\* coming back with the wallet that was upgraded is known by its contract.
BindHeals ==
  \A c \in Contract, r \in Rivet :
    <>[](r \in authorized[c]) /\ []<><<\E p \in Page : Connect(p, r, c)>>_vars =>
      <>(jar.contract = c)

=============================================================================
