------------------------- MODULE SessionServerProofs -------------------------
(***************************************************************************)
(* Theorems about SessionServer, for any rivets, contracts, pages, number  *)
(* of attempts and number of failures.  SessionInv says of every page what *)
(* its handshake carries: a reply is the wallet it was asked for, signed   *)
(* for and vouched for by the chain; while a bind is alone nobody else     *)
(* touches the cookie, and until its user switches it is for its goal.     *)
(***************************************************************************)
EXTENDS SessionServer, TLAPS

-----------------------------------------------------------------------------
(***************************************************************************)
(* The inductive invariant.                                                *)
(***************************************************************************)

Handshake ==
  [at : Ended \cup {"ask", "asked", "posted", "chain", "reply", "pause"},
   mine : Facts \cup {Nobody}, wallet : Facts \cup {Nobody}, goal : Contract \cup {None},
   attempt : 0 .. Attempts, seen : Facts \cup {Nobody}, proof : Rivet \cup {None},
   reply : Facts \cup {Nobody}, alone : BOOLEAN]

\* The chain lists whom it authorizes; the log of what it listed only grows.
ChainInv ==
  /\ authorized \in [Contract -> SUBSET Rivet]
  /\ pool \subseteq Contract \X Rivet
  /\ listed \subseteq Contract \X Rivet
  /\ \A c \in Contract : \A r \in authorized[c] : <<c, r>> \in listed

\* A reply is for the wallet that was posted; the chain is asked of contracts,
\* once the signature is found to be the signer's.
GoodReply(x) ==
  /\ x.reply # Nobody => x.at = "reply" /\ x.reply = x.wallet
  /\ x.at = "chain" => x.wallet.contract # None /\ x.proof = x.wallet.signer
  /\ Vouched(x.reply, x.proof)

\* What a bind that is alone has been told of the cookie is still so, unless
\* the cookie is gone; every attempt starts without having been told, and with
\* the contract that was bound while the user has not switched.
GoodAlone(x) ==
  x.alone =>
    /\ x.at \in {"ask", "pause"} => x.seen = Nobody
    /\ x.at = "asked" /\ x.seen # Nobody /\ jar # Nobody => jar = x.seen
    /\ x.at = "bound" /\ jar # Nobody => Identity(jar) = Identity(x.wallet)
    /\ x.goal # None => /\ x.at \notin Ended => x.mine.contract = x.goal
                        /\ x.at # "pause" => x.wallet.contract = x.goal

\* While a bind is alone no other page has a handshake.
Undisturbed ==
  \A p, q \in Page : p # q /\ page[p].alone => page[q].at \in Ended

SessionInv ==
  /\ ChainInv
  /\ bound \in [Rivet -> Contract \cup {None}]
  /\ jar \in Facts \cup {Nobody} /\ author \in Rivet \cup {None} /\ Vouched(jar, author)
  /\ faults \in 0 .. Faults
  /\ page \in [Page -> Handshake]
  /\ \A p \in Page : GoodReply(page[p]) /\ GoodAlone(page[p])
  /\ Undisturbed

-----------------------------------------------------------------------------
(***************************************************************************)
(* Values.                                                                 *)
(***************************************************************************)

LEMMA NobodyIsNone ==
  /\ Nobody.contract = None /\ Nobody.signer = None
  /\ \A f \in Facts : f.contract # None => f.contract \in Contract
  /\ \A f \in Facts : f # Nobody /\ f.signer \in Rivet
BY SessionAssumption DEF Nobody, Facts

\* The record a page rests in, and every record made from it.
LEMMA RestIsHandshake ==
  /\ Rest \in Handshake
  /\ ~Rest.alone /\ GoodReply(Rest) /\ GoodAlone(Rest)
  /\ \A x \in Handshake : [x EXCEPT !.alone = FALSE, !.goal = None] \in Handshake
<1>1. Nobody \in Facts \cup {Nobody} /\ 0 \in 0 .. Attempts
  BY SessionAssumption
<1>2. Rest \in Handshake
  BY <1>1 DEF Rest, Handshake, Ended
<1>3. ~Rest.alone /\ GoodReply(Rest) /\ GoodAlone(Rest)
  BY DEF Rest, GoodReply, GoodAlone, Vouched
<1> QED
  BY <1>2, <1>3 DEF Handshake

\* A failure is counted, or is not one.
LEMMA FaultType ==
  ASSUME faults \in 0 .. Faults, Fault \/ Fine
  PROVE  faults' \in 0 .. Faults
BY SessionAssumption DEF Fault, Fine

-----------------------------------------------------------------------------
(***************************************************************************)
(* Steps of one page.                                                      *)
(***************************************************************************)

\* A page goes on with its handshake, or ends it, and the cookie stays: the
\* other pages are not concerned.
LEMMA OnePage ==
  ASSUME SessionInv, NEW p \in Page, NEW x \in Handshake,
         page' = [page EXCEPT ![p] = x],
         chainUnchanged, Fault \/ Fine, UNCHANGED <<bound, jar, author>>,
         GoodReply(x), GoodAlone(x),
         page[p].at \in Ended => x.at \in Ended,
         x.alone => page[p].alone
  PROVE  SessionInv'
<1>1. ChainInv' /\ listed' = listed
  BY DEF SessionInv, ChainInv, chainUnchanged
<1>2. /\ \A q \in Page : page'[q] = IF q = p THEN x ELSE page[q]
      /\ page' \in [Page -> Handshake]
  BY DEF SessionInv
<1>3. \A q \in Page : (GoodReply(page[q]) /\ GoodAlone(page[q]))'
  BY <1>1, <1>2 DEF SessionInv, GoodReply, GoodAlone, Vouched
<1>4. Undisturbed'
  BY <1>2 DEF SessionInv, Undisturbed
<1>5. faults' \in 0 .. Faults
  BY FaultType DEF SessionInv
<1> QED
  BY <1>1, <1>2, <1>3, <1>4, <1>5 DEF SessionInv, Vouched, GoodReply, GoodAlone

\* The record of a page whose handshake has failed: it is over, or waits to be
\* tried again.
Failing(p) ==
  IF page[p].attempt \in {0, Attempts} THEN Rest ELSE Paused(p, page[p].attempt + 1)

LEMMA FailingIsHandshake ==
  ASSUME SessionInv, NEW p \in Page
  PROVE  /\ Failing(p) \in Handshake /\ GoodReply(Failing(p))
         /\ Failing(p).alone =>
              /\ page[p].alone /\ Failing(p).at = "pause" /\ Failing(p).seen = Nobody
              /\ Failing(p).mine = page[p].mine /\ Failing(p).goal = page[p].goal
<1>1. page[p] \in Handshake
  BY DEF SessionInv
<1>2. CASE page[p].attempt \in {0, Attempts}
  BY <1>2, RestIsHandshake DEF Failing
<1>3. CASE page[p].attempt \notin {0, Attempts}
  <2>1. page[p].attempt + 1 \in 0 .. Attempts
    BY <1>1, <1>3, SessionAssumption DEF Handshake
  <2>2. Failing(p) = Paused(p, page[p].attempt + 1)
    BY <1>3 DEF Failing
  <2>3. Paused(p, page[p].attempt + 1) \in Handshake
    BY <1>1, <2>1, RestIsHandshake DEF Handshake, Paused
  <2>4. LET x == Paused(p, page[p].attempt + 1)
        IN  /\ x.at = "pause" /\ x.seen = Nobody /\ x.reply = Nobody
            /\ x.mine = page[p].mine /\ x.goal = page[p].goal /\ x.alone = page[p].alone
    BY DEF Paused, Rest
  <2> QED
    BY <2>2, <2>3, <2>4 DEF GoodReply, Vouched
<1> QED
  BY <1>2, <1>3

LEMMA FailStep ==
  ASSUME SessionInv, NEW p \in Page, page[p].at \notin Ended, Fail(p),
         chainUnchanged, Fault \/ Fine, UNCHANGED <<bound, jar, author>>
  PROVE  SessionInv'
<1>1. page' = [page EXCEPT ![p] = Failing(p)]
  BY DEF Fail, Failing
<1>2. GoodAlone(Failing(p))
  BY FailingIsHandshake DEF SessionInv, GoodAlone
<1> QED
  BY <1>1, <1>2, FailingIsHandshake, OnePage

\* The record of a page whose handshake has succeeded.
Ending(p) ==
  IF ~page[p].alone THEN Rest
  ELSE [Rest EXCEPT !.at = "bound", !.wallet = page[p].wallet, !.goal = page[p].goal,
                    !.alone = TRUE]

LEMMA EndingIsHandshake ==
  ASSUME SessionInv, NEW p \in Page
  PROVE  /\ Ending(p) \in Handshake /\ GoodReply(Ending(p)) /\ Ending(p).at \in Ended
         /\ Ending(p).alone =>
              /\ page[p].alone /\ Ending(p).at = "bound"
              /\ Ending(p).wallet = page[p].wallet /\ Ending(p).goal = page[p].goal
<1>1. page[p] \in Handshake
  BY DEF SessionInv
<1>2. CASE ~page[p].alone
  <2>1. Ending(p) = Rest /\ Rest.at \in Ended
    BY <1>2 DEF Ending, Rest, Ended
  <2> QED
    BY <2>1, RestIsHandshake
<1>3. CASE page[p].alone
  <2> DEFINE x == [Rest EXCEPT !.at = "bound", !.wallet = page[p].wallet,
                               !.goal = page[p].goal, !.alone = TRUE]
  <2>1. Ending(p) = x /\ x \in Handshake
    BY <1>1, <1>3, RestIsHandshake DEF Ending, Handshake, Ended
  <2>2. /\ x.at = "bound" /\ x.reply = Nobody /\ x.wallet = page[p].wallet
        /\ x.goal = page[p].goal
    BY DEF Rest
  <2> QED
    BY <1>3, <2>1, <2>2 DEF GoodReply, Vouched, Ended
<1> QED
  BY <1>2, <1>3

\* A page opens the host: what is in the cookie is told, or the question fails.
LEMMA AskStep ==
  ASSUME SessionInv, NEW p \in Page, Ask(p)
  PROVE  SessionInv'
<1>1. /\ page[p] \in Handshake /\ page[p].at = "ask"
      /\ jar \in Facts \cup {Nobody}
      /\ GoodReply(page[p]) /\ GoodAlone(page[p])
  BY DEF SessionInv, Ask
<1>2. CASE Fine /\ page' = [page EXCEPT ![p].at = "asked", ![p].seen = jar]
  <2> DEFINE x == [page[p] EXCEPT !.at = "asked", !.seen = jar]
  <2>1. /\ x \in Handshake /\ x.at = "asked" /\ x.seen = jar
        /\ x.reply = Nobody /\ x.wallet = page[p].wallet /\ x.mine = page[p].mine
        /\ x.goal = page[p].goal /\ x.alone = page[p].alone
    BY <1>1 DEF Handshake, GoodReply
  <2>2. GoodReply(x) /\ GoodAlone(x)
    BY <1>1, <2>1 DEF GoodReply, GoodAlone, Vouched, Ended
  <2>3. page' = [page EXCEPT ![p] = x]
    BY <1>1, <1>2 DEF SessionInv
  <2> QED
    BY <1>1, <1>2, <2>1, <2>2, <2>3, OnePage DEF Ask, Ended
<1>3. CASE Fault /\ page' = [page EXCEPT ![p].at = "asked"]
  <2> DEFINE x == [page[p] EXCEPT !.at = "asked"]
  <2>1. /\ x \in Handshake /\ x.at = "asked" /\ x.seen = page[p].seen
        /\ x.reply = Nobody /\ x.wallet = page[p].wallet /\ x.mine = page[p].mine
        /\ x.goal = page[p].goal /\ x.alone = page[p].alone
    BY <1>1 DEF Handshake, GoodReply
  <2>2. GoodReply(x) /\ GoodAlone(x)
    BY <1>1, <2>1 DEF GoodReply, GoodAlone, Vouched, Ended
  <2>3. page' = [page EXCEPT ![p] = x]
    BY <1>1, <1>3 DEF SessionInv
  <2> QED
    BY <1>1, <1>3, <2>1, <2>2, <2>3, OnePage DEF Ask, Ended
<1> QED
  BY <1>2, <1>3 DEF Ask

\* The cookie names the identity already, or the wallet of the moment signs.
LEMMA DecideStep ==
  ASSUME SessionInv, NEW p \in Page, Decide(p)
  PROVE  SessionInv'
<1>1. /\ page[p] \in Handshake /\ page[p].at = "asked" /\ page[p].at \notin Ended
      /\ jar \in Facts \cup {Nobody}
      /\ GoodReply(page[p]) /\ GoodAlone(page[p])
      /\ chainUnchanged /\ UNCHANGED <<bound, jar, author>>
  BY DEF SessionInv, Decide, Ended
<1>2. CASE AlreadyKnown(page[p].seen, page[p].wallet) /\ Fine /\ Succeed(p)
  <2>1. page' = [page EXCEPT ![p] = Ending(p)]
    BY <1>2 DEF Succeed, Ending
  <2>2. GoodAlone(Ending(p))
    <3> SUFFICES ASSUME Ending(p).alone PROVE GoodAlone(Ending(p))
      BY DEF GoodAlone
    <3>1. /\ page[p].alone /\ Ending(p).at = "bound"
          /\ Ending(p).wallet = page[p].wallet /\ Ending(p).goal = page[p].goal
      BY EndingIsHandshake
    <3>2. jar # Nobody => Identity(jar) = Identity(page[p].wallet)
      BY <1>1, <1>2, <3>1 DEF GoodAlone, AlreadyKnown
    <3> QED
      BY <1>1, <3>1, <3>2 DEF GoodAlone, Ended
  <2> QED
    BY <1>1, <1>2, <2>1, <2>2, EndingIsHandshake, OnePage
<1>3. CASE Fault /\ Fail(p)
  BY <1>1, <1>3, FailStep
<1>4. CASE /\ Fine
           /\ page' = [page EXCEPT ![p].at = "posted", ![p].proof = page[p].mine.signer,
                                   ![p].seen = Nobody]
  <2> DEFINE x == [page[p] EXCEPT !.at = "posted", !.proof = page[p].mine.signer,
                                  !.seen = Nobody]
  <2>1. page[p].mine.signer \in Rivet \cup {None}
    BY <1>1, NobodyIsNone DEF Handshake
  <2>2. /\ x \in Handshake /\ x.at = "posted" /\ x.reply = Nobody
        /\ x.wallet = page[p].wallet /\ x.mine = page[p].mine
        /\ x.goal = page[p].goal /\ x.alone = page[p].alone
    BY <1>1, <2>1 DEF Handshake, GoodReply
  <2>3. GoodReply(x) /\ GoodAlone(x)
    BY <1>1, <2>2 DEF GoodReply, GoodAlone, Vouched, Ended
  <2>4. page' = [page EXCEPT ![p] = x]
    BY <1>1, <1>4 DEF SessionInv
  <2> QED
    BY <1>1, <1>4, <2>2, <2>3, <2>4, OnePage
<1> QED
  BY <1>2, <1>3, <1>4 DEF Decide

\* The user switches wallets: the bind has no goal any more.
LEMMA SwitchStep ==
  ASSUME SessionInv, NEW p \in Page, Switch(p)
  PROVE  SessionInv'
<1>1. /\ page[p] \in Handshake /\ page[p].at \in {"asked", "pause"}
      /\ page[p].at \notin Ended /\ GoodReply(page[p]) /\ GoodAlone(page[p])
  BY DEF SessionInv, Switch, Ended
<1>2. PICK r \in Rivet : \E wallet \in Stated(r) \ {page[p].mine} :
        page' = [page EXCEPT ![p].mine = wallet, ![p].goal = None]
  BY DEF Switch
<1>3. PICK wallet \in Facts : page' = [page EXCEPT ![p].mine = wallet, ![p].goal = None]
  BY <1>2 DEF Stated, Facts, SessionInv
<1> DEFINE x == [page[p] EXCEPT !.mine = wallet, !.goal = None]
<1>4. /\ x \in Handshake /\ x.at = page[p].at /\ x.reply = page[p].reply /\ x.goal = None
      /\ x.seen = page[p].seen /\ x.wallet = page[p].wallet /\ x.proof = page[p].proof
      /\ x.alone = page[p].alone
  BY <1>1 DEF Handshake
<1>5. GoodReply(x) /\ GoodAlone(x)
  BY <1>1, <1>4 DEF GoodReply, GoodAlone, Ended
<1>6. page' = [page EXCEPT ![p] = x]
  BY <1>1, <1>3 DEF SessionInv
<1> QED
  BY <1>1, <1>4, <1>5, <1>6, OnePage DEF Switch

\* The host answers a page: with a cookie that says what the page's wallet is,
\* signed for and vouched for by the chain, or with an error.
LEMMA AnswerStep ==
  ASSUME SessionInv, NEW p \in Page, page[p].at \in {"posted", "chain"},
         NEW cookie \in {Nobody, page[p].wallet}, Vouched(cookie, page[p].proof),
         Answer(p, cookie), chainUnchanged, Fault \/ Fine, UNCHANGED <<bound, jar, author>>
  PROVE  SessionInv'
<1> DEFINE proof == IF cookie = Nobody THEN None ELSE page[p].proof
           x == [page[p] EXCEPT !.at = "reply", !.reply = cookie, !.proof = proof]
<1>1. page[p] \in Handshake /\ page[p].at \notin Ended /\ GoodAlone(page[p])
  BY DEF SessionInv, Ended
<1>2. cookie \in Facts \cup {Nobody} /\ proof \in Rivet \cup {None}
  BY <1>1 DEF Handshake
<1>3. /\ x \in Handshake /\ x.at = "reply" /\ x.reply = cookie /\ x.proof = proof
      /\ x.wallet = page[p].wallet /\ x.mine = page[p].mine
      /\ x.goal = page[p].goal /\ x.alone = page[p].alone
  BY <1>1, <1>2 DEF Handshake
<1>4. GoodReply(x) /\ GoodAlone(x)
  BY <1>1, <1>3 DEF GoodReply, GoodAlone, Vouched, Ended
<1>5. page' = [page EXCEPT ![p] = x]
  BY <1>1 DEF SessionInv, Answer
<1> QED
  BY <1>1, <1>3, <1>4, <1>5, OnePage

\* POST /connect: the signature is checked before anything is believed.
LEMMA ReceiveStep ==
  ASSUME SessionInv, NEW p \in Page, Receive(p)
  PROVE  SessionInv'
<1>1. /\ page[p] \in Handshake /\ page[p].at = "posted" /\ page[p].at \notin Ended
      /\ GoodReply(page[p]) /\ GoodAlone(page[p])
      /\ chainUnchanged /\ Fine /\ UNCHANGED <<bound, jar, author>>
  BY DEF SessionInv, Receive, Ended
<1>2. CASE Answer(p, Nobody)
  <2>1. Vouched(Nobody, page[p].proof)
    BY DEF Vouched
  <2> QED
    BY <1>1, <1>2, <2>1, AnswerStep
<1>3. CASE /\ page[p].proof = page[p].wallet.signer /\ page[p].wallet.contract = None
           /\ Answer(p, page[p].wallet)
  <2>1. Vouched(page[p].wallet, page[p].proof)
    BY <1>3 DEF Vouched
  <2> QED
    BY <1>1, <1>3, <2>1, AnswerStep
<1>4. CASE /\ page[p].proof = page[p].wallet.signer /\ page[p].wallet.contract # None
           /\ page' = [page EXCEPT ![p].at = "chain"]
  <2> DEFINE x == [page[p] EXCEPT !.at = "chain"]
  <2>1. /\ x \in Handshake /\ x.at = "chain" /\ x.reply = Nobody
        /\ x.proof = page[p].proof /\ x.wallet = page[p].wallet /\ x.mine = page[p].mine
        /\ x.goal = page[p].goal /\ x.alone = page[p].alone
    BY <1>1 DEF Handshake, GoodReply
  <2>2. GoodReply(x) /\ GoodAlone(x)
    BY <1>1, <1>4, <2>1 DEF GoodReply, GoodAlone, Vouched, Ended
  <2>3. page' = [page EXCEPT ![p] = x]
    BY <1>1, <1>4 DEF SessionInv
  <2> QED
    BY <1>1, <2>1, <2>2, <2>3, OnePage
<1> QED
  BY <1>2, <1>3, <1>4 DEF Receive

\* The chain's answer, of the moment: whom it authorizes it has listed.
LEMMA VerifyStep ==
  ASSUME SessionInv, NEW p \in Page, Verify(p)
  PROVE  SessionInv'
<1>1. /\ page[p] \in Handshake /\ page[p].at = "chain" /\ GoodReply(page[p])
      /\ chainUnchanged /\ (Fault \/ Fine) /\ UNCHANGED <<bound, jar, author>>
  BY DEF SessionInv, Verify
<1>2. Vouched(Nobody, page[p].proof)
  BY DEF Vouched
<1>3. IsAuthorized(page[p].wallet) => Vouched(page[p].wallet, page[p].proof)
  <2>1. page[p].wallet.contract # None /\ page[p].proof = page[p].wallet.signer
    BY <1>1 DEF GoodReply
  <2>2. page[p].wallet \in Facts
    BY <1>1, <2>1, NobodyIsNone DEF Handshake
  <2> QED
    BY <2>1, <2>2, NobodyIsNone DEF IsAuthorized, Vouched, SessionInv, ChainInv
<1> QED
  BY <1>1, <1>2, <1>3, AnswerStep DEF Verify

\* The browser keeps the cookie it is sent, and the page ends its handshake or
\* waits; meanwhile no bind of another page is alone.
LEMMA KeepStep ==
  ASSUME SessionInv, NEW p \in Page, page[p].at = "reply", page[p].reply # Nobody,
         NEW x \in Handshake, page' = [page EXCEPT ![p] = x],
         jar' = page[p].reply, author' = page[p].proof,
         chainUnchanged, Fault \/ Fine, UNCHANGED bound,
         GoodReply(x), GoodAlone(x)', x.alone => page[p].alone
  PROVE  SessionInv'
<1>1. /\ page[p] \in Handshake /\ page[p].at \notin Ended /\ GoodReply(page[p])
  BY DEF SessionInv, Ended
<1>2. /\ \A q \in Page : page'[q] = IF q = p THEN x ELSE page[q]
      /\ page' \in [Page -> Handshake]
  BY DEF SessionInv
<1>3. ChainInv' /\ listed' = listed
  BY DEF SessionInv, ChainInv, chainUnchanged
<1>4. /\ jar' \in Facts \cup {Nobody} /\ author' \in Rivet \cup {None}
      /\ Vouched(jar, author)'
  BY <1>1, <1>3 DEF Handshake, GoodReply, Vouched
<1>5. \A q \in Page \ {p} : ~page[q].alone
  BY <1>1 DEF SessionInv, Undisturbed
<1>6. \A q \in Page : GoodReply(page[q])'
  BY <1>2, <1>3 DEF SessionInv, GoodReply, Vouched
<1>7. \A q \in Page : GoodAlone(page[q])'
  BY <1>2, <1>5 DEF GoodAlone
<1>8. Undisturbed'
  BY <1>1, <1>2, <1>5 DEF SessionInv, Undisturbed
<1>9. faults' \in 0 .. Faults
  BY FaultType DEF SessionInv
<1> QED
  BY <1>2, <1>3, <1>4, <1>6, <1>7, <1>8, <1>9 DEF SessionInv

LEMMA RepliedStep ==
  ASSUME SessionInv, NEW p \in Page, Replied(p)
  PROVE  SessionInv'
<1>1. /\ page[p] \in Handshake /\ page[p].at = "reply" /\ page[p].at \notin Ended
      /\ GoodReply(page[p]) /\ GoodAlone(page[p])
      /\ chainUnchanged /\ UNCHANGED bound
  BY DEF SessionInv, Replied, Ended
<1>2. CASE (Fault \/ Fine) /\ Fail(p) /\ UNCHANGED <<jar, author>>
  BY <1>1, <1>2, FailStep
<1>3. CASE /\ page[p].reply # Nobody /\ jar' = page[p].reply /\ author' = page[p].proof
           /\ Fine /\ Succeed(p)
  <2> PICK x \in Handshake : x = Ending(p)
    BY EndingIsHandshake
  <2>1. page' = [page EXCEPT ![p] = x]
    BY <1>3 DEF Succeed, Ending
  <2>2. jar' = page[p].wallet
    BY <1>1, <1>3 DEF GoodReply
  <2>3. GoodAlone(x)'
    BY <1>1, <2>2, EndingIsHandshake DEF GoodAlone, Ended
  <2> QED
    BY <1>1, <1>3, <2>1, <2>3, EndingIsHandshake, KeepStep
<1>4. CASE /\ page[p].reply # Nobody /\ jar' = page[p].reply /\ author' = page[p].proof
           /\ Fault /\ Fail(p)
  <2> PICK x \in Handshake : x = Failing(p)
    BY FailingIsHandshake
  <2>1. page' = [page EXCEPT ![p] = x]
    BY <1>4 DEF Fail, Failing
  <2>2. GoodAlone(x)'
    BY <1>1, FailingIsHandshake DEF GoodAlone, Ended
  <2> QED
    BY <1>1, <1>4, <2>1, <2>2, FailingIsHandshake, KeepStep
<1> QED
  BY <1>2, <1>3, <1>4 DEF Replied

\* The next attempt, with the wallet of the moment.
LEMMA RetryStep ==
  ASSUME SessionInv, NEW p \in Page, Retry(p)
  PROVE  SessionInv'
<1> DEFINE x == [page[p] EXCEPT !.at = "ask", !.wallet = page[p].mine]
<1>1. /\ page[p] \in Handshake /\ page[p].at = "pause" /\ page[p].at \notin Ended
      /\ GoodReply(page[p]) /\ GoodAlone(page[p])
  BY DEF SessionInv, Retry, Ended
<1>2. /\ x \in Handshake /\ x.at = "ask" /\ x.seen = page[p].seen
      /\ x.reply = Nobody /\ x.wallet = page[p].mine /\ x.mine = page[p].mine
      /\ x.goal = page[p].goal /\ x.alone = page[p].alone
  BY <1>1 DEF Handshake, GoodReply
<1>3. GoodReply(x) /\ GoodAlone(x)
  BY <1>1, <1>2 DEF GoodReply, GoodAlone, Vouched
<1>4. page' = [page EXCEPT ![p] = x]
  BY <1>1 DEF SessionInv, Retry
<1> QED
  BY <1>1, <1>2, <1>3, <1>4, OnePage DEF Retry

\* The page is closed: its handshake is gone.
LEMMA CloseStep ==
  ASSUME SessionInv, NEW p \in Page, Close(p)
  PROVE  SessionInv'
BY RestIsHandshake, OnePage DEF Close

\* A handshake begins: no other page is alone any more, and this one only if
\* every handshake is over.
LEMMA BeginStep ==
  ASSUME SessionInv, NEW p \in Page, NEW w \in Facts, NEW n \in 0 .. Attempts,
         NEW goal \in Contract \cup {None}, goal # None => w.contract = goal,
         Begin(p, w, n, goal), Fault \/ Fine,
         bound' \in [Rivet -> Contract \cup {None}], pool' \subseteq Contract \X Rivet,
         UNCHANGED <<authorized, listed, jar, author>>
  PROVE  SessionInv'
<1> DEFINE a == n # 0 /\ \A x \in Page : page[x].at \in Ended
           g == IF a THEN goal ELSE None
           b == [Rest EXCEPT !.at = "ask", !.mine = w, !.wallet = w, !.attempt = n,
                             !.alone = a, !.goal = g]
<1>1. b \in Handshake
  <2>1. a \in BOOLEAN /\ g \in Contract \cup {None}
    OBVIOUS
  <2> QED
    BY <2>1, RestIsHandshake DEF Handshake, Ended
<1>2. /\ b.at = "ask" /\ b.wallet = w /\ b.mine = w /\ b.seen = Nobody /\ b.reply = Nobody
      /\ b.alone = a /\ b.goal = g
  BY DEF Rest
<1>3. \A q \in Page : Disturbed(q) \in Handshake
  BY RestIsHandshake DEF SessionInv, Disturbed
<1>4. /\ page' \in [Page -> Handshake]
      /\ page'[p] = b
      /\ \A q \in Page \ {p} : page'[q] = Disturbed(q)
  BY <1>1, <1>3 DEF Begin
<1>5. \A q \in Page : /\ ~Disturbed(q).alone
                      /\ page[q].at \in Ended => Disturbed(q).at \in Ended
  <2> TAKE q \in Page
  <2>1. CASE page[q].at \in Ended
    BY <2>1, RestIsHandshake DEF Disturbed, Rest, Ended
  <2>2. CASE page[q].at \notin Ended
    BY <2>2 DEF Disturbed, SessionInv, Handshake
  <2> QED
    BY <2>1, <2>2
<1>6. \A q \in Page : GoodReply(Disturbed(q))
  <2> TAKE q \in Page
  <2>1. CASE page[q].at \in Ended
    BY <2>1, RestIsHandshake DEF Disturbed
  <2>2. CASE page[q].at \notin Ended
    <3> DEFINE x == [page[q] EXCEPT !.alone = FALSE, !.goal = None]
    <3>1. Disturbed(q) = x /\ page[q] \in Handshake /\ GoodReply(page[q])
      BY <2>2 DEF Disturbed, SessionInv
    <3>2. /\ x.at = page[q].at /\ x.reply = page[q].reply
          /\ x.wallet = page[q].wallet /\ x.proof = page[q].proof
      BY <3>1 DEF Handshake
    <3> QED
      BY <3>1, <3>2 DEF GoodReply
  <2> QED
    BY <2>1, <2>2
<1>7. ChainInv'
  BY DEF SessionInv, ChainInv
<1>8. \A q \in Page : GoodReply(page[q])'
  <2>1. GoodReply(b)
    BY <1>2 DEF GoodReply, Vouched
  <2>2. \A q \in Page : GoodReply(page'[q])
    BY <1>4, <1>6, <2>1
  <2> QED
    BY <2>2 DEF GoodReply, Vouched
<1>9. \A q \in Page : GoodAlone(page[q])'
  <2>1. GoodAlone(page[p])'
    BY <1>2, <1>4 DEF GoodAlone
  <2> QED
    BY <1>4, <1>5, <2>1 DEF GoodAlone
<1>10. Undisturbed'
  <2>1. b.alone => \A q \in Page : page[q].at \in Ended
    BY <1>2
  <2> HIDE DEF a, b, g
  <2> QED
    BY <1>4, <1>5, <2>1 DEF Undisturbed
<1>11. faults' \in 0 .. Faults
  BY FaultType DEF SessionInv
<1> QED
  BY <1>4, <1>7, <1>8, <1>9, <1>10, <1>11 DEF SessionInv, Vouched

\* connect, with the contract the wallet had when the page loaded it.
LEMMA ConnectStep ==
  ASSUME SessionInv, NEW p \in Page, NEW r \in Rivet, NEW c \in Contract \cup {None},
         Connect(p, r, c)
  PROVE  SessionInv'
<1>1. [signer |-> r, contract |-> c] \in Facts /\ 0 \in 0 .. Attempts
  BY SessionAssumption DEF Facts
<1> QED
  BY <1>1, BeginStep DEF Connect, chainUnchanged, SessionInv, ChainInv

\* bindToEpisteryIdentity: the wallet is upgraded before the chain lists it, and
\* the handshake is of it, or of the one that the user has switched to.
LEMMA BindStep ==
  ASSUME SessionInv, NEW p \in Page, NEW r \in Rivet, NEW c \in Contract, Bind(p, r, c)
  PROVE  SessionInv'
<1>1. /\ [signer |-> r, contract |-> c] \in Facts
      /\ c # None /\ 1 \in 0 .. Attempts
  BY SessionAssumption DEF Facts
<1>2. /\ bound' \in [Rivet -> Contract \cup {None}] /\ pool' \subseteq Contract \X Rivet
      /\ UNCHANGED <<authorized, listed, jar, author>>
  BY DEF Bind, SessionInv, ChainInv
<1>3. CASE Fine /\ Begin(p, [signer |-> r, contract |-> c], 1, c)
  BY <1>1, <1>2, <1>3, BeginStep
<1>4. ASSUME NEW x \in Rivet, NEW wallet \in Stated(x), Fault, Begin(p, wallet, 1, None)
      PROVE  SessionInv'
  <2>1. wallet \in Facts
    BY <1>4 DEF Stated, Facts, SessionInv
  <2> QED
    BY <1>1, <1>2, <1>4, <2>1, BeginStep
<1> QED
  BY <1>3, <1>4 DEF Bind

-----------------------------------------------------------------------------
(***************************************************************************)
(* Steps of the chain and of the cookie's clock.                           *)
(***************************************************************************)

\* What is listed stays listed, so a mined or removed rivet refutes nothing.
LEMMA ChainStep ==
  ASSUME SessionInv, NEW c \in Contract, NEW r \in Rivet, Mine(c, r) \/ Remove(c, r)
  PROVE  SessionInv'
<1>1. listed \subseteq listed' /\ UNCHANGED <<bound, jar, author, page, faults>>
  BY DEF Mine, Remove
<1>2. ChainInv'
  BY DEF Mine, Remove, SessionInv, ChainInv
<1>3. \A p \in Page : (GoodReply(page[p]) /\ GoodAlone(page[p]))'
  BY <1>1 DEF SessionInv, GoodReply, GoodAlone, Vouched
<1> QED
  BY <1>1, <1>2, <1>3 DEF SessionInv, Vouched, Undisturbed

\* A cookie that is gone tells no page anything false.
LEMMA ExpireStep ==
  ASSUME SessionInv, Expire
  PROVE  SessionInv'
<1>1. jar' = Nobody /\ author' = None /\ UNCHANGED <<authorized, pool, listed, bound, page, faults>>
  BY DEF Expire, chainUnchanged, Fine
<1>2. ChainInv'
  BY <1>1 DEF SessionInv, ChainInv
<1>3. \A p \in Page : (GoodReply(page[p]) /\ GoodAlone(page[p]))'
  BY <1>1 DEF SessionInv, GoodReply, GoodAlone, Vouched
<1> QED
  BY <1>1, <1>2, <1>3 DEF SessionInv, Vouched, Undisturbed

LEMMA UnchangedStep ==
  ASSUME SessionInv, UNCHANGED vars
  PROVE  SessionInv'
BY DEF vars, SessionInv, ChainInv, Vouched, GoodReply, GoodAlone, Undisturbed

LEMMA InitSession ==
  ASSUME Init
  PROVE  SessionInv
<1>1. ChainInv
  BY DEF Init, ChainInv
<1>2. Undisturbed
  BY RestIsHandshake DEF Init, Undisturbed
<1> QED
  <2>1. /\ page \in [Page -> Handshake]
        /\ \A p \in Page : GoodReply(page[p]) /\ GoodAlone(page[p])
    BY RestIsHandshake DEF Init
  <2>2. /\ bound \in [Rivet -> Contract \cup {None}] /\ faults \in 0 .. Faults
        /\ jar \in Facts \cup {Nobody} /\ author \in Rivet \cup {None} /\ Vouched(jar, author)
    BY SessionAssumption DEF Init, Vouched
  <2> QED
    BY <1>1, <1>2, <2>1, <2>2 DEF SessionInv

LEMMA SessionStep ==
  ASSUME SessionInv, [Next]_vars
  PROVE  SessionInv'
<1>1. CASE \E p \in Page : Step(p) \/ Switch(p) \/ Close(p)
  BY <1>1, AskStep, DecideStep, SwitchStep, ReceiveStep, VerifyStep, RepliedStep, RetryStep, CloseStep
     DEF Step
<1>2. CASE \E p \in Page, r \in Rivet, c \in Contract \cup {None} : Connect(p, r, c)
  BY <1>2, ConnectStep
<1>3. CASE \E p \in Page, r \in Rivet, c \in Contract : Bind(p, r, c)
  BY <1>3, BindStep
<1>4. CASE \E c \in Contract, r \in Rivet : Mine(c, r) \/ Remove(c, r)
  BY <1>4, ChainStep
<1>5. CASE Expire
  BY <1>5, ExpireStep
<1>6. CASE UNCHANGED vars
  BY <1>6, UnchangedStep
<1> QED
  BY <1>1, <1>2, <1>3, <1>4, <1>5, <1>6 DEF Next

-----------------------------------------------------------------------------
(***************************************************************************)
(* The theorems.                                                           *)
(***************************************************************************)

\* Whatever pages, host, chain and users do, every page's handshake is in
\* step with the cookie and the chain's log.
THEOREM SessionsAreConsistent == Spec => []SessionInv
<1>1. Init => SessionInv
  BY InitSession
<1>2. SessionInv /\ [Next]_vars => SessionInv'
  BY SessionStep
<1> QED
  BY <1>1, <1>2, PTL DEF Spec

\* Every variable keeps its type; a contract authorizes only whom the chain
\* has listed.
THEOREM SessionTypesCorrect == Spec => []TypeOK
<1>1. SessionInv => TypeOK
  BY DEF SessionInv, ChainInv, GoodReply, Handshake, TypeOK
<1> QED
  BY <1>1, SessionsAreConsistent, PTL

\* Every cookie, and every answer of POST /connect on its way to a page, is of
\* the rivet that signed, and speaks for no contract that never listed it.
THEOREM CookiesAlwaysVouched == Spec => []CookieVouched
<1>1. SessionInv => CookieVouched
  BY DEF SessionInv, GoodReply, CookieVouched
<1> QED
  BY <1>1, SessionsAreConsistent, PTL

\* A bind that has ended well, and was alone, has left a cookie of the identity
\* it stated, which is the new one if the user has not switched wallets.
THEOREM BoundSessionsNameIdentity == Spec => []SessionNamesIdentity
<1>1. SessionInv => SessionNamesIdentity
  BY DEF SessionInv, GoodAlone, SessionNamesIdentity, Identity
<1> QED
  BY <1>1, SessionsAreConsistent, PTL

=============================================================================
