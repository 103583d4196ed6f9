------------------------------- MODULE Funding -------------------------------
(***************************************************************************)
(* Transactions between browser, host and chain: how a rivet's addRivet is *)
(* prepared and its signer funded by the host (routes/identity.mjs,        *)
(* prepareAddRivetToContract), signed in the browser (client/wallet.js     *)
(* addRivetToContract) and broadcast (submitSignedTransaction); and a      *)
(* contract write of the host by the same server wallet (wrapContract).    *)
(* Many run at once, over one server wallet whose nonce each asks the      *)
(* chain for; a signer may have several.  An action is what host or        *)
(* browser do between two awaits.                                          *)
(*                                                                         *)
(* The chain and its transaction pool are external: a transaction is mined *)
(* when its nonce comes and the base fee is not above its own.  The server *)
(* wallet's balance, names and addresses are left out.                     *)
(***************************************************************************)
EXTENDS ChainFees, FiniteSets

CONSTANTS
  Signer,    \* rivets that sign addRivet transactions
  Server,    \* the host's wallet
  Job,       \* calls: each is made at most once
  Net,       \* the networks that rivets are added on, and hosts write to
  Base,      \* base fees (or gas prices) of the chain
  Estimate,  \* what estimateGas answers, and what the call uses
  Moves,     \* bound: how often the base fee changes
  Faults     \* bound: how many calls are cut off

ASSUME FundingAssumption ==
  /\ Server \notin Signer /\ IsFiniteSet(Job)
  /\ Net \subseteq Networks
  /\ Base \subseteq Nat \ {0} /\ Estimate \in Nat \ {0}
  /\ Moves \in Nat /\ Faults \in Nat

VARIABLES
  net,      \* the network
  base,     \* its base fee
  moves,    \* how often that has changed
  balance,  \* [Signer -> Nat]
  pool,     \* transactions that were accepted and not mined
  mined,    \* transactions that are mined
  job,      \* [Job -> where it is, and its transactions]
  faults    \* how many calls were cut off

vars == <<net, base, moves, balance, pool, mined, job, faults>>

poolOnly       == UNCHANGED <<net, base, moves, balance, mined>>
chainUnchanged == poolOnly /\ UNCHANGED pool

Account == Signer \cup {Server}

\* The fallback when estimateGas fails, in units of a thousand.
FallbackGas == 100

NoFee == Refused

\* A transaction: of which job and which account, to a contract ("call") or
\* with a value to a signer.
NoTx == [of |-> "none", from |-> Server, to |-> "call", value |-> 0, nonce |-> 0,
         fee |-> NoFee, limit |-> 0]

\* A job: signer, at, its transaction, the transfer it funds the signer with,
\* and whether the signer had another transaction in the pool meanwhile.
Rest == [at |-> "new", signer |-> Server, tx |-> NoTx, fund |-> NoTx, crossed |-> FALSE]

Over == {"new", "done", "failed"}

OfAccount(a) == {t \in pool : t.from = a}

\* getTransactionCount(a, 'latest') and (a, 'pending')
Nonce(a)        == Cardinality({t \in mined : t.from = a})
PendingCount(a) == Nonce(a) + Cardinality(OfAccount(a))

IsTx(t) ==
  /\ t.from \in Account /\ t.value \in Nat /\ t.nonce \in Nat
  /\ t.fee.max \in Nat /\ t.fee.priority \in Nat /\ t.limit \in Nat

TypeOK ==
  /\ net \in Net /\ base \in Base /\ moves \in 0 .. Moves /\ faults \in 0 .. Faults
  /\ balance \in [Signer -> Nat]
  /\ \A t \in pool \cup mined : IsTx(t)
  /\ \A a \in Account : {t.nonce : t \in OfAccount(a)} = Nonce(a) .. PendingCount(a) - 1
  /\ \A j \in Job :
       /\ job[j].at \in Over \cup {"count", "price", "balance", "fund", "transfer",
                                   "funding", "prepared", "sent", "write", "send"}
       /\ job[j].signer \in Account /\ job[j].crossed \in BOOLEAN
       /\ IsTx(job[j].tx) /\ IsTx(job[j].fund)

Goto(j, at) == job' = [job EXCEPT ![j].at = at]

-----------------------------------------------------------------------------
(***************************************************************************)
(* The chain, as the code sees it.                                         *)
(***************************************************************************)

\* The transaction that a new one would take the place of.
Rivals(t) == {u \in OfAccount(t.from) : u.nonce = t.nonce}

\* A rival goes only for a tenth more.
Outbids(t, u) ==
  /\ 10 * t.fee.max >= 11 * u.fee.max
  /\ 10 * t.fee.priority >= 11 * u.fee.priority

\* The lowest priority fee or price that the network takes.
NetworkFloor == CASE net = "polygon" -> Gwei(25) [] net = "joc" -> Gwei(30) [] OTHER -> 0

\* JOC takes no EIP-1559 transactions (JapanOpenChain.ts:9-13).
FeeTaken(fee) ==
  /\ fee.priority <= fee.max /\ fee.priority >= NetworkFloor
  /\ net = "joc" => ~fee.eip

\* Transactions that are in the pool have been paid for.
Reserved(us) ==
  LET cost[s \in SUBSET us] ==
        IF s = {} THEN 0
        ELSE LET u == CHOOSE x \in s : TRUE IN CostOf(u) + cost[s \ {u}]
  IN  cost[us]

Accepts(t) ==
  /\ FeeTaken(t.fee)
  /\ t.nonce \in Nonce(t.from) .. PendingCount(t.from)
  /\ \A u \in Rivals(t) : Outbids(t, u)
  /\ t.from \in Signer =>
       CostOf(t) + Reserved(OfAccount(t.from) \ Rivals(t)) <= balance[t.from]

\* The price that a transaction pays at this base fee.
Paid(t) ==
  IF ~t.fee.eip THEN t.fee.max
  ELSE IF base + t.fee.priority < t.fee.max THEN base + t.fee.priority ELSE t.fee.max

\* A call whose gas does not suffice uses what it has.
GasUsed(t) == IF t.limit < Estimate THEN t.limit ELSE Estimate

Minable(t) == t.nonce = Nonce(t.from) /\ base <= t.fee.max

Mine(t) ==
  /\ t \in pool /\ Minable(t)
  /\ pool' = pool \ {t}
  /\ mined' = mined \cup {t}
  /\ balance' = [a \in Signer |-> balance[a] + (IF a = t.to THEN t.value ELSE 0)
                                    - (IF a = t.from THEN GasUsed(t) * Paid(t) ELSE 0)]
  /\ UNCHANGED <<net, base, moves, job, faults>>

Move ==
  /\ moves < Moves /\ moves' = moves + 1
  /\ base' \in Base
  /\ UNCHANGED <<net, balance, pool, mined, job, faults>>

\* sendTransaction: the transaction is in the pool, or an error is reported.
\* Other jobs of its account have met it.
Broadcast(j, t, at) ==
  \/ /\ Accepts(t)
     /\ pool' = (pool \ Rivals(t)) \cup {t}
     /\ job' = [k \in Job |->
                  IF k = j THEN [job[k] EXCEPT !.at = at]
                  ELSE [job[k] EXCEPT !.crossed = @ \/ t.from \in Signer \cap {job[k].signer}]]
  \/ /\ ~Accepts(t)
     /\ Goto(j, "failed")
     /\ UNCHANGED pool

\* wait(): the transaction is mined, or another one in its place.
Replaced(t) == \E u \in mined : u # t /\ u.from = t.from /\ u.nonce = t.nonce
Settled(t)  == t \in mined \/ Replaced(t)

-----------------------------------------------------------------------------
(***************************************************************************)
(* prepareAddRivetToContract                                               *)
(***************************************************************************)

Prepare(j, s) ==
  /\ job[j].at = "new"
  /\ job' = [job EXCEPT ![j] = [Rest EXCEPT !.at = "count", !.signer = s,
                                            !.crossed = OfAccount(s) # {}]]
  /\ chainUnchanged /\ UNCHANGED faults

\* estimateGas has answered or failed; the signer's next nonce is there.
Count(j) ==
  /\ job[j].at = "count"
  /\ \E gas \in {Estimate, FallbackGas} :
       job' = [job EXCEPT ![j].at = "price",
                 ![j].tx = [NoTx EXCEPT !.of = j, !.from = job[j].signer, !.limit = GasLimit(gas),
                                        !.nonce = PendingCount(job[j].signer)]]
  /\ chainUnchanged /\ UNCHANGED faults

Price(j) ==
  /\ job[j].at = "price"
  /\ job' = [job EXCEPT ![j].at = "balance",
                        ![j].tx.fee = PreparedFee(net, NetworkFee(net, base))]
  /\ chainUnchanged /\ UNCHANGED faults

Transfer(j, value) ==
  [NoTx EXCEPT !.of = j, !.to = job[j].signer, !.value = value,
               !.fee = FundingFee(net, job[j].tx.fee), !.limit = 27]

\* Mutant: the signer is sent the difference, whichever way it is.
BalanceAlways(j) ==
  /\ job[j].at = "balance"
  /\ job' = [job EXCEPT ![j].at = "fund",
               ![j].fund = Transfer(j, Needed(job[j].tx) - balance[job[j].signer])]
  /\ chainUnchanged /\ UNCHANGED faults

\* The signer's balance, without what is pending: is it enough?
Balance(j) ==
  /\ job[j].at = "balance"
  /\ LET short == Needed(job[j].tx) - balance[job[j].signer]
     IN  \/ short <= 0 /\ Goto(j, "prepared")
         \/ /\ short > 0
            /\ job' = [job EXCEPT ![j].at = "fund", ![j].fund = Transfer(j, short)]
  /\ chainUnchanged /\ UNCHANGED faults

\* serverWallet.sendTransaction asks for its own nonce, and broadcasts then.
Fund(j) ==
  /\ job[j].at = "fund"
  /\ job' = [job EXCEPT ![j].at = "transfer", ![j].fund.nonce = PendingCount(Server)]
  /\ chainUnchanged /\ UNCHANGED faults

\* Mutant: the transfer is not waited for.
SendTransferOnly(j) ==
  /\ job[j].at = "transfer"
  /\ Broadcast(j, job[j].fund, "prepared")
  /\ poolOnly /\ UNCHANGED faults

SendTransfer(j) ==
  /\ job[j].at = "transfer"
  /\ Broadcast(j, job[j].fund, "funding")
  /\ poolOnly /\ UNCHANGED faults

\* The transfer is mined, and the transaction returned to the browser.
Funded(j) ==
  /\ job[j].at = "funding" /\ Settled(job[j].fund)
  /\ Goto(j, IF Replaced(job[j].fund) THEN "failed" ELSE "prepared")
  /\ chainUnchanged /\ UNCHANGED faults

-----------------------------------------------------------------------------
(***************************************************************************)
(* The browser signs, and submitSignedTransaction broadcasts.              *)
(***************************************************************************)

\* Signed by the rivet's key, if it can be had.
Submit(j) ==
  /\ job[j].at = "prepared"
  /\ \/ Broadcast(j, job[j].tx, "sent")
     \/ Goto(j, "failed") /\ UNCHANGED pool
  /\ poolOnly /\ UNCHANGED faults

\* Mutant: only a receipt of the transaction itself ends the wait.
ConfirmedOrSilent(j) ==
  /\ job[j].at = "sent" /\ Settled(job[j].tx) /\ ~Replaced(job[j].tx)
  /\ Goto(j, "done")
  /\ chainUnchanged /\ UNCHANGED faults

\* The receipt is there, of a call that succeeded or reverted.
Confirmed(j) ==
  /\ job[j].at = "sent" /\ Settled(job[j].tx)
  /\ \/ Goto(j, "failed")
     \/ ~Replaced(job[j].tx) /\ Goto(j, "done")
  /\ chainUnchanged /\ UNCHANGED faults

-----------------------------------------------------------------------------
(***************************************************************************)
(* A write of the host through wrapContract.                               *)
(***************************************************************************)

\* The fees of the network's class, which may refuse to pay.
StartWrite(j) ==
  /\ job[j].at = "new"
  /\ LET fee == PolicyFee(net, base)
     IN  job' = [job EXCEPT ![j].at = IF fee = Refused THEN "failed" ELSE "write",
                            ![j].tx = [NoTx EXCEPT !.of = j, !.fee = fee,
                                                   !.limit = GasLimit(Estimate)]]
  /\ chainUnchanged /\ UNCHANGED faults

\* The write is populated with the server wallet's nonce ...
Write(j) ==
  /\ job[j].at = "write"
  /\ job' = [job EXCEPT ![j].at = "send", ![j].tx.nonce = PendingCount(Server)]
  /\ chainUnchanged /\ UNCHANGED faults

\* ... and broadcast.
SendWrite(j) ==
  /\ job[j].at = "send"
  /\ Broadcast(j, job[j].tx, "sent")
  /\ poolOnly /\ UNCHANGED faults

-----------------------------------------------------------------------------

Step(j) ==
  \/ Count(j) \/ Price(j) \/ Balance(j) \/ Fund(j) \/ SendTransfer(j) \/ Funded(j)
  \/ Submit(j) \/ Confirmed(j) \/ Write(j) \/ SendWrite(j)

\* The call is cut off: the host stops, an RPC fails, the page is closed.  What
\* was broadcast stays in the pool.
Cut(j) ==
  /\ job[j].at \notin Over
  /\ faults < Faults /\ faults' = faults + 1
  /\ Goto(j, "failed")
  /\ chainUnchanged

Init ==
  /\ net \in Net /\ base \in Base /\ moves = 0
  /\ balance = [s \in Signer |-> 0]
  /\ pool = {} /\ mined = {}
  /\ job = [j \in Job |-> Rest]
  /\ faults = 0

Next ==
  \/ \E j \in Job : Step(j) \/ Cut(j) \/ StartWrite(j) \/ \E s \in Signer : Prepare(j, s)
  \/ \E t \in pool : Mine(t)
  \/ Move

\* The host and the browser go on, and blocks are made.
Spec ==
  /\ Init /\ [][Next]_vars
  /\ \A j \in Job : WF_vars(Step(j))
  /\ WF_vars(\E t \in pool : Mine(t))

-----------------------------------------------------------------------------
(***************************************************************************)
(* Properties.                                                             *)
(***************************************************************************)

\* What prepareAddRivetToContract returns can be broadcast: its fees are what
\* the network takes, its nonce is free, and the signer can pay for it,
\* whatever the fees have done since they were read, and whichever calls for
\* other signers, writes, retries and cuts ran meanwhile over the one server
\* wallet.  Except on JOC, and for a signer that has another transaction in
\* the pool: its balance is read without what that will cost (epistery.ts:211, 253).
PreparedIsAccepted ==
  \A j \in Job :
    job[j].at = "prepared" /\ ~job[j].crossed /\ net # "joc" => Accepts(job[j].tx)

\* A write gets fees that the network takes, and never more than the ceiling
\* of its class: the default floor, multiplier and ceiling agree at every base
\* fee (PolygonChain.ts:33-58, JapanOpenChain.ts:36-56).
WritesWithinPolicy ==
  \A j \in Job :
    job[j].at \in {"write", "send"} =>
      /\ FeeTaken(job[j].tx.fee)
      /\ net \in {"polygon", "joc"} => job[j].tx.fee.max <= Ceiling
      /\ net = "polygon" => job[j].tx.fee.max >= 2 * job[j].tx.fee.priority

\* No call waits for ever: a transaction that was broadcast is confirmed, or the
\* one that has taken its place ends the wait, unless the base fee has risen
\* above what some transaction in the pool pays.
BroadcastsEnd ==
  \A j \in Job :
    job[j].at \in {"funding", "sent"} ~>
      \/ job[j].at \in Over \cup {"prepared"}
      \/ \E t \in pool : base > t.fee.max

=============================================================================
