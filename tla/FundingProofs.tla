---------------------------- MODULE FundingProofs ----------------------------
(***************************************************************************)
(* What is proved of Funding, for any number of calls and signers, every   *)
(* network, base fee and gas estimate, and any number of cuts: its types   *)
(* (a signer is never charged what it does not have), that a host's write  *)
(* is within its network's policy, and that what the host has prepared is  *)
(* accepted.  What the pool reserves is a recursive sum over a set: the    *)
(* facts about it come first.                                              *)
(***************************************************************************)
EXTENDS Funding, FiniteSetTheorems, TLAPS

-----------------------------------------------------------------------------
(***************************************************************************)
(* Sums of costs.                                                          *)
(***************************************************************************)

\* A sum f of the costs of the transactions in each subset of us.
IsSum(f, us) ==
  /\ f \in [SUBSET us -> Nat]
  /\ f[{}] = 0
  /\ \A s \in SUBSET us : \A u \in us \ s : f[s \cup {u}] = f[s] + CostOf(u)

\* Of some subsets of a finite set one is minimal.
LEMMA MinimalSubset ==
  ASSUME NEW us, IsFiniteSet(us), NEW T, T \subseteq SUBSET us, T # {}
  PROVE  \E x \in T : \A y \in T : y \subseteq x => y = x
<1>1. IsWellFoundedOn(StrictSubsetOrdering(us), SUBSET us)
  BY FS_StrictSubsetOrderingWellFounded, FS_FiniteSubsetsOfFinite
<1>2. PICK x \in T : \A y \in T : <<y, x>> \notin StrictSubsetOrdering(us)
  BY <1>1, WFMin
<1>3. ASSUME NEW y \in T, y \subseteq x
      PROVE  y = x
  <2>1. <<y, x>> \in (SUBSET us) \X (SUBSET us)
    OBVIOUS
  <2>2. y # x => <<y, x>> \in StrictSubsetOrdering(us)
    BY <1>3, <2>1 DEF StrictSubsetOrdering
  <2> QED
    BY <1>2, <2>2
<1>4. x \in T /\ \A y \in T : y \subseteq x => y = x
  BY <1>2, <1>3
<1> QED
  BY <1>4

\* The sums exist.
LEMMA SumExists ==
  ASSUME NEW us, IsFiniteSet(us), \A u \in us : CostOf(u) \in Nat
  PROVE  \E f : IsSum(f, us)
<1> DEFINE T == {s \in SUBSET us : ~ \E f : IsSum(f, s)}
<1> SUFFICES ASSUME \A f : ~IsSum(f, us)
             PROVE  FALSE
  OBVIOUS
<1>1. us \in T /\ T \subseteq SUBSET us
  OBVIOUS
<1>2. PICK x \in T : \A y \in T : y \subseteq x => y = x
  <2> HIDE DEF T
  <2> QED
    BY <1>1, MinimalSubset
<1>3. x # {}
  <2> SUFFICES ASSUME x = {}
               PROVE  FALSE
    OBVIOUS
  <2>1. IsSum([s \in SUBSET {} |-> 0], {})
    BY DEF IsSum
  <2> QED
    BY <1>2, <2>1
<1>4. PICK u \in x : TRUE
  BY <1>3
<1>5. PICK f : IsSum(f, x \ {u})
  <2>1. x \ {u} \in SUBSET us /\ x \ {u} \subseteq x /\ x \ {u} # x
    BY <1>4
  <2> QED
    BY <1>2, <2>1
<1> DEFINE g == [s \in SUBSET x |-> IF u \in s THEN f[s \ {u}] + CostOf(u) ELSE f[s]]
<1>6. IsSum(g, x)
  <2>1. /\ f \in [SUBSET (x \ {u}) -> Nat] /\ f[{}] = 0
        /\ \A s \in SUBSET (x \ {u}) : \A v \in (x \ {u}) \ s : f[s \cup {v}] = f[s] + CostOf(v)
    BY <1>5 DEF IsSum
  <2>2. g \in [SUBSET x -> Nat]
    <3> SUFFICES ASSUME NEW s \in SUBSET x
                 PROVE  g[s] \in Nat
      OBVIOUS
    <3>1. u \in s => s \ {u} \in SUBSET (x \ {u})
      OBVIOUS
    <3>2. u \notin s => s \in SUBSET (x \ {u})
      OBVIOUS
    <3>3. CostOf(u) \in Nat
      BY <1>4
    <3> QED
      BY <2>1, <3>1, <3>2, <3>3
  <2>3. g[{}] = 0
    BY <2>1
  <2>4. ASSUME NEW s \in SUBSET x, NEW v \in x \ s
        PROVE  g[s \cup {v}] = g[s] + CostOf(v)
    <3>1. CASE v = u
      <4>1. (s \cup {v}) \ {u} = s
        BY <2>4, <3>1
      <4> QED
        BY <2>4, <3>1, <4>1
    <3>2. CASE v # u /\ u \notin s
      <4>1. s \in SUBSET (x \ {u}) /\ v \in (x \ {u}) \ s
        BY <2>4, <3>2
      <4> QED
        BY <2>1, <2>4, <3>2, <4>1
    <3>3. CASE v # u /\ u \in s
      <4> DEFINE p == s \ {u}
      <4>1. p \in SUBSET (x \ {u}) /\ v \in (x \ {u}) \ p
        BY <2>4, <3>3
      <4>2. f[p \cup {v}] = f[p] + CostOf(v)
        BY <2>1, <4>1
      <4>3. (s \cup {v}) \ {u} = p \cup {v}
        BY <3>3
      <4>4. g[s \cup {v}] = f[p \cup {v}] + CostOf(u)
        BY <2>4, <3>3, <4>3
      <4>5. g[s] = f[p] + CostOf(u)
        BY <3>3
      <4>6. f[p] \in Nat /\ CostOf(u) \in Nat /\ CostOf(v) \in Nat
        BY <1>4, <2>1, <2>4, <4>1
      <4> QED
        BY <4>2, <4>4, <4>5, <4>6
    <3> QED
      BY <3>1, <3>2, <3>3
  <2> QED
    BY <2>2, <2>3, <2>4 DEF IsSum
<1> QED
  BY <1>2, <1>6

\* The pool's sum is one of them.
LEMMA ReservedIsSum ==
  ASSUME NEW us, IsFiniteSet(us), \A u \in us : CostOf(u) \in Nat, NEW f, IsSum(f, us)
  PROVE  Reserved(us) = f[us]
<1> DEFINE Cost(h) == [s \in SUBSET us |->
                         IF s = {} THEN 0
                         ELSE LET u == CHOOSE x \in s : TRUE IN CostOf(u) + h[s \ {u}]]
           cost == CHOOSE h : h = Cost(h)
<1>1. Reserved(us) = cost[us]
  BY DEF Reserved
<1> DEFINE First(s) == CHOOSE x \in s : TRUE
<1>2. ASSUME NEW s \in SUBSET us, s # {}
      PROVE  /\ First(s) \in s /\ s \ {First(s)} \in SUBSET us
             /\ f[s] = CostOf(First(s)) + f[s \ {First(s)}]
  <2> DEFINE u == First(s)
  <2>1. u \in s
    BY <1>2
  <2> HIDE DEF u
  <2>2. s \ {u} \in SUBSET us /\ u \in us \ (s \ {u}) /\ (s \ {u}) \cup {u} = s
    BY <1>2, <2>1
  <2>3. f[s] = f[s \ {u}] + CostOf(u)
    BY <2>2 DEF IsSum
  <2>4. f[s \ {u}] \in Nat /\ CostOf(u) \in Nat
    BY <2>2 DEF IsSum
  <2>5. f[s] = CostOf(u) + f[s \ {u}]
    BY <2>3, <2>4
  <2> QED
    BY <2>1, <2>2, <2>5 DEF u
<1>3. \A h : Cost(h) = [s \in SUBSET us |->
                          IF s = {} THEN 0 ELSE CostOf(First(s)) + h[s \ {First(s)}]]
  OBVIOUS
<1> HIDE DEF Cost, First
<1>4. f = Cost(f)
  BY <1>2, <1>3 DEF IsSum
<1>5. cost = Cost(cost)
  BY <1>4
<1> HIDE DEF cost
<1>6. cost[us] = f[us]
  <2> DEFINE T == {s \in SUBSET us : cost[s] # f[s]}
  <2> SUFFICES ASSUME T # {}
               PROVE  FALSE
    OBVIOUS
  <2>1. PICK x \in T : \A y \in T : y \subseteq x => y = x
    <3>1. T \subseteq SUBSET us
      OBVIOUS
    <3> HIDE DEF T
    <3> QED
      BY <3>1, MinimalSubset
  <2>2. x # {}
    BY <1>3, <1>5, <2>1 DEF IsSum
  <2>3. /\ First(x) \in x /\ x \ {First(x)} \in SUBSET us
        /\ f[x] = CostOf(First(x)) + f[x \ {First(x)}]
    BY <1>2, <2>1, <2>2
  <2>4. cost[x \ {First(x)}] = f[x \ {First(x)}]
    BY <2>1, <2>3
  <2>5. cost[x] = CostOf(First(x)) + cost[x \ {First(x)}]
    BY <1>3, <1>5, <2>1, <2>2
  <2> QED
    BY <2>1, <2>3, <2>4, <2>5
<1> QED
  BY <1>1, <1>6

\* What a set of transactions reserves, and what one more adds to it.
LEMMA ReservedSums ==
  ASSUME NEW us, IsFiniteSet(us), \A u \in us : CostOf(u) \in Nat
  PROVE  /\ Reserved(us) \in Nat
         /\ Reserved({}) = 0
         /\ \A u \in us : Reserved(us) = Reserved(us \ {u}) + CostOf(u)
<1>1. PICK f : IsSum(f, us)
  BY SumExists
<1>2. /\ f \in [SUBSET us -> Nat] /\ f[{}] = 0
      /\ \A s \in SUBSET us : \A u \in us \ s : f[s \cup {u}] = f[s] + CostOf(u)
  BY <1>1 DEF IsSum
<1>3. ASSUME NEW s \in SUBSET us
      PROVE  Reserved(s) = f[s]
  <2> DEFINE g == [x \in SUBSET s |-> f[x]]
  <2>1. IsSum(g, s)
    <3>1. g \in [SUBSET s -> Nat] /\ g[{}] = 0
      BY <1>2
    <3>2. ASSUME NEW x \in SUBSET s, NEW u \in s \ x
          PROVE  g[x \cup {u}] = g[x] + CostOf(u)
      <4>1. x \in SUBSET us /\ u \in us \ x
        OBVIOUS
      <4> QED
        BY <1>2, <4>1
    <3> QED
      BY <3>1, <3>2 DEF IsSum
  <2>2. IsFiniteSet(s) /\ \A u \in s : CostOf(u) \in Nat
    BY FS_Subset
  <2> QED
    BY <2>1, <2>2, ReservedIsSum
<1>4. ASSUME NEW u \in us
      PROVE  Reserved(us) = Reserved(us \ {u}) + CostOf(u)
  <2>1. us \ {u} \in SUBSET us /\ u \in us \ (us \ {u}) /\ (us \ {u}) \cup {u} = us
    OBVIOUS
  <2>2. f[us] = f[us \ {u}] + CostOf(u)
    BY <1>2, <2>1
  <2> QED
    BY <1>3, <2>1, <2>2
<1> QED
  BY <1>2, <1>3, <1>4

-----------------------------------------------------------------------------
(***************************************************************************)
(* The invariant.                                                          *)
(***************************************************************************)

Fee == [eip : BOOLEAN, max : Nat, priority : Nat]

Tx == [of : Job \cup {"none"}, from : Account, to : Account \cup {"call"}, value : Nat,
       nonce : Nat, fee : Fee, limit : Nat]

Stage == Over \cup {"count", "price", "balance", "fund", "transfer", "funding", "prepared",
                    "sent", "write", "send"}

JobData == [at : Stage, signer : Account, tx : Tx, fund : Tx, crossed : BOOLEAN]

\* The call is preparing a transaction, or has prepared it.
Preparing == {"count", "price", "balance", "fund", "transfer", "funding", "prepared"}

\* It has broadcast nothing.
Unsent == {"new", "count", "price", "balance", "fund", "transfer", "write", "send"}

DataTypes ==
  /\ net \in Net /\ base \in Base /\ moves \in 0 .. Moves /\ faults \in 0 .. Faults
  /\ balance \in [Signer -> Nat]
  /\ IsFiniteSet(pool) /\ pool \subseteq Tx
  /\ IsFiniteSet(mined) /\ mined \subseteq Tx
  /\ job \in [Job -> JobData]

\* An account's transactions in the pool have the nonces after those that are
\* mined, each once, and a signer can pay for them all.
PoolInOrder ==
  /\ \A t \in mined : t.nonce < Nonce(t.from)
  /\ \A a \in Account : {t.nonce : t \in OfAccount(a)} = Nonce(a) .. PendingCount(a) - 1
  /\ \A t, u \in pool : t.from = u.from /\ t.nonce = u.nonce => t = u
  /\ \A s \in Signer : Reserved(OfAccount(s)) <= balance[s]

\* What is broadcast belongs to a call that has broadcast something.
OwnedByJobs == \A t \in pool \cup mined : t.of \in Job /\ job[t.of].at \notin Unsent

\* A call that prepares a transaction, of a signer that has no other in the pool.
Alone(q) == q.at \in Preparing /\ ~q.crossed

\* The signer has what the transaction needs, or will have it with the transfer.
Covered(q) ==
  LET has == balance[q.signer]
  IN  /\ q.at \in {"fund", "transfer"} \/ (q.at = "funding" /\ q.fund \notin mined) =>
           has + q.fund.value >= Needed(q.tx)
      /\ q.at = "prepared" \/ (q.at = "funding" /\ q.fund \in mined) => has >= Needed(q.tx)

\* A write's fee is what the network takes, and within the policy.
InPolicy(fee) ==
  /\ FeeTaken(fee)
  /\ net \in {"polygon", "joc"} => fee.max <= Ceiling
  /\ net = "polygon" => fee.max >= 2 * fee.priority

JobInOrder(j, q) ==
  /\ q.at \in Preparing => q.signer \in Signer
  /\ q.at \in Preparing \ {"count"} => q.tx.from = q.signer /\ q.tx.of = j
  /\ q.at \in {"write", "send"} => q.tx.from = Server /\ q.tx.of = j /\ InPolicy(q.tx.fee)
  /\ q.at \in Preparing \ {"count", "price"} /\ net # "joc" => FeeTaken(q.tx.fee)
  /\ q.at \in {"fund", "transfer", "funding"} =>
       q.fund.from = Server /\ q.fund.to = q.signer /\ q.fund.of = j
  /\ Alone(q) =>
       /\ OfAccount(q.signer) = {}
       /\ q.at # "count" => q.tx.nonce = Nonce(q.signer)
       /\ Covered(q)

FundingInv ==
  /\ DataTypes /\ PoolInOrder /\ OwnedByJobs
  /\ \A j \in Job : JobInOrder(j, job[j])

-----------------------------------------------------------------------------
(***************************************************************************)
(* Fees and costs.                                                         *)
(***************************************************************************)

LEMMA Prices ==
  /\ Unit \in Nat /\ Unit > 0 /\ Server \notin Signer
  /\ \A n \in Nat : Gwei(n) = n * Unit
  /\ Gwei(3) \div 2 \in Nat /\ Gwei(3) \div 2 <= 2 * Unit
  /\ Ceiling \in Nat /\ PolygonFloor = 25 * Unit /\ JocFloor = 30 * Unit
  /\ PreparedFloor = 30 * Unit /\ Ceiling = 1000 * Unit
BY UnitAssumption, FundingAssumption DEF Gwei, Ceiling, PolygonFloor, JocFloor, PreparedFloor

LEMMA NetworkFeeType ==
  ASSUME NEW n, NEW b \in Nat
  PROVE  /\ NetworkFee(n, b) \in Fee
         /\ NetworkFee(n, b).priority <= NetworkFee(n, b).max
         /\ n # "legacy" => NetworkFee(n, b).priority <= 2 * Unit
BY Prices DEF NetworkFee, FeeLegacy, Fee1559, Fee

\* A fee that a transaction is prepared with.
LEMMA PreparedFeeTaken ==
  ASSUME net \in Networks, NEW b \in Nat
  PROVE  LET fee == PreparedFee(net, NetworkFee(net, b))
         IN  fee \in Fee /\ (net # "joc" => FeeTaken(fee))
<1> DEFINE fd == NetworkFee(net, b)
           raised == [fd EXCEPT !.max = Plus20(@), !.priority = Plus20(@)]
           fee == PreparedFee(net, fd)
<1>1. /\ fd \in Fee /\ fd.priority <= fd.max
  BY NetworkFeeType
<1> HIDE DEF fd
<1>2. /\ raised \in Fee /\ raised.priority <= raised.max
  <2>1. \A m, p \in Nat : LET x == [fd EXCEPT !.max = m, !.priority = p]
                         IN  x \in Fee /\ x.max = m /\ x.priority = p
    BY <1>1 DEF Fee
  <2>2. Plus20(fd.max) \in Nat /\ Plus20(fd.priority) \in Nat
          /\ Plus20(fd.priority) <= Plus20(fd.max)
    BY <1>1 DEF Plus20, Fee
  <2> QED
    BY <2>1, <2>2
<1>3. CASE net # "polygon"
  <2>1. fee = raised
    BY <1>3 DEF PreparedFee
  <2> HIDE DEF raised, fee
  <2> QED
    BY <1>2, <1>3, <2>1 DEF FeeTaken, NetworkFloor, Networks, Fee, fee, fd
<1>4. CASE net = "polygon"
  <2> DEFINE priority == Higher(raised.priority, PreparedFloor)
             max == IF raised.max < priority THEN 2 * priority ELSE raised.max
  <2>1. fee = Fee1559(max, priority)
    BY <1>4 DEF PreparedFee
  <2> HIDE DEF raised, fee
  <2>2. /\ priority \in Nat /\ max \in Nat
        /\ priority <= max /\ priority >= 25 * Unit
    BY <1>2, Prices DEF Higher, Fee
  <2> HIDE DEF priority, max
  <2>3. fee \in Fee
    BY <2>1, <2>2 DEF Fee1559, Fee
  <2>4. FeeTaken(fee)
    BY <1>4, <2>1, <2>2, Prices DEF FeeTaken, NetworkFloor, Fee1559
  <2> QED
    BY <2>3, <2>4 DEF fee, fd
<1> QED
  BY <1>3, <1>4

\* A fee of the network's class.
LEMMA PolicyFeeTaken ==
  ASSUME net \in Networks, NEW b \in Nat
  PROVE  LET fee == PolicyFee(net, b)
         IN  fee \in Fee /\ (fee # Refused => InPolicy(fee))
<1> DEFINE fd == NetworkFee(net, b)
           fee == PolicyFee(net, b)
<1>1. fd \in Fee /\ fd.priority <= fd.max
  BY NetworkFeeType
<1> HIDE DEF fd
<1>2. CASE net = "polygon"
  <2> DEFINE priority == Higher(fd.priority, PolygonFloor)
             max == Higher(fd.max, MaxFeeMultiple * priority)
  <2>1. fee = IF max > Ceiling THEN Refused ELSE Fee1559(max, priority)
    BY <1>2 DEF PolicyFee, PolygonFee, fd
  <2>2. /\ priority \in Nat /\ max \in Nat
        /\ priority >= 25 * Unit /\ max >= 2 * priority
    BY <1>1, Prices DEF Higher, Fee, MaxFeeMultiple
  <2> HIDE DEF priority, max, fee
  <2>3. fee \in Fee
    BY <2>1, <2>2 DEF Fee1559, Fee, Refused
  <2>4. fee # Refused => InPolicy(fee)
    BY <1>2, <2>1, <2>2, Prices DEF InPolicy, FeeTaken, NetworkFloor, Fee1559
  <2> QED
    BY <2>3, <2>4 DEF fee
<1>3. CASE net = "joc"
  <2> DEFINE price == Higher(b, JocFloor)
  <2>1. fee = IF price > Ceiling THEN Refused ELSE FeeLegacy(price)
    BY <1>3 DEF PolicyFee, JocFee
  <2>2. price \in Nat /\ price >= 30 * Unit
    BY Prices DEF Higher
  <2> HIDE DEF price, fee
  <2>3. fee \in Fee
    BY <2>1, <2>2 DEF FeeLegacy, Fee, Refused
  <2>4. fee # Refused => InPolicy(fee)
    BY <1>3, <2>1, <2>2, Prices DEF InPolicy, FeeTaken, NetworkFloor, FeeLegacy
  <2> QED
    BY <2>3, <2>4 DEF fee
<1>4. CASE net \notin {"polygon", "joc"}
  <2>1. fee = fd
    BY <1>4 DEF PolicyFee, fd
  <2> QED
    BY <1>1, <1>4, <2>1 DEF InPolicy, FeeTaken, NetworkFloor, Fee
<1> QED
  BY <1>2, <1>3, <1>4

LEMMA CostIsNat ==
  ASSUME NEW t \in Tx
  PROVE  CostOf(t) \in Nat /\ Needed(t) \in Nat /\ CostOf(t) <= Needed(t)
<1>1. t.limit \in Nat /\ t.fee.max \in Nat
  BY DEF Tx, Fee
<1>2. t.limit * t.fee.max \in Nat
  BY <1>1
<1>3. CostOf(t) \in Nat
  BY <1>2 DEF CostOf
<1> QED
  BY <1>3 DEF Needed, Plus50

\* A transaction costs at most what is reserved for it.
LEMMA PaidAtMost ==
  ASSUME DataTypes, NEW t \in Tx
  PROVE  GasUsed(t) * Paid(t) \in Nat /\ GasUsed(t) * Paid(t) <= CostOf(t)
<1>1. t.limit \in Nat /\ t.fee.max \in Nat /\ t.fee.priority \in Nat /\ base \in Nat
  BY FundingAssumption DEF Tx, Fee, DataTypes
<1>2. GasUsed(t) \in Nat /\ GasUsed(t) <= t.limit
  BY <1>1, FundingAssumption DEF GasUsed
<1>3. Paid(t) \in Nat /\ Paid(t) <= t.fee.max
  BY <1>1 DEF Paid
<1> QED
  <2> DEFINE u == GasUsed(t)
             p == Paid(t)
  <2> HIDE DEF u, p
  <2>1. \A x, y, v, w \in Nat : x <= v /\ y <= w => x * y \in Nat /\ x * y <= v * w
    <3> TAKE x, y, v, w \in Nat
    <3>1. x <= v => x * y <= v * y
      OBVIOUS
    <3>2. y <= w => v * y <= v * w
      OBVIOUS
    <3> QED
      BY <3>1, <3>2
  <2> QED
    BY <1>1, <1>2, <1>3, <2>1 DEF CostOf

-----------------------------------------------------------------------------
(***************************************************************************)
(* The pool.                                                               *)
(***************************************************************************)

\* How many transactions of an account there are.
LEMMA PoolSizes ==
  ASSUME DataTypes, NEW a
  PROVE  /\ IsFiniteSet(OfAccount(a)) /\ OfAccount(a) \subseteq pool
         /\ Cardinality(OfAccount(a)) \in Nat /\ Nonce(a) \in Nat
         /\ PendingCount(a) = Nonce(a) + Cardinality(OfAccount(a)) /\ PendingCount(a) \in Nat
         /\ IsFiniteSet({t \in mined : t.from = a})
         /\ OfAccount(a) = {} => Cardinality(OfAccount(a)) = 0
<1>1. IsFiniteSet(OfAccount(a)) /\ IsFiniteSet({t \in mined : t.from = a})
  BY FS_Subset DEF DataTypes, OfAccount
<1>2. Cardinality(OfAccount(a)) \in Nat /\ Nonce(a) \in Nat
  BY <1>1, FS_CardinalityType DEF Nonce
<1> QED
  BY <1>1, <1>2, FS_EmptySet DEF OfAccount, PendingCount

\* What a signer's transactions reserve.
LEMMA SignerReserves ==
  ASSUME DataTypes, NEW us \in SUBSET pool
  PROVE  /\ Reserved(us) \in Nat /\ Reserved({}) = 0
         /\ \A u \in us : Reserved(us) = Reserved(us \ {u}) + CostOf(u)
<1>1. IsFiniteSet(us) /\ \A u \in us : CostOf(u) \in Nat
  BY FS_Subset, CostIsNat DEF DataTypes
<1> QED
  BY <1>1, ReservedSums

\* A transaction that is accepted is put in order.
LEMMA BroadcastPool ==
  ASSUME DataTypes, PoolInOrder, NEW t \in Tx, Accepts(t),
         pool' = (pool \ Rivals(t)) \cup {t}, UNCHANGED <<mined, balance>>
  PROVE  /\ PoolInOrder' /\ IsFiniteSet(pool') /\ pool' \in SUBSET Tx
         /\ \A a : a # t.from => OfAccount(a)' = OfAccount(a)
         /\ \A a : Nonce(a)' = Nonce(a)
<1> DEFINE b == t.from
           R == Rivals(t)
           n == Nonce(b)
           m == Cardinality(OfAccount(b))
<1>1. /\ R \subseteq OfAccount(b) /\ t.nonce \in n .. n + m /\ t.nonce \in Nat /\ b \in Account
      /\ \A u \in R : u.from = b /\ u.nonce = t.nonce
      /\ \A u \in OfAccount(b) \ R : u.nonce # t.nonce
      /\ n \in Nat /\ m \in Nat /\ IsFiniteSet(OfAccount(b))
  BY PoolSizes DEF Rivals, Accepts, PendingCount, Tx, OfAccount
<1>2. {u.nonce : u \in OfAccount(b)} = n .. n + m - 1
  BY <1>1 DEF PoolInOrder, PendingCount
<1>3. \A u, v \in pool : u.from = v.from /\ u.nonce = v.nonce => u = v
  BY DEF PoolInOrder
<1>4. OfAccount(b)' = (OfAccount(b) \ R) \cup {t} /\ t \notin OfAccount(b) \ R
  BY <1>1 DEF OfAccount
<1>5. \A a : a # b => OfAccount(a)' = OfAccount(a)
  BY <1>1 DEF OfAccount
<1>6. \A a : Nonce(a)' = Nonce(a)
  BY DEF Nonce
<1>7. IsFiniteSet(pool') /\ pool' \in SUBSET Tx
  BY FS_Difference, FS_AddElement DEF DataTypes
<1>8. \/ R = {} /\ t.nonce = n + m
      \/ \E u \in OfAccount(b) : R = {u} /\ t.nonce < n + m
  <2>1. CASE t.nonce = n + m
    <3>1. \A u \in OfAccount(b) : u.nonce \in n .. n + m - 1
      BY <1>2
    <3> QED
      BY <1>1, <2>1, <3>1
  <2>2. CASE t.nonce # n + m
    <3>1. t.nonce \in n .. n + m - 1
      BY <1>1, <2>2
    <3>2. PICK u \in OfAccount(b) : u.nonce = t.nonce
      BY <1>2, <3>1
    <3>3. u \in R
      BY <3>2 DEF Rivals
    <3>4. R \subseteq pool /\ OfAccount(b) \subseteq pool
      BY <1>1 DEF OfAccount
    <3>5. R = {u}
      BY <1>1, <1>3, <3>2, <3>3, <3>4
    <3> QED
      BY <3>1, <3>2, <3>5, <1>1
  <2> QED
    BY <2>1, <2>2
<1> HIDE DEF b, R, n, m
<1>9. Cardinality(OfAccount(b)') = IF R = {} THEN m + 1 ELSE m
  <2>1. CASE R = {}
    <3>1. OfAccount(b)' = OfAccount(b) \cup {t} /\ t \notin OfAccount(b)
      BY <1>4, <2>1
    <3>2. Cardinality(OfAccount(b) \cup {t}) = m + 1
      BY <1>1, <3>1, FS_AddElement DEF m
    <3> QED
      BY <2>1, <3>1, <3>2
  <2>2. ASSUME NEW u \in OfAccount(b), R = {u}
        PROVE  Cardinality(OfAccount(b)') = m
    <3>1. IsFiniteSet(OfAccount(b) \ {u}) /\ Cardinality(OfAccount(b) \ {u}) = m - 1
      BY <1>1, <2>2, FS_RemoveElement DEF m
    <3>2. OfAccount(b)' = (OfAccount(b) \ {u}) \cup {t} /\ t \notin OfAccount(b) \ {u}
      BY <1>4, <2>2
    <3>3. Cardinality((OfAccount(b) \ {u}) \cup {t}) = m - 1 + 1
      BY <3>1, <3>2, FS_AddElement
    <3> QED
      BY <1>1, <3>2, <3>3
  <2>3. ASSUME NEW u \in OfAccount(b), R = {u}
        PROVE  R # {}
    BY <2>3
  <2> QED
    BY <1>8, <2>1, <2>2, <2>3
<1>10. \A u \in mined : u.nonce < Nonce(u.from)'
  BY <1>6 DEF PoolInOrder
<1>11. ASSUME NEW a \in Account
       PROVE  {u.nonce : u \in OfAccount(a)'} = Nonce(a)' .. PendingCount(a)' - 1
  <2>1. CASE a # b
    <3>1. OfAccount(a)' = OfAccount(a) /\ Nonce(a)' = Nonce(a) /\ PendingCount(a)' = PendingCount(a)
      BY <1>5, <1>6, <2>1 DEF PendingCount
    <3> QED
      BY <3>1 DEF PoolInOrder
  <2>2. CASE a = b /\ R = {}
    <3>1. PendingCount(a)' = n + m + 1 /\ Nonce(a)' = n
      BY <1>1, <1>6, <1>9, <2>2 DEF PendingCount, n
    <3>2. OfAccount(a)' = OfAccount(b) \cup {t} /\ t.nonce = n + m
      BY <1>4, <1>8, <2>2
    <3>3. {u.nonce : u \in OfAccount(b) \cup {t}} = {u.nonce : u \in OfAccount(b)} \cup {t.nonce}
      OBVIOUS
    <3>4. (n .. n + m - 1) \cup {n + m} = n .. n + m + 1 - 1
      BY <1>1
    <3> QED
      BY <1>2, <3>1, <3>2, <3>3, <3>4
  <2>3. ASSUME a = b, NEW u \in OfAccount(b), R = {u}
        PROVE  {x.nonce : x \in OfAccount(a)'} = Nonce(a)' .. PendingCount(a)' - 1
    <3>1. PendingCount(a)' = n + m /\ Nonce(a)' = n
      BY <1>1, <1>6, <1>9, <2>3 DEF PendingCount, n
    <3>2. OfAccount(a)' = (OfAccount(b) \ {u}) \cup {t} /\ u.nonce = t.nonce
      BY <1>1, <1>4, <2>3
    <3>3. {x.nonce : x \in (OfAccount(b) \ {u}) \cup {t}} = {x.nonce : x \in OfAccount(b)}
      BY <3>2
    <3>4. {x.nonce : x \in OfAccount(a)'} = {x.nonce : x \in OfAccount(b)}
      BY <3>2, <3>3
    <3>5. Nonce(a)' .. PendingCount(a)' - 1 = n .. n + m - 1
      BY <1>1, <3>1
    <3> QED
      BY <1>2, <3>4, <3>5, Zenon
  <2> QED
    BY <1>8, <2>1, <2>2, <2>3
<1>12. ASSUME NEW u \in pool', NEW v \in pool', u.from = v.from, u.nonce = v.nonce
       PROVE  u = v
  <2>1. pool' = (pool \ R) \cup {t}
    BY DEF R
  <2>2. \A x \in pool \ R : x.from = b => x.nonce # t.nonce
    BY <1>1 DEF OfAccount
  <2>3. CASE u \in pool \ R /\ v \in pool \ R
    BY <1>3, <1>12, <2>3
  <2> QED
    BY <1>12, <2>1, <2>2, <2>3 DEF b
<1>13. ASSUME NEW s \in Signer
       PROVE  Reserved(OfAccount(s)') <= balance[s]
  <2>1. CASE s # b
    BY <1>5, <2>1 DEF PoolInOrder
  <2>2. CASE s = b
    <3> DEFINE rest == OfAccount(b) \ R
    <3>1. CostOf(t) + Reserved(rest) <= balance[s]
      BY <2>2 DEF Accepts, b, R
    <3>2. IsFiniteSet(rest \cup {t}) /\ \A u \in rest \cup {t} : CostOf(u) \in Nat
      <4>1. IsFiniteSet(rest)
        BY <1>1, FS_Difference
      <4>2. \A u \in rest : u \in Tx
        BY DEF OfAccount, DataTypes
      <4> QED
        BY <4>1, <4>2, FS_AddElement, CostIsNat
    <3>3. Reserved(rest \cup {t}) = Reserved((rest \cup {t}) \ {t}) + CostOf(t)
      BY <3>2, ReservedSums
    <3>4. (rest \cup {t}) \ {t} = rest
      BY <1>4
    <3>5. Reserved(rest) \in Nat /\ CostOf(t) \in Nat
      <4>1. IsFiniteSet(rest) /\ \A u \in rest : CostOf(u) \in Nat
        BY <1>1, <3>2, FS_Difference
      <4> QED
        BY <4>1, ReservedSums, CostIsNat
    <3>6. OfAccount(s)' = rest \cup {t}
      BY <1>4, <2>2
    <3>7. Reserved(rest \cup {t}) = Reserved(rest) + CostOf(t)
      BY <3>3, <3>4
    <3>8. balance[s] \in Nat
      BY DEF DataTypes
    <3>9. Reserved(rest \cup {t}) <= balance[s]
      BY <3>1, <3>5, <3>7, <3>8
    <3> QED
      BY <3>6, <3>9
  <2> QED
    BY <2>1, <2>2
<1>14. PoolInOrder'
  BY <1>10, <1>11, <1>12, <1>13 DEF PoolInOrder
<1> QED
  BY <1>5, <1>6, <1>7, <1>14 DEF b

\* A transaction that is mined leaves the others in order.
LEMMA MinePool ==
  ASSUME DataTypes, PoolInOrder, NEW t \in pool, Mine(t)
  PROVE  /\ PoolInOrder' /\ IsFiniteSet(pool') /\ pool' \in SUBSET Tx
         /\ IsFiniteSet(mined') /\ mined' \in SUBSET Tx /\ balance' \in [Signer -> Nat]
         /\ \A a : a # t.from =>
              OfAccount(a)' = OfAccount(a) /\ Nonce(a)' = Nonce(a)
         /\ \A s \in Signer : s # t.from =>
              balance'[s] = balance[s] + (IF s = t.to THEN t.value ELSE 0)
<1> DEFINE b == t.from
           n == Nonce(b)
           m == Cardinality(OfAccount(b))
           own == {u \in mined : u.from = b}
<1>1. /\ t \in Tx /\ b \in Account /\ t.nonce = n /\ t \in OfAccount(b)
      /\ n \in Nat /\ m \in Nat /\ IsFiniteSet(OfAccount(b)) /\ IsFiniteSet(own)
      /\ pool' = pool \ {t} /\ mined' = mined \cup {t}
      /\ t.value \in Nat
  BY PoolSizes DEF Mine, Minable, Tx, OfAccount, DataTypes
<1>2. {u.nonce : u \in OfAccount(b)} = n .. n + m - 1
  BY <1>1 DEF PoolInOrder, PendingCount
<1>3. t \notin mined
  BY <1>1 DEF PoolInOrder
<1>4. \A a : a # b => OfAccount(a)' = OfAccount(a) /\ Nonce(a)' = Nonce(a)
  <2> TAKE a
  <2> HAVE a # b
  <2>1. OfAccount(a)' = OfAccount(a)
    BY <1>1 DEF OfAccount
  <2>2. {u \in mined' : u.from = a} = {u \in mined : u.from = a}
    BY <1>1
  <2> QED
    BY <2>1, <2>2 DEF Nonce
<1>5. /\ OfAccount(b)' = OfAccount(b) \ {t}
      /\ {u \in mined' : u.from = b} = own \cup {t} /\ t \notin own
  BY <1>1, <1>3 DEF OfAccount
<1> HIDE DEF b
<1>6. Nonce(b)' = n + 1
  <2>1. Cardinality(own \cup {t}) = Cardinality(own) + 1
    BY <1>1, <1>5, FS_AddElement
  <2> QED
    BY <1>5, <2>1 DEF Nonce
<1>7. Cardinality(OfAccount(b)') = m - 1
  <2>1. Cardinality(OfAccount(b) \ {t}) = m - 1
    BY <1>1, FS_RemoveElement DEF m
  <2> QED
    BY <1>5, <2>1
<1> HIDE DEF n, m, own
<1>8. /\ IsFiniteSet(pool') /\ pool' \in SUBSET Tx
      /\ IsFiniteSet(mined') /\ mined' \in SUBSET Tx
  BY <1>1, FS_AddElement, FS_RemoveElement DEF DataTypes
<1>9. ASSUME NEW u \in mined'
      PROVE  u.nonce < Nonce(u.from)'
  <2>1. CASE u = t
    BY <1>1, <1>6, <2>1 DEF b
  <2>2. CASE u \in mined /\ u.from = b
    <3>1. u.nonce < n /\ u.nonce \in Nat
      BY <2>2 DEF PoolInOrder, n, DataTypes, Tx
    <3> QED
      BY <1>1, <1>6, <2>2, <3>1
  <2>3. CASE u \in mined /\ u.from # b
    BY <1>4, <2>3 DEF PoolInOrder
  <2> QED
    BY <1>1, <2>1, <2>2, <2>3
<1>10. ASSUME NEW a \in Account
       PROVE  {u.nonce : u \in OfAccount(a)'} = Nonce(a)' .. PendingCount(a)' - 1
  <2>1. CASE a # b
    <3>1. OfAccount(a)' = OfAccount(a) /\ Nonce(a)' = Nonce(a) /\ PendingCount(a)' = PendingCount(a)
      BY <1>4, <2>1 DEF PendingCount
    <3> QED
      BY <3>1 DEF PoolInOrder
  <2>2. CASE a = b
    <3>1. Nonce(a)' .. PendingCount(a)' - 1 = (n .. n + m - 1) \ {n}
      <4>1. PendingCount(a)' = n + 1 + (m - 1)
        BY <1>6, <1>7, <2>2 DEF PendingCount
      <4> QED
        BY <1>1, <1>6, <2>2, <4>1
    <3>2. \A u \in OfAccount(b) : u.nonce = t.nonce => u = t
      BY <1>1 DEF PoolInOrder, OfAccount
    <3>3. {u.nonce : u \in OfAccount(b) \ {t}} = {u.nonce : u \in OfAccount(b)} \ {n}
      BY <1>1, <3>2
    <3>4. {u.nonce : u \in OfAccount(a)'} = {u.nonce : u \in OfAccount(b) \ {t}}
      BY <1>5, <2>2
    <3> QED
      BY <1>2, <3>1, <3>3, <3>4, Zenon
  <2> QED
    BY <2>1, <2>2
<1>11. \A u, v \in pool' : u.from = v.from /\ u.nonce = v.nonce => u = v
  BY <1>1 DEF PoolInOrder
<1>12. ASSUME NEW s \in Signer
       PROVE  /\ balance'[s] \in Nat /\ Reserved(OfAccount(s)') <= balance'[s]
              /\ s # b => balance'[s] = balance[s] + (IF s = t.to THEN t.value ELSE 0)
  <2> DEFINE got == IF s = t.to THEN t.value ELSE 0
             pays == IF s = t.from THEN GasUsed(t) * Paid(t) ELSE 0
  <2>1. balance'[s] = balance[s] + got - pays /\ got \in Nat /\ balance[s] \in Nat
    BY <1>1 DEF Mine, DataTypes
  <2>2. /\ Reserved(OfAccount(s)) \in Nat /\ Reserved(OfAccount(s)) <= balance[s]
        /\ \A u \in OfAccount(s) : Reserved(OfAccount(s)) = Reserved(OfAccount(s) \ {u}) + CostOf(u)
    BY SignerReserves DEF PoolInOrder, OfAccount
  <2>3. CASE s # b
    <3>1. pays = 0 /\ OfAccount(s)' = OfAccount(s)
      BY <1>4, <2>3 DEF b
    <3> HIDE DEF pays
    <3>2. balance'[s] = balance[s] + got
      BY <2>1, <3>1
    <3>3. balance'[s] \in Nat /\ Reserved(OfAccount(s)') <= balance'[s]
      <4> HIDE DEF got
      <4> QED
        BY <2>1, <2>2, <3>1, <3>2
    <3> QED
      BY <3>2, <3>3
  <2>4. CASE s = b
    <3>1. pays = GasUsed(t) * Paid(t) /\ OfAccount(s)' = OfAccount(s) \ {t} /\ t \in OfAccount(s)
      BY <1>1, <1>5, <2>4 DEF b
    <3>2. pays \in Nat /\ pays <= CostOf(t) /\ CostOf(t) \in Nat
      BY <1>1, <3>1, PaidAtMost, CostIsNat
    <3>3. Reserved(OfAccount(s)) = Reserved(OfAccount(s)') + CostOf(t)
      BY <2>2, <3>1
    <3>4. Reserved(OfAccount(s)') \in Nat
      <4>1. OfAccount(s) \ {t} \in SUBSET pool
        BY DEF OfAccount
      <4> QED
        BY <3>1, <4>1, SignerReserves
    <3> HIDE DEF pays, got
    <3> QED
      BY <2>1, <2>2, <2>4, <3>2, <3>3, <3>4
  <2> QED
    BY <2>3, <2>4
<1>13. balance' = [s \in Signer |-> balance'[s]]
  BY DEF Mine
<1>14. balance' \in [Signer -> Nat]
  BY <1>12, <1>13
<1>15. PoolInOrder'
  BY <1>9, <1>10, <1>11, <1>12 DEF PoolInOrder
<1> QED
  BY <1>4, <1>8, <1>12, <1>14, <1>15 DEF b

-----------------------------------------------------------------------------
(***************************************************************************)
(* The calls.                                                              *)
(***************************************************************************)

\* What the invariant says of one call.
LEMMA OneCall ==
  ASSUME FundingInv, NEW j \in Job
  PROVE  /\ job[j] \in JobData /\ job[j].tx \in Tx /\ job[j].fund \in Tx /\ job[j].at \in Stage
         /\ job[j].signer \in Account /\ job[j].crossed \in BOOLEAN
         /\ JobInOrder(j, job[j]) /\ DataTypes /\ PoolInOrder /\ OwnedByJobs
         /\ net \in Networks /\ base \in Nat
BY FundingAssumption DEF FundingInv, DataTypes, JobData

\* One call goes on, and the chain stays as it is.
LEMMA CallGoesOn ==
  ASSUME FundingInv, NEW j \in Job, NEW q \in JobData, job' = [job EXCEPT ![j] = q],
         chainUnchanged, faults' \in 0 .. Faults,
         q.at \in Unsent => job[j].at \in Unsent,
         JobInOrder(j, q)
  PROVE  FundingInv'
<1>1. /\ UNCHANGED <<net, base, moves, balance, mined, pool>>
      /\ job \in [Job -> JobData] /\ job' \in [Job -> JobData] /\ job'[j] = q
      /\ \A k \in Job : k # j => job'[k] = job[k]
  BY DEF chainUnchanged, poolOnly, FundingInv, DataTypes
<1>2. DataTypes' /\ PoolInOrder'
  BY <1>1 DEF FundingInv, DataTypes, PoolInOrder, OfAccount, PendingCount, Nonce
<1>3. OwnedByJobs'
  BY <1>1 DEF FundingInv, OwnedByJobs
<1>4. ASSUME NEW k \in Job, NEW x, JobInOrder(k, x), job'[k] = x
      PROVE  JobInOrder(k, job[k])'
  BY <1>1, <1>4 DEF JobInOrder, InPolicy, FeeTaken, NetworkFloor, Alone, Covered, OfAccount,
     Nonce
<1>5. \A k \in Job : JobInOrder(k, job[k])'
  BY <1>1, <1>4 DEF FundingInv
<1> QED
  BY <1>2, <1>3, <1>5 DEF FundingInv

\* It goes to another place.
LEMMA GoesTo ==
  ASSUME NEW j \in Job, NEW at \in Stage, Goto(j, at), job \in [Job -> JobData]
  PROVE  LET q == [job[j] EXCEPT !.at = at]
         IN  /\ q \in JobData /\ job' = [job EXCEPT ![j] = q]
             /\ q.at = at /\ q.signer = job[j].signer /\ q.tx = job[j].tx
             /\ q.fund = job[j].fund /\ q.crossed = job[j].crossed
<1>1. job[j] \in JobData
  OBVIOUS
<1> QED
  BY <1>1 DEF Goto, JobData

\* A call that is over.
LEMMA OverInOrder ==
  ASSUME NEW j, NEW q, q.at \in {"done", "failed", "sent", "new"}
  PROVE  JobInOrder(j, q)
BY DEF JobInOrder, Preparing, Alone

\* It fails, or is done.
LEMMA CallEnds ==
  ASSUME FundingInv, NEW j \in Job, NEW at \in {"done", "failed"}, Goto(j, at),
         chainUnchanged, faults' \in 0 .. Faults
  PROVE  FundingInv'
<1>1. LET q == [job[j] EXCEPT !.at = at]
      IN  q \in JobData /\ job' = [job EXCEPT ![j] = q] /\ q.at = at
  BY GoesTo DEF FundingInv, DataTypes, Stage, Over
<1> DEFINE q == [job[j] EXCEPT !.at = at]
<1>2. q.at \in {"done", "failed"} /\ q \in JobData /\ job' = [job EXCEPT ![j] = q]
  BY <1>1
<1> HIDE DEF q
<1>3. JobInOrder(j, q) /\ q.at \notin Unsent
  BY <1>2, OverInOrder DEF Unsent
<1> QED
  BY <1>2, <1>3, CallGoesOn

LEMMA EmptyTx ==
  /\ NoTx \in Tx /\ Rest \in JobData
  /\ GasLimit(Estimate) \in Nat /\ GasLimit(FallbackGas) \in Nat
BY FundingAssumption DEF NoTx, Rest, Tx, JobData, Stage, Over, Account, NoFee, Refused, Fee,
   GasLimit, Plus30, FallbackGas

LEMMA PrepareInOrder ==
  ASSUME FundingInv, NEW j \in Job, NEW s \in Signer, Prepare(j, s)
  PROVE  FundingInv'
<1> DEFINE q == [Rest EXCEPT !.at = "count", !.signer = s, !.crossed = OfAccount(s) # {}]
<1>1. /\ q \in JobData /\ q.at = "count" /\ q.signer = s /\ q.crossed = (OfAccount(s) # {})
  BY EmptyTx DEF Rest, JobData, Stage, Account
<1>2. /\ job[j].at = "new" /\ job' = [job EXCEPT ![j] = q]
      /\ chainUnchanged /\ faults' = faults /\ faults \in 0 .. Faults
  BY DEF Prepare, FundingInv, DataTypes
<1> HIDE DEF q
<1>3. JobInOrder(j, q)
  BY <1>1 DEF JobInOrder, Preparing, Alone, Covered
<1> QED
  BY <1>1, <1>2, <1>3, CallGoesOn DEF Unsent

LEMMA CountInOrder ==
  ASSUME FundingInv, NEW j \in Job, Count(j)
  PROVE  FundingInv'
<1>1. PICK gas \in {Estimate, FallbackGas} :
        job' = [job EXCEPT ![j].at = "price",
                  ![j].tx = [NoTx EXCEPT !.of = j, !.from = job[j].signer, !.limit = GasLimit(gas),
                                         !.nonce = PendingCount(job[j].signer)]]
  BY DEF Count
<1> DEFINE tx == [NoTx EXCEPT !.of = j, !.from = job[j].signer, !.limit = GasLimit(gas),
                              !.nonce = PendingCount(job[j].signer)]
           q == [job[j] EXCEPT !.at = "price", !.tx = tx]
<1>2. /\ job[j] \in JobData /\ job[j].at = "count" /\ JobInOrder(j, job[j]) /\ DataTypes
      /\ job \in [Job -> JobData] /\ job[j].signer \in Account
      /\ chainUnchanged /\ faults' = faults /\ faults \in 0 .. Faults
  BY OneCall DEF Count, DataTypes
<1>3. PendingCount(job[j].signer) \in Nat /\ GasLimit(gas) \in Nat
  BY <1>2, PoolSizes, EmptyTx
<1>4. tx \in Tx /\ tx.of = j /\ tx.from = job[j].signer /\ tx.nonce = PendingCount(job[j].signer)
  BY <1>2, <1>3, EmptyTx DEF NoTx, Tx
<1> HIDE DEF tx
<1>5. /\ q \in JobData /\ q.at = "price" /\ q.tx = tx /\ q.signer = job[j].signer
      /\ q.crossed = job[j].crossed
  BY <1>2, <1>4 DEF JobData, Stage
<1>6. job' = [job EXCEPT ![j] = q]
  BY <1>1, <1>2 DEF tx
<1> HIDE DEF q
<1>7. OfAccount(q.signer) = {} => PendingCount(q.signer) = Nonce(q.signer)
  <2>1. /\ PendingCount(q.signer) = Nonce(q.signer) + Cardinality(OfAccount(q.signer))
        /\ Nonce(q.signer) \in Nat
        /\ OfAccount(q.signer) = {} => Cardinality(OfAccount(q.signer)) = 0
    BY <1>2, PoolSizes
  <2> QED
    BY <2>1
<1>8. JobInOrder(j, q)
  BY <1>2, <1>4, <1>5, <1>7 DEF JobInOrder, Preparing, Alone, Covered
<1> QED
  BY <1>2, <1>5, <1>6, <1>8, CallGoesOn DEF Unsent

LEMMA PriceInOrder ==
  ASSUME FundingInv, NEW j \in Job, Price(j)
  PROVE  FundingInv'
<1> DEFINE fee == PreparedFee(net, NetworkFee(net, base))
           tx == [job[j].tx EXCEPT !.fee = fee]
           q == [job[j] EXCEPT !.at = "balance", !.tx = tx]
<1>1. /\ job[j] \in JobData /\ job[j].at = "price" /\ JobInOrder(j, job[j])
      /\ job \in [Job -> JobData] /\ job[j].tx \in Tx
      /\ chainUnchanged /\ faults' = faults /\ faults \in 0 .. Faults
      /\ job' = [job EXCEPT ![j].at = "balance", ![j].tx.fee = fee]
  BY OneCall DEF Price, DataTypes
<1>2. fee \in Fee /\ (net # "joc" => FeeTaken(fee))
  BY OneCall, PreparedFeeTaken
<1> HIDE DEF fee
<1>3. tx \in Tx /\ tx.fee = fee /\ tx.of = job[j].tx.of /\ tx.from = job[j].tx.from
        /\ tx.nonce = job[j].tx.nonce
  BY <1>1, <1>2 DEF Tx
<1>4. job' = [job EXCEPT ![j] = q]
  BY <1>1
<1> HIDE DEF tx
<1>5. /\ q \in JobData /\ q.at = "balance" /\ q.tx = tx /\ q.signer = job[j].signer
      /\ q.crossed = job[j].crossed
  BY <1>1, <1>3 DEF JobData, Stage
<1> HIDE DEF q
<1>6. JobInOrder(j, q)
  BY <1>1, <1>2, <1>3, <1>5 DEF JobInOrder, Preparing, Alone, Covered
<1> QED
  BY <1>1, <1>4, <1>5, <1>6, CallGoesOn DEF Unsent

\* The transfer that funds a signer.
LEMMA TransferType ==
  ASSUME NEW j \in Job, job[j] \in JobData, job[j].tx \in Tx, NEW value \in Nat
  PROVE  LET t == Transfer(j, value)
         IN  /\ t \in Tx /\ t.of = j /\ t.from = Server /\ t.to = job[j].signer
             /\ t.value = value
<1> DEFINE fee == FundingFee(net, job[j].tx.fee)
<1>1. fee \in Fee
  <2>1. job[j].tx.fee \in Fee /\ PreparedFloor \in Nat
    BY Prices DEF Tx
  <2> QED
    BY <2>1 DEF FundingFee, Fee
<1>2. job[j].signer \in Account
  BY DEF JobData
<1>3. Transfer(j, value) = [NoTx EXCEPT !.of = j, !.to = job[j].signer, !.value = value,
                                        !.fee = fee, !.limit = 27]
  BY DEF Transfer
<1> HIDE DEF fee
<1>4. LET t == [NoTx EXCEPT !.of = j, !.to = job[j].signer, !.value = value,
                            !.fee = fee, !.limit = 27]
      IN  /\ t \in Tx /\ t.of = j /\ t.from = Server /\ t.to = job[j].signer
          /\ t.value = value
  BY <1>1, <1>2, EmptyTx DEF Tx, NoTx
<1> QED
  BY <1>3, <1>4

LEMMA BalanceInOrder ==
  ASSUME FundingInv, NEW j \in Job, Balance(j)
  PROVE  FundingInv'
<1> DEFINE short == Needed(job[j].tx) - balance[job[j].signer]
<1>1. /\ job[j] \in JobData /\ job[j].at = "balance" /\ JobInOrder(j, job[j])
      /\ job \in [Job -> JobData] /\ job[j].tx \in Tx
      /\ chainUnchanged /\ faults' = faults /\ faults \in 0 .. Faults
      /\ job[j].signer \in Signer /\ balance[job[j].signer] \in Nat
      /\ Needed(job[j].tx) \in Nat
  BY OneCall, CostIsNat DEF Balance, DataTypes, JobInOrder, Preparing
<1>2. CASE short <= 0 /\ Goto(j, "prepared")
  <2> DEFINE q == [job[j] EXCEPT !.at = "prepared"]
  <2>1. /\ q \in JobData /\ job' = [job EXCEPT ![j] = q] /\ q.at = "prepared"
        /\ q.signer = job[j].signer /\ q.tx = job[j].tx /\ q.crossed = job[j].crossed
    BY <1>1, <1>2, GoesTo DEF Stage
  <2> HIDE DEF q
  <2>2. balance[q.signer] >= Needed(q.tx)
    BY <1>1, <1>2, <2>1
  <2>3. JobInOrder(j, q)
    BY <1>1, <2>1, <2>2 DEF JobInOrder, Preparing, Alone, Covered
  <2> QED
    BY <1>1, <2>1, <2>3, CallGoesOn DEF Unsent
<1>3. CASE short > 0 /\ job' = [job EXCEPT ![j].at = "fund", ![j].fund = Transfer(j, short)]
  <2> DEFINE t == Transfer(j, short)
             q == [job[j] EXCEPT !.at = "fund", !.fund = t]
  <2>1. short \in Nat
    BY <1>1, <1>3
  <2>2. /\ t \in Tx /\ t.of = j /\ t.from = Server /\ t.to = job[j].signer /\ t.value = short
    BY <1>1, <2>1, TransferType
  <2>3. job' = [job EXCEPT ![j] = q]
    BY <1>1, <1>3
  <2> HIDE DEF t
  <2>4. /\ q \in JobData /\ q.at = "fund" /\ q.fund = t
        /\ q.signer = job[j].signer /\ q.tx = job[j].tx /\ q.crossed = job[j].crossed
    BY <1>1, <2>2 DEF JobData, Stage
  <2> HIDE DEF q
  <2>5. balance[q.signer] + q.fund.value >= Needed(q.tx)
    BY <1>1, <2>2, <2>4
  <2> HIDE DEF short
  <2>6. JobInOrder(j, q)
    BY <1>1, <2>2, <2>4, <2>5 DEF JobInOrder, Preparing, Alone, Covered
  <2> QED
    BY <1>1, <2>3, <2>4, <2>6, CallGoesOn DEF Unsent
<1> QED
  BY <1>2, <1>3 DEF Balance

LEMMA FundInOrder ==
  ASSUME FundingInv, NEW j \in Job, Fund(j)
  PROVE  FundingInv'
<1> DEFINE t == [job[j].fund EXCEPT !.nonce = PendingCount(Server)]
           q == [job[j] EXCEPT !.at = "transfer", !.fund = t]
<1>1. /\ job[j] \in JobData /\ job[j].at = "fund" /\ JobInOrder(j, job[j])
      /\ job \in [Job -> JobData] /\ job[j].fund \in Tx
      /\ chainUnchanged /\ faults' = faults /\ faults \in 0 .. Faults
      /\ job' = [job EXCEPT ![j].at = "transfer", ![j].fund.nonce = PendingCount(Server)]
      /\ PendingCount(Server) \in Nat
  BY OneCall, PoolSizes DEF Fund, DataTypes
<1>2. /\ t \in Tx /\ t.of = job[j].fund.of /\ t.from = job[j].fund.from
      /\ t.to = job[j].fund.to /\ t.value = job[j].fund.value
  BY <1>1 DEF Tx
<1>3. job' = [job EXCEPT ![j] = q]
  BY <1>1
<1> HIDE DEF t
<1>4. /\ q \in JobData /\ q.at = "transfer" /\ q.fund = t
      /\ q.signer = job[j].signer /\ q.tx = job[j].tx /\ q.crossed = job[j].crossed
  BY <1>1, <1>2 DEF JobData, Stage
<1> HIDE DEF q
<1>5. JobInOrder(j, q)
  BY <1>1, <1>2, <1>4 DEF JobInOrder, Preparing, Alone, Covered
<1> QED
  BY <1>1, <1>3, <1>4, <1>5, CallGoesOn DEF Unsent

\* A transaction of the call is broadcast, and other calls have met it.
LEMMA BroadcastInOrder ==
  ASSUME FundingInv, NEW j \in Job, NEW t \in Tx, NEW at \in {"funding", "sent"}, t.of = j,
         Broadcast(j, t, at), poolOnly, UNCHANGED faults,
         at = "sent" \/ (job[j].at = "transfer" /\ t = job[j].fund)
  PROVE  FundingInv'
<1>1. /\ DataTypes /\ PoolInOrder /\ OwnedByJobs /\ job \in [Job -> JobData]
      /\ UNCHANGED <<net, base, moves, balance, mined, faults>>
      /\ job[j] \in JobData /\ JobInOrder(j, job[j])
  BY OneCall DEF poolOnly, DataTypes
<1>2. CASE ~Accepts(t) /\ Goto(j, "failed") /\ UNCHANGED pool
  BY <1>1, <1>2, CallEnds DEF chainUnchanged, DataTypes
<1>3. CASE /\ Accepts(t) /\ pool' = (pool \ Rivals(t)) \cup {t}
           /\ job' = [k \in Job |->
                        IF k = j THEN [job[k] EXCEPT !.at = at]
                        ELSE [job[k] EXCEPT !.crossed = @ \/ t.from \in Signer \cap {job[k].signer}]]
  <2>1. /\ PoolInOrder' /\ IsFiniteSet(pool') /\ pool' \in SUBSET Tx
        /\ \A a : a # t.from => OfAccount(a)' = OfAccount(a)
        /\ \A a : Nonce(a)' = Nonce(a)
    BY <1>1, <1>3, BroadcastPool
  <2>2. /\ job'[j] \in JobData /\ job'[j].at = at /\ job'[j].signer = job[j].signer
        /\ job'[j].tx = job[j].tx /\ job'[j].fund = job[j].fund
        /\ job'[j].crossed = job[j].crossed
    <3>1. job'[j] = [job[j] EXCEPT !.at = at]
      BY <1>3
    <3>2. at \in Stage
      BY DEF Stage
    <3> QED
      BY <1>1, <3>1, <3>2 DEF JobData
  <2>3. ASSUME NEW k \in Job, k # j
        PROVE  /\ job'[k] \in JobData /\ job'[k].at = job[k].at /\ job'[k].signer = job[k].signer
               /\ job'[k].tx = job[k].tx /\ job'[k].fund = job[k].fund
               /\ job'[k].crossed = (job[k].crossed \/ t.from \in Signer \cap {job[k].signer})
    <3> DEFINE c == job[k].crossed \/ t.from \in Signer \cap {job[k].signer}
    <3>1. job'[k] = [job[k] EXCEPT !.crossed = c]
      BY <1>3, <2>3
    <3>2. job[k] \in JobData /\ c \in BOOLEAN
      BY <1>1 DEF JobData
    <3> HIDE DEF c
    <3>3. /\ job'[k] \in JobData /\ job'[k].at = job[k].at /\ job'[k].signer = job[k].signer
          /\ job'[k].tx = job[k].tx /\ job'[k].fund = job[k].fund /\ job'[k].crossed = c
      BY <3>1, <3>2 DEF JobData
    <3> QED
      BY <3>3 DEF c
  <2>4. job' \in [Job -> JobData]
    <3>1. \A k \in Job : job'[k] \in JobData
      BY <2>2, <2>3
    <3>2. job' = [k \in Job |-> job'[k]]
      BY <1>3
    <3> QED
      BY <3>1, <3>2
  <2>5. DataTypes'
    BY <1>1, <2>1, <2>4 DEF DataTypes
  <2>6. OwnedByJobs'
    <3> SUFFICES ASSUME NEW u \in pool' \cup mined'
                 PROVE  u.of \in Job /\ job'[u.of].at \notin Unsent
      BY DEF OwnedByJobs
    <3>1. at \notin Unsent
      BY DEF Unsent
    <3>2. CASE u = t
      BY <2>2, <3>1, <3>2
    <3>3. CASE u \in pool \cup mined
      BY <1>1, <2>2, <2>3, <3>1, <3>3 DEF OwnedByJobs
    <3> QED
      BY <1>1, <1>3, <3>2, <3>3
  <2>7. ASSUME NEW k \in Job, k # j
        PROVE  JobInOrder(k, job[k])'
    <3>1. JobInOrder(k, job[k])
      BY OneCall
    <3>2. Alone(job'[k]) =>
            /\ Alone(job[k]) /\ OfAccount(job[k].signer)' = OfAccount(job[k].signer)
      <4> SUFFICES ASSUME Alone(job'[k])
                   PROVE  Alone(job[k]) /\ OfAccount(job[k].signer)' = OfAccount(job[k].signer)
        OBVIOUS
      <4>1. Alone(job[k]) /\ ~(t.from \in Signer \cap {job[k].signer})
        BY <2>3, <2>7 DEF Alone
      <4>2. job[k].signer \in Signer
        BY <3>1, <4>1 DEF JobInOrder, Alone
      <4>3. job'[k].signer = job[k].signer /\ job[k].signer # t.from
        BY <2>3, <2>7, <4>1, <4>2
      <4> QED
        BY <2>1, <4>1, <4>3
    <3> QED
      BY <1>1, <2>1, <2>3, <2>7, <3>1, <3>2 DEF JobInOrder, InPolicy, FeeTaken, NetworkFloor,
         Covered, Alone
  <2>8. JobInOrder(j, job[j])'
    <3>1. CASE at = "sent"
      <4>1. job'[j].at = "sent"
        BY <2>2, <3>1
      <4> QED
        BY <4>1 DEF JobInOrder, Alone, Preparing
    <3>2. CASE at = "funding" /\ job[j].at = "transfer" /\ t = job[j].fund
      <4>1. /\ job[j].signer \in Signer /\ t.from = Server /\ t.to = job[j].signer
            /\ job[j].tx.from = job[j].signer /\ job[j].tx.of = j
            /\ net # "joc" => FeeTaken(job[j].tx.fee)
        BY <1>1, <3>2 DEF JobInOrder, Preparing
      <4>2. t \notin mined
        BY <1>1, <3>2 DEF OwnedByJobs, Unsent
      <4>3. OfAccount(job[j].signer)' = OfAccount(job[j].signer)
        <5>1. job'[j].signer = job[j].signer /\ job[j].signer # t.from
          BY <2>2, <4>1, Prices
        <5> QED
          BY <2>1, <5>1
      <4>4. Alone(job[j]) <=> Alone(job'[j])
        BY <2>2, <3>2 DEF Alone, Preparing
      <4> QED
        BY <1>1, <2>1, <2>2, <3>2, <4>1, <4>2, <4>3, <4>4 DEF JobInOrder, FeeTaken, NetworkFloor,
           Preparing, Covered
    <3> QED
      BY <3>1, <3>2
  <2> QED
    BY <2>1, <2>5, <2>6, <2>7, <2>8 DEF FundingInv
<1> QED
  BY <1>2, <1>3 DEF Broadcast

LEMMA SendsInOrder ==
  ASSUME FundingInv, NEW j \in Job, SendTransfer(j) \/ Submit(j) \/ SendWrite(j)
  PROVE  FundingInv'
<1>1. /\ JobInOrder(j, job[j]) /\ job[j].tx \in Tx /\ job[j].fund \in Tx
      /\ faults' = faults /\ faults \in 0 .. Faults
  BY OneCall DEF SendTransfer, Submit, SendWrite, DataTypes
<1>2. CASE SendTransfer(j)
  <2>1. job[j].at = "transfer" /\ job[j].fund.of = j /\ Broadcast(j, job[j].fund, "funding")
          /\ poolOnly /\ UNCHANGED faults
    BY <1>1, <1>2 DEF SendTransfer, JobInOrder
  <2> QED
    BY <1>1, <2>1, BroadcastInOrder
<1>3. CASE job[j].at \in {"prepared", "send"} /\ Broadcast(j, job[j].tx, "sent")
             /\ poolOnly /\ UNCHANGED faults
  <2>1. job[j].tx.of = j
    BY <1>1, <1>3 DEF JobInOrder, Preparing
  <2> QED
    BY <1>1, <1>3, <2>1, BroadcastInOrder
<1>4. CASE Goto(j, "failed") /\ UNCHANGED pool /\ poolOnly
  BY <1>1, <1>4, CallEnds DEF chainUnchanged
<1> QED
  BY <1>2, <1>3, <1>4 DEF Submit, SendWrite

LEMMA FundedInOrder ==
  ASSUME FundingInv, NEW j \in Job, Funded(j)
  PROVE  FundingInv'
<1>1. /\ JobInOrder(j, job[j]) /\ job[j].at = "funding" /\ Settled(job[j].fund)
      /\ chainUnchanged /\ faults' = faults /\ faults \in 0 .. Faults
      /\ job \in [Job -> JobData] /\ job[j] \in JobData
      /\ Goto(j, IF Replaced(job[j].fund) THEN "failed" ELSE "prepared")
  BY OneCall DEF Funded, DataTypes
<1>2. CASE Replaced(job[j].fund)
  <2>1. Goto(j, "failed")
    BY <1>1, <1>2
  <2> QED
    BY <1>1, <2>1, CallEnds
<1>3. CASE ~Replaced(job[j].fund)
  <2> DEFINE q == [job[j] EXCEPT !.at = "prepared"]
  <2>1. Goto(j, "prepared") /\ job[j].fund \in mined
    BY <1>1, <1>3 DEF Settled
  <2>2. /\ q \in JobData /\ job' = [job EXCEPT ![j] = q] /\ q.at = "prepared"
        /\ q.signer = job[j].signer /\ q.tx = job[j].tx /\ q.crossed = job[j].crossed
    BY <1>1, <2>1, GoesTo DEF Stage
  <2> HIDE DEF q
  <2>3. JobInOrder(j, q)
    BY <1>1, <2>1, <2>2 DEF JobInOrder, Preparing, Alone, Covered
  <2> QED
    BY <1>1, <2>2, <2>3, CallGoesOn DEF Unsent
<1> QED
  BY <1>2, <1>3

LEMMA EndsInOrder ==
  ASSUME FundingInv, NEW j \in Job, Confirmed(j) \/ Cut(j)
  PROVE  FundingInv'
<1>1. faults \in 0 .. Faults /\ Faults \in Nat
  BY FundingAssumption DEF FundingInv, DataTypes
<1>2. chainUnchanged /\ faults' \in 0 .. Faults
  BY <1>1 DEF Confirmed, Cut
<1>3. Goto(j, "failed") \/ Goto(j, "done")
  BY DEF Confirmed, Cut
<1> QED
  BY <1>2, <1>3, CallEnds

LEMMA StartWriteInOrder ==
  ASSUME FundingInv, NEW j \in Job, StartWrite(j)
  PROVE  FundingInv'
<1> DEFINE fee == PolicyFee(net, base)
           tx == [NoTx EXCEPT !.of = j, !.fee = fee, !.limit = GasLimit(Estimate)]
           at == IF fee = Refused THEN "failed" ELSE "write"
           q == [job[j] EXCEPT !.at = at, !.tx = tx]
<1>1. /\ job[j] \in JobData /\ job[j].at = "new" /\ job \in [Job -> JobData]
      /\ chainUnchanged /\ faults' = faults /\ faults \in 0 .. Faults
      /\ job' = [job EXCEPT ![j].at = at, ![j].tx = tx]
  BY OneCall DEF StartWrite, DataTypes
<1>2. fee \in Fee /\ (fee # Refused => InPolicy(fee))
  BY OneCall, PolicyFeeTaken
<1>3. at \in {"failed", "write"} /\ (at = "write" => fee # Refused)
  OBVIOUS
<1> HIDE DEF fee, at
<1>4. tx \in Tx /\ tx.of = j /\ tx.fee = fee /\ tx.from = Server
  BY <1>2, EmptyTx DEF Tx, NoTx
<1>5. job' = [job EXCEPT ![j] = q]
  BY <1>1
<1> HIDE DEF tx
<1>6. q \in JobData /\ q.at = at /\ q.tx = tx
  BY <1>1, <1>3, <1>4 DEF JobData, Stage, Over
<1> HIDE DEF q
<1>7. JobInOrder(j, q)
  BY <1>2, <1>3, <1>4, <1>6 DEF JobInOrder, Preparing, Alone
<1> QED
  BY <1>1, <1>5, <1>6, <1>7, CallGoesOn DEF Unsent

LEMMA WriteInOrder ==
  ASSUME FundingInv, NEW j \in Job, Write(j)
  PROVE  FundingInv'
<1> DEFINE tx == [job[j].tx EXCEPT !.nonce = PendingCount(Server)]
           q == [job[j] EXCEPT !.at = "send", !.tx = tx]
<1>1. /\ job[j] \in JobData /\ job[j].at = "write" /\ job \in [Job -> JobData]
      /\ JobInOrder(j, job[j]) /\ job[j].tx \in Tx
      /\ chainUnchanged /\ faults' = faults /\ faults \in 0 .. Faults
      /\ job' = [job EXCEPT ![j].at = "send", ![j].tx.nonce = PendingCount(Server)]
      /\ PendingCount(Server) \in Nat
  BY OneCall, PoolSizes DEF Write, DataTypes
<1>2. /\ tx \in Tx /\ tx.of = job[j].tx.of /\ tx.from = job[j].tx.from
      /\ tx.fee = job[j].tx.fee
  BY <1>1 DEF Tx
<1>3. job' = [job EXCEPT ![j] = q]
  BY <1>1
<1> HIDE DEF tx
<1>4. q \in JobData /\ q.at = "send" /\ q.tx = tx
  BY <1>1, <1>2 DEF JobData, Stage
<1> HIDE DEF q
<1>5. JobInOrder(j, q)
  BY <1>1, <1>2, <1>4 DEF JobInOrder, Preparing, Alone
<1> QED
  BY <1>1, <1>3, <1>4, <1>5, CallGoesOn DEF Unsent

LEMMA MineInOrder ==
  ASSUME FundingInv, NEW t \in pool, Mine(t)
  PROVE  FundingInv'
<1>1. /\ DataTypes /\ PoolInOrder /\ OwnedByJobs /\ UNCHANGED <<net, base, moves, job, faults>>
      /\ mined' = mined \cup {t} /\ pool' = pool \ {t} /\ t \in Tx /\ t.value \in Nat
  BY DEF FundingInv, Mine, DataTypes, Tx
<1>2. /\ PoolInOrder' /\ IsFiniteSet(pool') /\ pool' \in SUBSET Tx
      /\ IsFiniteSet(mined') /\ mined' \in SUBSET Tx /\ balance' \in [Signer -> Nat]
      /\ \A a : a # t.from => OfAccount(a)' = OfAccount(a) /\ Nonce(a)' = Nonce(a)
      /\ \A s \in Signer : s # t.from =>
           balance'[s] = balance[s] + (IF s = t.to THEN t.value ELSE 0)
  BY <1>1, MinePool
<1>3. DataTypes' /\ OwnedByJobs'
  BY <1>1, <1>2 DEF DataTypes, OwnedByJobs
<1>4. ASSUME NEW k \in Job
      PROVE  JobInOrder(k, job[k])'
  <2> DEFINE q == job[k]
             s == q.signer
  <2>1. /\ q \in JobData /\ JobInOrder(k, q) /\ q.tx \in Tx /\ q.fund \in Tx /\ job'[k] = q
    BY <1>1, OneCall
  <2>2. Needed(q.tx) \in Nat /\ q.fund.value \in Nat
    BY <2>1, CostIsNat DEF Tx
  <2>3. ASSUME Alone(q)
        PROVE  /\ s \in Signer /\ OfAccount(s) = {} /\ Covered(q)
               /\ q.at # "count" => q.tx.nonce = Nonce(s)
               /\ OfAccount(s)' = OfAccount(s) /\ Nonce(s)' = Nonce(s)
               /\ balance'[s] = balance[s] + (IF s = t.to THEN t.value ELSE 0)
               /\ balance[s] \in Nat /\ balance'[s] \in Nat /\ balance'[s] >= balance[s]
    <3>1. s \in Signer /\ OfAccount(s) = {} /\ Covered(q)
            /\ (q.at # "count" => q.tx.nonce = Nonce(s))
      BY <2>1, <2>3 DEF JobInOrder, Alone
    <3>2. s # t.from
      BY <3>1 DEF OfAccount
    <3>3. balance[s] \in Nat
      BY <1>1, <3>1 DEF DataTypes
    <3>4. s' = s
      BY <1>1
    <3>5. balance'[s] = balance[s] + (IF s = t.to THEN t.value ELSE 0)
      BY <1>2, <3>1, <3>2
    <3>6. balance'[s] \in Nat /\ balance'[s] >= balance[s]
      BY <1>1, <3>3, <3>5
    <3>7. OfAccount(s)' = OfAccount(s) /\ Nonce(s)' = Nonce(s)
      BY <1>2, <3>2, <3>4
    <3> QED
      BY <3>1, <3>3, <3>5, <3>6, <3>7
  <2>4. ASSUME Alone(q)
        PROVE  Covered(q)'
    <3> DEFINE need == Needed(q.tx)
    <3>1. CASE q.at \in {"fund", "transfer"} \/ (q.at = "funding" /\ q.fund \notin mined')
      <4>1. balance[s] + q.fund.value >= need
        BY <1>1, <2>3, <2>4, <3>1 DEF Covered
      <4>2. balance'[s] + q.fund.value >= need
        <5>1. need \in Nat /\ q.fund.value \in Nat
          BY <2>2
        <5> HIDE DEF need
        <5> QED
          BY <2>3, <2>4, <4>1, <5>1
      <4> QED
        BY <1>1, <3>1, <4>2 DEF Covered
    <3>2. CASE q.at = "prepared" \/ (q.at = "funding" /\ q.fund \in mined)
      <4>1. balance[s] >= need
        BY <2>3, <2>4, <3>2 DEF Covered
      <4>2. balance'[s] >= need
        <5>1. need \in Nat
          BY <2>2
        <5> HIDE DEF need
        <5> QED
          BY <2>3, <2>4, <4>1, <5>1
      <4> QED
        BY <1>1, <3>2, <4>2 DEF Covered
    <3>3. CASE q.at = "funding" /\ q.fund \notin mined /\ q.fund = t
      <4>1. balance[s] + t.value >= need /\ t.to = s
        BY <2>1, <2>3, <2>4, <3>3 DEF Covered, JobInOrder
      <4>2. balance'[s] >= need
        BY <2>3, <2>4, <4>1
      <4> QED
        BY <1>1, <3>3, <4>2 DEF Covered
    <3>4. CASE q.at \notin {"fund", "transfer", "funding", "prepared"}
      BY <1>1, <3>4 DEF Covered
    <3> QED
      BY <1>1, <3>1, <3>2, <3>3, <3>4
  <2>5. Alone(q)' <=> Alone(q)
    BY <1>1 DEF Alone
  <2> QED
    BY <1>1, <2>1, <2>3, <2>4, <2>5 DEF JobInOrder, InPolicy, FeeTaken, NetworkFloor
<1> QED
  BY <1>2, <1>3, <1>4 DEF FundingInv

\* What changes neither pool nor balances nor calls.
LEMMA QuietInOrder ==
  ASSUME FundingInv, Move \/ UNCHANGED vars
  PROVE  FundingInv'
<1>1. /\ UNCHANGED <<net, balance, pool, mined, job, faults>>
      /\ base' \in Base /\ moves' \in 0 .. Moves
  <2>1. base \in Base /\ moves \in 0 .. Moves /\ Moves \in Nat
    BY FundingAssumption DEF FundingInv, DataTypes
  <2> QED
    BY <2>1 DEF Move, vars
<1>2. DataTypes' /\ PoolInOrder' /\ OwnedByJobs'
  BY <1>1 DEF FundingInv, DataTypes, PoolInOrder, OwnedByJobs, OfAccount, PendingCount, Nonce
<1>3. ASSUME NEW k \in Job, NEW x, JobInOrder(k, x), job'[k] = x
      PROVE  JobInOrder(k, job[k])'
  BY <1>1, <1>3 DEF JobInOrder, InPolicy, FeeTaken, NetworkFloor, Alone, Covered, OfAccount,
     Nonce
<1>4. \A k \in Job : JobInOrder(k, job[k])'
  BY <1>1, <1>3 DEF FundingInv
<1> QED
  BY <1>2, <1>4 DEF FundingInv

LEMMA FundingStep ==
  ASSUME FundingInv, [Next]_vars
  PROVE  FundingInv'
<1>1. ASSUME NEW j \in Job, Step(j)
      PROVE  FundingInv'
  BY <1>1, CountInOrder, PriceInOrder, BalanceInOrder, FundInOrder, SendsInOrder, FundedInOrder,
     EndsInOrder, WriteInOrder DEF Step
<1> QED
  BY <1>1, EndsInOrder, StartWriteInOrder, PrepareInOrder, MineInOrder, QuietInOrder DEF Next

LEMMA InitInOrder ==
  ASSUME Init
  PROVE  FundingInv
<1>1. /\ pool = {} /\ mined = {} /\ IsFiniteSet({}) /\ Cardinality({}) = 0
      /\ \A a : OfAccount(a) = {} /\ {t \in mined : t.from = a} = {}
  BY FS_EmptySet DEF Init, OfAccount
<1>2. \A a : Nonce(a) = 0 /\ PendingCount(a) = 0
  BY <1>1 DEF Nonce, PendingCount
<1>3. DataTypes
  BY <1>1, EmptyTx, FundingAssumption DEF Init, DataTypes
<1>4. PoolInOrder
  <2>1. \A s \in Signer : Reserved(OfAccount(s)) = 0 /\ balance[s] = 0
    BY <1>1, <1>3, SignerReserves DEF Init
  <2>2. ASSUME NEW a \in Account
        PROVE  {t.nonce : t \in OfAccount(a)} = Nonce(a) .. PendingCount(a) - 1
    BY <1>1, <1>2
  <2> QED
    BY <1>1, <2>1, <2>2 DEF PoolInOrder
<1>5. OwnedByJobs
  BY <1>1 DEF OwnedByJobs
<1>6. ASSUME NEW j \in Job
      PROVE  JobInOrder(j, job[j])
  <2>1. job[j].at = "new"
    BY DEF Init, Rest
  <2> QED
    BY <2>1, OverInOrder
<1> QED
  BY <1>3, <1>4, <1>5, <1>6 DEF FundingInv

\* Nonces, balances, reserves and calls agree, always.
THEOREM FundingIsConsistent == Spec => []FundingInv
<1>1. Init => FundingInv
  BY InitInOrder
<1>2. FundingInv /\ [Next]_vars => FundingInv'
  BY FundingStep
<1> QED
  BY <1>1, <1>2, PTL DEF Spec

\* The types of Funding: a signer is never charged more than it has, and the
\* nonces of an account's transactions in the pool have no gap.
THEOREM FundingTypesCorrect == Spec => []TypeOK
<1>1. FundingInv => TypeOK
  <2> SUFFICES ASSUME FundingInv
               PROVE  TypeOK
    OBVIOUS
  <2>1. \A t \in Tx : IsTx(t)
    BY DEF Tx, IsTx, Fee
  <2>2. \A j \in Job : IsTx(job[j].tx) /\ IsTx(job[j].fund) /\ job[j].at \in Stage
                         /\ job[j].signer \in Account /\ job[j].crossed \in BOOLEAN
    BY <2>1, OneCall
  <2> QED
    BY <2>1, <2>2 DEF FundingInv, DataTypes, PoolInOrder, TypeOK, Stage
<1> QED
  BY <1>1, FundingIsConsistent, PTL

\* A host's write gets fees that its network takes, within the ceiling of the
\* network's class, whatever the network answers.
THEOREM WritesAlwaysWithinPolicy == Spec => []WritesWithinPolicy
<1>1. FundingInv => WritesWithinPolicy
  BY DEF FundingInv, JobInOrder, InPolicy, WritesWithinPolicy
<1> QED
  BY <1>1, FundingIsConsistent, PTL

\* What prepareAddRivetToContract returns can be broadcast, unless its signer
\* has had another transaction in the pool meanwhile.
THEOREM PreparedAlwaysAccepted == Spec => []PreparedIsAccepted
<1>1. ASSUME FundingInv, NEW j \in Job,
             job[j].at = "prepared", ~job[j].crossed, net # "joc"
      PROVE  Accepts(job[j].tx)
  <2> DEFINE t == job[j].tx
             s == job[j].signer
  <2>1. /\ s \in Signer /\ t.from = s /\ FeeTaken(t.fee) /\ t.nonce = Nonce(s)
        /\ OfAccount(s) = {} /\ balance[s] >= Needed(t)
        /\ t \in Tx /\ DataTypes
    BY <1>1, OneCall DEF JobInOrder, Alone, Preparing, Covered
  <2>2. Rivals(t) = {}
    BY <2>1 DEF Rivals
  <2>3. t.nonce \in Nonce(t.from) .. PendingCount(t.from)
    <3>1. Nonce(s) \in Nat /\ PendingCount(s) = Nonce(s) + Cardinality(OfAccount(s))
            /\ Cardinality(OfAccount(s)) \in Nat
      BY <2>1, PoolSizes
    <3> QED
      BY <2>1, <3>1
  <2>4. CostOf(t) + Reserved(OfAccount(t.from) \ Rivals(t)) <= balance[t.from]
    <3>1. Reserved({}) = 0 /\ OfAccount(t.from) \ Rivals(t) = {}
      BY <2>1, <2>2, SignerReserves
    <3>2. CostOf(t) \in Nat /\ Needed(t) \in Nat /\ CostOf(t) <= Needed(t) /\ balance[s] \in Nat
      BY <2>1, CostIsNat DEF DataTypes
    <3>3. CostOf(t) + 0 <= balance[s]
      BY <2>1, <3>2
    <3> QED
      BY <2>1, <3>1, <3>3
  <2> QED
    BY <2>1, <2>2, <2>3, <2>4 DEF Accepts
<1>2. FundingInv => PreparedIsAccepted
  BY <1>1 DEF PreparedIsAccepted
<1> QED
  BY <1>2, FundingIsConsistent, PTL

=============================================================================
