------------------------------ MODULE ChainFees ------------------------------
(***************************************************************************)
(* What a transaction pays: the fee policies of src/chains, which a host's *)
(* contract writes get (Chain.wrapContract), and the fees and gas of a     *)
(* transaction that src/epistery.ts prepares, which does not use them.     *)
(* Prices are in units of Unit to the gwei.  A fee of an EIP-1559          *)
(* transaction has max and priority, the fee of a legacy one is a price    *)
(* that is both.                                                           *)
(***************************************************************************)
EXTENDS Integers

CONSTANTS
  Unit  \* how many price units a gwei is, an even number

ASSUME UnitAssumption == Unit \in Nat \ {0} /\ Unit % 2 = 0

\* The networks: polygon (137, 80002), ethereum (1, 11155111), joc (81), and
\* one without a class of its own, whose blocks have no base fee.
Networks == {"polygon", "ethereum", "joc", "legacy"}

Gwei(n) == n * Unit
Higher(a, b) == IF a > b THEN a ELSE b

Fee1559(max, priority) == [eip |-> TRUE, max |-> max, priority |-> priority]
FeeLegacy(price)       == [eip |-> FALSE, max |-> price, priority |-> price]
Refused                == [eip |-> FALSE, max |-> 0, priority |-> 0]

\* provider.getFeeData() of ethers v5, at a base fee (or gas price) of base.  The
\* priority fee it reports is a constant of the library, 1.5 gwei, and it leaves
\* the EIP-1559 fees out only of a block without a base fee.
NetworkFee(net, base) ==
  IF net = "legacy" THEN FeeLegacy(base)
  ELSE Fee1559(2 * base + Gwei(3) \div 2, Gwei(3) \div 2)

\* The policies' defaults: floors, ceilings and the multiplier.  What a config
\* file or a caller's own overrides put in their place is not modelled.
PolygonFloor   == Gwei(25)
JocFloor       == Gwei(30)
Ceiling        == Gwei(1000)
MaxFeeMultiple == 2

\* Mutant: the maximum is not raised with the priority fee.
PolygonFeePriorityOnly(fd) ==
  LET priority == Higher(fd.priority, PolygonFloor)
  IN  IF fd.max > Ceiling THEN Refused ELSE Fee1559(fd.max, priority)

\* The branches for an answer without EIP-1559 fees, which no network of the
\* class gives, would take the floor and its multiple.
PolygonFee(fd) ==
  LET priority == Higher(fd.priority, PolygonFloor)
      max      == Higher(fd.max, MaxFeeMultiple * priority)
  IN  IF max > Ceiling THEN Refused ELSE Fee1559(max, priority)

JocFee(gasPrice) ==
  LET price == Higher(gasPrice, JocFloor)
  IN  IF price > Ceiling THEN Refused ELSE FeeLegacy(price)

\* getFeeData of the network's class, Refused where it throws.
PolicyFee(net, base) ==
  CASE net = "polygon" -> PolygonFee(NetworkFee(net, base))
    [] net = "joc"     -> JocFee(base)
    [] OTHER           -> NetworkFee(net, base)

-----------------------------------------------------------------------------

Plus20(x)  == (x * 120) \div 100
Plus30(x)  == (x * 130) \div 100
Plus50(x)  == (x * 150) \div 100

\* On Polygon prepareAddRivetToContract has a floor of its own.
PreparedFloor == Gwei(30)

\* The fee of a prepared transaction, from what the provider has answered.
PreparedFee(net, fd) ==
  LET raised == [fd EXCEPT !.max = Plus20(@), !.priority = Plus20(@)]
      priority == Higher(raised.priority, PreparedFloor)
  IN  IF net # "polygon" THEN raised
      ELSE Fee1559(IF raised.max < priority THEN 2 * priority ELSE raised.max, priority)

\* The priority fee of the transfer that funds it.
FundingFee(net, fee) ==
  IF net = "polygon" THEN [fee EXCEPT !.priority = PreparedFloor] ELSE fee

\* Its gas limit, from the estimate or what is taken for it, and what it may cost.
GasLimit(estimate) == Plus30(estimate)
CostOf(tx)         == tx.limit * tx.fee.max

\* What the signer should have before it is told to sign.
Needed(tx) == Plus50(CostOf(tx))

=============================================================================
