------------------------- MODULE WitnessStoreProofs -------------------------
(***************************************************************************)
(* Theorems about WitnessStore, for any wallets, contracts, pages, calls   *)
(* in flight and number of evictions.  What is promised of the stored      *)
(* record must hold of every copy that may be written back into it: the    *)
(* records that flows have read, the wallets that pages hold, the tokens   *)
(* that binds were sent.                                                   *)
(***************************************************************************)
EXTENDS WitnessStore, TLAPS

-----------------------------------------------------------------------------
(***************************************************************************)
(* The inductive invariant.                                                *)
(***************************************************************************)

Record ==
  [wallets : UNION {[S -> Contract \cup {None}] : S \in SUBSET Wallet},
   default : Wallet \cup {None}]

FlowState ==
  [at : {"idle", "storing", "made", "popup", "token", "exchange", "answer",
        "switching", "checking"},
   call : Call \cup {"none"}, tab : Tab \cup {None}, rivet : Wallet \cup {None},
   own : BOOLEAN, bound : Contract \cup {None}, snap : Record,
   token : (Rivet \cup {None}) \X (Contract \cup {None})]

\* The rivets whose master key was ever committed.
Keys == keyStore \cup evicted

\* A binding was invited by one of the tokens.
Invited(w, c, tokens) == c # None => <<w, c>> \in tokens

\* A record that may be in storage: its default is listed, its rivets have
\* their keys, its bindings their tokens.
GoodRecord(r, keys, tokens) ==
  /\ r \in Record
  /\ IF Listed(r) = {} THEN r.default = None ELSE r.default \in Listed(r)
  /\ Listed(r) \cap Rivet \subseteq keys
  /\ \A w \in Listed(r) : Invited(w, r.wallets[w], tokens)

\* A wallet that a page may save.
GoodWallet(x, keys, tokens) ==
  /\ x \in Copy
  /\ x.id \notin Local
  /\ x.id \in Rivet => x.id \in keys
  /\ Invited(x.id, x.contract, tokens)

\* A flow x while the pages are pg.
GoodFlow(x, pg, keys, tokens) ==
  /\ x \in FlowState
  /\ GoodRecord(x.snap, keys, tokens)
  /\ x.at # "idle" => x.call \in Call /\ x.tab \in Tab
  /\ x.at \notin {"idle", "checking"} => pg[x.tab].loaded
  /\ x.own => x.at \in {"popup", "token"} /\ pg[x.tab].wallet.id = x.rivet
  /\ x.at \in {"storing", "made"} =>
       /\ x.call \in {"connect", "add", "bind"}
       /\ x.rivet \in Rivet \cup Other
       /\ x.at = "storing" \/ x.call = "bind" => x.rivet \in Rivet
  /\ x.at \in {"made", "popup", "token"} => (x.rivet \in Rivet => x.rivet \in keys)
  /\ x.at \in {"popup", "token"} => x.call = "bind" /\ x.rivet \in Rivet
  /\ x.at = "token" => x.token \in tokens
  /\ x.at = "switching" => x.rivet \in Listed(x.snap)

StoreTypes ==
  /\ keyStore \subseteq Rivet /\ evicted \subseteq Rivet
  /\ born \subseteq Wallet /\ Local \subseteq born
  /\ issued \subseteq Rivet \X Contract
  /\ page \in [Tab -> [loaded : BOOLEAN, wallet : Copy]]
  /\ flow \in [Flow -> FlowState]

WitnessInv ==
  /\ StoreTypes
  /\ GoodRecord(record, Keys, issued)
  /\ \A t \in Tab : GoodWallet(page[t].wallet, Keys, issued)
  /\ \A f \in Flow : GoodFlow(flow[f], page, Keys, issued)

-----------------------------------------------------------------------------
(***************************************************************************)
(* Records and wallets.                                                    *)
(***************************************************************************)

LEMMA RecordFields ==
  ASSUME NEW r \in Record
  PROVE  /\ Listed(r) \subseteq Wallet
         /\ r.wallets \in [Listed(r) -> Contract \cup {None}]
         /\ r.default \in Wallet \cup {None}
BY DEF Record, Listed

LEMMA MakeRecord ==
  ASSUME NEW S \in SUBSET Wallet, NEW m \in [S -> Contract \cup {None}],
         NEW d \in Wallet \cup {None}
  PROVE  /\ [wallets |-> m, default |-> d] \in Record
         /\ Listed([wallets |-> m, default |-> d]) = S
BY DEF Record, Listed

LEMMA EmptyIsGood ==
  ASSUME NEW keys, NEW tokens
  PROVE  GoodRecord(Empty, keys, tokens) /\ Listed(Empty) = {}
<1>1. [w \in {} |-> None] \in [{} -> Contract \cup {None}]
  OBVIOUS
<1>2. Empty \in Record /\ Listed(Empty) = {}
  BY <1>1, MakeRecord DEF Empty
<1> QED
  BY <1>2 DEF GoodRecord, Empty

\* What was invited, or has its key, stays so.
LEMMA MoreKeysAndTokens ==
  ASSUME NEW keys, NEW keys2, keys \subseteq keys2,
         NEW tokens, NEW tokens2, tokens \subseteq tokens2
  PROVE  /\ \A r : GoodRecord(r, keys, tokens) => GoodRecord(r, keys2, tokens2)
         /\ \A x : GoodWallet(x, keys, tokens) => GoodWallet(x, keys2, tokens2)
         /\ \A x, pg : GoodFlow(x, pg, keys, tokens) => GoodFlow(x, pg, keys2, tokens2)
<1>1. \A r : GoodRecord(r, keys, tokens) => GoodRecord(r, keys2, tokens2)
  BY DEF GoodRecord, Invited
<1>2. \A x : GoodWallet(x, keys, tokens) => GoodWallet(x, keys2, tokens2)
  BY DEF GoodWallet, Invited
<1>3. ASSUME NEW x, NEW pg, GoodFlow(x, pg, keys, tokens)
      PROVE  GoodFlow(x, pg, keys2, tokens2)
  BY <1>1, <1>3 DEF GoodFlow
<1> QED
  BY <1>1, <1>2, <1>3

\* A wallet is put into a record.
LEMMA PutIsGood ==
  ASSUME NEW keys, NEW tokens, NEW r, GoodRecord(r, keys, tokens),
         NEW x, GoodWallet(x, keys, tokens), x.id # None
  PROVE  GoodRecord(Put(r, x), keys, tokens)
<1> DEFINE S == Listed(r) \cup {x.id}
           m == [w \in S |-> IF w = x.id THEN x.contract ELSE r.wallets[w]]
           d == IF r.default = None THEN x.id ELSE r.default
<1>1. /\ x.id \in Wallet /\ x.contract \in Contract \cup {None}
      /\ Listed(r) \subseteq Wallet
      /\ r.wallets \in [Listed(r) -> Contract \cup {None}]
      /\ r.default \in Wallet \cup {None}
  BY RecordFields DEF GoodRecord, GoodWallet, Copy
<1>2. m \in [S -> Contract \cup {None}]
  BY <1>1
<1>3. Put(r, x) = [wallets |-> m, default |-> d]
  BY DEF Put
<1>4. Put(r, x) \in Record /\ Listed(Put(r, x)) = S
  BY <1>1, <1>2, <1>3, MakeRecord
<1>5. d \in S
  BY <1>1 DEF GoodRecord
<1>6. \A w \in S : Invited(w, m[w], tokens)
  BY DEF GoodRecord, GoodWallet
<1>7. S \cap Rivet \subseteq keys
  BY DEF GoodRecord, GoodWallet
<1> QED
  BY <1>3, <1>4, <1>5, <1>6, <1>7 DEF GoodRecord

\* save keeps a record good.
LEMMA SaveIsGood ==
  ASSUME NEW keys, NEW tokens, NEW r, GoodRecord(r, keys, tokens),
         NEW x, GoodWallet(x, keys, tokens)
  PROVE  GoodRecord(Save(r, x), keys, tokens)
BY PutIsGood DEF Save

\* A record with some wallets taken off it, and a default that fits.
LEMMA FewerIsGood ==
  ASSUME NEW keys, NEW tokens, NEW r, GoodRecord(r, keys, tokens),
         NEW rest \in SUBSET Listed(r), NEW d,
         IF rest = {} THEN d = None ELSE d \in rest
  PROVE  LET r2 == [wallets |-> [w \in rest |-> r.wallets[w]], default |-> d]
         IN  GoodRecord(r2, keys, tokens) /\ Listed(r2) = rest
<1> DEFINE m == [w \in rest |-> r.wallets[w]]
           r2 == [wallets |-> m, default |-> d]
<1>1. /\ Listed(r) \subseteq Wallet
      /\ r.wallets \in [Listed(r) -> Contract \cup {None}]
  BY RecordFields DEF GoodRecord
<1>2. rest \in SUBSET Wallet /\ m \in [rest -> Contract \cup {None}]
      /\ d \in Wallet \cup {None}
  BY <1>1
<1>3. r2 \in Record /\ Listed(r2) = rest
  BY <1>2, MakeRecord
<1> QED
  BY <1>3 DEF GoodRecord

\* load and reset_master_key: the default moves if it was taken off.
LEMMA WithoutIsGood ==
  ASSUME NEW keys, NEW tokens, NEW r, GoodRecord(r, keys, tokens),
         NEW W, NEW r2 \in Without(r, W)
  PROVE  GoodRecord(r2, keys, tokens) /\ Listed(r2) = Listed(r) \ W
<1> DEFINE rest == Listed(r) \ W
<1>1. PICK d \in IF r.default \in W THEN IF rest = {} THEN {None} ELSE rest ELSE {r.default} :
        r2 = [wallets |-> [w \in rest |-> r.wallets[w]], default |-> d]
  BY DEF Without
<1>2. IF rest = {} THEN d = None ELSE d \in rest
  BY <1>1 DEF GoodRecord
<1> QED
  BY <1>1, <1>2, FewerIsGood

-----------------------------------------------------------------------------
(***************************************************************************)
(* Flows.                                                                  *)
(***************************************************************************)

LEMMA NoWalletIsGood ==
  ASSUME NEW keys, NEW tokens
  PROVE  GoodWallet(NoWallet, keys, tokens) /\ NoWallet.id = None
BY WitnessAssumption DEF GoodWallet, NoWallet, Copy, Invited, Wallet

\* A flow that has just begun, or is over, from its fields.
LEMMA FlowFields ==
  ASSUME NEW x \in FlowState
  PROVE  /\ x.call \in Call \cup {"none"} /\ x.tab \in Tab \cup {None}
         /\ x.rivet \in Wallet \cup {None} /\ x.own \in BOOLEAN
         /\ x.bound \in Contract \cup {None} /\ x.snap \in Record
BY DEF FlowState

LEMMA IdleIsGood ==
  ASSUME NEW pg, NEW keys, NEW tokens
  PROVE  GoodFlow(Idle, pg, keys, tokens) /\ Idle \in FlowState
<1>1. Empty \in Record
  BY EmptyIsGood DEF GoodRecord
<1>2. Idle \in FlowState
  BY <1>1 DEF Idle, FlowState
<1> QED
  BY <1>2, EmptyIsGood DEF GoodFlow, Idle

\* A flow that has read nothing is good if its own fields are.
LEMMA StartedIsGood ==
  ASSUME NEW pg, NEW keys, NEW tokens, NEW x \in FlowState, x.snap = Empty,
         x.at \in {"storing", "made", "popup", "exchange"},
         x.call \in Call, x.tab \in Tab, pg[x.tab].loaded,
         x.own => x.at = "popup" /\ pg[x.tab].wallet.id = x.rivet,
         x.at \in {"storing", "made"} =>
           /\ x.call \in {"connect", "add", "bind"} /\ x.rivet \in Rivet \cup Other
           /\ x.at = "storing" \/ x.call = "bind" => x.rivet \in Rivet,
         x.at \in {"made", "popup"} => (x.rivet \in Rivet => x.rivet \in keys),
         x.at = "popup" => x.call = "bind" /\ x.rivet \in Rivet
  PROVE  GoodFlow(x, pg, keys, tokens)
BY EmptyIsGood DEF GoodFlow

\* A key exchange begins.
LEMMA ExchangeIsGood ==
  ASSUME NEW pg, NEW keys, NEW tokens, NEW t \in Tab, pg[t].loaded,
         NEW x \in FlowState, x.at = "exchange", x.call \in Call, x.tab = t,
         ~x.own, x.snap = Empty
  PROVE  GoodFlow(x, pg, keys, tokens)
BY StartedIsGood

\* A flow that has read the record of now.
LEMMA ReadingIsGood ==
  ASSUME NEW pg, NEW keys, NEW tokens, NEW x \in FlowState,
         GoodRecord(x.snap, keys, tokens), ~x.own, x.call \in Call, x.tab \in Tab,
         \/ x.at = "checking"
         \/ x.at = "switching" /\ pg[x.tab].loaded /\ x.rivet \in Listed(x.snap)
  PROVE  GoodFlow(x, pg, keys, tokens)
BY DEF GoodFlow

\* A new wallet: a key is stored for a rivet only, and a bind makes rivets only.
LEMMA CreatingIsGood ==
  ASSUME NEW pg, NEW keys, NEW tokens, NEW t \in Tab, pg[t].loaded,
         NEW call \in Call \cap {"connect", "add", "bind"},
         NEW w \in Rivet \cup Other, call = "bind" => w \in Rivet
  PROVE  GoodFlow(Creating(t, call, w), pg, keys, tokens)
<1> DEFINE x == Creating(t, call, w)
<1>1. /\ x.at = IF w \in Rivet THEN "storing" ELSE "made"
      /\ x.call = call /\ x.tab = t /\ x.rivet = w /\ ~x.own /\ x.snap = Empty
  BY DEF Creating, Idle
<1>2. x \in FlowState
  BY IdleIsGood DEF Creating, FlowState, Wallet
<1> QED
  BY <1>1, <1>2, StartedIsGood

\* Other pages' flows, and those of this page that are detached from its
\* wallet, go on when a page gets another wallet.
LEMMA FlowSurvives ==
  ASSUME NEW x, NEW pg, NEW pg2, NEW keys, NEW tokens, GoodFlow(x, pg, keys, tokens),
         x.at # "idle" /\ pg[x.tab].loaded => pg2[x.tab].loaded,
         x.own => pg2[x.tab].wallet.id = pg[x.tab].wallet.id
  PROVE  GoodFlow(x, pg2, keys, tokens)
BY DEF GoodFlow

LEMMA DetachedSurvives ==
  ASSUME NEW x, NEW pg, NEW pg2, NEW keys, NEW tokens, GoodFlow(x, pg, keys, tokens),
         NEW b \in Contract \cup {None},
         x.at # "idle" /\ pg[x.tab].loaded => pg2[x.tab].loaded
  PROVE  GoodFlow([x EXCEPT !.own = FALSE, !.bound = b], pg2, keys, tokens)
<1> DEFINE y == [x EXCEPT !.own = FALSE, !.bound = b]
<1>1. y \in FlowState /\ ~y.own
  BY DEF GoodFlow, FlowState
<1>2. /\ y.at = x.at /\ y.call = x.call /\ y.tab = x.tab /\ y.rivet = x.rivet
      /\ y.snap = x.snap /\ y.token = x.token
  BY DEF GoodFlow, FlowState
<1> QED
  BY <1>1, <1>2 DEF GoodFlow

-----------------------------------------------------------------------------
(***************************************************************************)
(* Steps that leave the pages' wallets alone.                              *)
(***************************************************************************)

\* A step of one flow that changes no page: the new record, keys and tokens
\* must be good, and the flow's next state.
LEMMA OneFlow ==
  ASSUME WitnessInv, NEW f \in Flow, NEW x, GoodFlow(x, page, Keys', issued'),
         flow' = [flow EXCEPT ![f] = x],
         GoodRecord(record', Keys', issued'),
         keyStore' \subseteq Rivet, Keys \subseteq Keys',
         born \subseteq born', born' \subseteq Wallet,
         issued' = issued, UNCHANGED <<evicted, page>>
  PROVE  WitnessInv'
<1>1. x \in FlowState
  BY DEF GoodFlow
<1>2. StoreTypes'
  BY <1>1 DEF WitnessInv, StoreTypes
<1>3. \A t \in Tab : GoodWallet(page'[t].wallet, Keys', issued')
  BY MoreKeysAndTokens DEF WitnessInv
<1>4. \A g \in Flow : GoodFlow(flow'[g], page', Keys', issued')
  <2> SUFFICES ASSUME NEW g \in Flow
               PROVE  GoodFlow(flow'[g], page', Keys', issued')
    OBVIOUS
  <2>1. GoodFlow(flow[g], page, Keys', issued')
    BY MoreKeysAndTokens DEF WitnessInv
  <2>2. flow'[g] = IF g = f THEN x ELSE flow[g]
    BY DEF WitnessInv, StoreTypes
  <2> QED
    BY <2>1, <2>2
<1> QED
  BY <1>2, <1>3, <1>4 DEF WitnessInv

\* A call begins that reads or writes nothing yet but, maybe, the record.
LEMMA BeginIsGood ==
  ASSUME WitnessInv, NEW f \in Flow, NEW x, GoodFlow(x, page, Keys, issued),
         flow' = [flow EXCEPT ![f] = x],
         born \subseteq born', born' \subseteq Wallet,
         UNCHANGED <<record, keyStore, evicted, issued, page>>
  PROVE  WitnessInv'
<1>1. Keys' = Keys
  BY DEF Keys
<1> QED
  BY <1>1, OneFlow DEF WitnessInv, StoreTypes

LEMMA StartAddStep ==
  ASSUME WitnessInv, NEW f \in Flow, NEW t \in Tab, NEW w \in Wallet, StartAdd(f, t, w)
  PROVE  WitnessInv'
<1>1. /\ page[t].loaded /\ "add" \in Call /\ w \in Rivet \cup Other
      /\ flow' = [flow EXCEPT ![f] = Creating(t, "add", w)]
      /\ born' = born \cup {w}
      /\ UNCHANGED <<record, keyStore, evicted, issued, page>>
  BY DEF StartAdd, Begins, Unborn
<1>2. GoodFlow(Creating(t, "add", w), page, Keys, issued)
  BY <1>1, CreatingIsGood
<1>3. born' \subseteq Wallet
  BY <1>1 DEF WitnessInv, StoreTypes
<1> QED
  BY <1>1, <1>2, <1>3, BeginIsGood

\* The wallet of the page, or a new one, is to be bound.
LEMMA StartBindStep ==
  ASSUME WitnessInv, NEW f \in Flow, NEW t \in Tab, StartBind(f, t)
  PROVE  WitnessInv'
<1> DEFINE w == page[t].wallet
<1>1. page[t].loaded /\ "bind" \in Call /\ born \subseteq Wallet
  BY DEF StartBind, Begins, WitnessInv, StoreTypes
<1>2. CASE /\ w.id \in Rivet
           /\ flow' = [flow EXCEPT ![f] = [Idle EXCEPT !.at = "popup", !.call = "bind",
                                             !.tab = t, !.rivet = w.id, !.own = TRUE]]
           /\ UNCHANGED born
  <2> DEFINE x == [Idle EXCEPT !.at = "popup", !.call = "bind", !.tab = t,
                               !.rivet = w.id, !.own = TRUE]
  <2>1. /\ x.at = "popup" /\ x.call = "bind" /\ x.tab = t /\ x.rivet = w.id
        /\ x.own /\ x.snap = Empty
    BY DEF Idle
  <2>2. x \in FlowState
    BY <1>1, <1>2, IdleIsGood DEF FlowState, Wallet
  <2>3. w.id \in Keys /\ w.id # None
    BY <1>2, WitnessAssumption DEF WitnessInv, GoodWallet, Wallet
  <2>4. GoodFlow(x, page, Keys, issued)
    BY <1>1, <1>2, <2>1, <2>2, <2>3, StartedIsGood
  <2> QED
    BY <1>1, <1>2, <2>4, BeginIsGood DEF StartBind
<1>3. ASSUME NEW n \in Rivet, flow' = [flow EXCEPT ![f] = Creating(t, "bind", n)],
             born' = born \cup {n}
      PROVE  WitnessInv'
  <2>1. GoodFlow(Creating(t, "bind", n), page, Keys, issued)
    BY <1>1, CreatingIsGood
  <2>2. born' \subseteq Wallet
    BY <1>1, <1>3 DEF Wallet
  <2> QED
    BY <1>3, <2>1, <2>2, BeginIsGood DEF StartBind
<1> QED
  BY <1>2, <1>3 DEF StartBind

\* The record that is read now is good.
LEMMA StartReadingStep ==
  ASSUME WitnessInv, NEW f \in Flow, NEW t \in Tab,
         StartReset(f, t) \/ \E w \in Wallet : StartSetDefault(f, t, w)
  PROVE  WitnessInv'
<1>1. GoodRecord(record, Keys, issued) /\ born \subseteq Wallet
  BY DEF WitnessInv, StoreTypes
<1>2. CASE StartReset(f, t)
  <2> DEFINE x == [Idle EXCEPT !.at = "checking", !.call = "reset", !.tab = t,
                               !.snap = record]
  <2>1. "reset" \in Call
    BY <1>2 DEF StartReset
  <2>2. /\ x.at = "checking" /\ x.call = "reset" /\ x.tab = t /\ ~x.own
        /\ x.snap = record
    BY DEF Idle
  <2>3. x \in FlowState
    BY <1>1, <2>1, IdleIsGood DEF GoodRecord, FlowState
  <2>4. GoodFlow(x, page, Keys, issued)
    BY <1>1, <2>1, <2>2, <2>3, ReadingIsGood
  <2> QED
    BY <1>1, <1>2, <2>4, BeginIsGood DEF StartReset
<1>3. ASSUME NEW w \in Wallet, StartSetDefault(f, t, w)
      PROVE  WitnessInv'
  <2> DEFINE x == [Idle EXCEPT !.at = "switching", !.call = "setDefault", !.tab = t,
                               !.rivet = w, !.snap = record]
  <2>1. page[t].loaded /\ "setDefault" \in Call
    BY <1>3 DEF StartSetDefault, Begins
  <2>2. /\ x.at = "switching" /\ x.call = "setDefault" /\ x.tab = t /\ ~x.own
        /\ x.snap = record /\ x.rivet = w
    BY DEF Idle
  <2>3. x \in FlowState
    BY <1>1, <2>1, IdleIsGood DEF GoodRecord, FlowState
  <2>4. GoodFlow(x, page, Keys, issued)
    BY <1>1, <1>3, <2>1, <2>2, <2>3, ReadingIsGood DEF StartSetDefault
  <2> QED
    BY <1>1, <1>3, <2>4, BeginIsGood DEF StartSetDefault
<1> QED
  BY <1>2, <1>3

\* A flow ends without having written anything.
LEMMA EndsUnwritten ==
  ASSUME WitnessInv, NEW f \in Flow, flow' = [flow EXCEPT ![f] = Idle],
         UNCHANGED <<record, keyStore, evicted, born, issued, page>>
  PROVE  WitnessInv'
BY IdleIsGood, BeginIsGood DEF WitnessInv, StoreTypes

\* The key exchange has signed.
LEMMA SignStep ==
  ASSUME WitnessInv, NEW f \in Flow, Sign(f)
  PROVE  WitnessInv'
<1> DEFINE x == [flow[f] EXCEPT !.at = "answer"]
<1>1. GoodFlow(flow[f], page, Keys, issued) /\ flow[f] \in FlowState /\ flow[f].at = "exchange"
  BY DEF Sign, WitnessInv, GoodFlow
<1>2. /\ x \in FlowState /\ x.at = "answer" /\ x.call = flow[f].call
      /\ x.tab = flow[f].tab /\ x.rivet = flow[f].rivet /\ x.own = flow[f].own
      /\ x.snap = flow[f].snap
  BY <1>1 DEF FlowState
<1>3. GoodFlow(x, page, Keys, issued)
  BY <1>1, <1>2 DEF GoodFlow
<1>4. flow' = [flow EXCEPT ![f] = x] /\ born' = born /\ born \subseteq Wallet
  BY DEF Sign, WitnessInv, StoreTypes
<1> QED
  BY <1>3, <1>4, BeginIsGood DEF Sign

\* The key exchange may save the page's wallet, which may be another by then.
LEMMA ExchangeEndsStep ==
  ASSUME WitnessInv, NEW f \in Flow, ExchangeEnds(f)
  PROVE  WitnessInv'
<1> DEFINE w == page[flow[f].tab].wallet
<1>1. CASE UNCHANGED record
  BY <1>1, EndsUnwritten DEF ExchangeEnds
<1>2. CASE flow[f].at = "answer" /\ record' = Save(record, w)
  <2>1. flow[f].tab \in Tab /\ GoodWallet(w, Keys, issued)
    BY <1>2 DEF WitnessInv, GoodFlow
  <2>2. GoodRecord(record', Keys, issued)
    BY <1>2, <2>1, SaveIsGood DEF WitnessInv
  <2>3. Keys' = Keys
    BY DEF ExchangeEnds, Keys
  <2>4. GoodFlow(Idle, page, Keys', issued')
    BY IdleIsGood
  <2> QED
    BY <2>2, <2>3, <2>4, OneFlow DEF ExchangeEnds, WitnessInv, StoreTypes
<1> QED
  BY <1>1, <1>2 DEF ExchangeEnds

\* The wallet is made only once its key is committed.
LEMMA StoreKeyStep ==
  ASSUME WitnessInv, NEW f \in Flow, StoreKey(f)
  PROVE  WitnessInv'
<1>1. CASE flow' = [flow EXCEPT ![f] = Idle] /\ UNCHANGED keyStore
  BY <1>1, EndsUnwritten DEF StoreKey
<1>2. CASE /\ keyStore' = keyStore \cup {flow[f].rivet}
           /\ flow' = [flow EXCEPT ![f].at = "made"]
  <2> DEFINE x == [flow[f] EXCEPT !.at = "made"]
  <2>1. /\ GoodFlow(flow[f], page, Keys, issued) /\ flow[f] \in FlowState
        /\ flow[f].at = "storing" /\ flow[f].rivet \in Rivet
    BY DEF StoreKey, WitnessInv, GoodFlow
  <2>2. Keys \subseteq Keys' /\ flow[f].rivet \in Keys' /\ issued' = issued
    BY <1>2 DEF StoreKey, Keys
  <2>3. GoodFlow(flow[f], page, Keys', issued')
    BY <2>1, <2>2, MoreKeysAndTokens
  <2>4. /\ x \in FlowState /\ x.at = "made" /\ x.call = flow[f].call
        /\ x.tab = flow[f].tab /\ x.rivet = flow[f].rivet /\ x.own = flow[f].own
        /\ x.snap = flow[f].snap
    BY <2>1 DEF FlowState
  <2>5. GoodFlow(x, page, Keys', issued')
    BY <2>1, <2>2, <2>3, <2>4 DEF GoodFlow
  <2>6. flow' = [flow EXCEPT ![f] = x]
    BY <1>2 DEF WitnessInv, StoreTypes
  <2>7. GoodRecord(record', Keys', issued') /\ keyStore' \subseteq Rivet
    BY <1>2, <2>1, <2>2, MoreKeysAndTokens DEF StoreKey, WitnessInv, StoreTypes
  <2> QED
    BY <2>2, <2>5, <2>6, <2>7, OneFlow DEF StoreKey, WitnessInv, StoreTypes
<1> QED
  BY <1>1, <1>2 DEF StoreKey

\* A reset that takes wallets off the record it had read.
LEMMA ResetStep ==
  ASSUME WitnessInv, NEW f \in Flow, Reset(f)
  PROVE  WitnessInv'
<1> DEFINE orphaned == (Listed(flow[f].snap) \cap Rivet) \ keyStore
<1>1. CASE UNCHANGED record
  BY <1>1, EndsUnwritten DEF Reset
<1>2. CASE record' \in Without(flow[f].snap, orphaned)
  <2>1. GoodRecord(flow[f].snap, Keys, issued)
    BY DEF WitnessInv, GoodFlow
  <2>2. GoodRecord(record', Keys, issued)
    BY <1>2, <2>1, WithoutIsGood
  <2>3. Keys' = Keys
    BY DEF Reset, Keys
  <2>4. GoodFlow(Idle, page, Keys', issued')
    BY IdleIsGood
  <2> QED
    BY <2>2, <2>3, <2>4, OneFlow DEF Reset, WitnessInv, StoreTypes
<1> QED
  BY <1>1, <1>2 DEF Reset

\* Removing a wallet that is not the default leaves the default listed.
LEMMA RemoveStep ==
  ASSUME WitnessInv, NEW t \in Tab, NEW w \in Wallet, Remove(t, w)
  PROVE  WitnessInv'
<1> DEFINE rest == Listed(record) \ {w}
           r2 == [wallets |-> [x \in rest |-> record.wallets[x]], default |-> record.default]
<1>1. GoodRecord(record, Keys, issued) /\ record \in Record
  BY DEF WitnessInv, GoodRecord
<1>2. record' = r2
  BY <1>1 DEF Remove, Record
<1>3. IF rest = {} THEN record.default = None ELSE record.default \in rest
  BY <1>1 DEF Remove, GoodRecord
<1>4. GoodRecord(r2, Keys, issued) /\ Listed(r2) = rest
  BY <1>1, <1>3, FewerIsGood
<1>5. Keys' = Keys
  BY DEF Remove, Keys
<1>6. GoodRecord(record', Keys', issued')
  BY <1>2, <1>4, <1>5 DEF Remove
<1> QED
  BY <1>5, <1>6 DEF Remove, WitnessInv, StoreTypes

\* A key that the browser drops was committed once.
LEMMA EvictStep ==
  ASSUME WitnessInv, NEW w \in Rivet, Evict(w)
  PROVE  WitnessInv'
<1>1. Keys' = Keys
  BY DEF Evict, Keys
<1> QED
  BY <1>1 DEF Evict, WitnessInv, StoreTypes

\* Every flow of a page that closes ends; the others have their pages still.
LEMMA CloseStep ==
  ASSUME WitnessInv, NEW t \in Tab, Close(t)
  PROVE  WitnessInv'
<1>1. /\ \A u \in Tab : page'[u] = IF u = t THEN Closed ELSE page[u]
      /\ page' \in [Tab -> [loaded : BOOLEAN, wallet : Copy]]
  BY NoWalletIsGood DEF Close, Closed, WitnessInv, StoreTypes, GoodWallet
<1>2. Keys' = Keys /\ UNCHANGED <<record, keyStore, evicted, born, issued>>
  BY DEF Close, Keys
<1>3. \A u \in Tab : GoodWallet(page'[u].wallet, Keys', issued')
  BY <1>1, <1>2, NoWalletIsGood DEF Closed, WitnessInv
<1>4. \A f \in Flow : GoodFlow(flow'[f], page', Keys', issued') /\ flow'[f] \in FlowState
  <2> SUFFICES ASSUME NEW f \in Flow
               PROVE  GoodFlow(flow'[f], page', Keys, issued)
    BY <1>2 DEF GoodFlow
  <2>1. GoodFlow(flow[f], page, Keys, issued)
    BY DEF WitnessInv
  <2>2. CASE flow[f].tab = t
    BY <2>2, IdleIsGood DEF Close
  <2>3. CASE flow[f].tab # t
    <3>1. flow'[f] = flow[f]
      BY <2>3 DEF Close
    <3>2. flow[f].at # "idle" => page'[flow[f].tab] = page[flow[f].tab]
      BY <1>1, <2>1, <2>3 DEF GoodFlow
    <3>3. flow[f].own => flow[f].at # "idle"
      BY <2>1 DEF GoodFlow
    <3> QED
      BY <2>1, <3>1, <3>2, <3>3, FlowSurvives
  <2> QED
    BY <2>2, <2>3
<1>5. flow' \in [Flow -> FlowState]
  BY <1>4 DEF Close
<1> QED
  BY <1>1, <1>2, <1>3, <1>4, <1>5 DEF WitnessInv, StoreTypes

\* A token is for one rivet and reaches every bind of the page that waits.
LEMMA TokenArrivesStep ==
  ASSUME WitnessInv, NEW f \in Flow, NEW c \in Contract, TokenArrives(f, c)
  PROVE  WitnessInv'
<1> DEFINE token == <<flow[f].rivet, c>>
<1>1. /\ flow[f].rivet \in Rivet /\ token \in Rivet \X Contract
      /\ issued' = issued \cup {token} /\ issued \subseteq issued'
  BY DEF TokenArrives, WitnessInv, GoodFlow
<1>2. Keys' = Keys /\ UNCHANGED <<record, keyStore, evicted, born, page>>
  BY DEF TokenArrives, Keys
<1>3. /\ GoodRecord(record', Keys', issued')
      /\ \A t \in Tab : GoodWallet(page'[t].wallet, Keys', issued')
  <2>1. /\ \A r : GoodRecord(r, Keys, issued) => GoodRecord(r, Keys, issued')
        /\ \A x : GoodWallet(x, Keys, issued) => GoodWallet(x, Keys, issued')
    BY <1>1, MoreKeysAndTokens
  <2>2. /\ GoodRecord(record, Keys, issued')
        /\ \A t \in Tab : GoodWallet(page[t].wallet, Keys, issued')
    BY <2>1 DEF WitnessInv
  <2> QED
    BY <1>2, <2>2
<1>4. \A g \in Flow : GoodFlow(flow'[g], page', Keys', issued') /\ flow'[g] \in FlowState
  <2> SUFFICES ASSUME NEW g \in Flow
               PROVE  GoodFlow(flow'[g], page, Keys, issued')
    BY <1>2 DEF GoodFlow
  <2>1. GoodFlow(flow[g], page, Keys, issued')
    BY <1>1, MoreKeysAndTokens DEF WitnessInv
  <2>2. CASE flow[g].at = "popup" /\ flow[g].tab = flow[f].tab
    <3> DEFINE x == [flow[g] EXCEPT !.at = "token", !.token = token]
    <3>1. flow'[g] = x
      BY <2>2 DEF TokenArrives
    <3>2. /\ x \in FlowState /\ x.at = "token" /\ x.token = token
          /\ x.call = flow[g].call /\ x.tab = flow[g].tab /\ x.rivet = flow[g].rivet
          /\ x.own = flow[g].own /\ x.snap = flow[g].snap
      BY <1>1, <2>1 DEF GoodFlow, FlowState
    <3> QED
      BY <1>1, <2>1, <2>2, <3>1, <3>2 DEF GoodFlow
  <2>3. CASE ~(flow[g].at = "popup" /\ flow[g].tab = flow[f].tab)
    BY <2>1, <2>3 DEF TokenArrives
  <2> QED
    BY <2>2, <2>3
<1>5. flow' \in [Flow -> FlowState]
  BY <1>4 DEF TokenArrives
<1>6. issued' \subseteq Rivet \X Contract
  BY <1>1 DEF WitnessInv, StoreTypes
<1> QED
  BY <1>2, <1>3, <1>4, <1>5, <1>6 DEF WitnessInv, StoreTypes

-----------------------------------------------------------------------------
(***************************************************************************)
(* Steps by which a page gets another wallet.                              *)
(***************************************************************************)

\* The page t gets the wallet w and the flow f goes on as x; no other flow
\* takes w for the wallet it works on.
LEMMA SwapIsGood ==
  ASSUME WitnessInv, NEW t \in Tab, NEW f \in Flow,
         NEW w, GoodWallet(w, Keys, issued), Swap(t, w),
         NEW x, GoodFlow(x, page', Keys, issued), flow' = [Detached(t) EXCEPT ![f] = x],
         GoodRecord(record', Keys, issued),
         UNCHANGED <<keyStore, evicted, born, issued>>
  PROVE  WitnessInv'
<1>1. /\ \A u \in Tab : page'[u] = IF u = t THEN [loaded |-> TRUE, wallet |-> w] ELSE page[u]
      /\ page' \in [Tab -> [loaded : BOOLEAN, wallet : Copy]]
  BY DEF Swap, WitnessInv, StoreTypes, GoodWallet
<1>2. Keys' = Keys
  BY DEF Keys
<1>3. \A u \in Tab : GoodWallet(page'[u].wallet, Keys', issued')
  BY <1>1, <1>2 DEF WitnessInv
<1>4. \A g \in Flow : GoodFlow(Detached(t)[g], page', Keys, issued)
  <2> SUFFICES ASSUME NEW g \in Flow
               PROVE  GoodFlow(Detached(t)[g], page', Keys, issued)
    OBVIOUS
  <2>1. GoodFlow(flow[g], page, Keys, issued) /\ flow[g] \in FlowState
    BY DEF WitnessInv, GoodFlow
  <2>2. flow[g].at # "idle" /\ page[flow[g].tab].loaded => page'[flow[g].tab].loaded
    BY <1>1, <2>1 DEF GoodFlow
  <2>3. CASE flow[g].tab = t /\ flow[g].own
    <3>1. Detached(t)[g] =
            [flow[g] EXCEPT !.own = FALSE, !.bound = page[t].wallet.contract]
      BY <2>3 DEF Detached
    <3>2. page[t].wallet.contract \in Contract \cup {None}
      BY DEF WitnessInv, StoreTypes, Copy
    <3>3. GoodFlow([flow[g] EXCEPT !.own = FALSE, !.bound = page[t].wallet.contract],
                   page', Keys, issued)
      BY <2>1, <2>2, <3>2, DetachedSurvives
    <3> QED
      BY <3>1, <3>3
  <2>4. CASE ~(flow[g].tab = t /\ flow[g].own)
    <3>1. Detached(t)[g] = flow[g]
      BY <2>4 DEF Detached
    <3>2. flow[g].own => page'[flow[g].tab].wallet.id = page[flow[g].tab].wallet.id
      BY <1>1, <2>1, <2>4 DEF GoodFlow
    <3> QED
      BY <2>1, <2>2, <3>1, <3>2, FlowSurvives
  <2> QED
    BY <2>3, <2>4
<1>5. \A g \in Flow : /\ flow'[g] = IF g = f THEN x ELSE Detached(t)[g]
                      /\ GoodFlow(flow'[g], page', Keys', issued')
                      /\ flow'[g] \in FlowState
  BY <1>2, <1>4 DEF Detached, GoodFlow
<1>6. flow' \in [Flow -> FlowState]
  BY <1>5 DEF Detached
<1> QED
  BY <1>1, <1>2, <1>3, <1>5, <1>6 DEF WitnessInv, StoreTypes

\* The new wallet is listed, and becomes the page's unless add puts the
\* page's own back.
LEMMA CreatedStep ==
  ASSUME WitnessInv, NEW f \in Flow, Created(f)
  PROVE  WitnessInv'
<1> DEFINE t == flow[f].tab
           new == [id |-> flow[f].rivet, contract |-> None]
           after == CASE flow[f].call = "add"     -> Idle
                      [] flow[f].call = "connect" ->
                           [Idle EXCEPT !.at = "exchange", !.call = "connect", !.tab = t]
                      [] flow[f].call = "bind"    ->
                           [flow[f] EXCEPT !.at = "popup", !.own = TRUE]
<1>1. /\ GoodFlow(flow[f], page, Keys, issued) /\ flow[f] \in FlowState
      /\ flow[f].at = "made" /\ t \in Tab /\ page[t].loaded /\ flow[f].call \in Call
      /\ flow[f].call \in {"connect", "add", "bind"}
      /\ flow[f].rivet \in Rivet \cup Other
      /\ flow[f].rivet \in Rivet => flow[f].rivet \in Keys
      /\ flow[f].call = "bind" => flow[f].rivet \in Rivet
  BY DEF Created, WitnessInv, GoodFlow
<1>2. GoodWallet(new, Keys, issued) /\ new.id # None
  BY <1>1, WitnessAssumption DEF GoodWallet, Copy, Invited, Wallet
<1>3. GoodRecord(record', Keys, issued)
  BY <1>2, PutIsGood DEF Created, WitnessInv
<1>4. CASE flow' = [flow EXCEPT ![f] = Idle] /\ UNCHANGED page
  <2>1. Keys' = Keys
    BY DEF Created, Keys
  <2>2. GoodFlow(Idle, page, Keys', issued')
    BY IdleIsGood
  <2> QED
    BY <1>3, <1>4, <2>1, <2>2, OneFlow DEF Created, WitnessInv, StoreTypes
<1>5. CASE Swap(t, new) /\ flow' = [Detached(t) EXCEPT ![f] = after]
  <2>1. page'[t] = [loaded |-> TRUE, wallet |-> new]
    BY <1>1, <1>5 DEF Swap, WitnessInv, StoreTypes
  <2>2. GoodFlow(after, page', Keys, issued)
    <3>1. CASE flow[f].call = "add"
      BY <3>1, IdleIsGood
    <3>2. CASE flow[f].call = "connect"
      <4> DEFINE x == [Idle EXCEPT !.at = "exchange", !.call = "connect", !.tab = t]
      <4>1. /\ x.at = "exchange" /\ x.call = "connect" /\ x.tab = t /\ ~x.own
            /\ x.snap = Empty
        BY DEF Idle
      <4>2. x \in FlowState
        BY <1>1, <3>2, IdleIsGood DEF FlowState
      <4>3. page'[t].loaded /\ x.call \in Call
        BY <1>1, <2>1, <3>2, <4>1
      <4>4. GoodFlow(x, page', Keys, issued)
        BY <1>1, <4>1, <4>2, <4>3, ExchangeIsGood
      <4> QED
        BY <3>2, <4>4
    <3>3. CASE flow[f].call = "bind"
      <4> DEFINE x == [flow[f] EXCEPT !.at = "popup", !.own = TRUE]
      <4>1. /\ x \in FlowState /\ x.at = "popup" /\ x.own
            /\ x.call = flow[f].call /\ x.tab = t /\ x.rivet = flow[f].rivet
            /\ x.snap = flow[f].snap
        BY <1>1 DEF FlowState
      <4>2. GoodFlow(x, page', Keys, issued)
        BY <1>1, <1>2, <2>1, <3>3, <4>1 DEF GoodFlow
      <4> QED
        BY <3>3, <4>2
    <3> QED
      BY <1>1, <3>1, <3>2, <3>3
  <2> QED
    BY <1>1, <1>2, <1>3, <1>5, <2>2, SwapIsGood DEF Created
<1> QED
  BY <1>4, <1>5 DEF Created

\* The record that was read, which may be an old one, is good as well; a wallet
\* that is no rivet leaves the page without one.
LEMMA SetDefaultStep ==
  ASSUME WitnessInv, NEW f \in Flow, SetDefault(f)
  PROVE  WitnessInv'
<1> DEFINE t == flow[f].tab
           r == flow[f].snap
           w == [id |-> flow[f].rivet, contract |-> r.wallets[flow[f].rivet]]
<1>1. /\ t \in Tab /\ flow[f].rivet \in Listed(r) /\ GoodRecord(r, Keys, issued)
      /\ GoodRecord(record, Keys, issued)
  BY DEF SetDefault, WitnessInv, GoodFlow
<1>2. CASE flow[f].rivet \in Local
  BY <1>1, <1>2, NoWalletIsGood, IdleIsGood, SwapIsGood DEF SetDefault
<1>3. CASE flow[f].rivet \notin Local
  <2>1. /\ r \in Record /\ Listed(r) \subseteq Wallet
        /\ r.wallets \in [Listed(r) -> Contract \cup {None}]
    BY <1>1, RecordFields DEF GoodRecord
  <2>2. GoodWallet(w, Keys, issued)
    BY <1>1, <1>3, <2>1 DEF GoodWallet, GoodRecord, Copy
  <2>3. /\ record'.wallets = r.wallets /\ record'.default = flow[f].rivet
        /\ record' \in Record
    BY <1>1, <1>3, <2>1 DEF SetDefault, Record
  <2>4. Listed(record') = Listed(r)
    BY <2>3 DEF Listed
  <2>5. GoodRecord(record', Keys, issued)
    BY <1>1, <2>3, <2>4 DEF GoodRecord
  <2> QED
    BY <1>1, <1>3, <2>2, <2>5, IdleIsGood, SwapIsGood DEF SetDefault
<1> QED
  BY <1>2, <1>3

\* The page that loads has no flow but, maybe, a reset, and scrubs the record.
LEMMA ConnectStep ==
  ASSUME WitnessInv, NEW f \in Flow, NEW t \in Tab, Connect(f, t)
  PROVE  WitnessInv'
<1>1. PICK r \in Load(record) :
        /\ record' = r
        /\ IF r.default \in Listed(r)
             THEN /\ Swap(t, [id |-> r.default, contract |-> r.wallets[r.default]])
                  /\ flow' = [flow EXCEPT ![f] = [Idle EXCEPT !.at = "exchange", !.call = "connect", !.tab = t]]
                  /\ UNCHANGED born
             ELSE /\ Swap(t, NoWallet)
                  /\ \E w \in Rivet \ born :
                       /\ flow' = [flow EXCEPT ![f] = Creating(t, "connect", w)]
                       /\ born' = born \cup {w}
  BY DEF Connect
<1>2. /\ "connect" \in Call /\ ~page[t].loaded
      /\ UNCHANGED <<keyStore, evicted, issued>>
  BY DEF Connect
<1>3. GoodRecord(r, Keys, issued) /\ Listed(r) \cap Local = {}
  BY <1>1, WithoutIsGood DEF Load, WitnessInv
<1>4. ASSUME NEW w, GoodWallet(w, Keys, issued), Swap(t, w),
             NEW x, GoodFlow(x, page', Keys, issued), flow' = [flow EXCEPT ![f] = x],
             born \subseteq born', born' \subseteq Wallet
      PROVE  WitnessInv'
  <2>1. /\ \A u \in Tab : page'[u] = IF u = t THEN [loaded |-> TRUE, wallet |-> w] ELSE page[u]
        /\ page' \in [Tab -> [loaded : BOOLEAN, wallet : Copy]]
    BY <1>4 DEF Swap, WitnessInv, StoreTypes, GoodWallet
  <2>2. Keys' = Keys /\ issued' = issued
    BY <1>2 DEF Keys
  <2>3. \A u \in Tab : GoodWallet(page'[u].wallet, Keys', issued')
    BY <1>4, <2>1, <2>2 DEF WitnessInv
  <2>4. \A g \in Flow : GoodFlow(flow[g], page', Keys, issued)
    <3> SUFFICES ASSUME NEW g \in Flow
                 PROVE  GoodFlow(flow[g], page', Keys, issued)
      OBVIOUS
    <3>1. GoodFlow(flow[g], page, Keys, issued)
      BY DEF WitnessInv
    <3>2. /\ flow[g].at # "idle" /\ page[flow[g].tab].loaded => page'[flow[g].tab].loaded
          /\ flow[g].own => page'[flow[g].tab].wallet.id = page[flow[g].tab].wallet.id
      BY <1>2, <2>1, <3>1 DEF GoodFlow
    <3> QED
      BY <3>1, <3>2, FlowSurvives
  <2>5. \A g \in Flow : GoodFlow(flow'[g], page', Keys', issued') /\ flow'[g] \in FlowState
    BY <1>4, <2>2, <2>4 DEF WitnessInv, StoreTypes, GoodFlow
  <2>6. flow' \in [Flow -> FlowState]
    BY <1>4, <2>5 DEF WitnessInv, StoreTypes
  <2>7. GoodRecord(record', Keys', issued')
    BY <1>1, <1>3, <2>2
  <2> QED
    BY <1>2, <1>4, <2>1, <2>3, <2>5, <2>6, <2>7 DEF WitnessInv, StoreTypes
<1>5. CASE r.default \in Listed(r)
  <2> DEFINE w == [id |-> r.default, contract |-> r.wallets[r.default]]
             x == [Idle EXCEPT !.at = "exchange", !.call = "connect", !.tab = t]
  <2>1. /\ r.default \in Wallet /\ r.wallets[r.default] \in Contract \cup {None}
        /\ r.default # None
    BY <1>3, <1>5, RecordFields, WitnessAssumption DEF GoodRecord
  <2>2. GoodWallet(w, Keys, issued)
    BY <1>3, <1>5, <2>1 DEF GoodWallet, GoodRecord, Copy
  <2>3. page'[t] = [loaded |-> TRUE, wallet |-> w]
    BY <1>1, <1>5 DEF Swap, WitnessInv, StoreTypes
  <2>4. /\ x.at = "exchange" /\ x.call = "connect" /\ x.tab = t /\ ~x.own
        /\ x.snap = Empty
    BY DEF Idle
  <2>5. x \in FlowState
    BY <1>2, IdleIsGood DEF FlowState
  <2>6. page'[t].loaded /\ x.call \in Call
    BY <1>2, <2>3, <2>4
  <2>7. GoodFlow(x, page', Keys, issued)
    BY <2>4, <2>5, <2>6, ExchangeIsGood
  <2> QED
    BY <1>1, <1>4, <1>5, <2>2, <2>7 DEF WitnessInv, StoreTypes
<1>6. CASE r.default \notin Listed(r)
  <2>1. PICK w \in Rivet \ born :
          /\ flow' = [flow EXCEPT ![f] = Creating(t, "connect", w)]
          /\ born' = born \cup {w}
    BY <1>1, <1>6
  <2>2. Swap(t, NoWallet) /\ page'[t].loaded
    BY <1>1, <1>6 DEF Swap, WitnessInv, StoreTypes
  <2>3. GoodFlow(Creating(t, "connect", w), page', Keys, issued)
    BY <1>2, <2>2, CreatingIsGood
  <2>4. born \subseteq born' /\ born' \subseteq Wallet
    BY <2>1 DEF WitnessInv, StoreTypes, Wallet
  <2> QED
    BY <1>4, <2>1, <2>2, <2>3, <2>4, NoWalletIsGood
<1> QED
  BY <1>5, <1>6

\* A wallet is bound only to the contract of the token, and only if the token
\* is for it.
LEMMA AcceptTokenStep ==
  ASSUME WitnessInv, NEW f \in Flow, AcceptToken(f)
  PROVE  WitnessInv'
<1> DEFINE t == flow[f].tab
           c == flow[f].token[2]
<1>1. CASE flow' = [flow EXCEPT ![f] = Idle] /\ UNCHANGED <<record, page>>
  BY <1>1, EndsUnwritten DEF AcceptToken
<1>2. CASE /\ Acceptable(f)
           /\ page' = [page EXCEPT ![t].wallet.contract = IF flow[f].own THEN c ELSE @]
           /\ record' = Save(record, page'[t].wallet)
           /\ flow' = [flow EXCEPT ![f] = [Idle EXCEPT !.at = "exchange", !.call = "bind", !.tab = t]]
  <2> DEFINE x == [Idle EXCEPT !.at = "exchange", !.call = "bind", !.tab = t]
  <2>1. /\ GoodFlow(flow[f], page, Keys, issued) /\ flow[f].at = "token"
        /\ t \in Tab /\ page[t].loaded /\ "bind" \in Call
        /\ flow[f].rivet \in Rivet /\ flow[f].token \in issued
        /\ flow[f].own => page[t].wallet.id = flow[f].rivet
    BY DEF AcceptToken, WitnessInv, GoodFlow
  <2>2. c \in Contract /\ <<flow[f].rivet, c>> \in issued
    BY <1>2, <2>1 DEF Acceptable, WitnessInv, StoreTypes
  <2>3. Keys' = Keys /\ UNCHANGED <<keyStore, evicted, born, issued>>
    BY DEF AcceptToken, Keys
  <2>4. /\ page' \in [Tab -> [loaded : BOOLEAN, wallet : Copy]]
        /\ \A u \in Tab : /\ page'[u].loaded = page[u].loaded
                          /\ page'[u].wallet.id = page[u].wallet.id
                          /\ u # t => page'[u].wallet = page[u].wallet
        /\ page'[t].wallet.contract =
             IF flow[f].own THEN c ELSE page[t].wallet.contract
    BY <1>2, <2>1, <2>2 DEF WitnessInv, StoreTypes, Copy
  <2>5. \A u \in Tab : GoodWallet(page'[u].wallet, Keys, issued)
    <3>1. GoodWallet(page'[t].wallet, Keys, issued)
      BY <2>1, <2>2, <2>4 DEF WitnessInv, GoodWallet, Invited
    <3> QED
      BY <2>4, <3>1 DEF WitnessInv
  <2>6. GoodRecord(record', Keys, issued)
    <3>1. GoodWallet(page'[t].wallet, Keys, issued) /\ GoodRecord(record, Keys, issued)
      BY <2>1, <2>5 DEF WitnessInv
    <3>2. record' = Save(record, page'[t].wallet)
      BY <1>2
    <3>3. GoodRecord(Save(record, page'[t].wallet), Keys, issued)
      BY <3>1, SaveIsGood
    <3> QED
      BY <3>2, <3>3
  <2>7. GoodFlow(x, page', Keys, issued)
    <3>1. /\ x.at = "exchange" /\ x.call = "bind" /\ x.tab = t /\ ~x.own
          /\ x.snap = Empty
      BY DEF Idle
    <3>2. x \in FlowState
      BY <2>1, <2>2, IdleIsGood DEF FlowState, Wallet
    <3> QED
      BY <2>1, <2>4, <3>1, <3>2, ExchangeIsGood
  <2>8. \A g \in Flow : GoodFlow(flow'[g], page', Keys', issued') /\ flow'[g] \in FlowState
    <3> SUFFICES ASSUME NEW g \in Flow
                 PROVE  GoodFlow(flow'[g], page', Keys, issued)
      BY <2>3 DEF GoodFlow
    <3>1. GoodFlow(flow[g], page, Keys, issued)
      BY DEF WitnessInv
    <3>2. GoodFlow(flow[g], page', Keys, issued)
      <4>1. flow[g].at # "idle" => flow[g].tab \in Tab
        BY <3>1 DEF GoodFlow
      <4>2. flow[g].own => flow[g].at # "idle"
        BY <3>1 DEF GoodFlow
      <4> QED
        BY <2>4, <3>1, <4>1, <4>2, FlowSurvives
    <3>3. flow'[g] = IF g = f THEN x ELSE flow[g]
      BY <1>2 DEF WitnessInv, StoreTypes
    <3> QED
      BY <2>7, <3>2, <3>3
  <2>9. flow' \in [Flow -> FlowState]
    BY <1>2, <2>8 DEF WitnessInv, StoreTypes
  <2> QED
    BY <2>3, <2>4, <2>5, <2>6, <2>8, <2>9 DEF WitnessInv, StoreTypes
<1> QED
  BY <1>1, <1>2 DEF AcceptToken

LEMMA UnchangedStep ==
  ASSUME WitnessInv, UNCHANGED vars
  PROVE  WitnessInv'
<1>1. Keys' = Keys
  BY DEF vars, Keys
<1> QED
  BY <1>1 DEF vars, WitnessInv, StoreTypes

-----------------------------------------------------------------------------
(***************************************************************************)
(* The invariant holds.                                                    *)
(***************************************************************************)

\* What an earlier version left is good: its rivets had their keys.
LEMMA InitWitness ==
  ASSUME Init
  PROVE  WitnessInv
<1>1. PICK l \in Legacy :
        /\ \E d \in IF l.listed = {} THEN {None} ELSE l.listed :
             record = [wallets |-> [w \in l.listed |-> None], default |-> d]
        /\ keyStore \in SUBSET (l.listed \cap Rivet)
        /\ evicted = (l.listed \cap Rivet) \ keyStore
        /\ born = l.made
  BY DEF Init
<1>2. PICK d \in IF l.listed = {} THEN {None} ELSE l.listed :
        record = [wallets |-> [w \in l.listed |-> None], default |-> d]
  BY <1>1
<1>3. l.listed \subseteq Wallet /\ l.made \subseteq Wallet /\ Local \subseteq l.made
  BY WitnessAssumption
<1>4. GoodRecord(record, Keys, issued)
  <2> DEFINE m == [w \in l.listed |-> None]
  <2>1. m \in [l.listed -> Contract \cup {None}] /\ d \in Wallet \cup {None}
    BY <1>3
  <2>2. record \in Record /\ Listed(record) = l.listed
    BY <1>2, <1>3, <2>1, MakeRecord
  <2>3. record.default = d /\ \A w \in l.listed : record.wallets[w] = None
    BY <1>2
  <2>4. l.listed \cap Rivet \subseteq Keys
    BY <1>1 DEF Keys
  <2> QED
    BY <2>2, <2>3, <2>4 DEF GoodRecord, Invited
<1>5. /\ issued = {} /\ page = [t \in Tab |-> Closed] /\ flow = [f \in Flow |-> Idle]
  BY DEF Init
<1>6. StoreTypes
  BY <1>1, <1>3, <1>5, IdleIsGood, NoWalletIsGood DEF StoreTypes, Closed, GoodWallet
<1>7. \A t \in Tab : GoodWallet(page[t].wallet, Keys, issued)
  BY <1>5, NoWalletIsGood DEF Closed
<1>8. \A f \in Flow : GoodFlow(flow[f], page, Keys, issued)
  BY <1>5, IdleIsGood
<1> QED
  BY <1>4, <1>6, <1>7, <1>8 DEF WitnessInv

LEMMA WitnessStep ==
  ASSUME WitnessInv, [Next]_vars
  PROVE  WitnessInv'
<1>1. ASSUME NEW f \in Flow, Step(f) \/ PopupCloses(f)
      PROVE  WitnessInv'
  <2>1. PopupCloses(f) => WitnessInv'
    BY EndsUnwritten DEF PopupCloses
  <2> QED
    BY <1>1, <2>1, SignStep, ExchangeEndsStep, StoreKeyStep, CreatedStep, AcceptTokenStep,
       SetDefaultStep, ResetStep DEF Step
<1>2. ASSUME NEW f \in Flow, NEW t \in Tab,
             Connect(f, t) \/ StartBind(f, t) \/ StartReset(f, t)
      PROVE  WitnessInv'
  BY <1>2, ConnectStep, StartBindStep, StartReadingStep
<1>3. ASSUME NEW f \in Flow, NEW t \in Tab, NEW w \in Wallet,
             StartAdd(f, t, w) \/ StartSetDefault(f, t, w)
      PROVE  WitnessInv'
  BY <1>3, StartAddStep, StartReadingStep
<1>4. ASSUME NEW f \in Flow, NEW c \in Contract, TokenArrives(f, c)
      PROVE  WitnessInv'
  BY <1>4, TokenArrivesStep
<1>5. ASSUME NEW t \in Tab, NEW w \in Wallet, Remove(t, w)
      PROVE  WitnessInv'
  BY <1>5, RemoveStep
<1>6. ASSUME NEW w \in Rivet, Evict(w)
      PROVE  WitnessInv'
  BY <1>6, EvictStep
<1>7. ASSUME NEW t \in Tab, Close(t)
      PROVE  WitnessInv'
  BY <1>7, CloseStep
<1>8. CASE UNCHANGED vars
  BY <1>8, UnchangedStep
<1> QED
  BY <1>1, <1>2, <1>3, <1>4, <1>5, <1>6, <1>7, <1>8 DEF Next

\* Whatever pages and calls run, what is stored and every copy of it that may
\* be written back keeps its default, its keys and its tokens.
THEOREM WitnessIsConsistent == Spec => []WitnessInv
<1>1. Init => WitnessInv
  BY InitWitness
<1>2. WitnessInv /\ [Next]_vars => WitnessInv'
  BY WitnessStep
<1> QED
  BY <1>1, <1>2, PTL DEF Spec

-----------------------------------------------------------------------------
(***************************************************************************)
(* What follows from it.                                                   *)
(***************************************************************************)

\* The record, the pages and the calls in flight keep their types.
THEOREM WitnessTypesCorrect == Spec => []TypeOK
<1>1. WitnessInv => TypeOK
  <2> SUFFICES ASSUME WitnessInv
               PROVE  TypeOK
    OBVIOUS
  <2>1. ASSUME NEW r \in Record
        PROVE  IsRecord(r)
    BY RecordFields DEF IsRecord
  <2>2. IsRecord(record)
    BY <2>1 DEF WitnessInv, GoodRecord
  <2>3. ASSUME NEW f \in Flow
        PROVE  /\ flow[f].at \in {"idle", "storing", "made", "popup", "token", "exchange",
                                  "answer", "switching", "checking"}
               /\ flow[f].call \in Call \cup {"none"}
               /\ flow[f].rivet \in Wallet \cup {None}
               /\ IsRecord(flow[f].snap)
               /\ flow[f].at # "idle" =>
                    flow[f].tab \in Tab /\ (page[flow[f].tab].loaded \/ flow[f].at = "checking")
               /\ flow[f].own => page[flow[f].tab].wallet.id = flow[f].rivet
    BY <2>1 DEF WitnessInv, GoodFlow, FlowState
  <2> QED
    BY <2>2, <2>3 DEF WitnessInv, StoreTypes, TypeOK
<1> QED
  BY <1>1, WitnessIsConsistent, PTL

\* Whatever a page had read when it wrote the record back, the default is a
\* wallet of the list, and none only of an empty list.
THEOREM DefaultAlwaysListed == Spec => []DefaultListed
<1>1. WitnessInv => DefaultListed
  BY DEF WitnessInv, GoodRecord, DefaultListed
<1> QED
  BY <1>1, WitnessIsConsistent, PTL

\* A rivet is in the list only if its master key was committed before.
THEOREM AlwaysBornWithKey == Spec => []BornWithKey
<1>1. WitnessInv => BornWithKey
  BY DEF WitnessInv, GoodRecord, Keys, BornWithKey
<1> QED
  BY <1>1, WitnessIsConsistent, PTL

\* No page ever gets to use a wallet that is no rivet, although resets and old
\* copies may write one back.
THEOREM OnlyRivetsEverEngage == Spec => []OnlyRivetsEngage
<1>1. WitnessInv => OnlyRivetsEngage
  BY DEF WitnessInv, GoodWallet, OnlyRivetsEngage
<1> QED
  BY <1>1, WitnessIsConsistent, PTL

\* A stored binding is always one that a join token for this wallet invited,
\* although a token reaches every bind of its page.
THEOREM AlwaysBoundAsInvited == Spec => []BoundAsInvited
<1>1. WitnessInv => BoundAsInvited
  BY DEF WitnessInv, GoodRecord, Invited, BoundAsInvited
<1> QED
  BY <1>1, WitnessIsConsistent, PTL

=============================================================================
