---------------------------- MODULE WitnessStore ----------------------------
(***************************************************************************)
(* The browser's wallets: client/witness.js and the custody of keys in     *)
(* client/wallet.js.  All pages of an origin share one localStorage record *)
(* (the list of wallets and which one is the default) and one IndexedDB    *)
(* store of master keys.  A page keeps its own copy of one wallet,         *)
(* this.wallet.  A flow is a call of an async method of the Witness: what  *)
(* it does between two awaits is one action, and while it waits other      *)
(* flows run, of this page and of others.  A method that never awaits      *)
(* (save, removeWallet) is one action or a part of one.                    *)
(*                                                                         *)
(* A wallet is its id: its address and its kind never change.  What does   *)
(* is the identity contract it is bound to.  Labels, times and the server  *)
(* that was met are left out; a record of the format with a single wallet  *)
(* is a list of one.  The list has no order here: where the code takes its *)
(* first wallet, any one is taken.                                         *)
(***************************************************************************)
EXTENDS FiniteSets, Naturals

CONSTANTS
  Rivet,     \* ids of browser wallets, with a master key in IndexedDB
  Other,     \* ids of passkey and plugin wallets, with no key in the browser
  Local,     \* ids of wallets of before 2.0, stored in plain text
  Contract,  \* identity contracts
  None,      \* none of these
  Tab,       \* pages of the origin
  Flow,      \* calls that can be in flight
  Call,      \* the methods that users call
  Evictions, \* bound: how many master keys the browser drops
  Legacy     \* what an earlier version may have left: the wallets listed, and all ever made

Wallet == Rivet \cup Other \cup Local

ASSUME WitnessAssumption ==
  /\ None \notin Wallet \cup Contract
  /\ Rivet \cap Other = {} /\ Rivet \cap Local = {} /\ Other \cap Local = {}
  /\ IsFiniteSet(Wallet)
  /\ Call \subseteq {"connect", "add", "bind", "setDefault", "remove", "reset"}
  /\ Evictions \in Nat
  /\ Legacy \subseteq {l \in [listed : SUBSET Wallet, made : SUBSET Wallet] :
                  l.listed \cup Local \subseteq l.made}

VARIABLES
  record,    \* localStorage: [wallets: id -> contract, default: id]
  keyStore,  \* IndexedDB: the rivets whose master key is there
  evicted,   \* the rivets whose master key the browser has dropped
  born,      \* the wallets that were ever made
  issued,    \* the join tokens: <<the rivet it is for, the contract>>
  page,      \* [Tab -> has connect loaded the record in it, and its this.wallet]
  flow       \* [Flow -> what it waits for]

vars == <<record, keyStore, evicted, born, issued, page, flow>>

Listed(r) == DOMAIN r.wallets

\* The copy of a wallet that a page has; the one of a page without a wallet.
Copy     == [id : Wallet \cup {None}, contract : Contract \cup {None}]
NoWallet == [id |-> None, contract |-> None]
Empty    == [wallets |-> [w \in {} |-> None], default |-> None]
Closed   == [loaded |-> FALSE, wallet |-> NoWallet]

\* A flow: tab is its page, rivet the wallet it works on, own whether that is the very
\* object this.wallet, bound the contract of its object when it is another,
\* snap the record it has read, token the join token it was sent.
Idle == [at |-> "idle", call |-> "none", tab |-> None, rivet |-> None, own |-> FALSE, bound |-> None,
         snap |-> Empty, token |-> <<None, None>>]

IsRecord(r) ==
  /\ Listed(r) \subseteq Wallet
  /\ \A w \in Listed(r) : r.wallets[w] \in Contract \cup {None}
  /\ r.default \in Wallet \cup {None}

TypeOK ==
  /\ IsRecord(record)
  /\ keyStore \subseteq Rivet /\ evicted \subseteq Rivet
  /\ born \subseteq Wallet
  /\ issued \subseteq Rivet \X Contract
  /\ page \in [Tab -> [loaded : BOOLEAN, wallet : Copy]]
  /\ \A f \in Flow :
       /\ flow[f].at \in {"idle", "storing", "made", "popup", "token", "exchange",
                          "answer", "switching", "checking"}
       /\ flow[f].call \in Call \cup {"none"}
       /\ flow[f].rivet \in Wallet \cup {None}
       /\ IsRecord(flow[f].snap)
       /\ flow[f].at # "idle" =>
            flow[f].tab \in Tab /\ (page[flow[f].tab].loaded \/ flow[f].at = "checking")
       /\ flow[f].own => page[flow[f].tab].wallet.id = flow[f].rivet

-----------------------------------------------------------------------------
(***************************************************************************)
(* Parts of the methods.                                                   *)
(***************************************************************************)

\* The record with this wallet put into it.
Put(r, wallet) ==
  [wallets |-> [w \in Listed(r) \cup {wallet.id} |->
                  IF w = wallet.id THEN wallet.contract ELSE r.wallets[w]],
   default |-> IF r.default = None THEN wallet.id ELSE r.default]

\* save: the record is read again, and this.wallet put into it if there is one.
Save(r, wallet) == IF wallet.id = None THEN r ELSE Put(r, wallet)

\* The records without the wallets W: the default moves if it was one of them.
Without(r, W) ==
  LET rest == Listed(r) \ W
  IN  {[wallets |-> [w \in rest |-> r.wallets[w]], default |-> d] :
         d \in IF r.default \in W THEN IF rest = {} THEN {None} ELSE rest
                                  ELSE {r.default}}

\* this.wallet becomes another object: flows that hold the old one keep it.
Swap(t, wallet) == page' = [page EXCEPT ![t] = [loaded |-> TRUE, wallet |-> wallet]]
Detached(t) ==
  [f \in Flow |-> IF flow[f].tab = t /\ flow[f].own
                    THEN [flow[f] EXCEPT !.own = FALSE, !.bound = page[t].wallet.contract]
                    ELSE flow[f]]

\* The contract of the object that a bind works on.
BoundTo(f) == IF flow[f].own THEN page[flow[f].tab].wallet.contract ELSE flow[f].bound

\* Create: a rivet's master key is being stored, other kinds need none.
Creating(t, call, w) ==
  [Idle EXCEPT !.at = IF w \in Rivet THEN "storing" ELSE "made",
               !.call = call, !.tab = t, !.rivet = w]

Unborn == (Rivet \cup Other) \ born

\* A method is called of the Witness that connect returned, so when connect is over.
Begins(f, t, call) ==
  /\ call \in Call /\ flow[f].at = "idle" /\ page[t].loaded
  /\ \A g \in Flow : flow[g].tab = t => flow[g].call # "connect"

-----------------------------------------------------------------------------
(***************************************************************************)
(* connect                                                                 *)
(***************************************************************************)

\* load: wallets that are no rivets are taken off the list.
Load(r) == Without(r, Local)

\* The page loads its default wallet, and makes one if there is none.
Connect(f, t) ==
  /\ "connect" \in Call /\ flow[f].at = "idle" /\ ~page[t].loaded
  /\ \E r \in Load(record) :
       /\ record' = r
       /\ IF r.default \in Listed(r)
            THEN /\ Swap(t, [id |-> r.default, contract |-> r.wallets[r.default]])
                 /\ flow' = [flow EXCEPT ![f] = [Idle EXCEPT !.at = "exchange", !.call = "connect", !.tab = t]]
                 /\ UNCHANGED born
            ELSE /\ Swap(t, NoWallet)
                 /\ \E w \in Rivet \ born :
                      /\ flow' = [flow EXCEPT ![f] = Creating(t, "connect", w)]
                      /\ born' = born \cup {w}
  /\ UNCHANGED <<keyStore, evicted, issued>>

\* performKeyExchange signs with what is this.wallet by now, a rivet with its key.
Sign(f) ==
  /\ flow[f].at = "exchange"
  /\ LET w == page[flow[f].tab].wallet
     IN  w.id # None /\ (w.id \in Rivet => w.id \in keyStore)
  /\ flow' = [flow EXCEPT ![f].at = "answer"]
  /\ UNCHANGED <<record, keyStore, evicted, born, issued, page>>

\* It ends: refused, not needed, or, once it has signed, with a save of what
\* is this.wallet when the answer comes.
ExchangeEnds(f) ==
  /\ \/ flow[f].at \in {"exchange", "answer"} /\ UNCHANGED record
     \/ flow[f].at = "answer" /\ record' = Save(record, page[flow[f].tab].wallet)
  /\ flow' = [flow EXCEPT ![f] = Idle]
  /\ UNCHANGED <<keyStore, evicted, born, issued, page>>

-----------------------------------------------------------------------------
(***************************************************************************)
(* initialize, addBrowserWallet, addFidoWallet, addWeb3Wallet              *)
(***************************************************************************)

StartAdd(f, t, w) ==
  /\ Begins(f, t, "add") /\ w \in Unborn
  /\ flow' = [flow EXCEPT ![f] = Creating(t, "add", w)]
  /\ born' = born \cup {w}
  /\ UNCHANGED <<record, keyStore, evicted, issued, page>>

\* Mutant: storing is over when the key is put, not when it is committed.
StagedKey(f) ==
  /\ flow[f].at = "storing"
  /\ flow' = [flow EXCEPT ![f].at = "made"]
  /\ UNCHANGED <<record, keyStore, evicted, born, issued, page>>

\* storeMasterKey: the transaction commits, or the creation fails.
StoreKey(f) ==
  /\ flow[f].at = "storing"
  /\ \/ /\ keyStore' = keyStore \cup {flow[f].rivet}
        /\ flow' = [flow EXCEPT ![f].at = "made"]
     \/ /\ flow' = [flow EXCEPT ![f] = Idle]
        /\ UNCHANGED keyStore
  /\ UNCHANGED <<record, evicted, born, issued, page>>

\* The new wallet is saved.  add puts the page's wallet back, if it had one;
\* connect goes on to the key exchange and bind to the issuer.
Created(f) ==
  LET t   == flow[f].tab
      new == [id |-> flow[f].rivet, contract |-> None]
  IN  /\ flow[f].at = "made"
      /\ record' = Put(record, new)
      /\ IF flow[f].call = "add" /\ page[t].wallet # NoWallet
           THEN /\ flow' = [flow EXCEPT ![f] = Idle]
                /\ UNCHANGED page
           ELSE /\ Swap(t, new)
                /\ flow' = [Detached(t) EXCEPT ![f] =
                              CASE flow[f].call = "add"     -> Idle
                                [] flow[f].call = "connect" -> [Idle EXCEPT !.at = "exchange", !.call = "connect", !.tab = t]
                                [] flow[f].call = "bind"    -> [flow[f] EXCEPT !.at = "popup", !.own = TRUE]]
      /\ UNCHANGED <<keyStore, evicted, born, issued>>

-----------------------------------------------------------------------------
(***************************************************************************)
(* bindToEpisteryIdentity                                                  *)
(***************************************************************************)

\* A rivet that is not bound yet is needed: this.wallet, or a new one.
StartBind(f, t) ==
  /\ Begins(f, t, "bind")
  /\ LET w == page[t].wallet
     IN  \/ /\ w.id \in Rivet /\ w.contract = None
            /\ flow' = [flow EXCEPT ![f] = [Idle EXCEPT !.at = "popup", !.call = "bind", !.tab = t,
                                                        !.rivet = w.id, !.own = TRUE]]
            /\ UNCHANGED born
         \/ /\ ~(w.id \in Rivet /\ w.contract = None)
            /\ \E n \in Rivet \ born :
                 /\ flow' = [flow EXCEPT ![f] = Creating(t, "bind", n)]
                 /\ born' = born \cup {n}
  /\ UNCHANGED <<record, keyStore, evicted, issued, page>>

\* The issuer's window is closed, or reports an error.
PopupCloses(f) ==
  /\ flow[f].at = "popup"
  /\ flow' = [flow EXCEPT ![f] = Idle]
  /\ UNCHANGED <<record, keyStore, evicted, born, issued, page>>

\* The issuer sends a join token of contract c for the rivet that f asked for;
\* the message reaches every bind of this page that waits for the issuer.
\* Whether a rivet of c signed it is not checked here: the host asks the contract.
TokenArrives(f, c) ==
  /\ flow[f].at = "popup"
  /\ issued' = issued \cup {<<flow[f].rivet, c>>}
  /\ flow' = [g \in Flow |->
                IF flow[g].at = "popup" /\ flow[g].tab = flow[f].tab
                  THEN [flow[g] EXCEPT !.at = "token", !.token = <<flow[f].rivet, c>>]
                  ELSE flow[g]]
  /\ UNCHANGED <<record, keyStore, evicted, born, page>>

\* Mutant: whose token it is does not matter.
AcceptableToAnyone(f) == BoundTo(f) = None

\* acceptJoinToken: the token is for this rivet, which is not bound yet.
Acceptable(f) == flow[f].token[1] = flow[f].rivet /\ BoundTo(f) = None

\* The rivet is bound and this.wallet saved; else, or if the token has
\* expired, the bind throws.
AcceptToken(f) ==
  LET t == flow[f].tab
      c == flow[f].token[2]
  IN  /\ flow[f].at = "token"
      /\ \/ /\ Acceptable(f)
            /\ page' = [page EXCEPT ![t].wallet.contract = IF flow[f].own THEN c ELSE @]
            /\ record' = Save(record, page'[t].wallet)
            /\ flow' = [flow EXCEPT ![f] = [Idle EXCEPT !.at = "exchange", !.call = "bind", !.tab = t]]
         \/ /\ flow' = [flow EXCEPT ![f] = Idle]
            /\ UNCHANGED <<record, page>>
      /\ UNCHANGED <<keyStore, evicted, born, issued>>

-----------------------------------------------------------------------------
(***************************************************************************)
(* setDefaultWallet, removeWallet, reset_master_key                        *)
(***************************************************************************)

\* The record is read, and held over an await.
StartSetDefault(f, t, w) ==
  /\ Begins(f, t, "setDefault") /\ w \in Listed(record)
  /\ flow' = [flow EXCEPT ![f] = [Idle EXCEPT !.at = "switching", !.call = "setDefault",
                                              !.tab = t, !.rivet = w, !.snap = record]]
  /\ UNCHANGED <<record, keyStore, evicted, born, issued, page>>

\* Mutant: the new default is loaded into the object that this.wallet is.
SetDefaultInPlace(f) ==
  LET t == flow[f].tab
      w == flow[f].rivet
  IN  /\ flow[f].at = "switching"
      /\ record' = [flow[f].snap EXCEPT !.default = w]
      /\ Swap(t, [id |-> w, contract |-> flow[f].snap.wallets[w]])
      /\ flow' = [flow EXCEPT ![f] = Idle]
      /\ UNCHANGED <<keyStore, evicted, born, issued>>

\* Mutant: what kind of wallet it is does not matter.
SetDefaultAny(f) ==
  LET t == flow[f].tab
      w == flow[f].rivet
  IN  /\ flow[f].at = "switching"
      /\ record' = [flow[f].snap EXCEPT !.default = w]
      /\ Swap(t, [id |-> w, contract |-> flow[f].snap.wallets[w]])
      /\ flow' = [Detached(t) EXCEPT ![f] = Idle]
      /\ UNCHANGED <<keyStore, evicted, born, issued>>

\* The record that was read is written back, with the new default.  A wallet
\* that is no rivet cannot be loaded: this.wallet is gone and the call throws.
SetDefault(f) ==
  LET t == flow[f].tab
      w == flow[f].rivet
  IN  /\ flow[f].at = "switching"
      /\ \/ /\ w \notin Local
            /\ record' = [flow[f].snap EXCEPT !.default = w]
            /\ Swap(t, [id |-> w, contract |-> flow[f].snap.wallets[w]])
         \/ /\ w \in Local
            /\ Swap(t, NoWallet)
            /\ UNCHANGED record
      /\ flow' = [Detached(t) EXCEPT ![f] = Idle]
      /\ UNCHANGED <<keyStore, evicted, born, issued>>

\* Mutant: the default may be removed while there are others.
RemoveAny(t, w) ==
  /\ "remove" \in Call /\ page[t].loaded
  /\ w \in Listed(record) /\ Cardinality(Listed(record)) # 1
  /\ record' = [record EXCEPT !.wallets = [x \in Listed(record) \ {w} |-> record.wallets[x]]]
  /\ UNCHANGED <<keyStore, evicted, born, issued, page, flow>>

Remove(t, w) ==
  /\ "remove" \in Call /\ page[t].loaded
  /\ w \in Listed(record) /\ Cardinality(Listed(record)) # 1
  /\ w # record.default
  /\ record' = [record EXCEPT !.wallets = [x \in Listed(record) \ {w} |-> record.wallets[x]]]
  /\ UNCHANGED <<keyStore, evicted, born, issued, page, flow>>

\* reset_master_key is a function of the page: it needs no connect.
StartReset(f, t) ==
  /\ "reset" \in Call /\ flow[f].at = "idle" /\ Listed(record) # {}
  /\ flow' = [flow EXCEPT ![f] = [Idle EXCEPT !.at = "checking", !.call = "reset",
                                              !.tab = t, !.snap = record]]
  /\ UNCHANGED <<record, keyStore, evicted, born, issued, page>>

\* The rivets without a master key are taken off the record that was read,
\* if there are any and the user agrees; then the page is loaded again.
Reset(f) ==
  LET orphaned == (Listed(flow[f].snap) \cap Rivet) \ keyStore
  IN  /\ flow[f].at = "checking"
      /\ \/ UNCHANGED record
         \/ orphaned # {} /\ record' \in Without(flow[f].snap, orphaned)
      /\ flow' = [flow EXCEPT ![f] = Idle]
      /\ UNCHANGED <<keyStore, evicted, born, issued, page>>

-----------------------------------------------------------------------------

\* The browser drops a master key.
Evict(w) ==
  /\ w \in keyStore /\ Cardinality(evicted) < Evictions
  /\ keyStore' = keyStore \ {w}
  /\ evicted' = evicted \cup {w}
  /\ UNCHANGED <<record, born, issued, page, flow>>

\* The page is closed or loaded again, or crashes: its flows end where they are.
Close(t) ==
  /\ page[t].loaded \/ \E f \in Flow : flow[f].tab = t
  /\ page' = [page EXCEPT ![t] = Closed]
  /\ flow' = [f \in Flow |-> IF flow[f].tab = t THEN Idle ELSE flow[f]]
  /\ UNCHANGED <<record, keyStore, evicted, born, issued>>

\* The record is empty or was left by an earlier version, which may have listed
\* plain-text wallets beside others; of its rivets some have lost their key.
Init ==
  /\ \E l \in Legacy :
       /\ \E d \in IF l.listed = {} THEN {None} ELSE l.listed :
            record = [wallets |-> [w \in l.listed |-> None], default |-> d]
       /\ keyStore \in SUBSET (l.listed \cap Rivet)
       /\ evicted = (l.listed \cap Rivet) \ keyStore
       /\ born = l.made
  /\ issued = {}
  /\ page = [t \in Tab |-> Closed]
  /\ flow = [f \in Flow |-> Idle]

Step(f) ==
  \/ Sign(f) \/ ExchangeEnds(f) \/ StoreKey(f) \/ Created(f)
  \/ AcceptToken(f) \/ SetDefault(f) \/ Reset(f)

Next ==
  \/ \E f \in Flow : Step(f) \/ PopupCloses(f)
  \/ \E f \in Flow, t \in Tab : Connect(f, t) \/ StartBind(f, t) \/ StartReset(f, t)
  \/ \E f \in Flow, t \in Tab, w \in Wallet : StartAdd(f, t, w) \/ StartSetDefault(f, t, w)
  \/ \E f \in Flow, c \in Contract : TokenArrives(f, c)
  \/ \E t \in Tab, w \in Wallet : Remove(t, w)
  \/ \E w \in Rivet : Evict(w)
  \/ \E t \in Tab : Close(t)

Spec == Init /\ [][Next]_vars

-----------------------------------------------------------------------------
(***************************************************************************)
(* Properties.                                                             *)
(***************************************************************************)

\* Whichever page writes the record, from whatever it has read before, the
\* default is a wallet of the list, and there is one as soon as there is a
\* wallet (removeWallet's two checks, the reassignments of load and reset).
DefaultListed ==
  IF Listed(record) = {} THEN record.default = None ELSE record.default \in Listed(record)

\* A rivet that is listed had its master key committed before: without an
\* eviction no wallet is ever found that cannot sign ("the born-orphaned
\* bug (#30)", wallet.js:694-700).
BornWithKey == Listed(record) \cap Rivet \subseteq keyStore \cup evicted

\* "Only the three rivet types (web3, browser "rivet", fido) may engage an
\* epistery site" (witness.js:255-256): whatever load scrubs, a reset begun before it
\* may write a plain-text wallet back, and still no page gets to use it.
OnlyRivetsEngage == \A t \in Tab : page[t].wallet.id \notin Local

\* A wallet is bound to a contract only by a join token of this contract that
\* was made for this wallet, although a page's binds share their messages
\* (wallet.js:882-891).
BoundAsInvited ==
  \A w \in Listed(record) : record.wallets[w] # None => <<w, record.wallets[w]>> \in issued

\* "persist it for EVERY rivet kind, or adopting an identity silently unbinds
\* on reload" (wallet.js:57): a bind that accepts its token and goes on to the
\* key exchange leaves the binding in storage.
BindingPersisted ==
  [][\A f \in Flow :
       flow[f].at = "token" /\ flow'[f].at = "exchange" =>
         /\ flow[f].rivet \in Listed(record')
         /\ record'.wallets[flow[f].rivet] = flow[f].token[2]]_vars

=============================================================================
