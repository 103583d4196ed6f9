------------------------- MODULE DomainServerProofs -------------------------
(***************************************************************************)
(* Theorems about DomainServer.                                            *)
(***************************************************************************)
EXTENDS DomainServer, FiniteSetTheorems, TLAPS

-----------------------------------------------------------------------------
(***************************************************************************)
(* Types, for any number of requests in flight and any faults.             *)
(***************************************************************************)

\* Data whose challenge token, if there is one, is one of these.
Known(tokens) == {x \in Data : x.token \in tokens \cup {None}}

Waiting(tokens) ==
  [op : {"none", "read", "fetched", "mkdir", "write", "flushed", "failed"},
   store : {"none", "attach", "utils"}, file : Path, content : Known(tokens)]

Asked(tokens) ==
  [at : Await, route : Route \cup {"none"}, host : Domain \cup {None},
   from : Address \cup {None}, cfg : Known(tokens)]

\* A request that is there came with a host and a route, and with an address
\* where the route looks at it; it waits for a file unless it is in a handler.
Coherent(q, i) ==
  /\ i.op = "none" <=> q.at \in {"idle", "handler", "dns"}
  /\ q.at # "idle" =>
       /\ q.host \in Domain /\ q.route \in Route
       /\ q.route \in {"post", "dns"} => q.from \in Address

\* The claims in flight that may need a token still.
Posting == {r \in Request : req[r].route = "post" /\ req[r].at # "saving"}

Room == Cardinality(DOMAIN issued) + Cardinality(Posting) <= Cardinality(Token)

MemoryTypes ==
  /\ disk \in [Path -> Known(DOMAIN issued)]
  /\ attachPath \in Path /\ attachData \in Known(DOMAIN issued)
  /\ utilsPath \in Path /\ utilsData \in Known(DOMAIN issued)
  /\ cache \in [Domain -> Wallet \cup {None}]
  /\ domainName \in Domain \cup {None}
  /\ served \in [host : Domain \cup {None}, wallet : Wallet \cup {None}]

ClaimTypes ==
  /\ zone \in [Domain -> SUBSET Token]
  /\ DOMAIN issued \subseteq Token
  /\ \A t \in DOMAIN issued : issued[t] \in [domain : Domain, to : Address]
  /\ told \subseteq DOMAIN issued

TypesInv ==
  /\ MemoryTypes /\ ClaimTypes /\ Room
  /\ io \in [Request -> Waiting(DOMAIN issued)]
  /\ req \in [Request -> Asked(DOMAIN issued)]
  /\ \A r \in Request : /\ Coherent(req[r], io[r])
                        /\ req[r].at # "idle" => domainName # None

LEMMA Paths ==
  /\ Root \in Path
  /\ \A d \in Domain : Home(d) \in Path /\ Fido(d) \in Path
BY DEF Path

LEMMA MoreTokens ==
  ASSUME NEW T, NEW U, T \subseteq U
  PROVE  /\ Known(T) \subseteq Known(U)
         /\ Waiting(T) \subseteq Waiting(U)
         /\ Asked(T) \subseteq Asked(U)
<1>1. Known(T) \subseteq Known(U)
  BY DEF Known
<1> QED
  BY <1>1 DEF Waiting, Asked

LEMMA BlankIsKnown ==
  ASSUME NEW T
  PROVE  /\ Blank \in Known(T)
         /\ \A p \in BOOLEAN : [Blank EXCEPT !.provider = p] \in Known(T)
         /\ [Blank EXCEPT !.domain = TRUE] \in Known(T)
BY DEF Blank, Known, Data

LEMMA RestIsAsked ==
  ASSUME NEW T
  PROVE  Rest \in Asked(T) /\ Attach!NoIO \in Waiting(T) /\ Coherent(Rest, Attach!NoIO)
BY BlankIsKnown, Paths DEF Rest, Asked, Await, Attach!NoIO, Waiting, Coherent

\* What the code makes of the data it has.
LEMMA Updates ==
  ASSUME NEW T, T \subseteq Token, NEW x \in Known(T)
  PROVE  /\ \A w \in Wallet : [x EXCEPT !.wallet = w] \in Known(T)
         /\ \A p \in BOOLEAN : [x EXCEPT !.provider = p] \in Known(T)
         /\ \A a \in Address \cup {None} : Completed(x, a) \in Known(T)
         /\ [x EXCEPT !.domain = TRUE, !.pending = TRUE, !.provider = TRUE] \in Known(T)
         /\ \A a \in Address, t \in T :
              [x EXCEPT !.pending = TRUE, !.token = t, !.challenger = a, !.provider = TRUE]
                \in Known(T)
BY DEF Known, Data, Completed

LEMMA NewWalletType == NewWallet \in Wallet
<1>1. \E w \in Wallet : Unused # {} => w \in Unused
  BY DomainAssumption DEF Unused
<1> QED
  BY <1>1 DEF NewWallet

LEMMA PendingIsWaiting ==
  ASSUME NEW T, NEW p \in Path
  PROVE  /\ Attach!Pending("read", p) \in Waiting(T)
         /\ Utils!Pending("read", p) \in Waiting(T)
         /\ Attach!Pending("mkdir", Root) \in Waiting(T)
         /\ Utils!Pending("mkdir", Root) \in Waiting(T)
BY BlankIsKnown, Paths DEF Attach!Pending, Utils!Pending, Waiting

\* Nobody needs another token because a request moves on.
LEMMA RoomKept ==
  ASSUME TypesInv, NEW r \in Request, NEW q, req' = [req EXCEPT ![r] = q],
         q.route = "post" /\ q.at # "saving" => r \in Posting, issued' = issued
  PROVE  Room'
<1>1. Posting' \subseteq Posting
  BY DEF TypesInv, Posting
<1>2. IsFiniteSet(Posting) /\ IsFiniteSet(DOMAIN issued)
  BY DomainAssumption, FS_Subset DEF Posting, TypesInv, ClaimTypes
<1>3. IsFiniteSet(Posting') /\ Cardinality(Posting') <= Cardinality(Posting)
  BY <1>1, <1>2, FS_Subset
<1>4. /\ Cardinality(Posting) \in Nat /\ Cardinality(Posting') \in Nat
      /\ Cardinality(DOMAIN issued) \in Nat /\ Cardinality(Token) \in Nat
  BY <1>2, <1>3, DomainAssumption, FS_CardinalityType
<1> QED
  BY <1>3, <1>4 DEF Room, TypesInv

\* A request r moves on to q and waits for i; whatever it changes keeps its type.
LEMMA RequestMoves ==
  ASSUME TypesInv, NEW r \in Request,
         NEW q \in Asked(DOMAIN issued'), NEW i \in Waiting(DOMAIN issued'),
         req' = [req EXCEPT ![r] = q], io' = [io EXCEPT ![r] = i],
         Coherent(q, i), q.at # "idle" => domainName' # None,
         domainName # None => domainName' # None,
         DOMAIN issued \subseteq DOMAIN issued',
         MemoryTypes', ClaimTypes', Room'
  PROVE  TypesInv'
<1>1. /\ io \in [Request -> Waiting(DOMAIN issued')]
      /\ req \in [Request -> Asked(DOMAIN issued')]
  BY MoreTokens DEF TypesInv
<1>2. /\ io' \in [Request -> Waiting(DOMAIN issued')]
      /\ req' \in [Request -> Asked(DOMAIN issued')]
  BY <1>1
<1>3. ASSUME NEW s \in Request
      PROVE  Coherent(req'[s], io'[s]) /\ (req'[s].at # "idle" => domainName' # None)
  <2>1. /\ req'[s] = IF s = r THEN q ELSE req[s]
        /\ io'[s] = IF s = r THEN i ELSE io[s]
    BY <1>1
  <2> QED
    BY <2>1 DEF TypesInv
<1> QED
  BY <1>2, <1>3 DEF TypesInv

\* The same, of a step that leaves names and tokens alone.
LEMMA RequestReads ==
  ASSUME TypesInv, NEW r \in Request, req[r].at # "idle",
         NEW q \in Asked(DOMAIN issued), NEW i \in Waiting(DOMAIN issued),
         req' = [req EXCEPT ![r] = q], io' = [io EXCEPT ![r] = i],
         Coherent(q, i),
         q.route = "post" /\ q.at # "saving" => r \in Posting,
         disk' \in [Path -> Known(DOMAIN issued)],
         attachPath' \in Path, attachData' \in Known(DOMAIN issued),
         utilsPath' \in Path, utilsData' \in Known(DOMAIN issued),
         cache' \in [Domain -> Wallet \cup {None}],
         served' \in [host : Domain \cup {None}, wallet : Wallet \cup {None}],
         told' \subseteq DOMAIN issued,
         UNCHANGED <<domainName, zone, issued>>
  PROVE  TypesInv'
<1>1. Room'
  BY RoomKept
<1>2. MemoryTypes' /\ ClaimTypes'
  BY DEF TypesInv, MemoryTypes, ClaimTypes
<1>3. domainName' # None
  BY DEF TypesInv
<1> QED
  BY <1>1, <1>2, <1>3, RequestMoves

LEMMA RequestTypes ==
  ASSUME TypesInv, NEW r \in Request
  PROVE  /\ req[r] \in Asked(DOMAIN issued) /\ req[r].cfg \in Known(DOMAIN issued)
         /\ io[r].content \in Known(DOMAIN issued)
         /\ io[r].file \in Path /\ Coherent(req[r], io[r])
         /\ req[r].at # "idle" => /\ req[r].host \in Domain
                                  /\ Home(req[r].host) \in Path
BY Paths DEF TypesInv, Asked, Waiting, Coherent

\* A request that is not yet saving goes on.
LEMMA RequestAdvances ==
  ASSUME TypesInv, NEW r \in Request, req[r].at \notin {"idle", "saving"},
         NEW q \in Asked(DOMAIN issued), NEW i \in Waiting(DOMAIN issued),
         req' = [req EXCEPT ![r] = q], io' = [io EXCEPT ![r] = i],
         q.at # "idle", q.host = req[r].host, q.route = req[r].route, q.from = req[r].from,
         i.op = "none" <=> q.at \in {"handler", "dns"},
         attachPath' \in Path, attachData' \in Known(DOMAIN issued),
         utilsPath' \in Path, utilsData' \in Known(DOMAIN issued),
         cache' \in [Domain -> Wallet \cup {None}],
         served' \in [host : Domain \cup {None}, wallet : Wallet \cup {None}],
         UNCHANGED <<disk, domainName, envVars>>
  PROVE  TypesInv'
<1>1. Coherent(q, i) /\ (q.route = "post" => r \in Posting)
  BY RequestTypes DEF Coherent, Posting
<1>2. /\ disk' \in [Path -> Known(DOMAIN issued)] /\ told' \subseteq DOMAIN issued
      /\ UNCHANGED <<domainName, zone, issued>>
  BY DEF TypesInv, MemoryTypes, ClaimTypes, envVars
<1> QED
  BY <1>1, <1>2, RequestReads

LEMMA UseWalletTypes ==
  ASSUME TypesInv, NEW r \in Request, req[r].at \in {"init", "initBack"},
         NEW dc \in Known(DOMAIN issued), NEW loaded \in Known(DOMAIN issued),
         UseWallet(r, dc, loaded), attachUnused, UNCHANGED <<disk, domainName, served, envVars>>
  PROVE  TypesInv'
<1> DEFINE new == [dc EXCEPT !.wallet = NewWallet]
<1>1. req[r] \in Asked(DOMAIN issued) /\ req[r].host \in Domain /\ Home(req[r].host) \in Path
  BY RequestTypes
<1>2. CASE /\ dc.wallet = None /\ utilsData' = new
           /\ req' = [req EXCEPT ![r].at = "initSave", ![r].cfg = new]
           /\ Utils!Save(r) /\ UNCHANGED cache
  <2> DEFINE q == [req[r] EXCEPT !.at = "initSave", !.cfg = new]
             i == Utils!Pending("mkdir", Root)
  <2>1. new \in Known(DOMAIN issued)
    BY Updates, NewWalletType DEF TypesInv, ClaimTypes
  <2>2. i \in Waiting(DOMAIN issued) /\ i.op = "mkdir"
    BY PendingIsWaiting, Paths DEF Utils!Pending
  <2>3. req' = [req EXCEPT ![r] = q] /\ io' = [io EXCEPT ![r] = i]
    BY <1>2 DEF TypesInv, Utils!Save
  <2>4. utilsData' \in Known(DOMAIN issued) /\ utilsPath' = utilsPath /\ cache' = cache
    BY <1>2, <2>1 DEF Utils!Save
  <2>5. /\ q \in Asked(DOMAIN issued) /\ q.at = "initSave" /\ q.host = req[r].host
        /\ q.route = req[r].route /\ q.from = req[r].from
    BY <1>1, <2>1 DEF Asked, Await
  <2> HIDE DEF q, i, new
  <2> QED
    BY <2>2, <2>3, <2>4, <2>5, RequestAdvances DEF TypesInv, MemoryTypes, attachUnused
<1>3. CASE /\ dc.wallet # None /\ utilsData' = loaded
           /\ cache' = [cache EXCEPT ![req[r].host] = dc.wallet]
           /\ req' = [req EXCEPT ![r].at = "info", ![r].cfg = Blank]
           /\ AskInfo(r, req[r].host)
  <2> DEFINE q == [req[r] EXCEPT !.at = "info", !.cfg = Blank]
             i == Utils!Pending("read", Home(req[r].host))
  <2>1. dc.wallet \in Wallet \cup {None}
    BY DEF Known, Data
  <2>2. i \in Waiting(DOMAIN issued) /\ i.op = "read"
    BY <1>1, PendingIsWaiting DEF Utils!Pending
  <2>3. req' = [req EXCEPT ![r] = q] /\ io' = [io EXCEPT ![r] = i]
    BY <1>3 DEF TypesInv, AskInfo, Utils!Open
  <2>4. utilsData' = loaded /\ utilsPath' \in Path
        /\ cache' \in [Domain -> Wallet \cup {None}]
    BY <1>1, <1>3, <2>1 DEF AskInfo, Utils!Open, TypesInv, MemoryTypes
  <2>5. /\ q \in Asked(DOMAIN issued) /\ q.at = "info" /\ q.host = req[r].host
        /\ q.route = req[r].route /\ q.from = req[r].from
    BY <1>1, BlankIsKnown DEF Asked, Await
  <2> HIDE DEF q, i
  <2> QED
    BY <2>2, <2>3, <2>4, <2>5, RequestAdvances DEF TypesInv, MemoryTypes, attachUnused
<1> QED
  BY <1>2, <1>3 DEF UseWallet

\* A request is over, with nothing written.
LEMMA RequestEnds ==
  ASSUME TypesInv, NEW r \in Request, req[r].at # "idle", Finish(r),
         NEW i \in Waiting(DOMAIN issued), i.op = "none", io' = [io EXCEPT ![r] = i],
         attachPath' \in Path, attachData' \in Known(DOMAIN issued),
         utilsPath' \in Path, utilsData' \in Known(DOMAIN issued),
         told' \subseteq DOMAIN issued,
         UNCHANGED <<disk, attachVars, zone, issued>>
  PROVE  TypesInv'
<1>1. Rest \in Asked(DOMAIN issued) /\ Rest.at = "idle" /\ Rest.route = "none"
  BY RestIsAsked DEF Rest
<1>2. Coherent(Rest, i)
  BY <1>1 DEF Coherent
<1> QED
  BY <1>1, <1>2, RequestReads DEF Finish, TypesInv, MemoryTypes, attachVars

LEMMA InitTypes ==
  ASSUME TypesInv, NEW r \in Request,
         InitLoaded(r) \/ InitRootLoaded(r) \/ InitBackLoaded(r) \/ InitSaved(r)
  PROVE  TypesInv'
<1> DEFINE K == Known(DOMAIN issued)
           dc == IF io[r].content.domain THEN io[r].content ELSE [Blank EXCEPT !.domain = TRUE]
<1>1. /\ req[r] \in Asked(DOMAIN issued) /\ req[r].at \notin {"idle", "saving"}
      /\ req[r].cfg \in K /\ io[r].content \in K
      /\ req[r].host \in Domain /\ Home(req[r].host) \in Path
  BY RequestTypes DEF InitLoaded, InitRootLoaded, InitBackLoaded, InitSaved
<1>2. dc \in K /\ DOMAIN issued \subseteq Token
  BY <1>1, BlankIsKnown DEF TypesInv, ClaimTypes
<1>3. CASE InitLoaded(r) /\ UseWallet(r, dc, io[r].content)
  BY <1>1, <1>2, <1>3, UseWalletTypes DEF InitLoaded
<1>4. CASE /\ InitLoaded(r) /\ utilsData' = io[r].content /\ Utils!Open(r, Root)
           /\ req' = [req EXCEPT ![r].at = "initRoot", ![r].cfg = dc] /\ UNCHANGED cache
  <2> DEFINE q == [req[r] EXCEPT !.at = "initRoot", !.cfg = dc]
             i == Utils!Pending("read", Root)
  <2>1. i \in Waiting(DOMAIN issued) /\ i.op = "read"
    BY Paths, PendingIsWaiting DEF Utils!Pending
  <2>2. req' = [req EXCEPT ![r] = q] /\ io' = [io EXCEPT ![r] = i]
    BY <1>4 DEF TypesInv, Utils!Open
  <2>3. /\ q \in Asked(DOMAIN issued) /\ q.at = "initRoot" /\ q.host = req[r].host
        /\ q.route = req[r].route /\ q.from = req[r].from
    BY <1>1, <1>2 DEF Asked, Await
  <2>4. utilsPath' \in Path /\ utilsData' \in K
    BY <1>1, <1>4, Paths DEF Utils!Open
  <2> HIDE DEF q, i, dc
  <2> QED
    BY <1>1, <1>4, <2>1, <2>2, <2>3, <2>4, RequestAdvances
       DEF InitLoaded, TypesInv, MemoryTypes, attachUnused
<1>5. CASE InitRootLoaded(r)
  <2> DEFINE new == [req[r].cfg EXCEPT !.provider = io[r].content.provider]
             q == [req[r] EXCEPT !.at = "initBack", !.cfg = new]
             i == Utils!Pending("read", Home(req[r].host))
  <2>1. new \in K
    BY <1>1, <1>2, Updates DEF Known, Data
  <2>2. i \in Waiting(DOMAIN issued) /\ i.op = "read"
    BY <1>1, PendingIsWaiting DEF Utils!Pending
  <2>3. req' = [req EXCEPT ![r] = q] /\ io' = [io EXCEPT ![r] = i]
    BY <1>5 DEF InitRootLoaded, TypesInv, Utils!Open
  <2>4. /\ q \in Asked(DOMAIN issued) /\ q.at = "initBack" /\ q.host = req[r].host
        /\ q.route = req[r].route /\ q.from = req[r].from
    BY <1>1, <2>1 DEF Asked, Await
  <2>5. utilsPath' \in Path /\ utilsData' \in K
    BY <1>1, <1>5 DEF InitRootLoaded, Utils!Open
  <2> HIDE DEF q, i, new
  <2> QED
    BY <1>1, <1>5, <2>2, <2>3, <2>4, <2>5, RequestAdvances
       DEF InitRootLoaded, TypesInv, MemoryTypes, attachUnused, attachVars
<1>6. CASE InitBackLoaded(r)
  BY <1>1, <1>6, UseWalletTypes DEF InitBackLoaded
<1>7. CASE InitSaved(r)
  <2> DEFINE q == [req[r] EXCEPT !.at = "info", !.cfg = Blank]
             i == Utils!Pending("read", Home(req[r].host))
  <2>1. i \in Waiting(DOMAIN issued) /\ i.op = "read"
    BY <1>1, PendingIsWaiting DEF Utils!Pending
  <2>2. req' = [req EXCEPT ![r] = q] /\ io' = [io EXCEPT ![r] = i]
    BY <1>7 DEF InitSaved, TypesInv, AskInfo, Utils!Open
  <2>3. /\ q \in Asked(DOMAIN issued) /\ q.at = "info" /\ q.host = req[r].host
        /\ q.route = req[r].route /\ q.from = req[r].from
    BY <1>1, BlankIsKnown DEF Asked, Await
  <2>4. utilsPath' \in Path /\ cache' \in [Domain -> Wallet \cup {None}]
    BY <1>1, <1>7 DEF InitSaved, AskInfo, Utils!Open, TypesInv, MemoryTypes, Known, Data
  <2> HIDE DEF q, i
  <2> QED
    BY <1>1, <1>7, <2>1, <2>2, <2>3, <2>4, RequestAdvances
       DEF InitSaved, TypesInv, MemoryTypes, attachUnused
<1> QED
  BY <1>3, <1>4, <1>5, <1>6, <1>7 DEF InitLoaded

LEMMA InfoTypes ==
  ASSUME TypesInv, NEW r \in Request, InfoLoaded(r) \/ InfoRootLoaded(r)
  PROVE  TypesInv'
<1> DEFINE K == Known(DOMAIN issued)
<1>1. /\ req[r] \in Asked(DOMAIN issued) /\ req[r].at \notin {"idle", "saving"}
      /\ req[r].cfg \in K /\ io[r].content \in K /\ req[r].host \in Domain
  BY RequestTypes DEF InfoLoaded, InfoRootLoaded
<1>2. /\ Attach!NoIO \in Waiting(DOMAIN issued) /\ Attach!NoIO.op = "none"
      /\ Utils!NoIO = Attach!NoIO
  BY RestIsAsked DEF Attach!NoIO, Utils!NoIO
<1>3. \A w \in Wallet \cup {None} :
        Serve(r, w) => served' \in [host : Domain \cup {None}, wallet : Wallet \cup {None}]
  BY <1>1 DEF Serve
<1>4. \A x \in K : x.wallet \in Wallet \cup {None}
  BY DEF Known, Data
<1>5. CASE /\ InfoLoaded(r) /\ utilsData' = io[r].content
           /\ req' = [req EXCEPT ![r].at = "infoRoot", ![r].cfg = io[r].content]
           /\ Utils!Peek(r, Root) /\ UNCHANGED served
  <2> DEFINE q == [req[r] EXCEPT !.at = "infoRoot", !.cfg = io[r].content]
             i == Utils!Pending("read", Root)
  <2>1. i \in Waiting(DOMAIN issued) /\ i.op = "read"
    BY Paths, PendingIsWaiting DEF Utils!Pending
  <2>2. req' = [req EXCEPT ![r] = q] /\ io' = [io EXCEPT ![r] = i] /\ utilsPath' = utilsPath
    BY <1>5 DEF TypesInv, Utils!Peek
  <2>3. /\ q \in Asked(DOMAIN issued) /\ q.at = "infoRoot" /\ q.host = req[r].host
        /\ q.route = req[r].route /\ q.from = req[r].from
    BY <1>1 DEF Asked, Await
  <2> HIDE DEF q, i
  <2> QED
    BY <1>1, <1>5, <2>1, <2>2, <2>3, RequestAdvances
       DEF InfoLoaded, TypesInv, MemoryTypes, attachUnused
<1>6. CASE /\ InfoLoaded(r) /\ utilsData' = io[r].content
           /\ Serve(r, IF io[r].content.domain THEN io[r].content.wallet ELSE None)
           /\ Goto(r, "handler") /\ Utils!Close(r)
  <2> DEFINE q == [req[r] EXCEPT !.at = "handler"]
  <2>1. req' = [req EXCEPT ![r] = q] /\ io' = [io EXCEPT ![r] = Attach!NoIO] /\ utilsPath' = utilsPath
    BY <1>2, <1>6 DEF TypesInv, Utils!Close, Goto
  <2>2. /\ q \in Asked(DOMAIN issued) /\ q.at = "handler" /\ q.host = req[r].host
        /\ q.route = req[r].route /\ q.from = req[r].from
    BY <1>1 DEF Asked, Await
  <2>3. served' \in [host : Domain \cup {None}, wallet : Wallet \cup {None}]
    BY <1>1, <1>3, <1>4, <1>6
  <2> HIDE DEF q
  <2> QED
    BY <1>1, <1>2, <1>6, <2>1, <2>2, <2>3, RequestAdvances
       DEF InfoLoaded, TypesInv, MemoryTypes, attachUnused
<1>7. CASE InfoRootLoaded(r)
  <2> DEFINE q == [req[r] EXCEPT !.at = "handler", !.cfg = Blank]
  <2>1. req' = [req EXCEPT ![r] = q] /\ io' = [io EXCEPT ![r] = Attach!NoIO] /\ utilsPath' = utilsPath
    BY <1>2, <1>7 DEF InfoRootLoaded, TypesInv, Utils!Close
  <2>2. /\ q \in Asked(DOMAIN issued) /\ q.at = "handler" /\ q.host = req[r].host
        /\ q.route = req[r].route /\ q.from = req[r].from
    BY <1>1, BlankIsKnown DEF Asked, Await
  <2>3. served' \in [host : Domain \cup {None}, wallet : Wallet \cup {None}]
    BY <1>1, <1>3, <1>4, <1>7 DEF InfoRootLoaded
  <2>4. utilsData' \in K
    <3>1. utilsData \in K /\ DOMAIN issued \subseteq Token /\ io[r].content.provider \in BOOLEAN
      BY <1>1 DEF TypesInv, MemoryTypes, ClaimTypes, Known, Data
    <3>2. [utilsData EXCEPT !.provider = io[r].content.provider] \in K
      BY <3>1, Updates
    <3> QED
      BY <1>7, <3>1, <3>2 DEF InfoRootLoaded
  <2> HIDE DEF q
  <2> QED
    BY <1>1, <1>2, <1>7, <2>1, <2>2, <2>3, <2>4, RequestAdvances
       DEF InfoRootLoaded, TypesInv, MemoryTypes, attachUnused
<1> QED
  BY <1>5, <1>6, <1>7 DEF InfoLoaded

LEMMA StartHandlerTypes ==
  ASSUME TypesInv, NEW r \in Request, StartHandler(r)
  PROVE  TypesInv'
<1> DEFINE q == [req[r] EXCEPT !.at = "loading"]
<1>1. /\ req[r] \in Asked(DOMAIN issued) /\ req[r].at = "handler"
      /\ Home(req[r].host) \in Path /\ domainName \in Domain
  BY RequestTypes DEF StartHandler, TypesInv, MemoryTypes
<1>2. PICK p \in Path :
        \/ Utils!Open(r, p) /\ UNCHANGED attachPath
        \/ Attach!Open(r, p) /\ UNCHANGED utilsPath
  BY <1>1, Paths DEF StartHandler
<1>3. PICK i \in {Utils!Pending("read", p), Attach!Pending("read", p)} : io' = [io EXCEPT ![r] = i]
  BY <1>2 DEF Utils!Open, Attach!Open
<1>4. i \in Waiting(DOMAIN issued) /\ i.op = "read"
  <2>1. Utils!Pending("read", p).op = "read" /\ Attach!Pending("read", p).op = "read"
    BY DEF Utils!Pending, Attach!Pending
  <2> QED
    BY <1>3, <2>1, PendingIsWaiting
<1>5. req' = [req EXCEPT ![r] = q]
  BY DEF StartHandler, Goto, TypesInv
<1>6. /\ q \in Asked(DOMAIN issued) /\ q.at = "loading" /\ q.host = req[r].host
      /\ q.route = req[r].route /\ q.from = req[r].from
  BY <1>1 DEF Asked, Await
<1>7. attachPath' \in Path /\ utilsPath' \in Path
  BY <1>2 DEF Utils!Open, Attach!Open, TypesInv, MemoryTypes
<1> HIDE DEF q
<1> QED
  BY <1>1, <1>3, <1>4, <1>5, <1>6, <1>7, RequestAdvances
     DEF StartHandler, TypesInv, MemoryTypes, attachVars

\* The handlers that only read.
LEMMA ReplyTypes ==
  ASSUME TypesInv, NEW r \in Request, QueryLoaded(r) \/ PostRepeated(r)
  PROVE  TypesInv'
<1>1. /\ req[r].at # "idle" /\ io[r].content \in Known(DOMAIN issued)
      /\ Reply(r) /\ utilsUnused /\ UNCHANGED <<disk, attachVars, zone, issued>>
  BY RequestTypes DEF QueryLoaded, PostRepeated, Loaded, envVars
<1>2. Attach!NoIO \in Waiting(DOMAIN issued) /\ Attach!NoIO.op = "none"
  BY RestIsAsked DEF Attach!NoIO
<1>3. told' \subseteq DOMAIN issued
  BY <1>1 DEF QueryLoaded, PostRepeated, envVars, HasChallenge, Known, TypesInv, ClaimTypes
<1> QED
  BY <1>1, <1>2, <1>3, RequestEnds
     DEF Reply, Attach!Close, utilsUnused, TypesInv, MemoryTypes

LEMMA PostChallengeTypes ==
  ASSUME TypesInv, NEW r \in Request, PostChallenge(r)
  PROVE  /\ TypesInv'
         /\ \E t \in Token \ DOMAIN issued : 
              t = CHOOSE x \in Token : x \notin DOMAIN issued
<1> DEFINE t == CHOOSE x \in Token : x \notin DOMAIN issued
           new == [io[r].content EXCEPT !.pending = TRUE, !.token = t,
                     !.challenger = req[r].from, !.provider = TRUE]
           q == [req[r] EXCEPT !.at = "saving", !.cfg = new]
           i == Attach!Pending("mkdir", Root)
           T == DOMAIN issued \cup {t}
<1>1. /\ req[r] \in Asked(DOMAIN issued) /\ req[r].at = "loading" /\ req[r].route = "post"
      /\ io[r].content \in Known(DOMAIN issued) /\ req[r].host \in Domain
      /\ req[r].from \in Address /\ req[r].route \in Route
  BY RequestTypes DEF PostChallenge, Loaded, Coherent
<1>2. /\ IsFiniteSet(Posting) /\ IsFiniteSet(DOMAIN issued) /\ DOMAIN issued \subseteq Token
      /\ r \in Posting
  BY <1>1, DomainAssumption, FS_Subset DEF Posting, TypesInv, ClaimTypes
<1>3. /\ Cardinality(Posting) \in Nat /\ Cardinality(DOMAIN issued) \in Nat
      /\ Cardinality(Token) \in Nat
      /\ Cardinality(Posting \ {r}) = Cardinality(Posting) - 1
      /\ Cardinality(Posting \ {r}) \in Nat
  BY <1>2, DomainAssumption, FS_CardinalityType, FS_RemoveElement
<1>4. DOMAIN issued # Token
  BY <1>3 DEF TypesInv, Room
<1>5. t \in Token /\ t \notin DOMAIN issued
  BY <1>2, <1>4
<1> HIDE DEF t
<1>6. /\ DOMAIN issued' = T /\ T \subseteq Token /\ DOMAIN issued \subseteq T
      /\ \A x \in T : issued'[x] = IF x = t THEN [domain |-> req[r].host, to |-> req[r].from]
                                   ELSE issued[x]
  BY <1>2, <1>5 DEF PostChallenge, t
<1>7. new \in Known(T)
  <2>1. io[r].content \in Known(T) /\ t \in T
    BY <1>1, <1>6, MoreTokens
  <2> QED
    BY <1>1, <1>6, <2>1, Updates
<1>8. /\ q \in Asked(T) /\ q.at = "saving" /\ q.host = req[r].host
      /\ q.route = req[r].route /\ q.from = req[r].from
  <2>1. req[r] \in Asked(T)
    BY <1>1, <1>6, MoreTokens
  <2> HIDE DEF new
  <2> QED
    BY <1>7, <2>1 DEF Asked, Await
<1>9. i \in Waiting(T) /\ i.op = "mkdir"
  BY Paths, PendingIsWaiting DEF Attach!Pending
<1>10. req' = [req EXCEPT ![r] = q] /\ io' = [io EXCEPT ![r] = i] /\ attachData' = new
       /\ attachPath' = attachPath
  <2>1. attachData' = new /\ req' = [req EXCEPT ![r].at = "saving", ![r].cfg = new]
    BY Zenon DEF PostChallenge, t
  <2>2. io' = [io EXCEPT ![r] = i] /\ attachPath' = attachPath
    BY DEF PostChallenge, Attach!Save
  <2> HIDE DEF new
  <2> QED
    BY <2>1, <2>2 DEF TypesInv
<1> HIDE DEF q, i, new
<1>11. Coherent(q, i)
  BY <1>1, <1>8, <1>9 DEF Coherent
<1>12. Room'
  <2>1. Posting' = Posting \ {r}
    BY <1>8, <1>10 DEF Posting, TypesInv
  <2>2. Cardinality(T) = Cardinality(DOMAIN issued) + 1
    BY <1>2, <1>5, FS_AddElement
  <2>3. Cardinality(Posting') = Cardinality(Posting) - 1
    BY <1>3, <2>1
  <2> QED
    BY <1>3, <1>6, <2>2, <2>3 DEF Room, TypesInv
<1>13. MemoryTypes'
  BY <1>6, <1>7, <1>10, MoreTokens
     DEF PostChallenge, TypesInv, MemoryTypes, utilsUnused, attachVars
<1>14. ClaimTypes'
  BY <1>1, <1>6 DEF PostChallenge, TypesInv, ClaimTypes
<1>15. domainName' # None
  BY <1>1 DEF PostChallenge, TypesInv, attachVars
<1>16. TypesInv'
  BY <1>6, <1>8, <1>9, <1>10, <1>11, <1>12, <1>13, <1>14, <1>15, RequestMoves
<1> QED
  BY <1>5, <1>16 DEF t

LEMMA DnsTypes ==
  ASSUME TypesInv, NEW r \in Request, DnsLoaded(r) \/ DnsAnswered(r)
  PROVE  TypesInv'
<1> DEFINE K == Known(DOMAIN issued)
<1>1. /\ req[r] \in Asked(DOMAIN issued) /\ req[r].at \notin {"idle", "saving"}
      /\ io[r].content \in K /\ req[r].from \in Address \cup {None}
      /\ Coherent(req[r], io[r])
  BY RequestTypes DEF DnsLoaded, DnsAnswered, Loaded, Asked
<1>2. Attach!NoIO \in Waiting(DOMAIN issued) /\ Attach!NoIO.op = "none"
  BY RestIsAsked DEF Attach!NoIO
<1>3. /\ utilsUnused /\ UNCHANGED <<disk, attachVars, envVars>>
      /\ attachPath \in Path /\ utilsPath \in Path /\ attachData \in K /\ utilsData \in K
      /\ told \subseteq DOMAIN issued /\ DOMAIN issued \subseteq Token
  BY DEF DnsLoaded, DnsAnswered, TypesInv, MemoryTypes, ClaimTypes
<1>4. CASE DnsLoaded(r) /\ Finish(r)
  BY <1>1, <1>2, <1>3, <1>4, RequestEnds DEF DnsLoaded, Attach!Close, utilsUnused, envVars
<1>5. CASE DnsLoaded(r) /\ Goto(r, "dns")
  <2> DEFINE q == [req[r] EXCEPT !.at = "dns"]
  <2>1. req' = [req EXCEPT ![r] = q]
    BY <1>5 DEF Goto, TypesInv
  <2>2. /\ q \in Asked(DOMAIN issued) /\ q.at = "dns" /\ q.host = req[r].host
        /\ q.route = req[r].route /\ q.from = req[r].from
    BY <1>1 DEF Asked, Await
  <2> HIDE DEF q
  <2> QED
    BY <1>1, <1>2, <1>3, <1>5, <2>1, <2>2, RequestAdvances
       DEF DnsLoaded, Attach!Close, utilsUnused, attachVars, TypesInv, MemoryTypes
<1>6. CASE DnsAnswered(r) /\ Finish(r) /\ attachUnused /\ UNCHANGED io
  <2>1. /\ io[r] \in Waiting(DOMAIN issued) /\ io[r].op = "none"
        /\ io' = [io EXCEPT ![r] = io[r]]
    BY <1>1, <1>6 DEF TypesInv, DnsAnswered, Coherent
  <2> QED
    BY <1>1, <1>3, <1>6, <2>1, RequestEnds DEF attachUnused, utilsUnused, envVars
<1>7. CASE /\ DnsAnswered(r) /\ attachData' = Completed(attachData, req[r].from)
           /\ Goto(r, "saving") /\ Attach!Save(r)
  <2> DEFINE q == [req[r] EXCEPT !.at = "saving"]
             i == Attach!Pending("mkdir", Root)
  <2>1. /\ req' = [req EXCEPT ![r] = q] /\ io' = [io EXCEPT ![r] = i]
        /\ attachPath' = attachPath
    BY <1>7 DEF Goto, Attach!Save, TypesInv
  <2>2. /\ q \in Asked(DOMAIN issued) /\ q.at = "saving" /\ q.host = req[r].host
        /\ q.route = req[r].route /\ q.from = req[r].from
    BY <1>1 DEF Asked, Await
  <2>3. i \in Waiting(DOMAIN issued) /\ i.op = "mkdir"
    BY Paths, PendingIsWaiting DEF Attach!Pending
  <2>4. attachData' \in K
    BY <1>1, <1>3, <1>7, Updates
  <2> HIDE DEF q, i
  <2> QED
    BY <1>1, <1>3, <2>1, <2>2, <2>3, <2>4, RequestAdvances
       DEF utilsUnused, attachVars, TypesInv, MemoryTypes
<1> QED
  BY <1>4, <1>5, <1>6, <1>7 DEF DnsLoaded, DnsAnswered

LEMMA InitializeTypes ==
  ASSUME TypesInv, NEW r \in Request, InitializeLoaded(r)
  PROVE  TypesInv'
<1> DEFINE K == Known(DOMAIN issued)
           q == [req[r] EXCEPT !.at = "saving"]
           i == Utils!Pending("mkdir", Root)
<1>1. /\ req[r] \in Asked(DOMAIN issued) /\ req[r].at = "loading" /\ io[r].content \in K
  BY RequestTypes DEF InitializeLoaded, Loaded
<1>2. utilsData' \in K
  BY <1>1, Updates DEF InitializeLoaded, TypesInv, ClaimTypes
<1>3. /\ req' = [req EXCEPT ![r] = q] /\ io' = [io EXCEPT ![r] = i] /\ utilsPath' = utilsPath
  BY DEF InitializeLoaded, Goto, Utils!Save, TypesInv
<1>4. /\ q \in Asked(DOMAIN issued) /\ q.at = "saving" /\ q.host = req[r].host
      /\ q.route = req[r].route /\ q.from = req[r].from
  BY <1>1 DEF Asked, Await
<1>5. i \in Waiting(DOMAIN issued) /\ i.op = "mkdir"
  BY Paths, PendingIsWaiting DEF Utils!Pending
<1> HIDE DEF q, i
<1> QED
  BY <1>1, <1>2, <1>3, <1>4, <1>5, RequestAdvances
     DEF InitializeLoaded, attachUnused, attachVars, TypesInv, MemoryTypes

LEMMA SaveDoneTypes ==
  ASSUME TypesInv, NEW r \in Request, SaveDone(r)
  PROVE  TypesInv'
<1>1. /\ req[r].at = "saving" /\ Finish(r)
      /\ req[r].cfg.token \in DOMAIN issued \cup {None}
      /\ UNCHANGED <<disk, attachData, utilsData, attachVars, zone, issued>>
  BY RequestTypes DEF SaveDone, Known
<1>2. /\ Attach!NoIO \in Waiting(DOMAIN issued) /\ Attach!NoIO.op = "none"
      /\ Utils!NoIO = Attach!NoIO
  BY RestIsAsked DEF Attach!NoIO, Utils!NoIO
<1>3. told' \subseteq DOMAIN issued
  BY <1>1 DEF SaveDone, TypesInv, ClaimTypes
<1>4. io' = [io EXCEPT ![r] = Attach!NoIO] /\ UNCHANGED <<attachPath, utilsPath>>
  BY <1>2 DEF SaveDone, Attach!Close, Utils!Close
<1> QED
  BY <1>1, <1>2, <1>3, <1>4, RequestEnds DEF TypesInv, MemoryTypes

\* The file system serves one request: what it answers is a file's data or
\* nothing, what it writes is what the request had to write.
LEMMA FileAnswers ==
  ASSUME TypesInv, NEW r \in Request, FileStep(r)
  PROVE  \E i \in Waiting(DOMAIN issued) :
           /\ io' = [io EXCEPT ![r] = i] /\ i.op # "none" /\ io[r].op # "none"
           /\ disk' \in [Path -> Known(DOMAIN issued)]
           /\ UNCHANGED <<attachPath, attachData, utilsPath, utilsData, attachVars, req, envVars>>
<1> DEFINE K == Known(DOMAIN issued)
           x == io[r]
           fetched(c) == [x EXCEPT !.op = "fetched", !.content = c]
           write(p, c) == [x EXCEPT !.op = "write", !.file = p, !.content = c]
           reached(op) == [x EXCEPT !.op = op]
<1>1. /\ x \in Waiting(DOMAIN issued) /\ io \in [Request -> Waiting(DOMAIN issued)]
      /\ x.file \in Path /\ x.content \in K
      /\ disk \in [Path -> K] /\ Blank \in K
      /\ attachPath \in Path /\ attachData \in K /\ utilsPath \in Path /\ utilsData \in K
  BY RequestTypes, BlankIsKnown DEF TypesInv, MemoryTypes
<1>2. ASSUME NEW c \in K
      PROVE  fetched(c) \in Waiting(DOMAIN issued) /\ fetched(c).op = "fetched"
  BY <1>1 DEF Waiting
<1>3. ASSUME NEW p \in Path, NEW c \in K
      PROVE  write(p, c) \in Waiting(DOMAIN issued) /\ write(p, c).op = "write"
  BY <1>1 DEF Waiting
<1>4. ASSUME NEW op \in {"flushed", "failed"}
      PROVE  reached(op) \in Waiting(DOMAIN issued) /\ reached(op).op = op
  BY <1>1 DEF Waiting
<1>5. UNCHANGED <<attachPath, attachData, utilsPath, utilsData, attachVars, req, envVars>>
  BY DEF FileStep
<1>6. CASE Attach!Fetch(r) \/ Utils!Fetch(r)
  <2>1. /\ io' = [io EXCEPT ![r] = fetched(disk[x.file])] /\ x.op = "read" /\ disk' = disk
    BY <1>1, <1>6 DEF Attach!Fetch, Utils!Fetch, Attach!Waits, Utils!Waits
  <2> HIDE DEF fetched
  <2> QED
    BY <1>1, <1>2, <1>5, <2>1
<1>7. CASE Attach!FetchNothing(r) \/ Utils!FetchNothing(r)
  <2>1. /\ io' = [io EXCEPT ![r] = fetched(Blank)] /\ x.op = "read" /\ disk' = disk
    BY <1>1, <1>7 DEF Attach!FetchNothing, Utils!FetchNothing, Attach!Waits, Utils!Waits
  <2> HIDE DEF fetched
  <2> QED
    BY <1>1, <1>2, <1>5, <2>1
<1>8. CASE Attach!Write(r) \/ Utils!Write(r)
  <2>1. /\ \/ io' = [io EXCEPT ![r] = write(attachPath, attachData)]
           \/ io' = [io EXCEPT ![r] = write(utilsPath, utilsData)]
        /\ x.op = "mkdir" /\ disk' = disk
    BY <1>1, <1>8 DEF Attach!Write, Utils!Write, Attach!Waits, Utils!Waits
  <2> HIDE DEF write
  <2> QED
    BY <1>1, <1>3, <1>5, <2>1
<1>9. CASE Attach!Flush(r) \/ Utils!Flush(r)
  <2>1. /\ io' = [io EXCEPT ![r] = reached("flushed")] /\ x.op = "write"
        /\ disk' = [disk EXCEPT ![x.file] = x.content]
    BY <1>1, <1>9 DEF Attach!Flush, Utils!Flush, Attach!Waits, Utils!Waits
  <2> HIDE DEF reached
  <2>2. disk' \in [Path -> K]
    BY <1>1, <2>1
  <2> QED
    BY <1>4, <1>5, <2>1, <2>2
<1>10. CASE Attach!Fail(r) \/ Utils!Fail(r)
  <2>1. /\ io' = [io EXCEPT ![r] = reached("failed")] /\ x.op \in {"mkdir", "write"}
        /\ disk' = disk
    BY <1>1, <1>10 DEF Attach!Fail, Utils!Fail, Attach!Waits, Utils!Waits
  <2> HIDE DEF reached
  <2> QED
    BY <1>1, <1>4, <1>5, <2>1
<1> QED
  BY <1>6, <1>7, <1>8, <1>9, <1>10 DEF FileStep

LEMMA FileTypes ==
  ASSUME TypesInv, NEW r \in Request, FileStep(r)
  PROVE  TypesInv'
<1>1. PICK i \in Waiting(DOMAIN issued) :
        /\ io' = [io EXCEPT ![r] = i] /\ i.op # "none" /\ io[r].op # "none"
        /\ disk' \in [Path -> Known(DOMAIN issued)]
        /\ UNCHANGED <<attachPath, attachData, utilsPath, utilsData, attachVars, req, envVars>>
  BY FileAnswers
<1>2. /\ io' \in [Request -> Waiting(DOMAIN issued)]
      /\ \A s \in Request : Coherent(req[s], io'[s])
  BY <1>1 DEF TypesInv, Coherent
<1>3. Posting' = Posting
  BY <1>1 DEF Posting
<1> QED
  BY <1>1, <1>2, <1>3 DEF TypesInv, MemoryTypes, ClaimTypes, Room, attachVars, envVars

LEMMA ArriveTypes ==
  ASSUME TypesInv, NEW r \in Request, NEW h \in Domain, NEW route \in Route,
         NEW a \in Address, Arrive(r, h, route, a)
  PROVE  TypesInv'
<1> DEFINE goes(at) == [at |-> at, route |-> route, host |-> h,
                        from |-> FromOf(route, a), cfg |-> Blank]
<1>1. /\ req[r] = Rest /\ io[r] \in Waiting(DOMAIN issued) /\ io[r].op = "none"
      /\ Home(h) \in Path /\ h # None
  BY Paths, DomainAssumption DEF Arrive, TypesInv, Coherent, Rest
<1>2. PICK at \in {"handler", "init", "info"} :
        /\ req' = [req EXCEPT ![r] = goes(at)]
        /\ \/ at = "handler" /\ UNCHANGED <<utilsPath, io>>
           \/ at # "handler" /\ Utils!Open(r, Home(h))
  BY DEF Arrive, AskInfo
<1>3. /\ goes(at) \in Asked(DOMAIN issued) /\ goes(at).at = at /\ goes(at).route = route
      /\ goes(at).host = h /\ (route \in {"post", "dns"} => goes(at).from = a)
  BY BlankIsKnown DEF Asked, Await, FromOf
<1>4. PICK i \in Waiting(DOMAIN issued) :
        /\ io' = [io EXCEPT ![r] = i]
        /\ i.op = "none" <=> at = "handler"
        /\ utilsPath' \in Path
  <2>1. CASE at = "handler"
    BY <1>1, <1>2, <2>1 DEF TypesInv, MemoryTypes
  <2>2. CASE at # "handler"
    <3> DEFINE i == Utils!Pending("read", Home(h))
    <3>1. i \in Waiting(DOMAIN issued) /\ i.op = "read"
      BY <1>1, PendingIsWaiting DEF Utils!Pending
    <3>2. io' = [io EXCEPT ![r] = i] /\ utilsPath' = Home(h)
      BY <1>2, <2>2 DEF Utils!Open
    <3> HIDE DEF i
    <3> QED
      BY <1>1, <2>2, <3>1, <3>2
  <2> QED
    BY <2>1, <2>2
<1>5. Coherent(goes(at), i)
  BY <1>3, <1>4, <1>2 DEF Coherent
<1>6. Room'
  <2> DEFINE P == {s \in Request : req[s].route = "post"}
  <2>1. /\ IsFiniteSet(Posting) /\ IsFiniteSet(Posting') /\ IsFiniteSet(P)
        /\ IsFiniteSet(DOMAIN issued)
    BY DomainAssumption, FS_Subset DEF Posting, TypesInv, ClaimTypes
  <2>2. /\ Cardinality(Posting) \in Nat /\ Cardinality(Posting') \in Nat
        /\ Cardinality(P) \in Nat /\ Cardinality(DOMAIN issued) \in Nat
        /\ Cardinality(Token) \in Nat
    BY <2>1, DomainAssumption, FS_CardinalityType
  <2>3. issued' = issued
    BY DEF Arrive, envVars
  <2>4. CASE route = "post"
    <3>1. TokenLeft
      BY <2>4 DEF Arrive
    <3>2. Posting' \subseteq P \cup {r}
      BY <1>2 DEF Posting, TypesInv
    <3>3. IsFiniteSet(P \cup {r}) /\ Cardinality(P \cup {r}) <= Cardinality(P) + 1
      <4> HIDE DEF P
      <4>1. /\ IsFiniteSet(P \cup {r})
            /\ Cardinality(P \cup {r}) = IF r \in P THEN Cardinality(P) ELSE Cardinality(P) + 1
        BY <2>1, FS_AddElement
      <4> QED
        BY <2>2, <4>1
    <3>4. Cardinality(P \cup {r}) \in Nat /\ Cardinality(Posting') <= Cardinality(P \cup {r})
      BY <3>2, <3>3, FS_Subset, FS_CardinalityType
    <3> QED
      BY <2>2, <2>3, <3>1, <3>3, <3>4 DEF TokenLeft, Room
  <2>5. CASE route # "post"
    <3>1. Posting' \subseteq Posting
      BY <1>2, <1>3, <2>5 DEF Posting, TypesInv
    <3>2. Cardinality(Posting') <= Cardinality(Posting)
      BY <2>1, <3>1, FS_Subset
    <3> QED
      BY <2>2, <2>3, <3>2 DEF Room, TypesInv
  <2> QED
    BY <2>4, <2>5
<1>7. MemoryTypes' /\ ClaimTypes' /\ domainName' = h /\ issued' = issued
  BY <1>4 DEF Arrive, TypesInv, MemoryTypes, ClaimTypes, attachUnused, envVars
<1> HIDE DEF goes
<1> QED
  BY <1>1, <1>2, <1>3, <1>4, <1>5, <1>6, <1>7, RequestMoves

LEMMA RoomAtStart ==
  ASSUME NEW S \in SUBSET Token
  PROVE  Cardinality(S) + Cardinality({}) <= Cardinality(Token)
<1>1. /\ Cardinality({}) = 0 /\ Cardinality(S) \in Nat /\ Cardinality(S) <= Cardinality(Token)
  BY DomainAssumption, FS_EmptySet, FS_Subset, FS_CardinalityType
<1> QED
  BY <1>1

LEMMA InitTypesInv ==
  ASSUME Init
  PROVE  TypesInv
<1>1. DOMAIN issued = {} /\ ClaimTypes
  BY DEF Init, ClaimTypes
<1>2. disk \in [Path -> Known(DOMAIN issued)]
  BY BlankIsKnown, DomainAssumption DEF Init
<1>3. /\ \A r \in Request : Coherent(req[r], io[r]) /\ req[r].at = "idle"
      /\ io \in [Request -> Waiting(DOMAIN issued)] /\ req \in [Request -> Asked(DOMAIN issued)]
  BY RestIsAsked DEF Init, NoWaits, NoRequests, Rest
<1>4. MemoryTypes
  BY <1>2, Paths, BlankIsKnown DEF Init, MemoryTypes, NoCache, Nobody
<1>5. Posting = {}
  BY DEF Init, Posting, NoRequests, Rest
<1>6. Room
  BY <1>1, <1>5, RoomAtStart DEF Room, ClaimTypes
<1> QED
  BY <1>1, <1>3, <1>4, <1>6 DEF TypesInv

LEMMA RestartTypes ==
  ASSUME TypesInv, Restart
  PROVE  TypesInv'
<1>1. ClaimTypes' /\ disk' \in [Path -> Known(DOMAIN issued')] /\ issued' = issued
  BY DEF Restart, TypesInv, ClaimTypes, MemoryTypes, envVars
<1>2. /\ \A r \in Request : Coherent(req'[r], io'[r]) /\ req'[r].at = "idle"
      /\ io' \in [Request -> Waiting(DOMAIN issued')] /\ req' \in [Request -> Asked(DOMAIN issued')]
  BY RestIsAsked DEF Restart, NoWaits, NoRequests, Rest
<1>3. MemoryTypes'
  BY <1>1, Paths, BlankIsKnown DEF Restart, MemoryTypes, NoCache, Nobody
<1>4. Posting' = {}
  BY DEF Restart, Posting, NoRequests, Rest
<1>5. Room'
  BY <1>1, <1>4, RoomAtStart DEF Room, TypesInv, ClaimTypes
<1> QED
  BY <1>1, <1>2, <1>3, <1>5 DEF TypesInv

LEMMA PublishTypes ==
  ASSUME TypesInv, NEW d \in Domain, NEW t \in Token, Publish(d, t)
  PROVE  TypesInv'
<1>1. UNCHANGED <<configVars, attachVars, req, issued, told>> /\ ClaimTypes'
  BY DEF Publish, TypesInv, ClaimTypes
<1> QED
  BY <1>1 DEF TypesInv, MemoryTypes, Room, Posting, configVars, attachVars

LEMMA StutterTypes ==
  ASSUME TypesInv, UNCHANGED vars
  PROVE  TypesInv'
BY DEF vars, configVars, attachVars, envVars, TypesInv, MemoryTypes, ClaimTypes, Room, Posting

LEMMA TypesStep ==
  ASSUME TypesInv, [Next]_vars
  PROVE  TypesInv'
<1>1. ASSUME NEW r \in Request, Step(r)
      PROVE  TypesInv'
  BY <1>1, InitTypes, InfoTypes, StartHandlerTypes, ReplyTypes, PostChallengeTypes, DnsTypes,
     InitializeTypes, SaveDoneTypes, FileTypes DEF Step
<1> QED
  BY <1>1, ArriveTypes, PublishTypes, RestartTypes, StutterTypes DEF Next

LEMMA TypesAlways == Spec => []TypesInv
<1>1. Init => TypesInv
  BY InitTypesInv
<1>2. TypesInv /\ [Next]_vars => TypesInv'
  BY TypesStep
<1> QED
  BY <1>1, <1>2, PTL DEF Spec

\* Files, both Config objects and every request in flight keep their types, a
\* request waits for a file exactly when it is at such an await, and a token
\* that is told was made, however many requests overlap and whatever fails.
THEOREM DomainTypesCorrect == Spec => []TypeOK
<1>1. TypesInv => TypeOK
  <2> SUFFICES ASSUME TypesInv
               PROVE  TypeOK
    OBVIOUS
  <2>1. Known(DOMAIN issued) \subseteq Data
    BY DEF Known
  <2>2. req \in [Request -> [at : Await, route : Route \cup {"none"}, host : Domain \cup {None},
                             from : Address \cup {None}, cfg : Data]]
    BY <2>1 DEF TypesInv, Asked
  <2>3. ASSUME NEW r \in Request
        PROVE  /\ io[r].op \in {"none", "read", "fetched", "mkdir", "write", "flushed", "failed"}
               /\ io[r].file \in Path /\ io[r].content \in Data
               /\ io[r].op = "none" <=> req[r].at \in {"idle", "handler", "dns"}
    BY <2>1 DEF TypesInv, Waiting, Coherent
  <2> QED
    BY <2>1, <2>2, <2>3 DEF TypesInv, MemoryTypes, ClaimTypes, TypeOK
<1> QED
  BY <1>1, TypesAlways, PTL

-----------------------------------------------------------------------------
(***************************************************************************)
(* Requests that overlap, any number of them and with any faults: they may *)
(* mix the data of two domains, or write over each other's, but every      *)
(* piece of data there is was made from a challenge and a record.          *)
(***************************************************************************)

\* Whom a challenge was made for.
Challenged(made) == {made[t].to : t \in DOMAIN made}

\* Somebody has published a challenge.
Recorded(records) == \E e \in Domain : records[e] # {}

\* Data as a claim leaves it, with these challenges made and these records.
Earned(made, records) ==
  {x \in Data :
    /\ IF x.token = None THEN x.challenger = None
       ELSE x.token \in DOMAIN made /\ made[x.token].to = x.challenger
    /\ x.verified => x.admin \in Challenged(made) /\ Recorded(records)}

\* All the copies there are: in files, in the shared objects, and of the
\* requests; who has a lookup made was challenged.
EarnedInv ==
  /\ \A p \in Path : disk[p] \in Earned(issued, zone)
  /\ attachData \in Earned(issued, zone) /\ utilsData \in Earned(issued, zone)
  /\ \A r \in Request :
       /\ req[r].cfg \in Earned(issued, zone) /\ io[r].content \in Earned(issued, zone)
       /\ req[r].at = "dns" => req[r].from \in Challenged(issued)

LEMMA BlankIsEarned ==
  ASSUME NEW made, NEW records
  PROVE  /\ Blank \in Earned(made, records)
         /\ \A p \in BOOLEAN : [Blank EXCEPT !.provider = p] \in Earned(made, records)
         /\ [Blank EXCEPT !.domain = TRUE] \in Earned(made, records)
BY DEF Blank, Earned, Data

\* A claim is completed for somebody who was challenged, once there is a record.
LEMMA EarnedCompletion ==
  ASSUME NEW made, NEW records, NEW x \in Earned(made, records),
         NEW a \in Address \cap Challenged(made), Recorded(records)
  PROVE  Completed(x, a) \in Earned(made, records)
BY DEF Earned, Data, Completed

\* More challenges and records make nothing that was earned less so.
LEMMA EarnedGrows ==
  ASSUME NEW made, NEW more, NEW records, NEW others,
         DOMAIN made \subseteq DOMAIN more, \A t \in DOMAIN made : more[t] = made[t],
         \A e \in Domain : records[e] \subseteq others[e]
  PROVE  /\ Challenged(made) \subseteq Challenged(more)
         /\ Earned(made, records) \subseteq Earned(more, others)
<1>1. Challenged(made) \subseteq Challenged(more)
  BY DEF Challenged
<1>2. Recorded(records) => Recorded(others)
  BY DEF Recorded
<1> QED
  BY <1>1, <1>2 DEF Earned

\* A step of one request, with no challenge made.
LEMMA EarnedFrame ==
  ASSUME EarnedInv, NEW r \in Request, UNCHANGED <<issued, zone>>,
         \A s \in Request \ {r} : req'[s] = req[s] /\ io'[s] = io[s],
         req'[r].cfg \in Earned(issued, zone), io'[r].content \in Earned(issued, zone),
         req'[r].at = "dns" => req'[r].from \in Challenged(issued),
         attachData' \in Earned(issued, zone), utilsData' \in Earned(issued, zone),
         \A p \in Path : disk'[p] \in Earned(issued, zone)
  PROVE  EarnedInv'
<1>1. ASSUME NEW s \in Request
      PROVE  /\ req'[s].cfg \in Earned(issued, zone) /\ io'[s].content \in Earned(issued, zone)
             /\ req'[s].at = "dns" => req'[s].from \in Challenged(issued)
  BY DEF EarnedInv
<1> QED
  BY <1>1 DEF EarnedInv

LEMMA EarnedParts ==
  ASSUME TypesInv, EarnedInv, NEW r \in Request
  PROVE  /\ req[r].cfg \in Earned(issued, zone) /\ io[r].content \in Earned(issued, zone)
         /\ attachData \in Earned(issued, zone) /\ utilsData \in Earned(issued, zone)
         /\ \A p \in Path : disk[p] \in Earned(issued, zone)
         /\ io \in [Request -> Waiting(DOMAIN issued)]
         /\ req \in [Request -> Asked(DOMAIN issued)]
BY DEF EarnedInv, TypesInv

\* What is waited for has no content yet.
LEMMA PendingIsEarned ==
  ASSUME NEW made, NEW records, NEW op, NEW p
  PROVE  /\ Attach!Pending(op, p).content \in Earned(made, records)
         /\ Utils!Pending(op, p).content \in Earned(made, records)
         /\ Attach!NoIO.content \in Earned(made, records)
         /\ Utils!NoIO.content \in Earned(made, records)
         /\ Rest.cfg \in Earned(made, records)
BY BlankIsEarned DEF Attach!Pending, Utils!Pending, Attach!NoIO, Utils!NoIO, Rest

LEMMA UseWalletEarned ==
  ASSUME TypesInv, EarnedInv, NEW r \in Request,
         NEW dc \in Earned(issued, zone), NEW loaded \in Earned(issued, zone),
         UseWallet(r, dc, loaded), attachUnused, UNCHANGED <<disk, envVars>>
  PROVE  EarnedInv'
<1> DEFINE new == [dc EXCEPT !.wallet = NewWallet]
           E == Earned(issued, zone)
<1>1. new \in E
  BY NewWalletType DEF Earned, Data
<1>2. UNCHANGED <<disk, attachData, issued, zone>>
  BY DEF attachUnused, envVars
<1>3. CASE /\ utilsData' = new
           /\ req' = [req EXCEPT ![r].at = "initSave", ![r].cfg = new]
           /\ Utils!Save(r)
  <2>1. /\ req'[r].cfg = new /\ req'[r].at = "initSave"
        /\ io'[r] = Utils!Pending("mkdir", Root)
        /\ \A s \in Request \ {r} : req'[s] = req[s] /\ io'[s] = io[s]
    BY <1>3, EarnedParts DEF Utils!Save, Asked
  <2> HIDE DEF new
  <2> QED
    BY <1>1, <1>2, <1>3, <2>1, PendingIsEarned, EarnedParts, EarnedFrame
<1>4. CASE /\ utilsData' = loaded
           /\ req' = [req EXCEPT ![r].at = "info", ![r].cfg = Blank]
           /\ AskInfo(r, req[r].host)
  <2>1. /\ req'[r].cfg = Blank /\ req'[r].at = "info"
        /\ io'[r] = Utils!Pending("read", Home(req[r].host))
        /\ \A s \in Request \ {r} : req'[s] = req[s] /\ io'[s] = io[s]
    BY <1>4, EarnedParts DEF AskInfo, Utils!Open, Asked
  <2> QED
    BY <1>2, <1>4, <2>1, BlankIsEarned, PendingIsEarned, EarnedParts, EarnedFrame
<1> QED
  BY <1>3, <1>4 DEF UseWallet

LEMMA InitEarned ==
  ASSUME TypesInv, EarnedInv, NEW r \in Request,
         InitLoaded(r) \/ InitRootLoaded(r) \/ InitBackLoaded(r) \/ InitSaved(r)
  PROVE  EarnedInv'
<1> DEFINE E == Earned(issued, zone)
           dc == IF io[r].content.domain THEN io[r].content ELSE [Blank EXCEPT !.domain = TRUE]
<1>1. /\ req[r].cfg \in E /\ io[r].content \in E /\ dc \in E
      /\ attachData \in E /\ utilsData \in E /\ \A p \in Path : disk[p] \in E
  BY EarnedParts, BlankIsEarned
<1>2. UNCHANGED <<disk, attachData, issued, zone, envVars>> /\ attachUnused
  BY DEF InitLoaded, InitRootLoaded, InitBackLoaded, InitSaved, attachUnused, envVars
<1>3. CASE InitLoaded(r) /\ UseWallet(r, dc, io[r].content)
  BY <1>1, <1>2, <1>3, UseWalletEarned
<1>4. CASE /\ utilsData' = io[r].content /\ Utils!Open(r, Root)
           /\ req' = [req EXCEPT ![r].at = "initRoot", ![r].cfg = dc]
  <2>1. /\ req'[r].cfg = dc /\ req'[r].at = "initRoot"
        /\ io'[r] = Utils!Pending("read", Root)
        /\ \A s \in Request \ {r} : req'[s] = req[s] /\ io'[s] = io[s]
    BY <1>4, EarnedParts DEF Utils!Open, Asked
  <2>2. utilsData' \in E /\ req'[r].cfg \in E
    BY <1>1, <1>4, <2>1
  <2> HIDE DEF dc
  <2> QED
    BY <1>1, <1>2, <2>1, <2>2, PendingIsEarned, EarnedFrame
<1>5. CASE InitRootLoaded(r)
  <2> DEFINE new == [req[r].cfg EXCEPT !.provider = io[r].content.provider]
  <2>1. new \in E
    BY <1>1 DEF Earned, Data
  <2>2. /\ req'[r].cfg = new /\ req'[r].at = "initBack" /\ utilsData' = io[r].content
        /\ io'[r] = Utils!Pending("read", Home(req[r].host))
        /\ \A s \in Request \ {r} : req'[s] = req[s] /\ io'[s] = io[s]
    BY <1>5, EarnedParts DEF InitRootLoaded, Utils!Open, Asked
  <2> HIDE DEF new
  <2> QED
    BY <1>1, <1>2, <2>1, <2>2, PendingIsEarned, EarnedFrame
<1>6. CASE InitBackLoaded(r)
  BY <1>1, <1>2, <1>6, UseWalletEarned DEF InitBackLoaded
<1>7. CASE InitSaved(r)
  <2>1. /\ req'[r].cfg = Blank /\ req'[r].at = "info" /\ utilsData' = utilsData
        /\ io'[r] = Utils!Pending("read", Home(req[r].host))
        /\ \A s \in Request \ {r} : req'[s] = req[s] /\ io'[s] = io[s]
    BY <1>7, EarnedParts DEF InitSaved, AskInfo, Utils!Open, Asked
  <2> QED
    BY <1>1, <1>2, <2>1, BlankIsEarned, PendingIsEarned, EarnedFrame
<1> QED
  BY <1>3, <1>4, <1>5, <1>6, <1>7 DEF InitLoaded

LEMMA InfoEarned ==
  ASSUME TypesInv, EarnedInv, NEW r \in Request, InfoLoaded(r) \/ InfoRootLoaded(r)
  PROVE  EarnedInv'
<1> DEFINE E == Earned(issued, zone)
<1>1. /\ req[r].cfg \in E /\ io[r].content \in E
      /\ attachData \in E /\ utilsData \in E /\ \A p \in Path : disk[p] \in E
  BY EarnedParts
<1>2. UNCHANGED <<disk, attachData, issued, zone>>
  BY DEF InfoLoaded, InfoRootLoaded, attachUnused, envVars
<1>3. CASE InfoLoaded(r)
  <2>1. /\ req'[r].cfg \in {req[r].cfg, io[r].content} /\ req'[r].at # "dns"
        /\ utilsData' = io[r].content
        /\ io'[r] \in {Utils!Pending("read", Root), Utils!NoIO}
        /\ \A s \in Request \ {r} : req'[s] = req[s] /\ io'[s] = io[s]
    BY <1>3, EarnedParts DEF InfoLoaded, Goto, Utils!Peek, Utils!Close, Asked
  <2> QED
    BY <1>1, <1>2, <2>1, PendingIsEarned, EarnedFrame
<1>4. CASE InfoRootLoaded(r)
  <2>1. /\ req'[r].cfg = Blank /\ req'[r].at = "handler" /\ io'[r] = Utils!NoIO
        /\ \A s \in Request \ {r} : req'[s] = req[s] /\ io'[s] = io[s]
    BY <1>4, EarnedParts DEF InfoRootLoaded, Utils!Close, Asked
  <2>2. utilsData' \in E
    <3>1. io[r].content.provider \in BOOLEAN
      BY <1>1 DEF Earned, Data
    <3>2. [utilsData EXCEPT !.provider = io[r].content.provider] \in E
      BY <1>1, <3>1 DEF Earned, Data
    <3> QED
      BY <1>1, <1>4, <3>2 DEF InfoRootLoaded
  <2> QED
    BY <1>1, <1>2, <2>1, <2>2, BlankIsEarned, PendingIsEarned, EarnedFrame
<1> QED
  BY <1>3, <1>4

\* The handlers up to the file, and those that only read it.
LEMMA ReadersEarned ==
  ASSUME TypesInv, EarnedInv, NEW r \in Request,
         StartHandler(r) \/ QueryLoaded(r) \/ PostRepeated(r)
  PROVE  EarnedInv'
<1> DEFINE E == Earned(issued, zone)
<1>1. /\ req[r].cfg \in E /\ io[r].content \in E
      /\ attachData \in E /\ utilsData \in E /\ \A p \in Path : disk[p] \in E
  BY EarnedParts
<1>2. UNCHANGED <<disk, utilsData, issued, zone>>
  BY DEF StartHandler, QueryLoaded, PostRepeated, utilsUnused, envVars
<1>3. CASE StartHandler(r)
  <2>1. req'[r].cfg = req[r].cfg /\ req'[r].at = "loading" /\ attachData' = attachData
        /\ \A s \in Request \ {r} : req'[s] = req[s]
    BY <1>3, EarnedParts DEF StartHandler, Goto, Asked
  <2>2. \E p \in Path : io'[r] \in {Utils!Pending("read", p), Attach!Pending("read", p)}
        /\ \A s \in Request \ {r} : io'[s] = io[s]
    BY <1>3, EarnedParts, RequestTypes, Paths
       DEF StartHandler, Utils!Open, Attach!Open, TypesInv, MemoryTypes
  <2> QED
    BY <1>1, <1>2, <2>1, <2>2, PendingIsEarned, EarnedFrame
<1>4. CASE QueryLoaded(r) \/ PostRepeated(r)
  <2>1. /\ req'[r] = Rest /\ io'[r] = Attach!NoIO /\ attachData' = io[r].content
        /\ \A s \in Request \ {r} : req'[s] = req[s] /\ io'[s] = io[s]
    BY <1>4, EarnedParts DEF QueryLoaded, PostRepeated, Reply, Finish, Attach!Close
  <2>2. Rest.at = "idle"
    BY DEF Rest
  <2> QED
    BY <1>1, <1>2, <2>1, <2>2, PendingIsEarned, EarnedFrame
<1> QED
  BY <1>3, <1>4

\* A challenge is made: with its address, in the same piece of data.
LEMMA PostChallengeEarned ==
  ASSUME TypesInv, EarnedInv, NEW r \in Request, PostChallenge(r)
  PROVE  EarnedInv'
<1>1. PICK t \in Token \ DOMAIN issued : t = CHOOSE x \in Token : x \notin DOMAIN issued
  BY PostChallengeTypes
<1> DEFINE new == [io[r].content EXCEPT !.pending = TRUE, !.token = t,
                     !.challenger = req[r].from, !.provider = TRUE]
           made == [x \in DOMAIN issued \cup {t} |->
                      IF x = t THEN [domain |-> req[r].host, to |-> req[r].from]
                               ELSE issued[x]]
           E == Earned(made, zone)
<1>2. /\ attachData' = new /\ issued' = made
      /\ req' = [req EXCEPT ![r].at = "saving", ![r].cfg = new]
      /\ Attach!Save(r) /\ UNCHANGED <<disk, utilsData, zone>>
  BY <1>1, Zenon DEF PostChallenge, utilsUnused
<1>3. /\ Challenged(issued) \subseteq Challenged(made)
      /\ Earned(issued, zone) \subseteq E
  <2>1. DOMAIN issued \subseteq DOMAIN made /\ \A x \in DOMAIN issued : made[x] = issued[x]
    BY <1>1
  <2> HIDE DEF made
  <2> QED
    BY <2>1, EarnedGrows
<1>4. new \in E
  <2>1. io[r].content \in E /\ req[r].from \in Address /\ t \in Token /\ t # None
    BY <1>1, <1>3, EarnedParts, RequestTypes, DomainAssumption
       DEF PostChallenge, Loaded, Coherent
  <2>2. t \in DOMAIN made /\ made[t].to = req[r].from
    OBVIOUS
  <2> HIDE DEF made
  <2> QED
    BY <2>1, <2>2 DEF Earned, Data
<1>5. /\ req'[r].cfg = new /\ req'[r].at = "saving"
      /\ io'[r] = Attach!Pending("mkdir", Root)
      /\ \A s \in Request \ {r} : req'[s] = req[s] /\ io'[s] = io[s]
  <2> HIDE DEF new
  <2> QED
    BY <1>2, EarnedParts DEF Attach!Save, Asked
<1> HIDE DEF new, made
<1>6. ASSUME NEW s \in Request
      PROVE  /\ req'[s].cfg \in E /\ io'[s].content \in E
             /\ req'[s].at = "dns" => req'[s].from \in Challenged(made)
  <2>1. CASE s = r
    BY <1>4, <1>5, <2>1, PendingIsEarned
  <2>2. CASE s # r
    BY <1>3, <1>5, <2>2 DEF EarnedInv
  <2> QED
    BY <2>1, <2>2
<1>7. attachData' \in E /\ utilsData' \in E /\ \A p \in Path : disk'[p] \in E
  BY <1>2, <1>3, <1>4 DEF EarnedInv
<1> QED
  BY <1>2, <1>6, <1>7 DEF EarnedInv

\* A lookup is made for who was challenged, and completes a claim with a record.
LEMMA DnsEarned ==
  ASSUME TypesInv, EarnedInv, NEW r \in Request, DnsLoaded(r) \/ DnsAnswered(r)
  PROVE  EarnedInv'
<1> DEFINE E == Earned(issued, zone)
<1>1. /\ req[r].cfg \in E /\ io[r].content \in E
      /\ attachData \in E /\ utilsData \in E /\ \A p \in Path : disk[p] \in E
      /\ io \in [Request -> Waiting(DOMAIN issued)]
      /\ req \in [Request -> Asked(DOMAIN issued)]
  BY EarnedParts
<1>2. UNCHANGED <<disk, utilsData, issued, zone>> /\ Rest.at = "idle"
  BY DEF DnsLoaded, DnsAnswered, utilsUnused, envVars, Rest
<1>3. CASE DnsLoaded(r) /\ Finish(r)
  <2>1. /\ req'[r] = Rest /\ io'[r] = Attach!NoIO /\ attachData' = io[r].content
        /\ \A s \in Request \ {r} : req'[s] = req[s] /\ io'[s] = io[s]
    BY <1>1, <1>3 DEF DnsLoaded, Finish, Attach!Close
  <2> QED
    BY <1>1, <1>2, <2>1, PendingIsEarned, EarnedFrame
<1>4. CASE DnsLoaded(r) /\ io[r].content.challenger = req[r].from /\ Goto(r, "dns")
  <2>1. /\ req'[r].cfg = req[r].cfg /\ req'[r].from = req[r].from /\ io'[r] = Attach!NoIO
        /\ attachData' = io[r].content
        /\ \A s \in Request \ {r} : req'[s] = req[s] /\ io'[s] = io[s]
    BY <1>1, <1>4 DEF DnsLoaded, Goto, Attach!Close, Asked
  <2>2. req[r].from # None
    BY <1>4, RequestTypes, DomainAssumption DEF DnsLoaded, Loaded, Coherent
  <2>3. req[r].from \in Challenged(issued)
    BY <1>1, <1>4, <2>2 DEF Earned, Challenged
  <2> QED
    BY <1>1, <1>2, <2>1, <2>3, PendingIsEarned, EarnedFrame
<1>5. CASE DnsAnswered(r) /\ Finish(r) /\ attachUnused /\ UNCHANGED io
  <2>1. /\ req'[r] = Rest /\ io'[r] = io[r] /\ attachData' = attachData
        /\ \A s \in Request \ {r} : req'[s] = req[s] /\ io'[s] = io[s]
    BY <1>1, <1>5 DEF Finish, attachUnused
  <2> QED
    BY <1>1, <1>2, <2>1, PendingIsEarned, EarnedFrame
<1>6. CASE /\ DnsAnswered(r) /\ attachData.token \in zone[req[r].host]
           /\ attachData' = Completed(attachData, req[r].from)
           /\ Goto(r, "saving") /\ Attach!Save(r)
  <2>1. /\ req'[r].cfg = req[r].cfg /\ req'[r].at = "saving"
        /\ io'[r] = Attach!Pending("mkdir", Root)
        /\ \A s \in Request \ {r} : req'[s] = req[s] /\ io'[s] = io[s]
    BY <1>1, <1>6 DEF Goto, Attach!Save, Asked
  <2>2. req[r].at = "dns" /\ Recorded(zone)
    BY <1>6, RequestTypes DEF DnsAnswered, Recorded
  <2>3. req[r].from \in Address \cap Challenged(issued)
    <3>1. req[r].from \in Challenged(issued)
      BY <2>2 DEF EarnedInv
    <3>2. Challenged(issued) \subseteq Address
      BY DEF Challenged, TypesInv, ClaimTypes
    <3> QED
      BY <3>1, <3>2
  <2>4. attachData' \in E
    BY <1>1, <1>6, <2>2, <2>3, EarnedCompletion
  <2> QED
    BY <1>1, <1>2, <2>1, <2>4, PendingIsEarned, EarnedFrame
<1> QED
  BY <1>3, <1>4, <1>5, <1>6 DEF DnsLoaded, DnsAnswered

LEMMA SavesEarned ==
  ASSUME TypesInv, EarnedInv, NEW r \in Request, InitializeLoaded(r) \/ SaveDone(r)
  PROVE  EarnedInv'
<1> DEFINE E == Earned(issued, zone)
<1>1. /\ req[r].cfg \in E /\ io[r].content \in E
      /\ attachData \in E /\ utilsData \in E /\ \A p \in Path : disk[p] \in E
      /\ io \in [Request -> Waiting(DOMAIN issued)]
      /\ req \in [Request -> Asked(DOMAIN issued)]
  BY EarnedParts
<1>2. UNCHANGED <<disk, attachData, issued, zone>>
  BY DEF InitializeLoaded, SaveDone, attachUnused, envVars
<1>3. CASE InitializeLoaded(r)
  <2>1. /\ req'[r].cfg = req[r].cfg /\ req'[r].at = "saving"
        /\ io'[r] = Utils!Pending("mkdir", Root)
        /\ \A s \in Request \ {r} : req'[s] = req[s] /\ io'[s] = io[s]
    BY <1>1, <1>3 DEF InitializeLoaded, Goto, Utils!Save, Asked
  <2>2. utilsData' \in E
    BY <1>1, <1>3 DEF InitializeLoaded, Earned, Data
  <2> QED
    BY <1>1, <1>2, <2>1, <2>2, PendingIsEarned, EarnedFrame
<1>4. CASE SaveDone(r)
  <2>1. /\ req'[r] = Rest /\ io'[r] \in {Attach!NoIO, Utils!NoIO} /\ utilsData' = utilsData
        /\ \A s \in Request \ {r} : req'[s] = req[s] /\ io'[s] = io[s]
    BY <1>1, <1>4 DEF SaveDone, Finish, Attach!Close, Utils!Close
  <2>2. Rest.at = "idle"
    BY DEF Rest
  <2> QED
    BY <1>1, <1>2, <2>1, <2>2, PendingIsEarned, EarnedFrame
<1> QED
  BY <1>3, <1>4

\* Reading and writing copy data from one place to another.
LEMMA FileEarned ==
  ASSUME TypesInv, EarnedInv, NEW r \in Request, FileStep(r)
  PROVE  EarnedInv'
<1> DEFINE E == Earned(issued, zone)
<1>1. /\ req[r].cfg \in E /\ io[r].content \in E
      /\ attachData \in E /\ utilsData \in E /\ \A p \in Path : disk[p] \in E
      /\ io \in [Request -> Waiting(DOMAIN issued)] /\ disk \in [Path -> Known(DOMAIN issued)]
      /\ io[r].file \in Path
  BY EarnedParts, RequestTypes DEF TypesInv, MemoryTypes
<1>2. UNCHANGED <<attachData, utilsData, req, issued, zone>>
  BY DEF FileStep, envVars
<1>3. \A s \in Request \ {r} : io'[s] = io[s]
  BY <1>1 DEF FileStep, Attach!Fetch, Attach!FetchNothing, Attach!Write, Attach!Flush,
              Attach!Fail, Utils!Fetch, Utils!FetchNothing, Utils!Write, Utils!Flush, Utils!Fail
<1>4. io'[r].content \in {io[r].content, disk[io[r].file], Blank, attachData, utilsData}
  <2>1. CASE Attach!Fetch(r) \/ Utils!Fetch(r)
    BY <1>1, <2>1 DEF Attach!Fetch, Utils!Fetch, Waiting
  <2>2. CASE Attach!FetchNothing(r) \/ Utils!FetchNothing(r)
    BY <1>1, <2>2 DEF Attach!FetchNothing, Utils!FetchNothing, Waiting
  <2>3. CASE Attach!Write(r) \/ Utils!Write(r)
    BY <1>1, <2>3 DEF Attach!Write, Utils!Write, Waiting
  <2>4. CASE Attach!Flush(r) \/ Utils!Flush(r) \/ Attach!Fail(r) \/ Utils!Fail(r)
    BY <1>1, <2>4 DEF Attach!Flush, Utils!Flush, Attach!Fail, Utils!Fail, Waiting
  <2> QED
    BY <2>1, <2>2, <2>3, <2>4 DEF FileStep
<1>5. \A p \in Path : disk'[p] \in {disk[p], io[r].content}
  BY <1>1 DEF FileStep, Attach!Fetch, Attach!FetchNothing, Attach!Write, Attach!Flush,
              Attach!Fail, Utils!Fetch, Utils!FetchNothing, Utils!Write, Utils!Flush, Utils!Fail
<1>6. req'[r].at = "dns" => req'[r].from \in Challenged(issued)
  BY <1>2 DEF EarnedInv
<1> QED
  BY <1>1, <1>2, <1>3, <1>4, <1>5, <1>6, BlankIsEarned, EarnedFrame

LEMMA ArriveEarned ==
  ASSUME TypesInv, EarnedInv, NEW r \in Request, NEW h \in Domain, NEW route \in Route,
         NEW a \in Address, Arrive(r, h, route, a)
  PROVE  EarnedInv'
<1>1. /\ UNCHANGED <<disk, attachData, utilsData, issued, zone>>
      /\ req'[r].cfg = Blank /\ req'[r].at # "dns"
      /\ \A s \in Request \ {r} : req'[s] = req[s]
  BY EarnedParts DEF Arrive, attachUnused, envVars
<1>2. /\ io'[r] \in {io[r], Utils!Pending("read", Home(h))}
      /\ \A s \in Request \ {r} : io'[s] = io[s]
  BY EarnedParts DEF Arrive, AskInfo, Utils!Open
<1> QED
  BY <1>1, <1>2, BlankIsEarned, PendingIsEarned, EarnedParts, EarnedFrame

LEMMA PublishEarned ==
  ASSUME TypesInv, EarnedInv, NEW d \in Domain, NEW t \in Token, Publish(d, t)
  PROVE  EarnedInv'
<1>1. UNCHANGED <<disk, attachData, utilsData, io, req, issued>>
  BY DEF Publish, configVars
<1>2. \A e \in Domain : zone[e] \subseteq zone'[e]
  BY DEF Publish, TypesInv, ClaimTypes
<1>3. Earned(issued, zone) \subseteq Earned(issued, zone')
  BY <1>2, EarnedGrows
<1> QED
  BY <1>1, <1>3 DEF EarnedInv

\* A process that starts has the files, and nothing else.
LEMMA StartEarned ==
  /\ Init => EarnedInv
  /\ EarnedInv /\ Restart => EarnedInv'
<1>1. ASSUME Init
      PROVE  EarnedInv
  BY <1>1, BlankIsEarned, PendingIsEarned, DomainAssumption
     DEF Init, EarnedInv, NoWaits, NoRequests, Rest
<1>2. ASSUME EarnedInv, Restart
      PROVE  EarnedInv'
  BY <1>2, BlankIsEarned, PendingIsEarned
     DEF Restart, EarnedInv, NoWaits, NoRequests, Rest, envVars
<1> QED
  BY <1>1, <1>2

LEMMA EarnedStep ==
  ASSUME TypesInv, EarnedInv, [Next]_vars
  PROVE  EarnedInv'
<1>1. ASSUME NEW r \in Request, Step(r)
      PROVE  EarnedInv'
  BY <1>1, InitEarned, InfoEarned, ReadersEarned, PostChallengeEarned, DnsEarned, SavesEarned,
     FileEarned DEF Step
<1>2. CASE UNCHANGED vars
  BY <1>2 DEF vars, configVars, envVars, EarnedInv
<1> QED
  BY <1>1, <1>2, ArriveEarned, PublishEarned, StartEarned DEF Next

\* A challenge stays with its address, and nobody administers a domain without
\* having been challenged or before any record was published, however many
\* requests overlap, whatever fails and wherever the process stops.
THEOREM ClaimsAlwaysEarned == Spec => []ClaimsAreEarned
<1>1. Init => EarnedInv
  BY StartEarned
<1>2. TypesInv /\ EarnedInv /\ [Next]_vars => EarnedInv'
  BY EarnedStep
<1>3. EarnedInv => ClaimsAreEarned
  BY DEF EarnedInv, Earned, Challenged, Recorded, ClaimsAreEarned
<1> QED
  BY <1>1, <1>2, <1>3, TypesAlways, PTL DEF Spec

-----------------------------------------------------------------------------
(***************************************************************************)
(* One request at a time.                                                  *)
(*                                                                         *)
(* A server that answers one request before it takes the next keeps the    *)
(* claims of its domains apart, and reports what is in their files, even   *)
(* if any read and any save may fail, and wherever the process stops.  The *)
(* wallets it signs with are those in the files as long as the handlers    *)
(* can read them: one that cannot writes a claim without the wallet.       *)
(***************************************************************************)

OneAtATime == \A r, s \in Request : r = s

HandlersRead == "loading" \notin ReadFaults

\* The claim in the data x is one of domain d: its administrator has proved
\* the domain, and its challenge was made for it and for who asked.
Proved(x, d, z, made) ==
  /\ x.verified => \E t \in z[d] \cap DOMAIN made : made[t] = [domain |-> d, to |-> x.admin]
  /\ x.token # None =>
       x.token \in DOMAIN made /\ made[x.token] = [domain |-> d, to |-> x.challenger]

\* What its reply says of the data y.
Reported(y, route, from, cfg) ==
  \/ route = "dns" /\ y.verified /\ y.admin = from
  \/ route = "post" /\ HasChallenge(y) /\ y.token = cfg.token
  \/ route = "initialize" /\ y.domain /\ y.pending

\* The Config object that a route uses.
StoreOf(route)  == IF route = "initialize" THEN "utils" ELSE "attach"
PathOf(route)   == IF route = "initialize" THEN utilsPath ELSE attachPath
MemoryOf(route) == IF route = "initialize" THEN utilsData ELSE attachData

\* The claim a request carries while a wallet is looked for, made and saved.
WalletFlight(q, i) ==
  LET home == Home(q.host)
  IN  /\ q.at \in {"init", "initRoot", "initBack", "info", "infoRoot"} => i.op \in {"read", "fetched"}
      /\ q.at \in {"init", "initRoot", "initBack", "initSave"} => cache[q.host] = None
      /\ q.at \in {"init", "initBack", "initSave"} => utilsPath = home
      /\ q.at = "init" =>
           /\ i.file = home
           /\ i.op = "fetched" => Proved(i.content, q.host, zone, issued)
           /\ i.op = "fetched" /\ i.content.wallet # None => i.content.wallet = disk[home].wallet
      /\ q.at \in {"initRoot", "initBack", "initSave"} => Proved(q.cfg, q.host, zone, issued)
      /\ q.at \in {"initRoot", "initBack"} /\ q.cfg.wallet # None =>
           q.cfg.wallet = disk[home].wallet
      /\ q.at = "initSave" =>
           /\ i.store = "utils" /\ i.op \in {"mkdir", "write", "flushed", "failed"}
           /\ utilsData = q.cfg
           /\ i.op = "write" => i.file = home /\ i.content = q.cfg
           /\ i.op = "flushed" => disk[home] = q.cfg

\* The claim a request carries while its route handles it.
RouteFlight(q, i) ==
  LET home == Home(q.host)
  IN  /\ q.at = "loading" => i.op \in {"read", "fetched"}
      /\ q.at = "loading" /\ q.route # "fido" =>
           /\ i.store = StoreOf(q.route) /\ i.file = home /\ PathOf(q.route) = home
           /\ i.op = "fetched" => Proved(i.content, q.host, zone, issued)
           /\ i.op = "fetched" /\ HandlersRead => i.content.wallet = disk[home].wallet
      /\ q.at = "dns" =>
           /\ q.route = "dns" /\ attachPath = home
           /\ Proved(attachData, q.host, zone, issued) /\ attachData.challenger = q.from
           /\ HandlersRead => attachData.wallet = disk[home].wallet
      /\ q.at = "saving" =>
           /\ i.store = StoreOf(q.route) /\ i.op \in {"mkdir", "write", "flushed", "failed"}
           /\ PathOf(q.route) = home
           /\ Reported(MemoryOf(q.route), q.route, q.from, q.cfg)
           /\ Proved(MemoryOf(q.route), q.host, zone, issued)
           /\ HandlersRead => MemoryOf(q.route).wallet = disk[home].wallet
           /\ i.op = "write" => i.file = home /\ i.content = MemoryOf(q.route)
           /\ i.op = "flushed" => disk[home] = MemoryOf(q.route)

CacheIsDisk == \A d \in Domain : cache[d] # None => disk[Home(d)].wallet = cache[d]

\* Every domain's file has a claim of that domain, and so has whatever may
\* become that file.
ClaimInv ==
  /\ \A d \in Domain : Proved(disk[Home(d)], d, zone, issued)
  /\ HandlersRead => CacheIsDisk
  /\ \A r \in Request : WalletFlight(req[r], io[r]) /\ RouteFlight(req[r], io[r])

LEMMA PathsDiffer ==
  /\ \A d, e \in Domain : Home(d) = Home(e) => d = e
  /\ \A d, e \in Domain : Home(d) # Fido(e) /\ Home(d) # Root
BY DEF Home, Fido, Root

\* The only request is there: what it looks at.
LEMMA TheRequest ==
  ASSUME OneAtATime, TypesInv, ClaimInv, NEW r \in Request
  PROVE  /\ \A s \in Request : s = r
         /\ req[r] \in Asked(DOMAIN issued) /\ io[r] \in Waiting(DOMAIN issued)
         /\ req[r].cfg \in Known(DOMAIN issued) /\ io[r].content \in Known(DOMAIN issued)
         /\ Coherent(req[r], io[r])
         /\ req \in [Request -> Asked(DOMAIN issued)] /\ io \in [Request -> Waiting(DOMAIN issued)]
         /\ WalletFlight(req[r], io[r]) /\ RouteFlight(req[r], io[r])
         /\ req[r].at # "idle" =>
              /\ req[r].host \in Domain /\ Home(req[r].host) \in Path
              /\ disk[Home(req[r].host)] \in Known(DOMAIN issued)
              /\ Proved(disk[Home(req[r].host)], req[r].host, zone, issued)
         /\ cache \in [Domain -> Wallet \cup {None}] /\ disk \in [Path -> Known(DOMAIN issued)]
         /\ zone \in [Domain -> SUBSET Token] /\ DOMAIN issued \subseteq Token
<1>1. /\ disk \in [Path -> Known(DOMAIN issued)]
      /\ cache \in [Domain -> Wallet \cup {None}]
      /\ zone \in [Domain -> SUBSET Token] /\ DOMAIN issued \subseteq Token
      /\ req \in [Request -> Asked(DOMAIN issued)] /\ io \in [Request -> Waiting(DOMAIN issued)]
  BY DEF TypesInv, MemoryTypes, ClaimTypes
<1> QED
  BY <1>1, RequestTypes DEF OneAtATime, ClaimInv

\* An empty file has no claim, and more records and challenges spoil none.
LEMMA ProvedGrows ==
  ASSUME NEW d \in Domain, NEW z, NEW zz, NEW made, NEW more,
         z[d] \subseteq zz[d], DOMAIN made \subseteq DOMAIN more,
         \A t \in DOMAIN made : more[t] = made[t]
  PROVE  /\ Proved(Blank, d, z, made)
         /\ \A x : Proved(x, d, z, made) => Proved(x, d, zz, more)
BY DEF Proved, Blank

\* Who asked for a challenge that is on record has proved the domain.
LEMMA ProvedCompletion ==
  ASSUME NEW d \in Domain, NEW z \in [Domain -> SUBSET Token], NEW made, NEW x \in Data,
         Proved(x, d, z, made), x.token \in z[d]
  PROVE  Proved(Completed(x, x.challenger), d, z, made)
<1>1. x.token # None
  BY DomainAssumption
<1>2. LET y == Completed(x, x.challenger)
      IN  y.verified /\ y.admin = x.challenger /\ y.token = None
  BY DEF Completed, Data
<1> HIDE DEF Completed
<1> QED
  BY <1>1, <1>2 DEF Proved

\* A step that leaves the files, zones and tokens alone.
LEMMA ClaimFrame ==
  ASSUME OneAtATime, ClaimInv, NEW r \in Request,
         UNCHANGED <<disk, zone, issued>>, HandlersRead => CacheIsDisk',
         WalletFlight(req[r], io[r])', RouteFlight(req[r], io[r])'
  PROVE  ClaimInv'
<1>1. \A s \in Request : s = r
  BY DEF OneAtATime
<1>2. \A d \in Domain : Proved(disk'[Home(d)], d, zone', issued')
  BY DEF ClaimInv
<1> QED
  BY <1>1, <1>2 DEF ClaimInv

\* The wallet is made or used.
LEMMA UseWalletClaim ==
  ASSUME OneAtATime, TypesInv, ClaimInv, NEW r \in Request, req[r].at \in {"init", "initBack"},
         NEW dc \in Known(DOMAIN issued), NEW loaded, Proved(dc, req[r].host, zone, issued),
         dc.wallet # None => dc.wallet = disk[Home(req[r].host)].wallet,
         UseWallet(r, dc, loaded), UNCHANGED <<disk, envVars>>
  PROVE  ClaimInv'
<1> DEFINE h == req[r].host
           new == [dc EXCEPT !.wallet = NewWallet]
<1>1. /\ h \in Domain /\ Home(h) \in Path /\ utilsPath = Home(h) /\ cache[h] = None
      /\ req \in [Request -> Asked(DOMAIN issued)] /\ io \in [Request -> Waiting(DOMAIN issued)]
      /\ req[r] \in Asked(DOMAIN issued) /\ cache \in [Domain -> Wallet \cup {None}]
      /\ HandlersRead => CacheIsDisk
  BY TheRequest DEF ClaimInv, WalletFlight
<1>2. UNCHANGED <<disk, zone, issued>>
  BY DEF envVars
<1>3. CASE /\ utilsData' = new
           /\ req' = [req EXCEPT ![r].at = "initSave", ![r].cfg = new]
           /\ Utils!Save(r) /\ UNCHANGED cache
  <2>1. Proved(new, h, zone, issued)
    BY DEF Proved, Known, Data
  <2> HIDE DEF new
  <2>2. /\ req'[r].at = "initSave" /\ req'[r].cfg = new /\ req'[r].host = h
        /\ io'[r].op = "mkdir" /\ io'[r].store = "utils" /\ utilsPath' = utilsPath
    BY <1>1, <1>3 DEF Asked, Utils!Save, Utils!Pending
  <2>3. WalletFlight(req[r], io[r])'
    BY <1>1, <1>2, <1>3, <2>1, <2>2 DEF WalletFlight
  <2>4. RouteFlight(req[r], io[r])'
    BY <2>2 DEF RouteFlight
  <2>5. HandlersRead => CacheIsDisk'
    BY <1>1, <1>2, <1>3 DEF CacheIsDisk
  <2> QED
    BY <1>2, <2>3, <2>4, <2>5, ClaimFrame
<1>4. CASE /\ dc.wallet # None
           /\ cache' = [cache EXCEPT ![h] = dc.wallet]
           /\ req' = [req EXCEPT ![r].at = "info", ![r].cfg = Blank]
           /\ AskInfo(r, h)
  <2>1. req'[r].at = "info" /\ io'[r].op = "read"
    BY <1>1, <1>4 DEF Asked, AskInfo, Utils!Open, Utils!Pending
  <2>2. HandlersRead => CacheIsDisk'
    BY <1>1, <1>2, <1>4 DEF CacheIsDisk
  <2>3. WalletFlight(req[r], io[r])' /\ RouteFlight(req[r], io[r])'
    BY <2>1 DEF WalletFlight, RouteFlight
  <2> QED
    BY <1>2, <2>2, <2>3, ClaimFrame
<1> QED
  BY <1>3, <1>4 DEF UseWallet

LEMMA InitClaim ==
  ASSUME OneAtATime, TypesInv, ClaimInv, NEW r \in Request,
         InitLoaded(r) \/ InitRootLoaded(r) \/ InitBackLoaded(r) \/ InitSaved(r)
  PROVE  ClaimInv'
<1> DEFINE h == req[r].host
           x == disk[Home(h)]
           dc == IF io[r].content.domain THEN io[r].content ELSE [Blank EXCEPT !.domain = TRUE]
<1>1. /\ h \in Domain /\ Home(h) \in Path /\ req[r].cfg \in Known(DOMAIN issued)
      /\ io[r].content \in Known(DOMAIN issued)
      /\ req \in [Request -> Asked(DOMAIN issued)] /\ io \in [Request -> Waiting(DOMAIN issued)]
      /\ req[r] \in Asked(DOMAIN issued) /\ cache[h] = None /\ (HandlersRead => CacheIsDisk)
      /\ cache \in [Domain -> Wallet \cup {None}] /\ WalletFlight(req[r], io[r])
  BY TheRequest DEF ClaimInv, InitLoaded, InitRootLoaded, InitBackLoaded, InitSaved, WalletFlight
<1>2. UNCHANGED <<disk, zone, issued, envVars>>
  BY DEF InitLoaded, InitRootLoaded, InitBackLoaded, InitSaved, envVars
<1>3. ASSUME InitLoaded(r)
      PROVE  /\ dc \in Known(DOMAIN issued) /\ Proved(dc, h, zone, issued)
             /\ dc.wallet # None => dc.wallet = x.wallet
  <2>1. /\ Proved(io[r].content, h, zone, issued)
        /\ io[r].content.wallet # None => io[r].content.wallet = x.wallet
    BY <1>1, <1>3 DEF InitLoaded, WalletFlight, Utils!Got, Utils!Waits
  <2>2. /\ [Blank EXCEPT !.domain = TRUE] \in Known(DOMAIN issued)
        /\ Proved([Blank EXCEPT !.domain = TRUE], h, zone, issued)
        /\ [Blank EXCEPT !.domain = TRUE].wallet = None
    BY BlankIsKnown DEF Proved, Blank
  <2> QED
    BY <1>1, <2>1, <2>2
<1>4. CASE InitLoaded(r) /\ UseWallet(r, dc, io[r].content)
  BY <1>2, <1>3, <1>4, UseWalletClaim DEF InitLoaded
<1>5. CASE /\ InitLoaded(r) /\ Utils!Open(r, Root) /\ UNCHANGED cache
           /\ req' = [req EXCEPT ![r].at = "initRoot", ![r].cfg = dc]
  <2> HIDE DEF dc
  <2>1. /\ req'[r].at = "initRoot" /\ req'[r].host = h /\ req'[r].cfg = dc
        /\ io'[r].op = "read"
    BY <1>1, <1>5 DEF Asked, Utils!Open, Utils!Pending
  <2>2. WalletFlight(req[r], io[r])' /\ RouteFlight(req[r], io[r])'
    BY <1>1, <1>2, <1>3, <1>5, <2>1 DEF WalletFlight, RouteFlight
  <2>3. HandlersRead => CacheIsDisk'
    BY <1>1, <1>2, <1>5 DEF CacheIsDisk
  <2> QED
    BY <1>2, <2>2, <2>3, ClaimFrame
<1>6. CASE InitRootLoaded(r)
  <2> DEFINE new == [req[r].cfg EXCEPT !.provider = io[r].content.provider]
  <2>1. /\ Proved(req[r].cfg, h, zone, issued)
        /\ req[r].cfg.wallet # None => req[r].cfg.wallet = x.wallet
    BY <1>1, <1>6 DEF InitRootLoaded, WalletFlight
  <2>2. /\ Proved(new, h, zone, issued) /\ new.wallet = req[r].cfg.wallet
    BY <1>1, <2>1 DEF Proved, Known, Data
  <2>3. /\ req' = [req EXCEPT ![r].at = "initBack", ![r].cfg = new]
        /\ utilsPath' = Home(h) /\ io'[r].op = "read" /\ UNCHANGED cache
    BY <1>1, <1>6 DEF InitRootLoaded, attachVars, Asked, Utils!Open, Utils!Pending
  <2> HIDE DEF new
  <2>4. req'[r].at = "initBack" /\ req'[r].host = h /\ req'[r].cfg = new
    BY <1>1, <2>3 DEF Asked
  <2>5. WalletFlight(req[r], io[r])' /\ RouteFlight(req[r], io[r])'
    BY <1>1, <1>2, <2>1, <2>2, <2>3, <2>4 DEF WalletFlight, RouteFlight
  <2>6. HandlersRead => CacheIsDisk'
    BY <1>1, <1>2, <2>3 DEF CacheIsDisk
  <2> QED
    BY <1>2, <2>5, <2>6, ClaimFrame
<1>7. CASE InitBackLoaded(r)
  <2>1. /\ Proved(req[r].cfg, h, zone, issued)
        /\ req[r].cfg.wallet # None => req[r].cfg.wallet = x.wallet
    BY <1>1, <1>7 DEF InitBackLoaded, WalletFlight
  <2> QED
    BY <1>1, <1>2, <1>7, <2>1, UseWalletClaim DEF InitBackLoaded
<1>8. CASE InitSaved(r)
  <2>1. req'[r].at = "info" /\ io'[r].op = "read"
    BY <1>1, <1>8 DEF Asked, InitSaved, AskInfo, Utils!Open, Utils!Pending
  <2>2. WalletFlight(req[r], io[r])' /\ RouteFlight(req[r], io[r])'
    BY <2>1 DEF WalletFlight, RouteFlight
  <2>3. HandlersRead => CacheIsDisk'
    <3>1. CASE Utils!Saved(r) /\ cache' = [cache EXCEPT ![h] = req[r].cfg.wallet]
      <4>1. x = req[r].cfg
        BY <1>1, <1>8, <3>1 DEF InitSaved, WalletFlight, Utils!Saved, Utils!Waits
      <4> QED
        BY <1>1, <1>2, <3>1, <4>1 DEF CacheIsDisk
    <3>2. CASE UNCHANGED cache
      BY <1>1, <1>2, <3>2 DEF CacheIsDisk
    <3> QED
      BY <1>8, <3>1, <3>2 DEF InitSaved
  <2> QED
    BY <1>2, <2>2, <2>3, ClaimFrame
<1> QED
  BY <1>4, <1>5, <1>6, <1>7, <1>8 DEF InitLoaded

\* The request goes where it carries no claim.
LEMMA NoClaimFrame ==
  ASSUME OneAtATime, ClaimInv, NEW r \in Request, UNCHANGED <<disk, zone, issued, cache>>,
         \/ req'[r].at \in {"idle", "handler"}
         \/ req'[r].at \in {"info", "infoRoot"} /\ io'[r].op = "read"
  PROVE  ClaimInv'
<1>1. HandlersRead => CacheIsDisk'
  BY DEF ClaimInv, CacheIsDisk
<1>2. WalletFlight(req[r], io[r])' /\ RouteFlight(req[r], io[r])'
  BY DEF WalletFlight, RouteFlight
<1> QED
  BY <1>1, <1>2, ClaimFrame

LEMMA InfoClaim ==
  ASSUME OneAtATime, TypesInv, ClaimInv, NEW r \in Request, InfoLoaded(r) \/ InfoRootLoaded(r)
  PROVE  ClaimInv'
<1>1. \/ req'[r].at = "handler"
      \/ req'[r].at = "infoRoot" /\ io'[r].op = "read"
  BY TheRequest DEF InfoLoaded, InfoRootLoaded, Goto, Asked, Utils!Peek, Utils!Pending
<1>2. UNCHANGED <<disk, zone, issued, cache>>
  BY DEF InfoLoaded, InfoRootLoaded, envVars
<1> QED
  BY <1>1, <1>2, NoClaimFrame

\* The handler replies.
LEMMA ReplyClaim ==
  ASSUME OneAtATime, TypesInv, ClaimInv, NEW r \in Request, Finish(r),
         UNCHANGED <<disk, attachVars, zone, issued>>
  PROVE  ClaimInv'
<1>1. req'[r].at = "idle"
  BY TheRequest DEF Finish, Rest
<1> QED
  BY <1>1, NoClaimFrame DEF attachVars

\* A step of a handler that goes on.
LEMMA RouteFrame ==
  ASSUME OneAtATime, ClaimInv, NEW r \in Request, UNCHANGED <<disk, attachVars, zone, issued>>,
         req'[r].at \in {"loading", "dns", "saving"}, RouteFlight(req[r], io[r])'
  PROVE  ClaimInv'
<1>1. HandlersRead => CacheIsDisk'
  BY DEF ClaimInv, CacheIsDisk, attachVars
<1>2. WalletFlight(req[r], io[r])'
  BY DEF WalletFlight
<1> QED
  BY <1>1, <1>2, ClaimFrame

LEMMA StartHandlerClaim ==
  ASSUME OneAtATime, TypesInv, ClaimInv, NEW r \in Request, StartHandler(r)
  PROVE  ClaimInv'
<1>1. /\ req[r] \in Asked(DOMAIN issued) /\ io \in [Request -> Waiting(DOMAIN issued)]
      /\ req \in [Request -> Asked(DOMAIN issued)]
  BY TheRequest
<1>2. /\ req'[r].at = "loading" /\ req'[r].host = req[r].host /\ req'[r].route = req[r].route
      /\ UNCHANGED <<disk, attachVars, zone, issued>>
  BY <1>1 DEF StartHandler, Goto, Asked, envVars
<1>3. io'[r].op = "read"
  BY <1>1 DEF StartHandler, Utils!Open, Attach!Open, Utils!Pending, Attach!Pending
<1>4. req[r].route # "fido" =>
        /\ io'[r].store = StoreOf(req[r].route)
        /\ io'[r].file = Home(req[r].host) /\ PathOf(req[r].route)' = Home(req[r].host)
  <2>1. CASE req[r].route = "initialize"
    BY <1>1, <1>2, <2>1 DEF StartHandler, Utils!Open, Utils!Pending, StoreOf, PathOf
  <2>2. CASE req[r].route \in {"query", "post", "dns"}
    BY <1>1, <1>2, <2>2 DEF StartHandler, Attach!Open, Attach!Pending, StoreOf, PathOf
  <2> QED
    BY <2>1, <2>2 DEF StartHandler
<1>5. RouteFlight(req[r], io[r])'
  BY <1>2, <1>3, <1>4 DEF RouteFlight, StoreOf, PathOf
<1> QED
  BY <1>2, <1>5, RouteFrame

LEMMA PostChallengeClaim ==
  ASSUME OneAtATime, TypesInv, ClaimInv, NEW r \in Request, PostChallenge(r)
  PROVE  ClaimInv'
<1> DEFINE h == req[r].host
           x == io[r].content
<1>1. /\ h \in Domain /\ x \in Known(DOMAIN issued) /\ attachPath = Home(h)
      /\ Proved(x, h, zone, issued) /\ (HandlersRead => x.wallet = disk[Home(h)].wallet)
      /\ req \in [Request -> Asked(DOMAIN issued)] /\ io \in [Request -> Waiting(DOMAIN issued)]
      /\ req[r] \in Asked(DOMAIN issued) /\ req[r].route = "post"
      /\ \A s \in Request : s = r
  BY TheRequest DEF PostChallenge, Loaded, RouteFlight, StoreOf, PathOf, Attach!Got, Attach!Waits
<1>2. PICK t \in Token \ DOMAIN issued : t = CHOOSE u \in Token : u \notin DOMAIN issued
  BY PostChallengeTypes
<1> DEFINE new == [x EXCEPT !.pending = TRUE, !.token = t, !.challenger = req[r].from,
                            !.provider = TRUE]
<1>3. /\ attachData' = new /\ req' = [req EXCEPT ![r].at = "saving", ![r].cfg = new]
      /\ issued' = [u \in DOMAIN issued \cup {t} |->
                      IF u = t THEN [domain |-> h, to |-> req[r].from] ELSE issued[u]]
  BY <1>2, Zenon DEF PostChallenge
<1>4. /\ UNCHANGED <<disk, attachVars, zone, attachPath>>
      /\ io'[r].store = "attach" /\ io'[r].op = "mkdir" /\ ~x.verified
  BY <1>1 DEF PostChallenge, Attach!Save, Attach!Pending
<1>5. /\ t # None /\ t \in DOMAIN issued' /\ issued'[t] = [domain |-> h, to |-> req[r].from]
      /\ \A u \in DOMAIN issued : u \in DOMAIN issued' /\ issued'[u] = issued[u]
  BY <1>2, <1>3, DomainAssumption
<1>6. /\ new.pending /\ new.token = t /\ new.challenger = req[r].from
      /\ new.wallet = x.wallet /\ ~new.verified
  BY <1>1, <1>4 DEF Known, Data
<1> HIDE DEF new
<1>7. Proved(new, h, zone, issued')
  BY <1>5, <1>6 DEF Proved
<1>8. /\ req'[r].at = "saving" /\ req'[r].route = "post" /\ req'[r].host = h
      /\ req'[r].from = req[r].from /\ req'[r].cfg = new
  BY <1>1, <1>3 DEF Asked
<1>9. RouteFlight(req[r], io[r])'
  BY <1>1, <1>3, <1>4, <1>5, <1>6, <1>7, <1>8
     DEF RouteFlight, StoreOf, PathOf, MemoryOf, Reported, HasChallenge
<1>10. WalletFlight(req[r], io[r])'
  BY <1>8 DEF WalletFlight
<1>11. \A d \in Domain : Proved(disk'[Home(d)], d, zone', issued')
  BY <1>4, <1>5, ProvedGrows DEF ClaimInv
<1>12. HandlersRead => CacheIsDisk'
  BY <1>4 DEF ClaimInv, CacheIsDisk, attachVars
<1> QED
  BY <1>1, <1>9, <1>10, <1>11, <1>12 DEF ClaimInv

LEMMA DnsClaim ==
  ASSUME OneAtATime, TypesInv, ClaimInv, NEW r \in Request, DnsLoaded(r) \/ DnsAnswered(r)
  PROVE  ClaimInv'
<1> DEFINE h == req[r].host
<1>1. /\ h \in Domain /\ io[r].content \in Known(DOMAIN issued)
      /\ req \in [Request -> Asked(DOMAIN issued)] /\ io \in [Request -> Waiting(DOMAIN issued)]
      /\ req[r] \in Asked(DOMAIN issued) /\ RouteFlight(req[r], io[r])
      /\ zone \in [Domain -> SUBSET Token] /\ attachData \in Data
  BY TheRequest DEF DnsLoaded, DnsAnswered, Loaded, TypesInv, MemoryTypes, Known
<1>2. UNCHANGED <<disk, attachVars, zone, issued>>
  BY DEF DnsLoaded, DnsAnswered, envVars
<1>3. CASE Finish(r)
  BY <1>2, <1>3, ReplyClaim
<1>4. CASE /\ DnsLoaded(r) /\ io[r].content.challenger = req[r].from /\ Goto(r, "dns")
  <2>1. /\ Proved(io[r].content, h, zone, issued) /\ attachPath = Home(h)
        /\ HandlersRead => io[r].content.wallet = disk[Home(h)].wallet
        /\ req[r].route = "dns"
    BY <1>1, <1>4 DEF DnsLoaded, Loaded, RouteFlight, StoreOf, PathOf, Attach!Got, Attach!Waits
  <2>2. /\ req'[r].at = "dns" /\ req'[r].host = h /\ req'[r].route = "dns"
        /\ req'[r].from = req[r].from /\ attachPath' = Home(h) /\ attachData' = io[r].content
    BY <1>1, <1>4, <2>1 DEF DnsLoaded, Attach!Close, Goto, Asked
  <2>3. RouteFlight(req[r], io[r])'
    BY <1>2, <1>4, <2>1, <2>2 DEF RouteFlight
  <2> QED
    BY <1>2, <2>2, <2>3, RouteFrame
<1>5. CASE /\ DnsAnswered(r) /\ attachData.token \in zone[h]
           /\ attachData' = Completed(attachData, req[r].from)
           /\ Goto(r, "saving") /\ Attach!Save(r)
  <2>1. /\ Proved(attachData, h, zone, issued) /\ attachPath = Home(h)
        /\ req[r].route = "dns" /\ attachData.challenger = req[r].from
        /\ HandlersRead => attachData.wallet = disk[Home(h)].wallet
    BY <1>1, <1>5 DEF DnsAnswered, RouteFlight
  <2>2. /\ req'[r].at = "saving" /\ req'[r].host = h /\ req'[r].route = "dns"
        /\ req'[r].from = req[r].from /\ attachPath' = Home(h)
        /\ io'[r].store = "attach" /\ io'[r].op = "mkdir"
    BY <1>1, <1>5, <2>1 DEF Attach!Save, Attach!Pending, Goto, Asked
  <2>3. Proved(attachData', h, zone, issued)
    BY <1>1, <1>5, <2>1, ProvedCompletion
  <2>4. /\ attachData'.verified /\ attachData'.admin = req[r].from
        /\ attachData'.wallet = attachData.wallet
    BY <1>1, <1>5 DEF Completed, Data
  <2>5. RouteFlight(req[r], io[r])'
    BY <1>2, <2>1, <2>2, <2>3, <2>4 DEF RouteFlight, StoreOf, PathOf, MemoryOf, Reported
  <2> QED
    BY <1>2, <2>2, <2>5, RouteFrame
<1> QED
  BY <1>3, <1>4, <1>5 DEF DnsLoaded, DnsAnswered

LEMMA InitializeClaim ==
  ASSUME OneAtATime, TypesInv, ClaimInv, NEW r \in Request, InitializeLoaded(r)
  PROVE  ClaimInv'
<1> DEFINE h == req[r].host
           x == io[r].content
<1>1. /\ x \in Known(DOMAIN issued) /\ utilsPath = Home(h) /\ Proved(x, h, zone, issued)
      /\ HandlersRead => x.wallet = disk[Home(h)].wallet
      /\ req \in [Request -> Asked(DOMAIN issued)] /\ io \in [Request -> Waiting(DOMAIN issued)]
      /\ req[r] \in Asked(DOMAIN issued)
      /\ req[r].at = "loading" /\ req[r].route = "initialize"
  BY TheRequest DEF InitializeLoaded, Loaded, RouteFlight, StoreOf, PathOf, Utils!Got, Utils!Waits
<1>2. UNCHANGED <<disk, attachVars, zone, issued>>
  BY DEF InitializeLoaded, envVars
<1>3. /\ req'[r].at = "saving" /\ req'[r].host = h /\ req'[r].route = "initialize"
      /\ utilsPath' = Home(h) /\ io'[r].store = "utils" /\ io'[r].op = "mkdir"
  BY <1>1 DEF InitializeLoaded, Utils!Save, Utils!Pending, Goto, Asked
<1>4. /\ utilsData'.domain /\ utilsData'.pending /\ utilsData'.wallet = x.wallet
      /\ Proved(utilsData', h, zone, issued)
  BY <1>1 DEF InitializeLoaded, Known, Data, Proved
<1>5. RouteFlight(req[r], io[r])'
  BY <1>1, <1>2, <1>3, <1>4 DEF RouteFlight, StoreOf, PathOf, MemoryOf, Reported
<1> QED
  BY <1>2, <1>3, <1>5, RouteFrame

LEMMA RepliesClaim ==
  ASSUME OneAtATime, TypesInv, ClaimInv, NEW r \in Request,
         QueryLoaded(r) \/ PostRepeated(r) \/ SaveDone(r)
  PROVE  ClaimInv'
BY ReplyClaim DEF QueryLoaded, PostRepeated, SaveDone, Reply, envVars

\* What is written to a file is a claim of its domain.
LEMMA FlushClaim ==
  ASSUME OneAtATime, TypesInv, ClaimInv, NEW r \in Request,
         Attach!Flush(r) \/ Utils!Flush(r),
         UNCHANGED <<attachPath, attachData, utilsPath, utilsData, attachVars, req, envVars>>
  PROVE  ClaimInv'
<1> DEFINE h == req[r].host
           y == io[r].content
<1>1. /\ \A s \in Request : s = r
      /\ io \in [Request -> Waiting(DOMAIN issued)] /\ io[r] \in Waiting(DOMAIN issued)
      /\ req[r] \in Asked(DOMAIN issued) /\ Coherent(req[r], io[r])
      /\ WalletFlight(req[r], io[r]) /\ RouteFlight(req[r], io[r])
      /\ disk \in [Path -> Known(DOMAIN issued)]
      /\ HandlersRead => CacheIsDisk
  BY TheRequest DEF ClaimInv
<1>2. /\ io[r].op = "write" /\ disk' = [disk EXCEPT ![io[r].file] = y]
      /\ io' = [io EXCEPT ![r].op = "flushed"]
      /\ UNCHANGED <<attachPath, attachData, utilsPath, utilsData, attachVars, req, zone, issued>>
  BY DEF Attach!Flush, Utils!Flush, Attach!Waits, Utils!Waits, envVars
<1>3. req[r].at \in {"initSave", "saving"}
  BY <1>1, <1>2 DEF Coherent, WalletFlight, RouteFlight, Asked, Await
<1>4. /\ h \in Domain /\ Home(h) \in Path /\ io[r].file = Home(h)
      /\ Proved(y, h, zone, issued)
      /\ HandlersRead /\ cache[h] # None => y.wallet = disk[Home(h)].wallet
      /\ req[r].at = "initSave" => y = req[r].cfg
      /\ req[r].at = "saving" => y = MemoryOf(req[r].route)
  BY <1>1, <1>2, <1>3, TheRequest DEF WalletFlight, RouteFlight
<1>5. /\ disk'[Home(h)] = y
      /\ \A d \in Domain : d # h => disk'[Home(d)] = disk[Home(d)]
  BY <1>1, <1>2, <1>4, Paths, PathsDiffer
<1>6. \A d \in Domain : Proved(disk'[Home(d)], d, zone, issued)
  BY <1>4, <1>5 DEF ClaimInv
<1>7. HandlersRead => CacheIsDisk'
  BY <1>1, <1>2, <1>4, <1>5 DEF CacheIsDisk, attachVars
<1>8. io'[r].op = "flushed" /\ io'[r].store = io[r].store
  BY <1>1, <1>2 DEF Waiting
<1>9. WalletFlight(req[r], io[r])'
  BY <1>1, <1>2, <1>3, <1>4, <1>5, <1>8 DEF WalletFlight, attachVars
<1>10. RouteFlight(req[r], io[r])'
  BY <1>1, <1>2, <1>3, <1>4, <1>5, <1>8 DEF RouteFlight, PathOf, MemoryOf
<1> QED
  BY <1>1, <1>2, <1>6, <1>7, <1>9, <1>10 DEF ClaimInv

LEMMA FileClaim ==
  ASSUME OneAtATime, TypesInv, ClaimInv, NEW r \in Request, FileStep(r)
  PROVE  ClaimInv'
<1> DEFINE h == req[r].host
           x == io[r]
<1>1. /\ io \in [Request -> Waiting(DOMAIN issued)] /\ x \in Waiting(DOMAIN issued)
      /\ req[r] \in Asked(DOMAIN issued) /\ Coherent(req[r], x)
      /\ WalletFlight(req[r], x) /\ RouteFlight(req[r], x)
      /\ req[r].at # "idle" => h \in Domain /\ Proved(disk[Home(h)], h, zone, issued)
      /\ HandlersRead => CacheIsDisk
  BY TheRequest DEF ClaimInv
<1>2. UNCHANGED <<attachPath, attachData, utilsPath, utilsData, attachVars, req, envVars,
                  zone, issued, cache>>
  BY DEF FileStep, envVars, attachVars
<1>3. ASSUME disk' = disk, WalletFlight(req[r], io[r])', RouteFlight(req[r], io[r])'
      PROVE  ClaimInv'
  <2>1. HandlersRead => CacheIsDisk'
    BY <1>1, <1>2, <1>3 DEF CacheIsDisk
  <2> QED
    BY <1>2, <1>3, <2>1, ClaimFrame
<1>4. CASE Attach!Fetch(r) \/ Utils!Fetch(r)
  <2>1. /\ x.op = "read" /\ disk' = disk
        /\ io' = [io EXCEPT ![r].op = "fetched", ![r].content = disk[x.file]]
    BY <1>4 DEF Attach!Fetch, Utils!Fetch, Attach!Waits, Utils!Waits
  <2>2. /\ io'[r].op = "fetched" /\ io'[r].content = disk[x.file]
        /\ io'[r].file = x.file /\ io'[r].store = x.store
    BY <1>1, <2>1 DEF Waiting
  <2>3. req[r].at \notin {"idle", "dns", "initSave", "saving"}
    BY <1>1, <2>1 DEF Coherent, WalletFlight, RouteFlight
  <2>4. WalletFlight(req[r], io[r])'
    BY <1>1, <1>2, <2>1, <2>2, <2>3 DEF WalletFlight
  <2>5. RouteFlight(req[r], io[r])'
    BY <1>1, <1>2, <2>1, <2>2, <2>3 DEF RouteFlight, PathOf
  <2> QED
    BY <1>3, <2>1, <2>4, <2>5
<1>5. CASE req[r].at \in ReadFaults /\ (Attach!FetchNothing(r) \/ Utils!FetchNothing(r))
  <2>1. /\ x.op = "read" /\ disk' = disk /\ req[r].at \in ReadFaults
        /\ io' = [io EXCEPT ![r].op = "fetched", ![r].content = Blank]
    BY <1>5 DEF Attach!FetchNothing, Utils!FetchNothing, Attach!Waits, Utils!Waits
  <2>2. /\ io'[r].op = "fetched" /\ io'[r].content = Blank
        /\ io'[r].file = x.file /\ io'[r].store = x.store
    BY <1>1, <2>1 DEF Waiting
  <2>3. req[r].at \notin {"idle", "dns", "initSave", "saving"}
    BY <1>1, <2>1 DEF Coherent, WalletFlight, RouteFlight
  <2>4. Proved(Blank, h, zone, issued) /\ Blank.wallet = None
    BY DEF Proved, Blank
  <2>5. WalletFlight(req[r], io[r])'
    BY <1>1, <1>2, <2>1, <2>2, <2>3, <2>4 DEF WalletFlight
  <2>6. RouteFlight(req[r], io[r])'
    BY <1>1, <1>2, <2>1, <2>2, <2>3, <2>4 DEF RouteFlight, PathOf, HandlersRead
  <2> QED
    BY <1>3, <2>1, <2>5, <2>6
<1>6. CASE Attach!Write(r) \/ Utils!Write(r)
  <2>1. /\ x.op = "mkdir" /\ disk' = disk
        /\ \/ /\ x.store = "attach"
              /\ io' = [io EXCEPT ![r].op = "write", ![r].file = attachPath, ![r].content = attachData]
           \/ /\ x.store = "utils"
              /\ io' = [io EXCEPT ![r].op = "write", ![r].file = utilsPath, ![r].content = utilsData]
    BY <1>6 DEF Attach!Write, Utils!Write, Attach!Waits, Utils!Waits
  <2>2. /\ io'[r].op = "write" /\ io'[r].store = x.store
        /\ x.store = "attach" => io'[r].file = attachPath /\ io'[r].content = attachData
        /\ x.store = "utils" => io'[r].file = utilsPath /\ io'[r].content = utilsData
    BY <1>1, <2>1 DEF Waiting
  <2>3. req[r].at \in {"initSave", "saving"}
    BY <1>1, <2>1 DEF Coherent, WalletFlight, RouteFlight, Asked, Await
  <2>4. WalletFlight(req[r], io[r])'
    BY <1>1, <1>2, <2>1, <2>2, <2>3 DEF WalletFlight
  <2>5. RouteFlight(req[r], io[r])'
    BY <1>1, <1>2, <2>1, <2>2, <2>3 DEF RouteFlight, StoreOf, PathOf, MemoryOf
  <2> QED
    BY <1>3, <2>1, <2>4, <2>5
<1>7. CASE Attach!Flush(r) \/ Utils!Flush(r)
  BY <1>2, <1>7, FlushClaim
<1>8. CASE Attach!Fail(r) \/ Utils!Fail(r)
  <2>1. /\ x.op \in {"mkdir", "write"} /\ disk' = disk
        /\ io' = [io EXCEPT ![r].op = "failed"]
    BY <1>8 DEF Attach!Fail, Utils!Fail, Attach!Waits, Utils!Waits
  <2>2. io'[r].op = "failed" /\ io'[r].store = x.store /\ io'[r].file = x.file
    BY <1>1, <2>1 DEF Waiting
  <2>3. req[r].at \in {"initSave", "saving"}
    BY <1>1, <2>1 DEF Coherent, WalletFlight, RouteFlight, Asked, Await
  <2>4. WalletFlight(req[r], io[r])'
    BY <1>1, <1>2, <2>1, <2>2, <2>3 DEF WalletFlight
  <2>5. RouteFlight(req[r], io[r])'
    BY <1>1, <1>2, <2>1, <2>2, <2>3 DEF RouteFlight, PathOf, MemoryOf
  <2> QED
    BY <1>3, <2>1, <2>4, <2>5
<1> QED
  BY <1>4, <1>5, <1>6, <1>7, <1>8 DEF FileStep

LEMMA ArriveClaim ==
  ASSUME OneAtATime, TypesInv, ClaimInv, NEW r \in Request, NEW h \in Domain,
         NEW route \in Route, NEW a \in Address, Arrive(r, h, route, a)
  PROVE  ClaimInv'
<1>1. /\ io \in [Request -> Waiting(DOMAIN issued)]
      /\ req \in [Request -> Asked(DOMAIN issued)]
      /\ UNCHANGED <<disk, cache, zone, issued>>
  BY TheRequest DEF Arrive, envVars
<1>2. CASE req'[r].at = "handler" \/ (req'[r].at = "info" /\ AskInfo(r, h))
  BY <1>1, <1>2, NoClaimFrame DEF AskInfo, Utils!Open, Utils!Pending
<1>3. CASE /\ req'[r].at = "init" /\ req'[r].host = h /\ cache[h] = None
           /\ Utils!Open(r, Home(h))
  <2>1. /\ io'[r].op = "read" /\ io'[r].file = Home(h) /\ utilsPath' = Home(h)
    BY <1>1, <1>3 DEF Utils!Open, Utils!Pending
  <2>2. WalletFlight(req[r], io[r])' /\ RouteFlight(req[r], io[r])'
    BY <1>1, <1>3, <2>1 DEF WalletFlight, RouteFlight
  <2>3. HandlersRead => CacheIsDisk'
    BY <1>1 DEF ClaimInv, CacheIsDisk
  <2> QED
    BY <1>1, <2>2, <2>3, ClaimFrame
<1> QED
  BY <1>1, <1>2, <1>3 DEF Arrive

\* What is published stays published.
LEMMA PublishClaim ==
  ASSUME OneAtATime, TypesInv, ClaimInv, NEW d \in Domain, NEW t \in Token, Publish(d, t)
  PROVE  ClaimInv'
<1>1. /\ UNCHANGED <<disk, attachPath, attachData, utilsPath, utilsData, io, cache, req, issued>>
      /\ zone' = [zone EXCEPT ![d] = @ \cup {t}]
      /\ zone \in [Domain -> SUBSET Token]
  BY DEF Publish, configVars, attachVars, TypesInv, ClaimTypes
<1>2. \A e \in Domain : zone[e] \subseteq zone'[e]
  BY <1>1
<1>3. ASSUME NEW e \in Domain, NEW x, Proved(x, e, zone, issued)
      PROVE  Proved(x, e, zone', issued)
  BY <1>2, <1>3, ProvedGrows
<1>4. ASSUME NEW r \in Request
      PROVE  WalletFlight(req[r], io[r])' /\ RouteFlight(req[r], io[r])'
  <2>1. /\ WalletFlight(req[r], io[r]) /\ RouteFlight(req[r], io[r])
        /\ req[r].at # "idle" => req[r].host \in Domain
    BY TheRequest
  <2>2. CASE req[r].at = "idle"
    BY <1>1, <2>2 DEF WalletFlight, RouteFlight
  <2>3. CASE req[r].at # "idle"
    <3>1. WalletFlight(req[r], io[r])'
      BY <1>1, <1>3, <2>1, <2>3 DEF WalletFlight
    <3>2. RouteFlight(req[r], io[r])'
      BY <1>1, <1>3, <2>1, <2>3 DEF RouteFlight, PathOf, MemoryOf
    <3> QED
      BY <3>1, <3>2
  <2> QED
    BY <2>2, <2>3
<1>5. HandlersRead => CacheIsDisk'
  BY <1>1 DEF ClaimInv, CacheIsDisk
<1>6. \A e \in Domain : Proved(disk'[Home(e)], e, zone', issued')
  BY <1>1, <1>3 DEF ClaimInv
<1> QED
  BY <1>4, <1>5, <1>6 DEF ClaimInv

\* A process that starts has no request, and a cache that is empty.
LEMMA StartClaim ==
  /\ Init => ClaimInv
  /\ ClaimInv /\ Restart => ClaimInv'
<1>1. ASSUME Init
      PROVE  ClaimInv
  <2>1. \A d \in Domain : disk[Home(d)] = Blank
    BY <1>1, Paths, PathsDiffer DEF Init, Blank
  <2>2. \A d \in Domain : Proved(disk[Home(d)], d, zone, issued)
    BY <2>1 DEF Proved, Blank
  <2> QED
    BY <1>1, <2>2 DEF Init, ClaimInv, CacheIsDisk, NoCache, NoRequests, Rest, WalletFlight,
                      RouteFlight
<1>2. ASSUME ClaimInv, Restart
      PROVE  ClaimInv'
  <2>1. UNCHANGED <<disk, zone, issued>>
    BY <1>2 DEF Restart, envVars
  <2>2. \A d \in Domain : Proved(disk'[Home(d)], d, zone', issued')
    BY <1>2, <2>1 DEF ClaimInv
  <2>3. CacheIsDisk'
    BY <1>2 DEF Restart, CacheIsDisk, NoCache
  <2>4. \A r \in Request : WalletFlight(req[r], io[r])' /\ RouteFlight(req[r], io[r])'
    BY <1>2 DEF Restart, NoRequests, Rest, WalletFlight, RouteFlight
  <2> QED
    BY <2>2, <2>3, <2>4 DEF ClaimInv
<1> QED
  BY <1>1, <1>2

LEMMA ClaimStep ==
  ASSUME OneAtATime, TypesInv, ClaimInv, [Next]_vars
  PROVE  ClaimInv'
<1>1. ASSUME NEW r \in Request, Step(r)
      PROVE  ClaimInv'
  BY <1>1, InitClaim, InfoClaim, StartHandlerClaim, RepliesClaim, PostChallengeClaim, DnsClaim,
     InitializeClaim, FileClaim DEF Step
<1>2. CASE UNCHANGED vars
  <2>1. UNCHANGED <<disk, attachPath, attachData, utilsPath, utilsData, io, cache, req, zone,
                    issued>>
    BY <1>2 DEF vars, configVars, attachVars, envVars
  <2> QED
    BY <2>1 DEF ClaimInv, CacheIsDisk, WalletFlight, RouteFlight, PathOf, MemoryOf
<1> QED
  BY <1>1, <1>2, ArriveClaim, PublishClaim, StartClaim DEF Next

\* Of a server that answers one request after the other, every domain's claim
\* is its own, whatever fails.
THEOREM ClaimsAreConsistent == ASSUME OneAtATime PROVE Spec => []ClaimInv
<1>1. Init => ClaimInv
  BY StartClaim
<1>2. TypesInv /\ ClaimInv /\ [Next]_vars => ClaimInv'
  BY ClaimStep
<1> QED
  BY <1>1, <1>2, TypesAlways, PTL DEF Spec

\* The administrator of a verified domain is an address whose own challenge
\* for that domain was published in its zone (auth.mjs:183, 207).
THEOREM AdministratorsProved == ASSUME OneAtATime PROVE Spec => []AdminProvedDomain
<1>1. ClaimInv => AdminProvedDomain
  BY DEF ClaimInv, Proved, AdminProvedDomain
<1> QED
  BY <1>1, ClaimsAreConsistent, PTL

\* When a route is about to report success, the domain's file says so too.
THEOREM SuccessAlwaysDurable == ASSUME OneAtATime PROVE Spec => []SuccessIsDurable
<1>1. ASSUME ClaimInv
      PROVE  SuccessIsDurable
  <2> SUFFICES ASSUME NEW r \in Request, req[r].at = "saving", io[r].op = "flushed"
               PROVE  LET d == disk[Home(req[r].host)]
                      IN  \/ req[r].route = "dns" /\ d.verified /\ d.admin = req[r].from
                          \/ req[r].route = "post" /\ HasChallenge(d)
                               /\ d.token = req[r].cfg.token
                          \/ req[r].route = "initialize" /\ d.domain /\ d.pending
    BY DEF SuccessIsDurable
  <2>1. /\ Reported(MemoryOf(req[r].route), req[r].route, req[r].from, req[r].cfg)
        /\ disk[Home(req[r].host)] = MemoryOf(req[r].route)
    BY <1>1 DEF ClaimInv, RouteFlight
  <2> QED
    BY <2>1 DEF Reported
<1> QED
  BY <1>1, ClaimsAreConsistent, PTL

\* The wallet that the server signs with for a domain is the one in its file,
\* as long as the handlers' reads succeed: a restart will find it.
THEOREM CacheAlwaysPersisted ==
  ASSUME OneAtATime, HandlersRead PROVE Spec => []CachedWalletPersisted
<1>1. ASSUME HandlersRead, ClaimInv
      PROVE  CachedWalletPersisted
  BY <1>1 DEF ClaimInv, CacheIsDisk, CachedWalletPersisted
<1> QED
  BY <1>1, ClaimsAreConsistent, PTL

-----------------------------------------------------------------------------
(***************************************************************************)
(* One request at a time, with files that can be read.                     *)
(*                                                                         *)
(* When InitServerWallet and the handlers can read a domain's file, what   *)
(* they write is the file with their change: no wallet is lost, and the    *)
(* files implement the claim if a wallet's first save succeeds.  Other     *)
(* reads and any save may fail, and the process may stop anywhere.         *)
(***************************************************************************)

Serial == OneAtATime /\ "init" \notin ReadFaults /\ HandlersRead

WalletsSaved == "initSave" \notin SaveFaults

\* A file x of domain d: with a wallet it has the field by which
\* InitServerWallet knows it; an administrator has proved the domain, and a
\* challenge was made for the domain and for who asked for it.
GoodFile(x, d, z, made) ==
  /\ x.wallet # None => x.domain
  /\ x.verified => \E t \in z[d] \cap DOMAIN made : made[t] = [domain |-> d, to |-> x.admin]
  /\ x.token # None =>
       /\ x.pending /\ ~x.verified
       /\ x.token \in DOMAIN made /\ made[x.token] = [domain |-> d, to |-> x.challenger]
  /\ x.challenger # None => x.token # None

\* It is empty, or has the wallet and the field.
Whole(x) == x = Blank \/ (x.domain /\ x.wallet # None)

Unclaimed(x) == ~x.verified /\ x.token = None

\* The request reads a file, and will see what the file is now.
Reads(i, store, file) ==
  /\ i.store = store /\ i.file = file
  /\ i.op \in {"read", "fetched"}
  /\ i.op = "fetched" => i.content = disk[file]

\* What InitServerWallet works with in domain d: the claim of the file x, or none.
Prepared(c, x, d) ==
  /\ c.domain /\ c.wallet = x.wallet /\ GoodFile(c, d, zone, issued)
  /\ x = Blank => Unclaimed(c)

\* What a domain is saved with when its wallet is made, and its file is x.
FirstSave(y, x, d) ==
  /\ y.domain /\ y.wallet # None /\ GoodFile(y, d, zone, issued)
  /\ x.wallet = None /\ (x = Blank => Unclaimed(y))

\* What the handler of a route makes of the data x of its host h.
ChangedTo(x, y, route, from, h, z, made) ==
  \/ /\ route = "post" /\ ~x.verified /\ x.token = None
     /\ \E t \in DOMAIN made :
          /\ made[t] = [domain |-> h, to |-> from]
          /\ y = [x EXCEPT !.pending = TRUE, !.token = t, !.challenger = from, !.provider = TRUE]
  \/ /\ route = "dns" /\ x.token \in z[h] /\ x.challenger = from
     /\ y = Completed(x, from)
  \/ /\ route = "initialize"
     /\ y = [x EXCEPT !.domain = TRUE, !.pending = TRUE, !.provider = TRUE]

\* The host is being made the current domain.
Setting == {"init", "initRoot", "initBack", "initSave", "info", "infoRoot"}

\* The domain's wallet is in use, if it has one.
Ready(h) ==
  /\ cache[h] = disk[Home(h)].wallet
  /\ WalletsSaved => cache[h] # None

InitFlight(q, i) ==
  LET home == Home(q.host)
  IN  /\ q.at \in {"init", "initRoot", "initBack", "initSave"} => cache[q.host] = None
      /\ q.at = "init" => Reads(i, "utils", home)
      /\ q.at \in {"init", "initBack", "initSave"} => utilsPath = home
      /\ q.at \in {"initRoot", "initBack", "info", "infoRoot"} => i.op \in {"read", "fetched"}
      /\ q.at \in {"initRoot", "initBack"} => Prepared(q.cfg, disk[home], q.host)
      /\ q.at = "initSave" =>
           /\ i.store = "utils" /\ i.op \in {"mkdir", "write", "flushed", "failed"}
           /\ utilsData = q.cfg
           /\ i.op # "flushed" => FirstSave(q.cfg, disk[home], q.host)
           /\ i.op = "write" => i.file = home /\ i.content = q.cfg
           /\ i.op = "flushed" => disk[home] = q.cfg /\ q.cfg.wallet # None
           /\ i.op = "failed" => ~WalletsSaved
      /\ q.at \in {"info", "infoRoot"} => Ready(q.host)

HandlerFlight(q, i) ==
  LET home == Home(q.host)
  IN  /\ q.at = "loading" => i.op \in {"read", "fetched"}
      /\ q.at = "loading" /\ q.route # "fido" =>
           Reads(i, StoreOf(q.route), home) /\ PathOf(q.route) = home
      /\ q.at = "dns" =>
           /\ q.route = "dns" /\ attachPath = home /\ attachData = disk[home]
           /\ disk[home].challenger = q.from
      /\ q.at = "saving" =>
           /\ i.store = StoreOf(q.route) /\ i.op \in {"mkdir", "write", "flushed", "failed"}
           /\ PathOf(q.route) = home
           /\ Reported(MemoryOf(q.route), q.route, q.from, q.cfg)
           /\ i.op \in {"mkdir", "write"} =>
                ChangedTo(disk[home], MemoryOf(q.route), q.route, q.from, q.host, zone, issued)
           /\ i.op = "write" => i.file = home /\ i.content = MemoryOf(q.route)
           /\ i.op = "flushed" => disk[home] = MemoryOf(q.route)

Flight(r) ==
  /\ InitFlight(req[r], io[r]) /\ HandlerFlight(req[r], io[r])
  /\ req[r].at # "idle" => domainName = req[r].host

GoodFiles ==
  \A d \in Domain :
    /\ GoodFile(disk[Home(d)], d, zone, issued)
    /\ WalletsSaved => Whole(disk[Home(d)])

\* Nobody is setting the domain, so that its wallet is there.
ServesName ==
  WalletsSaved /\ domainName # None /\ (\A r \in Request : req[r].at \notin Setting) =>
    cache[domainName] # None

SerialInv ==
  /\ TypesInv /\ GoodFiles /\ CacheIsDisk /\ ServesName
  /\ \A r \in Request : Flight(r)

\* The only request is there: what it looks at.
LEMMA OneRequest ==
  ASSUME Serial, SerialInv, NEW r \in Request
  PROVE  /\ \A s \in Request : s = r
         /\ req[r] \in Asked(DOMAIN issued) /\ io[r] \in Waiting(DOMAIN issued)
         /\ req[r].cfg \in Known(DOMAIN issued) /\ io[r].content \in Known(DOMAIN issued)
         /\ Coherent(req[r], io[r])
         /\ req \in [Request -> Asked(DOMAIN issued)] /\ io \in [Request -> Waiting(DOMAIN issued)]
         /\ Flight(r) /\ InitFlight(req[r], io[r]) /\ HandlerFlight(req[r], io[r])
         /\ req[r].at # "idle" =>
              /\ req[r].host \in Domain /\ req[r].host # None /\ domainName = req[r].host
              /\ Home(req[r].host) \in Path
              /\ disk[Home(req[r].host)] \in Known(DOMAIN issued)
              /\ GoodFile(disk[Home(req[r].host)], req[r].host, zone, issued)
              /\ WalletsSaved => Whole(disk[Home(req[r].host)])
<1>1. /\ Flight(r) /\ req[r] \in Asked(DOMAIN issued) /\ io[r] \in Waiting(DOMAIN issued)
      /\ disk \in [Path -> Known(DOMAIN issued)]
      /\ req \in [Request -> Asked(DOMAIN issued)] /\ io \in [Request -> Waiting(DOMAIN issued)]
  BY DEF SerialInv, TypesInv, MemoryTypes
<1>2. req[r].at # "idle" =>
        /\ req[r].host \in Domain /\ Home(req[r].host) \in Path /\ domainName = req[r].host
        /\ domainName # None
  BY RequestTypes, <1>1 DEF SerialInv, Flight, TypesInv
<1> QED
  BY <1>1, <1>2, RequestTypes DEF Serial, OneAtATime, SerialInv, Flight, GoodFiles

\* A step that leaves the files, zones and tokens alone.
LEMMA SerialFrame ==
  ASSUME Serial, SerialInv, [Next]_vars, NEW r \in Request,
         UNCHANGED <<disk, zone, issued>>, CacheIsDisk',
         InitFlight(req[r], io[r])', HandlerFlight(req[r], io[r])',
         req'[r].at # "idle" => domainName' = req'[r].host,
         WalletsSaved /\ domainName' # None /\ req'[r].at \notin Setting =>
           cache'[domainName'] # None
  PROVE  SerialInv'
<1>1. TypesInv' /\ \A s \in Request : s = r
  BY TypesStep DEF SerialInv, Serial, OneAtATime
<1>2. GoodFiles'
  BY DEF SerialInv, GoodFiles
<1>3. ServesName'
  BY DEF ServesName
<1>4. \A s \in Request : Flight(s)'
  BY <1>1 DEF Flight
<1> QED
  BY <1>1, <1>2, <1>3, <1>4 DEF SerialInv

\* The wallet is made or used.
LEMMA UseWalletSerial ==
  ASSUME Serial, SerialInv, [Next]_vars, NEW r \in Request, req[r].at \in {"init", "initBack"},
         NEW dc \in Known(DOMAIN issued), NEW loaded,
         Prepared(dc, disk[Home(req[r].host)], req[r].host), UseWallet(r, dc, loaded),
         attachUnused, UNCHANGED <<disk, domainName, served, envVars>>
  PROVE  SerialInv'
<1> DEFINE h == req[r].host
           x == disk[Home(h)]
           new == [dc EXCEPT !.wallet = NewWallet]
<1>1. /\ h \in Domain /\ x \in Known(DOMAIN issued) /\ GoodFile(x, h, zone, issued)
      /\ domainName = h /\ Home(h) \in Path /\ utilsPath = Home(h) /\ cache[h] = None
      /\ req \in [Request -> Asked(DOMAIN issued)] /\ io \in [Request -> Waiting(DOMAIN issued)]
      /\ req[r] \in Asked(DOMAIN issued) /\ CacheIsDisk
      /\ cache \in [Domain -> Wallet \cup {None}]
  BY OneRequest DEF SerialInv, TypesInv, MemoryTypes, InitFlight
<1>2. CASE /\ dc.wallet = None /\ utilsData' = new
           /\ req' = [req EXCEPT ![r].at = "initSave", ![r].cfg = new]
           /\ Utils!Save(r) /\ UNCHANGED cache
  <2>1. new.wallet = NewWallet /\ new.domain /\ new.verified = dc.verified
        /\ new.token = dc.token /\ new.challenger = dc.challenger /\ new.admin = dc.admin
        /\ new.pending = dc.pending
    BY <1>2 DEF Prepared, Known, Data
  <2>2. FirstSave(new, x, h)
    BY <1>1, <1>2, <2>1, NewWalletType, DomainAssumption
       DEF FirstSave, GoodFile, Prepared, Unclaimed
  <2> HIDE DEF new
  <2>3. /\ req'[r].at = "initSave" /\ req'[r].cfg = new /\ req'[r].host = h
        /\ io'[r].op = "mkdir" /\ io'[r].store = "utils" /\ utilsPath' = utilsPath
    BY <1>1, <1>2 DEF Asked, Utils!Save, Utils!Pending
  <2>4. FirstSave(req[r].cfg, disk[Home(req[r].host)], req[r].host)'
    BY <2>2, <2>3 DEF FirstSave, envVars
  <2>5. InitFlight(req[r], io[r])'
    BY <1>1, <1>2, <2>3, <2>4 DEF InitFlight
  <2>6. HandlerFlight(req[r], io[r])'
    BY <2>3 DEF HandlerFlight
  <2>7. CacheIsDisk'
    BY <1>1, <1>2 DEF CacheIsDisk
  <2> QED
    BY <1>1, <2>3, <2>5, <2>6, <2>7, SerialFrame DEF Setting, envVars
<1>3. CASE /\ dc.wallet # None
           /\ cache' = [cache EXCEPT ![h] = dc.wallet]
           /\ req' = [req EXCEPT ![r].at = "info", ![r].cfg = Blank]
           /\ AskInfo(r, h)
  <2>1. /\ req'[r].at = "info" /\ req'[r].host = h
        /\ io'[r].op = "read" /\ io'[r].store = "utils" /\ io'[r].file = Home(h)
    BY <1>1, <1>3 DEF Asked, AskInfo, Utils!Open, Utils!Pending
  <2>2. Ready(req[r].host)' /\ CacheIsDisk'
    BY <1>1, <1>3, <2>1 DEF CacheIsDisk, Prepared, Ready
  <2>3. InitFlight(req[r], io[r])' /\ HandlerFlight(req[r], io[r])'
    BY <2>1, <2>2 DEF InitFlight, HandlerFlight, Reads
  <2> QED
    BY <1>1, <2>1, <2>2, <2>3, SerialFrame DEF Setting, envVars
<1> QED
  BY <1>2, <1>3 DEF UseWallet

LEMMA InitSerial ==
  ASSUME Serial, SerialInv, [Next]_vars, NEW r \in Request,
         InitLoaded(r) \/ InitRootLoaded(r) \/ InitBackLoaded(r) \/ InitSaved(r)
  PROVE  SerialInv'
<1> DEFINE h == req[r].host
           x == disk[Home(h)]
           dc == IF io[r].content.domain THEN io[r].content ELSE [Blank EXCEPT !.domain = TRUE]
<1>1. /\ h \in Domain /\ x \in Known(DOMAIN issued) /\ GoodFile(x, h, zone, issued)
      /\ domainName = h /\ Home(h) \in Path /\ req[r].cfg \in Known(DOMAIN issued)
      /\ req \in [Request -> Asked(DOMAIN issued)] /\ io \in [Request -> Waiting(DOMAIN issued)]
      /\ req[r] \in Asked(DOMAIN issued) /\ CacheIsDisk /\ cache[h] = None
      /\ cache \in [Domain -> Wallet \cup {None}] /\ InitFlight(req[r], io[r])
  BY OneRequest DEF SerialInv, TypesInv, MemoryTypes, InitLoaded, InitRootLoaded,
                    InitBackLoaded, InitSaved, InitFlight
<1>2. ASSUME InitLoaded(r)
      PROVE  dc \in Known(DOMAIN issued) /\ Prepared(dc, x, h)
  <2>1. io[r].content = x
    BY <1>1, <1>2 DEF InitLoaded, InitFlight, Reads, Utils!Got, Utils!Waits
  <2>2. CASE x.domain
    BY <1>1, <2>1, <2>2 DEF Prepared, Blank
  <2>3. CASE ~x.domain
    BY <1>1, <2>1, <2>3, BlankIsKnown DEF Prepared, GoodFile, Blank, Unclaimed
  <2> QED
    BY <2>2, <2>3
<1>3. CASE InitLoaded(r) /\ UseWallet(r, dc, io[r].content)
  BY <1>2, <1>3, UseWalletSerial DEF InitLoaded
<1>4. CASE /\ InitLoaded(r) /\ utilsData' = io[r].content /\ Utils!Open(r, Root)
           /\ req' = [req EXCEPT ![r].at = "initRoot", ![r].cfg = dc] /\ UNCHANGED cache
  <2> HIDE DEF dc
  <2>1. /\ req'[r].at = "initRoot" /\ req'[r].host = h /\ req'[r].cfg = dc
        /\ io'[r].op = "read"
        /\ UNCHANGED <<disk, zone, issued, domainName>>
    BY <1>1, <1>4 DEF Asked, Utils!Open, Utils!Pending, InitLoaded, envVars
  <2>2. Prepared(req[r].cfg, disk[Home(req[r].host)], req[r].host)'
    BY <1>2, <1>4, <2>1 DEF Prepared
  <2>3. InitFlight(req[r], io[r])' /\ HandlerFlight(req[r], io[r])'
    BY <1>1, <1>4, <2>1, <2>2 DEF InitFlight, HandlerFlight
  <2>4. CacheIsDisk'
    BY <1>1, <1>4, <2>1 DEF CacheIsDisk
  <2> QED
    BY <1>1, <2>1, <2>3, <2>4, SerialFrame DEF Setting
<1>5. CASE InitRootLoaded(r)
  <2> DEFINE new == [req[r].cfg EXCEPT !.provider = io[r].content.provider]
  <2>1. Prepared(req[r].cfg, x, h)
    BY <1>1, <1>5 DEF InitRootLoaded, InitFlight
  <2>2. /\ req' = [req EXCEPT ![r].at = "initBack", ![r].cfg = new]
        /\ UNCHANGED <<disk, zone, issued, domainName, cache>>
    BY <1>1, <1>5 DEF InitRootLoaded, attachVars, envVars, Asked
  <2>3. Prepared(new, x, h)
    BY <1>1, <2>1 DEF Prepared, Known, Data, GoodFile, Unclaimed
  <2> HIDE DEF new
  <2>4. /\ req'[r].at = "initBack" /\ req'[r].host = h /\ req'[r].cfg = new
        /\ io'[r].op = "read" /\ utilsPath' = Home(h)
    BY <1>1, <1>5, <2>2 DEF Asked, Utils!Open, Utils!Pending, InitRootLoaded
  <2>5. Prepared(req[r].cfg, disk[Home(req[r].host)], req[r].host)'
    BY <2>2, <2>3, <2>4 DEF Prepared
  <2>6. InitFlight(req[r], io[r])' /\ HandlerFlight(req[r], io[r])'
    BY <1>1, <2>2, <2>4, <2>5 DEF InitFlight, HandlerFlight
  <2>7. CacheIsDisk'
    BY <1>1, <2>2 DEF CacheIsDisk
  <2> QED
    BY <1>1, <2>2, <2>4, <2>6, <2>7, SerialFrame DEF Setting
<1>6. CASE InitBackLoaded(r)
  <2>1. Prepared(req[r].cfg, x, h)
    BY <1>1, <1>6 DEF InitBackLoaded, InitFlight
  <2> QED
    BY <1>1, <1>6, <2>1, UseWalletSerial DEF InitBackLoaded
<1>7. CASE InitSaved(r)
  <2>1. UNCHANGED <<disk, zone, issued, domainName>>
    BY <1>7 DEF InitSaved, envVars
  <2>2. /\ req'[r].at = "info" /\ req'[r].host = h
        /\ io'[r].op = "read" /\ io'[r].store = "utils" /\ io'[r].file = Home(h)
    BY <1>1, <1>7 DEF Asked, AskInfo, Utils!Open, Utils!Pending, InitSaved
  <2>3. Ready(req[r].host)' /\ CacheIsDisk'
    <3>1. CASE Utils!Saved(r) /\ cache' = [cache EXCEPT ![h] = req[r].cfg.wallet]
      <4>1. x = req[r].cfg /\ req[r].cfg.wallet # None
        BY <1>1, <1>7, <3>1 DEF InitSaved, InitFlight, Utils!Saved, Utils!Waits
      <4> QED
        BY <1>1, <2>1, <2>2, <3>1, <4>1 DEF CacheIsDisk, Ready
    <3>2. CASE Utils!Failed(r) /\ UNCHANGED cache
      <4>1. x.wallet = None /\ ~WalletsSaved
        BY <1>1, <1>7, <3>2 DEF InitSaved, InitFlight, FirstSave, Utils!Failed, Utils!Waits
      <4> QED
        BY <1>1, <2>1, <2>2, <3>2, <4>1 DEF CacheIsDisk, Ready
    <3> QED
      BY <1>7, <3>1, <3>2 DEF InitSaved
  <2>4. InitFlight(req[r], io[r])' /\ HandlerFlight(req[r], io[r])'
    BY <2>2, <2>3 DEF InitFlight, HandlerFlight, Reads
  <2> QED
    BY <1>1, <2>1, <2>2, <2>3, <2>4, SerialFrame DEF Setting
<1> QED
  BY <1>3, <1>4, <1>5, <1>6, <1>7 DEF InitLoaded

\* The domain is served.
LEMMA InfoSerial ==
  ASSUME Serial, SerialInv, [Next]_vars, NEW r \in Request,
         InfoLoaded(r) \/ InfoRootLoaded(r)
  PROVE  SerialInv'
<1> DEFINE h == req[r].host
<1>1. /\ domainName = h /\ CacheIsDisk
      /\ req \in [Request -> Asked(DOMAIN issued)] /\ io \in [Request -> Waiting(DOMAIN issued)]
      /\ req[r] \in Asked(DOMAIN issued) /\ InitFlight(req[r], io[r])
  BY OneRequest DEF SerialInv, InfoLoaded, InfoRootLoaded
<1>2. Ready(h)
  BY <1>1 DEF InfoLoaded, InfoRootLoaded, InitFlight
<1>3. UNCHANGED <<disk, zone, issued, domainName, cache>>
  BY DEF InfoLoaded, InfoRootLoaded, envVars
<1>4. CacheIsDisk'
  BY <1>1, <1>3 DEF CacheIsDisk
<1>5. CASE /\ InfoLoaded(r) /\ Utils!Peek(r, Root)
           /\ req' = [req EXCEPT ![r].at = "infoRoot", ![r].cfg = io[r].content]
  <2>1. req'[r].at = "infoRoot" /\ req'[r].host = h /\ io'[r].op = "read"
    BY <1>1, <1>5 DEF Asked, Utils!Peek, Utils!Pending
  <2>2. Ready(req[r].host)'
    BY <1>2, <1>3, <2>1 DEF Ready
  <2>3. InitFlight(req[r], io[r])' /\ HandlerFlight(req[r], io[r])'
    BY <1>3, <2>1, <2>2 DEF InitFlight, HandlerFlight
  <2> QED
    BY <1>1, <1>3, <1>4, <2>1, <2>3, SerialFrame DEF Setting
<1>6. ASSUME req'[r].at = "handler", req'[r].host = h
      PROVE  SerialInv'
  <2>1. InitFlight(req[r], io[r])' /\ HandlerFlight(req[r], io[r])'
    BY <1>6 DEF InitFlight, HandlerFlight
  <2> QED
    BY <1>1, <1>2, <1>3, <1>4, <1>6, <2>1, SerialFrame DEF Ready
<1>7. CASE (InfoLoaded(r) /\ Goto(r, "handler")) \/ InfoRootLoaded(r)
  <2>1. req'[r].at = "handler" /\ req'[r].host = h
    BY <1>1, <1>7 DEF Goto, InfoRootLoaded, Asked
  <2> QED
    BY <1>6, <2>1
<1> QED
  BY <1>5, <1>7 DEF InfoLoaded

\* A step of a handler that writes no file.
LEMMA HandlerFrame ==
  ASSUME Serial, SerialInv, [Next]_vars, NEW r \in Request,
         req[r].at \notin Setting, req[r].at # "idle",
         UNCHANGED <<disk, attachVars, zone>>, GoodFiles',
         \/ req'[r] = Rest
         \/ /\ req'[r].at \in {"loading", "dns", "saving"} /\ req'[r].host = req[r].host
            /\ HandlerFlight(req[r], io[r])'
  PROVE  SerialInv'
<1>1. /\ \A s \in Request : s = r
      /\ domainName = req[r].host /\ CacheIsDisk /\ ServesName /\ domainName # None
  BY OneRequest DEF SerialInv
<1>2. TypesInv' /\ CacheIsDisk'
  BY <1>1, TypesStep DEF SerialInv, CacheIsDisk, attachVars
<1>3. ServesName'
  BY <1>1 DEF ServesName, attachVars
<1>4. InitFlight(req[r], io[r])' /\ HandlerFlight(req[r], io[r])'
  BY DEF InitFlight, HandlerFlight, Rest
<1>5. req'[r].at # "idle" => domainName' = req'[r].host
  BY <1>1 DEF Rest, attachVars
<1>6. \A s \in Request : Flight(s)'
  BY <1>1, <1>4, <1>5 DEF Flight
<1> QED
  BY <1>2, <1>3, <1>6 DEF SerialInv

LEMMA StartHandlerSerial ==
  ASSUME Serial, SerialInv, [Next]_vars, NEW r \in Request, StartHandler(r)
  PROVE  SerialInv'
<1>1. /\ req[r] \in Asked(DOMAIN issued) /\ req[r].at = "handler" /\ GoodFiles
      /\ req \in [Request -> Asked(DOMAIN issued)] /\ io \in [Request -> Waiting(DOMAIN issued)]
  BY OneRequest DEF SerialInv, StartHandler
<1>2. /\ req'[r].at = "loading" /\ req'[r].host = req[r].host /\ req'[r].route = req[r].route
      /\ UNCHANGED <<disk, attachVars, zone, issued>>
  BY <1>1 DEF StartHandler, Goto, Asked, envVars
<1>3. req[r].route # "fido" =>
        /\ io'[r].op = "read" /\ io'[r].store = StoreOf(req[r].route)
        /\ io'[r].file = Home(req[r].host) /\ PathOf(req[r].route)' = Home(req[r].host)
  <2>1. CASE req[r].route = "initialize"
    BY <1>1, <1>2, <2>1 DEF StartHandler, Utils!Open, Utils!Pending, StoreOf, PathOf
  <2>2. CASE req[r].route \in {"query", "post", "dns"}
    BY <1>1, <1>2, <2>2 DEF StartHandler, Attach!Open, Attach!Pending, StoreOf, PathOf
  <2> QED
    BY <2>1, <2>2 DEF StartHandler
<1>4. io'[r].op = "read"
  BY <1>1 DEF StartHandler, Utils!Open, Attach!Open, Utils!Pending, Attach!Pending
<1>5. HandlerFlight(req[r], io[r])'
  BY <1>2, <1>3, <1>4 DEF HandlerFlight, Reads, StoreOf, PathOf
<1>6. GoodFiles'
  BY <1>1, <1>2 DEF GoodFiles
<1> QED
  BY <1>1, <1>2, <1>5, <1>6, HandlerFrame DEF Setting

LEMMA FinishSerial ==
  ASSUME Serial, SerialInv, [Next]_vars, NEW r \in Request, Finish(r),
         req[r].at \notin Setting, req[r].at # "idle",
         UNCHANGED <<disk, attachVars, zone, issued>>
  PROVE  SerialInv'
<1>1. GoodFiles'
  BY DEF SerialInv, GoodFiles
<1>2. req'[r] = Rest
  BY DEF Finish, SerialInv, TypesInv
<1> QED
  BY <1>1, <1>2, HandlerFrame

LEMMA ReplySerial ==
  ASSUME Serial, SerialInv, [Next]_vars, NEW r \in Request,
         QueryLoaded(r) \/ PostRepeated(r) \/ SaveDone(r)
  PROVE  SerialInv'
BY FinishSerial DEF QueryLoaded, PostRepeated, SaveDone, Reply, Loaded, Setting, envVars

\* What the handler makes of a good file is good.
LEMMA ChangedIsGood ==
  ASSUME NEW x \in Data, NEW y, NEW route, NEW from, NEW h \in Domain, NEW z, NEW made,
         z \in [Domain -> SUBSET Token],
         GoodFile(x, h, z, made), DOMAIN made \subseteq Token,
         ChangedTo(x, y, route, from, h, z, made)
  PROVE  /\ GoodFile(y, h, z, made) /\ y.wallet = x.wallet
         /\ x.domain => y.domain
<1>1. /\ x.wallet # None => x.domain
      /\ \A t \in Token : t # None
  BY DomainAssumption DEF GoodFile
<1>2. CASE /\ route = "post" /\ ~x.verified /\ x.token = None
           /\ \E t \in DOMAIN made :
                /\ made[t] = [domain |-> h, to |-> from]
                /\ y = [x EXCEPT !.pending = TRUE, !.token = t, !.challenger = from,
                                 !.provider = TRUE]
  <2>1. PICK t \in DOMAIN made :
          /\ made[t] = [domain |-> h, to |-> from]
          /\ y = [x EXCEPT !.pending = TRUE, !.token = t, !.challenger = from, !.provider = TRUE]
    BY <1>2
  <2>2. /\ y.domain = x.domain /\ y.wallet = x.wallet /\ y.verified = x.verified
        /\ y.pending /\ y.token = t /\ y.challenger = from
    BY <2>1 DEF Data
  <2> QED
    BY <1>1, <1>2, <2>1, <2>2 DEF GoodFile
<1>3. CASE /\ route = "dns" /\ x.token \in z[h] /\ x.challenger = from
           /\ y = Completed(x, from)
  <2>1. /\ y.domain = x.domain /\ y.wallet = x.wallet /\ y.verified /\ y.admin = from
        /\ y.token = None /\ y.challenger = None
    BY <1>3 DEF Completed, Data
  <2>2. x.token # None
    BY <1>1, <1>3
  <2> QED
    BY <1>1, <1>3, <2>1, <2>2 DEF GoodFile
<1>4. CASE y = [x EXCEPT !.domain = TRUE, !.pending = TRUE, !.provider = TRUE]
  <2>1. /\ y.domain /\ y.wallet = x.wallet /\ y.verified = x.verified /\ y.admin = x.admin
        /\ y.token = x.token /\ y.challenger = x.challenger /\ y.pending
    BY <1>4 DEF Data
  <2> QED
    BY <1>1, <2>1 DEF GoodFile
<1> QED
  BY <1>2, <1>3, <1>4 DEF ChangedTo

LEMMA PostChallengeSerial ==
  ASSUME Serial, SerialInv, [Next]_vars, NEW r \in Request, PostChallenge(r)
  PROVE  SerialInv'
<1> DEFINE h == req[r].host
           x == disk[Home(h)]
<1>1. /\ h \in Domain /\ x \in Known(DOMAIN issued) /\ GoodFile(x, h, zone, issued)
      /\ req \in [Request -> Asked(DOMAIN issued)] /\ io \in [Request -> Waiting(DOMAIN issued)]
      /\ req[r] \in Asked(DOMAIN issued) /\ HandlerFlight(req[r], io[r])
      /\ req[r].at = "loading" /\ req[r].route = "post" /\ TypesInv
  BY OneRequest DEF SerialInv, PostChallenge, Loaded
<1>2. /\ io[r].content = x /\ attachPath = Home(h)
  BY <1>1 DEF PostChallenge, HandlerFlight, Reads, StoreOf, PathOf,
              Attach!Got, Attach!Waits
<1>3. PICK t \in Token \ DOMAIN issued : t = CHOOSE u \in Token : u \notin DOMAIN issued
  BY <1>1, PostChallengeTypes
<1> DEFINE new == [x EXCEPT !.pending = TRUE, !.token = t, !.challenger = req[r].from,
                            !.provider = TRUE]
<1>4. /\ attachData' = new /\ req' = [req EXCEPT ![r].at = "saving", ![r].cfg = new]
      /\ issued' = [u \in DOMAIN issued \cup {t} |->
                      IF u = t THEN [domain |-> h, to |-> req[r].from] ELSE issued[u]]
  BY <1>2, <1>3, Zenon DEF PostChallenge
<1>5. /\ UNCHANGED <<disk, attachVars, zone, attachPath>>
      /\ io'[r].store = "attach" /\ io'[r].op = "mkdir"
  BY <1>1 DEF PostChallenge, Attach!Save, Attach!Pending
<1>6. /\ t # None /\ t \in DOMAIN issued' /\ issued'[t] = [domain |-> h, to |-> req[r].from]
      /\ \A u \in DOMAIN issued : u \in DOMAIN issued' /\ issued'[u] = issued[u]
  BY <1>3, <1>4, DomainAssumption
<1>7. new.pending /\ new.token = t
  BY <1>1 DEF Known, Data
<1>8. ~x.verified /\ x.token = None
  BY <1>1, <1>2 DEF PostChallenge, HasChallenge, GoodFile
<1>9. ChangedTo(x, new, "post", req[r].from, h, zone, issued')
  BY <1>6, <1>8 DEF ChangedTo
<1> HIDE DEF new
<1>10. /\ req'[r].at = "saving" /\ req'[r].route = "post" /\ req'[r].host = h
       /\ req'[r].from = req[r].from /\ req'[r].cfg = new
  BY <1>1, <1>4 DEF Asked
<1>11. HandlerFlight(req[r], io[r])'
  BY <1>2, <1>4, <1>5, <1>6, <1>7, <1>9, <1>10
     DEF HandlerFlight, StoreOf, PathOf, MemoryOf, Reported, HasChallenge
<1>12. GoodFiles'
  <2>1. ASSUME NEW d \in Domain
        PROVE  /\ GoodFile(disk[Home(d)], d, zone, issued')
               /\ WalletsSaved => Whole(disk[Home(d)])
    <3>1. /\ GoodFile(disk[Home(d)], d, zone, issued)
          /\ WalletsSaved => Whole(disk[Home(d)])
      BY DEF SerialInv, GoodFiles
    <3> QED
      BY <1>6, <3>1 DEF GoodFile
  <2> QED
    BY <1>5, <2>1 DEF GoodFiles
<1> QED
  BY <1>1, <1>5, <1>10, <1>11, <1>12, HandlerFrame DEF Setting

LEMMA DnsSerial ==
  ASSUME Serial, SerialInv, [Next]_vars, NEW r \in Request, DnsLoaded(r) \/ DnsAnswered(r)
  PROVE  SerialInv'
<1> DEFINE h == req[r].host
           x == disk[Home(h)]
<1>1. /\ h \in Domain /\ x \in Known(DOMAIN issued) /\ GoodFile(x, h, zone, issued)
      /\ req \in [Request -> Asked(DOMAIN issued)] /\ io \in [Request -> Waiting(DOMAIN issued)]
      /\ req[r] \in Asked(DOMAIN issued) /\ HandlerFlight(req[r], io[r])
      /\ req[r].at \in {"loading", "dns"}
  BY OneRequest DEF SerialInv, DnsLoaded, DnsAnswered, Loaded
<1>2. UNCHANGED <<disk, attachVars, zone, issued>> /\ GoodFiles'
  BY DEF DnsLoaded, DnsAnswered, envVars, SerialInv, GoodFiles
<1>3. CASE Finish(r)
  BY <1>1, <1>2, <1>3, FinishSerial DEF Setting
<1>4. CASE /\ DnsLoaded(r) /\ io[r].content.challenger = req[r].from /\ Goto(r, "dns")
  <2>1. io[r].content = x /\ attachPath = Home(h) /\ req[r].route = "dns"
    BY <1>1, <1>4 DEF DnsLoaded, Loaded, HandlerFlight, Reads, StoreOf, PathOf,
       Attach!Got, Attach!Waits
  <2>2. /\ req'[r].at = "dns" /\ req'[r].host = h /\ req'[r].route = "dns"
        /\ req'[r].from = req[r].from /\ attachPath' = Home(h) /\ attachData' = x
    BY <1>1, <1>4, <2>1 DEF DnsLoaded, Attach!Close, Goto, Asked
  <2>3. HandlerFlight(req[r], io[r])'
    BY <1>2, <1>4, <2>1, <2>2 DEF HandlerFlight
  <2> QED
    BY <1>1, <1>2, <2>2, <2>3, HandlerFrame DEF Setting
<1>5. CASE /\ DnsAnswered(r) /\ attachData.token \in zone[h]
           /\ attachData' = Completed(attachData, req[r].from)
           /\ Goto(r, "saving") /\ Attach!Save(r)
  <2>1. /\ attachData = x /\ attachPath = Home(h) /\ req[r].route = "dns"
        /\ x.challenger = req[r].from
    BY <1>1, <1>5 DEF DnsAnswered, HandlerFlight
  <2>2. /\ req'[r].at = "saving" /\ req'[r].host = h /\ req'[r].route = "dns"
        /\ req'[r].from = req[r].from /\ attachPath' = Home(h)
        /\ io'[r].store = "attach" /\ io'[r].op = "mkdir"
    BY <1>1, <1>5, <2>1 DEF DnsAnswered, Attach!Save, Attach!Pending, Goto, Asked
  <2>3. attachData'.verified /\ attachData'.admin = req[r].from
    BY <1>1, <1>5, <2>1 DEF Completed, Known, Data
  <2>4. ChangedTo(x, attachData', "dns", req[r].from, h, zone, issued)
    BY <1>5, <2>1 DEF ChangedTo
  <2>5. HandlerFlight(req[r], io[r])'
    BY <1>2, <2>2, <2>3, <2>4 DEF HandlerFlight, StoreOf, PathOf, MemoryOf, Reported
  <2> QED
    BY <1>1, <1>2, <2>2, <2>5, HandlerFrame DEF Setting
<1> QED
  BY <1>3, <1>4, <1>5 DEF DnsLoaded, DnsAnswered

LEMMA InitializeSerial ==
  ASSUME Serial, SerialInv, [Next]_vars, NEW r \in Request, InitializeLoaded(r)
  PROVE  SerialInv'
<1> DEFINE h == req[r].host
           x == disk[Home(h)]
<1>1. /\ x \in Known(DOMAIN issued) /\ HandlerFlight(req[r], io[r])
      /\ req \in [Request -> Asked(DOMAIN issued)] /\ io \in [Request -> Waiting(DOMAIN issued)]
      /\ req[r] \in Asked(DOMAIN issued)
      /\ req[r].at = "loading" /\ req[r].route = "initialize"
  BY OneRequest DEF SerialInv, InitializeLoaded, Loaded
<1>2. UNCHANGED <<disk, attachVars, zone, issued>> /\ GoodFiles'
  BY DEF InitializeLoaded, envVars, SerialInv, GoodFiles
<1>3. io[r].content = x /\ utilsPath = Home(h)
  BY <1>1 DEF InitializeLoaded, HandlerFlight, Reads, StoreOf, PathOf, Utils!Got, Utils!Waits
<1>4. /\ req'[r].at = "saving" /\ req'[r].host = h /\ req'[r].route = "initialize"
      /\ utilsPath' = Home(h) /\ io'[r].store = "utils" /\ io'[r].op = "mkdir"
  BY <1>1, <1>3 DEF InitializeLoaded, Utils!Save, Utils!Pending, Goto, Asked
<1>5. utilsData'.domain /\ utilsData'.pending
  BY <1>1, <1>3 DEF InitializeLoaded, Known, Data
<1>6. ChangedTo(x, utilsData', "initialize", req'[r].from, h, zone, issued)
  BY <1>3 DEF ChangedTo, InitializeLoaded
<1>7. HandlerFlight(req[r], io[r])'
  BY <1>2, <1>4, <1>5, <1>6 DEF HandlerFlight, StoreOf, PathOf, MemoryOf, Reported
<1> QED
  BY <1>1, <1>2, <1>4, <1>7, HandlerFrame DEF Setting

\* A handler works on a domain that has its wallet, if its save succeeded.
LEMMA ServedHasWallet ==
  ASSUME Serial, SerialInv, WalletsSaved, NEW r \in Request,
         req[r].at \notin Setting, req[r].at # "idle"
  PROVE  disk[Home(req[r].host)] # Blank
<1>1. /\ \A s \in Request : s = r
      /\ domainName = req[r].host /\ domainName # None /\ domainName \in Domain
      /\ CacheIsDisk /\ ServesName
  BY OneRequest DEF SerialInv
<1>2. cache[domainName] # None
  BY <1>1 DEF ServesName
<1> QED
  BY <1>1, <1>2 DEF CacheIsDisk, Blank

Flushes(r) == Attach!Flush(r) \/ Utils!Flush(r)

\* What is written to a file: a first wallet, or what a handler made of the
\* file as it is.
LEMMA WhatIsWritten ==
  ASSUME Serial, SerialInv, NEW r \in Request, Flushes(r)
  PROVE  LET h == req[r].host
             x == disk[Home(h)]
             y == io[r].content
         IN  /\ h \in Domain /\ req[r].at \in {"initSave", "saving"}
             /\ disk' = [disk EXCEPT ![Home(h)] = y]
             /\ io' = [io EXCEPT ![r].op = "flushed"]
             /\ GoodFile(y, h, zone, issued)
             /\ WalletsSaved => Whole(y)
             /\ x.wallet # None => y.wallet = x.wallet
             /\ \/ req[r].at = "initSave" /\ FirstSave(y, x, h)
                \/ req[r].at = "saving"
                     /\ ChangedTo(x, y, req[r].route, req[r].from, h, zone, issued)
<1> DEFINE h == req[r].host
           x == disk[Home(h)]
           y == io[r].content
<1>1. /\ io[r].op = "write" /\ disk' = [disk EXCEPT ![io[r].file] = y]
      /\ io' = [io EXCEPT ![r].op = "flushed"]
  BY DEF Flushes, Attach!Flush, Utils!Flush, Attach!Waits, Utils!Waits
<1>2. /\ req[r] \in Asked(DOMAIN issued) /\ Coherent(req[r], io[r])
      /\ InitFlight(req[r], io[r]) /\ HandlerFlight(req[r], io[r])
  BY OneRequest
<1>3. req[r].at \in {"initSave", "saving"}
  BY <1>1, <1>2 DEF Coherent, InitFlight, HandlerFlight, Reads, Asked, Await
<1>4. /\ h \in Domain /\ x \in Data /\ GoodFile(x, h, zone, issued)
      /\ WalletsSaved => Whole(x)
      /\ zone \in [Domain -> SUBSET Token] /\ DOMAIN issued \subseteq Token
  BY <1>3, OneRequest DEF SerialInv, TypesInv, ClaimTypes, Known
<1>5. CASE req[r].at = "initSave"
  <2>1. io[r].file = Home(h) /\ FirstSave(y, x, h)
    BY <1>1, <1>2, <1>5 DEF InitFlight
  <2> QED
    BY <1>1, <1>4, <1>5, <2>1 DEF FirstSave, Whole
<1>6. CASE req[r].at = "saving"
  <2>1. /\ io[r].file = Home(h)
        /\ ChangedTo(x, y, req[r].route, req[r].from, h, zone, issued)
    BY <1>1, <1>2, <1>6 DEF HandlerFlight
  <2>2. WalletsSaved => x # Blank
    BY <1>6, ServedHasWallet DEF Setting
  <2>3. GoodFile(y, h, zone, issued) /\ y.wallet = x.wallet /\ (x.domain => y.domain)
    BY <1>4, <2>1, ChangedIsGood
  <2>4. WalletsSaved => Whole(y)
    BY <1>4, <2>2, <2>3 DEF Whole
  <2> QED
    BY <1>1, <1>4, <1>6, <2>1, <2>3, <2>4
<1> QED
  BY <1>3, <1>5, <1>6

LEMMA FileSerial ==
  ASSUME Serial, SerialInv, [Next]_vars, NEW r \in Request, FileStep(r)
  PROVE  SerialInv'
<1> DEFINE h == req[r].host
           x == io[r]
<1>1. /\ \A s \in Request : s = r
      /\ io \in [Request -> Waiting(DOMAIN issued)] /\ x \in Waiting(DOMAIN issued)
      /\ req[r] \in Asked(DOMAIN issued) /\ Coherent(req[r], x)
      /\ InitFlight(req[r], x) /\ HandlerFlight(req[r], x) /\ Flight(r)
      /\ CacheIsDisk /\ ServesName
      /\ "init" \notin ReadFaults /\ "loading" \notin ReadFaults
  BY OneRequest DEF SerialInv, Serial, HandlersRead
<1>2. /\ UNCHANGED <<attachPath, attachData, utilsPath, utilsData, attachVars, req, zone, issued>>
  BY DEF FileStep, envVars
<1>3. ASSUME disk' = disk, InitFlight(req[r], io[r])', HandlerFlight(req[r], io[r])'
      PROVE  SerialInv'
  <2>1. CacheIsDisk'
    BY <1>1, <1>2, <1>3 DEF CacheIsDisk, attachVars
  <2>2. WalletsSaved /\ domainName' # None /\ req'[r].at \notin Setting =>
          cache'[domainName'] # None
    BY <1>1, <1>2 DEF ServesName, attachVars
  <2>3. req'[r].at # "idle" => domainName' = req'[r].host
    BY <1>1, <1>2 DEF Flight, attachVars
  <2> QED
    BY <1>2, <1>3, <2>1, <2>2, <2>3, SerialFrame
<1>4. CASE Attach!Fetch(r) \/ Utils!Fetch(r)
  <2>1. /\ x.op = "read" /\ disk' = disk
        /\ io' = [io EXCEPT ![r].op = "fetched", ![r].content = disk[x.file]]
    BY <1>4 DEF Attach!Fetch, Utils!Fetch, Attach!Waits, Utils!Waits
  <2>2. /\ io'[r].op = "fetched" /\ io'[r].content = disk[x.file]
        /\ io'[r].file = x.file /\ io'[r].store = x.store
    BY <1>1, <2>1 DEF Waiting
  <2>3. req[r].at \in {"init", "initRoot", "initBack", "info", "infoRoot", "loading"}
    BY <1>1, <2>1 DEF Coherent, InitFlight, HandlerFlight, Asked, Await
  <2>4. InitFlight(req[r], io[r])'
    BY <1>1, <1>2, <2>1, <2>2, <2>3 DEF InitFlight, Reads, Ready, Prepared, attachVars
  <2>5. HandlerFlight(req[r], io[r])'
    BY <1>1, <1>2, <2>1, <2>2, <2>3 DEF HandlerFlight, Reads, PathOf
  <2> QED
    BY <1>3, <2>1, <2>4, <2>5
<1>5. CASE Attach!Write(r) \/ Utils!Write(r)
  <2>1. /\ x.op = "mkdir" /\ disk' = disk
        /\ \/ /\ x.store = "attach"
              /\ io' = [io EXCEPT ![r].op = "write", ![r].file = attachPath, ![r].content = attachData]
           \/ /\ x.store = "utils"
              /\ io' = [io EXCEPT ![r].op = "write", ![r].file = utilsPath, ![r].content = utilsData]
    BY <1>5 DEF Attach!Write, Utils!Write, Attach!Waits, Utils!Waits
  <2>2. /\ io'[r].op = "write" /\ io'[r].store = x.store
        /\ x.store = "attach" => io'[r].file = attachPath /\ io'[r].content = attachData
        /\ x.store = "utils" => io'[r].file = utilsPath /\ io'[r].content = utilsData
    BY <1>1, <2>1 DEF Waiting
  <2>3. req[r].at \in {"initSave", "saving"}
    BY <1>1, <2>1 DEF Coherent, InitFlight, HandlerFlight, Reads, Asked, Await
  <2>4. InitFlight(req[r], io[r])'
    BY <1>1, <1>2, <2>1, <2>2, <2>3 DEF InitFlight, FirstSave, attachVars
  <2>5. HandlerFlight(req[r], io[r])'
    BY <1>1, <1>2, <2>1, <2>2, <2>3 DEF HandlerFlight, StoreOf, PathOf, MemoryOf
  <2> QED
    BY <1>3, <2>1, <2>4, <2>5
<1>6. CASE Flushes(r)
  <2> DEFINE y == io[r].content
  <2>1. /\ h \in Domain /\ req[r].at \in {"initSave", "saving"} /\ Home(h) \in Path
        /\ disk' = [disk EXCEPT ![Home(h)] = y]
        /\ io' = [io EXCEPT ![r].op = "flushed"]
        /\ GoodFile(y, h, zone, issued) /\ (WalletsSaved => Whole(y))
        /\ disk[Home(h)].wallet # None => y.wallet = disk[Home(h)].wallet
        /\ disk \in [Path -> Known(DOMAIN issued)]
    BY <1>6, WhatIsWritten, Paths DEF SerialInv, TypesInv, MemoryTypes
  <2>2. /\ disk'[Home(h)] = y
        /\ \A d \in Domain : d # h => disk'[Home(d)] = disk[Home(d)]
    BY <2>1, Paths, PathsDiffer
  <2>3. GoodFiles'
    <3> SUFFICES ASSUME NEW d \in Domain
                 PROVE  /\ GoodFile(disk'[Home(d)], d, zone, issued)
                        /\ WalletsSaved => Whole(disk'[Home(d)])
      BY <1>2 DEF GoodFiles
    <3> QED
      BY <2>1, <2>2 DEF SerialInv, GoodFiles
  <2>4. CacheIsDisk'
    BY <1>1, <1>2, <2>1, <2>2 DEF CacheIsDisk, attachVars
  <2>5. ServesName' /\ TypesInv'
    BY <1>1, <1>2, TypesStep DEF ServesName, attachVars, SerialInv
  <2>6. x.op = "write" /\ io'[r].op = "flushed" /\ io'[r].store = x.store
    BY <1>1, <1>6, <2>1 DEF Waiting, Flushes, Attach!Flush, Utils!Flush, Attach!Waits, Utils!Waits
  <2>7. InitFlight(req[r], io[r])'
    BY <1>1, <1>2, <2>1, <2>2, <2>6 DEF InitFlight, FirstSave, attachVars
  <2>8. HandlerFlight(req[r], io[r])'
    BY <1>1, <1>2, <2>1, <2>2, <2>6 DEF HandlerFlight, PathOf, MemoryOf
  <2>9. \A s \in Request : Flight(s)'
    BY <1>1, <1>2, <2>7, <2>8 DEF Flight, attachVars
  <2> QED
    BY <2>3, <2>4, <2>5, <2>9 DEF SerialInv
<1>7. CASE req[r].at \in SaveFaults /\ (Attach!Fail(r) \/ Utils!Fail(r))
  <2>1. /\ x.op \in {"mkdir", "write"} /\ disk' = disk /\ req[r].at \in SaveFaults
        /\ io' = [io EXCEPT ![r].op = "failed"]
    BY <1>7 DEF Attach!Fail, Utils!Fail, Attach!Waits, Utils!Waits
  <2>2. io'[r].op = "failed" /\ io'[r].store = x.store
    BY <1>1, <2>1 DEF Waiting
  <2>3. req[r].at \in {"initSave", "saving"} /\ (req[r].at = "initSave" => ~WalletsSaved)
    BY <2>1, DomainAssumption DEF WalletsSaved
  <2>4. InitFlight(req[r], io[r])'
    BY <1>1, <1>2, <2>1, <2>2, <2>3 DEF InitFlight, FirstSave, attachVars
  <2>5. HandlerFlight(req[r], io[r])'
    BY <1>1, <1>2, <2>1, <2>2, <2>3 DEF HandlerFlight, PathOf, MemoryOf
  <2> QED
    BY <1>3, <2>1, <2>4, <2>5
<1>8. CASE req[r].at \in ReadFaults /\ (Attach!FetchNothing(r) \/ Utils!FetchNothing(r))
  <2>1. /\ disk' = disk /\ req[r].at \in {"initRoot", "initBack", "info", "infoRoot"}
        /\ io' = [io EXCEPT ![r].op = "fetched", ![r].content = Blank]
    BY <1>1, <1>8, DomainAssumption DEF Attach!FetchNothing, Utils!FetchNothing
  <2>2. io'[r].op = "fetched"
    BY <1>1, <2>1 DEF Waiting
  <2>3. InitFlight(req[r], io[r])'
    BY <1>1, <1>2, <2>1, <2>2 DEF InitFlight, Ready, Prepared, attachVars
  <2>4. HandlerFlight(req[r], io[r])'
    BY <1>2, <2>1 DEF HandlerFlight
  <2> QED
    BY <1>3, <2>1, <2>3, <2>4
<1> QED
  BY <1>4, <1>5, <1>6, <1>7, <1>8 DEF FileStep, Flushes

LEMMA ArriveSerial ==
  ASSUME Serial, SerialInv, [Next]_vars, NEW r \in Request, NEW h \in Domain,
         NEW route \in Route, NEW a \in Address, Arrive(r, h, route, a)
  PROVE  SerialInv'
<1>1. /\ \A s \in Request : s = r
      /\ io \in [Request -> Waiting(DOMAIN issued)]
      /\ req \in [Request -> Asked(DOMAIN issued)]
      /\ CacheIsDisk /\ ServesName /\ req[r].at = "idle" /\ h # None
  BY OneRequest, DomainAssumption DEF SerialInv, Arrive, Rest
<1>2. UNCHANGED <<disk, cache, served, zone, issued>> /\ domainName' = h
  BY DEF Arrive, envVars
<1>3. CacheIsDisk'
  BY <1>1, <1>2 DEF CacheIsDisk
<1>4. CASE domainName = h /\ req'[r].at = "handler" /\ req'[r].host = h
  <2>1. InitFlight(req[r], io[r])' /\ HandlerFlight(req[r], io[r])'
    BY <1>4 DEF InitFlight, HandlerFlight
  <2>2. WalletsSaved => cache[h] # None
    BY <1>1, <1>4 DEF ServesName, Setting
  <2> QED
    BY <1>2, <1>3, <1>4, <2>1, <2>2, SerialFrame
<1>5. CASE /\ req'[r].at = "info" /\ req'[r].host = h
           /\ cache[h] # None /\ AskInfo(r, h)
  <2>1. io'[r].op = "read" /\ io'[r].store = "utils" /\ io'[r].file = Home(h)
    BY <1>1, <1>5 DEF AskInfo, Utils!Open, Utils!Pending
  <2>2. Ready(h)'
    BY <1>1, <1>2, <1>5 DEF Ready, CacheIsDisk
  <2>3. InitFlight(req[r], io[r])' /\ HandlerFlight(req[r], io[r])'
    BY <1>2, <1>5, <2>1, <2>2 DEF InitFlight, HandlerFlight, Reads
  <2> QED
    BY <1>2, <1>3, <1>5, <2>3, SerialFrame DEF Setting
<1>6. CASE /\ req'[r].at = "init" /\ req'[r].host = h /\ cache[h] = None
           /\ Utils!Open(r, Home(h))
  <2>1. /\ io'[r].op = "read" /\ io'[r].store = "utils" /\ io'[r].file = Home(h)
        /\ utilsPath' = Home(h)
    BY <1>1, <1>6 DEF Utils!Open, Utils!Pending
  <2>2. InitFlight(req[r], io[r])' /\ HandlerFlight(req[r], io[r])'
    BY <1>2, <1>6, <2>1 DEF InitFlight, HandlerFlight, Reads
  <2> QED
    BY <1>2, <1>3, <1>6, <2>2, SerialFrame DEF Setting
<1> QED
  BY <1>1, <1>4, <1>5, <1>6 DEF Arrive

\* What is published stays published.
LEMMA PublishSerial ==
  ASSUME Serial, SerialInv, [Next]_vars, NEW d \in Domain, NEW t \in Token, Publish(d, t)
  PROVE  SerialInv'
<1>1. /\ UNCHANGED <<disk, attachPath, attachData, utilsPath, utilsData, io, cache, domainName,
                     served, req, issued>>
      /\ zone' = [zone EXCEPT ![d] = @ \cup {t}]
      /\ zone \in [Domain -> SUBSET Token]
  BY DEF Publish, configVars, attachVars, SerialInv, TypesInv, ClaimTypes
<1>2. \A e \in Domain : zone[e] \subseteq zone'[e]
  BY <1>1
<1>3. GoodFiles'
  <2> SUFFICES ASSUME NEW e \in Domain
               PROVE  /\ GoodFile(disk[Home(e)], e, zone', issued)
                      /\ WalletsSaved => Whole(disk[Home(e)])
    BY <1>1 DEF GoodFiles
  <2>1. /\ GoodFile(disk[Home(e)], e, zone, issued)
        /\ WalletsSaved => Whole(disk[Home(e)])
    BY DEF SerialInv, GoodFiles
  <2> QED
    BY <1>2, <2>1 DEF GoodFile
<1>4. TypesInv' /\ CacheIsDisk' /\ ServesName'
  BY <1>1, TypesStep DEF SerialInv, CacheIsDisk, ServesName
<1>5. ASSUME NEW r \in Request
      PROVE  Flight(r)'
  <2>1. /\ InitFlight(req[r], io[r]) /\ HandlerFlight(req[r], io[r])
        /\ req[r].at # "idle" => domainName = req[r].host /\ req[r].host \in Domain
    BY OneRequest
  <2>2. CASE req[r].at = "idle"
    BY <1>1, <2>1, <2>2 DEF Flight, InitFlight, HandlerFlight
  <2>3. CASE req[r].at # "idle"
    <3>1. req[r].host \in Domain
      BY <2>1, <2>3
    <3>2. \A x, y, route, from :
            ChangedTo(x, y, route, from, req[r].host, zone, issued)
              => ChangedTo(x, y, route, from, req[r].host, zone', issued)
      BY <1>2, <3>1 DEF ChangedTo
    <3>3. HandlerFlight(req[r], io[r])'
      BY <1>1, <2>1, <3>2 DEF HandlerFlight, Reads, PathOf, MemoryOf
    <3>4. ASSUME NEW x, GoodFile(x, req[r].host, zone, issued)
          PROVE  GoodFile(x, req[r].host, zone', issued)
      BY <1>2, <3>1, <3>4 DEF GoodFile
    <3>5. InitFlight(req[r], io[r])'
      BY <1>1, <2>1, <3>4 DEF InitFlight, Reads, Ready, Prepared, FirstSave
    <3> QED
      BY <1>1, <2>1, <3>3, <3>5 DEF Flight
  <2> QED
    BY <2>2, <2>3
<1> QED
  BY <1>3, <1>4, <1>5 DEF SerialInv

LEMMA RestartSerial ==
  ASSUME Serial, SerialInv, [Next]_vars, Restart
  PROVE  SerialInv'
<1>1. TypesInv' /\ GoodFiles'
  BY TypesStep DEF SerialInv, GoodFiles, Restart, envVars
<1>2. CacheIsDisk' /\ ServesName'
  BY DEF Restart, CacheIsDisk, ServesName, NoCache
<1>3. \A r \in Request : Flight(r)'
  BY DEF Restart, NoRequests, Rest, Flight, InitFlight, HandlerFlight
<1> QED
  BY <1>1, <1>2, <1>3 DEF SerialInv

LEMMA StutterSerial ==
  ASSUME SerialInv, UNCHANGED vars
  PROVE  SerialInv'
<1>1. TypesInv'
  BY StutterTypes DEF SerialInv
<1>2. UNCHANGED <<disk, attachPath, attachData, utilsPath, utilsData, io, cache, domainName,
                  served, req, zone, issued, told>>
  BY DEF vars, configVars, attachVars, envVars
<1> QED
  BY <1>1, <1>2 DEF SerialInv, GoodFiles, CacheIsDisk, ServesName, Flight, InitFlight,
     HandlerFlight, Reads, Ready, Prepared, FirstSave, PathOf, MemoryOf

LEMMA SerialStep ==
  ASSUME Serial, SerialInv, [Next]_vars
  PROVE  SerialInv'
<1>1. ASSUME NEW r \in Request, Step(r)
      PROVE  SerialInv'
  BY <1>1, InitSerial, InfoSerial, StartHandlerSerial, ReplySerial, PostChallengeSerial,
     DnsSerial, InitializeSerial, FileSerial DEF Step
<1> QED
  BY <1>1, ArriveSerial, PublishSerial, RestartSerial, StutterSerial DEF Next

LEMMA InitSerialInv ==
  ASSUME Init
  PROVE  SerialInv
<1>1. \A d \in Domain : disk[Home(d)] = Blank
  BY Paths, PathsDiffer DEF Init, Blank
<1>2. /\ ~Blank.verified /\ Blank.token = None /\ Blank.challenger = None
      /\ Blank.wallet = None
  BY DEF Blank
<1>3. GoodFiles
  BY <1>1, <1>2 DEF GoodFiles, GoodFile, Whole
<1>4. CacheIsDisk /\ ServesName /\ \A r \in Request : Flight(r)
  BY DEF Init, CacheIsDisk, ServesName, NoCache, NoRequests, Rest, Flight, InitFlight,
         HandlerFlight
<1> QED
  BY <1>3, <1>4, InitTypesInv DEF SerialInv

\* Of a server that answers one request after the other, every file, the
\* cache and the request in flight agree.
THEOREM SerialServerIsConsistent == ASSUME Serial PROVE Spec => []SerialInv
<1>1. Init => SerialInv
  BY InitSerialInv
<1>2. SerialInv /\ [Next]_vars => SerialInv'
  BY SerialStep
<1> QED
  BY <1>1, <1>2, PTL DEF Spec

-----------------------------------------------------------------------------
(***************************************************************************)
(* What one step does to the files.                                        *)
(***************************************************************************)

\* The files change only when a write reaches them.
LEMMA OnlyFlushes ==
  ASSUME [Next]_vars
  PROVE  disk' = disk \/ \E r \in Request : Flushes(r) /\ UNCHANGED <<zone, issued>>
<1>1. ASSUME NEW r \in Request, FileStep(r)
      PROVE  disk' = disk \/ (Flushes(r) /\ UNCHANGED <<zone, issued>>)
  BY <1>1 DEF FileStep, envVars, Flushes, Attach!Fetch, Utils!Fetch, Attach!Write, Utils!Write,
     Attach!Fail, Utils!Fail, Attach!FetchNothing, Utils!FetchNothing
<1>2. ASSUME NEW r \in Request, Step(r)
      PROVE  disk' = disk \/ (Flushes(r) /\ UNCHANGED <<zone, issued>>)
  BY <1>1, <1>2 DEF Step, InitLoaded, InitRootLoaded, InitBackLoaded, InitSaved, InfoLoaded,
     InfoRootLoaded, StartHandler, QueryLoaded, PostRepeated, PostChallenge, DnsLoaded,
     DnsAnswered, InitializeLoaded, SaveDone
<1>3. ASSUME NEW r \in Request, NEW h \in Domain, NEW route \in Route, NEW a \in Address,
             Arrive(r, h, route, a)
      PROVE  disk' = disk
  BY <1>3 DEF Arrive
<1>4. ASSUME NEW d \in Domain, NEW t \in Token, Publish(d, t)
      PROVE  disk' = disk
  BY <1>4 DEF Publish, configVars
<1>5. ASSUME Restart \/ UNCHANGED vars
      PROVE  disk' = disk
  BY <1>5 DEF Restart, vars, configVars
<1> QED
  BY <1>2, <1>3, <1>4, <1>5 DEF Next

\* The zones change only when somebody publishes.
LEMMA OnlyPublish ==
  ASSUME [Next]_vars
  PROVE  UNCHANGED zone \/ \E d \in Domain, t \in Token : Publish(d, t)
<1>1. ASSUME NEW r \in Request, Step(r)
      PROVE  UNCHANGED zone
  BY <1>1 DEF Step, InitLoaded, InitRootLoaded, InitBackLoaded, InitSaved, InfoLoaded,
     InfoRootLoaded, StartHandler, QueryLoaded, PostRepeated, PostChallenge, DnsLoaded,
     DnsAnswered, InitializeLoaded, SaveDone, FileStep, envVars
<1> QED
  BY <1>1 DEF Next, Arrive, Restart, vars, envVars

\* No write replaces or loses a wallet that was saved for a domain.
THEOREM WalletAlwaysKept == ASSUME Serial PROVE Spec => WalletKept
<1>1. ASSUME Serial, SerialInv, [Next]_vars
      PROVE  [\A d \in Domain : disk[Home(d)].wallet # None
                => disk'[Home(d)].wallet = disk[Home(d)].wallet]_disk
  <2>1. CASE disk' = disk
    BY <2>1
  <2>2. ASSUME NEW r \in Request, Flushes(r), NEW d \in Domain, disk[Home(d)].wallet # None
        PROVE  disk'[Home(d)].wallet = disk[Home(d)].wallet
    <3>1. /\ req[r].host \in Domain /\ disk \in [Path -> Known(DOMAIN issued)]
          /\ disk' = [disk EXCEPT ![Home(req[r].host)] = io[r].content]
          /\ disk[Home(req[r].host)].wallet # None
               => io[r].content.wallet = disk[Home(req[r].host)].wallet
      BY <1>1, <2>2, WhatIsWritten DEF SerialInv, TypesInv, MemoryTypes
    <3> QED
      BY <2>2, <3>1, Paths, PathsDiffer
  <2> QED
    BY <1>1, <2>1, <2>2, OnlyFlushes
<1> QED
  BY <1>1, SerialServerIsConsistent, PTL DEF Spec, WalletKept

-----------------------------------------------------------------------------
(***************************************************************************)
(* The files implement the claim of ClaimSpec.                             *)
(***************************************************************************)

\* The claims of all domains.
Claims == [d \in Domain |-> ClaimOf(disk[Home(d)])]

\* What a handler makes of a file is a step of the claim, or none.
LEMMA HandlersClaim ==
  ASSUME Serial, SerialInv, NEW x \in Data, NEW y \in Data, NEW route, NEW from, NEW h \in Domain,
         GoodFile(x, h, zone, issued), ChangedTo(x, y, route, from, h, zone, issued)
  PROVE  \/ \E a \in Address, t \in Token :
              ClaimOf(x) = Abstract!Free /\ ClaimOf(y) = Abstract!Challenged(a, t)
         \/ /\ ClaimOf(x).is = "challenged" /\ ClaimOf(x).token \in zone[h]
            /\ ClaimOf(y) = Abstract!Claimed(ClaimOf(x).by)
         \/ ClaimOf(y) = ClaimOf(x)
<1>1. /\ zone[h] \subseteq Token /\ None \notin Token /\ DOMAIN issued \subseteq Token
      /\ \A t \in DOMAIN issued : issued[t] \in [domain : Domain, to : Address]
  BY DomainAssumption DEF SerialInv, TypesInv, ClaimTypes
<1>2. ASSUME ~x.verified, x.token = None, NEW t \in DOMAIN issued,
             issued[t] = [domain |-> h, to |-> from],
             y = [x EXCEPT !.pending = TRUE, !.token = t, !.challenger = from, !.provider = TRUE]
      PROVE  from \in Address /\ t \in Token
               /\ ClaimOf(x) = Abstract!Free /\ ClaimOf(y) = Abstract!Challenged(from, t)
  <2>1. ClaimOf(x) = Abstract!Free
    BY <1>2 DEF ClaimOf, HasChallenge, Abstract!Free
  <2>2. from \in Address /\ t \in Token /\ t # None
    BY <1>1, <1>2
  <2>3. ~y.verified /\ y.pending /\ y.token = t /\ y.challenger = from
    BY <1>2 DEF Data
  <2> QED
    BY <2>1, <2>2, <2>3 DEF ClaimOf, HasChallenge, Abstract!Challenged
<1>3. CASE x.token \in zone[h] /\ x.challenger = from /\ y = Completed(x, from)
  <2>1. x.token # None /\ x.pending /\ ~x.verified
    BY <1>1, <1>3 DEF GoodFile
  <2>2. ClaimOf(x) = [is |-> "challenged", by |-> from, token |-> x.token]
    BY <1>3, <2>1 DEF ClaimOf, HasChallenge
  <2>3. y.verified /\ y.admin = from
    BY <1>3 DEF Completed, Data
  <2> QED
    BY <1>3, <2>2, <2>3 DEF ClaimOf, Abstract!Claimed
<1>4. CASE y = [x EXCEPT !.domain = TRUE, !.pending = TRUE, !.provider = TRUE]
  <2>1. /\ y.verified = x.verified /\ y.token = x.token /\ y.admin = x.admin
        /\ y.challenger = x.challenger /\ y.pending
    BY <1>4 DEF Data
  <2> QED
    BY <2>1 DEF ClaimOf, HasChallenge, GoodFile
<1> QED
  BY <1>2, <1>3, <1>4 DEF ChangedTo

\* A write to a file is a step of its domain's claim, or none.
LEMMA FlushClaims ==
  ASSUME Serial, WalletsSaved, SerialInv, NEW r \in Request, Flushes(r),
         UNCHANGED <<zone, issued>>
  PROVE  [Abstract!Next]_(Abstract!vars)
<1> DEFINE h == req[r].host
           x == disk[Home(h)]
           y == io[r].content
<1>1. /\ h \in Domain /\ disk' = [disk EXCEPT ![Home(h)] = y]
      /\ disk \in [Path -> Known(DOMAIN issued)]
      /\ x \in Data /\ y \in Data /\ GoodFile(x, h, zone, issued)
      /\ \/ x = Blank /\ FirstSave(y, x, h)
         \/ ChangedTo(x, y, req[r].route, req[r].from, h, zone, issued)
  BY WhatIsWritten, OneRequest, Paths
     DEF SerialInv, TypesInv, MemoryTypes, GoodFiles, Known, FirstSave, Whole
<1>2. Claims' = [Claims EXCEPT ![h] = ClaimOf(y)] /\ Claims[h] = ClaimOf(x)
  <2>1. disk'[Home(h)] = y /\ \A d \in Domain : d # h => disk'[Home(d)] = disk[Home(d)]
    BY <1>1, Paths, PathsDiffer
  <2>2. \A d \in Domain : Claims'[d] = IF d = h THEN ClaimOf(y) ELSE Claims[d]
    BY <2>1 DEF Claims
  <2> QED
    BY <1>1, <2>2 DEF Claims
<1>3. CASE x = Blank /\ FirstSave(y, x, h)
  <2>1. ClaimOf(y) = ClaimOf(x)
    BY <1>3 DEF ClaimOf, HasChallenge, FirstSave, Unclaimed, Blank
  <2>2. Claims' = Claims
    BY <1>2, <2>1 DEF Claims
  <2> QED
    BY <2>2 DEF Abstract!vars, Claims
<1>4. CASE ChangedTo(x, y, req[r].route, req[r].from, h, zone, issued)
  <2>1. ASSUME NEW a \in Address, NEW t \in Token,
               ClaimOf(x) = Abstract!Free, ClaimOf(y) = Abstract!Challenged(a, t)
        PROVE  Abstract!Challenge
    BY <1>1, <1>2, <2>1 DEF Abstract!Challenge, Claims
  <2>2. CASE /\ ClaimOf(x).is = "challenged" /\ ClaimOf(x).token \in zone[h]
             /\ ClaimOf(y) = Abstract!Claimed(ClaimOf(x).by)
    BY <1>1, <1>2, <2>2 DEF Abstract!Next, Abstract!Complete, Claims
  <2>3. CASE ClaimOf(y) = ClaimOf(x)
    <3>1. Claims' = Claims
      BY <1>2, <2>3 DEF Claims
    <3> QED
      BY <3>1 DEF Abstract!vars, Claims
  <2> QED
    BY <1>1, <1>4, <2>1, <2>2, <2>3, HandlersClaim DEF Abstract!Next
<1> QED
  BY <1>1, <1>3, <1>4

\* Every step of the server is a step of the claims, or none.
LEMMA ClaimSteps ==
  ASSUME Serial, WalletsSaved, SerialInv, [Next]_vars
  PROVE  [Abstract!Next]_(Abstract!vars)
<1>1. CASE \E r \in Request : Flushes(r) /\ UNCHANGED <<zone, issued>>
  BY <1>1, FlushClaims
<1>2. CASE UNCHANGED <<disk, zone>>
  BY <1>2 DEF Abstract!vars
<1>3. ASSUME NEW d \in Domain, NEW t \in Token, Publish(d, t)
      PROVE  Abstract!Next
  BY <1>3 DEF Publish, configVars, Abstract!Next, Abstract!Publish
<1>4. UNCHANGED zone \/ \E d \in Domain, t \in Token : Publish(d, t)
  BY OnlyPublish
<1> QED
  BY <1>1, <1>2, <1>3, <1>4, OnlyFlushes

\* The claim routes implement the claim of ClaimSpec: a first challenge per
\* domain, a claim by who asked for it once it is published, and nothing else.
\* A wallet must have been saved when it was first made: a file that a claim
\* has made without one is dropped for the next wallet, and the claim with it.
THEOREM ClaimImplemented == ASSUME Serial, WalletsSaved PROVE Spec => ImplementsClaimSpec
<1>1. Init => Abstract!Init
  <2> SUFFICES ASSUME Init
               PROVE  Abstract!Init
    OBVIOUS
  <2>1. \A d \in Domain : disk[Home(d)] = Blank
    BY Paths, PathsDiffer DEF Init, Blank
  <2>2. \A d \in Domain : ClaimOf(disk[Home(d)]) = Abstract!Free
    BY <2>1 DEF ClaimOf, HasChallenge, Blank, Abstract!Free
  <2> QED
    BY <2>2 DEF Init, Abstract!Init
<1>2. ASSUME Serial, WalletsSaved, SerialInv, [Next]_vars
      PROVE  [Abstract!Next]_(Abstract!vars)
  BY <1>2, ClaimSteps
<1> QED
  BY <1>1, <1>2, SerialServerIsConsistent, PTL DEF Spec, ImplementsClaimSpec, Abstract!Spec

\* What a step of the claims does to one of them.
LEMMA OneClaimSteps ==
  ASSUME [Abstract!Next]_(Abstract!vars), NEW d \in Domain
  PROVE  \/ ClaimOf(disk'[Home(d)]) = ClaimOf(disk[Home(d)])
         \/ ClaimOf(disk[Home(d)]).is = "free"
         \/ ClaimOf(disk[Home(d)]).is = "challenged" /\ ClaimOf(disk'[Home(d)]).is = "claimed"
<1>1. Claims[d] = ClaimOf(disk[Home(d)]) /\ Claims'[d] = ClaimOf(disk'[Home(d)])
  BY DEF Claims
<1>2. CASE Abstract!Challenge
  <2>1. PICK e \in Domain, a \in Address, t \in Token :
          Claims[e] = Abstract!Free /\ Claims' = [Claims EXCEPT ![e] = Abstract!Challenged(a, t)]
    BY <1>2 DEF Abstract!Challenge, Claims
  <2>2. CASE e = d
    BY <1>1, <2>1, <2>2 DEF Abstract!Free
  <2>3. CASE e # d
    BY <1>1, <2>1, <2>3 DEF Claims
  <2> QED
    BY <2>2, <2>3
<1>3. CASE Abstract!Complete
  <2>1. PICK e \in Domain :
          Claims[e].is = "challenged" /\ Claims' = [Claims EXCEPT ![e] = Abstract!Claimed(Claims[e].by)]
    BY <1>3 DEF Abstract!Complete, Claims
  <2>2. CASE e = d
    <3>1. Claims'[d] = Abstract!Claimed(Claims[d].by)
      BY <2>1, <2>2 DEF Claims
    <3> QED
      BY <1>1, <2>1, <2>2, <3>1 DEF Abstract!Claimed
  <2>3. CASE e # d
    BY <1>1, <2>1, <2>3 DEF Claims
  <2> QED
    BY <2>2, <2>3
<1>4. CASE Claims' = Claims
  BY <1>1, <1>4
<1> QED
  BY <1>2, <1>3, <1>4 DEF Abstract!Next, Abstract!Publish, Abstract!vars, Claims

\* A domain that has an administrator keeps that one: no route, restart or
\* late write takes a claim back (auth.mjs:102-106 only refuses to start another).
AdministratorIsFinal ==
  [][\A d \in Domain :
       disk[Home(d)].verified =>
         disk'[Home(d)].verified /\ disk'[Home(d)].admin = disk[Home(d)].admin]_disk

THEOREM AdministratorForGood == ASSUME Serial, WalletsSaved PROVE Spec => AdministratorIsFinal
<1>1. ASSUME Serial, WalletsSaved, SerialInv, [Next]_vars
      PROVE  [\A d \in Domain :
                disk[Home(d)].verified =>
                  disk'[Home(d)].verified /\ disk'[Home(d)].admin = disk[Home(d)].admin]_disk
  <2> SUFFICES ASSUME NEW d \in Domain, disk[Home(d)].verified
               PROVE  disk'[Home(d)].verified /\ disk'[Home(d)].admin = disk[Home(d)].admin
    OBVIOUS
  <2>1. ClaimOf(disk[Home(d)]) = [is |-> "claimed", by |-> disk[Home(d)].admin, token |-> None]
    BY DEF ClaimOf
  <2>2. ClaimOf(disk'[Home(d)]) = [is |-> "claimed", by |-> disk[Home(d)].admin, token |-> None]
    BY <1>1, <2>1, ClaimSteps, OneClaimSteps
  <2> QED
    BY <2>2 DEF ClaimOf
<1> QED
  BY <1>1, SerialServerIsConsistent, PTL DEF Spec, AdministratorIsFinal

\* Only a new challenge, and a wallet that is being made, are carried by a request.
CarriesNothing(q) ==
  q.at \in {"idle", "info", "handler", "loading", "dns"} \/ (q.at = "saving" /\ q.route # "post")
    => q.cfg = Blank

CarriedInv == \A r \in Request : CarriesNothing(req[r])

LEMMA CarriedAlways == Spec => []CarriedInv
<1>1. Init => CarriedInv
  BY DEF Init, NoRequests, Rest, CarriesNothing, CarriedInv
<1>2. ASSUME TypesInv, CarriedInv, [Next]_vars
      PROVE  CarriedInv'
  <2>1. \A r \in Request : req[r] \in Asked(DOMAIN issued)
    BY <1>2 DEF TypesInv, MemoryTypes
  <2>2. req \in [Request -> Asked(DOMAIN issued)]
    BY <1>2 DEF TypesInv, MemoryTypes
  <2>3. ASSUME NEW r \in Request, Step(r)
        PROVE  /\ \A s \in Request : s # r => req'[s] = req[s]
               /\ CarriesNothing(req'[r])
    <3>1. CASE InitLoaded(r)
      BY <1>2, <2>2, <3>1 DEF InitLoaded, UseWallet, CarriesNothing, Asked, CarriedInv
    <3>2. CASE InitRootLoaded(r)
      BY <1>2, <2>2, <3>2 DEF InitRootLoaded, CarriesNothing, Asked, CarriedInv
    <3>3. CASE InitBackLoaded(r)
      BY <1>2, <2>2, <3>3 DEF InitBackLoaded, UseWallet, CarriesNothing, Asked, CarriedInv
    <3>4. CASE InitSaved(r)
      BY <1>2, <2>2, <3>4 DEF InitSaved, CarriesNothing, Asked, CarriedInv
    <3>5. CASE InfoLoaded(r) \/ InfoRootLoaded(r)
      BY <1>2, <2>2, <3>5 DEF InfoLoaded, InfoRootLoaded, Goto, CarriesNothing, Asked, CarriedInv
    <3>6. CASE StartHandler(r)
      BY <1>2, <2>2, <3>6 DEF StartHandler, Goto, CarriesNothing, Asked, CarriedInv
    <3>7. CASE QueryLoaded(r) \/ PostRepeated(r) \/ SaveDone(r)
      BY <2>2, <3>7 DEF QueryLoaded, PostRepeated, SaveDone, Reply, Finish, Rest, CarriesNothing
    <3>8. CASE PostChallenge(r)
      BY <2>2, <3>8 DEF PostChallenge, Loaded, CarriesNothing, Asked
    <3>9. CASE DnsLoaded(r)
      BY <1>2, <2>2, <3>9 DEF DnsLoaded, Loaded, Goto, Finish, Rest, CarriesNothing, Asked, CarriedInv
    <3>10. CASE DnsAnswered(r)
      BY <1>2, <2>2, <3>10 DEF DnsAnswered, Goto, Finish, Rest, CarriesNothing, Asked, CarriedInv
    <3>11. CASE InitializeLoaded(r)
      BY <1>2, <2>2, <3>11 DEF InitializeLoaded, Loaded, Goto, CarriesNothing, Asked, CarriedInv
    <3>12. CASE FileStep(r)
      BY <1>2, <3>12 DEF FileStep, CarriedInv
    <3> QED
      BY <2>3, <3>1, <3>2, <3>3, <3>4, <3>5, <3>6, <3>7, <3>8, <3>9, <3>10, <3>11, <3>12 DEF Step
  <2>4. ASSUME NEW r \in Request, NEW h \in Domain, NEW route \in Route, NEW a \in Address,
               Arrive(r, h, route, a)
        PROVE  /\ \A s \in Request : s # r => req'[s] = req[s]
               /\ CarriesNothing(req'[r])
    BY <2>2, <2>4 DEF Arrive, CarriesNothing
  <2>5. CASE Restart
    BY <2>5 DEF Restart, NoRequests, Rest, CarriesNothing, CarriedInv
  <2>6. CASE UNCHANGED req
    BY <1>2, <2>6 DEF CarriedInv
  <2> QED
    BY <1>2, <2>3, <2>4, <2>5, <2>6 DEF Next, Publish, vars, CarriedInv
<1> QED
  BY <1>1, <1>2, TypesAlways, PTL DEF Spec

\* What a step tells, and what becomes of the tokens.
LEMMA ToldSteps ==
  ASSUME TypesInv, [Next]_vars
  PROVE  /\ \A t \in DOMAIN issued : t \in DOMAIN issued' /\ issued'[t] = issued[t]
         /\ \/ told' = told
            \/ \E r \in Request : QueryLoaded(r) \/ PostRepeated(r) \/ SaveDone(r)
<1>1. ASSUME NEW r \in Request, Step(r), ~QueryLoaded(r), ~PostRepeated(r), ~SaveDone(r),
             ~PostChallenge(r)
      PROVE  UNCHANGED <<told, issued>>
  BY <1>1 DEF Step, InitLoaded, InitRootLoaded, InitBackLoaded, InitSaved, InfoLoaded,
     InfoRootLoaded, StartHandler, DnsLoaded, DnsAnswered, InitializeLoaded, FileStep, envVars
<1>2. ASSUME NEW r \in Request, PostChallenge(r)
      PROVE  /\ told' = told
             /\ \A t \in DOMAIN issued : t \in DOMAIN issued' /\ issued'[t] = issued[t]
  <2> DEFINE new == CHOOSE x \in Token : x \notin DOMAIN issued
  <2>1. new \notin DOMAIN issued
    BY <1>2, PostChallengeTypes
  <2>2. /\ told' = told
        /\ issued' = [x \in DOMAIN issued \cup {new} |->
                        IF x = new THEN [domain |-> req[r].host, to |-> req[r].from]
                                   ELSE issued[x]]
    BY <1>2 DEF PostChallenge
  <2> QED
    BY <2>1, <2>2
<1>3. ASSUME NEW r \in Request, QueryLoaded(r) \/ PostRepeated(r) \/ SaveDone(r)
      PROVE  issued' = issued
  BY <1>3 DEF QueryLoaded, PostRepeated, SaveDone
<1>4. CASE UNCHANGED <<told, issued>>
  BY <1>4
<1> QED
  BY <1>1, <1>2, <1>3, <1>4 DEF Next, Arrive, Publish, Restart, vars, envVars

THEOREM ToldAlwaysGood == ASSUME Serial, WalletsSaved PROVE Spec => []ToldIsGood
<1>1. Init => ToldIsGood
  BY DEF Init, ToldIsGood
<1>2. ASSUME Serial, WalletsSaved, SerialInv, CarriedInv, ToldIsGood,
             [Next]_vars
      PROVE  ToldIsGood'
  <2>1. told \subseteq DOMAIN issued /\ \A t \in DOMAIN issued : issued[t].domain \in Domain
    BY <1>2 DEF SerialInv, TypesInv, ClaimTypes
  <2>2. TypesInv
    BY <1>2 DEF SerialInv
  <2>3. \A t \in DOMAIN issued : t \in DOMAIN issued' /\ issued'[t] = issued[t]
    BY <1>2, <2>2, ToldSteps
  <2>4. ASSUME NEW t \in told
        PROVE  LET c == ClaimOf(disk'[Home(issued'[t].domain)])
               IN  c.is = "claimed" \/ (c.is = "challenged" /\ c.token = t)
    <3> DEFINE d == issued[t].domain
    <3>1. d \in Domain /\ issued'[t].domain = d
      BY <2>1, <2>3, <2>4
    <3>2. ClaimOf(disk[Home(d)]).is = "claimed"
            \/ (ClaimOf(disk[Home(d)]).is = "challenged" /\ ClaimOf(disk[Home(d)]).token = t)
      BY <1>2, <2>4 DEF ToldIsGood
    <3>3. \/ ClaimOf(disk'[Home(d)]) = ClaimOf(disk[Home(d)])
          \/ ClaimOf(disk[Home(d)]).is = "free"
          \/ ClaimOf(disk[Home(d)]).is = "challenged" /\ ClaimOf(disk'[Home(d)]).is = "claimed"
      BY <1>2, <3>1, ClaimSteps, OneClaimSteps
    <3> QED
      BY <3>1, <3>2, <3>3
  <2>5. ASSUME NEW r \in Request, QueryLoaded(r) \/ PostRepeated(r) \/ SaveDone(r),
               NEW t \in told', t \notin told
        PROVE  /\ UNCHANGED <<disk, issued>>
               /\ LET c == ClaimOf(disk[Home(issued[t].domain)])
                  IN  c.is = "challenged" /\ c.token = t
    <3> DEFINE x == disk[Home(req[r].host)]
    <3>1. UNCHANGED <<disk, issued>>
      BY <2>5, <1>2 DEF QueryLoaded, PostRepeated, SaveDone
    <3>2. /\ req[r].at # "idle" => GoodFile(x, req[r].host, zone, issued)
          /\ HandlerFlight(req[r], io[r]) /\ CarriesNothing(req[r])
      BY <1>2, OneRequest DEF CarriedInv
    <3>3. HasChallenge(x) /\ x.token = t /\ req[r].at # "idle"
      <4>1. CASE QueryLoaded(r) \/ PostRepeated(r)
        <5>1. /\ req[r].at = "loading" /\ req[r].route \in {"query", "post"}
              /\ io[r].op = "fetched"
          BY <2>5, <4>1 DEF QueryLoaded, PostRepeated, Loaded, Attach!Got, Attach!Waits
        <5>2. HasChallenge(io[r].content) /\ t = io[r].content.token
          BY <2>5, <4>1 DEF QueryLoaded, PostRepeated
        <5>3. io[r].content = x
          BY <3>2, <5>1 DEF HandlerFlight, Reads
        <5> QED
          BY <5>1, <5>2, <5>3
      <4>2. CASE SaveDone(r)
        <5>1. /\ req[r].at = "saving" /\ io[r].op = "flushed"
              /\ t = req[r].cfg.token /\ t # None
          BY <2>5, <4>2 DEF SaveDone, Attach!Saved, Attach!Waits
        <5>2. req[r].route = "post"
          BY <3>2, <5>1 DEF CarriesNothing, Blank
        <5>3. /\ x = MemoryOf(req[r].route)
              /\ Reported(MemoryOf(req[r].route), req[r].route, req[r].from, req[r].cfg)
          BY <3>2, <5>1 DEF HandlerFlight
        <5> QED
          BY <5>1, <5>2, <5>3 DEF Reported
      <4> QED
        BY <2>5, <4>1, <4>2
    <3>4. t # None /\ ~x.verified /\ issued[t].domain = req[r].host
      BY <3>2, <3>3 DEF GoodFile, HasChallenge
    <3>5. ClaimOf(x).is = "challenged" /\ ClaimOf(x).token = t
      BY <3>3, <3>4 DEF ClaimOf
    <3> QED
      BY <3>1, <3>4, <3>5
  <2> QED
    BY <1>2, <2>2, <2>4, <2>5, ToldSteps DEF ToldIsGood
<1> QED
  BY <1>1, <1>2, SerialServerIsConsistent, CarriedAlways, PTL DEF Spec

=============================================================================
