---------------------------- MODULE DomainServer ----------------------------
(***************************************************************************)
(* The server process: the attach middleware (index.mjs), which makes the  *)
(* requested host the current domain and its wallet (Utils.ts), and the    *)
(* routes that read and write the domains' config files (routes/auth.mjs,  *)
(* domain.mjs, fido.mjs).  Two Config objects are shared by all requests:  *)
(* Attach (epistery.config) by the claim and fido routes, Utils            *)
(* (Utils.config) by the wallets and by /domain/initialize.                *)
(*                                                                         *)
(* A request runs until it awaits; an action is what it does between two   *)
(* awaits, and while it waits other requests run.  Request is the set of   *)
(* requests that can be in flight at once.  The process may stop and       *)
(* start again at any await.  Of a request's errors only those are kept    *)
(* that depend on the state; sessions, names and times are left out.       *)
(***************************************************************************)
EXTENDS FiniteSets, Naturals

CONSTANTS
  Domain,       \* the hosts the server is asked for
  Address,      \* the clients' addresses
  Token,        \* challenge tokens
  Wallet,       \* wallets that can be created
  None,         \* none of these
  Request,      \* requests in flight
  Route,        \* the routes that clients use
  SaveFaults,   \* the awaits at which a save may throw
  ReadFaults,   \* the awaits at which a read of a file that is there may fail
  RootProvider, \* does the root config name a default provider?
  StrayRecords  \* may a domain's owner publish the challenge of another one?

ASSUME DomainAssumption ==
  /\ None \notin Domain \cup Address \cup Token \cup Wallet
  /\ Wallet # {} /\ IsFiniteSet(Token) /\ IsFiniteSet(Request)
  /\ Route \subseteq {"query", "post", "dns", "initialize", "fido"}
  /\ SaveFaults \subseteq {"initSave", "saving"}
  /\ ReadFaults \subseteq {"init", "initRoot", "initBack", "info", "infoRoot", "loading"}
  /\ RootProvider \in BOOLEAN /\ StrayRecords \in BOOLEAN

VARIABLES
  disk,        \* [Path -> Data]: the config files
  attachPath,  \* epistery.config
  attachData,
  utilsPath,   \* Utils.config
  utilsData,
  io,          \* [Request -> what it waits for], see ConfigStore
  cache,       \* [Domain -> Wallet \cup {None}]             walletCache
  domainName,  \* epistery.domainName
  served,      \* epistery.domain: of whom, and with which wallet
  req,         \* [Request -> where it is, for which host, by whom]
  zone,        \* [Domain -> set of tokens]: the DNS TXT records
  issued,      \* token -> the domain and the address it was made for
  told         \* the tokens that were in a reply

configVars == <<disk, attachPath, attachData, utilsPath, utilsData, io>>
attachVars == <<cache, domainName, served>>
envVars    == <<zone, issued, told>>
vars       == <<configVars, attachVars, req, envVars>>

Root    == <<>>
Home(d) == <<d>>
Fido(d) == <<d, "fido">>
Path    == {Root} \cup {Home(d) : d \in Domain} \cup {Fido(d) : d \in Domain}

\* The fields of a domain's config that some code looks at.
Data == [domain : BOOLEAN, provider : BOOLEAN, wallet : Wallet \cup {None},
         pending : BOOLEAN, token : Token \cup {None}, challenger : Address \cup {None},
         verified : BOOLEAN, admin : Address \cup {None}]

Blank == [domain |-> FALSE, provider |-> FALSE, wallet |-> None,
          pending |-> FALSE, token |-> None, challenger |-> None,
          verified |-> FALSE, admin |-> None]

Attach == INSTANCE ConfigStore WITH Name <- "attach", path <- attachPath, data <- attachData
Utils  == INSTANCE ConfigStore WITH Name <- "utils", path <- utilsPath, data <- utilsData

attachUnused == UNCHANGED <<attachPath, attachData>>
utilsUnused  == UNCHANGED <<utilsPath, utilsData>>

Await == {"idle", "init", "initRoot", "initBack", "initSave", "info", "infoRoot",
          "handler", "loading", "dns", "saving"}

\* A request that is not there.
Rest == [at |-> "idle", route |-> "none", host |-> None, from |-> None, cfg |-> Blank]

TypeOK ==
  /\ disk \in [Path -> Data]
  /\ attachPath \in Path /\ attachData \in Data
  /\ utilsPath \in Path /\ utilsData \in Data
  /\ \A r \in Request :
       /\ io[r].op \in {"none", "read", "fetched", "mkdir", "write", "flushed", "failed"}
       /\ io[r].file \in Path /\ io[r].content \in Data
       /\ io[r].op = "none" <=> req[r].at \in {"idle", "handler", "dns"}
  /\ cache \in [Domain -> Wallet \cup {None}]
  /\ domainName \in Domain \cup {None}
  /\ served \in [host : Domain \cup {None}, wallet : Wallet \cup {None}]
  /\ req \in [Request -> [at : Await, route : Route \cup {"none"},
                          host : Domain \cup {None}, from : Address \cup {None}, cfg : Data]]
  /\ zone \in [Domain -> SUBSET Token]
  /\ DOMAIN issued \subseteq Token
  /\ \A t \in DOMAIN issued : issued[t] \in [domain : Domain, to : Address]
  /\ told \subseteq DOMAIN issued

Goto(r, at) == req' = [req EXCEPT ![r].at = at]
Finish(r)   == req' = [req EXCEPT ![r] = Rest]

-----------------------------------------------------------------------------
(***************************************************************************)
(* Utils.InitServerWallet and Utils.GetDomainInfo, within setDomain.       *)
(***************************************************************************)

\* The wallets that nobody has.
Unused ==
  {w \in Wallet :
    /\ \A p \in Path : disk[p].wallet # w
    /\ \A d \in Domain : cache[d] # w
    /\ attachData.wallet # w /\ utilsData.wallet # w
    /\ \A r \in Request : req[r].cfg.wallet # w /\ io[r].content.wallet # w}

\* A new key: which one makes no difference, only that nobody has it.
NewWallet == CHOOSE w \in Wallet : Unused # {} => w \in Unused

\* GetDomainInfo, up to its await.
AskInfo(r, h) == Utils!Open(r, Home(h))

\* Mutant: the wallet is cached before it is saved.
UseWalletEarly(r, dc, loaded) ==
  \/ /\ dc.wallet = None
     /\ LET new == [dc EXCEPT !.wallet = NewWallet]
        IN  /\ utilsData' = new
            /\ cache' = [cache EXCEPT ![req[r].host] = new.wallet]
            /\ req' = [req EXCEPT ![r].at = "initSave", ![r].cfg = new]
     /\ Utils!Save(r)
  \/ /\ dc.wallet # None
     /\ utilsData' = loaded
     /\ cache' = [cache EXCEPT ![req[r].host] = dc.wallet]
     /\ req' = [req EXCEPT ![r].at = "info", ![r].cfg = Blank]
     /\ AskInfo(r, req[r].host)

\* The second half of InitServerWallet, once the domain's config dc (with the
\* provider filled in) is there; loaded is the file the object has loaded.
\* A provider that the chain registry refuses, for want of a chainId, which
\* both routes that store one ask for, is left out.
UseWallet(r, dc, loaded) ==
  \/ /\ dc.wallet = None
     /\ LET new == [dc EXCEPT !.wallet = NewWallet]
        IN  /\ utilsData' = new
            /\ req' = [req EXCEPT ![r].at = "initSave", ![r].cfg = new]
     /\ Utils!Save(r)
     /\ UNCHANGED cache
  \/ /\ dc.wallet # None
     /\ utilsData' = loaded
     /\ cache' = [cache EXCEPT ![req[r].host] = dc.wallet]
     /\ req' = [req EXCEPT ![r].at = "info", ![r].cfg = Blank]
     /\ AskInfo(r, req[r].host)

\* The domain's file is read: what lacks a domain field is not used.
InitLoaded(r) ==
  /\ req[r].at = "init" /\ Utils!Got(r)
  /\ LET loaded == io[r].content
         dc     == IF loaded.domain THEN loaded ELSE [Blank EXCEPT !.domain = TRUE]
     IN  \/ dc.provider /\ UseWallet(r, dc, loaded)
         \/ /\ ~dc.provider
            /\ utilsData' = loaded
            /\ req' = [req EXCEPT ![r].at = "initRoot", ![r].cfg = dc]
            /\ Utils!Open(r, Root)
            /\ UNCHANGED cache
  /\ attachUnused
  /\ UNCHANGED <<disk, domainName, served, envVars>>

\* The root file is read for its provider; the path goes back to the domain.
InitRootLoaded(r) ==
  /\ req[r].at = "initRoot" /\ Utils!Got(r)
  /\ utilsData' = io[r].content
  /\ req' = [req EXCEPT ![r].at = "initBack", ![r].cfg.provider = io[r].content.provider]
  /\ Utils!Open(r, Home(req[r].host))
  /\ attachUnused
  /\ UNCHANGED <<disk, attachVars, envVars>>

InitBackLoaded(r) ==
  /\ req[r].at = "initBack" /\ Utils!Got(r)
  /\ UseWallet(r, req[r].cfg, io[r].content)
  /\ attachUnused
  /\ UNCHANGED <<disk, domainName, served, envVars>>

\* The new wallet is saved, and cached; if the save has thrown there is none.
InitSaved(r) ==
  /\ req[r].at = "initSave"
  /\ \/ Utils!Saved(r) /\ cache' = [cache EXCEPT ![req[r].host] = req[r].cfg.wallet]
     \/ Utils!Failed(r) /\ UNCHANGED cache
  /\ req' = [req EXCEPT ![r].at = "info", ![r].cfg = Blank]
  /\ AskInfo(r, req[r].host)
  /\ UNCHANGED utilsData
  /\ attachUnused
  /\ UNCHANGED <<disk, domainName, served, envVars>>

\* What the server is for its clients: the domain it serves, with its wallet.
Serve(r, wallet) == served' = [host |-> req[r].host, wallet |-> wallet]

InfoLoaded(r) ==
  /\ req[r].at = "info" /\ Utils!Got(r)
  /\ LET loaded == io[r].content
     IN  /\ utilsData' = loaded
         /\ \/ /\ loaded.domain /\ ~loaded.provider
               /\ req' = [req EXCEPT ![r].at = "infoRoot", ![r].cfg = loaded]
               /\ Utils!Peek(r, Root)
               /\ UNCHANGED served
            \/ /\ loaded.domain => loaded.provider
               /\ Serve(r, IF loaded.domain THEN loaded.wallet ELSE None)
               /\ Goto(r, "handler")
               /\ Utils!Close(r)
  /\ attachUnused
  /\ UNCHANGED <<disk, cache, domainName, envVars>>

\* The provider is filled in: the domain's config is the very data of the
\* object, unless that has loaded something else since.
InfoRootLoaded(r) ==
  /\ req[r].at = "infoRoot" /\ Utils!Got(r)
  /\ utilsData' = IF utilsData = req[r].cfg
                    THEN [utilsData EXCEPT !.provider = io[r].content.provider]
                    ELSE utilsData
  /\ Serve(r, req[r].cfg.wallet)
  /\ req' = [req EXCEPT ![r].at = "handler", ![r].cfg = Blank]
  /\ Utils!Close(r)
  /\ attachUnused
  /\ UNCHANGED <<disk, cache, domainName, envVars>>

-----------------------------------------------------------------------------
(***************************************************************************)
(* The routes.                                                             *)
(***************************************************************************)

\* The handler is called and sets the path of its Config object: between the
\* middleware and the handler a body is parsed or a Bot header is verified,
\* which are awaits too.  The fido routes take the server's current domain,
\* the others the request's host.
StartHandler(r) ==
  /\ req[r].at = "handler"
  /\ \/ /\ req[r].route = "initialize"
        /\ Utils!Open(r, Home(req[r].host)) /\ UNCHANGED attachPath
     \/ /\ req[r].route = "fido"
        /\ Attach!Open(r, Fido(domainName)) /\ UNCHANGED utilsPath
     \/ /\ req[r].route \in {"query", "post", "dns"}
        /\ Attach!Open(r, Home(req[r].host)) /\ UNCHANGED utilsPath
  /\ Goto(r, "loading")
  /\ UNCHANGED <<disk, attachData, utilsData, attachVars, envVars>>

\* The file of a request of this route is read.
Loaded(r, route) == req[r].at = "loading" /\ req[r].route = route

\* The handler replies without having written anything.
Reply(r) ==
  /\ attachData' = io[r].content
  /\ Finish(r)
  /\ Attach!Close(r)

HasChallenge(d) == d.pending /\ d.token # None

\* GET account/claim and POST account/check-admin only read, and so do the
\* fido routes as far as the config files are concerned.  The first of them
\* replies with the challenge that is pending.
QueryLoaded(r) ==
  /\ Loaded(r, "query") \/ Loaded(r, "fido")
  /\ Attach!Got(r)
  /\ \/ UNCHANGED told
     \/ /\ req[r].route = "query"
        /\ ~io[r].content.verified /\ HasChallenge(io[r].content)
        /\ told' = told \cup {io[r].content.token}
  /\ Reply(r)
  /\ utilsUnused
  /\ UNCHANGED <<disk, attachVars, zone, issued>>

\* POST account/claim: a challenge that is there already is sent again.
PostRepeated(r) ==
  /\ Loaded(r, "post") /\ Attach!Got(r)
  /\ \/ io[r].content.verified /\ UNCHANGED told
     \/ /\ ~io[r].content.verified /\ HasChallenge(io[r].content)
        /\ told' = told \cup {io[r].content.token}
  /\ Reply(r)
  /\ utilsUnused
  /\ UNCHANGED <<disk, attachVars, zone, issued>>

\* Mutant: a new challenge is made although there is one.
PostChallengeAlways(r) ==
  /\ Loaded(r, "post") /\ Attach!Got(r)
  /\ ~io[r].content.verified
  /\ LET t   == CHOOSE x \in Token : x \notin DOMAIN issued
         new == [io[r].content EXCEPT !.pending = TRUE, !.token = t,
                   !.challenger = req[r].from, !.provider = TRUE]
     IN  /\ attachData' = new
         /\ issued' = [x \in DOMAIN issued \cup {t} |->
                         IF x = t THEN [domain |-> req[r].host, to |-> req[r].from]
                                  ELSE issued[x]]
         /\ req' = [req EXCEPT ![r].at = "saving", ![r].cfg = new]
  /\ Attach!Save(r)
  /\ utilsUnused
  /\ UNCHANGED <<disk, attachVars, zone, told>>

\* Otherwise a new one is made, and saved.
PostChallenge(r) ==
  /\ Loaded(r, "post") /\ Attach!Got(r)
  /\ ~io[r].content.verified /\ ~HasChallenge(io[r].content)
  /\ LET t   == CHOOSE x \in Token : x \notin DOMAIN issued
         new == [io[r].content EXCEPT !.pending = TRUE, !.token = t,
                   !.challenger = req[r].from, !.provider = TRUE]
     IN  /\ attachData' = new
         /\ issued' = [x \in DOMAIN issued \cup {t} |->
                         IF x = t THEN [domain |-> req[r].host, to |-> req[r].from]
                                  ELSE issued[x]]
         /\ req' = [req EXCEPT ![r].at = "saving", ![r].cfg = new]
  /\ Attach!Save(r)
  /\ utilsUnused
  /\ UNCHANGED <<disk, attachVars, zone, told>>

\* Mutant: anybody may have the challenge looked up.
DnsLoadedAnyone(r) ==
  /\ Loaded(r, "dns") /\ Attach!Got(r)
  /\ \/ ~io[r].content.pending /\ Finish(r)
     \/ io[r].content.pending /\ Goto(r, "dns")
  /\ attachData' = io[r].content
  /\ Attach!Close(r)
  /\ utilsUnused
  /\ UNCHANGED <<disk, attachVars, envVars>>

\* GET dns/claim: who asked for the challenge may have it looked up.
DnsLoaded(r) ==
  /\ Loaded(r, "dns") /\ Attach!Got(r)
  /\ \/ /\ ~(io[r].content.pending /\ io[r].content.challenger = req[r].from)
        /\ Finish(r)
     \/ /\ io[r].content.pending /\ io[r].content.challenger = req[r].from
        /\ Goto(r, "dns")
  /\ attachData' = io[r].content
  /\ Attach!Close(r)
  /\ utilsUnused
  /\ UNCHANGED <<disk, attachVars, envVars>>

\* Mutant: the administrator is not recorded.
CompletedByNobody(d, a) ==
  [d EXCEPT !.verified = TRUE, !.pending = FALSE, !.token = None, !.challenger = None]

\* The data of a domain whose claim by a is complete.
Completed(d, a) ==
  [d EXCEPT !.verified = TRUE, !.admin = a,
            !.pending = FALSE, !.token = None, !.challenger = None]

\* Mutant: without the record there is no reply.
DnsAnsweredOrSilent(r) ==
  /\ req[r].at = "dns"
  /\ attachData.token \in zone[req[r].host]
  /\ attachData' = Completed(attachData, req[r].from)
  /\ Goto(r, "saving")
  /\ Attach!Save(r)
  /\ utilsUnused
  /\ UNCHANGED <<disk, attachVars, envVars>>

\* The TXT records are there, or the lookup fails: they are compared with
\* the data that the shared object has now.
DnsAnswered(r) ==
  /\ req[r].at = "dns"
  /\ \/ /\ Finish(r)
        /\ attachUnused
        /\ UNCHANGED io
     \/ /\ attachData.token \in zone[req[r].host]
        /\ attachData' = Completed(attachData, req[r].from)
        /\ Goto(r, "saving")
        /\ Attach!Save(r)
  /\ utilsUnused
  /\ UNCHANGED <<disk, attachVars, envVars>>

\* Mutant: the config is written anew instead of being completed.
InitializeAnew(r) ==
  /\ Loaded(r, "initialize") /\ Utils!Got(r)
  /\ utilsData' = [Blank EXCEPT !.domain = TRUE, !.pending = TRUE, !.provider = TRUE]
  /\ Goto(r, "saving")
  /\ Utils!Save(r)
  /\ attachUnused
  /\ UNCHANGED <<disk, attachVars, envVars>>

\* POST domain/initialize
InitializeLoaded(r) ==
  /\ Loaded(r, "initialize") /\ Utils!Got(r)
  /\ utilsData' = [io[r].content EXCEPT !.domain = TRUE, !.pending = TRUE, !.provider = TRUE]
  /\ Goto(r, "saving")
  /\ Utils!Save(r)
  /\ attachUnused
  /\ UNCHANGED <<disk, attachVars, envVars>>

\* Mutant: the save is not awaited.
SaveNotAwaited(r) ==
  /\ req[r].at = "saving"
  /\ Finish(r)
  /\ UNCHANGED <<configVars, attachVars, envVars>>

\* The save is done or has thrown, and the handler replies.
SaveDone(r) ==
  /\ req[r].at = "saving"
  /\ \/ /\ Attach!Saved(r) \/ Attach!Failed(r)
        /\ told' = told \cup {t \in {req[r].cfg.token} : Attach!Saved(r) /\ t # None}
        /\ Attach!Close(r) /\ UNCHANGED utilsPath
     \/ /\ Utils!Saved(r) \/ Utils!Failed(r)
        /\ Utils!Close(r) /\ UNCHANGED <<attachPath, told>>
  /\ Finish(r)
  /\ UNCHANGED <<disk, attachData, utilsData, attachVars, zone, issued>>

\* The file system serves a request that waits for it.
FileStep(r) ==
  /\ \/ Attach!Fetch(r) \/ Attach!Write(r) \/ Attach!Flush(r)
     \/ Utils!Fetch(r) \/ Utils!Write(r) \/ Utils!Flush(r)
     \/ req[r].at \in SaveFaults /\ (Attach!Fail(r) \/ Utils!Fail(r))
     \/ req[r].at \in ReadFaults /\ (Attach!FetchNothing(r) \/ Utils!FetchNothing(r))
  /\ UNCHANGED <<attachPath, attachData, utilsPath, utilsData, attachVars, req, envVars>>

Step(r) ==
  \/ InitLoaded(r) \/ InitRootLoaded(r) \/ InitBackLoaded(r) \/ InitSaved(r)
  \/ InfoLoaded(r) \/ InfoRootLoaded(r)
  \/ StartHandler(r) \/ QueryLoaded(r)
  \/ PostRepeated(r) \/ PostChallenge(r)
  \/ DnsLoaded(r) \/ DnsAnswered(r)
  \/ InitializeLoaded(r) \/ SaveDone(r)
  \/ FileStep(r)

-----------------------------------------------------------------------------
(***************************************************************************)
(* Clients, the DNS, and the process.                                      *)
(***************************************************************************)

\* Bound: every POST account/claim in flight may need a token of its own.
TokenLeft ==
  Cardinality(DOMAIN issued) + Cardinality({r \in Request : req[r].route = "post"})
    < Cardinality(Token)

\* The address in the request, where the route looks at it.
FromOf(route, a) == IF route \in {"post", "dns"} THEN a ELSE None

\* A request arrives.  The domain middleware compares its host with the
\* current domain, and calls setDomain if it is another: the name changes at
\* once, the rest when the wallet is there.
Arrive(r, h, route, a) ==
  /\ req[r] = Rest
  /\ route = "post" => TokenLeft
  /\ domainName' = h
  /\ LET goes(at) == req' = [req EXCEPT ![r] = [at |-> at, route |-> route, host |-> h,
                                               from |-> FromOf(route, a), cfg |-> Blank]]
     IN  \/ domainName = h /\ goes("handler") /\ UNCHANGED <<utilsPath, io>>
         \/ domainName # h /\ cache[h] # None /\ goes("info") /\ AskInfo(r, h)
         \/ domainName # h /\ cache[h] = None /\ goes("init") /\ Utils!Open(r, Home(h))
  /\ attachUnused
  /\ UNCHANGED <<disk, utilsData, cache, served, envVars>>

\* Who controls a domain's DNS publishes a challenge that a reply has told.
Publish(d, t) ==
  /\ t \in told /\ (issued[t].domain = d \/ StrayRecords)
  /\ zone' = [zone EXCEPT ![d] = @ \cup {t}]
  /\ UNCHANGED <<configVars, attachVars, req, issued, told>>

\* The memory of a process that has just started.
NoWaits    == [r \in Request |-> Attach!NoIO]
NoCache    == [d \in Domain |-> None]
Nobody     == [host |-> None, wallet |-> None]
NoRequests == [r \in Request |-> Rest]

\* The process stops wherever it is, and starts again with the files it finds.
Restart ==
  /\ attachPath' = Root /\ attachData' = Blank
  /\ utilsPath' = Root /\ utilsData' = Blank
  /\ io' = NoWaits
  /\ cache' = NoCache
  /\ domainName' = None
  /\ served' = Nobody
  /\ req' = NoRequests
  /\ UNCHANGED <<disk, envVars>>

Init ==
  /\ disk = [p \in Path |-> [Blank EXCEPT !.provider = (p = Root /\ RootProvider)]]
  /\ attachPath = Root /\ attachData = Blank
  /\ utilsPath = Root /\ utilsData = Blank
  /\ io = NoWaits
  /\ cache = NoCache
  /\ domainName = None
  /\ served = Nobody
  /\ req = NoRequests
  /\ zone = [d \in Domain |-> {}]
  /\ issued = [t \in {} |-> None]
  /\ told = {}

Next ==
  \/ \E r \in Request : Step(r)
  \/ \E r \in Request, h \in Domain, route \in Route, a \in Address : Arrive(r, h, route, a)
  \/ \E d \in Domain, t \in Token : Publish(d, t)
  \/ Restart

\* The event loop gets to every request whose answer has arrived, and the file
\* system answers.  Nothing makes clients ask or owners publish.
Spec == Init /\ [][Next]_vars /\ \A r \in Request : WF_vars(Step(r))

-----------------------------------------------------------------------------
(***************************************************************************)
(* Properties.                                                             *)
(***************************************************************************)

\* "Only the original requester can complete the claim" (auth.mjs:183), and
\* only for a domain whose DNS they control: the administrator of a verified
\* domain is an address whose own challenge for that domain was published in
\* its zone.  The check spans two awaits and two requests.
AdminProvedDomain ==
  \A d \in Domain :
    disk[Home(d)].verified =>
      \E t \in zone[d] : issued[t] = [domain |-> d, to |-> disk[Home(d)].admin]

\* A reply that says so is right about the files: when a route is about to
\* report success, what it reports is what a restart would find.
SuccessIsDurable ==
  \A r \in Request :
    req[r].at = "saving" /\ io[r].op = "flushed" =>
      LET d == disk[Home(req[r].host)]
      IN  \/ req[r].route = "dns" /\ d.verified /\ d.admin = req[r].from
          \/ req[r].route = "post" /\ HasChallenge(d) /\ d.token = req[r].cfg.token
          \/ req[r].route = "initialize" /\ d.domain /\ d.pending

\* The wallet the server signs with is the one a restart will find: nobody is
\* told an address whose key is in memory only (Utils.ts:71-81).
CachedWalletPersisted ==
  \A d \in Domain : cache[d] # None => disk[Home(d)].wallet = cache[d]

\* A wallet that was saved for a domain is never replaced or lost, whatever
\* else is written to the same file through the other Config object: a domain
\* "creates+persists a wallet on first touch" (index.mjs:24-25), not on a later one.
WalletKept ==
  [][\A d \in Domain :
       disk[Home(d)].wallet # None => disk'[Home(d)].wallet = disk[Home(d)].wallet]_disk

\* While a handler runs the server is its host's: epistery.domainName,
\* epistery.domain and epistery.signer, read from the cache that the middleware
\* has awaited (what the comments say, index.mjs:24-26, 51, 56-57).  A request
\* that comes while another's setDomain still waits does not wait itself.
ServesRequestedHost ==
  \A r \in Request :
    req[r].at \in {"handler", "loading", "dns", "saving"} =>
      /\ domainName = req[r].host
      /\ cache[domainName] # None
      /\ served = [host |-> domainName, wallet |-> cache[domainName]]

\* The files implement the claim, one state per domain, of ClaimSpec.
ClaimOf(d) ==
  IF d.verified THEN [is |-> "claimed", by |-> d.admin, token |-> None]
  ELSE IF HasChallenge(d) THEN [is |-> "challenged", by |-> d.challenger, token |-> d.token]
  ELSE [is |-> "free", by |-> None, token |-> None]

Abstract == INSTANCE ClaimSpec WITH claim <- [d \in Domain |-> ClaimOf(disk[Home(d)])]

ImplementsClaimSpec == Abstract!Spec

\* A challenge that was in a reply is the domain's challenge until the domain
\* is claimed: who publishes what they were told can complete the claim with
\* it, whatever was asked and whatever failed or stopped in between
\* (auth.mjs:36-47, 104-130).
ToldIsGood ==
  \A t \in told :
    LET c == ClaimOf(disk[Home(issued[t].domain)])
    IN  c.is = "claimed" \/ (c.is = "challenged" /\ c.token = t)

\* Whatever concurrent requests do to each other's data, a challenge and the
\* address it was made for stay together, and nobody administers a domain who
\* never had a challenge, nor before the owner of some domain published one.
ClaimsAreEarned ==
  \A p \in Path :
    LET d == disk[p]
    IN  /\ IF d.token = None THEN d.challenger = None
           ELSE d.token \in DOMAIN issued /\ issued[d.token].to = d.challenger
        /\ d.verified =>
             /\ \E t \in DOMAIN issued : issued[t].to = d.admin
             /\ \E e \in Domain : zone[e] # {}

\* Every request is answered, however the awaits end (or dies with the process).
EveryRequestAnswered ==
  \A r \in Request : []<>(req[r].at = "idle")

=============================================================================
