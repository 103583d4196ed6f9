# Verification of epistery

epistery gives web sites a key-based identity: every domain has a server wallet,
every browser a device key (a *rivet*), and a user's devices are gathered in an
identity contract on chain. This directory holds TLA+ models of that code, the
TLC configurations that check them and TLAPS proofs about them. Paths are
relative to the repository; `Utils.ts` and `Config.ts` are in `src/utils/`.

## 1. Inventory

| component | state it keeps | operations | what is hard | what makes it correct |
|---|---|---|---|---|
| `contracts/EpisteryAccess.sol` | access list of each section, an index into it, each address's memberships, catalogues of sections and keys, invites | `setMember`, `removeMember`, `setPublic`, `setSecret`, `createInvite`, `redeemInvite` | three copies of one relation kept in step by swap-and-pop; stewards defined by another contract | the copies agree; roles follow the relation; invites are one-shot; unmanaged sections are frozen |
| `contracts/IdentityContract.sol` | list of rivets ever added, two flags per rivet, a counter, host, public keys, threshold | constructor, `addRivet`, `removeRivet`, `designateHost`, `setPublicKey`, `setRemoveRivetThreshold`, `executeTransaction`, fallback | removal leaves the list; the contract is its own steward and may call itself | the counter is exact; never without a rivet; no dangling host; no keys of removed devices |
| `Config.ts`, local | one current path and one `data` per object; the `config.ini` tree | `setPath`/`load`, `read`, `save`, `readFile`, `writeFile` | path and data are shared by everything that awaits in between; two objects over one file | a save writes what its caller meant, where it meant it |
| `Config.ts`, remote | bearer token, path, data | the same over HTTP | token expiry under concurrent calls; failures read as `{}` | one re-authentication is enough; no write of data that was never read |
| `Utils.ts` | wallet cache | `InitServerWallet`, `GetDomainInfo` | five awaits, two path changes, a save, then the cache | a wallet is created once, saved before it is used, and kept |
| `index.mjs` (attach) | `domainName`, `domain` | domain middleware, `setDomain`, authentication | name set before the await, domain after it | a handler runs for its own host |
| `routes/auth.mjs`, `domain.mjs` | the claim in a domain's file | get and post `account/claim`, `dns/claim`, `account/check-admin`, `domain/initialize` | the DNS lookup and the save are awaits; crash anywhere | only who proved the domain becomes its administrator; success is durable |
| `routes/fido.mjs` | blob files | store, fetch | moves the shared path | does not disturb claims |
| `routes/connect.mjs`, `src/epistery.ts` | session cookie (24 h) | key exchange, prepare and submit transactions | chain state changes after the check; two fundings for one signer | a session speaks only for a signer it proved |
| `client/witness.js` | wallet list in `localStorage` | add, remove, switch, save, connect, bind | several tabs; awaits between load and store; bounded retry | a default that exists; no site meets a wallet that is no rivet; bindings as invited |
| `client/wallet.js` | master key in IndexedDB, wrapped key in `localStorage` | create, sign, join | two stores, eviction | a stored rivet can sign |
| `src/chains/` | registry, fee policy | `getFeeData`, `estimateGas`, `findChain`, `setDefaultChain` | floors, multipliers and ceilings | fees within policy; one chain for a selector |
| `Permissions.ts` | modes of the tree | `secureTo`, `auditTree`, `secureTree` | a walk over a changing tree | what is audited is what is fixed |
| `CliWallet.ts`, `cli/epistery.mjs` | session files | connect, curl, MCP bridge | sessions of unknown age | the session used is the server's |

Interactions: a request passes the domain middleware, which may call
`setDomain` → `InitServerWallet` → `GetDomainInfo` over the Utils config object,
then a route, which uses the attach config object or (`domain/initialize`) the
Utils one. Both objects write the same files. `connect` verifies contract claims
with `isAuthorized` of the identity contract; the identity contract inherits the
sections. Witness drives `connect` from the browser.

`PROJECT.json` lists the hazards of this code line by line, each with the
properties that cover it or the reason why none does yet.

## 2. Plan

Modelled, in this order: `AccessSpec` and `EpisteryAccess` with its proofs
(everything else asks it who may do what), `IdentitySpec` and `IdentityContract`
over it, `ConfigStore`, `ClaimSpec` and `DomainServer` over both config objects;
then the browser and its traffic with the host: `WitnessStore` (the record of
wallets, keys, binds), `SessionServer` (handshake, cookie, retries against a chain
that changes), `ChainFees` and `Funding` (prepare, fund, sign, broadcast), and
failing reads in `DomainServer`.

Then the proofs, each in a module of its own over the module it is about:
`EpisteryAccessProofs`, `IdentityContractProofs`, `SessionServerProofs`,
`WitnessStoreProofs`, `DomainServerProofs`, `FundingProofs` (section 5). With them every
safety invariant, action property and refinement of the passing runs is a theorem.

What is left, in this order:

1. Weaken `OneAtATime` (section 5): which second request (one that only queries, one of another
   host's fido blobs) leaves the theorems about `DomainServer` true.
2. `ChainFees`: the classes' fees for every answer of the network as theorems of their own, where
   `FundingProofs` has them as lemmas.

## 3. Modules

### EpisteryAccess, AccessSpec, MCEpisteryAccess
One variable per mapping of the contract, with its name: `acl`, `aclIndex`
(1-based, 0 for absent), `memberships`, `sectionNames`/`sectionSeen`,
`keyList`/`keySeen` (for public and secret attributes), `invites`. A transaction is
atomic, so a call is an action and a `require` a conjunct; a reverted call is
a disabled action. Values, names and meta data are left out: no rule reads them.
Of an invite's issuer only its existence counts, which is membership in
`DOMAIN invites`. The abstract function `_isSteward` is the variable `stewards`, and
`StewardsChange` may set it to anything at any time, so what is checked and
proved holds for every contract that inherits this one. (No transaction is signed by the zero
address or by the `DEFAULT_MEMBER` sentinel, so neither is a steward.)

`AccessSpec` is the promise: one role per section and address, and one-shot
invites. `Grants` reads the relation out of the index and the list;
`ImplementsAccessSpec` says that each call is one abstract step.

### IdentityContract, IdentitySpec, MCIdentityContract
Its own state, and an instance of `EpisteryAccess` in which `stewards` is the
defined set `{Self} ∪ Rivets`. `executeTransaction` with the contract itself as
target makes `Self` a sender exactly while some device is a steward (`Sender`);
other targets, ether and tokens do not touch this state. Times and names are left
out. `MaxSlots` bounds the array of rivets ever added, `MaxMessages` the messages.
`IdentitySpec` is a set of rivets and a host.

### ConfigStore
The steps of one `Config` object with the local backend, as operators for the
module that owns the clients: `Open` (setPath up to its await), `Fetch` (the file
is read), `Save`, `Write` (mkdir is done: path and data are looked at *now*),
`Flush`, `Fail`. What a client waits for is in `io`. `secureTo` never throws, so
the tail of `save` is one step with the write. Taken as given: one `writeFile` of a
short file is atomic. `FetchNothing` is a read that fails: `load` and `read` catch every
error and yield `{}`, and so does `RemoteConfig` for an answer that is not OK. A remote read
may also throw, without a connection or when the login is refused, with the path moved
and the old data left: the models are of the local backend and do not have this outcome.

### DomainServer, ClaimSpec, MCDomainServer
The server process. A request record says at which await the request is; an
action is what runs between two awaits, as in the single-threaded event loop.
`Attach` and `Utils` are two instances of `ConfigStore` over one `disk`.
`InitLoaded` to `InitSaved` are `InitServerWallet`, `InfoLoaded` and
`InfoRootLoaded` are `GetDomainInfo`, `Arrive` is the domain middleware, the rest are
the handlers. `Restart` may happen at any await and keeps only the files.
`SaveFaults` names the awaits at which a save may throw, `ReadFaults` those at which a
read may fail; `zone` is the DNS,
`issued` and `told` record which challenge was made for whom and which was sent (by
`account/claim`, asked or posted). An owner may publish any token that was told; with
`StrayRecords` FALSE only one that was made for the very domain.
A provider without `chainId`, at which `InitServerWallet` gives up, is left out: both routes
that store one ask for it.
Malformed requests, origins, times and IP addresses are left out; so are the fido
blobs, but not what the fido routes do to the shared path and data.
`ClaimSpec` is one state per domain: free, challenged, claimed.

### WitnessStore, MCWitnessStore
The browser of one origin: `record` is the `localStorage` item `epistery`, `keyStore` the
IndexedDB store of master keys, and each page has its own copy of one wallet (`this.wallet`).
A *flow* is a call of an async method, and what it does between two awaits an
action; what runs without an await (`save`, `removeWallet`, `load` up to `fromJSON`) is
atomic, as it is in a browser. `own` tells whether a bind works on the very object that
`this.wallet` is, since `setDefaultWallet` and the add methods put another in its place
(`Swap`, `Detached`). `save` is `Save`: the record is read again and this.wallet, whichever that is
by then, put into it. `Legacy` says what an earlier version may have left, plain-text wallets
beside rivets included; `load` scrubs them, but `reset_master_key` is a function of the page
that may have read the record before (`StartReset` needs no `connect`). `StoreKey` commits or fails, `Evict` drops a key, `Close` ends a page
and its flows anywhere. The token of `TokenArrives` reaches every bind of the page that
waits, as `_runEpisteryAuth` listens for any message of the issuer; that a rivet of the contract has
signed it is not checked in the browser, nor claimed. Labels (so
`updateWalletLabel`), times, the server that was met, and the wait of `fromJSON` in `load`
are left out. `born` and `issued` are history: wallets made, tokens signed.

### SessionServer, MCSessionServer
One browser and one host. The host keeps no sessions: the cookie (`jar`) holds signer and
contract and is believed for as long as the browser sends it; its 24 hours are enforced
by the browser only, so `Expire` is the browser's. `Ask` and `Decide` are the
skip of `performKeyExchange`, `Receive` is `handleKeyExchange`, `Verify` the
`isAuthorized` call, `Replied` the answer, `Fail` and `Retry` the loop of
`bindToEpisteryIdentity`. With the cookie set the attempt may still fail, at the host's
`onAuthenticated` or the page's check of the host. Of the chain there are `addRivet` on its way
(`pool`), mined, and `removeRivet`. A page's `mine` is its `this.wallet`, which the user may switch
while the issuer's window is open (`Bind`), before a message is signed and between attempts
(`Switch`); switches count as faults, like lost requests and closed pages. `goal` is the contract of
a bind whose user has not switched, `author` the rivet whose signature the host had for the cookie.

### ChainFees
Operators without state: `PolicyFee` is `getFeeData` of each chain class, `PreparedFee`,
`FundingFee`, `GasLimit`, `Needed` are the arithmetic of `prepareAddRivetToContract`, which does
not use the chain classes and has no ceiling. Prices are integers in fractions of a
gwei, divisions round as `BigNumber` does. `NetworkFee` is what ethers v5 answers: its priority
fee is always 1.5 gwei, so only the base fee varies, and the branches of the classes for a
higher one or none are not taken. The policies are the defaults; those of a config file, and
overrides that a caller of `wrapContract` brings, are left out.

### Funding, MCFunding
Jobs are calls of `prepare-add-rivet` with the signature and submission that follow, or
writes of the host through `wrapContract`, all with one server wallet. The chain and
its pool are external: `Accepts` says what an RPC refuses (fee below the floor, priority above
maximum, a nonce that is not next, a replacement that does not pay a tenth more, a signer that
cannot pay for what it has in the pool), `Mine` takes transactions in the order of their nonces
when the base fee allows, and each uses the gas a call needs (`Estimate`) or, if its limit is lower,
all of that (`GasUsed`). `crossed` remembers that a signer had another transaction in the
pool during its preparation. `Cut` ends a call anywhere and leaves what it has
broadcast. Route `/data/submit-signed` is mounted by hosts outside this repository; what it
calls, `submitSignedTransaction`, is here.

### EpisteryAccessProofs, IdentityContractProofs, SessionServerProofs, WitnessStoreProofs, DomainServerProofs, FundingProofs
The theorems and their proofs; see section 5. None of them adds to a model, and TLC runs none.

## 4. Runs

| run | what it checks | bounds |
|---|---|---|
| `access` | the storage invariants, invites, frozen sections, refinement of `AccessSpec` | one device, the default sentinel and the zero address; two sections; two codes; roles read, admin and two invalid ones. Two members of one list are the fewest for which a removal moves another entry, two sections the fewest for which a membership moves |
| `identity` | counter, rivets, host, keys, attributes, an identity without devices is frozen, refinement of `IdentitySpec` | two devices and the contract's own address; four slots, so that a rivet can be removed and added again; one section and key |
| `identity_getrivets` | violation: `GetRivetsReturns` | as `identity` |
| `domain` | claims, wallets, durability, challenges that stand once told, refinement of `ClaimSpec`, answers | one request at a time; two hosts, two clients, two tokens, three wallets (one more than is ever in use); the saves of the routes may throw, and the reads that look for a provider or put the path back may fail; a restart at every await; the root file names no provider, so that every turn of the provider fallback is taken (claims and `domain/initialize` supply one); owners publish only their own domain's challenges (one of another domain is compared with that domain's token and matches nothing; the other runs have them) |
| `domain_overlap` | no file has a claim that nobody earned, and every request is answered, although two overlap, path and data change under them and any save may throw | two requests in flight for one host on the two claim routes, two clients, two tokens; saves fail in routes and in `InitServerWallet`. With two hosts, or failing reads as well, the space does not fit a run: that no challenge crosses from one domain's file to another with the wrong address rests on `ClaimsAlwaysEarned`, which has any number of hosts, requests and faults |
| `domain_host` | violation: `ServesRequestedHost` | two requests for one host, one client, nothing fails |
| `domain_race` | violation: `AdminProvedDomain` | two requests in flight, one client, one token, no failing saves, a root provider as `default.ini` has it |
| `domain_read_fails` | violation: `WalletKept` | one request at a time, one host; a read of `InitServerWallet` may fail |
| `witness` | one default in the list, keys before wallets, no page with a plain-text wallet, bindings as invited | two pages, two calls in flight (of one page or of two); two rivets, a passkey wallet, a wallet of before 2.0, which the record begins with, alone or beside a rivet and the passkey wallet, or not; one contract; one evicted key. A flow is made wrong by another one, so two show it; two rivets are needed for a token to be for the wrong one |
| `witness_bind` | violation: `BindingPersisted` | one page |
| `session` | vouched cookies, the identity after a bind, end of handshakes and of revoked sessions, healing | two pages, two rivets, one contract, two attempts (a first and a last), one fault: with more of each the liveness check does not fit a run |
| `funding` | prepared transactions are accepted, fee policy, no endless wait | two jobs, two signers, all four kinds of network; base fees of 10, 14 and 600 gwei (below and above where Polygon's floor matters, and above its ceiling), one change of it, one call cut off |

The passing runs show that the property holds in every reachable state of the
instance. The violations are disagreements between the code and what it says of
itself:

* `identity_getrivets`: removing a rivet leaves it in `authorizedRivets`, adding it
  again appends it, and `getRivets` then overruns an array sized by `rivetCount`:
  it reverts from then on, until enough rivets are removed.
* `domain_host`: a second request for a host that is being made current finds its name set and
  skips `setDomain`; its handler has no domain and no signer, or those of the host before.
* `domain_race`: with two requests in flight a completed claim of one domain can be
  written to the file of another, because `save` takes the current path after its
  first await.
* `domain_read_fails`: one failing read after a restart is taken for a missing file,
  and the server replaces the domain's wallet.
* `witness_bind`: the user may switch wallets while the issuer's window is open; the bind
  then saves the wallet of that moment and not the one it has bound.

Consequently the safety properties of `DomainServer`, except `ClaimsAreEarned`, are checked
with one request in flight (and a restart at every await) and with failing reads only where
all of them survive. Which of them survives which other failing read is in the theorems of
section 5: one at `init` loses a wallet, one when a handler loads loses the wallet and the
claim, one at `info` serves a host without its wallet. So these runs say nothing of
interleavings: with two requests TLC finds each of
`AdminProvedDomain`, `SuccessIsDurable`, `CachedWalletPersisted`, `WalletKept`,
`ServesRequestedHost` and `ImplementsClaimSpec` violated, even for a single host, except that
`AdminProvedDomain` then takes two clients. `domain_race` and `domain_host` show the two that
contradict what the code says of itself. What is left when requests overlap is `ClaimsAreEarned`: whatever they
write over each other, a challenge stays with the address it was made for, and an
administrator is somebody who had a challenge, after some domain had one published; run
`domain_overlap` checks it for one host and two clients, `ClaimsAlwaysEarned` proves it for any
number of both. Nor does liveness depend on the number of requests.

Deadlock is checked in `access`, `session` and in the `domain` runs. It is off where the bounds can
be used up or every call has been made: the identity, witness and funding runs.

**Fairness.** The contracts have none: nobody has to send a transaction, and all
their properties are safety properties. `DomainServer` assumes weak fairness of
`Step(r)` for each request: Node's event loop runs every continuation whose await
has ended, and the file system and the resolver answer (a failing lookup is an
answer). Arrivals, publications and restarts are not fair. `EveryRequestAnswered`
holds under this fairness alone.

`WitnessStore` has no fairness: users decide. `SessionServer` assumes weak fairness of each
page's `Step` (requests are answered or fail, timers fire, so no continuation is left
lying) and of `Expire` (a cookie's `maxAge` ends). Mining is not fair, so
`HandshakeEnds` holds though the transaction never arrives; `RevokedSessionsEnd` and
`BindHeals` name what they need (the rivet stays removed; it stays listed and its user keeps
connecting). `Funding` assumes weak fairness of each job's `Step` and of mining some
transaction; `BroadcastsEnd` exempts a base fee above what is offered, as nothing in the code raises
the offer.

**Symmetry** is used for sections and codes in `access`, and for the two devices in
the identity runs; those runs have safety properties only, and nothing tells these
values apart. `witness` uses it for rivets, pages and flows, with safety properties only.
The runs with liveness properties use none.

## 5. Proofs

`EpisteryAccessProofs` proves, for all values of the constants that satisfy
`AddressAssumption` (the two sentinels are distinct addresses) and `RoleInputAssumption`
(a role argument is a `uint8`), every property of run `access`, and
`AttributesEnumerable`.

*The inductive invariant* `StorageInv` is the conjunction of `ListInv` (types,
`IndexMatchesList` and `MembershipsMirrorACL`), `CatalogueTypes` and `SectionsCatalogued`,
`KeyTypes` and `AttributesEnumerable`, and `InviteTypes`. None of the first three is
inductive alone: what a removal does to the memberships of an address is right only
because the index finds the entry it removes, and `redeemInvite` keeps the catalogue
complete only because an invite's section is in it. The proof has, for each kind of
storage, lemmas on what enrolling, reassigning and removing do to it (`EnrollIndex`,
`RemoveMemberships`, …), one lemma per call (`SetMemberStep`, …), and `StorageStep` that
combines them. `SwapPopProperties` states what Solidity's removal returns.

*Action properties.* `InvitesStayFinal` and `UnmanagedSectionsFrozen` follow step by step
from the invariant. *Refinement.* `AccessImplemented`: the initial states agree,
`RolesAgree` shows that `RoleOf` and the abstract role are equal under the invariant, and
`StepRefines` maps every call to an abstract step with the lemmas on `Grants`.

`IdentityContractProofs` assumes `IdentityAssumption`: the special addresses are different
addresses, the sentinel is no rivet, roles are `uint8`. *The inductive invariant*
`IdentityInv` joins `RivetInv` with the `StorageInv` above: the earlier proofs are taken
by `INSTANCE ... WITH stewards <- Stewards`, so that each inherited call is one lemma
cited, and only the constructor and the calls of this contract are new. `RivetCountExact`
is inductive only with `FlagsInv` (the two flags of a rivet agree, and the list holds
every authorized one), because `addRivet` appends again what was removed;
`HostNeverDangles` and `KeysOnlyOfStewards` hold since a removal clears both with the
flags. `AlwaysARivet` then follows from the count, which `removeRivet` tests instead of
the rivets. `RivetCountExact` also says what `getRivets` makes of the list: the slots it
returns (`ActiveSlots`) hold every authorized rivet, and none twice unless it reverts. The
second part is a fact about cardinalities (`ActiveSlotsExact`: the slots map onto the rivets,
so equal numbers make the map one to one). `OrphanedStaysFrozen` proves the action property
call by call: without a device nobody is a steward but the contract itself, which nobody can
make a call any more. `IdentityImplemented` maps every call to a step of `IdentitySpec`.

`SessionServerProofs`. `CookieVouched` is about the cookie and every reply on its way: each is of a
rivet that has signed and was listed. `SessionInv` adds that a claim on its way to the chain has
been signed by its signer, and `ChainInv` that what a contract lists now it has listed
(`listed`), so that `isAuthorized` vouches for the moment it is asked.
`SessionNamesIdentity` needs `Undisturbed` (while a bind is alone no other page has a
handshake) and, for that bind, that what it was told is still what the jar holds:
otherwise the skip in `Decide` would end it with the cookie of another identity. What it says
is of the wallet that the last attempt stated: that this is the one that was bound is promised
only as long as the user has not switched (`goal`), as the code handshakes with `this.wallet`.

`WitnessStoreProofs`. What the properties say of the stored record must hold of everything
that can be written into it. `WitnessInv` says `GoodRecord` of the record and of each
snapshot that a flow holds over an await, `GoodWallet` of every page's copy, and
`GoodFlow` of each flow: which await it is at decides what it has, e.g. that a rivet past
`made` has its key committed, or that `own` means that the page still holds the wallet the
bind began with. A snapshot may hold plain-text wallets, since `reset_master_key` may have
read the record before it was scrubbed, so nothing is promised of what it writes back; what holds,
and is proved, is that no page and no flow ever works on one (`OnlyRivetsEngage`). Any number of pages and flows may be at work.

`DomainServerProofs` has four parts, from the weakest hypotheses to the strongest. The
hypotheses are written `ASSUME ... PROVE Spec => ...` in the theorems and are no assumptions
of the module, which the runs with two requests and failing reads use as well.

| theorems | requests | reads that may fail | saves that may fail |
|---|---|---|---|
| `DomainTypesCorrect`, `ClaimsAlwaysEarned` | any number at once | all | all |
| `AdministratorsProved`, `SuccessAlwaysDurable` | `OneAtATime` | all | all |
| `CacheAlwaysPersisted` | `OneAtATime` | all but the handlers' (`HandlersRead`) | all |
| `WalletAlwaysKept` | `Serial` | all but the handlers' and `init` | all |
| `ClaimImplemented`, `AdministratorForGood`, `ToldAlwaysGood` | `Serial` | as `WalletAlwaysKept` | the handlers' (`WalletsSaved`) |

`Serial` is `OneAtATime`, `HandlersRead`, and that `init` reads. Everywhere the process may
stop at any await, and domains, clients, tokens, wallets, routes and the root file are any.
No theorem has a hypothesis to spare: without any one of them TLC refutes its property on an
instance of one or two hosts. A handler that reads `{}` writes a claim without the wallet;
`InitServerWallet` that reads `{}` makes another wallet; and after a first save of a wallet that failed, a claim
is written to a file without a `domain` field, and dropped with it when the wallet is made
again.

*Types* (`TypesInv`): every request waits in its store for what its stage awaits (`Coherent`),
and no more challenges have been made than the claims in flight leave tokens for (`Room`).

*Requests that overlap* (`EarnedInv`): what the property says of the files holds of every copy
of their data, the two shared ones and those that requests carry or have on the way, because
every route changes data in one synchronous step that sets token and address together, and
only data with a token that is in some zone is completed.

*One request at a time* (`ClaimInv`): the claim in a domain's file, and in whatever may become
that file, is `Proved` for that very domain; at each await (`WalletFlight`, `RouteFlight`) the
object the request uses has its path, a save that is done has written what is about to be
reported, and, if handlers can read, the wallet in the data is the one in the file. Whether
the data is the file or the `{}` of a failed read does not matter to the claim: neither is
one of another domain.

*One request at a time, with files that can be read* (`SerialInv`): now the data is the file.
A file with a wallet has the field by which it is found again, an administrator has published,
and a challenge was made for that domain and that client (`GoodFiles`; under `WalletsSaved`
also that a file is empty or has its wallet); the cache is what is on disk, and
under `WalletsSaved` has the current domain's wallet when nobody is setting it; and the request (`InitFlight`,
`HandlerFlight`) has, for each of its awaits, the path, the data, and what the file still
is. That is the bookkeeping the code leaves to chance: `save` is right because the path is
still the one that was set before the await. `ChangedTo` ties what is about to be written to
the file it will replace, and makes the write one step of `ClaimSpec` (`ClaimSteps`). From
these steps follow `ClaimImplemented` and two consequences that are not easy to see in the
code: an administrator is one for good (`AdministratorIsFinal`), and a challenge that was in
a reply stands until the domain is claimed (`ToldIsGood`, with `CarriedInv`: only a request
that has made a challenge replies with one after its save).

`FundingProofs` assumes `FundingAssumption` and an even `Unit` (so that half a gwei is a
number). `PreparedIsAccepted` is about one call's transaction while others of the same
server wallet come and go, so `FundingInv` has the pool as a whole (`PoolInOrder`: an
account's nonces in it are those after the mined ones without a gap, and a signer can pay
for what it has there), that what is there was put there by a call that has broadcast
(`OwnedByJobs`), and of each call what it has and that the signer can pay, counting a
transfer that is not mined (`Covered`). What the pool reserves of a balance is a recursive
sum (`Reserved`). That sums exist and that adding or removing a transaction changes them
by its cost is proved from a minimal counterexample (`MinimalSubset`, which rests on the
strict subset order of a finite set being well-founded), because the induction theorems of
the library cannot be instantiated. The fees of the classes are lemmas for every base fee.

*What the proofs have changed in the models.* A transaction whose gas limit is below what
the call needs was charged more than its limit, and a balance could fall below zero
(`GasUsed`). A guard of `ExchangeEnds` bound more weakly than it was indented. A role of
`IdentityContract` had no type, and `DomainServer` could be asked for a wallet when there
is none to make (`Wallet # {}`). `NewWallet` is a choice from `Unused`, and
`WitnessStore`'s `Put` a plain function, in order to be reasoned about; both denote what
they did.

*Only model-checked*: liveness (`EveryRequestAnswered`, `HandshakeEnds`,
`RevokedSessionsEnd`, `BindHeals`, `BroadcastsEnd`), since fairness and `ENABLED` are
beyond the prover. The properties of the runs that expect a violation are false.
*Only proved*: `AdministratorIsFinal`, which is stated beside its theorem and is in no run.

## 6. Not modelled

* Vendored `ethers` (`client/ethers.js`, 24441 of the repository's 31496 lines), compiled
  artefacts, status pages, static file routes, the memory export and the documents on
  delegation, naming and notabot, which describe no code of this repository.
* The command line (`cli/epistery.mjs`, `CliWallet.ts`): one process per command. Its
  session mode cannot be reached: `bot` is true from the start (569) and no option clears it,
  though the help (207) calls the session cookie the default.
* `Permissions.ts`: `secureTo` never throws and nobody reads what it did, which `ConfigStore` uses.
* The chain registry and `setDefaultChain`: a table, and one setting edited by the command line.
* Of `wallet.js`: peer encryption, transfers, and `deployIdentityContract`, whose prepare route
  was removed from this repository, so that it always fails. Of `RemoteConfig`: the token and its
  renewal on a 401; a call ends in an error or an answer that is not OK, which is in the models.
* Bot authentication (`index.mjs`), which proves its signer anew in each request and keeps nothing.
* A crash in the middle of one `writeFile`, and what a failing first save of a wallet does to a
  later claim (it is discarded with the file that has no domain): hazards in `PROJECT.json` without
  a property.

Seen on the way, where no run says more than the text: `JapanOpenChain.ts:43` gives 200 gwei
as the default ceiling, line 44 has 1000; `prepareAddRivetToContract` prepares EIP-1559 fees for
Japan Open Chain, which that class says are rejected, so `PreparedIsAccepted` exempts it; it reads the
signer's *latest* balance beside its *pending* nonce, so that a second transaction of one signer may find
too little money (`crossed`). `GET /connect` is compared by identity alone: a session of another rivet
of the same contract is taken for this one's, with the same authority but the other signer. A section
admin may change the display name, of which `IdentityContract.sol:59-60` says that only a steward can.
`reset_master_key`, called before a page has loaded, holds the record over its awaits and may write
back a plain-text wallet that another page has scrubbed meanwhile (`witness.js:102`, `140`); the next
load scrubs it again. A bind whose user has switched wallets ends well with a session of the wallet
switched to (`witness.js:494`, `798`).
