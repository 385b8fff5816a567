# TLA+ models of ccmchain

This directory holds TLA+ specifications of the parts of the ccmchain source
tree that have behaviour worth checking, the TLC configurations that check
them, and `PROJECT.json`, which lists the components, the runs, a mutant for
every checked property, the map from definitions to source lines, the findings
and the hazards.

Check a run with `tlc -workers 2 -config <run>.cfg <module>`; the module of
each run is given in the table of runs below.

## 1. Inventory

The tree under `src/` is a slice of a go-ethereum fork. It holds four pieces of
code with behaviour, and several files of data.

| Component | Source | State | Operations | Status |
|---|---|---|---|---|
| Schema registry `ABI` | `accounts/abi/abi.go` | `Constructor`, `Mccmods`, `Events` | `JSON`, `UnmarshalJSON`, `Pack`, `Unpack`, `UnpackIntoMap`, `MccmodById`, `EventByID` | modelled |
| Method descriptor `Mccmod` | `unnamed/part_000:842-885` (method.go) | `Name`, `Const`, `Inputs`, `Outputs` | `Sig`, `String`, `Id` | modelled |
| Method test vectors | `unnamed/part_000:902-1013` (method_test.go) | the document `mccmoddata`, two tables | `TestMccmodString`, `TestMccmodSig` | modelled |
| Type descriptor, argument schema | not in the tree (type.go, argument.go); `spec.md` 3, 4.1 | a recursive type variant | classification, canonical string | partly, from `spec.md` |
| Encoder and decoder | not in the tree (pack.go, unpack.go); `spec.md` 4.2, 4.3 | none | `Pack`, `Unpack`, `UnpackIntoMap` of an argument list | partly, from `spec.md` |
| SSH client authentication | `vendor/.../libccmash/internal.h:180-704` (Go source of `ssh/client_auth.go` under that name) | `tried`, `lastMccmods`, the loop's `auth`, the counter of the retry decorator, the signer and name list of the public key loop | `clientAuthenticate`, the `auth` of `noneAuth`, `passwordCallback`, `publicKeyCallback`, `KeyboardInteractiveChallenge`, `retryableAuthMccmod`; `validateKey`, `confirmKeyAck`, `handleAuthResponse`, `handleBannerResponse` | modelled |
| Proof-of-work difficulty check | `vendor/.../libccmash/internal.h:1-179` | a 256-bit hash | `ccmash_h256_get/set/reset`, `ccmash_check_difficulty` | modelled (the rest of the header is prototypes) |
| API backend `EthAPIBackend` | `ccm/api_backend.go` | none of its own; chain, miner, downloader, pool behind it | 36 methods, most of them one call passed on | modelled |
| web3 console extensions | `unnamed/part_000:1-808` | none | none: JavaScript in string constants | not modelled |
| testify `require` forwarders | `vendor/.../require/require_forward.go` | none | generated one-line wrappers | not modelled |
| Console command tests | `cmd/gccm/consolecmd_test.go` | a child process | start the node, compare its output | not modelled: process I/O |
| Build and test data | `unnamed/part_001`, `part_002`, `rpc/testdata/invalid-batch.js` | none | none | not modelled |

How the parts interact. `JSON` decodes a schema document and `UnmarshalJSON`
files its fields into the registry, building a `Mccmod` per function; `Pack`
looks a method up by name and puts `Mccmod.Id`, the first four bytes of the
hash of `Mccmod.Sig`, in front of the encoded arguments; `Unpack` looks the
name up among the methods and then the events and hands the bytes to the
decoder; `MccmodById` goes the other way, from the four bytes to a method. The
SSH client, the difficulty check and the API backend are independent of the
registry and of each other. The backend stands between the RPC handlers and
the chain, the miner, the downloader and the transaction pool, all of which
change concurrently with its calls.

What is hard in each.

* Registry: the disambiguation loop builds names (`f0`, `f1`, ...) that the
  document may also declare; the built name is stored in the method and then
  feeds the signature and the selector; methods and events are disambiguated
  separately but looked up through one name space; `MccmodById` ranges over a
  map. These are long sequences of legal steps that reach a surprising state.
* SSH client: three nested control structures (the loop of
  `clientAuthenticate`, the retry decorator, the loop over signers) are driven
  by an untrusted peer that chooses every packet. What matters is that nothing
  but `msgUserAuthSuccess` authenticates, that the client signs only for a key
  the server confirmed, that a failed mccmod is not repeated, that the client
  gives up exactly when nothing is left, that it returns at all, and that with
  an honest server it ends authenticated whenever it holds the credentials.
* Difficulty check: the direction of the byte loop and its result on equal
  hashes.
* API backend: reads in two calls with the chain moving between them, and a
  pending block that may not exist yet.

## 2. Modules

| Module | Models | From |
|---|---|---|
| `AbiTypes` | type variant, `IsDynamic`, `HeadWords`, `TypeString`, `Join` | `spec.md` |
| `AbiCodec` | `Pack`, `Unpack`, `UnpackIntoMap` over byte sequences, values as kinded tuples | `spec.md` |
| `AbiRegistry` | the registry and the method descriptor | `abi.go`, `part_000` |
| `MCAbiRegistry` | constants of the `registry*` runs | |
| `MccmodVectors` | the document and the tables of method_test.go | `part_000` |
| `SshClientAuth` | the SSH client and its server | `internal.h` |
| `AuthLoop` | the abstract loop of whole attempts that `SshClientAuth` implements | the comment of `clientAuthenticate` |
| `MCSshClientAuth` | constants of the `ssh*` runs | |
| `SshSession` | the client of `SshClientAuth` with a server that follows RFC 4252 | `internal.h`; the server from RFC 4252 |
| `MCSshSession` | `SshSession` with the constants of `MCSshClientAuth` | |
| `EthashDifficulty` | the hash accessors and the boundary check | `internal.h` |
| `ApiBackend` | the backend and its environment | `api_backend.go` |
| `MCApiBackend` | constants of the `backend*` runs | |

### AbiRegistry

State: `abi` (a record of `Constructor`, `Mccmods`, `Events`, the two maps as
functions from names), `fields` and `next` (the decoded document and the index
of the loop of `UnmarshalJSON`), `pc`, and `ret` (the last call and its result).

`JSON(doc)` starts a load into a fresh registry (`var abi ABI`), `JSONFails`
is the decoding error that returns `ABI{}`. `UnmarshalJSON(doc)` starts a load
into the registry that is in use, as `json.Unmarshal(data, &abi)` does for the
holder of one: `StartLoad` makes the two maps anew (`MapsMadeAnew`) and leaves
`Constructor` as it is. `UnmarshalJSONFails` is its decoding error, which
returns before the maps are touched. Each iteration of the loop is one of `LoadConstructor`,
`LoadFunction`, `LoadEvent`, `SkipField`, by the `switch` on the field's type;
`Loaded` ends the loop. `FreeName` is the `for idx := 0; ok; idx++` loop that
appends a number to a taken name. On a loaded registry `PackCall`,
`UnpackCall`, `UnpackIntoMapCall`, `MccmodByIdCall` and `EventByIDCall` call
`AbiPack`, `AbiUnpack`, `AbiUnpackIntoMap`, `MccmodById` and `EventByID`, which
are operators of the registry and their arguments. `MccmodById` and
`EventByID` range over a map, so they are modelled as the set of results any
order of iteration can give.

Names and signatures are real strings, because the behaviour in question
depends on their text. The hash is the constant operator `Keccak256`; the runs
substitute a stand-in under which some signatures collide.

### SshClientAuth

The client is one sequential program talking to a peer. `pc` says where it is:
about to write a request (`request`, `none`, `password`, `publickey`, `query`,
`sign`, `keyboard-interactive`, `answer`), about to read (`accept`,
`response`, `ack`, `challenge`), or returned (`nil`, `err`, `unable`). One step
is one packet written or read, together with everything the client computes
until its next packet. In particular the step that reads the answer to a
request carries the whole way back: `Returns` is the return of the mccmod into
`retryableAuthMccmod.auth` (`Retries`) and from there into the body of the
loop of `clientAuthenticate` (`LoopBody`), which updates `tried` and
`lastMccmods` and runs `findNext`.

The server is the environment. Every read takes any packet of `Packets`: a
banner, a success, a failure with any name list (including nil, which an
unmarshalled empty list may be) and either value of `PartialSuccess`, a
`PubKeyOk` for any key of `ServerKeys`, an `InfoRequest` whose declared number
of prompts may differ from what it carries, a packet of another type, and a
packet of each type that does not unmarshal. `TransportFails` is an error of
`readPacket` or `writePacket`, `CallbackFails` an error of one of the
application's callbacks. User names, passwords, prompts and signatures are
left out: no branch of the code depends on them.

`acked`, `accepted`, `suggested`, `stalls` and `result` are history
variables. They record what the server has sent and what the last mccmod
returned to the loop, and are read only by the properties and by the bound
`MaxStalls`.

### AuthLoop and the refinement

`AuthLoop` is what the comment of `clientAuthenticate` promises ("the client
first attempts the "none" mccmod then any untried mccmods suggested by the
server"), with one step per whole attempt. Its state is the mccmod being
attempted, the set of failed mccmods, the last list offered, the verdict of
the last attempt and the outcome. `Begin` starts with "none"; `GoesOn` ends an
attempt by a failure or a partial success, marks it failed only in the first
case, and goes on with any configured mccmod of the list that has not failed,
or gives up when there is none; `Authenticated` needs the verdict "success";
`Fails` is an error.

`SshClientAuth` instantiates it as `Abstract`, with

| `AuthLoop` | `SshClientAuth` |
|---|---|
| `configured` | the names of `config` |
| `attempt` | `Current.mccmod` while the loop runs, `Nil` before it and after it |
| `failed` | `tried` |
| `offered` | `lastMccmods` |
| `verdict` | `result` |
| `outcome` | `pc`, when it is `nil`, `err` or `unable`; `running` otherwise |

and the run `ssh` checks `ImplementsAuthLoop`, that is `Abstract!Spec`. Every
packet written or read inside an attempt, every signer the public key loop
moves on to and every retry of the decorator is a stuttering step of
`AuthLoop`; the step that returns to the loop of `clientAuthenticate` is one
`GoesOn`, `Authenticated` or `Fails`. `AuthLoop` lets the client pick any
untried mccmod where the code picks the first of `config.Auth`.

### SshSession

`SshSession` extends `SshClientAuth` and puts a server that follows RFC 4252
on the other end of the transport. The client's steps are the actions of
`SshClientAuth`, unchanged; the packet a reading action takes is no longer
any packet but `Reply`, the answer of the server to the request in flight.
This server is not code of the repository and is not in the map; it is what
the RFC describes, and the module says so where it is defined:

| Server state | Meaning |
|---|---|
| `authorized` | the keys the server accepts for the user |
| `known` | the mccmods (password, keyboard-interactive) whose secret the user's callback gets right |
| `policy`, `needAll` | the mccmods the server takes, and whether it asks for all of them or for any one |
| `listsAll` | a failure lists the whole policy, not only the mccmods that can still help (section 5.1 recommends the latter and allows the former) |
| `remaining` | the mccmods of the policy not yet accepted |
| `asks`, `rounds`, `challenged` | the number of prompts of a challenge, the challenges the server sends before it decides on a keyboard-interactive request (RFC 4256 allows several), and the challenges sent for the request in flight |

The server says PK_OK for an authorized key only, accepts the signed request
that follows, a right password and right answers to its challenge, answers a
success with `msgUserAuthSuccess` when nothing is left and with a partial
success otherwise, and refuses everything else, a mccmod it has accepted
before included. The transport and the callbacks do not fail and no banner is
sent: `TransportFails`, `CallbackFails` and `HandleBanner` are not steps of
`SessionNext`, and the callback of a challenge answers every prompt.

`EndsAsItShould` is the one property: `clientAuthenticate` returns nil when
the client can satisfy the policy and "no supported mccmods remain" when it
cannot. "Can satisfy" (`Able`) is stated over the first entry of
`config.Auth` for each mccmod, because `findNext` skips by the name and
never reaches a second entry of a mccmod that has failed: with
`PublicKeys(Ed), PublicKeys(Rsa)` and only the RSA key authorized the client
gives up without offering the RSA key. That is what the code does and what
the property records.

### EthashDifficulty

A hash is a function from `1..HashSize` to bytes. `Reset`, `SetHash` and
`SetBoundary` are a caller that fills in the two hashes through the accessors,
`Check` calls `ccmash_check_difficulty`, which is an operator: the first index
at which the two differ decides, and equal hashes pass.

### ApiBackend

The backend has no state. A method that reads once is an operator of the
environment's state (`HeaderByNumber`, `BlockByNumber`, `HeaderByHash`,
`GetHeader`, `GetBlock`, `GetReceipts`, `GetLogs`, `GetTd`,
`GetPoolTransaction`, `GetPoolNonce`, `Stats`, `TxPoolContent`). A method whose answer comes from state that is not modelled
takes that answer as an input: `GetTransaction(found)` for whatever
`rawdb.ReadTransaction` finds, `BloomStatus(sections)` for the indexer's
count, `GetPoolTransactions(err)` for the error of `txPool.Pending()`: with
an error it returns the error and no list, without one the batches in any
order of the map. The getters (`ChainConfig`, `Downloader`, `ProtocolVersion`,
`SuggestPrice`, `ChainDb`, `EventMux`, `AccountManager`, `ExtRPCEnabled`,
`RPCGasCap`) return fields of the constant `Node`, what the backend was built
with.

The methods that change something are actions.

* `StateAndHeaderRead` / `StateAndHeaderOpen`: the two calls of
  `StateAndHeaderByNumber`, with the header held in `sah` between them;
  `StateAndHeaderPending` is the pending case, one call of the miner, which
  ends in a nil pointer dereference when the miner has no pending block.
* `SetHeadCancel` / `SetHeadRewind`: the two calls of `SetHead`, with the
  number held in `rewinding`.
* `SendTx`: one step whose outcome the pool decides.
* `GetEVMCall`: `GetEVM` with any sender, any state and any header, as the
  method checks nothing about them; the state may be one that an earlier call
  has funded. `GetEVM` funds the sender in that state (`SetBalance`) and
  returns an EVM on it.
* `SubscribeRemovedLogsEvent`, `SubscribeChainEvent`,
  `SubscribeChainHeadEvent`, `SubscribeChainSideEvent`, `SubscribeLogsEvent`
  on the feeds of the chain and `SubscribeNewTxsEvent` on the feed of the
  pool: the channel joins `subs` of its feed. Every call is passed on; `subs`
  is a set, so it does not tell how often a channel has subscribed.
* `ServiceFilter`: `bloomFilterThreads` goroutines are added to `serving` of
  the session, on every call, whether the session is served already or not.

The environment is what the calls tell apart and no more: a canonical chain of
blocks that differ by number and fork, the set of blocks the database holds,
the set of state roots it can open, the miner's pending block (nil until it
has built one), a downloader that runs or not, a pool of pending and queued
transactions per sender, the subscribers of each feed and the number of
`Multiplex` goroutines of each session. It moves by `StartSync`, `Import`,
`Work`, `Seal`, `Prune`, `Promote` and `MultiplexReturns` between any two
steps of the backend. These actions are assumptions about packages outside
the tree, kept as weak as possible; they are not in the map.

## 3. Runs

| Run | Module | Result | What it shows |
|---|---|---|---|
| `registry` | `MCAbiRegistry` | passes | `RegistryTypeOK`; every function and event field of the document loaded last, into a fresh registry or into one in use, is filed under a key of its own and nothing else is in the maps (`EveryEntryRegistered`); when the document declares no name that the disambiguation can build, the overloads of a name get the keys name, name0, name1, ... in document order (`SuffixesInDocumentOrder`); `Pack` puts the id of the method it was asked for in front, and `MccmodById` can find that method again (`PackRoutesToItsMethod`); `Unpack` by the name of a method returns the outputs the encoder packed, and by the name of an event that no method shadows the inputs it packed, empty data apart (`UnpackInvertsPack`) |
| `registry_selector` | `MCAbiRegistry` | violated | the id of an overloaded method is the id of its declared signature (`SelectorOfDeclaredSignature`) |
| `registry_collisions` | `MCAbiRegistry` | violated | no name is both a method and an event (`NoNamingCollisions`) |
| `registry_suffixes` | `MCAbiRegistry` | violated | the n-th later entry of a name gets the suffix n-1 (`SuffixesCountFromZero`) |
| `vectors` | `MccmodVectors` | passes | `String` and `Sig` of the mccmods loaded from `mccmoddata` are the texts the two tests expect |
| `ssh` | `MCSshClientAuth` | passes | `ClientTypeOK`; the client signs only for the key the server confirmed (`SignsOnlyConfirmedKey`); only `msgUserAuthSuccess` authenticates (`AuthenticatedOnlyBySuccess`); the client implements `AuthLoop` (`ImplementsAuthLoop`): "none" first, then only configured mccmods of the last list that have not failed, `tried` growing by the failed mccmod only, and "no supported mccmods remain" only when none remains; with limited retries the client returns once the server has used up its stalling packets (`Terminates`) |
| `ssh_session` | `MCSshSession` | passes | with a server that follows RFC 4252, `clientAuthenticate` returns nil exactly when the client holds what the server's policy asks for, and "no supported mccmods remain" otherwise (`EndsAsItShould`): 224,592 states over every configuration, policy, set of authorized keys, set of known secrets, size and number of the challenges |
| `ssh_suggested` | `MCSshClientAuth` | violated | the client requests only mccmods of the server's latest list (`AttemptsOnlySuggestedMccmods`) |
| `ethash` | `EthashDifficulty` | passes | `HashTypeOK`; the answer of the byte loop is `hash <= boundary` of the numbers (`AnswerIsNumericOrder`) |
| `backend` | `MCApiBackend` | passes | the chain side, without senders, transactions and subscribers: `BackendTypeOK`; the state `StateAndHeaderByNumber` returns belongs to the header it returns (`StateBelongsToHeader`); header and block by number agree (`HeaderAndBlockAgree`) |
| `backend_pool` | `MCApiBackend` | passes | the pool side, on a chain of the genesis block, with `GetEVM` called on any state and header, the feeds subscribed to and a session served once and again: the pool's pending transactions are all returned once, or the error of the pool and no list (`PoolTransactionsComplete`) |
| `backend_pending` | `MCApiBackend` | violated | every call returns (`EveryCallReturns`) |

Every property of a passing run has a mutant in `PROJECT.json`: a changed form
of one mapped definition, written next to it in the module, under which TLC
finds the property violated.

### Findings

* **Selector of an overloaded method** (`abi.go:146`, code bug).
  `UnmarshalJSON` stores the disambiguated name in `Mccmod.Name`, and `Sig`
  builds the signature from `Name`. The second `f` of a document is packed
  with the id of `f0(...)`, which no contract answers to.
* **Naming collisions** (`abi.go:81`, code against comment). `Unpack` and
  `UnpackIntoMap` say "there can't be naming collisions with contracts and
  events"; the loader disambiguates methods and events separately, so a
  document with a function `f` and an event `f` loads, and the event is
  unreachable through `Unpack`.
* **Suffix numbering** (`abi.go:141`, gap in `spec.md`). With a declared `f0`
  before two `f`, the second `f` becomes `f1`, not `f0`: the loop takes the
  first free suffix, which the rule "n-th later entry gets n-1" does not say.
* **Requests outside the server's list** (`internal.h:680`, `:487`, code
  against comment). The retry decorator repeats a mccmod after a failure
  without looking at the list the failure carried, and `confirmKeyAck` drops a
  failure without unmarshalling it, so the loop over the signers goes on with
  the next key whatever the failure listed.

* **Pending block that does not exist** (`api_backend.go:96`, `:66`, code
  bug). `StateAndHeaderByNumber` and `HeaderByNumber` call `Header()` on the
  block the miner returns for the pending number. While the miner has no
  pending block the call ends in a nil pointer dereference, although the same
  file reports a missing header elsewhere: `BlockByNumber` passes the nil
  block on, and `StateAndHeaderByNumber` answers "header not found" for every
  other number. That the miner returns nil before its first block is an
  assumption about the miner package.

## 4. Bounds

| Constant | Value | Why it is enough |
|---|---|---|
| `MaxFields` (registry) | 3 | a third field of one name is the first to need the suffix `1`, and a declared `f0` with two `f` needs three fields |
| `MaxReloadFields` (registry) | 1 | the empty document and a document of one field, decoded into a registry of up to three entries show both what a reload can do wrong: an entry of the earlier document left in a map, and a name of the new document that gets a suffix because of one. Reloads of longer documents reach the loop in the states a fresh load of them reaches, with another constructor at most |
| `Fields` (registry) | 6 | a function `f`, a function that declares the built name `f0`, the function `g` of nested outputs, an event of the name `f`, a constructor, a field of an unknown type: one for every case of the `switch`, and names that collide in every way the loader distinguishes |
| `WordSize`, `AddressSize`, `SelectorSize` | 2, 1, 1 | the layout of the encoding is the same for every word size; two bytes keep `256^WordSize` within TLC's integers |
| `CallNames`, `CallValues`, `CallData` | 5, 7, 11 | names that are absent, declared, built and both; values of the right and the wrong kind and size; data that is empty, short, one word, ragged, and with an offset inside and outside |
| the method `g` of `MCFields` | returns `(uint8,bytes)[]` and `uint8[2]` | a slice of tuples that hold bytes has a tail within a tail and offsets counted from three bases (the data, the slice, the pair), next to a static array that takes two head slots: the round trip of `UnpackInvertsPack` goes through every branch of the layout. Its 26 bytes are also unpacked with the length of the slice, the offset of a pair and the length of the bytes changed to point past the end, so that each bounds check of the decoder is the one that rejects |
| `VectorDocuments` | 58 | the test document and every document of up to two of its fields, so that an overloaded name is loaded too |
| `Configs` (SSH) | 5 | a retried mccmod before another, a mccmod named twice, no signer, no mccmod, unlimited retries (safety runs only) |
| `ServerKeys` | 3 | both keys of the client and a key with the algorithm of one and the blob of the other |
| `MaxPrompts` | 1 | zero and one prompt, declared and carried independently: every outcome of the parsing loop |
| `MaxStalls` | 2 | a banner, a partial success or a challenge before and after another one; the client keeps no count of them, so a third changes nothing |
| `MaxStalls` (`ssh_session`) | 5 | the honest server sends at most four partial successes and challenges in one session (the run fails with 3 and passes with 4), so the bound never holds back a packet of it |
| `MaxRounds` (`ssh_session`) | 2 | one challenge, and a challenge after the answer to another: the loop of `KeyboardInteractiveChallenge.auth` goes round once more |
| `policy`, `authorized`, `known` (`ssh_session`) | every non-empty set of the three mccmods, every set of the three keys, every set of the two secrets | all of them, with both values of `needAll` and `listsAll` and one or two challenges of 0, 1 or 2 prompts (`MaxPrompts` = 2): 13,440 sessions |
| `HashSize`, `MaxByte` | 3, 2 | a first, a middle and a last byte, and byte values below, equal and above |
| `Forks`, `MaxHeight` | 2, 2 (`backend`), 0 (`backend_pool`) | a chain that is rewound can grow again with other blocks; three numbers give a head, a block below it, and a number above. The pool does not depend on the chain, so its run keeps the genesis block only |
| `Accounts`, `MaxTxs` | 2, 1 (`backend_pool`), none, 0 (`backend`) | two batches, so that the order of the map matters. `GetEVM` reads nothing of the chain and leaves only its result, so the chain side has no sender: with two, its 288 calls in every state take the run past ten minutes. `GetEVM` is called in `backend_pool`, with every state and header of the two genesis blocks |
| `Channels`, `Sessions` | 1, 1 (`backend_pool`), none (`backend`) | one subscriber can join each of the six feeds in any order; the feeds and the sessions do not interact |
| `bloomFilterThreads` | 3 | the constant is defined outside the tree; any value above 1 makes the loop of `ServiceFilter` go round |
| `MaxServing` | 6 | the goroutines of one session: `ServiceFilter` is called on a session that is served already, and a third call changes nothing that the second has not shown. The code has no such bound |

## 5. Fairness

`Terminates` of the run `ssh` and `EndsAsItShould` of the run `ssh_session`
are the liveness properties; `ImplementsAuthLoop` is a safety property,
`AuthLoop` has no fairness. The run's specification is `LiveSpec`,
`Spec /\ WF_vars(Next)`: the client is a running program, and every read of
the transport returns, with a packet or with an error (`TransportFails` is
always enabled while the client runs). Nothing is assumed about which packet
the server sends. The server is bounded instead: it sends at most `MaxStalls`
banners, partial successes and challenges, because each of these lets it
answer again without deciding, and the client keeps no count of them. `Terminates`
leaves out the configuration with `maxTries <= 0` (`Limited`), which by its
documentation retries for ever. The `ssh*` runs do not check deadlock: the client stops when
`clientAuthenticate` returns.

`SessionSpec` has `WF_session(SessionNext)`: the client runs and the server
answers every request. Here nothing bounds the server from outside: it is
its own policy that makes it decide, and `MaxStalls` is set above what it
ever sends. `EndsAsItShould` has the same premise `Limited`.

## 6. Not modelled

* The types and the codec are modelled from `spec.md`; their source is not in
  the tree. They are used through the registry only. Fixed-point numbers,
  events with indexed inputs and the reflection of Go values are left out.
* Behind `ApiBackend`, the delivery of events to the subscribers, the work
  of the `Multiplex` goroutines, the transaction index and the gas price
  oracle: their code is outside the tree and `spec.md` does not describe
  them. The model has the subscription and the start of the goroutines, which
  is all the backend does.
* Two calls of the backend by two callers at once are not a separate case:
  the backend shares nothing between calls, so a second caller is one more
  move of the environment between the steps of the first.
* The constructor a reloaded registry should have. `UnmarshalJSON` makes
  the two maps anew and leaves `Constructor` as it is, so a document without
  a constructor decoded into a used registry keeps the constructor of the
  earlier document, and `Pack("")` encodes with its inputs. The model has
  this behaviour (`MapsMadeAnew`), and the runs reach it; no property says
  whether it is right, because neither the code nor `spec.md` does, and
  `JSON`, the only caller in the tree, decodes into a fresh value every time.
* A server that does not follow RFC 4252 and yet is not arbitrary (one that
  accepts a mccmod twice, or asks for a mccmod again after it has accepted
  it): `SshClientAuth` covers every server for safety, `SshSession` the
  honest one for the outcome.
* The JavaScript of the console, the generated `require` wrappers, the console
  tests and the build files: data, generated code or process I/O.

## 7. Plan

Done so far: the registry and the method descriptor with the test vectors,
the SSH client with its refinement to `AuthLoop` and its session with a
server that follows RFC 4252, the difficulty check, every method of the API
backend. Every function of `abi.go`, of `api_backend.go` and of the Go part
of `internal.h` is in the map; what the map leaves out of these files is the
licence, the imports, type declarations, `keys` (which only formats the error
text) and the prototypes of the C header.

What is left, in order of importance. Each of these needs the source of the
codec or a run of its own, and none is about code of the tree that is not
modelled yet:

1. `AbiCodec` as a component of its own. The registry run has the round
   trip of nested outputs and the decoding of data whose lengths and offsets
   point past the end; what is left are offsets that point backwards or into
   the head, and a reference layout to compare the encoder with. Both compare
   one reading of `spec.md` with another as long as argument.go, pack.go and
   unpack.go are not in the tree.
2. A statement of which constructor a reloaded registry has (section 6),
   once the code or its documentation says whether `Pack("")` may encode with
   the constructor of an earlier document; and reloads of documents longer
   than `MaxReloadFields`.
3. An abstract specification of the registry, a map from keys to entries that
   is filled in one atomic load. `EveryEntryRegistered` and
   `SuffixesInDocumentOrder` already state what such a load has to produce,
   so the refinement would add the atomicity only, which a single-threaded
   loader has by construction (`spec.md` section 5).
4. The session with a decorator that retries without limit: `EndsAsItShould`
   leaves it out, and when it ends depends on whether the retried mccmod is
   the one that fails.
