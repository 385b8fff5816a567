----------------------------- MODULE ApiBackend -----------------------------
(***************************************************************************)
(* EthAPIBackend of ccm/api_backend.go: the facade through which the RPC   *)
(* API reads the chain, the miner's pending block and the transaction      *)
(* pool, rewinds the chain and submits transactions.                       *)
(*                                                                         *)
(* The backend has no state of its own.  The chain, the miner, the         *)
(* downloader and the pool behind it are the environment: they are         *)
(* modelled only as far as the backend's calls tell them apart, and they   *)
(* move on their own between any two calls of the backend.  A method that  *)
(* reads once is an operator of the state.  The two methods that make two  *)
(* calls, StateAndHeaderByNumber and SetHead, take two steps, and what     *)
(* they hold between them is in sah and rewinding.  What a call of the     *)
(* environment answers from state that is not modelled (the transaction    *)
(* index, the bloom indexer) is an input of the method.                    *)
(***************************************************************************)
EXTENDS Integers, Sequences, SequencesExt, FiniteSets, FiniteSetsExt

CONSTANTS
    Forks,          \* what tells two blocks of one number apart
    MaxHeight,      \* the highest block number considered
    Accounts,       \* the senders of transactions
    MaxTxs,         \* the transactions of one sender considered
    Channels,       \* the channels subscribers bring
    Sessions,       \* the matcher sessions of log filters
    bloomFilterThreads, \* bloomFilterThreads of ccm/bloombits.go
    MaxServing,     \* the goroutines of one session considered
    Node,           \* what the backend was built with: b.ccm, b.gpo
    Nil             \* nil

VARIABLES
    chain,          \* the canonical chain: chain[n + 1] is block n
    db,             \* the blocks the database holds, canonical or not
    states,         \* the state roots the database can open
    mined,          \* the miner's pending block and state, or Nil
    syncing,        \* the downloader is running
    pool,           \* the pool's pending and queued transactions, by sender
    subs,           \* the channels subscribed to each feed
    serving,        \* the Multiplex goroutines running for each session
    sah,            \* the header a StateAndHeaderByNumber in flight has read
    rewinding,      \* the number a SetHead in flight will rewind to
    ret             \* what the last completed call returned

env  == <<chain, db, states, mined, syncing>>
node == <<env, pool, subs, serving>>
vars == <<node, sah, rewinding, ret>>

\* rpc.PendingBlockNumber, rpc.LatestBlockNumber
PendingBlockNumber == -2
LatestBlockNumber  == -1

-----------------------------------------------------------------------------
(* What the backend sees of blocks, states and transactions *)

Block(number, fork) == [Number |-> number, Fork |-> fork]
Blocks     == {Block(n, f) : n \in 0..MaxHeight, f \in Forks}
Genesis    == Block(0, CHOOSE fork \in Forks : TRUE)
Hash(block) == <<block.Number, block.Fork>>
Hashes     == {Hash(b) : b \in Blocks}

\* block.Header(): the header names the root of the block's state.
Header(block) == [Number |-> block.Number, Hash |-> Hash(block), Root |-> Hash(block)]
\* A state, and the accounts whose balance a caller has set to MaxBig256.
StateDB(root) == [Root |-> root, Funded |-> {}]
\* The headers and the states a caller may hold, from whatever call.
Headers  == {Header(b) : b \in Blocks}
StateDBs == [Root : Hashes, Funded : SUBSET Accounts]

Tx(from, n) == [From |-> from, Id |-> n]
Txs == {Tx(a, n) : a \in Accounts, n \in 1..MaxTxs}

\* Receipts of a block: one per block number, each with its logs.
Receipts(block) == [i \in 1..block.Number |-> [Logs |-> <<Hash(block), i>>]]

Returned(op, val, err) == [op |-> op, val |-> val, err |-> err]

-----------------------------------------------------------------------------
(* The calls the backend passes on *)

CurrentBlock == chain[Len(chain)]

GetBlockByNumber(number) ==
    IF number \in 0..Len(chain) - 1 THEN chain[number + 1] ELSE Nil

GetBlockByHash(hash) ==
    IF \E b \in db : Hash(b) = hash THEN CHOOSE b \in db : Hash(b) = hash ELSE Nil

HeaderOrNil(block) == IF block = Nil THEN Nil ELSE Header(block)

PendingBlock == IF mined = Nil THEN Nil ELSE mined.block

\* block.Header() of a nil block: the call does not return.
NoPendingBlock(number) == number = PendingBlockNumber /\ mined = Nil

\* Mutant: latest is looked up like a number.
HeaderByNumberUnresolved(number) ==
    IF number = PendingBlockNumber THEN Header(PendingBlock)
    ELSE HeaderOrNil(GetBlockByNumber(number))

\* HeaderByNumber, when it returns
HeaderByNumber(number) ==
    CASE number = PendingBlockNumber -> Header(PendingBlock)
      [] number = LatestBlockNumber  -> Header(CurrentBlock)
      [] OTHER -> HeaderOrNil(GetBlockByNumber(number))

\* BlockByNumber: the pending block may be nil.
BlockByNumber(number) ==
    CASE number = PendingBlockNumber -> PendingBlock
      [] number = LatestBlockNumber  -> CurrentBlock
      [] OTHER -> GetBlockByNumber(number)

\* GetTdByHash: every block adds one to the total difficulty.
GetTdByHash(hash) ==
    IF GetBlockByHash(hash) = Nil THEN Nil ELSE GetBlockByHash(hash).Number + 1

HeaderByHash(hash) == HeaderOrNil(GetBlockByHash(hash))
GetHeader(hash)    == HeaderOrNil(GetBlockByHash(hash))
GetTd(hash)        == GetTdByHash(hash)

\* GetBlock
GetBlock(hash) == GetBlockByHash(hash)

\* GetReceipts
GetReceipts(hash) ==
    IF GetBlockByHash(hash) = Nil THEN Nil ELSE Receipts(GetBlockByHash(hash))

\* GetLogs: nil for an unknown block, else the logs of every receipt.
GetLogs(hash) ==
    IF GetReceipts(hash) = Nil THEN Nil
    ELSE [i \in DOMAIN GetReceipts(hash) |-> GetReceipts(hash)[i].Logs]

\* txPool.Pending as the map GetPoolTransactions ranges over: the senders
\* that have a batch.
Batches == {a \in Accounts : pool.pending[a] # <<>>}

\* Mutant: each batch replaces the one before.
LastBatchOnly(order) ==
    IF order = <<>> THEN <<>> ELSE pool.pending[order[Len(order)]]

\* GetPoolTransactions, the map ranged over in this order.
Flattened(order) ==
    FlattenSeq([i \in DOMAIN order |-> pool.pending[order[i]]])

\* GetPoolTransactions: the error of txPool.Pending() with no list, or the
\* batches in one list; a map is ranged over in any order.
GetPoolTransactions(err) ==
    IF err # Nil THEN {<<Nil, err>>}
    ELSE {<<Flattened(order), Nil>> : order \in SetToSeqs(Batches)}

Pooled == UNION {Range(pool.pending[a]) \cup pool.queued[a] : a \in Accounts}

\* GetPoolTransaction
GetPoolTransaction(tx) == IF tx \in Pooled THEN tx ELSE Nil

\* Stats
Stats ==
    <<FoldSet(LAMBDA a, n : n + Len(pool.pending[a]), 0, Accounts),
      FoldSet(LAMBDA a, n : n + Cardinality(pool.queued[a]), 0, Accounts)>>

\* TxPoolContent
TxPoolContent == <<pool.pending, pool.queued>>

\* txPool.Nonce: the nonce after the pending transactions of the sender.
Nonce(addr) == Len(pool.pending[addr])

GetPoolNonce(addr) == Nonce(addr)

\* What rawdb.ReadTransaction may find: nothing, or the transaction in a
\* block of the database.
Lookups(tx) ==
    {[tx |-> Nil, blockHash |-> Nil, blockNumber |-> 0, index |-> 0]} \cup
    {[tx |-> tx, blockHash |-> Hash(b), blockNumber |-> b.Number, index |-> 0] :
        b \in db}

\* GetTransaction: what was found, and never an error.
GetTransaction(found) ==
    <<found.tx, found.blockHash, found.blockNumber, found.index, Nil>>

\* The getters hand out what the node was built with.
ChainConfig     == Node.ChainConfig
Downloader      == Node.Downloader
ProtocolVersion == Node.EthVersion
SuggestPrice    == Node.SuggestPrice
ChainDb         == Node.ChainDb
EventMux        == Node.EventMux
AccountManager  == Node.AccountManager
ExtRPCEnabled   == Node.extRPCEnabled
RPCGasCap       == Node.RPCGasCap

\* BloomStatus: the size of a section and the sections the indexer has.
BloomStatus(sections) == <<Node.BloomBitsBlocks, sections>>

\* The feeds of the chain and the feed of the pool.
ChainFeeds == {"RemovedLogs", "Chain", "ChainHead", "ChainSide", "Logs"}
Feeds      == ChainFeeds \cup {"NewTxs"}

-----------------------------------------------------------------------------
(* The environment *)

Init ==
    /\ chain = <<Genesis>>
    /\ db = Range(chain)
    /\ states = {Hash(b) : b \in db}
    /\ mined = Nil
    /\ syncing = FALSE
    /\ pool = [pending |-> [a \in Accounts |-> <<>>],
               queued  |-> [a \in Accounts |-> {}]]
    /\ subs = [feed \in Feeds |-> {}]
    /\ serving = [session \in Sessions |-> 0]
    /\ sah = Nil
    /\ rewinding = Nil
    /\ ret = Returned("none", Nil, Nil)

Quiet == UNCHANGED <<pool, subs, serving, sah, rewinding, ret>>

\* A block goes on top of the chain, with its state.
Extend(block) ==
    /\ chain' = Append(chain, block)
    /\ db' = db \cup {block}
    /\ states' = states \cup {Hash(block)}

\* The synchronisation starts.
StartSync ==
    /\ ~syncing
    /\ syncing' = TRUE
    /\ UNCHANGED <<chain, db, states, mined>>
    /\ Quiet

\* The downloader imports a block.
Import(fork) ==
    /\ syncing
    /\ Len(chain) <= MaxHeight
    /\ Extend(Block(Len(chain), fork))
    /\ UNCHANGED <<mined, syncing>>
    /\ Quiet

\* The miner builds its pending block on the head.
Work(fork) ==
    /\ Len(chain) <= MaxHeight
    /\ LET block == Block(Len(chain), fork)
       IN  mined' = [block |-> block, state |-> StateDB(Hash(block))]
    /\ UNCHANGED <<chain, db, states, syncing>>
    /\ Quiet

\* The miner seals its pending block, if it is still on the head.
Seal ==
    /\ mined # Nil
    /\ mined.block.Number = Len(chain)
    /\ Extend(mined.block)
    /\ UNCHANGED <<mined, syncing>>
    /\ Quiet

\* The database drops the state of a block below the head.
Prune(root) ==
    /\ root \in states \ {Hash(CurrentBlock)}
    /\ states' = states \ {root}
    /\ UNCHANGED <<chain, db, mined, syncing>>
    /\ Quiet

\* The pool promotes a queued transaction.
Promote(tx) ==
    /\ tx \in pool.queued[tx.From]
    /\ pool' = [pending |-> [pool.pending EXCEPT ![tx.From] = Append(@, tx)],
                queued  |-> [pool.queued EXCEPT ![tx.From] = @ \ {tx}]]
    /\ UNCHANGED <<env, subs, serving, sah, rewinding, ret>>

\* A Multiplex goroutine returns: its session has been closed.
MultiplexReturns(session) ==
    /\ serving[session] > 0
    /\ serving' = [serving EXCEPT ![session] = @ - 1]
    /\ UNCHANGED <<env, pool, subs, sah, rewinding, ret>>

-----------------------------------------------------------------------------
(* The backend *)

\* SetHead, first call: the downloader is cancelled.
SetHeadCancel(number) ==
    /\ rewinding = Nil
    /\ syncing' = FALSE
    /\ rewinding' = number
    /\ UNCHANGED <<chain, db, states, mined, pool, subs, serving, sah, ret>>

\* SetHead, second call: the chain rewinds to the number, and what is above
\* it leaves the database.
SetHeadRewind ==
    /\ rewinding # Nil
    /\ chain' = SubSeq(chain, 1, Min({rewinding + 1, Len(chain)}))
    /\ db' = {b \in db : b.Number <= rewinding}
    /\ states' = {Hash(b) : b \in {c \in db : Hash(c) \in states /\ c.Number <= rewinding}}
    /\ rewinding' = Nil
    /\ ret' = Returned("SetHead", rewinding, Nil)
    /\ UNCHANGED <<mined, syncing, pool, subs, serving, sah>>

\* StateAndHeaderByNumber of the pending block: miner.Pending() gives the
\* block and its state together.
StateAndHeaderPending ==
    /\ sah = Nil
    /\ ret' = IF mined = Nil
              THEN Returned("StateAndHeaderByNumber", Nil, "nil pointer dereference")
              ELSE Returned("StateAndHeaderByNumber",
                            [state |-> mined.state, header |-> Header(mined.block)], Nil)
    /\ UNCHANGED <<node, sah, rewinding>>

\* Mutant: the header is not checked.
HeaderFoundUnchecked(header) == TRUE

\* if header == nil
HeaderFound(header) == header # Nil

\* StateAndHeaderByNumber of any other number, first call: HeaderByNumber,
\* and "header not found" when there is none.
StateAndHeaderRead(number) ==
    /\ sah = Nil
    /\ number # PendingBlockNumber
    /\ IF HeaderFound(HeaderByNumber(number))
       THEN /\ sah' = [header |-> HeaderByNumber(number)]
            /\ UNCHANGED ret
       ELSE /\ ret' = Returned("StateAndHeaderByNumber", Nil, "header not found")
            /\ UNCHANGED sah
    /\ UNCHANGED <<node, rewinding>>

\* Mutant: the state opened is the one of the head.
StateOfHead(header) ==
    [state |-> StateDB(Header(CurrentBlock).Root), header |-> header]

\* What StateAt(header.Root) and the header make, when the root opens.
StateOf(header) == [state |-> StateDB(header.Root), header |-> header]

\* StateAndHeaderByNumber, second call: StateAt(header.Root); the header is
\* returned with the error, too.
StateAndHeaderOpen ==
    /\ sah # Nil
    /\ ret' = IF sah.header.Root \in states
              THEN Returned("StateAndHeaderByNumber", StateOf(sah.header), Nil)
              ELSE Returned("StateAndHeaderByNumber",
                            [state |-> Nil, header |-> sah.header], "missing state")
    /\ sah' = Nil
    /\ UNCHANGED <<node, rewinding>>

\* SendTx: txPool.AddLocal returns an error, or it has the transaction
\* among the pending or among the queued ones of its sender.
SendTx(tx) ==
    /\ \/ /\ ret' = Returned("SendTx", tx, "rejected")
          /\ UNCHANGED pool
       \/ /\ tx \notin Pooled
          /\ ret' = Returned("SendTx", tx, Nil)
          /\ \/ pool' = [pool EXCEPT !.pending[tx.From] = Append(@, tx)]
             \/ pool' = [pool EXCEPT !.queued[tx.From] = @ \cup {tx}]
    /\ UNCHANGED <<env, subs, serving, sah, rewinding>>

\* state.SetBalance(addr, math.MaxBig256)
SetBalance(state, addr) == [state EXCEPT !.Funded = @ \cup {addr}]

\* GetEVM: the sender is funded in the state that was passed, and the EVM
\* runs on that very state under the header that was passed.
GetEVM(from, state, header) ==
    [state |-> SetBalance(state, from), header |-> header, from |-> from,
     config |-> ChainConfig]

\* GetEVM is called with any state and any header: nothing is checked
\* about them, and the state may be one an earlier call has funded.
GetEVMCall(from, state, header) ==
    /\ ret' = Returned("GetEVM", GetEVM(from, state, header), Nil)
    /\ UNCHANGED <<node, sah, rewinding>>

GetTransactionCall(tx) ==
    /\ \E found \in Lookups(tx) :
           ret' = Returned("GetTransaction", GetTransaction(found), Nil)
    /\ UNCHANGED <<node, sah, rewinding>>

\* feed.Subscribe(ch): every call is passed on.  subs tells which channels
\* a feed sends to, not how often a channel has subscribed.
Subscribe(feed, ch) ==
    /\ subs' = [subs EXCEPT ![feed] = @ \cup {ch}]
    /\ UNCHANGED <<env, pool, serving, sah, rewinding, ret>>

SubscribeRemovedLogsEvent(ch) == Subscribe("RemovedLogs", ch)
SubscribeChainEvent(ch)       == Subscribe("Chain", ch)
SubscribeChainHeadEvent(ch)   == Subscribe("ChainHead", ch)
SubscribeChainSideEvent(ch)   == Subscribe("ChainSide", ch)
SubscribeLogsEvent(ch)        == Subscribe("Logs", ch)
SubscribeNewTxsEvent(ch)      == Subscribe("NewTxs", ch)

\* ServiceFilter starts bloomFilterThreads goroutines that multiplex the
\* retrievals of the session onto b.ccm.bloomRequests, on every call and
\* whatever the session is served by already.
ServiceFilter(session) ==
    /\ serving[session] + bloomFilterThreads <= MaxServing
    /\ serving' = [serving EXCEPT ![session] = @ + bloomFilterThreads]
    /\ UNCHANGED <<env, pool, subs, sah, rewinding, ret>>

Environment ==
    \/ StartSync
    \/ \E fork \in Forks : Import(fork) \/ Work(fork)
    \/ Seal
    \/ \E root \in Hashes : Prune(root)
    \/ \E tx \in Txs : Promote(tx)
    \/ \E session \in Sessions : MultiplexReturns(session)

Backend ==
    \/ \E number \in 0..MaxHeight : SetHeadCancel(number)
    \/ SetHeadRewind
    \/ StateAndHeaderPending
    \/ \E number \in {LatestBlockNumber} \cup 0..MaxHeight + 1 : StateAndHeaderRead(number)
    \/ StateAndHeaderOpen
    \/ \E tx \in Txs : SendTx(tx)
    \/ \E from \in Accounts, state \in StateDBs, header \in Headers :
           GetEVMCall(from, state, header)
    \/ \E tx \in Txs : GetTransactionCall(tx)
    \/ \E ch \in Channels :
           \/ SubscribeRemovedLogsEvent(ch)
           \/ SubscribeChainEvent(ch)
           \/ SubscribeChainHeadEvent(ch)
           \/ SubscribeChainSideEvent(ch)
           \/ SubscribeLogsEvent(ch)
           \/ SubscribeNewTxsEvent(ch)
    \/ \E session \in Sessions : ServiceFilter(session)

Next == Environment \/ Backend

Spec == Init /\ [][Next]_vars

-----------------------------------------------------------------------------
(* Properties *)

Numbers == {PendingBlockNumber, LatestBlockNumber} \cup 0..MaxHeight + 1

BackendTypeOK ==
    /\ chain \in Seq(Blocks) /\ Len(chain) \in 1..MaxHeight + 1
    /\ \A i \in DOMAIN chain : chain[i].Number = i - 1
    /\ db \subseteq Blocks /\ Range(chain) \subseteq db
    /\ states \subseteq {Hash(b) : b \in db}
    /\ mined # Nil => mined.block \in Blocks /\ mined.state = StateDB(Hash(mined.block))
    /\ syncing \in BOOLEAN
    /\ pool.pending \in [Accounts -> Seq(Txs)]
    /\ pool.queued \in [Accounts -> SUBSET Txs]
    /\ subs \in [Feeds -> SUBSET Channels]
    /\ serving \in [Sessions -> 0..MaxServing]
    /\ sah # Nil => sah.header \in Headers
    /\ rewinding \in 0..MaxHeight \cup {Nil}
    /\ ret.op \in {"none", "SetHead", "StateAndHeaderByNumber", "SendTx",
                  "GetEVM", "GetTransaction"}
    /\ \A hash \in Hashes :
           /\ GetHeader(hash) = HeaderByHash(hash)
           /\ (GetBlock(hash) = Nil) = (GetTd(hash) = Nil)
           /\ GetLogs(hash) # Nil => Len(GetLogs(hash)) = Len(GetReceipts(hash))
    /\ \A tx \in Txs : GetPoolTransaction(tx) \in {tx, Nil}
    /\ \A addr \in Accounts : GetPoolNonce(addr) \in 0..MaxTxs

\* The state StateAndHeaderByNumber returns is the state of the header it
\* returns, although the header and the state are read by two calls and the
\* chain grows, rewinds and is pruned between them: the state is opened by
\* the root of the header that was read, not looked up again by number, and
\* the pending state comes with its block from one call of the miner.
StateBelongsToHeader ==
    ret.op = "StateAndHeaderByNumber" /\ ret.err = Nil =>
        ret.val.state.Root = ret.val.header.Root

\* A header that cannot be given is reported, as nil or as an error: so
\* BlockByNumber passes a nil pending block on (line 83), and so
\* StateAndHeaderByNumber answers "header not found" (lines 103-105).  No
\* call ends in a nil pointer dereference.
EveryCallReturns == ret.err # "nil pointer dereference"

\* HeaderByNumber and BlockByNumber resolve a number alike: for pending,
\* latest and every number, the header returned is the header of the block
\* returned, and latest is the head of the chain, whatever its height.
HeaderAndBlockAgree ==
    \A number \in Numbers :
        ~NoPendingBlock(number) =>
            /\ HeaderByNumber(number) = HeaderOrNil(BlockByNumber(number))
            /\ number = LatestBlockNumber =>
                   HeaderByNumber(number).Number = Len(chain) - 1

\* When txPool.Pending() gives no error, GetPoolTransactions returns every
\* pending transaction once, as many as Stats counts, whatever the order in
\* which the map of the batches is ranged over, and no queued one; when it
\* gives one, the error is returned and no list with it.
PoolTransactionsComplete ==
    /\ \A r \in GetPoolTransactions(Nil) :
           /\ r[2] = Nil
           /\ Len(r[1]) = Stats[1]
           /\ ToSet(r[1]) = UNION {Range(pool.pending[a]) : a \in Accounts}
    /\ GetPoolTransactions("pending") = {<<Nil, "pending">>}

=============================================================================
