---------------------------- MODULE MCApiBackend ----------------------------
(***************************************************************************)
(* ApiBackend for TLC: two forks, so that a rewound chain can grow again   *)
(* with other blocks, two senders, one subscriber and one matcher session. *)
(* The heights and the transactions are given by each configuration.       *)
(***************************************************************************)
EXTENDS ApiBackend

MCForks    == {"a", "b"}
MCAccounts == {"alice", "bob"}
MCChannels == {"ch"}
MCSessions == {"session"}

MCNode ==
    [ChainConfig |-> "params.ChainConfig", Downloader |-> "downloader",
     EthVersion |-> 63, SuggestPrice |-> <<1, Nil>>, ChainDb |-> "chainDb",
     EventMux |-> "eventMux", AccountManager |-> "accountManager",
     extRPCEnabled |-> TRUE, RPCGasCap |-> Nil, BloomBitsBlocks |-> 4096]

=============================================================================
