---------------------------- MODULE DeezelCommands ----------------------------
(***************************************************************************)
(* The two command lines of deezel: the one the deezel binary parses       *)
(* (Shell) and the one of deezel-common that the handlers of deezel-sys    *)
(* take (Library). A table maps a command to the fields it must have and   *)
(* the ones that are an Option. The binary hands most commands on by a     *)
(* serde round trip whose result it unwraps.                               *)
(***************************************************************************)
EXTENDS TLC, FiniteSets

\* The commands `names` of a group, which have the same fields.
Args(group, names, required, optional) ==
    [c \in {group} \X names |-> [required |-> required, optional |-> optional]]

-----------------------------------------------------------------------------
(* The enums the two sides share field by field *)

Bitcoind ==
    Args("bitcoind", {"Getblockcount"}, {}, {})
    @@ Args("bitcoind", {"Generatetoaddress"}, {"nblocks", "address"}, {})
    @@ Args("bitcoind", {"Getblockchaininfo", "Getnetworkinfo", "Getchaintips",
                         "Getmempoolinfo", "Getrawmempool"}, {"raw"}, {})
    @@ Args("bitcoind", {"Getrawtransaction"}, {"txid", "raw"}, {"block_hash"})
    @@ Args("bitcoind", {"Getblock", "Getblockheader", "Getblockstats"},
            {"hash", "raw"}, {})
    @@ Args("bitcoind", {"Getblockhash"}, {"height"}, {})
    @@ Args("bitcoind", {"Gettxout"}, {"txid", "vout", "include_mempool", "raw"}, {})
    @@ Args("bitcoind", {"Sendrawtransaction"}, {"tx_hex"}, {})

EsploraBlocks ==
    Args("esplora", {"BlocksTipHash", "BlocksTipHeight"}, {"raw"}, {})
    @@ Args("esplora", {"Blocks"}, {"raw"}, {"start_height"})
    @@ Args("esplora", {"BlockHeight"}, {"height", "raw"}, {})
    @@ Args("esplora", {"Block", "BlockStatus", "BlockTxids", "BlockHeader", "BlockRaw"},
            {"hash", "raw"}, {})
    @@ Args("esplora", {"BlockTxid"}, {"hash", "index", "raw"}, {})
    @@ Args("esplora", {"BlockTxs"}, {"hash", "raw"}, {"start_index"})

EsploraTxs ==
    Args("esplora", {"Address", "AddressTxs", "AddressTxsChain"}, {"params", "raw"}, {})
    @@ Args("esplora", {"AddressTxsMempool", "AddressUtxo"}, {"address", "raw"}, {})
    @@ Args("esplora", {"AddressPrefix"}, {"prefix", "raw"}, {})
    @@ Args("esplora", {"Tx", "TxHex", "TxRaw", "TxStatus", "TxMerkleProof",
                        "TxMerkleblockProof", "TxOutspends"}, {"txid", "raw"}, {})
    @@ Args("esplora", {"TxOutspend"}, {"txid", "index", "raw"}, {})
    @@ Args("esplora", {"Broadcast", "PostTx"}, {"tx_hex", "raw"}, {})
    @@ Args("esplora", {"Mempool", "MempoolTxids", "MempoolRecent", "FeeEstimates"},
            {"raw"}, {})

Ord ==
    Args("ord", {"Inscription"}, {"id", "raw"}, {})
    @@ Args("ord", {"InscriptionsInBlock"}, {"hash", "raw"}, {})
    @@ Args("ord", {"AddressInfo"}, {"address", "raw"}, {})
    @@ Args("ord", {"BlockInfo"}, {"query", "raw"}, {})
    @@ Args("ord", {"BlockCount"}, {}, {})
    @@ Args("ord", {"Blocks"}, {"raw"}, {})
    @@ Args("ord", {"Children", "Parents"}, {"id", "raw"}, {"page"})
    @@ Args("ord", {"Content"}, {"id"}, {})
    @@ Args("ord", {"Inscriptions", "Runes"}, {"raw"}, {"page"})
    @@ Args("ord", {"Output"}, {"outpoint", "raw"}, {})
    @@ Args("ord", {"Rune"}, {"rune", "raw"}, {})
    @@ Args("ord", {"Sat"}, {"sat", "raw"}, {})
    @@ Args("ord", {"TxInfo"}, {"txid", "raw"}, {})

-----------------------------------------------------------------------------
(* What only the binary parses *)

ShellWallet ==
    Args("wallet", {"Create"}, {}, {"mnemonic", "passphrase"})
    @@ Args("wallet", {"Addresses"}, {"raw", "all_networks"}, {"ranges"})
    @@ Args("wallet", {"Utxos"}, {"raw", "include_frozen"}, {"addresses"})
    @@ Args("wallet", {"Freeze", "Unfreeze"}, {"outpoint"}, {})
    @@ Args("wallet", {"Sign"}, {"psbt"}, {})
    @@ Args("wallet", {"Send"}, {"address", "amount", "send_all", "auto_confirm"},
            {"fee_rate", "from", "change_address"})
    @@ Args("wallet", {"Balance"}, {"raw"}, {"addresses"})
    @@ Args("wallet", {"History"}, {"count", "raw"}, {"address"})
    @@ Args("wallet", {"CreateTx"}, {"address", "amount", "send_all"},
            {"fee_rate", "from", "change_address"})
    @@ Args("wallet", {"SignTx", "BroadcastTx"}, {"tx_hex"}, {})
    @@ Args("wallet", {"EstimateFee"}, {"target"}, {})
    @@ Args("wallet", {"FeeRates", "Sync", "Backup", "Mnemonic"}, {}, {})

ShellAlkanes ==
    Args("alkanes", {"Execute"}, {"to", "protostones", "raw", "trace", "mine",
                                  "auto_confirm"},
         {"inputs", "from", "change", "fee_rate", "envelope"})
    @@ Args("alkanes", {"Inspect"}, {"outpoint", "disasm", "fuzz", "meta", "codehash",
                                     "raw"}, {"fuzz_ranges"})
    @@ Args("alkanes", {"Trace", "Sequence"}, {"outpoint", "raw"}, {})
    @@ Args("alkanes", {"Simulate"}, {"contract_id", "raw"}, {"params"})
    @@ Args("alkanes", {"SimulateRaw"}, {"raw"}, {"request", "request_file"})
    @@ Args("alkanes", {"Spendables"}, {"address", "raw"}, {})
    @@ Args("alkanes", {"TraceBlock"}, {"height", "raw"}, {})
    @@ Args("alkanes", {"GetBytecode"}, {"alkane_id", "raw"}, {})
    @@ Args("alkanes", {"GetBalance"}, {"raw"}, {"address"})

ShellQueries ==
    Args("amm", {"GetAllPools", "AllPoolsDetails"}, {"factory_id", "raw"}, {})
    @@ Args("runestone", {"Analyze"}, {"txid", "raw"}, {})
    @@ Args("protorunes", {"ByAddress"}, {"address", "raw", "protocol_tag"}, {"block_tag"})
    @@ Args("protorunes", {"ByOutpoint"}, {"outpoint", "raw", "protocol_tag"},
            {"block_tag"})
    @@ Args("metashrew", {"Height"}, {}, {})
    @@ Args("metashrew", {"Getblockhash"}, {"height"}, {})
    @@ Args("metashrew", {"Getstateroot"}, {}, {"height"})

ShellTable ==
    Bitcoind @@ EsploraBlocks @@ EsploraTxs @@ Ord
    @@ ShellWallet @@ ShellAlkanes @@ ShellQueries

-----------------------------------------------------------------------------
(* What the handlers of deezel-sys take *)

\* The same variants and fields as the binary's.
LibraryBitcoind == Bitcoind
LibraryEsploraBlocks == EsploraBlocks
LibraryEsploraTxs == EsploraTxs
LibraryOrd == Ord

LibraryWallet ==
    Args("wallet", {"Create"}, {}, {"mnemonic"})
    @@ Args("wallet", {"Restore"}, {"mnemonic"}, {})
    @@ Args("wallet", {"Info", "FeeRates", "Sync", "Backup", "ListIdentifiers"}, {}, {})
    @@ Args("wallet", {"Addresses"}, {"raw", "all_networks"},
            {"ranges", "hd_path", "network", "magic"})
    @@ Args("wallet", {"Balance"}, {"raw"}, {"addresses"})
    @@ Args("wallet", {"Send"}, {"address", "amount", "send_all", "yes"},
            {"fee_rate", "from", "change"})
    @@ Args("wallet", {"SendAll"}, {"address", "yes"}, {"fee_rate"})
    @@ Args("wallet", {"CreateTx"}, {"address", "amount", "send_all", "yes"}, {"fee_rate"})
    @@ Args("wallet", {"SignTx"}, {"tx_hex"}, {})
    @@ Args("wallet", {"BroadcastTx"}, {"tx_hex", "yes"}, {})
    @@ Args("wallet", {"Utxos"}, {"raw", "include_frozen"}, {"addresses"})
    @@ Args("wallet", {"FreezeUtxo"}, {"utxo"}, {"reason"})
    @@ Args("wallet", {"UnfreezeUtxo"}, {"utxo"}, {})
    @@ Args("wallet", {"History"}, {"count", "raw"}, {"address"})
    @@ Args("wallet", {"TxDetails"}, {"txid", "raw"}, {})
    @@ Args("wallet", {"EstimateFee"}, {"target"}, {})

LibraryAlkanes ==
    Args("alkanes", {"Execute"}, {"inputs", "to", "protostones", "raw", "trace", "mine",
                                  "yes"}, {"fee_rate", "change", "envelope"})
    @@ Args("alkanes", {"Inspect"}, {"target", "raw", "disasm", "fuzz", "meta",
                                     "codehash"}, {"fuzz_ranges"})
    @@ Args("alkanes", {"GetBytecode"}, {"alkane_id", "raw"}, {})
    @@ Args("alkanes", {"Balance"}, {"raw"}, {"address"})
    @@ Args("alkanes", {"Trace"}, {"outpoint", "raw"}, {})
    @@ Args("alkanes", {"Simulate"}, {"contract_id", "raw"}, {"params"})
    @@ Args("alkanes", {"GetBlock", "TraceBlock"}, {"height", "raw"}, {})
    @@ Args("alkanes", {"Sequence"}, {"txid", "vout", "raw"}, {})
    @@ Args("alkanes", {"SpendablesByAddress"}, {"address", "raw"}, {})

LibraryQueries ==
    Args("walletinfo", {"Walletinfo"}, {"raw"}, {})
    @@ Args("metashrew", {"Height"}, {}, {})
    @@ Args("runestone", {"Decode"}, {"tx_hex", "raw"}, {})
    @@ Args("runestone", {"Analyze"}, {"txid", "raw"}, {})
    @@ Args("protorunes", {"ByAddress"}, {"address", "raw", "protocol_tag"}, {"block_tag"})
    @@ Args("protorunes", {"ByOutpoint"}, {"txid", "vout", "raw", "protocol_tag"},
            {"block_tag"})
    @@ Args("monitor", {"Blocks"}, {"raw"}, {"start"})

LibraryTable ==
    LibraryBitcoind @@ LibraryEsploraBlocks @@ LibraryEsploraTxs @@ LibraryOrd
    @@ LibraryWallet @@ LibraryAlkanes @@ LibraryQueries

Shell == DOMAIN ShellTable
Library == DOMAIN LibraryTable

-----------------------------------------------------------------------------
(* The round trip *)

\* The commands the binary hands on with into(); it carries out the others
\* itself. Addresses is rebuilt field by field.
HandedOn ==
    {c \in Shell : c[1] \in {"bitcoind", "esplora", "ord"}}
    \cup {c \in Shell : c[1] = "wallet" /\ c[2] \notin {"Utxos", "Send", "Balance", "History"}}

Rebuilt == {<<"wallet", "Addresses">>}

\* serde_json::from_value(serde_json::to_value(cmd)): the variant must exist and
\* every field that is not an Option be there; further fields are dropped.
Converts(c) ==
    \/ c \in Rebuilt
    \/ c \in Library /\ LibraryTable[c].required \subseteq ShellTable[c].required
=============================================================================
