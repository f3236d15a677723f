---------------------------- MODULE DeezelProvider ----------------------------
(***************************************************************************)
(* The methods of ConcreteProvider that ask a server something: what each  *)
(* requires of the value that ProviderCall!Call returns, and so what it    *)
(* makes of each kind of reply. A method is <<trait, name>>.               *)
(***************************************************************************)
EXTENDS ProviderCall

Methods(trait, names, kind) == {[method |-> <<trait, n>>, kind |-> kind] : n \in names}

\* json: anything; string: as_str; number: as_u64 or a string that parses; typed:
\* serde_json::from_value of a struct; hex: a hex string holding a message, of
\* which no bytes at all is one with no entries; some_hex: the same, but not empty.
BitcoinRpcProvider ==
    Methods("bitcoin", {"get_block_count"}, "number")
    \cup Methods("bitcoin", {"get_transaction_hex", "get_block_hash",
                           "send_raw_transaction"}, "string")
    \cup Methods("bitcoin", {"generate_to_address", "get_new_address", "get_block",
                           "get_mempool_info", "estimate_smart_fee"}, "json")

MetashrewRpcProvider ==
    Methods("metashrew", {"get_metashrew_height"}, "number")
    \cup Methods("metashrew", {"get_contract_meta", "get_spendables_by_address"}, "json")
    \cup Methods("metashrew", {"trace_outpoint", "get_protorunes_by_address"}, "hex")

get_protorunes_by_outpoint == Methods("metashrew", {"get_protorunes_by_outpoint"}, "some_hex")

EsploraBlockMethods ==
    Methods("esplora", {"get_blocks_tip_height"}, "number")
    \cup Methods("esplora", {"get_blocks_tip_hash", "get_block_by_height",
                           "get_block_header", "get_block_raw", "get_block_txid"}, "string")
    \cup Methods("esplora", {"get_blocks", "get_block", "get_block_status",
                           "get_block_txids", "get_block_txs"}, "json")

EsploraAddressMethods ==
    Methods("esplora", {"get_address", "get_address_info", "get_address_txs",
                        "get_address_txs_chain", "get_address_txs_mempool",
                        "get_address_utxo", "get_address_prefix"}, "json")

EsploraTxMethods ==
    Methods("esplora", {"get_tx_hex", "get_tx_raw", "get_tx_merkleblock_proof",
                        "broadcast"}, "string")
    \cup Methods("esplora", {"get_tx", "get_tx_status", "get_tx_merkle_proof",
                           "get_tx_outspend", "get_tx_outspends"}, "json")

EsploraMempoolMethods ==
    Methods("esplora", {"get_mempool", "get_mempool_txids", "get_mempool_recent",
                        "get_fee_estimates"}, "json")

AlkanesSimulation ==
    Methods("alkanes", {"simulate", "sequence"}, "json")
    \cup Methods("alkanes", {"trace", "get_block"}, "hex")

AlkanesViews ==
    Methods("alkanes", {"spendables_by_address", "trace_block", "get_bytecode",
                        "get_balance"}, "hex")

OrdProvider ==
    Methods("ord", {"get_ord_block_count"}, "number")
    \cup Methods("ord", {"get_content"}, "hex")
    \cup Methods("ord", {"get_inscription", "get_inscriptions_in_block",
                       "get_ord_address_info", "get_block_info", "get_ord_blocks",
                       "get_children", "get_inscriptions", "get_output", "get_parents",
                       "get_rune", "get_runes", "get_sat", "get_tx_info"}, "typed")

\* The amm commands and simulate-raw use JsonRpcProvider::call itself.
JsonRpcProvider == Methods("rpc", {"call"}, "json")

ConcreteProvider ==
    BitcoinRpcProvider \cup MetashrewRpcProvider \cup get_protorunes_by_outpoint
    \cup EsploraBlockMethods \cup EsploraAddressMethods \cup EsploraTxMethods
    \cup EsploraMempoolMethods \cup AlkanesSimulation \cup AlkanesViews \cup OrdProvider
    \cup JsonRpcProvider

Kind ==
    [method \in {m.method : m \in ConcreteProvider} |->
        (CHOOSE m \in ConcreteProvider : m.method = method).kind]

-----------------------------------------------------------------------------
(* Readings *)

Accepted(kind) ==
    CASE kind = "json" -> Values
      [] kind = "string" -> {"result", "text", "empty"}
      [] kind = "hex" -> {"result", "empty"}
      [] kind \in {"number", "typed", "some_hex"} -> {"result"}

\* With an Esplora URL the Esplora methods read the body themselves: text() or
\* bytes() takes any, json() any that parses.
RestAccepted(kind) ==
    CASE kind = "string" -> Replies \ {"none"}
      [] kind = "json" -> {"result", "rpc_error", "other_json"}
      [] kind = "number" -> {"result"}

\* answer: what was asked for; mistaken: something else taken for it.
Reading(method, rest, reply) ==
    LET taken == IF rest /\ method[1] = "esplora"
                 THEN reply \in RestAccepted(Kind[method])
                 ELSE Call(reply) \in Accepted(Kind[method])
    IN  IF ~taken THEN "failed" ELSE IF reply = "result" THEN "answer" ELSE "mistaken"
=============================================================================
