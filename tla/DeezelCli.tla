------------------------------ MODULE DeezelCli ------------------------------
(***************************************************************************)
(* The deezel command line: processes that share a keystore file. Each     *)
(* runs one command of the binary (shell) or of deezel-sys (library): a    *)
(* plan of steps, one for each thing that can fail, change something or    *)
(* depend on an answer. A command with options has one plan for each way   *)
(* its options lead through it; printing is left out.                      *)
(***************************************************************************)
EXTENDS DeezelCommands, DeezelProvider, DeezelWallet, Runestone

CONSTANTS
    Processes,      \* invocations that may overlap
    Sessions,       \* what users may do, a sequence of `may`, the <<side, command>>s of
                    \* each process, and `bytes`, the length of payloads to decode
    Seeds,          \* mnemonics
    Passes,         \* passphrases keystores are made with
    Provider,       \* --provider
    SyncRetries     \* attempts of wallet sync: 60

ASSUME CliAssumption ==
    /\ SyncRetries \in Nat \ {0}
    /\ Seeds \subseteq DOMAIN PhraseLength /\ Seeds \cap {"none", "other"} = {}

VARIABLES
    session,    \* which of Sessions this is
    file,       \* the keystore file: its state, and the keystore it holds, if any
    proc,       \* the processes
    drawn,      \* mnemonics that were generated
    known,      \* mnemonics the user has: they were printed or typed in
    shown,      \* mnemonics of which an address was printed
    cutOff      \* mnemonics saved by a process that was killed before printing them

vars == <<session, file, proc, drawn, known, shown, cutOff>>

NoFile == [state |-> "none", has |-> {}]
Unreadable == [state |-> "unreadable", has |-> {}]
Saved(keystore) == [state |-> "keystore", has |-> {keystore}]

Idle == [plan |-> <<>>, exit |-> "idle", wallet |-> {}, unlocked |-> FALSE, pass |-> "none",
         seed |-> "none", rest |-> FALSE, mistaken |-> FALSE, noAddress |-> FALSE,
         coin |-> {}, named |-> FALSE, keys |-> {}, tries |-> 0, payload |-> <<>>,
         reply |-> "none", accepted |-> FALSE]

network == get_network(Provider)

-----------------------------------------------------------------------------
(* Plans *)

Do(what) == <<[do |-> what, of |-> <<"", "">>]>>
Ask(trait, name) == <<[do |-> "ask", of |-> <<trait, name>>]>>
Try(trait, name) == <<[do |-> "try", of |-> <<trait, name>>]>>
Pay(trait, name) == <<[do |-> "send", of |-> <<trait, name>>]>>
Show(what) == <<[do |-> "show", of |-> <<what, "">>]>>
Select(whose) == <<[do |-> "select", of |-> <<whose, "">>]>>
\* Both tables of plans; where they overlap, the first.
f ++ g == [c \in DOMAIN f \cup DOMAIN g |-> IF c \in DOMAIN f THEN f[c] ELSE g[c]]

Command(group, names, plans) == [c \in {group} \X names |-> plans]
Either(starts, plan) == {start \o plan : start \in starts}
Has(plan, what) == \E i \in DOMAIN plan : plan[i].do = what
Asks(plan, trait) == Has(plan, "fetch") \/ \E i \in DOMAIN plan : plan[i].of[1] = trait
NeedsWallet(plan) ==
    \E what \in {"unlock", "needKeystore", "resolve", "show", "select", "sign"} : Has(plan, what)

\* One call each; the esplora ones that name an address or broadcast are below.
EsploraCall ==
    [BlocksTipHash |-> "get_blocks_tip_hash", BlocksTipHeight |-> "get_blocks_tip_height",
     Blocks |-> "get_blocks", BlockHeight |-> "get_block_by_height", Block |-> "get_block",
     BlockStatus |-> "get_block_status", BlockTxids |-> "get_block_txids",
     BlockHeader |-> "get_block_header", BlockRaw |-> "get_block_raw",
     BlockTxid |-> "get_block_txid", BlockTxs |-> "get_block_txs",
     AddressPrefix |-> "get_address_prefix", Tx |-> "get_tx", TxHex |-> "get_tx_hex",
     TxRaw |-> "get_tx_raw", TxStatus |-> "get_tx_status",
     TxMerkleProof |-> "get_tx_merkle_proof",
     TxMerkleblockProof |-> "get_tx_merkleblock_proof", TxOutspend |-> "get_tx_outspend",
     TxOutspends |-> "get_tx_outspends", Mempool |-> "get_mempool",
     MempoolTxids |-> "get_mempool_txids", MempoolRecent |-> "get_mempool_recent",
     FeeEstimates |-> "get_fee_estimates"]

EsploraAddressCall ==
    [Address |-> "get_address", AddressTxs |-> "get_address_txs",
     AddressTxsChain |-> "get_address_txs_chain",
     AddressTxsMempool |-> "get_address_txs_mempool", AddressUtxo |-> "get_address_utxo"]

OrdCall ==
    [Inscription |-> "get_inscription", InscriptionsInBlock |-> "get_inscriptions_in_block",
     AddressInfo |-> "get_ord_address_info", BlockInfo |-> "get_block_info",
     BlockCount |-> "get_ord_block_count", Blocks |-> "get_ord_blocks",
     Children |-> "get_children", Content |-> "get_content",
     Inscriptions |-> "get_inscriptions", Output |-> "get_output"]

OrdLookup ==
    [Parents |-> "get_parents", Rune |-> "get_rune", Runes |-> "get_runes",
     Sat |-> "get_sat", TxInfo |-> "get_tx_info"]

Calls(group, trait, table) ==
    [c \in {group} \X DOMAIN table |-> {Ask(trait, table[c[2]])}]

EsploraPlans ==
    Calls("esplora", "esplora", EsploraCall)
    ++ Command("esplora", {"Broadcast", "PostTx"}, {Pay("esplora", "broadcast")})

\* The library resolves identifiers first, the binary hands the text on.
LibraryEsploraPlans ==
    [c \in {"esplora"} \X DOMAIN EsploraAddressCall |->
        {Do("resolve") \o Ask("esplora", EsploraAddressCall[c[2]])}]
    ++ EsploraPlans

ShellEsploraPlans == Calls("esplora", "esplora", EsploraAddressCall) ++ EsploraPlans

LibraryOrdPlans == Calls("ord", "ord", OrdCall) ++ Calls("ord", "ord", OrdLookup)

\* Without --raw the binary asks for every inscription of a list.
ShellOrdPlans ==
    [c \in {"ord"} \X {"InscriptionsInBlock", "Children", "Inscriptions"} |->
        {Ask("ord", OrdCall[c[2]]), Ask("ord", OrdCall[c[2]]) \o Ask("ord", "get_inscription")}]
    ++ LibraryOrdPlans

\* Most of the bitcoind commands print that they are not implemented.
BitcoindPlans ==
    Command("bitcoind", {"Getblockcount"}, {Ask("bitcoin", "get_block_count")})
    ++ Command("bitcoind", {"Generatetoaddress"},
               {Do("resolve") \o Ask("bitcoin", "generate_to_address")})
    ++ [c \in DOMAIN LibraryBitcoind |-> {Do("stub")}]

\* WalletProvider: the parts of create_transaction and sign_transaction.
Build(whose) == Ask("esplora", "get_address_utxo") \o Select(whose)
SignAndSend == Do("fetch") \o Do("sign") \o Pay("bitcoin", "send_raw_transaction")

\* get_utxo: the executor looks at each coin it has selected.
get_utxo == Do("fetch")

\* One call each; a fee that is not in the answer has a default.
get_history == Ask("esplora", "get_address_txs")
estimate_fee == Ask("esplora", "get_fee_estimates")
get_fee_rates == Ask("esplora", "get_fee_estimates")

\* get_utxos, with the height for the confirmations of a coin.
Utxos == Ask("esplora", "get_address_utxo") \o Try("bitcoin", "get_block_count")

\* The passphrase typed twice may not match, a mnemonic typed in may be none.
Create == Do("truncate") \o Do("write") \o Do("report")

LibraryKeystorePlans ==
    Command("wallet", {"Create"}, Either({Do("generate"), Do("parse") \o Do("import")}, Create)
                                  \cup {Do("parse") \o Do("generate") \o Create})
    ++ Command("wallet", {"Restore"}, {Do("parse") \o Do("import") \o Create})
    ++ Command("wallet", {"Info"}, {Do("readFile") \o Show("default")})
    ++ Command("wallet", {"Addresses"}, Either({Do("readFile"), Do("readFile") \o Do("confirm")},
                                               Show("networks"))
                                        \cup {Do("readFile") \o Show("range")})
    ++ Command("wallet", {"FreezeUtxo", "UnfreezeUtxo", "Backup"}, {Do("panic")})
    ++ Command("wallet", {"ListIdentifiers"}, {<<>>})
    ++ Command("walletinfo", {"Walletinfo"},
               {Do("needKeystore") \o Show("first") \o Ask("esplora", "get_address_info")})

\* requires_signing: the wallet is unlocked before the command is looked at.
LibraryPaymentPlans ==
    Command("wallet", {"Send"},
            Either({Do("unlock") \o Do("resolve"),
                    Do("unlock") \o Do("resolve") \o Do("resolve")}, Build("own") \o SignAndSend)
            \cup {Do("unlock") \o Do("resolve") \o Do("resolve") \o Build("named") \o SignAndSend})
    ++ Command("wallet", {"SendAll"},
               {Do("unlock") \o Do("resolve") \o Build("nothing") \o SignAndSend})
    ++ Command("wallet", {"CreateTx"}, {Do("unlock") \o Do("resolve") \o Build("own")})
    ++ Command("wallet", {"SignTx"},
               {Do("unlock") \o Do("parse") \o Select("named") \o Do("fetch") \o Do("sign")})
    ++ Command("wallet", {"BroadcastTx"},
               Either({<<>>, Do("confirm")}, Pay("esplora", "broadcast")))

LibraryQueryPlans ==
    Command("wallet", {"Balance"},
            {Do("needKeystore") \o Do("parse") \o Ask("esplora", "get_address_info"),
             Do("needKeystore") \o Ask("esplora", "get_address_info")})
    ++ Command("wallet", {"Utxos"}, Either({Do("resolve"), Do("needKeystore")}, Utxos))
    ++ Command("wallet", {"History"},
               {Do("resolve") \o get_history, Do("refuse")})
    ++ Command("wallet", {"TxDetails"}, {Ask("esplora", "get_tx")})
    ++ Command("wallet", {"EstimateFee"}, {estimate_fee})
    ++ Command("wallet", {"FeeRates"}, {get_fee_rates})
    ++ Command("wallet", {"Sync"}, {Do("sync")})

\* The transactions an execution makes are the subject of AlkanesExecute; here it
\* is what it takes to get one of them sent.
LibraryExecutePlans ==
    Command("alkanes", {"Execute"},
            Either({Do("unlock") \o Do("resolve") \o Do("parse") \o Do("resolve"),
                    Do("unlock") \o Do("parse") \o Do("resolve")},
                   Build("listed") \o get_utxo \o Do("confirm") \o SignAndSend))

LibraryAlkanesPlans ==
    Command("alkanes", {"Balance"},
            Either({<<>>, Do("needKeystore")}, Ask("alkanes", "get_balance")))
    ++ Command("alkanes", {"Trace"}, {Do("parse") \o Ask("metashrew", "trace_outpoint")})
    ++ Command("alkanes", {"Inspect"}, {Do("refuse")})
    ++ Command("alkanes", {"GetBytecode"}, {Do("parse") \o Ask("alkanes", "get_bytecode")})
    ++ Command("alkanes", {"Simulate"}, {Do("parse") \o Ask("alkanes", "simulate")})
    ++ Command("alkanes", {"GetBlock"}, {Ask("alkanes", "get_block")})
    ++ Command("alkanes", {"Sequence"}, {Ask("alkanes", "sequence")})
    ++ Command("alkanes", {"SpendablesByAddress"}, {Ask("alkanes", "spendables_by_address")})
    ++ Command("alkanes", {"TraceBlock"}, {Ask("alkanes", "trace_block")})

LibraryOtherPlans ==
    Command("metashrew", {"Height"}, {Ask("metashrew", "get_metashrew_height")})
    ++ Command("runestone", {"Decode"}, {Do("parse") \o Do("decode")})
    ++ Command("runestone", {"Analyze"},
               {Ask("bitcoin", "get_transaction_hex") \o Do("decode")})
    ++ Command("protorunes", {"ByAddress"}, {Ask("metashrew", "get_protorunes_by_address")})
    ++ Command("protorunes", {"ByOutpoint"}, {Ask("metashrew", "get_protorunes_by_outpoint")})
    ++ Command("monitor", {"Blocks"}, {Do("refuse")})

LibraryPlans ==
    BitcoindPlans ++ LibraryEsploraPlans ++ LibraryOrdPlans ++ LibraryKeystorePlans
    ++ LibraryPaymentPlans ++ LibraryQueryPlans ++ LibraryExecutePlans
    ++ LibraryAlkanesPlans ++ LibraryOtherPlans

\* What the binary does itself, with the provider as it was loaded: locked.
ShellWalletPlans ==
    Command("wallet", {"Utxos"}, Either({Do("resolve"), Do("needKeystore")}, Utxos))
    ++ Command("wallet", {"Send"}, {Build("named") \o SignAndSend,
                                    Do("needKeystore") \o Build("own") \o SignAndSend})
    ++ Command("wallet", {"Balance"},
               Either({<<>>, Do("needKeystore")}, Ask("esplora", "get_address_info")))
    ++ Command("wallet", {"History"}, {get_history, Do("refuse")})

ShellExecutePlans ==
    Command("alkanes", {"Execute"},
            {Do("parse") \o Do("needKeystore") \o Build("listed") \o get_utxo \o SignAndSend})

ShellAlkanesPlans ==
    Command("alkanes", {"Inspect"}, {Do("refuse")})
    ++ Command("alkanes", {"Trace"}, {Try("alkanes", "trace")})
    ++ Command("alkanes", {"Simulate"}, {Do("parse") \o Ask("alkanes", "simulate")})
    ++ Command("alkanes", {"SimulateRaw"}, {Do("parse") \o Ask("rpc", "call")})
    ++ Command("alkanes", {"Sequence"}, {Do("parse") \o Ask("alkanes", "sequence")})
    ++ Command("alkanes", {"Spendables"}, {Ask("alkanes", "spendables_by_address")})
    ++ Command("alkanes", {"TraceBlock"}, {Ask("alkanes", "trace_block")})
    ++ Command("alkanes", {"GetBytecode"}, {Do("parse") \o Ask("alkanes", "get_bytecode")})
    ++ Command("alkanes", {"GetBalance"},
               Either({<<>>, Do("needKeystore")}, Ask("alkanes", "get_balance")))

\* A pool whose details cannot be had is left out.
ShellAmmPlans ==
    Command("amm", {"GetAllPools"}, {Do("parse") \o Ask("rpc", "call")})
    ++ Command("amm", {"AllPoolsDetails"},
               {Do("parse") \o Ask("rpc", "call") \o Try("rpc", "call")})

ShellRunestonePlans ==
    Command("runestone", {"Analyze"}, {Ask("bitcoin", "get_transaction_hex") \o Do("decode")})

ShellOtherPlans ==
    Command("metashrew", {"Height"}, {Ask("metashrew", "get_metashrew_height")})
    ++ Command("metashrew", {"Getblockhash"}, {Ask("bitcoin", "get_block_hash")})
    ++ Command("metashrew", {"Getstateroot"}, {Do("parse") \o Do("refuse")})
    ++ ShellRunestonePlans
    ++ Command("protorunes", {"ByAddress"}, {Ask("metashrew", "get_protorunes_by_address")})
    ++ Command("protorunes", {"ByOutpoint"},
               {Do("parse") \o Ask("metashrew", "get_protorunes_by_outpoint")})

ShellPlans ==
    ShellEsploraPlans ++ ShellOrdPlans ++ ShellWalletPlans ++ ShellExecutePlans
    ++ ShellAlkanesPlans ++ ShellAmmPlans ++ ShellOtherPlans

Plans(side, c) ==
    IF side = "library" THEN LibraryPlans[c]
    ELSE IF c \in HandedOn /\ ~Converts(c) THEN {Do("panic")}
    ELSE IF c \in DOMAIN ShellPlans THEN ShellPlans[c] ELSE LibraryPlans[c]

\* The commands that users give are ones with a plan.
HasPlans(side, c) ==
    \/ c \in DOMAIN LibraryPlans
    \/ side # "library" /\ (c \in DOMAIN ShellPlans \/ (c \in HandedOn /\ ~Converts(c)))

ASSUME SessionAssumption ==
    \A s \in DOMAIN Sessions :
        /\ Sessions[s].bytes \in Nat
        /\ \A p \in Processes : \A run \in Sessions[s].may[p] : HasPlans(run[1], run[2])

-----------------------------------------------------------------------------
(* Running a command *)

Init ==
    /\ session \in DOMAIN Sessions
    /\ file = NoFile
    /\ proc = [p \in Processes |-> Idle]
    /\ drawn = {} /\ known = {} /\ shown = {} /\ cutOff = {}

Running(p) == proc[p].exit = "running"

\* SystemDeezel::new, ConcreteProvider::new: the keystore is read once, when the
\* command starts; one that cannot be read is none. An Esplora URL may be set.
\* The payload is what the runestone of the transaction named pushes. What no step of
\* the plan looks at is not kept.
Start(p) ==
    /\ proc[p].exit = "idle"
    /\ \E run \in Sessions[session].may[p] : \E plan \in Plans(run[1], run[2]) :
        \E seed \in (IF Has(plan, "generate") THEN Seeds \ (drawn \cup known)
                     ELSE IF Has(plan, "import") THEN Seeds ELSE {"none"}) :
        \E pass \in (IF seed = "none" THEN {"none"} ELSE Passes) :
        \E rest \in (IF Asks(plan, "esplora") THEN BOOLEAN ELSE {FALSE}) :
        \E n \in (IF Has(plan, "decode") THEN 0..Sessions[session].bytes ELSE {0}) :
        \E payload \in [1..n -> Bytes] :
            proc' = [proc EXCEPT ![p] =
                [Idle EXCEPT !.plan = plan, !.exit = IF plan = <<>> THEN "ok" ELSE "running",
                             !.wallet = IF NeedsWallet(plan) THEN file.has ELSE {},
                             !.seed = seed, !.pass = pass, !.rest = rest,
                             !.payload = payload]]
    /\ UNCHANGED <<session, file, drawn, known, shown, cutOff>>

\* The command has ended, and the user sees how, or gives up on one that hangs; another
\* may be given.
Leave(p) ==
    /\ proc[p].exit \notin {"idle", "running"}
    /\ proc' = [proc EXCEPT ![p] = Idle]
    /\ UNCHANGED <<session, file, drawn, known, shown, cutOff>>

At(p, what) == Running(p) /\ Head(proc[p].plan).do = what
Of(p) == Head(proc[p].plan).of

\* The step is done: its results, and the next one, if any.
Becomes(p, r) ==
    proc' = [proc EXCEPT ![p] =
        IF Len(r.plan) > 1 THEN [r EXCEPT !.plan = Tail(@)]
        ELSE [Idle EXCEPT !.exit = "ok", !.coin = r.coin, !.keys = r.keys, !.named = r.named]]
Proceeds(p) == Becomes(p, proc[p])
Ends(p, how) == proc' = [proc EXCEPT ![p] = [Idle EXCEPT !.exit = how]]

\* What a process that gets no further leaves.
CutOff(p) ==
    /\ Running(p)
    /\ cutOff' = IF Has(proc[p].plan, "report") /\ ~Has(proc[p].plan, "write")
                 THEN cutOff \cup {proc[p].seed} ELSE cutOff
    /\ UNCHANGED <<session, file, drawn, known, shown>>

\* The process is killed, or its machine stops.
Kill(p) == CutOff(p) /\ Ends(p, "killed")

\* Steps that wait for a server
ServerSteps == {"ask", "try", "fetch", "send", "sync"}

\* The HTTP client has no timeout: a server that takes the request and never answers
\* leaves the process waiting, until it is killed.
Hang(p) == CutOff(p) /\ (\E call \in ServerSteps : At(p, call)) /\ Ends(p, "hung")

\* Nothing but the process changes.
Alone == UNCHANGED <<session, file, drawn, known, shown, cutOff>>

\* A question whose failure is the command's.
AskStep(p) ==
    /\ At(p, "ask") /\ Alone
    /\ \E reading \in {Reading(Of(p), proc[p].rest, reply) : reply \in Replies} :
        IF reading = "failed" THEN Ends(p, "failed")
        ELSE Becomes(p, [proc[p] EXCEPT !.mistaken = reading = "mistaken"])

\* A question whose failure is passed over.
TryStep(p) == At(p, "try") /\ Alone /\ Proceeds(p)

\* What was typed may not parse.
ParseStep(p) == At(p, "parse") /\ Alone /\ (Proceeds(p) \/ Ends(p, "failed"))

\* A declined question, or the name of no network, is no failure.
ConfirmStep(p) == At(p, "confirm") /\ Alone /\ (Proceeds(p) \/ Ends(p, "ok"))

NeedKeystoreStep(p) ==
    /\ At(p, "needKeystore") /\ Alone
    /\ IF proc[p].wallet = {} THEN Ends(p, "failed") ELSE Proceeds(p)

\* unlock_wallet, of the keystore as it was when the command started.
UnlockStep(p) ==
    /\ At(p, "unlock") /\ Alone
    /\ \E typed \in Passes \cup {"mistyped"} :
        IF \E k \in proc[p].wallet : decrypt_mnemonic(k, typed) # {}
        THEN Becomes(p, [proc[p] EXCEPT !.unlocked = TRUE])
        ELSE Ends(p, "failed")

\* resolve_all_identifiers
ResolveStep(p) ==
    /\ At(p, "resolve") /\ Alone
    /\ LET resolved == {i \in Inputs : Resolves(i, proc[p].wallet # {})}
       IN  \/ resolved # Inputs /\ Ends(p, "failed")
           \/ \E address \in {ResolvesToAddress(i) : i \in resolved} :
                Becomes(p, [proc[p] EXCEPT !.noAddress = @ \/ ~address])

\* The commands that are not there: a message and Ok, an Err, or a panic.
AbsentStep(p) ==
    /\ Running(p) /\ Alone
    /\ \E absent \in {<<"stub", "ok">>, <<"refuse", "failed">>, <<"panic", "panic">>} :
        At(p, absent[1]) /\ Ends(p, absent[2])

\* The transaction was typed in or fetched; what is not its hex does not decode.
DecodeStep(p) ==
    /\ At(p, "decode") /\ Alone
    /\ \E artifact \in Artifacts :
        LET stone == [message |-> proc[p].payload, targets |-> {0, 1}]
            shows == format_runestone_with_decoded_messages(artifact, <<stone>>, 1)
        IN  IF ~proc[p].mistaken /\ shows.ok THEN Proceeds(p) ELSE Ends(p, "failed")

\* WalletProvider::sync: the heights of the four services, which end it once the
\* others have caught up with bitcoind's; one that does not answer is behind.
SyncStep_Uncounted(p) ==
    /\ At(p, "sync") /\ Alone
    /\ \/ Proceeds(p)
       \/ proc' = [proc EXCEPT ![p].tries = (@ + 1) % SyncRetries]

SyncStep(p) ==
    /\ At(p, "sync") /\ Alone
    /\ \/ Proceeds(p)
       \/ proc[p].tries + 1 = SyncRetries /\ Ends(p, "failed")
       \/ proc[p].tries + 1 < SyncRetries /\ proc' = [proc EXCEPT ![p].tries = @ + 1]

-----------------------------------------------------------------------------
(* The keystore file *)

\* create_keystore, of a new mnemonic or of one that was typed in
GenerateStep(p) ==
    /\ At(p, "generate") /\ Proceeds(p)
    /\ drawn' = drawn \cup {proc[p].seed}
    /\ UNCHANGED <<session, file, known, shown, cutOff>>

ImportStep(p) ==
    /\ At(p, "import") /\ Proceeds(p)
    /\ known' = known \cup {proc[p].seed}
    /\ UNCHANGED <<session, file, drawn, shown, cutOff>>

\* save_keystore: std::fs::write empties the file, whatever it holds, and writes.
TruncateStep(p) ==
    /\ At(p, "truncate") /\ Proceeds(p)
    /\ file' = Unreadable
    /\ UNCHANGED <<session, drawn, known, shown, cutOff>>

\* Over what another process has written since, the end of a longer text stays.
WriteStep(p) ==
    /\ At(p, "write") /\ Proceeds(p)
    /\ file' \in {Saved(Keystore(proc[p].seed, proc[p].pass))}
                 \cup (IF file.has # {} THEN {Unreadable} ELSE {})
    /\ UNCHANGED <<session, drawn, known, shown, cutOff>>

\* The mnemonic and the first address are printed.
ReportStep_NoMnemonic(p) ==
    /\ At(p, "report") /\ Proceeds(p)
    /\ shown' = shown \cup {proc[p].seed}
    /\ UNCHANGED <<session, file, drawn, known, cutOff>>

ReportStep(p) ==
    /\ At(p, "report") /\ Proceeds(p)
    /\ known' = known \cup {proc[p].seed}
    /\ shown' = shown \cup {proc[p].seed}
    /\ UNCHANGED <<session, file, drawn, cutOff>>

\* wallet info and addresses read the file again.
ReadFileStep(p) ==
    /\ At(p, "readFile") /\ Alone
    /\ \/ file.state = "none" /\ Ends(p, "ok")
       \/ file.state = "unreadable" /\ Ends(p, "failed")
       \/ file.state = "keystore" /\ Becomes(p, [proc[p] EXCEPT !.wallet = file.has])

\* The sets of addresses that may be printed: the first; some of every type, for the
\* network in use, all of them or a named one; those of a range.
Printouts(keystore, what) ==
    CASE what = "first" -> {get_addresses(keystore, network, 0, 0, 1)}
      [] what = "default" -> {{a.address : a \in get_default_addresses(keystore, network)}}
      [] what = "networks" ->
            {derive_addresses_from_metadata(keystore, n, ScriptTypes, 0, ShownCount, Provider) :
                n \in {{network}, Networks} \cup {{one} : one \in Networks}}
      [] what = "range" ->
            {LET at == parse_address_range(r)
             IN  derive_addresses_from_metadata(keystore, {network}, {"p2tr"},
                                                at[1], at[2], Provider) :
                r \in {r \in Ranges : ~RangeFails(r)}}

ShowStep(p) ==
    /\ At(p, "show")
    /\ \/ /\ Of(p)[1] = "range" /\ \E range \in Ranges : RangeFails(range)
          /\ Ends(p, "failed") /\ UNCHANGED shown
       \/ /\ Proceeds(p)
          /\ shown' \in {shown \cup {a.key.seed : a \in printed} :
                            printed \in UNION {Printouts(k, Of(p)[1]) : k \in proc[p].wallet}}
    /\ UNCHANGED <<session, file, drawn, known, cutOff>>

-----------------------------------------------------------------------------
(* Payments *)

\* Coins of an address that is named: any the keystore shows, or someone else's.
NamedCoins(wallet) ==
    UNION {{a.address : a \in get_default_addresses(k, network)} : k \in wallet}
    \cup {Address("p2tr", Key("other", AccountPath, 0, 0), network)}

CoinsOf(p, whose) ==
    CASE whose = "own" -> UNION {DefaultSpent(k, network) : k \in proc[p].wallet}
      [] whose = "listed" -> UNION {DefaultListed(k, network) : k \in proc[p].wallet}
      [] whose = "named" -> NamedCoins(proc[p].wallet)

\* select_coins, of what the answer lists; an amount of nothing needs none. What is
\* no address makes the transaction fail.
SelectStep(p) ==
    /\ At(p, "select") /\ Alone
    /\ \/ Ends(p, "failed")
       \/ /\ Of(p)[1] = "nothing" /\ ~proc[p].noAddress
          /\ Becomes(p, [proc[p] EXCEPT !.mistaken = FALSE])
       \/ /\ Of(p)[1] # "nothing" /\ ~proc[p].noAddress /\ ~proc[p].mistaken
          /\ \E coin \in CoinsOf(p, Of(p)[1]) :
                Becomes(p, [proc[p] EXCEPT !.coin = {coin}, !.named = Of(p)[1] = "named"])

\* The transaction of each input is fetched; its output must be in the answer.
FetchStep(p) ==
    /\ At(p, "fetch") /\ Alone
    /\ IF proc[p].coin = {} THEN Proceeds(p)
       ELSE \E reading \in {Reading(<<"esplora", "get_tx">>, proc[p].rest, r) : r \in Replies} :
            IF reading = "answer" THEN Proceeds(p) ELSE Ends(p, "failed")

\* sign_transaction, sign_psbt: needs the wallet unlocked and each coin's address
\* found; "unsigned" is the failure to find it.
SignStep(p) ==
    LET keystores == proc[p].wallet
        keys(coin) == UNION {SigningKeys(k, coin, network) : k \in keystores}
    IN  /\ At(p, "sign") /\ Alone
        /\ IF ~proc[p].unlocked THEN Ends(p, "failed")
           ELSE IF \E coin \in proc[p].coin : keys(coin) = {}
           THEN proc' = [proc EXCEPT ![p] =
                            [Idle EXCEPT !.exit = "unsigned", !.named = proc[p].named]]
           ELSE Becomes(p, [proc[p] EXCEPT !.keys = UNION {keys(c) : c \in proc[p].coin}])

\* The node accepts the transaction or not, and the answer says so, gets lost, or is
\* another's; a transaction without inputs is never accepted.
SendStep(p) ==
    /\ At(p, "send") /\ Alone
    /\ \E accepted \in BOOLEAN, reply \in Replies :
        /\ reply = "result" => accepted
        /\ accepted /\ Of(p)[1] = "bitcoin" => proc[p].coin # {}
        /\ proc' = [proc EXCEPT ![p] =
              [Idle EXCEPT !.exit = IF Reading(Of(p), proc[p].rest, reply) = "failed"
                                    THEN "failed" ELSE "sent",
                           !.rest = proc[p].rest /\ Of(p)[1] = "esplora",
                           !.reply = reply, !.accepted = accepted]]

-----------------------------------------------------------------------------

Step(p) ==
    \/ AskStep(p) \/ TryStep(p) \/ ParseStep(p) \/ ConfirmStep(p)
    \/ NeedKeystoreStep(p) \/ UnlockStep(p) \/ ResolveStep(p) \/ AbsentStep(p)
    \/ DecodeStep(p) \/ SyncStep(p)
    \/ GenerateStep(p) \/ ImportStep(p) \/ TruncateStep(p) \/ WriteStep(p)
    \/ ReportStep(p) \/ ReadFileStep(p) \/ ShowStep(p)
    \/ SelectStep(p) \/ FetchStep(p) \/ SignStep(p) \/ SendStep(p)

Next == \E p \in Processes : Start(p) \/ Leave(p) \/ Kill(p) \/ Hang(p) \/ Step(p)

\* A process that waits for nothing is scheduled, and the user answers its prompts. A
\* server need not answer: Hang is the call that waits forever.
Fairness == \A p \in Processes : WF_vars(Step(p))

Spec == Init /\ [][Next]_vars /\ Fairness

-----------------------------------------------------------------------------
(* Properties *)

\* Whatever order several invocations of `wallet create`, `restore`, `info` and the
\* rest come in, overwriting each other's file: an address that was printed belongs
\* to a mnemonic the user was given, or that the file still holds, or that its
\* creator is about to print, unless that creator was killed.
KeysNotLost ==
    shown \subseteq known \cup {k.seed : k \in file.has} \cup cutOff
                    \cup {proc[p].seed : p \in {q \in Processes : Has(proc[q].plan, "report")}}

\* The keystore in the file opens with the passphrase it was made with, and gives the
\* mnemonic it was made from, whatever the mnemonic's length: the armor that is
\* written ends where the reader looks for its end, padding or not (write_footer,
\* find_footer_start).
KeystoreOpens ==
    \A k \in file.has : decrypt_mnemonic(k, k.encrypted.pass) = {k.seed}

\* Every coin that deezel selects by itself it can sign for, and the key it signs
\* with is the coin's: the addresses listed, the search of find_address_info and the
\* path it derives agree. Only a coin the user named may turn out not to be signable.
CoinsCanBeSigned ==
    \A p \in Processes :
        /\ proc[p].exit = "unsigned" => proc[p].named
        /\ proc[p].keys # {} => proc[p].keys = {c.key : c \in proc[p].coin}

\* A command that says a transaction was sent is right, but for a reply whose body
\* is no JSON, or, from an Esplora server, any body at all: an error that the node
\* reports is never taken for a transaction id.
SentIsAccepted ==
    \A p \in Processes :
        proc[p].exit = "sent" /\ ~proc[p].accepted =>
            proc[p].reply \in {"text", "empty"} \/ (proc[p].rest /\ proc[p].reply # "none")

\* Unless one of its calls is never answered, a command that is not killed ends, wallet
\* sync with services that never catch up included.
CommandEnds == \A p \in Processes : Running(p) ~> ~Running(p)

\* What the LEB128 format makes of the first n bytes.
Leb128(payload, n) ==
    LET Upto[k \in 0..n] ==
            IF k = 0 THEN 0 ELSE Upto[k - 1] + payload[k].bits * Pow2[Group * (k - 1)]
    IN  Upto[n]

\* On the payload of a runestone, decode_varint, turn by turn, has the value the
\* LEB128 format gives modulo 2^Width, consumes the bytes up to the last one of the
\* varint, and refuses exactly the ones that have no last byte, or have it past the
\* last shift that a u128 allows. Its comment (runestone_enhanced.rs:443) lists an
\* error for a varint that exceeds 128 bits, but the bits that the last shift moves
\* out of a u128 are lost without one, and another value is read: hence the modulus.
VarintExact ==
    \A p \in Processes :
        LET payload == proc[p].payload
            v       == decode_varint(payload)
            last    == {n \in DOMAIN payload : ~payload[n].more /\ Group * (n - 1) < Width
                                               /\ \A i \in 1..(n - 1) : payload[i].more}
        IN  /\ v.state = "done" <=> last # {}
            /\ \A n \in last : v.length = n /\ v.value = Leb128(payload, n) % Pow2[Width]

\* The two walks over the integers of a payload agree: the protocol data of a
\* runestone are the values of tag 13 in the listing of all tags, in the same order.
OneReading ==
    \A p \in Processes :
        LET push == [kind |-> "push", bytes |-> proc[p].payload]
            read == decode_runestone(<<[magic |-> TRUE, instructions |-> <<push>>]>>)
            tags == read.value.all_tags
        IN  read.ok => read.value.protocol_data =
                           IF RUNESTONE_MAGIC_NUMBER \in DOMAIN tags
                           THEN tags[RUNESTONE_MAGIC_NUMBER] ELSE <<>>
=============================================================================
