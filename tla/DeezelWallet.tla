----------------------------- MODULE DeezelWallet -----------------------------
(***************************************************************************)
(* Keys, addresses and the ways deezel names them: the keystore, the       *)
(* addresses it shows (deezel-sys), the ones the provider looks at and can *)
(* sign for (deezel-common), and the resolution of identifiers.            *)
(*                                                                         *)
(* A key is named by the path that derives it; an address by its script    *)
(* type, its key, the prefix it is written with and the one its checksum   *)
(* is for.                                                                 *)
(***************************************************************************)
EXTENDS Armor

CONSTANTS
    PhraseLength,   \* the length of the mnemonic of each seed, in bytes
    TagSize,        \* what the cipher adds to it: 16
    ShownCount,     \* addresses of each type shown by default: 5
    ListCount,      \* addresses whose coins are listed by default: 20
    SendCount,      \* addresses whose coins a payment may spend: 100
    GapLimit        \* addresses of a branch that signing looks through: 101

ASSUME WalletAssumption ==
    /\ TagSize \in Nat /\ {ShownCount, ListCount, SendCount, GapLimit} \subseteq Nat \ {0}
    /\ \A seed \in DOMAIN PhraseLength : PhraseLength[seed] \in Nat
    /\ ShownCount <= ListCount /\ ListCount <= SendCount /\ SendCount <= GapLimit

ScriptTypes == {"p2pkh", "p2sh", "p2wpkh", "p2wsh", "p2tr"}
Bech32 == {"p2wpkh", "p2wsh", "p2tr"}

-----------------------------------------------------------------------------
(* Networks *)

Networks == {"mainnet", "testnet", "signet", "regtest"}
Prefix(network) ==
    CASE network = "mainnet" -> "bc" [] network \in {"testnet", "signet"} -> "tb"
      [] network = "regtest" -> "bcrt"

Params(network, prefix) == [network |-> network, prefix |-> prefix]

\* The networks of other coins are Bitcoin's with a prefix of their own.
OtherCoins == [dogecoin |-> "dc", luckycoin |-> "lky", bellscoin |-> "bel"]

\* NetworkParams::from_network_str, for the names of --provider.
Known(name) == name \in Networks \cup {"bitcoin"} \cup DOMAIN OtherCoins
from_network_str(name) ==
    CASE name \in Networks -> Params(name, Prefix(name))
      [] name = "bitcoin" -> Params("mainnet", Prefix("mainnet"))
      [] name \in DOMAIN OtherCoins -> Params("mainnet", OtherCoins[name])

\* ConcreteProvider::get_network; a name it does not know is regtest's.
get_network(provider) == IF provider \in Networks THEN provider ELSE "regtest"

-----------------------------------------------------------------------------
(* The keystore *)

\* The purpose and the coin type of the account every key is derived from,
\* whatever the network and the script type.
AccountPath == <<86, 0>>
HdPath(type) ==
    CASE type = "p2tr" -> <<86, 0>> [] type = "p2wpkh" -> <<84, 0>>
      [] type = "p2sh" -> <<49, 0>> [] type = "p2pkh" -> <<44, 0>>

Key(seed, account, chain, index) ==
    [seed |-> seed, account |-> account, chain |-> chain, index |-> index]

Address(type, key, network) ==
    [type |-> type, key |-> key, prefix |-> Prefix(network), sum |-> Prefix(network)]

\* AES-GCM under a key derived from the passphrase (crypto.rs), as an ideal cipher: the
\* mnemonic's bytes and a tag, which only the same passphrase opens and only when no byte
\* is missing.
encrypt(seed, passphrase) ==
    [seed |-> seed, pass |-> passphrase, size |-> PhraseLength[seed] + TagSize]
decrypt(encrypted, size, passphrase) ==
    {seed \in {encrypted.seed} : size = encrypted.size /\ passphrase = encrypted.pass}

\* Keystore::new: the mnemonic, encrypted and armored, and the account's public key
\* in the clear
Keystore_Unchecked(seed, passphrase) ==
    LET encrypted == encrypt(seed, passphrase)
    IN  [seed |-> seed, encrypted |-> encrypted, armored |-> write(encrypted.size, FALSE),
         account |-> AccountPath]

Keystore(seed, passphrase) ==
    LET encrypted == encrypt(seed, passphrase)
    IN  [seed |-> seed, encrypted |-> encrypted, armored |-> write(encrypted.size, TRUE),
         account |-> AccountPath]

\* The mnemonic, in a set that is empty for an Err
decrypt_mnemonic(keystore, passphrase) ==
    UNION {decrypt(keystore.encrypted, size, passphrase) : size \in decode(keystore.armored)}

\* Keystore::get_addresses, which has p2tr addresses whatever type it is asked for.
get_addresses(keystore, network, chain, start, count) ==
    {Address("p2tr", Key(keystore.seed, keystore.account, chain, i), network) :
        i \in start..(start + count - 1)}

-----------------------------------------------------------------------------
(* The addresses that are shown *)

CoinType(network) == IF network = "mainnet" THEN 0 ELSE 1

\* The path printed with an address follows the standard of its type and network.
PrintedPath(type, network, chain, index) ==
    <<CASE type \in {"p2tr", "p2wsh"} -> 86 [] type = "p2wpkh" -> 84
        [] type = "p2sh" -> 49 [] type = "p2pkh" -> 44,
      CoinType(network), chain, index>>

derive_single_address(keystore, network, type, chain, index) ==
    [address |-> Address(type, Key(keystore.seed, keystore.account, chain, index), network),
     path |-> PrintedPath(type, network, chain, index)]

derive_addresses(keystore, network, types, start, count) ==
    {derive_single_address(keystore, network, t, 0, i) :
        t \in types, i \in start..(start + count - 1)}

get_default_addresses(keystore, network) ==
    derive_addresses(keystore, network, ScriptTypes, 0, ShownCount)

\* apply_custom_network_params: the prefix is replaced in the text of the address,
\* the checksum stays.
Relabelled(address, prefix) ==
    IF address.type \in Bech32 THEN [address EXCEPT !.prefix = prefix] ELSE address

\* derive_addresses_from_metadata, for each of the networks, with the prefix of the
\* provider's own parameters unless they are regtest's.
derive_addresses_from_metadata(keystore, networks, types, start, count, provider) ==
    {IF provider # "regtest" /\ Known(provider)
     THEN Relabelled(a.address, from_network_str(provider).prefix)
     ELSE a.address :
        a \in UNION {derive_addresses(keystore, n, types, start, count) : n \in networks}}

\* parse_address_range: start-end, both included, as a start and a count.
Ranges == (0..GapLimit) \X (0..GapLimit)
RangeFails(range) == range[2] < range[1]
parse_address_range(range) == <<range[1], (range[2] - range[1]) + 1>>

-----------------------------------------------------------------------------
(* The addresses that are looked at and signed for *)

DefaultListed(keystore, network) == get_addresses(keystore, network, 0, 0, ListCount)
DefaultSpent(keystore, network) == get_addresses(keystore, network, 0, 0, SendCount)

FoundAt_ListedOnly(keystore, address, network) ==
    {at \in (0..1) \X (0..(ListCount - 1)) :
        Address("p2tr", Key(keystore.seed, keystore.account, at[1], at[2]), network) = address}

\* The search of find_address_info: both branches of the account, p2tr only.
FoundAt(keystore, address, network) ==
    {at \in (0..1) \X (0..(GapLimit - 1)) :
        Address("p2tr", Key(keystore.seed, keystore.account, at[1], at[2]), network) = address}

\* The key that the path it returns derives from the mnemonic.
SigningKeys(keystore, address, network) ==
    {Key(keystore.seed, HdPath("p2tr"), at[1], at[2]) :
        at \in FoundAt(keystore, address, network)}

-----------------------------------------------------------------------------
(* Identifiers *)

\* A bare address; p2tr or p2tr:0; [self:p2tr:0]; [external:...]; p2tr:0-5; and
\* brackets that name nothing.
Shapes == {"raw", "shorthand", "bracket", "external", "range", "unknown"}
Inputs == [shape : Shapes, type : ScriptTypes]

\* find_identifiers: a range is not a shorthand, since its index does not parse.
IsIdentifier(input) == input.shape \in {"shorthand", "bracket", "external", "unknown"}

\* resolve_all_identifiers: own addresses need a keystore and are p2tr only; what
\* is no identifier is passed on as it stands.
Resolves(input, hasKeystore) ==
    \/ ~IsIdentifier(input)
    \/ input.shape = "external"
    \/ input.shape \in {"shorthand", "bracket"} /\ input.type = "p2tr" /\ hasKeystore

\* Whether an address comes out: the text of a range is none.
ResolvesToAddress(input) == input.shape # "range"
=============================================================================
