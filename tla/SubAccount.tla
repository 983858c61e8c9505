----------------------------- MODULE SubAccount -----------------------------
(***************************************************************************)
(* SubAccount, and the transactions it builds and signs: the addresses     *)
(* each wallet derives and caches, the redeem scripts and private keys it  *)
(* finds for them, and the transaction that travels between cosigners as   *)
(* JSON until enough of them have signed it.                               *)
(*                                                                         *)
(* The wallets are the parties of one multi-sign address: wallets created  *)
(* with the cosigners' keys, watch-only ones, and standard wallets whose   *)
(* key is in the ring.  A public key is modelled by the wallet that holds  *)
(* it and its derivation path, a redeem script by what it is made of, a    *)
(* signature by the key that made it.                                      *)
(***************************************************************************)
EXTENDS Integers, Sequences, FiniteSets, SequencesExt

CONSTANTS
  Wallet,       \* the wallets
  Kind,         \* what each of them is; legacy: a mnemonic whose store is from
                \* before the Bitcoin key
  Cosigner,     \* the parties whose key is in publicKeyRing
  M,            \* signatures required
  RingPath,     \* derivationStrategy of the ring: "44" or "45"
  Single,       \* the wallets with singleAddress
  U32,          \* the number of values of uint32_t
  MaxPushes,    \* bound: how often Init has pushed the signers
  MaxCreated,   \* bound: transactions created
  MaxTxs,       \* bound: copies of transactions in circulation
  MaxInputs     \* bound: addresses a transaction spends from

ASSUME WalletAssumption ==
  /\ Kind \in [Wallet -> {"standard", "mnemonic", "legacy", "xprv", "readonly"}]
  /\ \A w \in Wallet : Kind[w] \in {"mnemonic", "legacy", "xprv"} => w \in Cosigner
  /\ \A w \in Wallet : Kind[w] = "readonly" => w \notin Cosigner
  /\ Single \subseteq Wallet
ASSUME NumberAssumption ==
  M \in Nat \ {0} /\ U32 \in Nat \ {0} /\ MaxPushes \in Nat \ {0} /\ MaxCreated \in Nat /\ MaxTxs \in Nat
  /\ MaxInputs \in Nat
ASSUME RingAssumption == RingPath \in {"44", "45"} /\ IsFiniteSet(Cosigner) /\ M <= Cardinality(Cosigner)

Chain == {"external", "internal"}
MultiSign(w) == Kind[w] # "standard"

(***************************************************************************)
(* Keys and redeem scripts.                                                *)
(***************************************************************************)
Path == {"44", "45", "owner"}
PubKey == [who : Wallet \cup Cosigner, path : Path, chain : Chain, index : 0..U32]
Key(w, path, chain, i) == [who |-> w, path |-> path, chain |-> chain, index |-> i]
OwnerKey(w) == Key(w, "owner", "external", 0)

\* keys: the public keys in the script; copies: how often each of them is in it.
Code == [type : {"standard", "multi", "did"}, m : Nat, keys : SUBSET PubKey, copies : Nat]
StandardCode(k) == [type |-> "standard", m |-> 1, keys |-> {k}, copies |-> 1]
MultiCode(chain, i, n) ==
  [type |-> "multi", m |-> M, keys |-> {Key(w, RingPath, chain, i) : w \in Cosigner}, copies |-> n]

\* The same script gives different addresses under different prefixes.
Prefix == {"standard", "deposit", "id", "multi"}
Address == [prefix : Prefix, code : Code]
Addr(prefix, code) == [prefix |-> prefix, code |-> code]
CRDepositCode(w) == StandardCode(Key(w, "44", "external", 0))
-----------------------------------------------------------------------------
VARIABLES
  cache,      \* _chainAddressCached of every wallet: the scripts of its addresses
  pushes,     \* how often the cosigners are in its _allMultiSigners
  bitcoinKey, \* the multi-sign wallets whose store has xPubKeyBitcoin
  txs,        \* the transactions in circulation: script -> the keys that signed
  ret         \* the last call and what it returned

vars == <<cache, pushes, bitcoinKey, txs, ret>>

NoCache == [c \in Chain |-> <<>>]
\* tx: the transaction handed out; asked, codes: what was asked of the
\* addresses and the scripts of those handed out.
NoTx == [c \in {} |-> <<>>]
Nothing == [index |-> 0, count |-> 0, internal |-> FALSE]
Ret(op, w, st) == [op |-> op, w |-> w, st |-> st, tx |-> NoTx, asked |-> Nothing, codes |-> <<>>]
Asked(index, count, internal) == [index |-> index, count |-> count, internal |-> internal]

\* The script of the i-th address, derived now.
CodeAt(w, chain, i) ==
  IF MultiSign(w) THEN MultiCode(chain, i, pushes[w]) ELSE StandardCode(Key(w, "44", chain, i))

\* The cache once the addresses below n are derived.
Derived(w, chain, n) ==
  LET have == cache[w][chain] IN
  have \o [i \in 1..(IF n > Len(have) THEN n - Len(have) ELSE 0) |-> CodeAt(w, chain, Len(have) + i - 1)]

Derive(w, chain, n) == cache' = [cache EXCEPT ![w] = [@ EXCEPT ![chain] = Derived(w, chain, n)]]

Init ==
  /\ cache = [w \in Wallet |-> NoCache]
  /\ pushes = [w \in Wallet |-> 1]
  /\ bitcoinKey = {w \in Wallet : Kind[w] = "mnemonic"}
  /\ txs = {}
  /\ ret = Ret("none", "none", "ok")
-----------------------------------------------------------------------------
Throw(op, w) == ret' = Ret(op, w, "throw") /\ UNCHANGED <<cache, pushes, bitcoinKey, txs>>

(***************************************************************************)
(* Addresses.                                                              *)
(***************************************************************************)
\* SubAccount::GetAddresses.  index + count is computed modulo 2^32, the range
\* that is copied out is not: it may reach past the end of the cache.
GetRange(w, index, count, internal, op, asked) ==
  LET i == IF w \in Single THEN 0 ELSE index
      n == IF w \in Single THEN 1 ELSE count
      chain == IF internal /\ w \notin Single THEN "internal" ELSE "external"
  IN /\ Derive(w, chain, (i + n) % U32)
     /\ ret' = [Ret(op, w, IF i + n <= Len(cache'[w][chain]) THEN "ok" ELSE "undefined")
                EXCEPT !.asked = asked,
                       !.codes = SubSeq(cache'[w][chain], i + 1, Min({i + n, Len(cache'[w][chain])}))]
     /\ UNCHANGED <<pushes, bitcoinKey, txs>>

\* Mutant: the sum is not checked.
UncheckedGetAddresses(w, index, count, internal) ==
  GetRange(w, index, count, internal, "addresses", Asked(index, count, internal))

\* ElastosBaseSubWallet::GetAddresses refuses a sum that wraps, and a count of 0.
GetAddresses(w, index, count, internal) ==
  IF (index + count) % U32 <= index THEN Throw("addresses", w)
  ELSE GetRange(w, index, count, internal, "addresses", Asked(index, count, internal))

\* IDChainSubWallet::GetCID and GetDID do not check, Wallet::GetCID passes false
\* for internal, and a multi-sign wallet has none.
GetCID(w, index, count, internal) ==
  IF MultiSign(w) THEN ret' = Ret("cid", w, "ok") /\ UNCHANGED <<cache, pushes, bitcoinKey, txs>>
  ELSE GetRange(w, index, count, FALSE, "cid", Asked(index, count, internal))

Cached(w) == ToSet(cache[w]["external"]) \cup ToSet(cache[w]["internal"])

DIDCode(code) == [code EXCEPT !.type = "did"]

\* GetCode: the special addresses of a standard wallet, then the cache.
Known(w) ==
  IF MultiSign(w) THEN {Addr("multi", c) : c \in Cached(w)}
  ELSE {Addr("deposit", StandardCode(OwnerKey(w))), Addr("standard", StandardCode(OwnerKey(w))),
        Addr("deposit", CRDepositCode(w))}
       \cup {Addr(p, c) : p \in {"standard", "id"}, c \in Cached(w)}
       \cup {Addr("id", DIDCode(c)) : c \in Cached(w)}
-----------------------------------------------------------------------------
(***************************************************************************)
(* Transactions: Wallet::CreateTransaction.  The inputs come from the      *)
(* caller; one program is added per distinct script.                       *)
(***************************************************************************)
NewTx(S) == [c \in {a.code : a \in S} |-> <<>>]

\* An address without a script is refused, and so are inputs that do not pay for
\* the outputs and the fee.  The change goes to the first input, or to the first
\* address, which is derived for it.
CreateTransaction(w, S, change) ==
  \/ Throw("create", w)
  \/ /\ S \subseteq Known(w)
     /\ S = {} => change = "none"
     /\ IF change = "address" THEN Derive(w, "external", 1) ELSE UNCHANGED cache
     /\ txs' = txs \cup {NewTx(S)}
     /\ Cardinality(txs') <= MaxTxs /\ Cardinality({DOMAIN tx : tx \in txs'}) <= MaxCreated
     /\ ret' = [Ret("create", w, "ok") EXCEPT !.tx = NewTx(S)]
     /\ UNCHANGED <<pushes, bitcoinKey>>

\* Program::VerifySignature counts signatures, each by some key of the script.
VerifySignature(code, sigs) ==
  /\ \A i \in DOMAIN sigs : sigs[i] \in code.keys
  /\ code.type = "multi" => Len(sigs) >= code.m
  /\ code.type = "standard" => Len(sigs) = Cardinality(code.keys)

IsSigned(tx) == DOMAIN tx # {} /\ \A c \in DOMAIN tx : VerifySignature(c, tx[c])

\* FindPrivateKey: the owner's key, then every key at a cached index; the keys
\* below 45' for multi-sign scripts only.
Held(w, type) ==
  {OwnerKey(w) : x \in {1} \ (IF MultiSign(w) THEN {1} ELSE {})}
  \cup {Key(w, path, chain, i) :
          path \in {"44"} \cup (IF type = "multi" THEN {"45"} ELSE {}),
          chain \in Chain, i \in 0..(U32 - 1)}
Reached(w, k) == k.path = "owner" \/ k.index < Len(cache[w][k.chain])
\* Mutant: the loop over the indices ends before index 0.
FindSkipsFirst(w, code) ==
  {k \in Held(w, code.type) \cap code.keys : Reached(w, k) /\ (k.path = "owner" \/ k.index > 0)}

FindPrivateKey(w, code) == {k \in Held(w, code.type) \cap code.keys : Reached(w, k)}

\* What SignTransaction refuses in one program.
Refused(w, tx, c) ==
  \/ c.type \notin {"multi", "standard"}
  \/ FindPrivateKey(w, c) = {}
  \/ \E i \in DOMAIN tx[c] : tx[c][i] \in FindPrivateKey(w, c)

SignedBy(w, tx) == [c \in DOMAIN tx |-> Append(tx[c], CHOOSE k \in FindPrivateKey(w, c) : TRUE)]

\* Mutant: every cosigner's account pushes the signers again.
AllPushAgain(w, n) ==
  pushes' = [pushes EXCEPT ![w] = IF MultiSign(w) THEN @ + n ELSE @] /\ UNCHANGED bitcoinKey

\* RootKey, called for every program, has an account without the Bitcoin key
\* regenerate its keys and run Init again.  The first time a legacy account gets
\* the key, and keeps it; an xprv account, which has no seed, never does.  Init
\* pushes no signers for a standard wallet.
RootKeys(w, n) ==
  LET lacks == MultiSign(w) /\ w \notin bitcoinKey
      again == IF Kind[w] = "legacy" /\ n > 0 THEN 1 ELSE n
  IN  /\ pushes' = [pushes EXCEPT ![w] = IF lacks THEN @ + again ELSE @]
      /\ bitcoinKey' = IF Kind[w] = "legacy" /\ n > 0 THEN bitcoinKey \cup {w} ELSE bitcoinKey

\* Mutant: the signatures that are there are not compared with the own key.
SignsTwice(w, tx) ==
  /\ tx \in txs /\ Kind[w] # "readonly" /\ ~IsSigned(tx)
  /\ \A c \in DOMAIN tx : c.type \in {"multi", "standard"} /\ FindPrivateKey(w, c) # {}
  /\ txs' = txs \cup {SignedBy(w, tx)}
  /\ Cardinality(txs') <= MaxTxs
  /\ ret' = [Ret("sign", w, "ok") EXCEPT !.tx = SignedBy(w, tx)]
  /\ UNCHANGED <<cache, pushes, bitcoinKey>>

\* Mutant: the programs the wallet has no key for are skipped.
SkipsForeignPrograms(w, tx) ==
  LET mine == {c \in DOMAIN tx : ~Refused(w, tx, c)}
      signed == [c \in DOMAIN tx |-> IF c \in mine THEN SignedBy(w, tx)[c] ELSE tx[c]]
  IN /\ tx \in txs /\ Kind[w] # "readonly" /\ ~IsSigned(tx)
     /\ mine # {}
     /\ txs' = txs \cup {signed}
     /\ Cardinality(txs') <= MaxTxs
     /\ ret' = [Ret("sign", w, "ok") EXCEPT !.tx = signed]
     /\ UNCHANGED <<cache, pushes, bitcoinKey>>

\* SignTransaction works on the decoded copy of a transaction in circulation
\* and hands out the signed copy; an exception (a watch-only wallet, a signed or
\* empty transaction, a wrong password) hands out nothing.
SignTransaction(w, tx) ==
  /\ tx \in txs
  /\ \/ Throw("sign", w)
     \/ /\ Kind[w] # "readonly" /\ ~IsSigned(tx)
        /\ \E c \in DOMAIN tx : Refused(w, tx, c)
        /\ \E n \in 0..Cardinality(DOMAIN tx) : RootKeys(w, n)
        /\ pushes'[w] <= MaxPushes
        /\ ret' = Ret("sign", w, "throw")
        /\ UNCHANGED <<cache, txs>>
     \/ /\ Kind[w] # "readonly" /\ ~IsSigned(tx) /\ DOMAIN tx # {}
        /\ \A c \in DOMAIN tx : ~Refused(w, tx, c)
        /\ RootKeys(w, Cardinality(DOMAIN tx))
        /\ pushes'[w] <= MaxPushes
        /\ txs' = txs \cup {SignedBy(w, tx)}
        /\ Cardinality(txs') <= MaxTxs
        /\ ret' = [Ret("sign", w, "ok") EXCEPT !.tx = SignedBy(w, tx)]
        /\ UNCHANGED cache

\* Mutant: Init is not run for the account that is loaded.
RestartWithoutInit(w) ==
  /\ cache' = [cache EXCEPT ![w] = NoCache]
  /\ pushes' = [pushes EXCEPT ![w] = 0]
  /\ ret' = Ret("none", w, "ok")
  /\ UNCHANGED <<bitcoinKey, txs>>

\* The wallet's process ends and starts again.
Restart(w) ==
  /\ cache' = [cache EXCEPT ![w] = NoCache]
  /\ pushes' = [pushes EXCEPT ![w] = 1]
  /\ ret' = Ret("none", w, "ok")
  /\ UNCHANGED <<bitcoinKey, txs>>

\* The inputs a caller passes: outputs paid to addresses of any of the wallets.
Input == UNION {Known(w) : w \in Wallet}

Next ==
  \E w \in Wallet :
    \/ \E index, count \in 0..(U32 - 1), internal \in BOOLEAN :
         GetAddresses(w, index, count, internal) \/ GetCID(w, index, count, internal)
    \/ \E n \in 0..MaxInputs : \E s \in [1..n -> Input], change \in {"none", "first", "address"} :
         CreateTransaction(w, ToSet(s), change)
    \/ \E tx \in txs : SignTransaction(w, tx)
    \/ Restart(w)

Spec == Init /\ [][Next]_vars
-----------------------------------------------------------------------------
(***************************************************************************)
(* Properties.                                                             *)
(***************************************************************************)
TypeOK ==
  /\ cache \in [Wallet -> [Chain -> Seq(Code)]]
  /\ pushes \in [Wallet -> 1..MaxPushes] /\ bitcoinKey \subseteq Wallet
  /\ \A tx \in txs : DOMAIN tx \subseteq Code /\ \A c \in DOMAIN tx : tx[c] \in Seq(PubKey)

\* A transaction that counts as signed carries the signatures of M different
\* cosigners on every multi-sign input: VerifySignature only counts signatures,
\* so SignTransaction must never let one key sign twice.
QuorumBehindSigned ==
  \A tx \in txs : IsSigned(tx) =>
    \A c \in DOMAIN tx : c.type = "multi" => Cardinality(ToSet(tx[c])) >= c.m

\* All inputs of a transaction carry the same number of signatures, and never
\* more than needed: a cosigner signs all programs of a copy or none.
InLockstep ==
  \A tx \in txs : \A c, d \in DOMAIN tx : Len(tx[c]) = Len(tx[d]) /\ Len(tx[c]) <= c.m

\* Two multi-sign wallets give the same address for the same index.
AddressesAgree ==
  \A v, w \in Wallet : MultiSign(v) /\ MultiSign(w) =>
    \A c \in Chain : \A i \in DOMAIN cache[v][c] \cap DOMAIN cache[w][c] : cache[v][c][i] = cache[w][c][i]

\* The scripts of count addresses from index on, on one chain.
AreRange(codes, index, count, internal) ==
  /\ Len(codes) = count
  /\ \A i \in DOMAIN codes : \A k \in codes[i].keys :
       k.index = index + i - 1 /\ (k.chain = "internal" <=> internal)

\* What GetAddresses hands out are the addresses that were asked for, whatever
\* the cache held before, and of a wallet with a single address always that one:
\* the iterators it copies between never leave the cache.
AddressesAsked ==
  ret.op = "addresses" /\ ret.st # "throw" =>
    /\ ret.st = "ok"
    /\ IF ret.w \in Single THEN AreRange(ret.codes, 0, 1, FALSE)
       ELSE AreRange(ret.codes, ret.asked.index, ret.asked.count, ret.asked.internal)

\* A wallet finds the private keys of what it creates: for every script that
\* GetCode found in the cache, or that is the owner's, FindPrivateKey finds a key.
CachedIsSignable ==
  ret.op = "create" /\ ret.st = "ok" /\ Kind[ret.w] # "readonly" =>
    \A c \in DOMAIN ret.tx : c \in Cached(ret.w) \cup {StandardCode(OwnerKey(ret.w))} =>
       FindPrivateKey(ret.w, c) # {}

(***************************************************************************)
(* What the interface headers say and the code does not do.                *)
(***************************************************************************)
\* IMainchainSubWallet.h: every Create*Transaction returns "The transaction in
\* JSON format to be signed and published."
CreatedIsSignable ==
  ret.op = "create" /\ ret.st = "ok" /\ Kind[ret.w] # "readonly" =>
    \A c \in DOMAIN ret.tx : FindPrivateKey(ret.w, c) # {}
=============================================================================
