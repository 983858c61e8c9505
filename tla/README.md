# Elastos.ELA.SPV.Cpp in TLA+

This directory models the wallet SDK under `src/SDK`: TLA+ modules translated
from the source, TLC configurations that check them on small instances, and
proofs that TLAPS checks for every value of the constants. Line numbers refer
to `src/` at the modelled commit; `PROJECT.json` maps every definition to the
lines it stands for.

## 1. The system

The SDK is a library. A host application (a mobile wallet) calls it from any
thread; the SDK has no threads, timers or network of its own: the host fetches
the UTXOs and publishes what the SDK has signed. Hence the three things that
are hard here are *sequences of calls* (with passwords, imports, restarts and
crashes between them), *copies of one transaction or one signed document in
the hands of several parties*, and *the host's threads inside one manager*.

| Component | State | Operations | What makes it correct |
|---|---|---|---|
| `MasterWalletManager` | `_masterWalletMap`: ID to wallet object or `nullptr` (known, not loaded); one mutex | create (6 variants), import (3), get, list, destroy | map and directories agree; a refused create leaves nothing; nothing but `DestroyWallet` removes a store; calls are atomic for other threads |
| `MasterWallet` | `_createdWallets`, the account | `CreateSubWallet`, `DestroyWallet`, `InitSubWallets`, exports, password calls | the coin list, the sub wallets and the keys agree, so the next process rebuilds the same wallet |
| `Account` | public keys, `_allMultiSigners`, `_localstore` | `RootKey`, `RegenerateKey`, `ChangePassword`, `ResetPassword`, `Verify*`, `ExportKeystore`, import | one password opens every secret and only it; an exception changes nothing; the signing key is never lost |
| `LocalStore` | the fields of `LocalStore.json`, the coin list | `Load`, `Save`, `ChangePasswd` | a file is complete or recognised as not |
| `SubAccount` | address caches, external and internal | `GetAddresses`, `GetCID`, `GetCode`, `FindPrivateKey`, `SignTransaction` | cosigners derive the same addresses; what is created can be signed; a key signs once |
| `Address`, `Program`, `Transaction` | redeem scripts, signatures | `VerifySignature`, `IsSigned`, `AddUniqueProgram`, codec | a transaction that counts as signed has its quorum |
| `Wallet`, `ElastosBaseSubWallet` | one mutex | `CreateTransaction`, `SignTransaction`, JSON codec | amounts balance; the codec round-trips |
| `MainchainSubWallet`, payloads | none | votes, deposits, CR council, proposals, staking: a digest per party, then a transaction | each digest covers what its party must agree to |
| `IDChainSubWallet`, `SidechainSubWallet` | none | DID documents, withdrawals | as above |
| `BTCSubWallet` | address cache | addresses, create, sign | inputs = outputs + change + fee, no dust |
| `EthSidechainSubWallet`, `Ethereum/` | wrapper around the vendored Ethereum core | transfers | pass-through |
| `Database/` | an SQLite connection, one mutex | `DoTransaction`, `Puts`, `Gets` | no operation of the SDK reaches it |
| `KeyStore`, wallet JSON | none | export, import | an import restores what the export carried |

How they interact: the manager owns the master wallets and gives each a copy
of the configuration; a master wallet owns its `Account` and the sub wallets;
the account owns the `LocalStore`, and everything durable goes through
`LocalStore::Save`. A sub wallet owns a `Wallet`, which owns a `SubAccount`
that asks the account for keys. Transactions leave the SDK as base64 JSON
(`EncodeTx`) and come back through `DecodeTx`, possibly into another wallet.
There are no callbacks.

The hazards this code is exposed to are listed, each at its line, in
`PROJECT.json`.

## 2. Modules

### MasterWalletManager
`masterWalletMap` is `_masterWalletMap` with the objects it points to; an entry
is `absent`, `null` (found by `LoadMasterWalletID`, not loaded) or `loaded`.
`disk` is the store file of each ID: `none`, `ok`, or `torn` (a crash inside
`Save`, which truncates first). One action stands for one call: every manager
call but one runs under the manager's lock. The account is reduced to which
keys it has, because `Equal` (used by `checkRedundant`) and the sub wallet
factory depend on nothing else: `Regenerated`, `FromKeystore` and the six
constructors say which of them each kind of account has. `ret` is what the
last call returned, so that properties can speak of refused calls. A parameter
check that throws is the disjunct `Throw`, possible for every call and
changing nothing.

### Account
One wallet's secrets. An encrypted field is the password that opens it;
`AES::EncryptCCM` of nothing is the empty field, which every password opens.
`store` is `_localstore`, `disk` the file, `pw` the password a call set last
with success. `RegenerateKey` is split into its three parts (`SeedStep`,
`RootStep`, `KeyStep`) because it can throw after the first has changed memory;
`ChangePasswd` keeps the order of the fields for the same reason. Initial
states are the stores of every constructor and of two earlier versions
(`LocalStore::FromJson`). `ImportKeystore` re-creates the wallet from the last
export.

### SubAccount
Several wallets around one multi-sign ring. A public key is its holder and its
path, a redeem script its type, threshold and key set, a signature the key that
made it. `cache` is `_chainAddressCached`, `pushes` how often `Account::Init`
has filled `_allMultiSigners` (a second time makes other scripts), `bitcoinKey`
the wallets that have their Bitcoin key: `RootKey` runs `Init` again as long as
there is none, once for an old store without it (kind `legacy`, which the
regeneration completes) and every time for an account made from an extended
private key. `txs` are the
copies of transactions in circulation: a call takes a decoded copy and hands
out another one, the old one stays. Unsigned 32-bit sums are taken modulo
`U32`. `Restart` empties a wallet's cache.

### ManagerThreads and WalletRegistry
The host's threads inside the manager, one action per step between which
another thread can act: lock, search, construct and save, `checkRedundant`,
remove or insert; remove the store, erase. `Unlocked` is the set of threads
that create with a single private key, the one call that takes no lock.
`WalletRegistry` is what the manager promises: each call has its whole effect
at one moment. `ManagerThreads!Linearizable` is the refinement: the abstract
registry is the map without object identity, and a call takes effect in the
step that returns from it.

### Layout, Payloads, CRCProposal, PayloadClasses, PayloadForms
What transactions are made of. `Layout` has the calls of `ByteStream`: a
`Serialize` or `Deserialize` function is a sequence of calls, each a kind and a
member, and bytes are symbolic: the sequence of kinds and values. `Payloads`
has an operator per class, with its seven functions for a version: bytes
written and read, keys of `ToJson` and `FromJson`, members that `operator=`
copies and `Equal` compares, bytes that `EstimateSize` counts. Where the source
makes the functions of a class agree they are given once (`Uniform`), where it
does not the class says so. `Comparable` is false where `Equal` answers no
whatever it is given, or does not exist. `CRCProposal` does the same for the one class that
is twelve payloads in one. `PayloadClasses` is the dispatch of the virtual
functions, `PayloadForms` runs the conversions of an object in any order, as
`DecodeTx`, `EncodeTx`, the Create functions and the host do.

### Proposals
The documents that several parties sign: proposals of eight kinds, their
tracking, reviews and withdrawals, the claim of a node, candidates and
producers, rewards and unstaking. `doc` is the JSON document that the host
carries around. A *stage* is a digest function with the member its signature
goes to, the key it is verified with, the bytes it covers in each version, and
the earlier signatures that it verifies first. A *creation* is a Create
function with the signatures that it verifies and those that it only wants to
be there. The wallet keeps nothing between the calls, so the host may change
any member (`EditMember`), put in a signature that was made for another state
of the document (`EditSignature`), and call in any order. `Version` is how each
function derives the payload version from the keys that are there. `signed` is
a ghost: who signed what. Signatures cannot be made up.

### Transactions
A transaction from the Create call to the raw bytes, on the main and the ID
chain. Every Create function is a *plan*: type, payload class and version,
outputs, whether the change goes back to the first input.
`Wallet::CreateTransaction` makes the object (`UTXOFromJson`, `UniquePrograms`,
`Change`, `Result` are its parts), and every later call decodes, works and
encodes. Amounts are integers of any sign in the program and words modulo
`Word` in the bytes (`GetUint64` takes the absolute value). `Deserialize` has
the two readings of the first byte, the dispatch `InitPayload` with no entry
for the staking types, and the null pointer of an output type without payload.

`Sums` has the two helpers it shares with `BTCSubWallet`: the sum of a sequence,
and the elements of a set in order (a `UTXOSet` is kept in order by
`UTXOCompare`).

### BTCSubWallet
The Bitcoin sub wallet: address caches by chain, `CreateTransaction` with
amounts that saturate when parsed and wrap when added, the fee with its two
minima and its rounding, change and dust, `SignTransaction` with the lookup of
keys in the cache, and `Reopen`, which empties it while the host keeps the
transaction. A multi-sign wallet hands out no addresses (`GetAddressInternal`).
Its transactions could not be signed either, so the run is that of a wallet
with one key, and the theorems are of both. Sizes are those of pay-to-public-key-hash inputs and outputs,
which is what the wallet's own addresses are.

### MC modules
`MCMasterWalletManager`, `MCSubAccount` and `MCTransactions` define the
structured constants of the configurations: legacy stores, keystores, kinds of
wallets, symmetry, coins. `MCTransactions` and `MCPayloads` each put two modules
that share no state side by side; in a behaviour one of them moves.
`Account` and `ManagerThreads` need none and are run as they are.

## 3. Runs

| Run | Configuration | Checks |
|---|---|---|
| `manager` | 2 IDs, 2 keys, up to 2 cosigners, an old store, two keystores | `TypeOK`, `KnownIffStored`, `MemoryIsSaved`, `RefusedCreateLeavesNoTrace`, `OnlyDestroyForgets` |
| `subwallets` | 1 ID, 5 chains of all kinds, one of them not configured | `SubWalletsListed`, `Reloadable`, `DestroyedSubWalletStaysAway` |
| `account` | 2 legal passwords, 1 refused, every kind of store | `TypeOK`, `OnePassword`, `StoreSaved`, `SecretsNeedPassword`, `ThrowChangesNothing`, `SigningKeySurvives` |
| `cosigners` | 3 cosigners, 2 signatures, up to 2 inputs, 4 copies | `QuorumBehindSigned`, `InLockstep`, `AddressesAgree` |
| `mixed_wallets` | a standard wallet in the ring, a cosigner with an old store and a single address, a watch-only one | `TypeOK`, `CachedIsSignable`, `AddressesAsked` |
| `threads` | 2 threads, 2 IDs, 2 keys, 2 calls each, all locked | `HeldIsRegistered`, `RegisteredIsStored`, `OneWalletPerKey`, `EveryCallReturns`, `Linearizable` |
| `transactions` | all Create functions, up to 2 of 5 inputs, 2 cosigners, 3-bit words; up to 3 Bitcoin inputs and 2 payments, 7-bit words | `TypeOK`, `SignedBytesAgree`, `DecodableUnlessStaking`, `DecodingNeverCrashes`, `WireBalanced`, `BTCFeeFits`, `BTCHandedOutIsSignable` |
| `payloads` | 62 classes in versions 0 to 2; 19 kinds of documents, 2 keys, 2 contents, 2 edits, 4 moves | `TypeOK`, `CreatedWasAgreed`, `SignedInOrder`, `AgreedContent`, `Completable`, `BytesKept`, `EqualSeesBytes`, `EstimateCountsBytes` |
| `destroy_unloaded` | 1 ID | violates `DestroyDestroys` |
| `xprv_addresses` | 2 cosigners, one from an extended private key | violates `AddressesAgree` |
| `cr_deposit` | a standard wallet | violates `CreatedIsSignable` |
| `unlocked_create` | as `threads`, nobody locks to create | violates `HeldIsRegistered` |

`transactions` shows that whatever the SDK creates keeps its bytes while the
cosigners pass it on, that it can be decoded unless it is a staking
transaction, and that amounts balance on the wire; the conditions under which
they do (no negative fee or output, inputs below the word) are part of
`WireBalanced` because the code checks none of them everywhere. `payloads`
shows the same for the payloads alone, and that a document which is edited,
re-signed or re-ordered between its parties gets into a transaction only as
they signed it. Where a class or a flow differs from the others, the property
names it and says exactly when it does, so that a change in either direction
is noticed.

The last four are disagreements between the code and its documentation, quoted
in the findings of `PROJECT.json`.

**Bounds.** Two IDs and two keys are enough for a redundant create, a create
over a taken ID and a bystander wallet. Two cosigners besides the own key give
rings with and without duplicates and thresholds above the ring. Three
passwords separate right, wrong and refused. Three cosigners with a threshold
of two give a third who must not be needed, four copies let two of them sign
the same copy independently. Unsigned integers have two or three values: every
boundary of `index + count` is hit, and larger moduli add only distance. Two
calls per thread let one thread create and the other destroy and create again
in between. Counters that grow without bound in the code are capped by
`MaxSigners`, `MaxInits`, `MaxPushes`, `MaxCreated`, `MaxTxs` and `MaxCalls`,
each in the guard of the action that grows it.
In `transactions`, one output is named with two amounts, one of them beyond the
word, one input is a deposit, one belongs to somebody else and one is negative;
amounts and fees below zero are passed; two inputs are enough for a duplicate,
for two programs and for an order other than the host's. `MaxSize` lets two
Bitcoin inputs in and keeps the third out, and the sums of amounts and of
payments can both wrap. In `payloads`, every member starts with a value of its
own, so that one state per class shows any exchange; a document has at most
three signatures, so four moves (`MaxMoves`) let it be completed and one step
be undone by an edit, or two edits (`MaxEdits`) meet two signatures.

**Deadlock** is checked except in `account` (a torn store without a backup
leaves nothing to call), in the two thread runs (the threads have made their
calls), in `transactions` (a transaction that is published is done with) and in
`payloads` (a document may never be completed).

**Fairness.** Only `ManagerThreads` assumes any: a thread inside a call is
scheduled again (weak fairness of its steps). The operating system gives that.
The mutex need not be fair, because the number of calls is bounded: a thread
cannot be passed over for ever. Nothing makes a thread start a call.

## 4. Proofs

All theorems hold for every value of the constants that satisfies the named
assumptions of the modules (natural numbers for the bounds, `NoKey` not a key,
and the like; TLC evaluates them in every run) and, where one is named below, a
hypothesis of the theorem. The bounds of the runs are constants too: the proofs
do not depend on them.

**`MasterWalletManagerProofs`.** Any IDs, keys, cosigners, chains, stores found
at the start and keystores.

* `TypeCorrect`, `StoreConsistent` (`[]KnownIffStored`), `ObjectsAreSaved`
  (`[]MemoryIsSaved`). The last two are inductive together with `TypeOK`
  (`StoreInv`): `MemoryIsSaved` is needed for a load not to invent an object,
  `KnownIffStored` for the refused create, whose `RemoveLocalStore` must find
  the ID unused.
* `RefusalIsClean` (`RefusedCreateLeavesNoTrace`) and `OnlyDestroyRemoves`
  (`OnlyDestroyForgets`), the action properties, from `StoreInv`. The first also
  needs `NothingLeft`: an ID without a store file has nothing else on the disk,
  so that removing what the refused create wrote restores it exactly.
* `SubWalletsAreListed` (`[]SubWalletsListed`).
* `LoadedIsReloadable` (`[]Reloadable`) and `DestroyIsDurable`
  (`DestroyedSubWalletStaysAway`), under `ListsAsWritten`: the coin list of a
  store or keystore found at the start names no chain twice, and the keystore's
  account can open the chains it lists. The files that the program writes
  satisfy it; a list from elsewhere need not, and `RemoveSubWalletInfo` erases
  one entry only. The invariant `CoinListInv` says that a loaded wallet holds
  every configured chain of its list, once. The constants of the `subwallets`
  run satisfy the hypothesis.

**`AccountProofs`.** Any passwords and any number of reads, changes, resets,
exports, imports, crashes and restarts.

* `AccountTypes`, `PasswordSafety` (`[]OnePassword`), `FileIsCurrent`
  (`[]StoreSaved`), from `AccountInv`: a call may throw half way through
  `RegenerateKey` or `ChangePasswd` only if two fields had different passwords,
  which the invariant excludes; a wrong password is noticed by the first
  decryption, before anything has changed.
* `ThrowIsAtomic` (`ThrowChangesNothing`), from `ThrowInv`, which adds that a
  multi-sign account that is not read-only holds its root key, in the store and
  in an export of it: otherwise `RegenerateKey` would decrypt nothing, and
  `Init` would push the cosigners again before the wrong password is noticed.
* `SigningKeyIsKept` (`SigningKeySurvives`), from `SignInv`: a store that is not
  read-only holds a secret from which the signing key can be derived, and a
  backup restores one.
* `SecretsAreGuarded` (`[]SecretsNeedPassword`): a secret, or the answer that a
  password is right, is returned for the current password only. It needs both
  invariants: an account with nothing encrypted would accept any password.

**`SubAccountProofs`.** Any wallets, ring, threshold, width of the integers and
number of copies.

* `NoKeySignsTwice` (`[]SignaturesDistinct`, inductive by itself:
  `SignTransaction` compares the key it found with every signature that is
  there) and `SignedByQuorum` (`[]QuorumBehindSigned`): `VerifySignature` only
  counts, and distinct signatures that are counted are distinct signers.
* `SubAccountTypes`, `ProgramsInLockstep` (`[]InLockstep`), `AskedIsHandedOut`
  (`[]AddressesAsked`) and `CreatedFromCacheIsSignable` (`[]CachedIsSignable`),
  from `SubAccountInv`: the cache of a chain holds the scripts of the indices
  from 0 on, in order, and the programs of a copy have the same threshold and
  the same number of signatures.
* `CosignersAgree` (`[]AddressesAgree`) where no wallet was made from an
  extended private key or has an old store, so that each has its Bitcoin key
  and `Init` runs once; `xprv_addresses` shows that a hypothesis is necessary.

**`ManagerThreadsProofs`.** Any threads, IDs, keys and number of calls, when
every call takes the lock (`Unlocked = {}`); `unlocked_create` shows that this
is necessary. `HandedOutIsRegistered`, `ConsistentUnderLock`, `KeysAreUnique`
are the invariants of the `threads` run, and `RegistryImplemented` is the
refinement, `Safety => Registry!Safety`. The invariant `ThreadsInv` says which
thread may be past the lock, that what it found in the map still holds, and that
the one store that differs from the map is the one it is at work on.

**`PayloadsProofs`.** The signed documents, for any keys, contents, edits and
signatures:

* `SpecCreatedWasAgreed` (`[]CreatedWasAgreed`). The invariant adds
  `SignaturesIssued`: a signature in the document was made by somebody for some
  state of it, which edits preserve because the host can only copy signatures. A
  Create function verifies, with the version it derived itself, every signature
  that comes with a key, so what it accepts was issued over these bytes.
* `SpecSignedInOrder` (`[]SignedInOrder`) and `SpecAgreedContent`
  (`[]AgreedContent`), from `AgreementInv`: equal bytes are equal members,
  because the layouts of a stage in two versions differ at a known place or in
  length. These are lemmas about the layouts of every kind of document.
* `SpecTypeOK` and `SpecCompletable` (`[]Completable`): a document whose
  signatures were all made over what it says is accepted by its Create function,
  except for the tracking whose parties derive different versions (section 5).

The conversions, for any versions of all 62 classes and any number of
conversions in any order: `SpecBytesKept` (`[]BytesKept`), `SpecEqualSeesBytes`
(`[]EqualSeesBytes`: an object is equal to the one it was made from just where
`Equal` finds anything equal, and `Equal` looks at what is written; the classes
where it does not are listed in section 5), `SpecEstimateCountsBytes`
(`[]EstimateCountsBytes`). For
every class and version it is shown on what its functions agree (`Sound`, from
`SoundClasses`): the same layout is written and read, the same keys are written
and read and none stands for two members, what is compared or written is copied,
and what is compared and not written is not in the JSON either. The invariant
`FormInv` then says that an object, and the object behind bytes or JSON, has the
original value in every member that is compared or written. It is this set of
members that makes it inductive: the DID of a `CRInfo` of version 0 is in the
JSON and lost in the bytes, and that is harmless only because it is neither
compared nor written.

**`TransactionsProofs`.** Any unspent outputs, amounts and fees of any sign,
cosigners, width of the words. `BytesAreKept` (`[]SignedBytesAgree`),
`CreatedIsDecodable` (`[]DecodableUnlessStaking`), `NoNullPayload`
(`[]DecodingNeverCrashes`), from `BytesInv`: what the host has is the unsigned
bytes of what was created followed by programs whose signatures are over those
bytes, and what was created has one of the combinations of type, payload and
outputs that the Create functions put together (`AllPlans`, plan by plan).
Reading is the inverse of writing part by part (`HeadRead`, `PayloadRead`,
`OutputRead`, `TailRead`), and the types without payload are refused
(`StakingIsRefused`).

`TransactionsTypeOK` (`[]TypeOK`) and `WireIsBalanced` (`[]WireBalanced`) add
`MadeInv`: what was created is what `CreateTransaction` makes of the inputs and
outputs that were asked for. `UTXOFromJson` puts every named output in the
transaction once and in order (`UtxosInOrder`, from `OrderedIs`), the change is
what is left (`ChangeBalances`), and amounts from 0 up to the word are their own
words, so that the sums of the words are those of the integers. The hypotheses
on the fee, the outputs and the inputs are those of the property: the code does
not check them.

**`BTCSubWalletProofs`.** `SpecHandedOutIsSignable` (`BTCSpec =>
[]BTCHandedOutIsSignable`) for any number of addresses, coins and payments. The
invariant says that each chain's cache is an initial segment of the derived
addresses and contains what was handed out; hence `FindKeys` derives the key of
the very address it was asked for. `SpecFeeFits` (`BTCSpec => []BTCFeeFits`), for
any amounts, rates, sizes and width of the words: while nothing wraps, the sum of
the words is the sum of the amounts, and the fee is taken apart for the two ways
in which `CreateTransaction` ends, with an output for the change or with what is
left of it, at most dust, in the fee.

**`DataProofs`** has the lemmas that the last three modules share. On layouts:
the parts of one, the bytes of one, and that reading with the layout of the
writer gives the members back. On sums and on sets in order (`Sums`): how a sum
grows with an element, that sums of naturals are naturals, and that a finite set
of integers can be put in order. These need induction, which the provers cannot
take from the library's schemas; they are proved by the least counterexample
(`WFMin` for the order of the naturals, `LeastOf`, `InductiveSet`), with the set
of counterexamples written out in each case.

**Only model-checked:** `EveryCallReturns` and the fairness part of
`Linearizable`, which are liveness. Every invariant and every action property of
the passing runs is also a theorem.

## 5. Other differences met while modelling

They are visible in the modules and have no run of their own.

* Create and import with the ID of a wallet that is stored and not loaded
  return `nullptr` (`MasterWalletManager.cpp:173`); the header promises the
  existing wallet (`IMasterWalletManager.h:57`).
* `ImportWalletWithKeystore` inserts the wallet before `InitSubWallets`; when
  that throws, the caller has an exception and the wallet is registered.
  It does not check the length of the pay password, which the header bounds.
* `ResetPassword` leaves the passphrase of an old store encrypted with the
  password that was reset.
* `Wallet::GetCID` passes `false` for `internal`; `GetCID` and `GetDID` lack
  the overflow check of `GetAddresses`.
* The staking transactions (stake, DPoS v2 vote, claim of a reward, cancelled
  votes, unstake) are created and can never be decoded again, hence neither
  signed nor converted: `Transaction.cpp:681` has no payload for their types.
  `CreateUnstakeTransaction` (`MainchainSubWallet.cpp:2162`) uses the type of
  cancelled votes.
* The owners of a tracking payload sign version 1 when there is a message; the
  secretary general's digest and the transaction want an opinion as well
  (`MainchainSubWallet.cpp:1096`), and refuse the owners' signatures.
* The signatures of the council member, of a producer, of an updated or retired CR
  candidate, of a review, of a claimed node, of a claimed reward and of an
  unstake are never verified; some must be there.
* `CRInfo::Equal` ignores the DID of a version 1 (`CRInfo.cpp:250`). `Equal`
  is false, of an object and itself, for a `RechargeToSideChain` or a
  `TransferCrossChainAsset` of a version above 1 (`RechargeToSideChain.cpp:138`,
  `TransferCrossChainAsset.cpp:231`) and for the three upgrade proposals;
  `UpgradeCodeInfo` has no equality.
* `EstimateSize` forgets parts of `CRCProposalRealWithdraw`, `DIDInfo`,
  `CandidateVotes`, transfer entries and four proposal types.
* The three upgrade proposal types can be deserialised and nothing else.
* Negative fees are accepted by all Create functions but the one of the ID
  chain; a vote and a CR deposit retrieval with no inputs read through the end
  of the set (`MainchainSubWallet.cpp:523`, `:772`).
* Bitcoin amounts below zero become large words, and sums wrap
  (`BTCSubWallet.cpp:165`).
* A program of a DID script passes `VerifySignature` without a signature.

## 6. What is left out, and the plan

Not modelled, and why:

* cryptography, Base58 and hashing (symbolic), logging, the word lists, the
  command line client;
* the vendored libraries: breadwallet-core (Bitcoin, Ethereum and Ripple in C)
  and the wrapper `Ethereum/` around it, which only forwards calls;
* `RippleSubWallet`, whose factory branch is disabled;
* `Database/`: it is constructed, and no operation of the SDK stores anything
  in it, so that there is no behaviour to model;
* the JSON of a DID document, which the SDK carries as a string, and the code
  for it that is disabled by `#if 0`;
* two threads on one sub wallet: the race on the address cache is undefined
  behaviour and no document allows it. Data races inside `std::map` of the
  manager are modelled as atomic accesses, their mildest outcome.

The word lists and the vendored C code are more than half of the lines under
`src/`; what the modules leave of the SDK itself is mostly accessors, JSON
helpers, cryptography and headers.

Next:

1. The older wallet JSON formats and the SJCL envelope, as further sources of
   `ImportKeystore`.
2. The race on `SubAccount`'s cache, should the SDK come to promise anything
   about threads on one sub wallet.
