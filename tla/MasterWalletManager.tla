------------------------- MODULE MasterWalletManager -------------------------
(***************************************************************************)
(* The wallet registry of the SDK: MasterWalletManager, the MasterWallet   *)
(* objects it hands out, and the LocalStore files they are kept in.        *)
(*                                                                         *)
(* Every manager operation here takes the manager's lock and is therefore  *)
(* one action; module ManagerThreads is about the one operation that does  *)
(* not take it.  A process may end at any moment (Stop, CrashInSave,       *)
(* CrashInCreate): memory is lost, the files stay.                         *)
(***************************************************************************)
EXTENDS Naturals, Sequences, FiniteSets, SequencesExt

CONSTANTS
  Id,          \* master wallet IDs (the directory names under the data path)
  Key,         \* root secrets; a key stands for every key derived from it
  NoKey,       \* an empty key field of the store
  Chain,       \* chain IDs a caller may name
  ElaChain,    \* the chains of MainchainSubWallet and IDChainSubWallet
  BtcChain,    \* the chain of BTCSubWallet
  EthChain,    \* the chain IDs that contain "ETH"
  Configured,  \* the chain IDs of the Config the manager was given
  SignCount,   \* values of m a caller passes to a multi-sign create
  MaxCosigners,\* bound: cosigners a caller passes to a multi-sign create
  MaxSigners,  \* bound: length of _allMultiSigners
  LegacyStore, \* stores an earlier version of the SDK may have left on the disk
  Keystore     \* keystore files a caller may import, of this or an earlier version

ASSUME KeyAssumption == NoKey \notin Key
ASSUME ChainAssumption ==
  /\ ElaChain \subseteq Chain /\ BtcChain \subseteq Chain /\ EthChain \subseteq Chain
  /\ ElaChain \cap BtcChain = {} /\ ElaChain \cap EthChain = {} /\ BtcChain \cap EthChain = {}
  /\ Configured \subseteq Chain
ASSUME BoundAssumption == SignCount \subseteq Nat /\ MaxCosigners \in Nat /\ MaxSigners \in Nat

(***************************************************************************)
(* What the store keeps of an Account.  seed: the key whose seed, or whose *)
(* mnemonic, is stored; eth, btc, owner: the public keys the sub wallets   *)
(* need are stored; ring: the cosigners' keys in the order of              *)
(* publicKeyRing.                                                          *)
(***************************************************************************)
Ring == Seq(Key)
Account == [readonly : BOOLEAN, xpub : Key \cup {NoKey}, eth : Key \cup {NoKey},
            btc : BOOLEAN, owner : BOOLEAN, seed : Key \cup {NoKey}, ring : Ring, m : Nat]

NoAccount == [readonly |-> TRUE, xpub |-> NoKey, eth |-> NoKey, btc |-> FALSE,
          owner |-> FALSE, seed |-> NoKey, ring |-> <<>>, m |-> 0]

N(a) == IF a.ring = <<>> THEN 1 ELSE Len(a.ring)
IsMultiSign(a) == N(a) > 1

ASSUME LegacyAssumption ==
  /\ LegacyStore \subseteq [acct : Account, coins : Seq(Chain)]
  /\ Keystore \subseteq [acct : Account, coins : Seq(Chain)]

\* A standard account from a mnemonic or a seed.
HDAccount(k) ==
  [readonly |-> FALSE, xpub |-> k, eth |-> k, btc |-> TRUE, owner |-> TRUE,
   seed |-> k, ring |-> <<>>, m |-> 1]

\* An account that holds one Ethereum private key and nothing else.
SingleKeyAccount(k) ==
  [readonly |-> FALSE, xpub |-> NoKey, eth |-> k, btc |-> FALSE, owner |-> FALSE,
   seed |-> NoKey, ring |-> <<>>, m |-> 1]

\* A multi-sign account that only watches its cosigners' addresses.
ReadonlyMultiSign(ring, m) ==
  [readonly |-> TRUE, xpub |-> NoKey, eth |-> NoKey, btc |-> FALSE, owner |-> FALSE,
   seed |-> NoKey, ring |-> ring, m |-> m]

\* A multi-sign account with its own extended private key: no seed, hence no
\* Bitcoin and Ethereum keys.
XprvMultiSign(k, ring, m) ==
  [readonly |-> FALSE, xpub |-> k, eth |-> NoKey, btc |-> FALSE, owner |-> FALSE,
   seed |-> NoKey, ring |-> Append(ring, k), m |-> m]

\* Mutant: the own key is pushed before it is derived.
MnemonicMultiSignPushesNoKey(k, ring, m) ==
  [readonly |-> FALSE, xpub |-> k, eth |-> k, btc |-> TRUE, owner |-> FALSE,
   seed |-> k, ring |-> Append(ring, NoKey), m |-> m]

\* A multi-sign account with its own mnemonic; no owner key is stored.
MnemonicMultiSign(k, ring, m) ==
  [readonly |-> FALSE, xpub |-> k, eth |-> k, btc |-> TRUE, owner |-> FALSE,
   seed |-> k, ring |-> Append(ring, k), m |-> m]

\* What Account::Init pushes onto _allMultiSigners.
InitSigners(a) == IF IsMultiSign(a) THEN a.ring ELSE <<>>

\* ElaNewWalletJson::FromJsonCommon regenerates what an old keystore lacks.
FromKeystore(a) ==
  [a EXCEPT !.xpub = IF @ = NoKey THEN a.seed ELSE @,
            !.owner = @ \/ a.seed # NoKey \/ (a.xpub # NoKey /\ ~a.readonly),
            !.eth = IF @ = NoKey THEN a.seed ELSE @,
            !.btc = @ \/ a.seed # NoKey]

\* Account::RegenerateKey derives the missing keys from the seed or the xprv,
\* and moves the own key of a multi-sign account to the end of the ring.
Regenerated(a) ==
  LET xpub == IF a.xpub = NoKey THEN a.seed ELSE a.xpub IN
  [a EXCEPT !.xpub = xpub,
            !.owner = @ \/ xpub # NoKey,
            !.eth = IF @ = NoKey THEN a.seed ELSE @,
            !.btc = @ \/ a.seed # NoKey,
            !.ring = IF IsMultiSign(a) /\ xpub # NoKey THEN Append(RemoveFirst(@, xpub), xpub) ELSE @]

\* Account::Equal compares the signers in memory of multi-sign accounts, and
\* the Ethereum keys of two accounts without xpub.
Equal(a, aSigners, b, bSigners) ==
  /\ IsMultiSign(a) = IsMultiSign(b)
  /\ (a.xpub = NoKey) = (b.xpub = NoKey)
  /\ \/ a.xpub = NoKey /\ a.eth = b.eth
     \/ a.xpub # NoKey /\ IsMultiSign(a) /\ aSigners = bSigners
     \/ a.xpub # NoKey /\ ~IsMultiSign(a) /\ a.xpub = b.xpub

(***************************************************************************)
(* Sub wallets: which of them the factory can construct for an account.    *)
(***************************************************************************)
SubAccountAllowed(a) == IsMultiSign(a) \/ a.owner
BTCSubWalletAllowed(a) == a.btc
EthSidechainSubWalletAllowed(a) == a.eth # NoKey

SubWalletFactoryMethod(a, c) ==
  \/ c \in ElaChain /\ SubAccountAllowed(a)
  \/ c \in BtcChain /\ BTCSubWalletAllowed(a)
  \/ c \in EthChain /\ EthSidechainSubWalletAllowed(a)

\* MasterWallet::InitSubWallets: it walks the list, skips what the config
\* lacks, and throws at the first chain the factory refuses.
RefusedAt(a, coins) ==
  {i \in DOMAIN coins : coins[i] \in Configured /\ ~SubWalletFactoryMethod(a, coins[i])}
InitSubWalletsOK(a, coins) == RefusedAt(a, coins) = {}
InitSubWallets(a, coins) ==
  {coins[i] : i \in {j \in DOMAIN coins :
                        coins[j] \in Configured /\ \A r \in RefusedAt(a, coins) : j < r}}
-----------------------------------------------------------------------------
VARIABLES
  running,          \* a MasterWalletManager exists in the process
  masterWalletMap,  \* _masterWalletMap and the objects it points to
  disk,             \* LocalStore.json of every wallet directory
  ret               \* the last call and what it returned to its caller

vars == <<running, masterWalletMap, disk, ret>>

\* A map entry: no entry, an entry with nullptr, or a MasterWallet object with
\* its account, the account's coin list, _createdWallets and _allMultiSigners.
Entry == [st : {"absent", "null", "loaded"}, acct : Account,
          coins : Seq(Chain), subs : SUBSET Chain, signers : Seq(Key)]
Absent == [st |-> "absent", acct |-> NoAccount, coins |-> <<>>, subs |-> {}, signers |-> <<>>]
Null == [Absent EXCEPT !.st = "null"]
Wallet(a, coins, subs) ==
  [st |-> "loaded", acct |-> a, coins |-> coins, subs |-> subs, signers |-> InitSigners(a)]

\* A store file: none, complete, or cut off by a crash while it was written.
File == [st : {"none", "ok", "torn"}, acct : Account, coins : Seq(Chain)]
NoFile == [st |-> "none", acct |-> NoAccount, coins |-> <<>>]
Torn == [NoFile EXCEPT !.st = "torn"]
Saved(a, coins) == [st |-> "ok", acct |-> a, coins |-> coins]

Op == {"none", "create", "import", "get", "destroy", "createSub", "destroySub", "other"}
Ret(op, id, val) == [op |-> op, id |-> id, val |-> val]
Silent == Ret("none", "none", "none")

TypeOK ==
  /\ running \in BOOLEAN
  /\ masterWalletMap \in [Id -> Entry]
  /\ disk \in [Id -> File]
  /\ ret \in [op : Op, id : Id \cup {"none"}, val : {"none", "wallet", "null", "throw", "done"}]

Init ==
  /\ running = FALSE
  /\ masterWalletMap = [id \in Id |-> Absent]
  /\ disk \in [Id -> {NoFile} \cup {Saved(s.acct, s.coins) : s \in LegacyStore}]
  /\ ret = Silent
-----------------------------------------------------------------------------
(***************************************************************************)
(* The life of the process.                                                *)
(***************************************************************************)
\* LoadMasterWalletID: every directory with a store file becomes a nullptr entry.
LoadMasterWalletID ==
  [id \in Id |-> IF disk[id].st = "none" THEN Absent ELSE Null]

Start ==
  /\ ~running
  /\ running' = TRUE
  /\ masterWalletMap' = LoadMasterWalletID
  /\ ret' = Silent
  /\ UNCHANGED disk

\* The destructor, or the end of the process between two calls: neither writes.
Stop ==
  /\ running
  /\ running' = FALSE
  /\ masterWalletMap' = [id \in Id |-> Absent]
  /\ ret' = Silent
  /\ UNCHANGED disk

Crash(id, file) ==
  /\ running
  /\ running' = FALSE
  /\ masterWalletMap' = [i \in Id |-> Absent]
  /\ disk' = [disk EXCEPT ![id] = file]
  /\ ret' = Silent

\* LocalStore::Save truncates the file before it writes it.
CrashInSave(id) == masterWalletMap[id].st = "loaded" /\ Crash(id, Torn)

\* A create saves the store in the constructor, before checkRedundant runs.
CrashInCreate(id, a) ==
  masterWalletMap[id].st = "absent" /\ \E file \in {Torn, Saved(a, <<>>)} : Crash(id, file)
-----------------------------------------------------------------------------
(***************************************************************************)
(* Creating and importing.  Every variant checks its parameters, returns   *)
(* the map's pointer when the ID is known, constructs and saves the        *)
(* wallet, and lets checkRedundant throw it away again.                    *)
(***************************************************************************)
Redundant(a) ==
  \E id \in Id : /\ masterWalletMap[id].st = "loaded"
                 /\ Equal(a, InitSigners(a), masterWalletMap[id].acct, masterWalletMap[id].signers)

Throw(op, id) == running /\ ret' = Ret(op, id, "throw") /\ UNCHANGED <<running, masterWalletMap, disk>>

AlreadyExist(op, id) ==
  /\ running
  /\ masterWalletMap[id].st # "absent"
  /\ ret' = Ret(op, id, IF masterWalletMap[id].st = "null" THEN "null" ELSE "wallet")
  /\ UNCHANGED <<running, masterWalletMap, disk>>

\* Mutant: the redundant wallet is deleted, its store stays.
RedundantStoreStays(op, id, a) ==
  /\ running
  /\ masterWalletMap[id].st = "absent"
  /\ Redundant(a)
  /\ disk' = [disk EXCEPT ![id] = Saved(a, <<>>)]
  /\ ret' = Ret(op, id, "throw")
  /\ UNCHANGED <<running, masterWalletMap>>

\* Mutant: the store of the wallet that was there first is removed too.
RedundantRemovesBoth(op, id, a) ==
  /\ running
  /\ masterWalletMap[id].st = "absent"
  /\ Redundant(a)
  /\ disk' = [i \in Id |-> IF i = id \/ masterWalletMap[i].acct = a THEN NoFile ELSE disk[i]]
  /\ ret' = Ret(op, id, "throw")
  /\ UNCHANGED <<running, masterWalletMap>>

\* checkRedundant: the redundant wallet's store is removed with it.
CheckRedundantThrows(op, id, a) ==
  /\ running
  /\ masterWalletMap[id].st = "absent"
  /\ Redundant(a)
  /\ disk' = [disk EXCEPT ![id] = NoFile]
  /\ ret' = Ret(op, id, "throw")
  /\ UNCHANGED <<running, masterWalletMap>>

Insert(id, a) ==
  /\ running
  /\ masterWalletMap[id].st = "absent"
  /\ ~Redundant(a)
  /\ masterWalletMap' = [masterWalletMap EXCEPT ![id] = Wallet(a, <<>>, {})]
  /\ disk' = [disk EXCEPT ![id] = Saved(a, <<>>)]
  /\ ret' = Ret("create", id, "wallet")
  /\ UNCHANGED running

AddNewWallet(id, a) == CheckRedundantThrows("create", id, a) \/ Insert(id, a)

\* The checks of the arguments (empty ID, short password, invalid mnemonic) throw
\* before anything is constructed.
AddWallet(id, a) == Throw("create", id) \/ AlreadyExist("create", id) \/ AddNewWallet(id, a)

CreateMasterWallet(id, k) == AddWallet(id, HDAccount(k))
CreateMasterWalletSingleKey(id, k) ==
  AddWallet(id, SingleKeyAccount(k))
ImportWalletWithMnemonic(id, k) == AddWallet(id, HDAccount(k))
\* The seed must be the one the mnemonic gives, when a mnemonic is passed too.
ImportWalletWithSeed(id, k, seedMatches) ==
  IF seedMatches THEN AddWallet(id, HDAccount(k))
                 ELSE Throw("create", id)

CosignerList == UNION {[1..n -> Key] : n \in 0..MaxCosigners}

CreateMultiSignReadonly(id, ring, m) ==
  IF Len(ring) < 2 \/ m < 1 \/ ~IsInjective(ring) THEN Throw("create", id)
  ELSE \/ AlreadyExist("create", id)
       \/ masterWalletMap[id].st = "absent" /\ Len(ring) < m /\ Throw("create", id)
       \/ Len(ring) >= m /\ AddNewWallet(id, ReadonlyMultiSign(ring, m))

\* The constructor of MasterWallet and Account::Init refuse m > N and the
\* wallet's own key among the cosigners, before anything is saved.
RingRefused(k, ring, m) == Len(ring) + 1 < m \/ k \in ToSet(ring)

CreateMultiSignXprv(id, k, ring, m) ==
  IF ring = <<>> \/ m < 1 \/ ~IsInjective(ring) THEN Throw("create", id)
  ELSE \/ AlreadyExist("create", id)
       \/ masterWalletMap[id].st = "absent" /\ RingRefused(k, ring, m) /\ Throw("create", id)
       \/ ~RingRefused(k, ring, m) /\ AddNewWallet(id, XprvMultiSign(k, ring, m))

\* This variant looks the ID up before it parses the cosigners, and accepts none.
CreateMultiSignMnemonic(id, k, ring, m) ==
  LET refused == ~IsInjective(ring) \/ RingRefused(k, ring, m) IN
  IF m < 1 THEN Throw("create", id)
  ELSE \/ AlreadyExist("create", id)
       \/ masterWalletMap[id].st = "absent" /\ refused /\ Throw("create", id)
       \/ ~refused /\ AddNewWallet(id, MnemonicMultiSign(k, ring, m))

\* The keystore brings its coin list; InitSubWallets runs once the wallet is
\* in the map, and an exception leaves it there.  A wrong backup password
\* throws before anything is saved.
InsertFromKeystore(id, a, coins) ==
  /\ running
  /\ masterWalletMap[id].st = "absent"
  /\ ~Redundant(a)
  /\ masterWalletMap' =
       [masterWalletMap EXCEPT ![id] = Wallet(a, coins, InitSubWallets(a, coins))]
  /\ disk' = [disk EXCEPT ![id] = Saved(a, coins)]
  /\ ret' = Ret("import", id,
                IF InitSubWalletsOK(a, coins) THEN "wallet" ELSE "throw")
  /\ UNCHANGED running

ImportWalletWithKeystore(id, ks) ==
  LET a == FromKeystore(ks.acct) IN
  \/ Throw("import", id)
  \/ AlreadyExist("import", id)
  \/ CheckRedundantThrows("import", id, a)
  \/ InsertFromKeystore(id, a, ks.coins)
-----------------------------------------------------------------------------
(***************************************************************************)
(* Loading and destroying.                                                 *)
(***************************************************************************)
\* LoadMasterWallet's effect on one entry: an exception leaves it as it was.
LoadMasterWallet(id) ==
  IF disk[id].st = "ok" /\ InitSubWalletsOK(disk[id].acct, disk[id].coins)
  THEN Wallet(disk[id].acct, disk[id].coins, InitSubWallets(disk[id].acct, disk[id].coins))
  ELSE masterWalletMap[id]

GetMasterWallet(id) ==
  /\ running
  /\ masterWalletMap' = [masterWalletMap EXCEPT ![id] =
                           IF @.st = "loaded" THEN @ ELSE LoadMasterWallet(id)]
  /\ ret' = Ret("get", id,
                IF masterWalletMap'[id].st = "loaded" THEN "wallet" ELSE "null")
  /\ UNCHANGED <<running, disk>>

GetAllMasterWallets ==
  /\ running
  /\ masterWalletMap' = [id \in Id |-> IF masterWalletMap[id].st = "null"
                                       THEN LoadMasterWallet(id) ELSE masterWalletMap[id]]
  /\ ret' = Ret("get", "none", "done")
  /\ UNCHANGED <<running, disk>>

\* Mutant: the object is destroyed, RemoveLocalStore is forgotten.
DestroyKeepsStore(id) ==
  /\ running
  /\ masterWalletMap' = [masterWalletMap EXCEPT ![id] = IF @.st = "loaded" THEN Absent ELSE @]
  /\ ret' = Ret("destroy", id, "done")
  /\ UNCHANGED <<running, disk>>

\* Only a loaded wallet is destroyed: a nullptr entry is left as it is.
DestroyWallet(id) ==
  /\ running
  /\ IF masterWalletMap[id].st = "loaded"
     THEN /\ disk' = [disk EXCEPT ![id] = NoFile]
          /\ masterWalletMap' = [masterWalletMap EXCEPT ![id] = Absent]
     ELSE UNCHANGED <<disk, masterWalletMap>>
  /\ ret' = Ret("destroy", id, "done")
  /\ UNCHANGED running
-----------------------------------------------------------------------------
(***************************************************************************)
(* MasterWallet: operations on an object a caller holds.  Each of them     *)
(* ends in Account::Save.                                                  *)
(***************************************************************************)
Loaded(id) == running /\ masterWalletMap[id].st = "loaded"

\* Mutant: the call returns without Account::Save.
UpdateWithoutSave(id, w) ==
  /\ masterWalletMap' = [masterWalletMap EXCEPT ![id] = w]
  /\ UNCHANGED <<running, disk>>

Update(id, w) ==
  /\ masterWalletMap' = [masterWalletMap EXCEPT ![id] = w]
  /\ disk' = [disk EXCEPT ![id] = Saved(w.acct, w.coins)]
  /\ UNCHANGED running

\* Mutant: the coin is listed and saved before the factory has accepted it.
ListedBeforeConstructed(id, c) ==
  LET w == masterWalletMap[id] IN
  /\ Loaded(id)
  /\ c \notin w.subs /\ c \in Configured
  /\ IF SubWalletFactoryMethod(w.acct, c)
     THEN Update(id, [w EXCEPT !.subs = @ \cup {c}, !.coins = Append(@, c)])
     ELSE Update(id, [w EXCEPT !.coins = Append(@, c)])
  /\ ret' = Ret("createSub", id, "wallet")

\* Mutant: a second create of the same sub wallet lists it once more.
ListedTwice(id, c) ==
  LET w == masterWalletMap[id] IN
  /\ Loaded(id)
  /\ c \in Configured /\ SubWalletFactoryMethod(w.acct, c)
  /\ Update(id, [w EXCEPT !.subs = @ \cup {c}, !.coins = Append(@, c)])
  /\ ret' = Ret("createSub", id, "wallet")

CreateSubWallet(id, c) ==
  LET w == masterWalletMap[id] IN
  /\ Loaded(id)
  /\ \/ /\ c \in w.subs
        /\ ret' = Ret("createSub", id, "wallet")
        /\ UNCHANGED <<running, masterWalletMap, disk>>
     \/ /\ c \notin w.subs
        /\ c \notin Configured \/ ~SubWalletFactoryMethod(w.acct, c)
        /\ ret' = Ret("createSub", id, "throw")
        /\ UNCHANGED <<running, masterWalletMap, disk>>
     \/ /\ c \notin w.subs
        /\ c \in Configured /\ SubWalletFactoryMethod(w.acct, c)
        /\ Update(id, [w EXCEPT !.subs = @ \cup {c}, !.coins = Append(@, c)])
        /\ ret' = Ret("createSub", id, "wallet")

\* Mutant: the info is removed and saved, the object stays in _createdWallets.
DestroyedStaysCreated(id, c) ==
  LET w == masterWalletMap[id] IN
  /\ Loaded(id)
  /\ c \in w.subs
  /\ Update(id, [w EXCEPT !.coins = RemoveFirst(@, c)])
  /\ ret' = Ret("destroySub", id, "done")

\* RemoveSubWalletInfo erases the first entry of the list with this chain ID.
DestroySubWallet(id, c) ==
  LET w == masterWalletMap[id] IN
  /\ Loaded(id)
  /\ \/ /\ c \notin w.subs
        /\ ret' = Ret("destroySub", id, "throw")
        /\ UNCHANGED <<running, masterWalletMap, disk>>
     \/ /\ c \in w.subs
        /\ Update(id, [w EXCEPT !.subs = @ \ {c}, !.coins = RemoveFirst(@, c)])
        /\ ret' = Ret("destroySub", id, "done")

\* VerifyPayPassword, ExportMnemonic, ChangePassword and signing, with the
\* right password, first regenerate the keys an old store lacks; Init then
\* pushes the signers once more.
RegenerateKey(id) ==
  LET w == masterWalletMap[id]
      a == Regenerated(w.acct) IN
  /\ Loaded(id)
  /\ ~w.acct.readonly /\ ~w.acct.btc
  /\ Len(w.signers) + Len(InitSigners(a)) <= MaxSigners
  /\ Update(id, [w EXCEPT !.acct = a, !.signers = @ \o InitSigners(a)])
  /\ ret' = Ret("other", id, "done")

\* ResetPassword, with the wallet's own mnemonic, stores the seed.
ResetPassword(id) ==
  LET w == masterWalletMap[id] IN
  /\ Loaded(id)
  /\ ~w.acct.readonly /\ w.acct.xpub # NoKey
  /\ Update(id, [w EXCEPT !.acct.seed = w.acct.xpub])
  /\ ret' = Ret("other", id, "done")

\* ExportKeystore writes the store back before it exports.
ExportKeystore(id) ==
  /\ Loaded(id)
  /\ Update(id, masterWalletMap[id])
  /\ ret' = Ret("other", id, "done")
-----------------------------------------------------------------------------
Create(id) ==
  \/ \E k \in Key : \/ CreateMasterWallet(id, k)
                    \/ CreateMasterWalletSingleKey(id, k)
                    \/ ImportWalletWithMnemonic(id, k)
                    \/ \E match \in BOOLEAN : ImportWalletWithSeed(id, k, match)
  \/ \E ring \in CosignerList, m \in SignCount :
        \/ CreateMultiSignReadonly(id, ring, m)
        \/ \E k \in Key : CreateMultiSignXprv(id, k, ring, m) \/ CreateMultiSignMnemonic(id, k, ring, m)
  \/ \E ks \in Keystore : ImportWalletWithKeystore(id, ks)

Next ==
  \/ Start \/ Stop
  \/ GetAllMasterWallets
  \/ \E id \in Id :
       \/ Create(id)
       \/ CrashInSave(id)
       \/ \E k \in Key : CrashInCreate(id, HDAccount(k))
       \/ GetMasterWallet(id)
       \/ DestroyWallet(id)
       \/ \E c \in Chain : CreateSubWallet(id, c) \/ DestroySubWallet(id, c)
       \/ RegenerateKey(id)
       \/ ResetPassword(id)
       \/ ExportKeystore(id)

Spec == Init /\ [][Next]_vars
-----------------------------------------------------------------------------
(***************************************************************************)
(* Properties.                                                             *)
(***************************************************************************)
\* While the manager runs, its map knows exactly the wallets that have a store
\* file: no ID without files is handed out, no stored wallet is forgotten
\* (LoadMasterWalletID, checkRedundant's RemoveLocalStore, DestroyWallet).
KnownIffStored ==
  running => \A id \in Id : masterWalletMap[id].st # "absent" <=> disk[id].st # "none"

\* A wallet object and its file agree: whatever a call changed in memory it has
\* saved before it returned (the Save at the end of every MasterWallet call).
MemoryIsSaved ==
  \A id \in Id : masterWalletMap[id].st = "loaded" =>
    disk[id] = Saved(masterWalletMap[id].acct, masterWalletMap[id].coins)

\* Every sub wallet a loaded wallet holds is on its coin list, and the account
\* has the keys that sub wallet needs (CreateSubWallet, InitSubWallets).
SubWalletsListed ==
  \A id \in Id : \A c \in masterWalletMap[id].subs :
    /\ c \in ToSet(masterWalletMap[id].coins) \cap Configured
    /\ SubWalletFactoryMethod(masterWalletMap[id].acct, c)

\* A wallet that is loaded can be loaded again by the next process: nothing
\* that was saved makes InitSubWallets throw.
Reloadable ==
  \A id \in Id : masterWalletMap[id].st = "loaded" =>
    /\ disk[id].st = "ok"
    /\ InitSubWalletsOK(disk[id].acct, disk[id].coins)
    /\ InitSubWallets(disk[id].acct, disk[id].coins) = masterWalletMap[id].subs

\* A create that throws leaves neither a map entry nor a file behind
\* (parameter checks before the constructor, checkRedundant after it).
RefusedCreateLeavesNoTrace ==
  [][ret'.op = "create" /\ ret'.val = "throw" => UNCHANGED <<masterWalletMap, disk>>]_vars

\* The only call that makes a stored wallet disappear is DestroyWallet of that
\* very wallet; a refused create in particular never removes another's store.
OnlyDestroyForgets ==
  [][\A id \in Id : disk[id].st # "none" /\ disk'[id].st = "none" =>
                      ret'.op = "destroy" /\ ret'.id = id]_vars

\* Destroying a sub wallet is durable: the next process does not bring it back
\* (RemoveSubWalletInfo erases one list entry, so there must be only one).
DestroyedSubWalletStaysAway ==
  [][\A id \in Id : ret'.op = "destroySub" /\ ret'.val = "done" /\ ret'.id = id =>
       \A c \in masterWalletMap[id].subs \ masterWalletMap'[id].subs :
         c \notin ToSet(disk'[id].coins)]_vars

(***************************************************************************)
(* What the interface headers say and the code does not do.                *)
(***************************************************************************)
\* IMasterWalletManager.h, DestroyWallet: "Destroy a master wallet."
DestroyDestroys ==
  [][ret'.op = "destroy" => disk'[ret'.id].st = "none"]_vars
=============================================================================
