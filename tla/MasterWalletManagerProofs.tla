--------------------- MODULE MasterWalletManagerProofs ---------------------
(***************************************************************************)
(* Proofs about MasterWalletManager, for every set of IDs, keys, chains,   *)
(* keystores and legacy stores.                                            *)
(***************************************************************************)
EXTENDS MasterWalletManager, WellFoundedInduction, SequenceTheorems, TLAPS

(***************************************************************************)
(* Lemmas about the values the actions build.                              *)
(***************************************************************************)
\* The accounts the constructors build are accounts.
LEMMA NewAccountType ==
  ASSUME NEW k \in Key, NEW ring \in Seq(Key), NEW m \in Nat
  PROVE  /\ HDAccount(k) \in Account
         /\ SingleKeyAccount(k) \in Account
         /\ ReadonlyMultiSign(ring, m) \in Account
         /\ XprvMultiSign(k, ring, m) \in Account
         /\ MnemonicMultiSign(k, ring, m) \in Account
BY DEF HDAccount, SingleKeyAccount, ReadonlyMultiSign, XprvMultiSign, MnemonicMultiSign,
       Account, Ring

\* A list of cosigners is a sequence of keys.
LEMMA CosignerListType == CosignerList \subseteq Seq(Key)
BY BoundAssumption DEF CosignerList

\* The sub wallets InitSubWallets constructs are chains of the list.
LEMMA InitSubWalletsType ==
  ASSUME NEW a \in Account, NEW coins \in Seq(Chain)
  PROVE  InitSubWallets(a, coins) \in SUBSET Chain
BY DEF InitSubWallets

\* The account of an empty entry.
LEMMA NoAccountType == NoAccount \in Account
<1>1. <<>> \in Seq(Key)
  OBVIOUS
<1> QED BY <1>1 DEF NoAccount, Account, Ring

\* A fresh wallet object is a map entry, and the empty entries are.
LEMMA EntryType ==
  /\ Absent \in Entry /\ Null \in Entry
  /\ \A a \in Account, coins \in Seq(Chain), subs \in SUBSET Chain :
       Wallet(a, coins, subs) \in Entry
<1>1. <<>> \in Seq(Chain) /\ <<>> \in Seq(Key)
  OBVIOUS
<1>2. Absent \in Entry /\ Null \in Entry
  BY <1>1, NoAccountType DEF Absent, Null, Entry
<1>3. ASSUME NEW a \in Account PROVE InitSigners(a) \in Seq(Key)
  BY <1>1 DEF InitSigners, Account, Ring
<1>4. ASSUME NEW a \in Account, NEW coins \in Seq(Chain), NEW subs \in SUBSET Chain
      PROVE  Wallet(a, coins, subs) \in Entry
  BY <1>3 DEF Wallet, Entry
<1> QED BY <1>2, <1>4

\* What the disk may hold.
LEMMA FileType ==
  /\ NoFile \in File /\ Torn \in File
  /\ \A a \in Account, coins \in Seq(Chain) : Saved(a, coins) \in File
<1>1. <<>> \in Seq(Chain)
  OBVIOUS
<1> QED BY <1>1, NoAccountType DEF NoFile, Torn, Saved, File

\* A set of natural numbers that is not empty has a smallest element.
LEMMA SmallestNat ==
  ASSUME NEW T \in SUBSET Nat, T # {}
  PROVE  \E x \in T : \A y \in T : x <= y
<1>1. PICK x \in T : \A y \in T : ~(<<y, x>> \in OpToRel(<, Nat))
  BY WFMin, NatLessThanWellFounded
<1>2. \A y \in T : x <= y
  <2> SUFFICES ASSUME NEW y \in T, ~(x <= y) PROVE FALSE
    OBVIOUS
  <2>1. <<y, x>> \in {ss \in Nat \X Nat : ss[1] < ss[2]}
    OBVIOUS
  <2>2. <<y, x>> \in OpToRel(<, Nat)
    BY <2>1 DEF OpToRel
  <2> QED BY <1>1, <2>2
<1> QED BY <1>2

\* Removing the first entry with some value leaves a list over the same set.
LEMMA RemoveFirstType ==
  ASSUME NEW S, NEW coins \in Seq(S), NEW c
  PROVE  RemoveFirst(coins, c) \in Seq(S)
<1>1. CASE ~ \E i \in 1..Len(coins) : coins[i] = c
  BY <1>1 DEF RemoveFirst
<1>2. CASE \E i \in 1..Len(coins) : coins[i] = c
  <2> DEFINE I == {i \in 1..Len(coins) : coins[i] = c}
             j == Min(I)
  <2>1. j \in 1..Len(coins)
    <3>1. I \in SUBSET Nat /\ I # {}
      BY <1>2
    <3>2. \E x \in I : \A y \in I : x <= y
      BY <3>1, SmallestNat
    <3> QED BY <3>2 DEF Min
  <2>2. RemoveFirst(coins, c) = SubSeq(coins, 1, j - 1) \o SubSeq(coins, j + 1, Len(coins))
    BY <1>2 DEF RemoveFirst, RemoveAt, SelectInSeq
  <2> HIDE DEF j
  <2>3. /\ SubSeq(coins, 1, j - 1) \in Seq(S)
        /\ SubSeq(coins, j + 1, Len(coins)) \in Seq(S)
    BY <2>1
  <2> QED BY <2>2, <2>3
<1> QED BY <1>1, <1>2
\* Completing an account from a keystore or by RegenerateKey gives an account.
LEMMA CompletedAccountType ==
  ASSUME NEW a \in Account
  PROVE  FromKeystore(a) \in Account /\ Regenerated(a) \in Account
<1>1. FromKeystore(a) \in Account
  BY DEF FromKeystore, Account
<1>2. Regenerated(a) \in Account
  <2> DEFINE xpub == IF a.xpub = NoKey THEN a.seed ELSE a.xpub
             ring == IF IsMultiSign(a) /\ xpub # NoKey
                     THEN Append(RemoveFirst(a.ring, xpub), xpub) ELSE a.ring
  <2>1. xpub \in Key \cup {NoKey} /\ a.ring \in Seq(Key)
    BY DEF Account, Ring
  <2>2. ring \in Seq(Key)
    <3>1. RemoveFirst(a.ring, xpub) \in Seq(Key)
      BY <2>1, RemoveFirstType
    <3> QED BY <2>1, <3>1, AppendProperties
  <2>3. Regenerated(a) = [a EXCEPT !.xpub = xpub, !.owner = @ \/ xpub # NoKey,
                                   !.eth = IF @ = NoKey THEN a.seed ELSE @,
                                   !.btc = @ \/ a.seed # NoKey, !.ring = ring]
    BY DEF Regenerated, Account
  <2> HIDE DEF xpub, ring
  <2> QED BY <2>1, <2>2, <2>3 DEF Account, Ring
<1> QED BY <1>1, <1>2
-----------------------------------------------------------------------------
(***************************************************************************)
(* Type correctness, one lemma per group of actions.                       *)
(***************************************************************************)
\* A step of a create or an import keeps the map and the files well formed.
LEMMA CreateStepType ==
  ASSUME TypeOK, NEW id \in Id, NEW a \in Account, NEW coins \in Seq(Chain),
         NEW op \in {"create", "import"},
         \/ Throw(op, id) \/ AlreadyExist(op, id) \/ CheckRedundantThrows(op, id, a)
         \/ Insert(id, a) \/ InsertFromKeystore(id, a, coins)
  PROVE  TypeOK'
<1>1. <<>> \in Seq(Chain) /\ {} \in SUBSET Chain /\ InitSubWallets(a, coins) \in SUBSET Chain
  BY InitSubWalletsType
<1>2. /\ Wallet(a, <<>>, {}) \in Entry /\ Wallet(a, coins, InitSubWallets(a, coins)) \in Entry
      /\ NoFile \in File /\ Saved(a, <<>>) \in File /\ Saved(a, coins) \in File
  BY <1>1, EntryType, FileType
<1>3. CASE Throw(op, id) \/ AlreadyExist(op, id)
  BY <1>3 DEF TypeOK, Throw, AlreadyExist, Ret, Op
<1>4. CASE CheckRedundantThrows(op, id, a)
  BY <1>2, <1>4 DEF TypeOK, CheckRedundantThrows, Ret, Op
<1>5. CASE Insert(id, a)
  BY <1>2, <1>5 DEF TypeOK, Insert, Ret, Op
<1>6. CASE InsertFromKeystore(id, a, coins)
  BY <1>2, <1>6 DEF TypeOK, InsertFromKeystore, Ret, Op
<1> QED BY <1>3, <1>4, <1>5, <1>6

\* Every variant of create and import is one of these steps; only a keystore
\* brings a coin list.
LEMMA CreateCases ==
  ASSUME NEW id \in Id, Create(id)
  PROVE  \/ \E a \in Account, op \in {"create", "import"} :
              Throw(op, id) \/ AlreadyExist(op, id) \/ CheckRedundantThrows(op, id, a) \/ Insert(id, a)
         \/ \E ks \in Keystore : InsertFromKeystore(id, FromKeystore(ks.acct), ks.coins)
<1> DEFINE Step(a, op) ==
             Throw(op, id) \/ AlreadyExist(op, id) \/ CheckRedundantThrows(op, id, a) \/ Insert(id, a)
           Goal == \E a \in Account, op \in {"create", "import"} : Step(a, op)
<1>1. ASSUME NEW a \in Account, Step(a, "create") PROVE Goal
  BY <1>1
<1>2. ASSUME NEW k \in Key,
             \/ CreateMasterWallet(id, k) \/ CreateMasterWalletSingleKey(id, k)
             \/ ImportWalletWithMnemonic(id, k)
             \/ \E match \in BOOLEAN : ImportWalletWithSeed(id, k, match)
      PROVE  Goal
  <2>1. HDAccount(k) \in Account /\ SingleKeyAccount(k) \in Account
    BY NewAccountType, EmptySeq
  <2>2. \E a \in Account : Step(a, "create")
    BY <1>2, <2>1 DEF CreateMasterWallet, CreateMasterWalletSingleKey, ImportWalletWithMnemonic,
                      ImportWalletWithSeed, AddWallet, AddNewWallet
  <2> QED BY <1>1, <2>2
<1>3. ASSUME NEW ring \in CosignerList, NEW n \in SignCount, CreateMultiSignReadonly(id, ring, n)
      PROVE  Goal
  <2>1. ring \in Seq(Key) /\ n \in Nat
    BY CosignerListType, BoundAssumption
  <2>2. ReadonlyMultiSign(ring, n) \in Account
    BY <2>1 DEF ReadonlyMultiSign, Account, Ring
  <2>3. Step(ReadonlyMultiSign(ring, n), "create")
    BY <1>3 DEF CreateMultiSignReadonly, AddNewWallet
  <2> QED BY <1>1, <2>2, <2>3
<1>4. ASSUME NEW ring \in CosignerList, NEW n \in SignCount, NEW k \in Key,
             CreateMultiSignXprv(id, k, ring, n) \/ CreateMultiSignMnemonic(id, k, ring, n)
      PROVE  Goal
  <2>1. ring \in Seq(Key) /\ n \in Nat
    BY CosignerListType, BoundAssumption
  <2>2. XprvMultiSign(k, ring, n) \in Account /\ MnemonicMultiSign(k, ring, n) \in Account
    BY <2>1, NewAccountType
  <2>3. \E a \in Account : Step(a, "create")
    BY <1>4, <2>2 DEF CreateMultiSignXprv, CreateMultiSignMnemonic, AddNewWallet
  <2> QED BY <1>1, <2>3
<1>5. ASSUME NEW ks \in Keystore, ImportWalletWithKeystore(id, ks)
      PROVE  Goal \/ InsertFromKeystore(id, FromKeystore(ks.acct), ks.coins)
  <2>1. FromKeystore(ks.acct) \in Account
    BY LegacyAssumption, CompletedAccountType
  <2>2. Step(FromKeystore(ks.acct), "import") \/ InsertFromKeystore(id, FromKeystore(ks.acct), ks.coins)
    BY <1>5 DEF ImportWalletWithKeystore
  <2> QED BY <2>1, <2>2
<1> HIDE DEF Goal
<1>6. Goal \/ \E ks \in Keystore : InsertFromKeystore(id, FromKeystore(ks.acct), ks.coins)
  BY <1>2, <1>3, <1>4, <1>5 DEF Create
<1> QED BY <1>6 DEF Goal

\* The same, with any account and coin list.
LEMMA CreateIsCreateStep ==
  ASSUME NEW id \in Id, Create(id)
  PROVE  \E a \in Account, coins \in Seq(Chain), op \in {"create", "import"} :
           \/ Throw(op, id) \/ AlreadyExist(op, id) \/ CheckRedundantThrows(op, id, a)
           \/ Insert(id, a) \/ InsertFromKeystore(id, a, coins)
<1>1. ASSUME NEW a \in Account, NEW op \in {"create", "import"},
             Throw(op, id) \/ AlreadyExist(op, id) \/ CheckRedundantThrows(op, id, a) \/ Insert(id, a)
      PROVE  \E b \in Account, coins \in Seq(Chain), o \in {"create", "import"} :
               \/ Throw(o, id) \/ AlreadyExist(o, id) \/ CheckRedundantThrows(o, id, b)
               \/ Insert(id, b) \/ InsertFromKeystore(id, b, coins)
  BY <1>1, EmptySeq
<1>2. \A ks \in Keystore : FromKeystore(ks.acct) \in Account /\ ks.coins \in Seq(Chain)
  BY LegacyAssumption, CompletedAccountType
<1> QED BY <1>1, <1>2, CreateCases

\* Changing a wallet object and saving it keeps the map and the files well formed.
LEMMA UpdateType ==
  ASSUME TypeOK, NEW id \in Id, NEW w \in Entry, Update(id, w)
  PROVE  masterWalletMap' \in [Id -> Entry] /\ disk' \in [Id -> File] /\ running' \in BOOLEAN
<1>1. Saved(w.acct, w.coins) \in File
  BY FileType DEF Entry
<1> QED BY <1>1 DEF TypeOK, Update

\* The calls on a wallet object keep its entry and its file well formed.
LEMMA WalletStepType ==
  ASSUME TypeOK, NEW id \in Id,
         \/ \E c \in Chain : CreateSubWallet(id, c) \/ DestroySubWallet(id, c)
         \/ RegenerateKey(id) \/ ResetPassword(id) \/ ExportKeystore(id)
  PROVE  TypeOK'
<1>1. PICK w \in Entry : w = masterWalletMap[id]
  BY DEF TypeOK
<1>2. /\ w.acct \in Account /\ w.coins \in Seq(Chain) /\ w.subs \in SUBSET Chain
      /\ w.signers \in Seq(Key)
  BY DEF Entry
<1>3. ASSUME NEW v \in Entry, Update(id, v), NEW op \in Op, NEW val \in {"wallet", "done"},
             ret' = Ret(op, id, val)
      PROVE  TypeOK'
  BY <1>3, UpdateType DEF TypeOK, Ret
<1>4. ASSUME NEW op \in Op, NEW val \in {"wallet", "throw"}, ret' = Ret(op, id, val),
             UNCHANGED <<running, masterWalletMap, disk>>
      PROVE  TypeOK'
  BY <1>4 DEF TypeOK, Ret
<1>5. ASSUME NEW c \in Chain, CreateSubWallet(id, c) PROVE TypeOK'
  <2>1. Append(w.coins, c) \in Seq(Chain) /\ w.subs \cup {c} \in SUBSET Chain
    BY <1>2, AppendProperties
  <2>2. [w EXCEPT !.subs = w.subs \cup {c}, !.coins = Append(w.coins, c)] \in Entry
    BY <2>1 DEF Entry
  <2>3. \/ /\ UNCHANGED <<running, masterWalletMap, disk>>
           /\ ret' = Ret("createSub", id, "wallet") \/ ret' = Ret("createSub", id, "throw")
        \/ /\ Update(id, [w EXCEPT !.subs = w.subs \cup {c}, !.coins = Append(w.coins, c)])
           /\ ret' = Ret("createSub", id, "wallet")
    BY <1>1, <1>5 DEF CreateSubWallet
  <2> QED BY <1>3, <1>4, <2>2, <2>3 DEF Op
<1>6. ASSUME NEW c \in Chain, DestroySubWallet(id, c) PROVE TypeOK'
  <2>1. RemoveFirst(w.coins, c) \in Seq(Chain) /\ w.subs \ {c} \in SUBSET Chain
    BY <1>2, RemoveFirstType
  <2>2. [w EXCEPT !.subs = w.subs \ {c}, !.coins = RemoveFirst(w.coins, c)] \in Entry
    BY <2>1 DEF Entry
  <2>3. \/ /\ UNCHANGED <<running, masterWalletMap, disk>>
           /\ ret' = Ret("destroySub", id, "throw")
        \/ /\ Update(id, [w EXCEPT !.subs = w.subs \ {c}, !.coins = RemoveFirst(w.coins, c)])
           /\ ret' = Ret("destroySub", id, "done")
    BY <1>1, <1>6 DEF DestroySubWallet
  <2> QED BY <1>3, <1>4, <2>2, <2>3 DEF Op
<1>7. CASE RegenerateKey(id)
  <2> DEFINE b == Regenerated(w.acct)
             s == InitSigners(b)
  <2>1. b \in Account
    BY <1>2, CompletedAccountType
  <2>2. s \in Seq(Key)
    BY <2>1, EmptySeq DEF InitSigners, Account, Ring
  <2>3. Update(id, [w EXCEPT !.acct = b, !.signers = w.signers \o s]) /\ ret' = Ret("other", id, "done")
    BY <1>1, <1>7 DEF RegenerateKey
  <2> HIDE DEF b, s
  <2>4. w.signers \o s \in Seq(Key)
    BY <1>2, <2>2, ConcatProperties
  <2>5. [w EXCEPT !.acct = b, !.signers = w.signers \o s] \in Entry
    BY <2>1, <2>4 DEF Entry
  <2> QED BY <1>3, <2>3, <2>5 DEF Op
<1>8. CASE ExportKeystore(id)
  BY <1>1, <1>3, <1>8 DEF ExportKeystore, Op
<1>9. CASE ResetPassword(id)
  <2>1. [w EXCEPT !.acct.seed = w.acct.xpub] \in Entry
    BY DEF Entry, Account
  <2> QED BY <1>1, <1>3, <1>9, <2>1 DEF ResetPassword, Op
<1> QED BY <1>5, <1>6, <1>7, <1>8, <1>9

\* Loading a wallet gives a map entry.
LEMMA LoadMasterWalletType ==
  ASSUME TypeOK, NEW id \in Id
  PROVE  LoadMasterWallet(id) \in Entry
<1>1. disk[id].acct \in Account /\ disk[id].coins \in Seq(Chain) /\ masterWalletMap[id] \in Entry
  BY DEF TypeOK, File
<1> QED BY <1>1, EntryType, InitSubWalletsType DEF LoadMasterWallet

\* A crash leaves a well-formed file.
LEMMA CrashType ==
  ASSUME TypeOK, NEW id \in Id, NEW file \in File, Crash(id, file)
  PROVE  TypeOK'
BY EntryType DEF TypeOK, Crash, Silent, Ret, Op

\* Loading, destroying and crashing keep the map and the files well formed.
LEMMA ManagerStepType ==
  ASSUME TypeOK, NEW id \in Id,
         \/ CrashInSave(id) \/ (\E k \in Key : CrashInCreate(id, HDAccount(k)))
         \/ GetMasterWallet(id) \/ DestroyWallet(id)
  PROVE  TypeOK'
<1>1. CASE CrashInSave(id)
  BY <1>1, FileType, CrashType DEF CrashInSave
<1>2. ASSUME NEW k \in Key, CrashInCreate(id, HDAccount(k)) PROVE TypeOK'
  <2>1. Saved(HDAccount(k), <<>>) \in File /\ Torn \in File
    BY FileType, NewAccountType, EmptySeq
  <2> QED BY <1>2, <2>1, CrashType DEF CrashInCreate
<1>3. CASE GetMasterWallet(id)
  BY <1>3, LoadMasterWalletType DEF GetMasterWallet, TypeOK, Ret, Op
<1>4. CASE DestroyWallet(id)
  BY <1>4, EntryType, FileType DEF DestroyWallet, TypeOK, Ret, Op
<1> QED BY <1>1, <1>2, <1>3, <1>4

\* Type correctness: every call of the manager and of its wallets keeps the
\* map's entries and the store files well formed.
THEOREM TypeCorrect == Spec => []TypeOK
<1>1. Init => TypeOK
  <2> SUFFICES ASSUME Init PROVE TypeOK
    OBVIOUS
  <2>1. {NoFile} \cup {Saved(s.acct, s.coins) : s \in LegacyStore} \subseteq File
    BY FileType, LegacyAssumption
  <2> QED BY <2>1, EntryType DEF Init, TypeOK, Silent, Ret, Op
<1>2. TypeOK /\ [Next]_vars => TypeOK'
  <2> SUFFICES ASSUME TypeOK, [Next]_vars PROVE TypeOK'
    OBVIOUS
  <2>1. CASE Start
    BY <2>1, EntryType DEF Start, LoadMasterWalletID, TypeOK, Silent, Ret, Op
  <2>2. CASE Stop
    BY <2>2, EntryType DEF Stop, TypeOK, Silent, Ret, Op
  <2>3. CASE GetAllMasterWallets
    BY <2>3, LoadMasterWalletType DEF GetAllMasterWallets, TypeOK, Ret, Op
  <2>4. ASSUME NEW id \in Id, Create(id) PROVE TypeOK'
    BY <2>4, CreateIsCreateStep, CreateStepType
  <2>5. CASE UNCHANGED vars
    BY <2>5 DEF vars, TypeOK
  <2> QED BY <2>1, <2>2, <2>3, <2>4, <2>5, ManagerStepType, WalletStepType DEF Next
<1> QED BY <1>1, <1>2, PTL DEF Spec
-----------------------------------------------------------------------------
(***************************************************************************)
(* The registry agrees with the disk.  Both invariants speak of one map    *)
(* entry and one file at a time, and together with the types they are      *)
(* inductive.                                                              *)
(***************************************************************************)
StoreInv == TypeOK /\ KnownIffStored /\ MemoryIsSaved

\* The tags of entries and files, as the invariants read them.
LEMMA Tags ==
  /\ Absent.st = "absent" /\ Null.st = "null" /\ NoFile.st = "none"
  /\ \A a, coins : Saved(a, coins).st = "ok"
  /\ \A a, coins, subs : /\ Wallet(a, coins, subs).st = "loaded"
                         /\ Wallet(a, coins, subs).acct = a /\ Wallet(a, coins, subs).coins = coins
BY DEF Absent, Null, NoFile, Saved, Wallet

\* Replacing one wallet's entry together with its file keeps the two in step.
LEMMA ReplaceBoth ==
  ASSUME StoreInv, running, running', TypeOK', NEW id \in Id, NEW e \in Entry, NEW f \in File,
         masterWalletMap' = [masterWalletMap EXCEPT ![id] = e],
         disk' = [disk EXCEPT ![id] = f],
         \/ e = Absent /\ f = NoFile
         \/ e.st = "loaded" /\ f = Saved(e.acct, e.coins)
  PROVE  StoreInv'
<1>1. /\ masterWalletMap'[id] = e /\ disk'[id] = f
      /\ \A i \in Id \ {id} : masterWalletMap'[i] = masterWalletMap[i] /\ disk'[i] = disk[i]
  BY DEF StoreInv, TypeOK
<1>2. (e.st # "absent" <=> f.st # "none") /\ (e.st = "loaded" => f = Saved(e.acct, e.coins))
  BY Tags
<1>3. KnownIffStored'
  BY <1>1, <1>2 DEF StoreInv, KnownIffStored
<1>4. MemoryIsSaved'
  BY <1>1, <1>2 DEF StoreInv, MemoryIsSaved
<1> QED BY <1>3, <1>4 DEF StoreInv

\* A step that changes neither the map nor the files keeps them in step.
LEMMA NothingStored ==
  ASSUME StoreInv, TypeOK', UNCHANGED <<running, masterWalletMap, disk>>
  PROVE  StoreInv'
BY DEF StoreInv, KnownIffStored, MemoryIsSaved

\* A process that ends holds no wallet.
LEMMA NothingHeld ==
  ASSUME TypeOK', ~running', masterWalletMap' = [i \in Id |-> Absent]
  PROVE  StoreInv'
BY Tags DEF StoreInv, KnownIffStored, MemoryIsSaved

\* Every create and import: a refusal touches no other store, and an insert
\* has saved what it inserts.
LEMMA CreateKeepsStore ==
  ASSUME StoreInv, TypeOK', NEW id \in Id, NEW a \in Account, NEW coins \in Seq(Chain),
         NEW op \in {"create", "import"},
         \/ Throw(op, id) \/ AlreadyExist(op, id) \/ CheckRedundantThrows(op, id, a)
         \/ Insert(id, a) \/ InsertFromKeystore(id, a, coins)
  PROVE  StoreInv'
<1>1. CASE Throw(op, id) \/ AlreadyExist(op, id)
  BY <1>1, NothingStored DEF Throw, AlreadyExist
<1>2. CASE CheckRedundantThrows(op, id, a)
  <2>1. disk[id].st = "none" /\ running /\ UNCHANGED <<running, masterWalletMap>>
    BY <1>2 DEF CheckRedundantThrows, StoreInv, KnownIffStored
  <2>2. disk'[id].st = "none" /\ \A i \in Id \ {id} : disk'[i] = disk[i]
    BY <1>2, Tags DEF CheckRedundantThrows, StoreInv, TypeOK
  <2>3. masterWalletMap[id].st = "absent"
    BY <1>2 DEF CheckRedundantThrows
  <2> QED BY <2>1, <2>2, <2>3 DEF StoreInv, KnownIffStored, MemoryIsSaved
<1>3. CASE Insert(id, a)
  <2>1. Wallet(a, <<>>, {}) \in Entry /\ Saved(a, <<>>) \in File
    BY EntryType, FileType, EmptySeq
  <2>2. PICK e \in Entry, f \in File : e = Wallet(a, <<>>, {}) /\ f = Saved(a, <<>>)
    BY <2>1
  <2>3. e.st = "loaded" /\ f = Saved(e.acct, e.coins)
    BY <2>2, Tags
  <2>4. /\ running /\ running'
        /\ masterWalletMap' = [masterWalletMap EXCEPT ![id] = e] /\ disk' = [disk EXCEPT ![id] = f]
    BY <1>3, <2>2 DEF Insert
  <2> QED BY <2>3, <2>4, ReplaceBoth
<1>4. CASE InsertFromKeystore(id, a, coins)
  <2>1. Wallet(a, coins, InitSubWallets(a, coins)) \in Entry /\ Saved(a, coins) \in File
    BY EntryType, FileType, InitSubWalletsType
  <2>2. PICK e \in Entry, f \in File : e = Wallet(a, coins, InitSubWallets(a, coins)) /\ f = Saved(a, coins)
    BY <2>1
  <2>3. e.st = "loaded" /\ f = Saved(e.acct, e.coins)
    BY <2>2, Tags
  <2>4. /\ running /\ running'
        /\ masterWalletMap' = [masterWalletMap EXCEPT ![id] = e] /\ disk' = [disk EXCEPT ![id] = f]
    BY <1>4, <2>2 DEF InsertFromKeystore
  <2> QED BY <2>3, <2>4, ReplaceBoth
<1> QED BY <1>1, <1>2, <1>3, <1>4

\* Loading gives the object the file describes, or leaves the entry alone.
LEMMA LoadKeepsStore ==
  ASSUME StoreInv, running, TypeOK', UNCHANGED <<running, disk>>,
         \A i \in Id : \/ masterWalletMap'[i] = masterWalletMap[i]
                       \/ masterWalletMap'[i] = LoadMasterWallet(i)
  PROVE  StoreInv'
<1>1. ASSUME NEW i \in Id
      PROVE  \/ masterWalletMap'[i] = masterWalletMap[i]
             \/ /\ disk[i].st = "ok" /\ masterWalletMap'[i].st = "loaded"
                /\ disk[i] = Saved(masterWalletMap'[i].acct, masterWalletMap'[i].coins)
  <2>1. disk[i] \in File
    BY DEF StoreInv, TypeOK
  <2>2. disk[i].st = "ok" => disk[i] = Saved(disk[i].acct, disk[i].coins)
    BY <2>1 DEF File, Saved
  <2> QED BY <2>2, Tags DEF LoadMasterWallet
<1>2. KnownIffStored'
  BY <1>1 DEF StoreInv, KnownIffStored
<1>3. MemoryIsSaved'
  BY <1>1 DEF StoreInv, MemoryIsSaved
<1> QED BY <1>2, <1>3 DEF StoreInv

\* The calls on a wallet object save what they change.
LEMMA WalletStepKeepsStore ==
  ASSUME StoreInv, TypeOK', NEW id \in Id,
         \/ \E c \in Chain : CreateSubWallet(id, c) \/ DestroySubWallet(id, c)
         \/ RegenerateKey(id) \/ ResetPassword(id) \/ ExportKeystore(id)
  PROVE  StoreInv'
<1>1. Loaded(id) /\ masterWalletMap[id] \in Entry
  BY DEF CreateSubWallet, DestroySubWallet, RegenerateKey, ResetPassword, ExportKeystore,
     StoreInv, TypeOK
<1>2. ASSUME NEW w, Update(id, w), w.st = "loaded" PROVE StoreInv'
  <2>1. masterWalletMap'[id] = w /\ disk'[id] = Saved(w.acct, w.coins)
    BY <1>2 DEF Update, StoreInv, TypeOK
  <2>2. w \in Entry /\ Saved(w.acct, w.coins) \in File
    BY <2>1 DEF TypeOK
  <2> QED BY <1>1, <1>2, <2>2, ReplaceBoth DEF Update, Loaded
<1>3. CASE UNCHANGED <<running, masterWalletMap, disk>>
  BY <1>3, NothingStored
<1>4. ASSUME NEW c \in Chain, CreateSubWallet(id, c), ~UNCHANGED <<running, masterWalletMap, disk>>
      PROVE  StoreInv'
  <2> DEFINE w == [masterWalletMap[id] EXCEPT !.subs = @ \cup {c}, !.coins = Append(@, c)]
  <2>1. Update(id, w)
    BY <1>4 DEF CreateSubWallet
  <2>2. w.st = "loaded"
    BY <1>1 DEF Loaded, Entry
  <2> QED BY <1>2, <2>1, <2>2
<1>5. ASSUME NEW c \in Chain, DestroySubWallet(id, c), ~UNCHANGED <<running, masterWalletMap, disk>>
      PROVE  StoreInv'
  <2> DEFINE w == [masterWalletMap[id] EXCEPT !.subs = @ \ {c}, !.coins = RemoveFirst(@, c)]
  <2>1. Update(id, w)
    BY <1>5 DEF DestroySubWallet
  <2>2. w.st = "loaded"
    BY <1>1 DEF Loaded, Entry
  <2> QED BY <1>2, <2>1, <2>2
<1>6. CASE RegenerateKey(id)
  <2> DEFINE a == Regenerated(masterWalletMap[id].acct)
             w == [masterWalletMap[id] EXCEPT !.acct = a, !.signers = @ \o InitSigners(a)]
  <2>1. Update(id, w)
    BY <1>6 DEF RegenerateKey
  <2>2. w.st = "loaded"
    BY <1>1 DEF Loaded, Entry
  <2> QED BY <1>2, <2>1, <2>2
<1>7. CASE ExportKeystore(id)
  BY <1>1, <1>2, <1>7 DEF ExportKeystore, Loaded
<1>8. CASE ResetPassword(id)
  <2> DEFINE w == [masterWalletMap[id] EXCEPT !.acct.seed = masterWalletMap[id].acct.xpub]
  <2>1. Update(id, w)
    BY <1>8 DEF ResetPassword
  <2>2. w.st = "loaded"
    BY <1>1 DEF Loaded, Entry
  <2> QED BY <1>2, <2>1, <2>2
<1> QED BY <1>3, <1>4, <1>5, <1>6, <1>7, <1>8

\* The invariant of the registry: no create, import, load, destroy, sub wallet
\* call or crash breaks it.
LEMMA StoreInvariant == Spec => []StoreInv
<1>1. Init => KnownIffStored /\ MemoryIsSaved
  BY Tags DEF Init, KnownIffStored, MemoryIsSaved
<1>2. KnownIffStored /\ MemoryIsSaved /\ TypeOK /\ TypeOK' /\ [Next]_vars
        => KnownIffStored' /\ MemoryIsSaved'
  <2> SUFFICES ASSUME StoreInv, TypeOK', [Next]_vars PROVE StoreInv'
    BY DEF StoreInv
  <2>1. CASE Start
    BY <2>1, Tags DEF Start, LoadMasterWalletID, StoreInv, KnownIffStored, MemoryIsSaved
  <2>2. CASE Stop
    BY <2>2, NothingHeld DEF Stop
  <2>3. CASE GetAllMasterWallets
    BY <2>3, LoadKeepsStore DEF GetAllMasterWallets
  <2>4. ASSUME NEW id \in Id, Create(id) PROVE StoreInv'
    BY <2>4, CreateIsCreateStep, CreateKeepsStore
  <2>5. ASSUME NEW id \in Id, CrashInSave(id) \/ \E k \in Key : CrashInCreate(id, HDAccount(k))
        PROVE  StoreInv'
    BY <2>5, NothingHeld DEF CrashInSave, CrashInCreate, Crash
  <2>6. ASSUME NEW id \in Id, GetMasterWallet(id) PROVE StoreInv'
    <3>1. \A i \in Id : \/ masterWalletMap'[i] = masterWalletMap[i]
                        \/ masterWalletMap'[i] = LoadMasterWallet(i)
      BY <2>6 DEF GetMasterWallet, StoreInv, TypeOK
    <3> QED BY <2>6, <3>1, LoadKeepsStore DEF GetMasterWallet
  <2>7. ASSUME NEW id \in Id, DestroyWallet(id) PROVE StoreInv'
    <3>1. CASE masterWalletMap[id].st = "loaded"
      BY <2>7, <3>1, EntryType, FileType, ReplaceBoth DEF DestroyWallet
    <3>2. CASE masterWalletMap[id].st # "loaded"
      BY <2>7, <3>2, NothingStored DEF DestroyWallet
    <3> QED BY <3>1, <3>2
  <2>8. CASE UNCHANGED vars
    BY <2>8, NothingStored DEF vars
  <2> QED BY <2>1, <2>2, <2>3, <2>4, <2>5, <2>6, <2>7, <2>8, WalletStepKeepsStore DEF Next
<1> QED BY <1>1, <1>2, TypeCorrect, PTL DEF Spec, StoreInv

\* While the manager runs, it knows exactly the wallets that have a store
\* (LoadMasterWalletID, checkRedundant, DestroyWallet), for every set of IDs,
\* keys and stores left behind by an earlier process.
THEOREM StoreConsistent == Spec => []KnownIffStored
BY StoreInvariant, PTL DEF StoreInv

\* Every wallet object the manager holds is what its store says: whatever a call
\* on the object changed was saved by that call (Account::Save).
THEOREM ObjectsAreSaved == Spec => []MemoryIsSaved
BY StoreInvariant, PTL DEF StoreInv
-----------------------------------------------------------------------------
(***************************************************************************)
(* What a step may never do to a store.  checkRedundant removes the store  *)
(* of the wallet it refuses; that this leaves the disk as it was needs the *)
(* ID's directory to have been empty before, which KnownIffStored gives.   *)
(***************************************************************************)
\* A wallet without a store file has nothing on the disk.
NothingLeft == \A id \in Id : disk[id].st = "none" => disk[id] = NoFile

\* The tags of the files a step writes.
LEMMA FileTags ==
  NoFile.st = "none" /\ Torn.st = "torn" /\ \A a, coins : Saved(a, coins).st = "ok"
BY DEF NoFile, Torn, Saved

\* A call on a wallet object updates it, or leaves everything as it is.
LEMMA WalletStep ==
  ASSUME NEW id,
         \/ \E c \in Chain : CreateSubWallet(id, c) \/ DestroySubWallet(id, c)
         \/ RegenerateKey(id) \/ ResetPassword(id) \/ ExportKeystore(id)
  PROVE  (UNCHANGED disk \/ \E w : Update(id, w)) /\ ret'.op # "create"
<1> DEFINE w == masterWalletMap[id]
           Goal == UNCHANGED disk \/ \E v : Update(id, v)
<1>0. \A op, val : Ret(op, id, val).op = op
  BY DEF Ret
<1>1. ASSUME NEW c \in Chain, CreateSubWallet(id, c) PROVE Goal /\ ret'.op = "createSub"
  <2>1. \E val : ret' = Ret("createSub", id, val)
    BY <1>1 DEF CreateSubWallet
  <2>2. UNCHANGED disk \/ Update(id, [w EXCEPT !.subs = @ \cup {c}, !.coins = Append(@, c)])
    BY <1>1 DEF CreateSubWallet
  <2> QED BY <1>0, <2>1, <2>2, Zenon
<1>2. ASSUME NEW c \in Chain, DestroySubWallet(id, c) PROVE Goal /\ ret'.op = "destroySub"
  <2>1. \E val : ret' = Ret("destroySub", id, val)
    BY <1>2 DEF DestroySubWallet
  <2>2. UNCHANGED disk \/ Update(id, [w EXCEPT !.subs = @ \ {c}, !.coins = RemoveFirst(@, c)])
    BY <1>2 DEF DestroySubWallet
  <2> QED BY <1>0, <2>1, <2>2, Zenon
<1>3. ASSUME RegenerateKey(id) \/ ResetPassword(id) \/ ExportKeystore(id) PROVE Goal /\ ret'.op = "other"
  <2> DEFINE a == Regenerated(w.acct)
  <2>1. \E val : ret' = Ret("other", id, val)
    BY <1>3 DEF RegenerateKey, ResetPassword, ExportKeystore
  <2>2. \/ Update(id, [w EXCEPT !.acct = a, !.signers = @ \o InitSigners(a)])
        \/ Update(id, [w EXCEPT !.acct.seed = w.acct.xpub])
        \/ Update(id, w)
    BY <1>3 DEF RegenerateKey, ResetPassword, ExportKeystore
  <2> QED BY <1>0, <2>1, <2>2, Zenon
<1> HIDE DEF Goal
<1>4. Goal /\ ret'.op # "create"
  BY <1>1, <1>2, <1>3
<1> QED BY <1>4 DEF Goal

\* What a step does to the disk: nothing, or it replaces one file; a file is
\* only removed by DestroyWallet, or where there was none.
LEMMA DiskStep ==
  ASSUME StoreInv, [Next]_vars
  PROVE  \/ UNCHANGED disk
         \/ \E id \in Id, f \in {NoFile, Torn} \cup {Saved(a, coins) : a \in Account, coins \in Seq(Chain)} :
              /\ disk' = [disk EXCEPT ![id] = f]
              /\ \/ f = NoFile /\ (disk[id].st = "none" \/ (ret'.op = "destroy" /\ ret'.id = id))
                 \/ f # NoFile /\ ~(ret'.op = "create" /\ ret'.val = "throw")
<1> DEFINE Files == {NoFile, Torn} \cup {Saved(a, coins) : a \in Account, coins \in Seq(Chain)}
           Goal == \/ UNCHANGED disk
                   \/ \E id \in Id, f \in Files :
                        /\ disk' = [disk EXCEPT ![id] = f]
                        /\ \/ f = NoFile /\ (disk[id].st = "none" \/ (ret'.op = "destroy" /\ ret'.id = id))
                           \/ f # NoFile /\ ~(ret'.op = "create" /\ ret'.val = "throw")
<1>1. NoFile \in Files /\ Torn \in Files /\ \A a \in Account, coins \in Seq(Chain) : Saved(a, coins) \in Files
  OBVIOUS
<1>2. Torn # NoFile /\ \A a \in Account, coins \in Seq(Chain) : Saved(a, coins) # NoFile
  BY FileTags
<1> SUFFICES Goal
  OBVIOUS
<1> HIDE DEF Files
<1>3. CASE Start \/ Stop \/ GetAllMasterWallets \/ UNCHANGED vars
  BY <1>3 DEF Start, Stop, GetAllMasterWallets, vars
<1>4. ASSUME NEW id \in Id, Create(id) PROVE Goal
  <2>1. PICK a \in Account, coins \in Seq(Chain), op \in {"create", "import"} :
           \/ Throw(op, id) \/ AlreadyExist(op, id) \/ CheckRedundantThrows(op, id, a)
           \/ Insert(id, a) \/ InsertFromKeystore(id, a, coins)
    BY <1>4, CreateIsCreateStep
  <2>2. CASE Throw(op, id) \/ AlreadyExist(op, id)
    BY <2>2 DEF Throw, AlreadyExist
  <2>3. CASE CheckRedundantThrows(op, id, a)
    <3>1. disk[id].st = "none" /\ disk' = [disk EXCEPT ![id] = NoFile]
      BY <2>3 DEF CheckRedundantThrows, StoreInv, KnownIffStored
    <3> QED BY <1>1, <3>1
  <2>4. CASE Insert(id, a)
    <3>1. disk' = [disk EXCEPT ![id] = Saved(a, <<>>)] /\ ret'.val = "wallet"
      BY <2>4 DEF Insert, Ret
    <3> QED BY <1>1, <1>2, <3>1, EmptySeq
  <2>5. CASE InsertFromKeystore(id, a, coins)
    <3>1. disk' = [disk EXCEPT ![id] = Saved(a, coins)] /\ ret'.op = "import"
      BY <2>5 DEF InsertFromKeystore, Ret
    <3> QED BY <1>1, <1>2, <3>1
  <2> QED BY <2>1, <2>2, <2>3, <2>4, <2>5
<1>5. ASSUME NEW id \in Id, CrashInSave(id) \/ \E k \in Key : CrashInCreate(id, HDAccount(k))
      PROVE  Goal
  <2>1. \A k \in Key : Saved(HDAccount(k), <<>>) \in Files /\ Saved(HDAccount(k), <<>>) # NoFile
    BY <1>1, <1>2, NewAccountType, EmptySeq
  <2>2. PICK f \in Files : Crash(id, f) /\ f # NoFile
    BY <1>1, <1>2, <1>5, <2>1 DEF CrashInSave, CrashInCreate
  <2>3. disk' = [disk EXCEPT ![id] = f] /\ ret'.op = "none"
    BY <2>2 DEF Crash, Silent, Ret
  <2> QED BY <2>2, <2>3
<1>6. ASSUME NEW id \in Id, GetMasterWallet(id) \/ DestroyWallet(id) PROVE Goal
  BY <1>1, <1>6 DEF GetMasterWallet, DestroyWallet, Ret
<1>7. ASSUME NEW id \in Id,
             \/ \E c \in Chain : CreateSubWallet(id, c) \/ DestroySubWallet(id, c)
             \/ RegenerateKey(id) \/ ResetPassword(id) \/ ExportKeystore(id)
      PROVE  Goal
  <2>1. (UNCHANGED disk \/ \E w : Update(id, w)) /\ ret'.op # "create"
    BY <1>7, WalletStep
  <2>2. ASSUME NEW w, Update(id, w) PROVE Goal
    <3>1. TypeOK'
      BY <1>7, WalletStepType DEF StoreInv
    <3>2. masterWalletMap'[id] = w /\ w \in Entry
      BY <2>2, <3>1 DEF Update, TypeOK, StoreInv
    <3>3. w.acct \in Account /\ w.coins \in Seq(Chain)
      BY <3>2 DEF Entry
    <3> QED BY <1>1, <1>2, <2>1, <2>2, <3>3 DEF Update
  <2> QED BY <2>1, <2>2
<1> QED BY <1>3, <1>4, <1>5, <1>6, <1>7 DEF Next

\* Where no file is, nothing is.
LEMMA NothingLeftInvariant == Spec => []NothingLeft
<1>1. Init => NothingLeft
  BY FileTags DEF Init, NothingLeft
<1>2. NothingLeft /\ StoreInv /\ [Next]_vars => NothingLeft'
  <2> SUFFICES ASSUME NothingLeft, StoreInv, [Next]_vars PROVE NothingLeft'
    OBVIOUS
  <2>1. CASE UNCHANGED disk
    BY <2>1 DEF NothingLeft
  <2>2. ASSUME NEW id \in Id, NEW f, f = NoFile \/ f.st # "none", disk' = [disk EXCEPT ![id] = f]
        PROVE  NothingLeft'
    BY <2>2 DEF NothingLeft, StoreInv, TypeOK
  <2> QED BY <2>1, <2>2, DiskStep, FileTags
<1> QED BY <1>1, <1>2, StoreInvariant, PTL DEF Spec

\* A create that throws has changed nothing: the map is as it was, and the
\* store file the constructor had already written is gone again.
THEOREM RefusalIsClean == Spec => RefusedCreateLeavesNoTrace
<1>1. StoreInv /\ NothingLeft /\ [Next]_vars
        => [ret'.op = "create" /\ ret'.val = "throw" => UNCHANGED <<masterWalletMap, disk>>]_vars
  <2> SUFFICES ASSUME StoreInv, NothingLeft, Next, ret'.op = "create", ret'.val = "throw"
               PROVE  UNCHANGED <<masterWalletMap, disk>>
    BY DEF vars
  <2>1. PICK id \in Id : Create(id)
    <3>1. ~Start /\ ~Stop /\ ~GetAllMasterWallets
      BY DEF Start, Stop, GetAllMasterWallets, Silent, Ret
    <3>2. \A id \in Id : /\ ~CrashInSave(id) /\ \A k \in Key : ~CrashInCreate(id, HDAccount(k))
                         /\ ~GetMasterWallet(id) /\ ~DestroyWallet(id)
      BY DEF CrashInSave, CrashInCreate, Crash, GetMasterWallet, DestroyWallet, Silent, Ret
    <3> QED BY <3>1, <3>2, WalletStep DEF Next
  <2>2. UNCHANGED masterWalletMap
    <3>1. PICK a \in Account, coins \in Seq(Chain), op \in {"create", "import"} :
             \/ Throw(op, id) \/ AlreadyExist(op, id) \/ CheckRedundantThrows(op, id, a)
             \/ Insert(id, a) \/ InsertFromKeystore(id, a, coins)
      BY <2>1, CreateIsCreateStep
    <3> QED BY <3>1 DEF Throw, AlreadyExist, CheckRedundantThrows, Insert, InsertFromKeystore, Ret
  <2>3. UNCHANGED disk
    <3>1. CASE UNCHANGED disk
      BY <3>1
    <3>2. ASSUME NEW i \in Id, disk' = [disk EXCEPT ![i] = NoFile], disk[i].st = "none"
          PROVE  UNCHANGED disk
      BY <3>2 DEF NothingLeft, StoreInv, TypeOK
    <3> QED BY <3>1, <3>2, DiskStep
  <2> QED BY <2>2, <2>3
<1> QED BY <1>1, StoreInvariant, NothingLeftInvariant, PTL DEF Spec, RefusedCreateLeavesNoTrace

\* No step but DestroyWallet of a wallet makes its store disappear: neither a
\* refused create nor a crash removes another wallet's file.
THEOREM OnlyDestroyRemoves == Spec => OnlyDestroyForgets
<1>1. StoreInv /\ [Next]_vars
        => [\A id \in Id : disk[id].st # "none" /\ disk'[id].st = "none" =>
                            ret'.op = "destroy" /\ ret'.id = id]_vars
  <2> SUFFICES ASSUME StoreInv, [Next]_vars, NEW id \in Id,
                      disk[id].st # "none", disk'[id].st = "none"
               PROVE  ret'.op = "destroy" /\ ret'.id = id
    OBVIOUS
  <2>1. PICK i \in Id, f \in {NoFile, Torn} \cup {Saved(a, coins) : a \in Account, coins \in Seq(Chain)} :
           /\ disk' = [disk EXCEPT ![i] = f]
           /\ \/ f = NoFile /\ (disk[i].st = "none" \/ (ret'.op = "destroy" /\ ret'.id = i))
              \/ f # NoFile
    <3>1. ~UNCHANGED disk
      OBVIOUS
    <3> QED BY <3>1, DiskStep
  <2>2. i = id /\ disk'[id] = f
    BY <2>1 DEF StoreInv, TypeOK
  <2> QED BY <2>1, <2>2, FileTags
<1> QED BY <1>1, StoreInvariant, PTL DEF Spec, OnlyDestroyForgets
-----------------------------------------------------------------------------
(***************************************************************************)
(* The coin list.  What RemoveSubWalletInfo and InitSubWallets do to a     *)
(* list, read as a set.                                                    *)
(***************************************************************************)
\* RemoveFirst takes one entry out and moves the later ones up.
LEMMA RemoveFirstAt ==
  ASSUME NEW S, NEW s \in Seq(S), NEW c, c \in ToSet(s)
  PROVE  \E j \in 1..Len(s) :
           /\ s[j] = c
           /\ Len(RemoveFirst(s, c)) = Len(s) - 1
           /\ \A i \in 1..Len(s) - 1 : RemoveFirst(s, c)[i] = IF i < j THEN s[i] ELSE s[i + 1]
<1> DEFINE I == {i \in 1..Len(s) : s[i] = c}
           j == Min(I)
<1>1. j \in I
  <2>1. I \in SUBSET Nat /\ I # {}
    BY DEF ToSet
  <2>2. \E x \in I : \A y \in I : x <= y
    BY <2>1, SmallestNat
  <2> QED BY <2>2 DEF Min
<1>2. RemoveFirst(s, c) = SubSeq(s, 1, j - 1) \o SubSeq(s, j + 1, Len(s))
  BY <1>1 DEF RemoveFirst, RemoveAt, SelectInSeq
<1>3. j \in 1..Len(s) /\ s[j] = c
  BY <1>1
<1> HIDE DEF I, j
<1>4. /\ SubSeq(s, 1, j - 1) \in Seq(S) /\ Len(SubSeq(s, 1, j - 1)) = j - 1
      /\ \A i \in 1..j - 1 : SubSeq(s, 1, j - 1)[i] = s[i]
  BY <1>3
<1>5. /\ SubSeq(s, j + 1, Len(s)) \in Seq(S) /\ Len(SubSeq(s, j + 1, Len(s))) = Len(s) - j
      /\ \A i \in 1..Len(s) - j : SubSeq(s, j + 1, Len(s))[i] = s[i + j]
  BY <1>3
<1> DEFINE t == SubSeq(s, 1, j - 1)
           u == SubSeq(s, j + 1, Len(s))
<1>6. /\ t \in Seq(S) /\ Len(t) = j - 1 /\ \A i \in 1..j - 1 : t[i] = s[i]
      /\ u \in Seq(S) /\ Len(u) = Len(s) - j /\ \A i \in 1..Len(s) - j : u[i] = s[i + j]
      /\ RemoveFirst(s, c) = t \o u
  BY <1>2, <1>4, <1>5
<1> HIDE DEF t, u
<1>7. /\ Len(t \o u) = Len(s) - 1
      /\ \A i \in 1..Len(s) - 1 : (t \o u)[i] = IF i < j THEN s[i] ELSE s[i + 1]
  <2>1. Len(t \o u) = Len(t) + Len(u) /\ Len(s) \in Nat /\ j \in Int
    <3>1. Len(t \o u) = Len(t) + Len(u)
      BY <1>6, ConcatProperties
    <3> QED BY <1>3, <3>1
  <2>2. ASSUME NEW i \in 1..Len(s) - 1, i < j PROVE (t \o u)[i] = s[i]
    BY <1>3, <1>6, <2>1, <2>2
  <2>3. ASSUME NEW i \in 1..Len(s) - 1, ~(i < j) PROVE (t \o u)[i] = s[i + 1]
    <3>1. (t \o u)[i] = u[i - (j - 1)] /\ i - (j - 1) \in 1..Len(s) - j
      BY <1>3, <1>6, <2>1, <2>3
    <3>2. (i - (j - 1)) + j = i + 1
      BY <1>3
    <3> QED BY <1>6, <3>1, <3>2
  <2> QED BY <1>6, <2>1, <2>2, <2>3
<1> QED BY <1>3, <1>6, <1>7

\* As sets: no other entry goes, none comes; of a list without duplicates the
\* entry is gone, and the list still has none.
LEMMA RemoveFirstSet ==
  ASSUME NEW S, NEW s \in Seq(S), NEW c
  PROVE  /\ RemoveFirst(s, c) \in Seq(S)
         /\ ToSet(s) \ {c} \subseteq ToSet(RemoveFirst(s, c))
         /\ ToSet(RemoveFirst(s, c)) \subseteq ToSet(s)
         /\ IsInjective(s) => /\ IsInjective(RemoveFirst(s, c))
                              /\ c \notin ToSet(RemoveFirst(s, c))
         /\ Len(RemoveFirst(s, c)) \in {Len(s), Len(s) - 1}
<1> DEFINE t == RemoveFirst(s, c)
<1>1. t \in Seq(S)
  BY RemoveFirstType
<1>2. CASE c \notin ToSet(s)
  <2>1. t = s
    BY <1>2 DEF RemoveFirst, ToSet
  <2> QED BY <1>2, <2>1
<1>3. CASE c \in ToSet(s)
  <2>1. PICK j \in 1..Len(s) :
           /\ s[j] = c /\ Len(t) = Len(s) - 1
           /\ \A i \in 1..Len(s) - 1 : t[i] = IF i < j THEN s[i] ELSE s[i + 1]
    BY <1>3, RemoveFirstAt
  <2> HIDE DEF t
  <2>2. DOMAIN s = 1..Len(s) /\ DOMAIN t = 1..Len(s) - 1 /\ Len(s) \in Nat
    BY <1>1, <2>1
  <2>3. ToSet(t) \subseteq ToSet(s)
    BY <2>1, <2>2 DEF ToSet
  <2>4. ASSUME NEW x \in ToSet(s), x # c PROVE x \in ToSet(t)
    <3>1. PICK i \in 1..Len(s) : s[i] = x
      BY <2>2 DEF ToSet
    <3>2. CASE i < j
      <4>1. i \in 1..Len(s) - 1 /\ t[i] = x
        BY <2>1, <2>2, <3>1, <3>2
      <4> QED BY <2>2, <4>1 DEF ToSet
    <3>3. CASE ~(i < j)
      <4>1. i # j
        BY <2>1, <2>4, <3>1
      <4>2. i - 1 \in 1..Len(s) - 1 /\ ~(i - 1 < j) /\ (i - 1) + 1 = i
        BY <2>2, <3>3, <4>1
      <4>3. t[i - 1] = x
        BY <2>1, <3>1, <4>2
      <4> QED BY <2>2, <4>2, <4>3 DEF ToSet
    <3> QED BY <3>2, <3>3
  <2>5. ASSUME IsInjective(s) PROVE IsInjective(t)
    <3> SUFFICES ASSUME NEW a \in 1..Len(s) - 1, NEW b \in 1..Len(s) - 1, t[a] = t[b] PROVE a = b
      BY <2>2 DEF IsInjective
    <3> DEFINE at(i) == IF i < j THEN i ELSE i + 1
    <3>1. \A i \in 1..Len(s) - 1 : t[i] = s[at(i)] /\ at(i) \in 1..Len(s)
      BY <2>1, <2>2
    <3>2. at(a) = at(b)
      BY <2>2, <2>5, <3>1 DEF IsInjective
    <3> QED BY <3>2
  <2>6. ASSUME IsInjective(s), c \in ToSet(t) PROVE FALSE
    <3>1. PICK i \in 1..Len(s) - 1 : t[i] = c
      BY <2>2, <2>6 DEF ToSet
    <3> DEFINE k == IF i < j THEN i ELSE i + 1
    <3>2. s[k] = s[j] /\ k \in 1..Len(s) /\ k # j
      BY <2>1, <2>2, <3>1
    <3> QED BY <2>2, <2>6, <3>2 DEF IsInjective
  <2> QED BY <1>1, <2>1, <2>3, <2>4, <2>5, <2>6 DEF t
<1> QED BY <1>2, <1>3

\* Appending a chain adds it to the set, and keeps a list free of duplicates.
LEMMA AppendSet ==
  ASSUME NEW S, NEW s \in Seq(S), NEW c \in S
  PROVE  /\ Append(s, c) \in Seq(S)
         /\ ToSet(Append(s, c)) = ToSet(s) \cup {c}
         /\ IsInjective(s) /\ c \notin ToSet(s) => IsInjective(Append(s, c))
<1> DEFINE t == Append(s, c)
<1>1. /\ t \in Seq(S) /\ Len(t) = Len(s) + 1 /\ t[Len(s) + 1] = c
      /\ \A i \in 1..Len(s) : t[i] = s[i]
  BY AppendProperties
<1> HIDE DEF t
<1>2. DOMAIN s = 1..Len(s) /\ DOMAIN t = 1..Len(s) + 1 /\ Len(s) \in Nat
  BY <1>1
<1>3. ToSet(t) \subseteq ToSet(s) \cup {c}
  BY <1>1, <1>2 DEF ToSet
<1>4. ToSet(s) \cup {c} \subseteq ToSet(t)
  <2>1. Len(s) + 1 \in DOMAIN t /\ \A i \in DOMAIN s : i \in DOMAIN t
    BY <1>2
  <2> QED BY <1>1, <1>2, <2>1 DEF ToSet
<1>5. ASSUME IsInjective(s), c \notin ToSet(s) PROVE IsInjective(t)
  <2>1. \A i \in 1..Len(s) : s[i] # c
    BY <1>2, <1>5 DEF ToSet
  <2> QED BY <1>1, <1>2, <1>5, <2>1 DEF IsInjective
<1> QED BY <1>1, <1>3, <1>4, <1>5 DEF t

\* InitSubWallets as sets: what it constructs is on the list, configured and
\* accepted; when it does not throw it constructs all of the list.
LEMMA InitSubWalletsSet ==
  ASSUME NEW a, NEW coins \in Seq(Chain)
  PROVE  /\ InitSubWalletsOK(a, coins)
              <=> \A c \in ToSet(coins) \cap Configured : SubWalletFactoryMethod(a, c)
         /\ InitSubWallets(a, coins) \subseteq ToSet(coins) \cap Configured
         /\ \A c \in InitSubWallets(a, coins) : SubWalletFactoryMethod(a, c)
         /\ InitSubWalletsOK(a, coins) => InitSubWallets(a, coins) = ToSet(coins) \cap Configured
<1>1. InitSubWalletsOK(a, coins)
        <=> \A c \in ToSet(coins) \cap Configured : SubWalletFactoryMethod(a, c)
  BY DEF InitSubWalletsOK, RefusedAt, ToSet
<1>2. InitSubWallets(a, coins) \subseteq ToSet(coins) \cap Configured
  BY DEF InitSubWallets, ToSet
<1>3. ASSUME NEW c \in InitSubWallets(a, coins) PROVE SubWalletFactoryMethod(a, c)
  <2>1. PICK i \in DOMAIN coins : /\ coins[i] = c /\ c \in Configured
                                  /\ \A r \in RefusedAt(a, coins) : i < r
    BY DEF InitSubWallets
  <2>2. i \in Int
    OBVIOUS
  <2>3. i \notin RefusedAt(a, coins)
    BY <2>1, <2>2
  <2> QED BY <2>1, <2>3 DEF RefusedAt
<1>4. ASSUME InitSubWalletsOK(a, coins)
      PROVE  ToSet(coins) \cap Configured \subseteq InitSubWallets(a, coins)
  BY <1>4 DEF InitSubWalletsOK, InitSubWallets, ToSet
<1> QED BY <1>1, <1>2, <1>3, <1>4

\* What RegenerateKey and ResetPassword change of an account takes no sub
\* wallet's key away.
LEMMA FactoryKept ==
  ASSUME NEW a \in Account, NEW c
  PROVE  /\ SubWalletFactoryMethod(a, c) => SubWalletFactoryMethod(Regenerated(a), c)
         /\ SubWalletFactoryMethod(a, c) => SubWalletFactoryMethod([a EXCEPT !.seed = a.xpub], c)
<1>1. SubWalletFactoryMethod(a, c) => SubWalletFactoryMethod(Regenerated(a), c)
  <2> DEFINE xpub == IF a.xpub = NoKey THEN a.seed ELSE a.xpub
             ring == IF IsMultiSign(a) /\ xpub # NoKey
                     THEN Append(RemoveFirst(a.ring, xpub), xpub) ELSE a.ring
             b == Regenerated(a)
  <2>1. xpub \in Key \cup {NoKey} /\ a.ring \in Seq(Key)
    BY DEF Account, Ring
  <2>2. b = [a EXCEPT !.xpub = xpub, !.owner = @ \/ xpub # NoKey,
                      !.eth = IF @ = NoKey THEN a.seed ELSE @,
                      !.btc = @ \/ a.seed # NoKey, !.ring = ring]
    BY DEF Regenerated, Account
  <2>3. IsMultiSign(a) => ring # <<>> /\ Len(ring) > 1
    <3> SUFFICES ASSUME IsMultiSign(a) PROVE ring # <<>> /\ Len(ring) > 1
      OBVIOUS
    <3>1. a.ring # <<>> /\ Len(a.ring) > 1
      BY DEF IsMultiSign, N
    <3>2. RemoveFirst(a.ring, xpub) \in Seq(Key) /\ Len(RemoveFirst(a.ring, xpub)) \in {Len(a.ring), Len(a.ring) - 1}
      BY <2>1, RemoveFirstSet
    <3>3. CASE xpub = NoKey
      BY <3>1, <3>3
    <3>4. CASE xpub # NoKey
      <4> DEFINE t == RemoveFirst(a.ring, xpub)
      <4>1. t \in Seq(Key) /\ Len(t) \in {Len(a.ring), Len(a.ring) - 1} /\ xpub \in Key
        BY <2>1, <3>2, <3>4
      <4>2. ring = Append(t, xpub)
        BY <3>4
      <4> HIDE DEF t, xpub, ring
      <4>3. Len(Append(t, xpub)) = Len(t) + 1
        BY <4>1, AppendProperties
      <4>4. Len(ring) > 1
        BY <2>1, <3>1, <4>1, <4>2, <4>3
      <4> QED BY <4>4
    <3> QED BY <3>3, <3>4
  <2> HIDE DEF xpub, ring
  <2>4. b.ring = ring /\ (a.owner => b.owner) /\ (a.btc => b.btc) /\ (a.eth # NoKey => b.eth # NoKey)
    BY <2>2 DEF Account
  <2>5. IsMultiSign(a) => IsMultiSign(b)
    BY <2>3, <2>4 DEF IsMultiSign, N
  <2> HIDE DEF b
  <2>6. SubWalletFactoryMethod(a, c) => SubWalletFactoryMethod(b, c)
    BY <2>4, <2>5 DEF SubWalletFactoryMethod, SubAccountAllowed, BTCSubWalletAllowed,
                      EthSidechainSubWalletAllowed
  <2> QED BY <2>6 DEF b
<1>2. SubWalletFactoryMethod(a, c) => SubWalletFactoryMethod([a EXCEPT !.seed = a.xpub], c)
  BY DEF Account, SubWalletFactoryMethod, SubAccountAllowed, BTCSubWalletAllowed,
         EthSidechainSubWalletAllowed, IsMultiSign, N
<1> QED BY <1>1, <1>2

(***************************************************************************)
(* What the sub wallets of one entry rest on.  It asks nothing of stores   *)
(* and keystores: even one that InitSubWallets refuses leaves an entry of  *)
(* this form behind.                                                       *)
(***************************************************************************)
SubsListed(w) ==
  \A c \in w.subs : c \in ToSet(w.coins) \cap Configured /\ SubWalletFactoryMethod(w.acct, c)

\* The entries without an object, and the objects the constructors build.
LEMMA FreshListed ==
  /\ SubsListed(Absent) /\ SubsListed(Null)
  /\ \A a, coins : SubsListed(Wallet(a, coins, {}))
  /\ \A a : \A coins \in Seq(Chain) : SubsListed(Wallet(a, coins, InitSubWallets(a, coins)))
<1>1. SubsListed(Absent) /\ SubsListed(Null) /\ \A a, coins : SubsListed(Wallet(a, coins, {}))
  BY DEF SubsListed, Absent, Null, Wallet
<1>2. ASSUME NEW a, NEW coins \in Seq(Chain)
      PROVE  SubsListed(Wallet(a, coins, InitSubWallets(a, coins)))
  <2>1. /\ Wallet(a, coins, InitSubWallets(a, coins)).subs = InitSubWallets(a, coins)
        /\ Wallet(a, coins, InitSubWallets(a, coins)).coins = coins
        /\ Wallet(a, coins, InitSubWallets(a, coins)).acct = a
    BY DEF Wallet
  <2> QED BY <2>1, InitSubWalletsSet DEF SubsListed
<1> QED BY <1>1, <1>2

\* The effect of a call on a wallet object, by fields: nothing, or one new object.
LEMMA WalletEffect ==
  ASSUME TypeOK, NEW id \in Id,
         \/ \E c \in Chain : CreateSubWallet(id, c) \/ DestroySubWallet(id, c)
         \/ RegenerateKey(id) \/ ResetPassword(id) \/ ExportKeystore(id)
  PROVE  LET w == masterWalletMap[id] IN
         /\ Loaded(id)
         /\ \/ UNCHANGED <<running, masterWalletMap, disk>>
            \/ \E v \in Entry :
                 /\ Update(id, v) /\ v.st = "loaded"
                 /\ \/ \E c \in Chain : /\ c \notin w.subs /\ c \in Configured /\ SubWalletFactoryMethod(w.acct, c)
                                        /\ v.subs = w.subs \cup {c} /\ v.coins = Append(w.coins, c) /\ v.acct = w.acct
                    \/ \E c \in Chain : v.subs = w.subs \ {c} /\ v.coins = RemoveFirst(w.coins, c) /\ v.acct = w.acct
                    \/ /\ v.subs = w.subs /\ v.coins = w.coins
                       /\ v.acct \in {w.acct, Regenerated(w.acct), [w.acct EXCEPT !.seed = w.acct.xpub]}
<1> DEFINE w == masterWalletMap[id]
           Changed(v) ==
             \/ \E c \in Chain : /\ c \notin w.subs /\ c \in Configured /\ SubWalletFactoryMethod(w.acct, c)
                                 /\ v.subs = w.subs \cup {c} /\ v.coins = Append(w.coins, c) /\ v.acct = w.acct
             \/ \E c \in Chain : v.subs = w.subs \ {c} /\ v.coins = RemoveFirst(w.coins, c) /\ v.acct = w.acct
             \/ /\ v.subs = w.subs /\ v.coins = w.coins
                /\ v.acct \in {w.acct, Regenerated(w.acct), [w.acct EXCEPT !.seed = w.acct.xpub]}
           Goal == /\ Loaded(id)
                   /\ \/ UNCHANGED <<running, masterWalletMap, disk>>
                      \/ \E v \in Entry : Update(id, v) /\ v.st = "loaded" /\ Changed(v)
<1>1. w \in Entry
  BY DEF TypeOK
<1>2. Loaded(id)
  BY DEF CreateSubWallet, DestroySubWallet, RegenerateKey, ResetPassword, ExportKeystore
<1>3. w.st = "loaded"
  BY <1>2 DEF Loaded
<1>4. ASSUME NEW v, Update(id, v), v.st = "loaded", Changed(v) PROVE Goal
  <2>1. TypeOK'
    BY WalletStepType
  <2>2. masterWalletMap'[id] = v
    BY <1>4 DEF Update, TypeOK
  <2>3. v \in Entry
    BY <2>1, <2>2 DEF TypeOK
  <2> QED BY <1>2, <1>4, <2>3
<1>5. ASSUME NEW c \in Chain, CreateSubWallet(id, c) PROVE Goal
  <2> DEFINE v == [w EXCEPT !.subs = @ \cup {c}, !.coins = Append(@, c)]
  <2>1. \/ UNCHANGED <<running, masterWalletMap, disk>>
        \/ c \notin w.subs /\ c \in Configured /\ SubWalletFactoryMethod(w.acct, c) /\ Update(id, v)
    BY <1>5 DEF CreateSubWallet
  <2>2. v.subs = w.subs \cup {c} /\ v.coins = Append(w.coins, c) /\ v.acct = w.acct /\ v.st = w.st
    BY <1>1 DEF Entry
  <2> HIDE DEF v, w
  <2> QED BY <1>2, <1>3, <1>4, <2>1, <2>2
<1>6. ASSUME NEW c \in Chain, DestroySubWallet(id, c) PROVE Goal
  <2> DEFINE v == [w EXCEPT !.subs = @ \ {c}, !.coins = RemoveFirst(@, c)]
  <2>1. UNCHANGED <<running, masterWalletMap, disk>> \/ Update(id, v)
    BY <1>6 DEF DestroySubWallet
  <2>2. v.subs = w.subs \ {c} /\ v.coins = RemoveFirst(w.coins, c) /\ v.acct = w.acct /\ v.st = w.st
    BY <1>1 DEF Entry
  <2> HIDE DEF v, w
  <2> QED BY <1>2, <1>3, <1>4, <2>1, <2>2
<1>7. ASSUME RegenerateKey(id) PROVE Goal
  <2> DEFINE v == [w EXCEPT !.acct = Regenerated(w.acct), !.signers = @ \o InitSigners(Regenerated(w.acct))]
  <2>1. Update(id, v)
    BY <1>7 DEF RegenerateKey
  <2>2. v.subs = w.subs /\ v.coins = w.coins /\ v.acct = Regenerated(w.acct) /\ v.st = w.st
    BY <1>1 DEF Entry
  <2> HIDE DEF v, w
  <2> QED BY <1>3, <1>4, <2>1, <2>2
<1>8. ASSUME ResetPassword(id) PROVE Goal
  <2> DEFINE v == [w EXCEPT !.acct.seed = w.acct.xpub]
  <2>1. Update(id, v)
    BY <1>8 DEF ResetPassword
  <2>2. v.subs = w.subs /\ v.coins = w.coins /\ v.acct = [w.acct EXCEPT !.seed = w.acct.xpub] /\ v.st = w.st
    BY <1>1 DEF Entry
  <2> HIDE DEF v, w
  <2> QED BY <1>3, <1>4, <2>1, <2>2
<1>9. ASSUME ExportKeystore(id) PROVE Goal
  BY <1>3, <1>4, <1>9 DEF ExportKeystore
<1> HIDE DEF Goal
<1>10. Goal
  BY <1>5, <1>6, <1>7, <1>8, <1>9
<1> QED BY <1>10 DEF Goal

\* A call on a wallet object keeps its sub wallets listed.
LEMMA WalletStepListed ==
  ASSUME TypeOK, SubWalletsListed, NEW id \in Id,
         \/ \E c \in Chain : CreateSubWallet(id, c) \/ DestroySubWallet(id, c)
         \/ RegenerateKey(id) \/ ResetPassword(id) \/ ExportKeystore(id)
  PROVE  SubWalletsListed'
<1> DEFINE w == masterWalletMap[id]
<1>1. w \in Entry /\ SubsListed(w)
  BY DEF TypeOK, SubWalletsListed, SubsListed
<1>2. w.coins \in Seq(Chain) /\ w.acct \in Account
  BY <1>1 DEF Entry
<1>3. CASE UNCHANGED <<running, masterWalletMap, disk>>
  BY <1>3 DEF SubWalletsListed
<1>4. ASSUME NEW v, Update(id, v), SubsListed(v) PROVE SubWalletsListed'
  <2>1. masterWalletMap'[id] = v /\ \A i \in Id \ {id} : masterWalletMap'[i] = masterWalletMap[i]
    BY <1>4 DEF Update, TypeOK
  <2> QED BY <1>4, <2>1 DEF SubWalletsListed, SubsListed
<1>5. ASSUME NEW v, NEW c \in Chain, c \in Configured, SubWalletFactoryMethod(w.acct, c),
             v.subs = w.subs \cup {c}, v.coins = Append(w.coins, c), v.acct = w.acct
      PROVE  SubsListed(v)
  BY <1>1, <1>2, <1>5, AppendSet DEF SubsListed
<1>6. ASSUME NEW v, NEW c \in Chain,
             v.subs = w.subs \ {c}, v.coins = RemoveFirst(w.coins, c), v.acct = w.acct
      PROVE  SubsListed(v)
  <2>1. ToSet(w.coins) \ {c} \subseteq ToSet(v.coins)
    BY <1>2, <1>6, RemoveFirstSet
  <2> QED BY <1>1, <1>6, <2>1 DEF SubsListed
<1>7. ASSUME NEW v, v.subs = w.subs, v.coins = w.coins,
             v.acct \in {w.acct, Regenerated(w.acct), [w.acct EXCEPT !.seed = w.acct.xpub]}
      PROVE  SubsListed(v)
  <2>1. \A c : SubWalletFactoryMethod(w.acct, c) => SubWalletFactoryMethod(v.acct, c)
    BY <1>2, <1>7, FactoryKept
  <2> QED BY <1>1, <1>7, <2>1 DEF SubsListed
<1> HIDE DEF w
<1> QED BY <1>3, <1>4, <1>5, <1>6, <1>7, WalletEffect DEF w

\* Loading a wallet keeps the sub wallets listed.
LEMMA LoadListed ==
  ASSUME TypeOK, SubWalletsListed, NEW id \in Id
  PROVE  SubsListed(LoadMasterWallet(id))
<1>1. disk[id].coins \in Seq(Chain) /\ SubsListed(masterWalletMap[id])
  BY DEF TypeOK, File, SubWalletsListed, SubsListed
<1>2. SubsListed(Wallet(disk[id].acct, disk[id].coins, InitSubWallets(disk[id].acct, disk[id].coins)))
  BY <1>1, FreshListed
<1>3. \/ LoadMasterWallet(id) = masterWalletMap[id]
      \/ LoadMasterWallet(id)
           = Wallet(disk[id].acct, disk[id].coins, InitSubWallets(disk[id].acct, disk[id].coins))
  BY DEF LoadMasterWallet
<1> QED BY <1>1, <1>2, <1>3

\* Every sub wallet a wallet holds is on its coin list and has its key in the
\* account (CreateSubWallet, InitSubWallets, RegenerateKey), whatever stores and
\* keystores the process was given, damaged coin lists included.
THEOREM SubWalletsAreListed == Spec => []SubWalletsListed
<1>1. Init => SubWalletsListed
  BY FreshListed DEF Init, SubWalletsListed, SubsListed
<1>2. SubWalletsListed /\ TypeOK /\ [Next]_vars => SubWalletsListed'
  <2> SUFFICES ASSUME SubWalletsListed, TypeOK, [Next]_vars PROVE SubWalletsListed'
    OBVIOUS
  <2>1. ASSUME NEW e, masterWalletMap' = e,
               \A i \in Id : e[i] = masterWalletMap[i] \/ SubsListed(e[i])
        PROVE  SubWalletsListed'
    BY <2>1 DEF SubWalletsListed, SubsListed
  <2>2. CASE Start \/ Stop
    BY <2>1, <2>2, FreshListed DEF Start, Stop, LoadMasterWalletID
  <2>3. CASE GetAllMasterWallets
    BY <2>1, <2>3, LoadListed DEF GetAllMasterWallets
  <2>4. ASSUME NEW id \in Id, Create(id) PROVE SubWalletsListed'
    <3>1. PICK a \in Account, coins \in Seq(Chain), op \in {"create", "import"} :
             \/ Throw(op, id) \/ AlreadyExist(op, id) \/ CheckRedundantThrows(op, id, a)
             \/ Insert(id, a) \/ InsertFromKeystore(id, a, coins)
      BY <2>4, CreateIsCreateStep
    <3>2. CASE UNCHANGED masterWalletMap
      BY <3>2 DEF SubWalletsListed
    <3>3. ASSUME NEW e, SubsListed(e), masterWalletMap' = [masterWalletMap EXCEPT ![id] = e]
          PROVE  SubWalletsListed'
      BY <3>3 DEF SubWalletsListed, SubsListed, TypeOK
    <3>4. CASE Insert(id, a) \/ InsertFromKeystore(id, a, coins)
      <4>1. /\ SubsListed(Wallet(a, <<>>, {}))
            /\ SubsListed(Wallet(a, coins, InitSubWallets(a, coins)))
        BY FreshListed
      <4>2. \/ masterWalletMap' = [masterWalletMap EXCEPT ![id] = Wallet(a, <<>>, {})]
            \/ masterWalletMap' = [masterWalletMap EXCEPT ![id] = Wallet(a, coins, InitSubWallets(a, coins))]
        BY <3>4 DEF Insert, InsertFromKeystore
      <4> QED BY <3>3, <4>1, <4>2
    <3> QED BY <3>1, <3>2, <3>4 DEF Throw, AlreadyExist, CheckRedundantThrows
  <2>5. ASSUME NEW id \in Id, CrashInSave(id) \/ \E k \in Key : CrashInCreate(id, HDAccount(k))
        PROVE  SubWalletsListed'
    BY <2>1, <2>5, FreshListed DEF CrashInSave, CrashInCreate, Crash
  <2>6. ASSUME NEW id \in Id, GetMasterWallet(id) PROVE SubWalletsListed'
    BY <2>1, <2>6, LoadListed DEF GetMasterWallet, TypeOK
  <2>7. ASSUME NEW id \in Id, DestroyWallet(id) PROVE SubWalletsListed'
    BY <2>1, <2>7, FreshListed DEF DestroyWallet, TypeOK
  <2>8. CASE UNCHANGED vars
    BY <2>8 DEF vars, SubWalletsListed
  <2> QED BY <2>2, <2>3, <2>4, <2>5, <2>6, <2>7, <2>8, WalletStepListed DEF Next
<1> QED BY <1>1, <1>2, TypeCorrect, PTL DEF Spec
-----------------------------------------------------------------------------
(***************************************************************************)
(* Reloading and destroying sub wallets.  These need to know more of the   *)
(* files a process finds: a list that names a chain twice brings a         *)
(* destroyed sub wallet back, and a keystore that InitSubWallets refuses   *)
(* leaves a wallet with a part of its list.  Neither is written by this    *)
(* program: every file it writes is again of the form assumed here.        *)
(***************************************************************************)
\* No coin list names a chain twice, and the keystores can be loaded.
ListsAsWritten ==
  /\ \A s \in LegacyStore : IsInjective(s.coins)
  /\ \A ks \in Keystore : /\ IsInjective(ks.coins)
                          /\ InitSubWalletsOK(FromKeystore(ks.acct), ks.coins)

\* The object holds every configured chain of its list, once.
LoadsWhole(w) ==
  /\ IsInjective(w.coins)
  /\ InitSubWalletsOK(w.acct, w.coins)
  /\ w.subs = ToSet(w.coins) \cap Configured

CoinListInv ==
  /\ \A id \in Id : masterWalletMap[id].st = "loaded" => LoadsWhole(masterWalletMap[id])
  /\ \A id \in Id : disk[id].st = "ok" => IsInjective(disk[id].coins)

\* The invariant speaks of one entry and one file at a time.
LEMMA CoinListKept ==
  ASSUME CoinListInv,
         \A i \in Id : \/ masterWalletMap'[i] = masterWalletMap[i]
                       \/ masterWalletMap'[i].st = "loaded" => LoadsWhole(masterWalletMap'[i]),
         \A i \in Id : \/ disk'[i] = disk[i]
                       \/ disk'[i].st = "ok" => IsInjective(disk'[i].coins)
  PROVE  CoinListInv'
<1>1. \A i \in Id : masterWalletMap'[i].st = "loaded" => LoadsWhole(masterWalletMap'[i])
  BY DEF CoinListInv
<1>2. \A i \in Id : disk'[i].st = "ok" => IsInjective(disk'[i].coins)
  BY DEF CoinListInv
<1> QED BY <1>1, <1>2 DEF CoinListInv, LoadsWhole

\* The same for a step that replaces one entry together with its file.
LEMMA CoinListReplaced ==
  ASSUME TypeOK, CoinListInv, NEW id \in Id, NEW w, NEW f,
         masterWalletMap' = [masterWalletMap EXCEPT ![id] = w],
         disk' = [disk EXCEPT ![id] = f],
         w.st = "loaded" => LoadsWhole(w),
         f.st = "ok" => IsInjective(f.coins)
  PROVE  CoinListInv'
<1>1. /\ masterWalletMap'[id] = w /\ disk'[id] = f
      /\ \A i \in Id \ {id} : masterWalletMap'[i] = masterWalletMap[i] /\ disk'[i] = disk[i]
  BY DEF TypeOK
<1> QED BY <1>1, CoinListKept

\* An object built from a list without duplicates that InitSubWallets accepts.
LEMMA FreshLoadsWhole ==
  ASSUME NEW a, NEW coins \in Seq(Chain), IsInjective(coins), InitSubWalletsOK(a, coins)
  PROVE  LoadsWhole(Wallet(a, coins, InitSubWallets(a, coins)))
<1>1. /\ Wallet(a, coins, InitSubWallets(a, coins)).subs = InitSubWallets(a, coins)
      /\ Wallet(a, coins, InitSubWallets(a, coins)).coins = coins
      /\ Wallet(a, coins, InitSubWallets(a, coins)).acct = a
  BY DEF Wallet
<1> QED BY <1>1, InitSubWalletsSet DEF LoadsWhole

\* A new wallet has no sub wallet and an empty list.
LEMMA NewLoadsWhole == \A a : LoadsWhole(Wallet(a, <<>>, {})) /\ IsInjective(<<>>)
<1> SUFFICES ASSUME NEW a PROVE LoadsWhole(Wallet(a, <<>>, {})) /\ IsInjective(<<>>)
  OBVIOUS
<1>1. IsInjective(<<>>) /\ ToSet(<<>>) = {} /\ RefusedAt(a, <<>>) = {}
  BY DEF IsInjective, ToSet, RefusedAt
<1>2. /\ Wallet(a, <<>>, {}).coins = <<>> /\ Wallet(a, <<>>, {}).subs = {}
      /\ Wallet(a, <<>>, {}).acct = a
  BY DEF Wallet
<1> QED BY <1>1, <1>2 DEF LoadsWhole, InitSubWalletsOK

\* A call on a wallet object keeps its list whole.
LEMMA WalletStepCoinList ==
  ASSUME TypeOK, CoinListInv, NEW id \in Id,
         \/ \E c \in Chain : CreateSubWallet(id, c) \/ DestroySubWallet(id, c)
         \/ RegenerateKey(id) \/ ResetPassword(id) \/ ExportKeystore(id)
  PROVE  CoinListInv'
<1> DEFINE w == masterWalletMap[id]
<1>1. w \in Entry /\ Loaded(id)
  BY WalletEffect DEF TypeOK
<1>2. w.coins \in Seq(Chain) /\ w.acct \in Account /\ LoadsWhole(w)
  BY <1>1 DEF Entry, Loaded, CoinListInv
<1>3. /\ IsInjective(w.coins) /\ w.subs = ToSet(w.coins) \cap Configured
      /\ \A c \in ToSet(w.coins) \cap Configured : SubWalletFactoryMethod(w.acct, c)
  BY <1>2, InitSubWalletsSet DEF LoadsWhole
<1>4. ASSUME NEW v, IsInjective(v.coins), v.coins \in Seq(Chain),
             v.subs = ToSet(v.coins) \cap Configured,
             \A c \in ToSet(v.coins) \cap Configured : SubWalletFactoryMethod(v.acct, c)
      PROVE  LoadsWhole(v)
  BY <1>4, InitSubWalletsSet DEF LoadsWhole
<1>5. CASE UNCHANGED <<running, masterWalletMap, disk>>
  BY <1>5, CoinListKept
<1>6. ASSUME NEW v, Update(id, v), LoadsWhole(v) PROVE CoinListInv'
  <2>1. Saved(v.acct, v.coins).coins = v.coins
    BY DEF Saved
  <2>2. IsInjective(Saved(v.acct, v.coins).coins)
    BY <1>6, <2>1 DEF LoadsWhole
  <2> QED BY <1>6, <2>2, CoinListReplaced DEF Update
<1>7. ASSUME NEW v, NEW c \in Chain, c \notin w.subs, c \in Configured, SubWalletFactoryMethod(w.acct, c),
             v.subs = w.subs \cup {c}, v.coins = Append(w.coins, c), v.acct = w.acct
      PROVE  LoadsWhole(v)
  <2>1. c \notin ToSet(w.coins)
    BY <1>3, <1>7
  <2>2. v.coins \in Seq(Chain) /\ IsInjective(v.coins) /\ ToSet(v.coins) = ToSet(w.coins) \cup {c}
    BY <1>2, <1>3, <1>7, <2>1, AppendSet
  <2> QED BY <1>3, <1>4, <1>7, <2>2
<1>8. ASSUME NEW v, NEW c \in Chain,
             v.subs = w.subs \ {c}, v.coins = RemoveFirst(w.coins, c), v.acct = w.acct
      PROVE  LoadsWhole(v)
  <2>1. v.coins \in Seq(Chain) /\ IsInjective(v.coins) /\ ToSet(v.coins) = ToSet(w.coins) \ {c}
    BY <1>2, <1>3, <1>8, RemoveFirstSet
  <2> QED BY <1>3, <1>4, <1>8, <2>1
<1>9. ASSUME NEW v, v.subs = w.subs, v.coins = w.coins,
             v.acct \in {w.acct, Regenerated(w.acct), [w.acct EXCEPT !.seed = w.acct.xpub]}
      PROVE  LoadsWhole(v)
  <2>1. \A c : SubWalletFactoryMethod(w.acct, c) => SubWalletFactoryMethod(v.acct, c)
    BY <1>2, <1>9, FactoryKept
  <2> QED BY <1>2, <1>3, <1>4, <1>9, <2>1
<1> HIDE DEF w
<1> QED BY <1>5, <1>6, <1>7, <1>8, <1>9, WalletEffect DEF w

\* Loading a wallet gives it its whole list.
LEMMA LoadLoadsWhole ==
  ASSUME TypeOK, CoinListInv, NEW id \in Id
  PROVE  \/ LoadMasterWallet(id) = masterWalletMap[id]
         \/ LoadsWhole(LoadMasterWallet(id))
<1>1. disk[id].coins \in Seq(Chain) /\ (disk[id].st = "ok" => IsInjective(disk[id].coins))
  BY DEF TypeOK, File, CoinListInv
<1>2. CASE disk[id].st = "ok" /\ InitSubWalletsOK(disk[id].acct, disk[id].coins)
  <2>1. LoadsWhole(Wallet(disk[id].acct, disk[id].coins, InitSubWallets(disk[id].acct, disk[id].coins)))
    BY <1>1, <1>2, FreshLoadsWhole
  <2> QED BY <1>2, <2>1 DEF LoadMasterWallet
<1>3. CASE ~(disk[id].st = "ok" /\ InitSubWalletsOK(disk[id].acct, disk[id].coins))
  BY <1>3 DEF LoadMasterWallet
<1> QED BY <1>2, <1>3

\* Every object holds its whole list, once, and every complete file has a list
\* without duplicates.
LEMMA CoinListInvariant ==
  ASSUME ListsAsWritten
  PROVE  Spec => []CoinListInv
<1>1. Init => CoinListInv
  <2> SUFFICES ASSUME Init PROVE CoinListInv
    OBVIOUS
  <2>1. \A id \in Id : masterWalletMap[id].st # "loaded"
    BY Tags DEF Init
  <2>2. ASSUME NEW id \in Id, disk[id].st = "ok" PROVE IsInjective(disk[id].coins)
    <3>1. PICK s \in LegacyStore : disk[id] = Saved(s.acct, s.coins)
      BY <2>2, FileTags DEF Init
    <3>2. disk[id].coins = s.coins
      BY <3>1 DEF Saved
    <3> QED BY <3>2 DEF ListsAsWritten
  <2> QED BY <2>1, <2>2 DEF CoinListInv
<1>2. CoinListInv /\ TypeOK /\ [Next]_vars => CoinListInv'
  <2> SUFFICES ASSUME CoinListInv, TypeOK, [Next]_vars PROVE CoinListInv'
    OBVIOUS
  <2>1. CASE Start \/ Stop
    BY <2>1, Tags, CoinListKept DEF Start, Stop, LoadMasterWalletID
  <2>2. CASE GetAllMasterWallets
    BY <2>2, LoadLoadsWhole, CoinListKept DEF GetAllMasterWallets
  <2>3. ASSUME NEW id \in Id, Create(id) PROVE CoinListInv'
    <3>1. ASSUME NEW a \in Account, NEW op, Throw(op, id) \/ AlreadyExist(op, id) PROVE CoinListInv'
      BY <3>1, CoinListKept DEF Throw, AlreadyExist
    <3>2. ASSUME NEW a \in Account, NEW op, CheckRedundantThrows(op, id, a) PROVE CoinListInv'
      <4>1. UNCHANGED masterWalletMap /\ disk' = [disk EXCEPT ![id] = NoFile]
        BY <3>2 DEF CheckRedundantThrows
      <4>2. \A i \in Id : disk'[i] = disk[i] \/ disk'[i].st # "ok"
        BY <4>1, FileTags DEF TypeOK
      <4> QED BY <4>1, <4>2, CoinListKept
    <3>3. ASSUME NEW a \in Account, Insert(id, a) PROVE CoinListInv'
      <4>1. LoadsWhole(Wallet(a, <<>>, {})) /\ IsInjective(Saved(a, <<>>).coins)
        BY NewLoadsWhole DEF Saved
      <4> QED BY <3>3, <4>1, CoinListReplaced DEF Insert
    <3>4. ASSUME NEW ks \in Keystore, InsertFromKeystore(id, FromKeystore(ks.acct), ks.coins)
          PROVE  CoinListInv'
      <4> DEFINE a == FromKeystore(ks.acct)
                 w == Wallet(a, ks.coins, InitSubWallets(a, ks.coins))
                 f == Saved(a, ks.coins)
      <4>1. ks.coins \in Seq(Chain) /\ IsInjective(ks.coins) /\ InitSubWalletsOK(a, ks.coins)
        BY LegacyAssumption DEF ListsAsWritten
      <4>2. LoadsWhole(w)
        BY <4>1, FreshLoadsWhole
      <4>3. IsInjective(f.coins)
        BY <4>1 DEF Saved
      <4>4. /\ masterWalletMap' = [masterWalletMap EXCEPT ![id] = w]
            /\ disk' = [disk EXCEPT ![id] = f]
        BY <3>4 DEF InsertFromKeystore
      <4> HIDE DEF w, f
      <4> QED BY <4>2, <4>3, <4>4, CoinListReplaced
    <3> QED BY <2>3, <3>1, <3>2, <3>3, <3>4, CreateCases
  <2>4. ASSUME NEW id \in Id, CrashInSave(id) \/ \E k \in Key : CrashInCreate(id, HDAccount(k))
        PROVE  CoinListInv'
    <3>1. \A a : Saved(a, <<>>).coins = <<>> /\ IsInjective(Saved(a, <<>>).coins)
      BY NewLoadsWhole DEF Saved
    <3>2. PICK f : Crash(id, f) /\ (f.st = "ok" => IsInjective(f.coins))
      BY <2>4, <3>1, FileTags DEF CrashInSave, CrashInCreate
    <3>3. /\ \A i \in Id : masterWalletMap'[i].st # "loaded"
          /\ \A i \in Id : disk'[i] = disk[i] \/ (disk'[i].st = "ok" => IsInjective(disk'[i].coins))
      BY <3>2, Tags DEF Crash, TypeOK
    <3> QED BY <3>3, CoinListKept
  <2>5. ASSUME NEW id \in Id, GetMasterWallet(id) PROVE CoinListInv'
    BY <2>5, LoadLoadsWhole, CoinListKept DEF GetMasterWallet, TypeOK
  <2>6. ASSUME NEW id \in Id, DestroyWallet(id) PROVE CoinListInv'
    <3>1. CASE masterWalletMap[id].st = "loaded"
      BY <2>6, <3>1, Tags, CoinListReplaced DEF DestroyWallet
    <3>2. CASE masterWalletMap[id].st # "loaded"
      BY <2>6, <3>2, CoinListKept DEF DestroyWallet
    <3> QED BY <3>1, <3>2
  <2>7. CASE UNCHANGED vars
    BY <2>7, CoinListKept DEF vars
  <2> QED BY <2>1, <2>2, <2>3, <2>4, <2>5, <2>6, <2>7, WalletStepCoinList DEF Next
<1> QED BY <1>1, <1>2, TypeCorrect, PTL DEF Spec

\* The next process can load every wallet this one has loaded, and gets the
\* same sub wallets (InitSubWallets after any sequence of CreateSubWallet,
\* DestroySubWallet, RegenerateKey and ResetPassword).
THEOREM LoadedIsReloadable ==
  ASSUME ListsAsWritten
  PROVE  Spec => []Reloadable
<1>1. CoinListInv /\ StoreInv => Reloadable
  <2> SUFFICES ASSUME CoinListInv, StoreInv, NEW id \in Id, masterWalletMap[id].st = "loaded"
               PROVE  /\ disk[id].st = "ok"
                      /\ InitSubWalletsOK(disk[id].acct, disk[id].coins)
                      /\ InitSubWallets(disk[id].acct, disk[id].coins) = masterWalletMap[id].subs
    BY DEF Reloadable
  <2> DEFINE w == masterWalletMap[id]
  <2>1. w.coins \in Seq(Chain) /\ LoadsWhole(w) /\ disk[id] = Saved(w.acct, w.coins)
    BY DEF CoinListInv, StoreInv, TypeOK, Entry, MemoryIsSaved
  <2>2. disk[id].st = "ok" /\ disk[id].acct = w.acct /\ disk[id].coins = w.coins
    BY <2>1 DEF Saved
  <2> HIDE DEF w
  <2>3. InitSubWallets(w.acct, w.coins) = w.subs
    BY <2>1, InitSubWalletsSet DEF LoadsWhole
  <2> QED BY <2>1, <2>2, <2>3 DEF LoadsWhole, w
<1> QED BY <1>1, CoinListInvariant, StoreInvariant, PTL

\* A sub wallet that DestroySubWallet removed is on no list any more: the next
\* process does not bring it back.
THEOREM DestroyIsDurable ==
  ASSUME ListsAsWritten
  PROVE  Spec => DestroyedSubWalletStaysAway
<1>1. CoinListInv /\ TypeOK /\ [Next]_vars
        => [\A id \in Id : ret'.op = "destroySub" /\ ret'.val = "done" /\ ret'.id = id =>
              \A c \in masterWalletMap[id].subs \ masterWalletMap'[id].subs :
                c \notin ToSet(disk'[id].coins)]_vars
  <2> SUFFICES ASSUME CoinListInv, TypeOK, Next, NEW id \in Id,
                      ret'.op = "destroySub", ret'.val = "done", ret'.id = id,
                      NEW c \in masterWalletMap[id].subs \ masterWalletMap'[id].subs
               PROVE  c \notin ToSet(disk'[id].coins)
    BY DEF vars
  <2>1. PICK i \in Id, d \in Chain : DestroySubWallet(i, d)
    <3>1. ~Start /\ ~Stop /\ ~GetAllMasterWallets
      BY DEF Start, Stop, GetAllMasterWallets, Silent, Ret
    <3>2. \A i \in Id : /\ ~CrashInSave(i) /\ \A k \in Key : ~CrashInCreate(i, HDAccount(k))
                        /\ ~GetMasterWallet(i) /\ ~DestroyWallet(i)
      BY DEF CrashInSave, CrashInCreate, Crash, GetMasterWallet, DestroyWallet, Silent, Ret
    <3>3. \A i \in Id : ~Create(i)
      <4> SUFFICES ASSUME NEW i \in Id, Create(i) PROVE FALSE
        OBVIOUS
      <4>1. PICK a \in Account, coins \in Seq(Chain), op \in {"create", "import"} :
               \/ Throw(op, i) \/ AlreadyExist(op, i) \/ CheckRedundantThrows(op, i, a)
               \/ Insert(i, a) \/ InsertFromKeystore(i, a, coins)
        BY CreateIsCreateStep
      <4> QED BY <4>1 DEF Throw, AlreadyExist, CheckRedundantThrows, Insert, InsertFromKeystore, Ret
    <3>4. \A i \in Id : /\ \A d \in Chain : ~CreateSubWallet(i, d)
                        /\ ~RegenerateKey(i) /\ ~ResetPassword(i) /\ ~ExportKeystore(i)
      <4>1. \A i, op, val : Ret(op, i, val).op = op
        BY DEF Ret
      <4>2. ASSUME NEW i \in Id, NEW d \in Chain, CreateSubWallet(i, d) PROVE FALSE
        <5>1. \E val : ret' = Ret("createSub", i, val)
          BY <4>2 DEF CreateSubWallet
        <5> QED BY <4>1, <5>1
      <4>3. ASSUME NEW i \in Id, RegenerateKey(i) \/ ResetPassword(i) \/ ExportKeystore(i) PROVE FALSE
        <5>1. ret' = Ret("other", i, "done")
          BY <4>3 DEF RegenerateKey, ResetPassword, ExportKeystore
        <5> QED BY <4>1, <5>1
      <4> QED BY <4>2, <4>3
    <3> QED BY <3>1, <3>2, <3>3, <3>4 DEF Next
  <2> DEFINE w == masterWalletMap[i]
             v == [w EXCEPT !.subs = @ \ {d}, !.coins = RemoveFirst(@, d)]
  <2>2. w \in Entry
    BY DEF TypeOK
  <2>3. Update(i, v) /\ ret' = Ret("destroySub", i, "done")
    <3>1. \A val : Ret("destroySub", i, val).val = val
      BY DEF Ret
    <3>2. \/ ret' = Ret("destroySub", i, "throw")
          \/ Update(i, v) /\ ret' = Ret("destroySub", i, "done")
      BY <2>1 DEF DestroySubWallet
    <3> QED BY <3>1, <3>2
  <2>4. i = id
    <3>1. Ret("destroySub", i, "done").id = i
      BY DEF Ret
    <3> QED BY <2>3, <3>1
  <2>5. v.subs = w.subs \ {d} /\ v.coins = RemoveFirst(w.coins, d)
    BY <2>2 DEF Entry
  <2>6. Loaded(i)
    BY <2>1 DEF DestroySubWallet
  <2>7. w.coins \in Seq(Chain) /\ IsInjective(w.coins)
    BY <2>2, <2>6 DEF Entry, Loaded, CoinListInv, LoadsWhole
  <2> HIDE DEF v
  <2>8. masterWalletMap'[id] = v /\ disk'[id].coins = v.coins
    BY <2>3, <2>4 DEF Update, TypeOK, Saved
  <2>9. c = d
    BY <2>4, <2>5, <2>8
  <2> QED BY <2>5, <2>7, <2>8, <2>9, RemoveFirstSet
<1> QED BY <1>1, CoinListInvariant, TypeCorrect, PTL DEF Spec, DestroyedSubWalletStaysAway
=============================================================================
