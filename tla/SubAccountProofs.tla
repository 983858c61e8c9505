-------------------------- MODULE SubAccountProofs --------------------------
(***************************************************************************)
(* A transaction counts as signed only when M different cosigners signed   *)
(* it, cosigners have the same addresses, and what was created from the    *)
(* caches can be signed: for any set of wallets, any ring and any number   *)
(* of copies in circulation.                                               *)
(*                                                                         *)
(* VerifySignature only counts, so the first invariant is about every      *)
(* copy, the half signed ones included: the signatures of a program are by *)
(* different keys of its script.  The second is about the caches, which    *)
(* hold the scripts of the indices from 0 on, in order, and about the      *)
(* programs of a copy, which are signed together.                          *)
(***************************************************************************)
EXTENDS SubAccount, FiniteSetTheorems, SequenceTheorems, TLAPS

\* The signatures of a program are by keys of its script, no key twice.
DistinctSigners(c, sigs) == sigs \in Seq(c.keys) /\ IsInjective(sigs)

\* Every program of every copy in circulation.
SignaturesDistinct == \A tx \in txs : \A c \in DOMAIN tx : DistinctSigners(c, tx[c])

\* A sequence without repetition has as many elements as it is long.
LEMMA InjectiveLength ==
  ASSUME NEW S, NEW s \in Seq(S), IsInjective(s)
  PROVE  Cardinality(ToSet(s)) = Len(s)
<1>1. s \in Bijection(1..Len(s), ToSet(s))
  <2>1. DOMAIN s = 1..Len(s) /\ s \in [1..Len(s) -> ToSet(s)]
    BY DEF ToSet
  <2>2. \A t \in ToSet(s) : \E i \in 1..Len(s) : s[i] = t
    BY <2>1 DEF ToSet
  <2>. QED BY <2>1, <2>2 DEF Bijection, Injection, Surjection, IsInjective
<1>2. IsFiniteSet(1..Len(s)) /\ Cardinality(1..Len(s)) = Len(s)
  <2>1. 1 \in Int /\ Len(s) \in Int /\ Len(s) >= 0
    OBVIOUS
  <2>2. /\ IsFiniteSet(1..Len(s))
        /\ Cardinality(1..Len(s)) = IF 1 > Len(s) THEN 0 ELSE Len(s) - 1 + 1
    BY ONLY <2>1, FS_Interval, Zenon
  <2>. QED BY <2>1, <2>2
<1>. QED BY <1>1, <1>2, FS_Bijection DEF ExistsBijection

\* One more signature, by a key that has not signed yet.
LEMMA SignKeepsDistinct ==
  ASSUME NEW w, NEW tx, NEW c \in DOMAIN tx,
         DistinctSigners(c, tx[c]), ~Refused(w, tx, c)
  PROVE  DistinctSigners(c, SignedBy(w, tx)[c])
<1> DEFINE k == CHOOSE x \in FindPrivateKey(w, c) : TRUE
<1>1. k \in FindPrivateKey(w, c)
  BY DEF Refused
<1>2. k \in c.keys
  BY <1>1 DEF FindPrivateKey
<1>3. \A i \in DOMAIN tx[c] : tx[c][i] # k
  BY <1>1 DEF Refused
<1>4. SignedBy(w, tx)[c] = Append(tx[c], k)
  BY DEF SignedBy
<1> HIDE DEF k
<1> DEFINE s == tx[c]
           t == Append(s, k)
<1>5. s \in Seq(c.keys) /\ IsInjective(s)
  BY DEF DistinctSigners
<1>6. /\ t \in Seq(c.keys)
      /\ DOMAIN s = 1..Len(s) /\ DOMAIN t = 1..(Len(s) + 1) /\ Len(s) \in Nat
      /\ \A i \in 1..Len(s) : t[i] = s[i]
      /\ t[Len(s) + 1] = k
  BY <1>2, <1>5
<1>7. \A i \in DOMAIN s : s[i] # k
  BY <1>3
<1> HIDE DEF s, t
<1>8. IsInjective(t)
  BY <1>5, <1>6, <1>7 DEF IsInjective
<1>. QED BY <1>4, <1>6, <1>8 DEF DistinctSigners, s, t

\* Every step keeps the signatures of every copy distinct.
LEMMA NextKeepsDistinct ==
  ASSUME SignaturesDistinct, [Next]_vars
  PROVE  SignaturesDistinct'
<1>1. ASSUME UNCHANGED txs PROVE SignaturesDistinct'
  BY <1>1 DEF SignaturesDistinct
<1>2. ASSUME NEW w \in Wallet, NEW index, NEW count, NEW internal,
             GetAddresses(w, index, count, internal) \/ GetCID(w, index, count, internal)
      PROVE  SignaturesDistinct'
  BY <1>1, <1>2 DEF GetAddresses, GetCID, GetRange, Throw
<1>3. ASSUME NEW w \in Wallet, NEW S, NEW change, CreateTransaction(w, S, change)
      PROVE  SignaturesDistinct'
  <2>1. \A c \in DOMAIN NewTx(S) : NewTx(S)[c] = <<>>
    BY DEF NewTx
  <2>2. \A c \in DOMAIN NewTx(S) : DistinctSigners(c, NewTx(S)[c])
    <3>1. \A T : <<>> \in Seq(T) /\ DOMAIN <<>> = {}
      OBVIOUS
    <3>2. IsInjective(<<>>)
      BY <3>1, Zenon DEF IsInjective
    <3>. QED BY <2>1, <3>1, <3>2 DEF DistinctSigners
  <2>3. CASE Throw("create", w)
    BY <1>1, <2>3 DEF Throw
  <2>4. CASE txs' = txs \cup {NewTx(S)}
    BY <2>2, <2>4 DEF SignaturesDistinct
  <2>. QED BY <1>3, <2>3, <2>4 DEF CreateTransaction
<1>4. ASSUME NEW w \in Wallet, NEW tx \in txs, SignTransaction(w, tx)
      PROVE  SignaturesDistinct'
  <2>1. CASE UNCHANGED txs
    BY <1>1, <2>1
  <2>2. CASE txs' = txs \cup {SignedBy(w, tx)} /\ \A c \in DOMAIN tx : ~Refused(w, tx, c)
    <3>1. DOMAIN SignedBy(w, tx) = DOMAIN tx
      BY DEF SignedBy
    <3>2. \A c \in DOMAIN SignedBy(w, tx) : DistinctSigners(c, SignedBy(w, tx)[c])
      BY <2>2, <3>1, SignKeepsDistinct DEF SignaturesDistinct
    <3>. QED BY <2>2, <3>2 DEF SignaturesDistinct
  <2>. QED BY <1>4, <2>1, <2>2 DEF SignTransaction, Throw
<1>5. ASSUME NEW w \in Wallet, Restart(w) PROVE SignaturesDistinct'
  BY <1>1, <1>5 DEF Restart
<1>6. CASE UNCHANGED vars
  BY <1>1, <1>6 DEF vars
<1>. QED BY <1>2, <1>3, <1>4, <1>5, <1>6 DEF Next

\* The signatures of a program are by different keys of its script, in every copy
\* of a transaction: SubAccount::SignTransaction refuses a second signature.
THEOREM NoKeySignsTwice == Spec => []SignaturesDistinct
<1>1. Init => SignaturesDistinct
  BY DEF Init, SignaturesDistinct
<1>2. SignaturesDistinct /\ [Next]_vars => SignaturesDistinct'
  BY NextKeepsDistinct
<1>. QED BY <1>1, <1>2, PTL DEF Spec

\* A transaction that Transaction::IsSigned accepts carries, on every multi-sign
\* program, signatures of as many different keys as the script requires.
THEOREM SignedByQuorum == Spec => []QuorumBehindSigned
<1>1. SignaturesDistinct => QuorumBehindSigned
  <2> SUFFICES ASSUME SignaturesDistinct, NEW tx \in txs, IsSigned(tx),
                      NEW c \in DOMAIN tx, c.type = "multi"
               PROVE  Cardinality(ToSet(tx[c])) >= c.m
    BY DEF QuorumBehindSigned
  <2>1. Len(tx[c]) >= c.m
    BY DEF IsSigned, VerifySignature
  <2>2. tx[c] \in Seq(c.keys) /\ IsInjective(tx[c])
    BY DEF SignaturesDistinct, DistinctSigners
  <2>3. Cardinality(ToSet(tx[c])) = Len(tx[c])
    BY <2>2, InjectiveLength
  <2>. QED BY <2>1, <2>3
<1>. QED BY <1>1, NoKeySignsTwice, PTL
(***************************************************************************)
(* The caches.  An account pushes the signers once, but for the accounts   *)
(* that lack the Bitcoin key; the i-th script a wallet caches is   *)
(* the one derived at index i - 1 with as many signers as it had then.     *)
(***************************************************************************)
PushCounts(w) == IF Kind[w] \in {"xprv", "legacy"} THEN 1..MaxPushes ELSE {1}

\* A script that the wallet derives at an index of a chain.
DerivedAt(w, chain, i, code) ==
  IF MultiSign(w) THEN \E n \in PushCounts(w) : code = MultiCode(chain, i, n)
  ELSE code = StandardCode(Key(w, "44", chain, i))

\* The scripts of the addresses 0, 1, ... of a chain, in that order.
InOrder(w, chain, s) ==
  /\ s \in Seq(Code) /\ Len(s) <= U32
  /\ \A i \in 1..Len(s) : DerivedAt(w, chain, i - 1, s[i])

\* Which accounts have the Bitcoin key: those made from a mnemonic from the start.
HaveKeys == bitcoinKey \subseteq Wallet /\ \A w \in Wallet : Kind[w] = "mnemonic" => w \in bitcoinKey

CacheInv ==
  /\ cache \in [Wallet -> [Chain -> Seq(Code)]]
  /\ pushes \in [Wallet -> 1..MaxPushes] /\ HaveKeys
  /\ \A w \in Wallet : pushes[w] \in PushCounts(w)
  /\ \A w \in Wallet, chain \in Chain : InOrder(w, chain, cache[w][chain])

(***************************************************************************)
(* The copies in circulation.  The programs of one transaction need the    *)
(* same number of signatures and carry the same number of them.            *)
(***************************************************************************)
ScriptOK(c) ==
  /\ c \in Code
  /\ c.type = "standard" => c.m = 1 /\ \E k \in PubKey : c.keys = {k}

ProgramsInv ==
  \A tx \in txs :
    /\ IsFiniteSet(DOMAIN tx)
    /\ \A c \in DOMAIN tx : ScriptOK(c) /\ tx[c] \in Seq(PubKey) /\ Len(tx[c]) <= c.m
    /\ \A c, d \in DOMAIN tx : c.m = d.m /\ Len(tx[c]) = Len(tx[d])

\* A script derived at an index of the range is a script, of keys of that index.
LEMMA DerivedScript ==
  ASSUME NEW w \in Wallet, NEW chain \in Chain, NEW i \in 0..U32, NEW code,
         DerivedAt(w, chain, i, code)
  PROVE  /\ ScriptOK(code)
         /\ code.type = IF MultiSign(w) THEN "multi" ELSE "standard"
         /\ code.m = IF MultiSign(w) THEN M ELSE 1
         /\ \A k \in code.keys : k.index = i /\ k.chain = chain
<1>1. ASSUME NEW v \in Wallet \cup Cosigner, NEW path \in Path
      PROVE  /\ Key(v, path, chain, i) \in PubKey
             /\ Key(v, path, chain, i).index = i /\ Key(v, path, chain, i).chain = chain
  BY DEF Key, PubKey
<1>2. RingPath \in Path /\ "44" \in Path /\ M \in Nat /\ MaxPushes \in Nat
  BY RingAssumption, NumberAssumption DEF Path
<1>3. CASE MultiSign(w)
  <2>1. PICK n \in PushCounts(w) : code = MultiCode(chain, i, n)
    BY <1>3 DEF DerivedAt
  <2>2. n \in Nat
    BY <1>2, <2>1 DEF PushCounts
  <2> DEFINE K == {Key(v, RingPath, chain, i) : v \in Cosigner}
  <2>3. K \in SUBSET PubKey /\ \A k \in K : k.index = i /\ k.chain = chain
    BY <1>1, <1>2
  <2>4. code = [type |-> "multi", m |-> M, keys |-> K, copies |-> n]
    BY <2>1 DEF MultiCode
  <2> HIDE DEF K
  <2>. QED BY <1>2, <1>3, <2>2, <2>3, <2>4 DEF ScriptOK, Code
<1>4. CASE ~MultiSign(w)
  <2> DEFINE k == Key(w, "44", chain, i)
  <2>1. k \in PubKey /\ k.index = i /\ k.chain = chain
    BY <1>1, <1>2
  <2>2. code = [type |-> "standard", m |-> 1, keys |-> {k}, copies |-> 1]
    BY <1>4 DEF DerivedAt, StandardCode
  <2> HIDE DEF k
  <2>. QED BY <1>4, <2>1, <2>2 DEF ScriptOK, Code
<1>. QED BY <1>3, <1>4

\* The script derived now is the one of its index.
LEMMA CodeAtDerived ==
  ASSUME CacheInv, NEW w \in Wallet, NEW chain \in Chain, NEW i \in 0..U32
  PROVE  DerivedAt(w, chain, i, CodeAt(w, chain, i))
BY DEF CacheInv, DerivedAt, CodeAt

\* Deriving extends the cache up to the length asked for and keeps its order.
LEMMA DerivedInOrder ==
  ASSUME CacheInv, NEW w \in Wallet, NEW chain \in Chain, NEW n \in 0..U32
  PROVE  /\ InOrder(w, chain, Derived(w, chain, n))
         /\ Len(Derived(w, chain, n)) >= n
         /\ Len(Derived(w, chain, n)) >= Len(cache[w][chain])
         /\ \A i \in 1..Len(cache[w][chain]) : Derived(w, chain, n)[i] = cache[w][chain][i]
<1> DEFINE have == cache[w][chain]
           more == IF n > Len(have) THEN n - Len(have) ELSE 0
           new == [i \in 1..more |-> CodeAt(w, chain, Len(have) + i - 1)]
           s == Derived(w, chain, n)
<1>1. have \in Seq(Code) /\ Len(have) \in Nat /\ Len(have) <= U32 /\ U32 \in Nat
  BY NumberAssumption DEF CacheInv, InOrder
<1>2. \A i \in 1..Len(have) : DerivedAt(w, chain, i - 1, have[i])
  BY DEF CacheInv, InOrder
<1> HIDE DEF have
<1>3. more \in Nat /\ Len(have) + more <= U32 /\ Len(have) + more >= n
  BY <1>1
<1>4. \A i \in 1..more : Len(have) + i - 1 \in 0..U32
  BY <1>1, <1>3
<1>5. \A i \in 1..more : DerivedAt(w, chain, Len(have) + i - 1, CodeAt(w, chain, Len(have) + i - 1))
  BY <1>4, CodeAtDerived
<1>6. \A i \in 1..more : CodeAt(w, chain, Len(have) + i - 1) \in Code
  BY <1>4, <1>5, DerivedScript DEF ScriptOK
<1>7. s = have \o new
  BY DEF Derived, have
<1> HIDE DEF s, more
<1>8. new \in Seq(Code) /\ Len(new) = more
  BY <1>3, <1>6
<1>9. \A i \in 1..more : new[i] = CodeAt(w, chain, Len(have) + i - 1)
  OBVIOUS
<1> HIDE DEF new
<1>10. /\ s \in Seq(Code) /\ Len(s) = Len(have) + more
       /\ \A i \in 1..Len(have) : s[i] = have[i]
       /\ \A i \in (Len(have) + 1)..Len(s) : s[i] = new[i - Len(have)]
  <2>1. /\ s \in Seq(Code) /\ Len(s) = Len(have) + Len(new)
        /\ \A i \in 1..(Len(have) + Len(new)) :
             s[i] = IF i <= Len(have) THEN have[i] ELSE new[i - Len(have)]
    BY <1>1, <1>7, <1>8, ConcatProperties, Zenon
  <2>. QED BY <1>1, <1>3, <1>8, <2>1
<1>11. ASSUME NEW i \in 1..Len(s) PROVE DerivedAt(w, chain, i - 1, s[i])
  <2>1. CASE i <= Len(have)
    BY <1>1, <1>2, <1>10, <2>1
  <2>2. CASE i > Len(have)
    <3> DEFINE j == i - Len(have)
    <3>1. j \in 1..more /\ Len(have) + j - 1 = i - 1
      BY <1>1, <1>3, <1>10, <2>2
    <3>2. s[i] = CodeAt(w, chain, Len(have) + j - 1)
      BY <1>1, <1>3, <1>9, <1>10, <2>2, <3>1
    <3>. QED BY <1>5, <3>1, <3>2
  <2>. QED BY <1>1, <1>3, <1>10, <2>1, <2>2
<1>12. InOrder(w, chain, s)
  BY <1>1, <1>3, <1>10, <1>11 DEF InOrder
<1>. QED BY <1>1, <1>3, <1>10, <1>12 DEF s, have

\* One wallet derives addresses of one chain.
LEMMA DeriveKeepsCache ==
  ASSUME CacheInv, NEW w \in Wallet, NEW chain \in Chain, NEW n \in 0..U32,
         Derive(w, chain, n), UNCHANGED <<pushes, bitcoinKey>>
  PROVE  /\ CacheInv'
         /\ cache'[w][chain] = Derived(w, chain, n)
         /\ \A c \in Chain \ {chain} : cache'[w][c] = cache[w][c]
<1> DEFINE s == Derived(w, chain, n)
<1>1. InOrder(w, chain, s)
  BY DerivedInOrder
<1>2. cache \in [Wallet -> [Chain -> Seq(Code)]]
  BY DEF CacheInv
<1>3. cache' = [cache EXCEPT ![w] = [cache[w] EXCEPT ![chain] = s]]
  BY <1>2 DEF Derive
<1>4. s \in Seq(Code)
  BY <1>1 DEF InOrder
<1> HIDE DEF s
<1>5. /\ cache' \in [Wallet -> [Chain -> Seq(Code)]]
      /\ cache'[w][chain] = s
      /\ \A c \in Chain \ {chain} : cache'[w][c] = cache[w][c]
      /\ \A v \in Wallet \ {w} : cache'[v] = cache[v]
  BY <1>2, <1>3, <1>4
<1>6. \A v \in Wallet, c \in Chain : InOrder(v, c, cache'[v][c])
  BY <1>1, <1>5 DEF CacheInv, s
<1>7. CacheInv'
  BY <1>5, <1>6 DEF CacheInv, HaveKeys, PushCounts, InOrder, DerivedAt
<1>. QED BY <1>5, <1>7 DEF s

\* The chain that GetAddresses derives, and how far.
LEMMA RangeDerives ==
  ASSUME NEW w, NEW index \in 0..(U32 - 1), NEW count \in 0..(U32 - 1), NEW internal, NEW op, NEW asked,
         GetRange(w, index, count, internal, op, asked)
  PROVE  \E chain \in Chain, n \in 0..U32 : Derive(w, chain, n) /\ UNCHANGED <<pushes, bitcoinKey>>
<1> DEFINE i == IF w \in Single THEN 0 ELSE index
           n == IF w \in Single THEN 1 ELSE count
           chain == IF internal /\ w \notin Single THEN "internal" ELSE "external"
<1>1. chain \in Chain
  BY DEF Chain
<1>2. i + n \in Nat /\ U32 \in Nat \ {0}
  BY NumberAssumption
<1>3. Derive(w, chain, (i + n) % U32) /\ UNCHANGED <<pushes, bitcoinKey>>
  BY DEF GetRange
<1> HIDE DEF i, n, chain
<1>4. (i + n) % U32 \in 0..U32
  BY <1>2
<1>. QED BY <1>1, <1>3, <1>4

\* RootKey pushes the signers of an account without the Bitcoin key only.
LEMMA RootKeysKeepsCache ==
  ASSUME CacheInv, NEW w \in Wallet, Kind[w] # "readonly", NEW n \in Nat, RootKeys(w, n),
         pushes'[w] <= MaxPushes, UNCHANGED cache
  PROVE  CacheInv'
<1> DEFINE again == IF Kind[w] = "legacy" /\ n > 0 THEN 1 ELSE n
           lacks == MultiSign(w) /\ w \notin bitcoinKey
<1>1. pushes \in [Wallet -> 1..MaxPushes] /\ MaxPushes \in Nat /\ again \in Nat
  BY NumberAssumption DEF CacheInv
<1>2. /\ pushes' = [pushes EXCEPT ![w] = IF lacks THEN pushes[w] + again ELSE pushes[w]]
      /\ HaveKeys'
  BY <1>1 DEF RootKeys, CacheInv, HaveKeys
<1>3. Kind[w] \notin {"xprv", "legacy"} => pushes'[w] = pushes[w]
  BY <1>1, WalletAssumption DEF RootKeys, CacheInv, HaveKeys, MultiSign
<1> HIDE DEF again, lacks
<1>4. pushes' \in [Wallet -> 1..MaxPushes] /\ \A v \in Wallet \ {w} : pushes'[v] = pushes[v]
  BY <1>1, <1>2
<1>5. \A v \in Wallet : pushes'[v] \in PushCounts(v)
  BY <1>3, <1>4 DEF CacheInv, PushCounts
<1>. QED BY <1>2, <1>4, <1>5 DEF CacheInv, HaveKeys, PushCounts, InOrder, DerivedAt

\* Every step keeps the caches in order.
LEMMA NextKeepsCache ==
  ASSUME CacheInv, ProgramsInv, [Next]_vars
  PROVE  CacheInv'
<1>1. ASSUME UNCHANGED <<cache, pushes, bitcoinKey>> PROVE CacheInv'
  BY <1>1 DEF CacheInv, HaveKeys, PushCounts, InOrder, DerivedAt
<1>2. ASSUME NEW w \in Wallet, NEW index \in 0..(U32 - 1), NEW count \in 0..(U32 - 1), NEW internal \in BOOLEAN,
             GetAddresses(w, index, count, internal) \/ GetCID(w, index, count, internal)
      PROVE  CacheInv'
  <2>1. ASSUME NEW op, NEW flag, NEW asked, GetRange(w, index, count, flag, op, asked) PROVE CacheInv'
    BY <2>1, RangeDerives, DeriveKeepsCache
  <2>. QED BY <1>1, <1>2, <2>1 DEF GetAddresses, GetCID, Throw
<1>3. ASSUME NEW w \in Wallet, NEW S, NEW change, CreateTransaction(w, S, change)
      PROVE  CacheInv'
  <2>1. 1 \in 0..U32 /\ "external" \in Chain
    BY NumberAssumption DEF Chain
  <2>2. CASE Derive(w, "external", 1) /\ UNCHANGED <<pushes, bitcoinKey>>
    BY <2>1, <2>2, DeriveKeepsCache
  <2>. QED BY <1>1, <1>3, <2>2 DEF CreateTransaction, Throw
<1>4. ASSUME NEW w \in Wallet, NEW tx \in txs, SignTransaction(w, tx)
      PROVE  CacheInv'
  <2>1. ASSUME Kind[w] # "readonly", NEW n \in 0..Cardinality(DOMAIN tx), RootKeys(w, n), pushes'[w] <= MaxPushes, UNCHANGED cache
        PROVE  CacheInv'
    BY <2>1, RootKeysKeepsCache
  <2>2. Cardinality(DOMAIN tx) \in Nat
    BY FS_CardinalityType DEF ProgramsInv
  <2>3. ASSUME Kind[w] # "readonly", RootKeys(w, Cardinality(DOMAIN tx)), pushes'[w] <= MaxPushes, UNCHANGED cache
        PROVE  CacheInv'
    BY <2>2, <2>3, RootKeysKeepsCache
  <2>. QED BY <1>1, <1>4, <2>1, <2>3 DEF SignTransaction, Throw
<1>5. ASSUME NEW w \in Wallet, Restart(w) PROVE CacheInv'
  <2>1. cache \in [Wallet -> [Chain -> Seq(Code)]] /\ pushes \in [Wallet -> 1..MaxPushes] /\ 1 \in 1..MaxPushes
    BY NumberAssumption DEF CacheInv
  <2>2. NoCache \in [Chain -> Seq(Code)] /\ \A c \in Chain : NoCache[c] = <<>>
    BY DEF NoCache
  <2>3. cache' = [cache EXCEPT ![w] = NoCache] /\ pushes' = [pushes EXCEPT ![w] = 1] /\ HaveKeys'
    BY <1>5 DEF Restart, CacheInv, HaveKeys
  <2> HIDE DEF NoCache
  <2>4. \A c \in Chain : InOrder(w, c, <<>>)
    BY NumberAssumption DEF InOrder
  <2>5. /\ cache' \in [Wallet -> [Chain -> Seq(Code)]]
        /\ \A v \in Wallet \ {w} : cache'[v] = cache[v]
        /\ cache'[w] = NoCache
    BY <2>1, <2>2, <2>3
  <2>6. ASSUME NEW v \in Wallet, NEW c \in Chain PROVE InOrder(v, c, cache'[v][c])
    <3>1. CASE v = w
      BY <2>2, <2>4, <2>5, <3>1, Zenon
    <3>2. CASE v # w
      BY <2>5, <3>2 DEF CacheInv
    <3>. QED BY <3>1, <3>2
  <2>7. pushes' \in [Wallet -> 1..MaxPushes] /\ \A v \in Wallet : pushes'[v] \in PushCounts(v)
    BY <2>1, <2>3 DEF CacheInv, PushCounts
  <2>. QED BY <2>3, <2>5, <2>6, <2>7 DEF CacheInv, HaveKeys, PushCounts, InOrder, DerivedAt
<1>6. CASE UNCHANGED vars
  BY <1>1, <1>6 DEF vars
<1>. QED BY <1>2, <1>3, <1>4, <1>5, <1>6 DEF Next

\* What is cached is a script of the wallet's.
LEMMA CachedScripts ==
  ASSUME CacheInv, NEW w \in Wallet, NEW c \in Cached(w)
  PROVE  \E chain \in Chain : \E i \in 0..(U32 - 1) :
           i < Len(cache[w][chain]) /\ DerivedAt(w, chain, i, c)
<1>1. PICK chain \in Chain : c \in ToSet(cache[w][chain])
  BY DEF Cached, Chain
<1>2. InOrder(w, chain, cache[w][chain])
  BY DEF CacheInv
<1> DEFINE s == cache[w][chain]
<1> HIDE DEF s
<1>3. s \in Seq(Code) /\ Len(s) <= U32 /\ (\A i \in 1..Len(s) : DerivedAt(w, chain, i - 1, s[i]))
  BY <1>2 DEF InOrder, s
<1>4. PICK j \in 1..Len(s) : c = s[j]
  BY <1>1, <1>3 DEF ToSet, s
<1>5. j - 1 \in 0..(U32 - 1) /\ j - 1 < Len(s) /\ DerivedAt(w, chain, j - 1, c)
  BY <1>3, <1>4, NumberAssumption
<1>. QED BY <1>5 DEF s

\* The scripts that GetCode finds are well formed and need the wallet's number of
\* signatures.
LEMMA KnownScripts ==
  ASSUME CacheInv, NEW w \in Wallet, NEW a \in Known(w)
  PROVE  ScriptOK(a.code) /\ a.code.m = IF MultiSign(w) THEN M ELSE 1
<1> DEFINE need == IF MultiSign(w) THEN M ELSE 1
           Goal(c) == ScriptOK(c) /\ c.m = need
<1>1. ASSUME NEW c \in Cached(w) PROVE Goal(c)
  <2>1. PICK chain \in Chain, i \in 0..(U32 - 1) : DerivedAt(w, chain, i, c)
    BY CachedScripts
  <2>2. i \in 0..U32
    BY NumberAssumption
  <2>. QED BY <2>1, <2>2, DerivedScript
<1>2. ASSUME NEW k \in PubKey, ~MultiSign(w) PROVE Goal(StandardCode(k))
  BY <1>2 DEF StandardCode, ScriptOK, Code
<1>3. ASSUME NEW c, Goal(c) PROVE Goal(DIDCode(c))
  BY <1>3 DEF DIDCode, ScriptOK, Code
<1>4. OwnerKey(w) \in PubKey /\ Key(w, "44", "external", 0) \in PubKey
  BY NumberAssumption DEF OwnerKey, Key, PubKey, Path, Chain
<1>5. \A p, c : Addr(p, c).code = c
  BY DEF Addr
<1> HIDE DEF Goal
<1>6. ASSUME MultiSign(w) PROVE Goal(a.code)
  BY <1>1, <1>5, <1>6 DEF Known
<1>7. ASSUME ~MultiSign(w) PROVE Goal(a.code)
  <2>1. \/ a \in {Addr("deposit", StandardCode(OwnerKey(w))), Addr("standard", StandardCode(OwnerKey(w))),
                  Addr("deposit", CRDepositCode(w))}
        \/ \E p \in {"standard", "id"}, c \in Cached(w) : a = Addr(p, c)
        \/ \E c \in Cached(w) : a = Addr("id", DIDCode(c))
    BY <1>7 DEF Known
  <2>. QED BY <1>1, <1>2, <1>3, <1>4, <1>5, <1>7, <2>1 DEF CRDepositCode
<1>8. Goal(a.code)
  BY <1>6, <1>7
<1>. QED BY <1>8 DEF Goal

\* A program that is not signed yet lacks a signature.
LEMMA UnsignedLacks ==
  ASSUME NEW tx, NEW c \in DOMAIN tx, ScriptOK(c), tx[c] \in Seq(PubKey), Len(tx[c]) <= c.m,
         DistinctSigners(c, tx[c]), c.type \in {"multi", "standard"}, ~VerifySignature(c, tx[c])
  PROVE  Len(tx[c]) < c.m
<1>1. \A i \in DOMAIN tx[c] : tx[c][i] \in c.keys
  BY DEF DistinctSigners
<1>2. c.m \in Nat /\ Len(tx[c]) \in Nat
  BY DEF ScriptOK, Code
<1>3. CASE c.type = "multi"
  BY <1>1, <1>2, <1>3 DEF VerifySignature
<1>4. CASE c.type = "standard"
  <2>1. PICK k \in PubKey : c.m = 1 /\ c.keys = {k}
    BY <1>4 DEF ScriptOK
  <2>2. Cardinality(c.keys) = 1
    BY <2>1, FS_Singleton
  <2>3. Len(tx[c]) # 1
    BY <1>1, <1>4, <2>2 DEF VerifySignature
  <2>4. Len(tx[c]) <= 1
    BY <2>1
  <2> DEFINE l == Len(tx[c])
  <2> HIDE DEF l
  <2>5. l \in Nat /\ l # 1 /\ l <= 1
    BY <1>2, <2>3, <2>4 DEF l
  <2>6. l < 1
    BY ONLY <2>5
  <2>. QED BY <2>1, <2>6 DEF l
<1>. QED BY <1>3, <1>4

\* A transaction of a finite set of the wallet's addresses.
LEMMA NewTxPrograms ==
  ASSUME CacheInv, NEW w \in Wallet, NEW S \in SUBSET Known(w), IsFiniteSet(S)
  PROVE  /\ IsFiniteSet(DOMAIN NewTx(S))
         /\ \A c \in DOMAIN NewTx(S) : ScriptOK(c) /\ NewTx(S)[c] \in Seq(PubKey) /\ Len(NewTx(S)[c]) <= c.m
         /\ \A c, d \in DOMAIN NewTx(S) : c.m = d.m /\ Len(NewTx(S)[c]) = Len(NewTx(S)[d])
<1>1. DOMAIN NewTx(S) = {a.code : a \in S} /\ \A c \in DOMAIN NewTx(S) : NewTx(S)[c] = <<>>
  BY DEF NewTx
<1>2. IsFiniteSet({a.code : a \in S})
  <2> DEFINE f == [a \in S |-> a.code]
  <2>1. f \in Surjection(S, {a.code : a \in S})
    BY DEF Surjection
  <2>. QED BY <2>1, FS_Surjection, Zenon
<1>3. \A c \in DOMAIN NewTx(S) : ScriptOK(c) /\ c.m = IF MultiSign(w) THEN M ELSE 1
  BY <1>1, KnownScripts
<1>4. \A c \in DOMAIN NewTx(S) : c.m \in Nat
  BY <1>3 DEF ScriptOK, Code
<1>5. \A c \in DOMAIN NewTx(S) : NewTx(S)[c] \in Seq(PubKey) /\ Len(NewTx(S)[c]) = 0
  <2>1. <<>> \in Seq(PubKey) /\ Len(<<>>) = 0
    OBVIOUS
  <2>. QED BY <1>1, <2>1, Zenon
<1>6. \A c \in DOMAIN NewTx(S) : ScriptOK(c) /\ NewTx(S)[c] \in Seq(PubKey) /\ Len(NewTx(S)[c]) <= c.m
  BY <1>3, <1>4, <1>5
<1>7. \A c, d \in DOMAIN NewTx(S) : c.m = d.m /\ Len(NewTx(S)[c]) = Len(NewTx(S)[d])
  BY <1>3, <1>5, Zenon
<1>8. IsFiniteSet(DOMAIN NewTx(S))
  BY <1>1, <1>2, Zenon
<1>. QED BY <1>6, <1>7, <1>8, Zenon

\* A copy signed on all programs at once.
LEMMA SignedPrograms ==
  ASSUME ProgramsInv, SignaturesDistinct, NEW w, NEW tx \in txs, ~IsSigned(tx), DOMAIN tx # {},
         \A c \in DOMAIN tx : ~Refused(w, tx, c)
  PROVE  LET new == SignedBy(w, tx) IN
         /\ IsFiniteSet(DOMAIN new)
         /\ \A c \in DOMAIN new : ScriptOK(c) /\ new[c] \in Seq(PubKey) /\ Len(new[c]) <= c.m
         /\ \A c, d \in DOMAIN new : c.m = d.m /\ Len(new[c]) = Len(new[d])
<1> DEFINE new == SignedBy(w, tx)
           k(c) == CHOOSE x \in FindPrivateKey(w, c) : TRUE
<1>1. PICK e \in DOMAIN tx : ~VerifySignature(e, tx[e])
  BY DEF IsSigned
<1>2. \A c \in DOMAIN tx : ScriptOK(c) /\ tx[c] \in Seq(PubKey) /\ Len(tx[c]) \in Nat /\ Len(tx[c]) <= c.m
  BY DEF ProgramsInv
<1>3. Len(tx[e]) < e.m
  <2>1. e.type \in {"multi", "standard"}
    BY <1>1 DEF Refused
  <2>2. DistinctSigners(e, tx[e])
    BY <1>1 DEF SignaturesDistinct
  <2>. QED BY <1>1, <1>2, <2>1, <2>2, UnsignedLacks
<1>4. \A c, d \in DOMAIN tx : c.m = d.m /\ Len(tx[c]) = Len(tx[d])
  BY DEF ProgramsInv
<1>5. DOMAIN new = DOMAIN tx /\ IsFiniteSet(DOMAIN tx)
  BY DEF SignedBy, ProgramsInv
<1>6. ASSUME NEW c \in DOMAIN tx PROVE new[c] \in Seq(PubKey) /\ Len(new[c]) = Len(tx[c]) + 1
  <2>1. k(c) \in c.keys
    <3>1. FindPrivateKey(w, c) # {} /\ FindPrivateKey(w, c) \subseteq c.keys
      BY DEF Refused, FindPrivateKey
    <3>. QED BY <3>1
  <2>2. new[c] = Append(tx[c], k(c))
    BY DEF SignedBy
  <2>3. c.keys \subseteq PubKey
    BY <1>2 DEF ScriptOK, Code
  <2> HIDE DEF k, new
  <2>. QED BY <1>2, <2>1, <2>2, <2>3
<1> HIDE DEF new
<1>7. ASSUME NEW c \in DOMAIN tx PROVE Len(new[c]) <= c.m
  <2>1. Len(tx[c]) < c.m /\ Len(tx[c]) \in Nat /\ c.m \in Nat
    BY <1>1, <1>2, <1>3, <1>4 DEF ScriptOK, Code
  <2>. QED BY <1>6, <2>1
<1>. QED BY <1>2, <1>4, <1>5, <1>6, <1>7 DEF new

\* Every step keeps the programs of every copy in step.
LEMMA NextKeepsPrograms ==
  ASSUME CacheInv, ProgramsInv, SignaturesDistinct, [Next]_vars
  PROVE  ProgramsInv'
<1>1. ASSUME UNCHANGED txs PROVE ProgramsInv'
  BY <1>1 DEF ProgramsInv
<1>2. ASSUME NEW w \in Wallet, NEW index, NEW count, NEW internal,
             GetAddresses(w, index, count, internal) \/ GetCID(w, index, count, internal)
      PROVE  ProgramsInv'
  BY <1>1, <1>2 DEF GetAddresses, GetCID, GetRange, Throw
<1>3. ASSUME NEW w \in Wallet, NEW n \in 0..MaxInputs, NEW s \in [1..n -> Input], NEW change,
             CreateTransaction(w, ToSet(s), change)
      PROVE  ProgramsInv'
  <2> DEFINE S == ToSet(s)
  <2>1. IsFiniteSet(S)
    <3>1. IsFiniteSet(1..n) /\ s \in Surjection(1..n, S)
      BY FS_Interval DEF ToSet, Surjection
    <3>. QED BY <3>1, FS_Surjection, Zenon
  <2> HIDE DEF S
  <2>2. ASSUME S \subseteq Known(w), txs' = txs \cup {NewTx(S)} PROVE ProgramsInv'
    BY <2>1, <2>2, NewTxPrograms DEF ProgramsInv
  <2>. QED BY <1>1, <1>3, <2>2 DEF CreateTransaction, Throw, S
<1>4. ASSUME NEW w \in Wallet, NEW tx \in txs, SignTransaction(w, tx)
      PROVE  ProgramsInv'
  <2>1. ASSUME ~IsSigned(tx), DOMAIN tx # {}, \A c \in DOMAIN tx : ~Refused(w, tx, c),
               txs' = txs \cup {SignedBy(w, tx)}
        PROVE  ProgramsInv'
    BY <2>1, SignedPrograms DEF ProgramsInv
  <2>. QED BY <1>1, <1>4, <2>1 DEF SignTransaction, Throw
<1>5. ASSUME NEW w \in Wallet, Restart(w) PROVE ProgramsInv'
  BY <1>1, <1>5 DEF Restart
<1>6. CASE UNCHANGED vars
  BY <1>1, <1>6 DEF vars
<1>. QED BY <1>2, <1>3, <1>4, <1>5, <1>6 DEF Next

\* The inductive invariant.
SubAccountInv == CacheInv /\ ProgramsInv /\ SignaturesDistinct

\* The caches are in order and the copies in step, in every behaviour.
LEMMA SubAccountInvariant == Spec => []SubAccountInv
<1>1. Init => SubAccountInv
  <2> SUFFICES ASSUME Init PROVE SubAccountInv
    OBVIOUS
  <2>1. ProgramsInv /\ SignaturesDistinct
    BY DEF Init, ProgramsInv, SignaturesDistinct
  <2>2. NoCache \in [Chain -> Seq(Code)] /\ \A c \in Chain : NoCache[c] = <<>>
    BY DEF NoCache
  <2>3. cache \in [Wallet -> [Chain -> Seq(Code)]] /\ \A w \in Wallet, c \in Chain : cache[w][c] = <<>>
    BY <2>2 DEF Init
  <2>4. \A w \in Wallet, c \in Chain : InOrder(w, c, <<>>)
    BY NumberAssumption DEF InOrder
  <2>5. /\ pushes \in [Wallet -> 1..MaxPushes] /\ HaveKeys
        /\ \A w \in Wallet : pushes[w] \in PushCounts(w)
    BY NumberAssumption DEF Init, PushCounts, HaveKeys
  <2>6. \A w \in Wallet, c \in Chain : InOrder(w, c, cache[w][c])
    BY <2>3, <2>4, Zenon
  <2>. QED BY <2>1, <2>3, <2>5, <2>6 DEF CacheInv, SubAccountInv
<1>2. SubAccountInv /\ [Next]_vars => SubAccountInv'
  BY NextKeepsCache, NextKeepsPrograms, NextKeepsDistinct DEF SubAccountInv
<1>. QED BY <1>1, <1>2, PTL DEF Spec

\* The caches, the signer lists and the copies have their types: no script is
\* derived past the range of a derivation index, no signature is by a key that no
\* wallet and no cosigner has.
THEOREM SubAccountTypes == Spec => []TypeOK
<1>1. SubAccountInv => TypeOK
  BY DEF SubAccountInv, CacheInv, HaveKeys, ProgramsInv, ScriptOK, TypeOK
<1>. QED BY <1>1, SubAccountInvariant, PTL

\* SubAccount::SignTransaction signs all programs of a copy or none, and never
\* one that has the signatures it needs.
THEOREM ProgramsInLockstep == Spec => []InLockstep
<1>1. SubAccountInv => InLockstep
  BY DEF SubAccountInv, ProgramsInv, InLockstep
<1>. QED BY <1>1, SubAccountInvariant, PTL

\* Account::Init runs once in a process unless an account lacks the Bitcoin key:
\* where no account was made from an extended private key, or is from before the
\* Bitcoin key, all multi-sign wallets derive the same address at the same index.
THEOREM CosignersAgree ==
  ASSUME \A w \in Wallet : Kind[w] \notin {"xprv", "legacy"}
  PROVE  Spec => []AddressesAgree
<1>1. ASSUME SubAccountInv PROVE AddressesAgree
  <2> SUFFICES ASSUME NEW v \in Wallet, NEW w \in Wallet, MultiSign(v), MultiSign(w), NEW c \in Chain,
                      NEW i \in DOMAIN cache[v][c] \cap DOMAIN cache[w][c]
               PROVE  cache[v][c][i] = cache[w][c][i]
    BY DEF AddressesAgree
  <2>1. ASSUME NEW u \in {v, w} PROVE cache[u][c][i] = MultiCode(c, i - 1, 1)
    <3>1. InOrder(u, c, cache[u][c])
      BY <1>1 DEF SubAccountInv, CacheInv
    <3>2. i \in 1..Len(cache[u][c])
      BY <3>1 DEF InOrder
    <3>3. DerivedAt(u, c, i - 1, cache[u][c][i])
      BY <3>1, <3>2 DEF InOrder
    <3>. QED BY <3>3 DEF DerivedAt, PushCounts
  <2>. QED BY <2>1
<1>. QED BY <1>1, SubAccountInvariant, PTL

\* A wallet that signs has a key of every script it has cached.
CachedKeysFound ==
  \A w \in Wallet : Kind[w] # "readonly" => \A c \in Cached(w) : FindPrivateKey(w, c) # {}

\* FindPrivateKey reaches every index that is cached, 0 and the last included.
LEMMA CachedKeyFound == CacheInv => CachedKeysFound
<1> SUFFICES ASSUME CacheInv, NEW w \in Wallet, Kind[w] # "readonly", NEW c \in Cached(w)
             PROVE  FindPrivateKey(w, c) # {}
  BY DEF CachedKeysFound
<1>1. PICK chain \in Chain, i \in 0..(U32 - 1) : i < Len(cache[w][chain]) /\ DerivedAt(w, chain, i, c)
  BY CachedScripts
<1>2. \A path : /\ Key(w, path, chain, i).path = path
                /\ Key(w, path, chain, i).index = i
                /\ Key(w, path, chain, i).chain = chain
  BY DEF Key
<1>3. \A path : Reached(w, Key(w, path, chain, i))
  BY <1>1, <1>2 DEF Reached
<1>4. CASE MultiSign(w)
  <2>1. PICK n \in PushCounts(w) : c = MultiCode(chain, i, n)
    BY <1>1, <1>4 DEF DerivedAt
  <2>2. w \in Cosigner
    BY <1>4, WalletAssumption DEF MultiSign
  <2> DEFINE k == Key(w, RingPath, chain, i)
  <2>3. c.type = "multi" /\ k \in c.keys
    BY <2>1, <2>2 DEF MultiCode
  <2>4. k \in Held(w, "multi")
    BY RingAssumption DEF Held
  <2>. QED BY <1>3, <2>3, <2>4 DEF FindPrivateKey
<1>5. CASE ~MultiSign(w)
  <2> DEFINE k == Key(w, "44", chain, i)
  <2>1. c.type = "standard" /\ k \in c.keys
    BY <1>1, <1>5 DEF DerivedAt, StandardCode
  <2>2. k \in Held(w, "standard")
    BY DEF Held
  <2>. QED BY <1>3, <2>1, <2>2 DEF FindPrivateKey
<1>. QED BY <1>4, <1>5

\* The cache that a step leaves behind when it only derives the change address.
LEMMA CreateSignable ==
  ASSUME CacheInv, CacheInv', NEW w \in Wallet, NEW S, NEW change, CreateTransaction(w, S, change)
  PROVE  CachedIsSignable'
<1>1. CASE Throw("create", w)
  BY <1>1 DEF Throw, Ret, CachedIsSignable
<1>2. CASE S \subseteq Known(w) /\ ret' = [Ret("create", w, "ok") EXCEPT !.tx = NewTx(S)]
  <2>1. ret'.w = w /\ ret'.tx = NewTx(S)
    BY <1>2 DEF Ret
  <2> SUFFICES ASSUME Kind[w] # "readonly", NEW c \in DOMAIN NewTx(S),
                      c \in Cached(w)' \cup {StandardCode(OwnerKey(w))}
               PROVE  FindPrivateKey(w, c)' # {}
    BY <2>1 DEF CachedIsSignable
  <2>2. CASE c \in Cached(w)'
    <3>1. CachedKeysFound'
      BY CachedKeyFound, PTL
    <3>. QED BY <2>2, <3>1 DEF CachedKeysFound
  <2>3. CASE c = StandardCode(OwnerKey(w)) /\ ~MultiSign(w)
    <3>1. c.type = "standard" /\ OwnerKey(w) \in c.keys /\ OwnerKey(w).path = "owner"
      BY <2>3 DEF StandardCode, OwnerKey, Key
    <3>2. OwnerKey(w) \in Held(w, c.type) /\ Reached(w, OwnerKey(w))'
      BY <2>3, <3>1 DEF Held, Reached
    <3>. QED BY <3>1, <3>2 DEF FindPrivateKey
  <2>4. CASE c = StandardCode(OwnerKey(w)) /\ MultiSign(w)
    <3>1. PICK a \in S : c = a.code
      BY DEF NewTx
    <3>2. a \in Known(w)
      BY <1>2, <3>1
    <3>3. c \in Cached(w)
      BY <2>4, <3>1, <3>2 DEF Known, Addr
    <3>4. PICK chain \in Chain, i \in 0..(U32 - 1) : DerivedAt(w, chain, i, c)
      BY <3>3, CachedScripts
    <3>5. i \in 0..U32
      BY NumberAssumption
    <3>6. c.type = "multi"
      BY <2>4, <3>4, <3>5, DerivedScript
    <3>. QED BY <2>4, <3>6 DEF StandardCode
  <2>. QED BY <2>2, <2>3, <2>4
<1>. QED BY <1>1, <1>2 DEF CreateTransaction

\* The sum of two uint32_t, modulo 2^32: it exceeds the first one exactly when it
\* does not wrap and the second is not 0.
LEMMA SumExceeds ==
  ASSUME NEW U \in Nat \ {0}, NEW i \in 0..(U - 1), NEW n \in 0..(U - 1), ~((i + n) % U <= i)
  PROVE  i + n < U /\ n > 0 /\ (i + n) % U = i + n /\ 1 % U = 1
<1>1. ASSUME i + n >= U PROVE FALSE
  <2>1. (i + n) % U = i + n - U
    BY <1>1
  <2>. QED BY <2>1
<1>2. (i + n) % U = i + n
  BY <1>1
<1>3. 1 < U
  BY <1>1, <1>2
<1>. QED BY <1>1, <1>2, <1>3

\* The addresses of a range that ends within the cache.
LEMMA RangeOfCache ==
  ASSUME NEW w \in Wallet, NEW chain \in Chain, NEW s, InOrder(w, chain, s),
         NEW i \in Nat, NEW n \in Nat, i + n <= Len(s), NEW internal,
         chain = "internal" <=> internal
  PROVE  AreRange(SubSeq(s, i + 1, Min({i + n, Len(s)})), i, n, internal)
<1>1. s \in Seq(Code) /\ Len(s) \in Nat /\ Len(s) <= U32 /\ U32 \in Nat
  BY NumberAssumption DEF InOrder
<1>2. Min({i + n, Len(s)}) = i + n
  BY <1>1 DEF Min
<1> DEFINE t == SubSeq(s, i + 1, i + n)
<1>3. Len(t) = n /\ DOMAIN t = 1..n /\ \A j \in 1..n : t[j] = s[i + j]
  BY <1>1
<1> HIDE DEF t
<1>4. ASSUME NEW j \in 1..n, NEW k \in t[j].keys
      PROVE  k.index = i + j - 1 /\ (k.chain = "internal" <=> internal)
  <2>1. i + j \in 1..Len(s) /\ i + j - 1 \in 0..U32
    BY <1>1
  <2>2. DerivedAt(w, chain, i + j - 1, t[j])
    BY <1>3, <2>1 DEF InOrder
  <2>3. k.index = i + j - 1 /\ k.chain = chain
    BY <2>1, <2>2, DerivedScript
  <2>. QED BY <2>3
<1>5. AreRange(t, i, n, internal)
  BY <1>3, <1>4 DEF AreRange
<1>. QED BY <1>2, <1>5 DEF t

\* GetAddresses hands out what was asked for.
LEMMA GetAddressesAsked ==
  ASSUME CacheInv, CacheInv', NEW w \in Wallet, NEW index \in 0..(U32 - 1), NEW count \in 0..(U32 - 1),
         NEW internal \in BOOLEAN, GetAddresses(w, index, count, internal)
  PROVE  AddressesAsked'
<1>1. ASSUME Throw("addresses", w) PROVE AddressesAsked'
  BY <1>1 DEF Throw, Ret, AddressesAsked
<1>2. ASSUME ~((index + count) % U32 <= index),
             GetRange(w, index, count, internal, "addresses", Asked(index, count, internal))
      PROVE  AddressesAsked'
  <2>1. /\ U32 \in Nat \ {0} /\ index + count < U32 /\ count > 0
        /\ (index + count) % U32 = index + count /\ 1 % U32 = 1
    BY <1>2, NumberAssumption, SumExceeds
  <2> DEFINE i == IF w \in Single THEN 0 ELSE index
             n == IF w \in Single THEN 1 ELSE count
             chain == IF internal /\ w \notin Single THEN "internal" ELSE "external"
             isInternal == internal /\ w \notin Single
             codes == SubSeq(cache'[w][chain], i + 1, Min({i + n, Len(cache'[w][chain])}))
  <2>2. /\ Derive(w, chain, (i + n) % U32)
        /\ ret' = [Ret("addresses", w, IF i + n <= Len(cache'[w][chain]) THEN "ok" ELSE "undefined")
                     EXCEPT !.asked = Asked(index, count, internal), !.codes = codes]
        /\ UNCHANGED <<pushes, bitcoinKey>>
    BY <1>2 DEF GetRange
  <2>3. i \in Nat /\ n \in Nat /\ (i + n) % U32 = i + n /\ i + n \in 0..U32
    BY <2>1
  <2>4. chain \in Chain /\ (chain = "internal" <=> isInternal)
    BY DEF Chain
  <2> HIDE DEF i, n, chain, isInternal
  <2>5. cache'[w][chain] = Derived(w, chain, i + n)
    BY <2>2, <2>3, <2>4, DeriveKeepsCache
  <2>6. InOrder(w, chain, Derived(w, chain, i + n)) /\ Len(Derived(w, chain, i + n)) >= i + n
    BY <2>3, <2>4, DerivedInOrder
  <2> DEFINE s == cache'[w][chain]
  <2>7. InOrder(w, chain, s) /\ i + n <= Len(s)
    <3>1. Len(Derived(w, chain, i + n)) \in Nat
      BY <2>6 DEF InOrder
    <3>. QED BY <2>3, <2>5, <2>6, <3>1
  <2>8. AreRange(codes, i, n, isInternal)
    BY <2>3, <2>4, <2>7, RangeOfCache
  <2> HIDE DEF codes
  <2>9. /\ ret'.st = "ok" /\ ret'.w = w /\ ret'.codes = codes
        /\ ret'.asked = [index |-> index, count |-> count, internal |-> internal]
    BY <2>2, <2>7 DEF Ret, Asked
  <2>10. CASE w \in Single
    <3>1. AreRange(codes, 0, 1, FALSE)
      BY <2>8, <2>10 DEF i, n, isInternal, AreRange
    <3>. QED BY <2>9, <2>10, <3>1 DEF AddressesAsked
  <2>11. CASE w \notin Single
    <3>1. AreRange(codes, index, count, internal)
      BY <2>8, <2>11 DEF i, n, isInternal, AreRange
    <3>. QED BY <2>9, <2>11, <3>1 DEF AddressesAsked
  <2>. QED BY <2>10, <2>11
<1>. QED BY <1>1, <1>2 DEF GetAddresses

\* What is handed out, and what is created, after any step.
LEMMA NextKeepsResults ==
  ASSUME CacheInv, CacheInv', AddressesAsked, CachedIsSignable, [Next]_vars
  PROVE  AddressesAsked' /\ CachedIsSignable'
<1>0. \A op, w, st : Ret(op, w, st).op = op
  BY DEF Ret
<1>1. ASSUME NEW w, NEW index, NEW count, NEW internal, NEW op, NEW asked,
             GetRange(w, index, count, internal, op, asked)
      PROVE  ret'.op = op
  <2>1. PICK st, codes : ret' = [Ret(op, w, st) EXCEPT !.asked = asked, !.codes = codes]
    BY <1>1, Zenon DEF GetRange
  <2>. QED BY <2>1 DEF Ret
<1>2. ASSUME NEW w \in Wallet, NEW index \in 0..(U32 - 1), NEW count \in 0..(U32 - 1), NEW internal \in BOOLEAN,
             GetAddresses(w, index, count, internal)
      PROVE  AddressesAsked' /\ CachedIsSignable'
  <2>1. AddressesAsked'
    BY <1>2, GetAddressesAsked
  <2>2. ret'.op = "addresses"
    BY <1>0, <1>1, <1>2 DEF GetAddresses, Throw
  <2>. QED BY <2>1, <2>2 DEF CachedIsSignable
<1>3. ASSUME NEW w \in Wallet, NEW index, NEW count, NEW internal, GetCID(w, index, count, internal)
      PROVE  AddressesAsked' /\ CachedIsSignable'
  <2>1. ret'.op = "cid"
    BY <1>0, <1>1, <1>3 DEF GetCID
  <2>. QED BY <2>1 DEF AddressesAsked, CachedIsSignable
<1>4. ASSUME NEW w \in Wallet, NEW S, NEW change, CreateTransaction(w, S, change)
      PROVE  AddressesAsked' /\ CachedIsSignable'
  <2>1. ret'.op = "create"
    BY <1>4 DEF CreateTransaction, Throw, Ret
  <2>. QED BY <1>4, <2>1, CreateSignable DEF AddressesAsked
<1>5. ASSUME NEW w \in Wallet, NEW tx \in txs, SignTransaction(w, tx)
      PROVE  AddressesAsked' /\ CachedIsSignable'
  <2>1. ret'.op = "sign"
    BY <1>5 DEF SignTransaction, Throw, Ret
  <2>. QED BY <2>1 DEF AddressesAsked, CachedIsSignable
<1>6. ASSUME NEW w \in Wallet, Restart(w) PROVE AddressesAsked' /\ CachedIsSignable'
  BY <1>6 DEF Restart, Ret, AddressesAsked, CachedIsSignable
<1>7. CASE UNCHANGED vars
  BY <1>7 DEF vars, AddressesAsked, CachedIsSignable, Cached, FindPrivateKey, Reached
<1>. QED BY <1>2, <1>3, <1>4, <1>5, <1>6, <1>7 DEF Next

\* Both properties of the results, in every behaviour.
LEMMA ResultsInvariant == Spec => [](AddressesAsked /\ CachedIsSignable)
<1>1. Init => AddressesAsked /\ CachedIsSignable
  BY DEF Init, Ret, AddressesAsked, CachedIsSignable
<1>2. /\ SubAccountInv /\ SubAccountInv'
      /\ AddressesAsked /\ CachedIsSignable /\ [Next]_vars
      => AddressesAsked' /\ CachedIsSignable'
  BY NextKeepsResults DEF SubAccountInv
<1>. QED BY <1>1, <1>2, SubAccountInvariant, PTL DEF Spec

\* ElastosBaseSubWallet::GetAddresses refuses the sums that wrap around, so what
\* SubAccount::GetAddresses copies out of the cache is the range that was asked
\* for, in full, for every width of the indices.
THEOREM AskedIsHandedOut == Spec => []AddressesAsked
BY ResultsInvariant, PTL

\* SubAccount::FindPrivateKey finds a key for every script that GetCode took from
\* the cache and for the owner's: for any ring and any derivation strategy.
THEOREM CreatedFromCacheIsSignable == Spec => []CachedIsSignable
BY ResultsInvariant, PTL
=============================================================================
