------------------------- MODULE BTCSubWalletProofs -------------------------
(***************************************************************************)
(* Proofs about the Bitcoin sub wallet, for any number of addresses,       *)
(* inputs and payments.                                                    *)
(*                                                                         *)
(* It signs for every address that it has handed out since it was opened.  *)
(* The inductive invariant is about the cache: the address at a place is   *)
(* that of the key FindKeys derives for this place, and what was handed    *)
(* out is there.                                                           *)
(*                                                                         *)
(* A transaction pays what it was asked to pay and a fee that fits.  While *)
(* amounts stay in range the sums of words are the sums of integers; the   *)
(* rest is arithmetic, with an output for the change and without one.      *)
(***************************************************************************)
EXTENDS BTCSubWallet, DataProofs

\* The first n addresses of a chain.
FirstOf(chain, n) == [i \in 1..n |-> <<chain, i - 1>>]

CacheDerived ==
  /\ DOMAIN cached = BTCChains
  /\ cached = [c \in BTCChains |-> cached[c]]
  /\ \A c \in BTCChains : \E n \in 0..MaxIndex : cached[c] = FirstOf(c, n)

GivenCached ==
  \A a \in given : \E c \in BTCChains : \E i \in 1..Len(cached[c]) : a = cached[c][i]

TxShape ==
  btcTx # NoBtcTx =>
    btcTx = [inputs |-> btcTx.inputs, payments |-> btcTx.payments, rate |-> btcTx.rate,
             outputs |-> btcTx.outputs, signed |-> btcTx.signed]

BTCInv == CacheDerived /\ GivenCached /\ TxShape /\ BTCHandedOutIsSignable

LEMMA FirstOfLen ==
  ASSUME NEW chain, NEW n \in Nat
  PROVE  Len(FirstOf(chain, n)) = n /\ DOMAIN FirstOf(chain, n) = 1..n
  BY DEF FirstOf

\* What the cache of a chain looks like.
LEMMA CachedPlace ==
  ASSUME CacheDerived, NEW c \in BTCChains
  PROVE  /\ Len(cached[c]) \in 0..MaxIndex
         /\ \A i \in 1..Len(cached[c]) : cached[c][i] = <<c, i - 1>>
<1>1. PICK n \in 0..MaxIndex : cached[c] = FirstOf(c, n)
  BY DEF CacheDerived
<1>2. n \in Nat /\ Len(cached[c]) = n
  BY <1>1, FirstOfLen, MaxIndexAssumption
<1> QED BY <1>1, <1>2 DEF FirstOf

LEMMA BTCInitInv == BTCInit => BTCInv
<1> SUFFICES ASSUME BTCInit PROVE BTCInv
  OBVIOUS
<1>1. CacheDerived
  <2>1. \A c \in BTCChains : cached[c] = FirstOf(c, 0)
    BY DEF BTCInit, FirstOf
  <2> QED BY <2>1, MaxIndexAssumption DEF BTCInit, CacheDerived
<1>2. GivenCached /\ TxShape /\ BTCHandedOutIsSignable
  BY DEF BTCInit, GivenCached, TxShape, BTCHandedOutIsSignable
<1> QED BY <1>1, <1>2 DEF BTCInv

\* Handing out addresses extends the chain by the addresses that are missing.
LEMMA AddressesInv ==
  ASSUME BTCInv, NEW index \in 0..MaxIndex, NEW count \in 0..MaxIndex, NEW internal \in BOOLEAN,
         index + count <= MaxIndex, BTCGetAddresses(index, count, internal)
  PROVE  BTCInv'
<1>1. CASE UNCHANGED <<cached, given>> /\ btcOutcome' \in {"refused", "addresses"}
  BY <1>1 DEF BTCInv, CacheDerived, GivenCached, TxShape, BTCHandedOutIsSignable, BTCGetAddresses
<1>2. CASE ~multiSign /\ count > 0 /\ btcOutcome' = "addresses" /\ GetAddressInternal(index, count, internal)
  <2> DEFINE chain == IF internal /\ ~single THEN "internal" ELSE "external"
             from  == IF single THEN 0 ELSE index
             upto  == IF single THEN 1 ELSE index + count
             old   == Len(cached[chain])
             n     == Larger(upto, old)
             all   == [i \in 1..n |-> IF i <= old THEN cached[chain][i] ELSE Derive(chain, i - 1)]
  <2>1. chain \in BTCChains
    BY DEF BTCChains
  <2>2. old \in 0..MaxIndex /\ \A i \in 1..old : cached[chain][i] = <<chain, i - 1>>
    BY <2>1, CachedPlace DEF BTCInv
  <2>3. from \in Nat /\ upto \in 0..MaxIndex
    BY <1>2, MaxIndexAssumption
  <2>4. cached' = [cached EXCEPT ![chain] = all] /\ given' = given \cup {all[i] : i \in (from + 1)..upto}
    BY <1>2 DEF GetAddressInternal
  <2> HIDE DEF chain, from, upto
  <2>5. n \in 0..MaxIndex /\ old <= n /\ upto <= n
    BY <2>2, <2>3, MaxIndexAssumption DEF Larger
  <2>6. all = FirstOf(chain, n)
    BY <2>2, <2>5, MaxIndexAssumption DEF FirstOf, Derive
  <2> HIDE DEF all, n
  <2>7. n \in Nat /\ Len(all) = n /\ \A i \in 1..n : all[i] = <<chain, i - 1>>
    BY <2>5, <2>6, FirstOfLen, MaxIndexAssumption DEF FirstOf
  <2>8. /\ DOMAIN cached' = BTCChains /\ cached'[chain] = all
        /\ \A c \in BTCChains \ {chain} : cached'[c] = cached[c]
    BY <2>1, <2>4 DEF BTCInv, CacheDerived
  <2>9. CacheDerived'
    <3>1. \A c \in BTCChains : \E k \in 0..MaxIndex : cached'[c] = FirstOf(c, k)
      BY <2>5, <2>6, <2>8 DEF BTCInv, CacheDerived
    <3>2. cached' = [c \in BTCChains |-> cached'[c]]
      BY <2>4 DEF BTCInv, CacheDerived
    <3> QED BY <2>8, <3>1, <3>2 DEF CacheDerived
  <2>10. GivenCached'
    <3> SUFFICES ASSUME NEW a \in given'
                 PROVE  \E c \in BTCChains : \E i \in 1..Len(cached'[c]) : a = cached'[c][i]
      BY DEF GivenCached
    <3>1. CASE a \in given
      <4>1. PICK c \in BTCChains : \E i \in 1..Len(cached[c]) : a = cached[c][i]
        BY <3>1 DEF BTCInv, GivenCached
      <4>2. PICK i \in 1..Len(cached[c]) : a = cached[c][i]
        BY <4>1
      <4>3. CASE c # chain
        BY <4>2, <4>3, <2>8
      <4>4. CASE c = chain
        <5>1. i \in 1..old /\ a = <<chain, i - 1>>
          BY <4>2, <4>4, <2>2
        <5> HIDE DEF old
        <5>2. i \in 1..n
          BY <5>1, <2>2, <2>5, MaxIndexAssumption
        <5>3. a = cached'[chain][i] /\ i \in 1..Len(cached'[chain])
          BY <5>1, <5>2, <2>7, <2>8
        <5> QED BY <5>3, <2>1
      <4> QED BY <4>3, <4>4
    <3>2. CASE a \in {all[i] : i \in (from + 1)..upto}
      <4>1. PICK i \in (from + 1)..upto : a = all[i]
        BY <3>2
      <4>2. i \in 1..n
        BY <2>3, <2>5, MaxIndexAssumption
      <4> QED BY <4>1, <4>2, <2>1, <2>7, <2>8
    <3> QED BY <2>4, <3>1, <3>2
  <2>11. TxShape' /\ BTCHandedOutIsSignable'
    BY <1>2 DEF BTCInv, TxShape, BTCHandedOutIsSignable, BTCGetAddresses
  <2> QED BY <2>9, <2>10, <2>11 DEF BTCInv
<1> QED BY <1>1, <1>2 DEF BTCGetAddresses, GetAddressInternal

LEMMA CreateInv ==
  ASSUME BTCInv, NEW inputs, NEW payments, NEW rate, BTCCreateTransaction(inputs, payments, rate)
  PROVE  BTCInv'
<1>1. CacheDerived' /\ GivenCached'
  BY DEF BTCCreateTransaction, BTCInv, CacheDerived, GivenCached
<1>2. TxShape' /\ btcOutcome' \in {"refused", "created"}
  BY DEF BTCCreateTransaction, BTCInv, TxShape
<1> QED BY <1>1, <1>2 DEF BTCInv, BTCHandedOutIsSignable

\* The key of the place at which an address is cached is the key of the address.
LEMMA KeyFits ==
  ASSUME CacheDerived, NEW address, NEW key \in FindKeys(address)
  PROVE  key = address
<1>1. PICK p \in BTCChains \X (1..MaxIndex) :
        p[2] <= Len(cached[p[1]]) /\ cached[p[1]][p[2]] = address /\ key = Derive(p[1], p[2] - 1)
  BY DEF FindKeys
<1>2. Len(cached[p[1]]) \in 0..MaxIndex
  BY CachedPlace
<1>3. p[2] \in 1..Len(cached[p[1]])
  BY <1>1, <1>2, MaxIndexAssumption
<1>4. cached[p[1]][p[2]] = <<p[1], p[2] - 1>>
  BY <1>3, CachedPlace
<1> QED BY <1>1, <1>4 DEF Derive

\* A key is found for an address that was handed out.
LEMMA KeyFound ==
  ASSUME CacheDerived, GivenCached, NEW address \in given
  PROVE  FindKeys(address) # {}
<1>1. PICK c \in BTCChains : \E i \in 1..Len(cached[c]) : address = cached[c][i]
  BY DEF GivenCached
<1>2. PICK i \in 1..Len(cached[c]) : address = cached[c][i]
  BY <1>1
<1>3. Len(cached[c]) \in 0..MaxIndex
  BY CachedPlace
<1>4. i \in 1..MaxIndex /\ i <= Len(cached[c])
  BY <1>2, <1>3, MaxIndexAssumption
<1>5. <<c, i>> \in {p \in BTCChains \X (1..MaxIndex) : p[2] <= Len(cached[p[1]]) /\ cached[p[1]][p[2]] = address}
  BY <1>2, <1>4
<1> QED BY <1>5 DEF FindKeys

LEMMA SignInv ==
  ASSUME BTCInv, BTCSignTransaction
  PROVE  BTCInv'
<1>1. CacheDerived' /\ GivenCached'
  BY DEF BTCSignTransaction, BTCInv, CacheDerived, GivenCached
<1>2. CASE /\ \E i \in DOMAIN btcTx.inputs : FindKeys(btcTx.inputs[i].address) = {}
           /\ btcOutcome' = "keyNotFound" /\ UNCHANGED <<btcTx, given>>
  BY <1>1, <1>2, KeyFound DEF BTCInv, TxShape, BTCHandedOutIsSignable
<1>3. CASE /\ \A i \in DOMAIN btcTx.inputs : FindKeys(btcTx.inputs[i].address) # {}
           /\ btcTx # NoBtcTx /\ btcOutcome' = "signed"
           /\ btcTx' = [btcTx EXCEPT !.signed =
                          {i \in DOMAIN btcTx.inputs : btcTx.inputs[i].address \in FindKeys(btcTx.inputs[i].address)}]
  <2>1. \A i \in DOMAIN btcTx.inputs : btcTx.inputs[i].address \in FindKeys(btcTx.inputs[i].address)
    BY <1>3, KeyFits DEF BTCInv
  <2>2. btcTx' = [btcTx EXCEPT !.signed = DOMAIN btcTx.inputs]
    BY <1>3, <2>1
  <2>3. btcTx = [inputs |-> btcTx.inputs, payments |-> btcTx.payments, rate |-> btcTx.rate,
                 outputs |-> btcTx.outputs, signed |-> btcTx.signed]
    BY <1>3 DEF BTCInv, TxShape
  <2>4. btcTx' = [inputs |-> btcTx.inputs, payments |-> btcTx.payments, rate |-> btcTx.rate,
                  outputs |-> btcTx.outputs, signed |-> DOMAIN btcTx.inputs]
    BY <2>2, <2>3
  <2> QED BY <1>1, <1>3, <2>4 DEF BTCInv, TxShape, BTCHandedOutIsSignable
<1> QED BY <1>2, <1>3 DEF BTCSignTransaction

LEMMA ReopenInv ==
  ASSUME BTCInv, Reopen
  PROVE  BTCInv'
<1>1. CacheDerived'
  <2>1. \A c \in BTCChains : cached'[c] = FirstOf(c, 0)
    BY DEF Reopen, FirstOf
  <2> QED BY <2>1, MaxIndexAssumption DEF Reopen, CacheDerived
<1> QED BY <1>1 DEF Reopen, BTCInv, GivenCached, TxShape, BTCHandedOutIsSignable

LEMMA BTCNextInv == BTCInv /\ [BTCNext]_btcVars => BTCInv'
<1> SUFFICES ASSUME BTCInv, [BTCNext]_btcVars PROVE BTCInv'
  OBVIOUS
<1>1. CASE UNCHANGED btcVars
  BY <1>1 DEF btcVars, BTCInv, CacheDerived, GivenCached, TxShape, BTCHandedOutIsSignable
<1>2. CASE BTCNext
  BY <1>2, AddressesInv, CreateInv, SignInv, ReopenInv DEF BTCNext
<1> QED BY <1>1, <1>2

(***************************************************************************)
(* The fee.  As long as nothing wraps the words are the integers that they *)
(* stand for, and the fee grows with the size.                             *)
(***************************************************************************)
LEMMA WordFits ==
  ASSUME NEW x \in Nat, x < BTCWord
  PROVE  ToWord(x) = x
BY WordsAssumption DEF ToWord

LEMMA ParsedFits ==
  ASSUME NEW x \in Int, 0 <= x, x < Half
  PROVE  Parsed(x) = x
<1>1. Half \in Nat /\ Half <= BTCWord
  BY WordsAssumption DEF Half
<1>2. Parsed(x) = ToWord(x)
  BY <1>1 DEF Parsed
<1>. QED BY <1>1, <1>2, WordFits, WordsAssumption

\* The partial sums in words.
WordPartial(s, n, g) == g = [i \in 0..n |-> IF i = 0 THEN 0 ELSE ToWord(g[i - 1] + s[i])]

LEMMA WordPartialUnique ==
  ASSUME NEW s, NEW n \in Nat, NEW g, NEW h, WordPartial(s, n, g), WordPartial(s, n, h)
  PROVE  g[n] = h[n]
<1> DEFINE G == {i \in Nat : i <= n => g[i] = h[i]}
<1>1. 0 \in G
  BY DEF WordPartial
<1>2. ASSUME NEW i \in Nat, i \in G PROVE i + 1 \in G
  <2> SUFFICES ASSUME i + 1 <= n PROVE g[i + 1] = h[i + 1]
    OBVIOUS
  <2>1. g[i] = h[i]
    BY <1>2
  <2>2. g[i + 1] = ToWord(g[i] + s[i + 1])
    BY DEF WordPartial
  <2>3. h[i + 1] = ToWord(h[i] + s[i + 1])
    BY DEF WordPartial
  <2>. QED BY <2>1, <2>2, <2>3
<1>3. Nat \subseteq G
  <2> HIDE DEF G
  <2>. QED BY <1>1, <1>2, InductiveSet
<1>. QED BY <1>3

\* A sum that is a word never wraps on the way: its terms are not negative.
LEMMA WordSumFits ==
  ASSUME NEW s \in Seq(Nat), Total(s) < BTCWord
  PROVE  WordSum(s) = Total(s)
<1> DEFINE n == Len(s)
<1>1. n \in Nat /\ \A i \in 1..n : s[i] \in Nat
  OBVIOUS
<1>2. PICK g : Partial(s, n, g) /\ Total(s) = g[n]
  BY TotalIsPartial
<1> HIDE DEF n
<1>3. \A i \in 0..n : g[i] \in Nat /\ g[i] < BTCWord
  BY <1>1, <1>2, PartialNat, WordsAssumption
<1>4. WordPartial(s, n, g)
  <2>1. ASSUME NEW i \in 0..n PROVE g[i] = IF i = 0 THEN 0 ELSE ToWord(g[i - 1] + s[i])
    <3>1. CASE i = 0
      BY <1>1, <1>2, <3>1 DEF Partial
    <3>2. CASE i # 0
      <4>1. g[i] = g[i - 1] + s[i]
        BY <1>1, <1>2, <3>2 DEF Partial
      <4>2. ToWord(g[i]) = g[i]
        BY <1>3, WordFits
      <4>. QED BY <3>2, <4>1, <4>2
    <3>. QED BY <3>1, <3>2
  <2>. QED BY <1>2, <2>1 DEF Partial, WordPartial
<1> DEFINE w == CHOOSE f : WordPartial(s, n, f)
<1>5. WordPartial(s, n, w)
  BY <1>4
<1>6. WordSum(s) = w[n]
  BY DEF WordSum, WordPartial, n
<1> HIDE DEF w
<1>7. w[n] = g[n]
  BY <1>1, <1>4, <1>5, WordPartialUnique
<1>. QED BY <1>2, <1>6, <1>7

LEMMA DivNat ==
  ASSUME NEW k \in Nat \ {0}, NEW a \in Nat
  PROVE  a \div k \in Nat /\ a \div k <= a /\ (a \div k) * k \in Nat /\ (a \div k) * k <= a
<1>1. a \div k \in Nat /\ a \div k <= a
  OBVIOUS
<1>2. (a \div k) * k <= a
  OBVIOUS
<1>. QED BY <1>1, <1>2

LEMMA DivMonotone ==
  ASSUME NEW k \in Nat \ {0}, NEW a \in Nat, NEW b \in Nat, a <= b
  PROVE  a \div k <= b \div k
OBVIOUS

LEMMA TimesMonotone ==
  ASSUME NEW k \in Nat, NEW a \in Nat, NEW b \in Nat, a <= b
  PROVE  a * k \in Nat /\ b * k \in Nat /\ a * k <= b * k
OBVIOUS

LEMMA ExactFeeNat ==
  ASSUME NEW rate \in Nat, NEW size \in Nat
  PROVE  ExactFee(rate, size) \in Nat
<1> DEFINE q == (size * rate) \div Kb
           r == (q + RoundTo - 1) \div RoundTo
           f == (size * StandardFee) \div Kb
<1>1. q \in Nat
  BY DivNat, WordsAssumption
<1> HIDE DEF q
<1>2. q + RoundTo - 1 \in Nat
  BY <1>1, WordsAssumption
<1>3. r * RoundTo \in Nat
  BY <1>2, DivNat, WordsAssumption
<1>4. f \in Nat
  <2>1. size * StandardFee \in Nat
    BY FeesAssumption
  <2>. QED BY <2>1, DivNat, WordsAssumption
<1> HIDE DEF r, f
<1>. QED BY <1>3, <1>4 DEF ExactFee, q, r, f, Larger

\* A transaction that is larger does not cost less.
LEMMA ExactFeeMonotone ==
  ASSUME NEW rate \in Nat, NEW a \in Nat, NEW b \in Nat, a <= b
  PROVE  ExactFee(rate, a) <= ExactFee(rate, b)
<1> DEFINE q(size) == (size * rate) \div Kb
           p(size) == q(size) + RoundTo - 1
           r(size) == (p(size) \div RoundTo) * RoundTo
           f(size) == (size * StandardFee) \div Kb
<1>1. a * rate \in Nat /\ b * rate \in Nat /\ a * rate <= b * rate
  BY TimesMonotone
<1>2. q(a) \in Nat /\ q(b) \in Nat /\ q(a) <= q(b)
  BY <1>1, DivNat, DivMonotone, WordsAssumption
<1> HIDE DEF q
<1>3. p(a) \in Nat /\ p(b) \in Nat /\ p(a) <= p(b)
  BY <1>2, WordsAssumption
<1> HIDE DEF p
<1>4. p(a) \div RoundTo \in Nat /\ p(b) \div RoundTo \in Nat /\ p(a) \div RoundTo <= p(b) \div RoundTo
  BY <1>3, DivNat, DivMonotone, WordsAssumption
<1>5. r(a) \in Nat /\ r(b) \in Nat /\ r(a) <= r(b)
  BY <1>4, TimesMonotone, WordsAssumption
<1>6. a * StandardFee \in Nat /\ b * StandardFee \in Nat /\ a * StandardFee <= b * StandardFee
  BY TimesMonotone, FeesAssumption
<1>7. f(a) \in Nat /\ f(b) \in Nat /\ f(a) <= f(b)
  BY <1>6, DivNat, DivMonotone, WordsAssumption
<1>8. ExactFee(rate, a) = Larger(r(a), f(a)) /\ ExactFee(rate, b) = Larger(r(b), f(b))
  BY DEF ExactFee, q, p
<1> HIDE DEF r, f
<1>. QED BY <1>5, <1>7, <1>8 DEF Larger

LEMMA TxFeeFits ==
  ASSUME NEW rate \in Nat, NEW size \in Nat, size * rate + RoundTo <= BTCWord
  PROVE  TxFee(rate, size) = ExactFee(rate, size)
<1> DEFINE x == size * rate
           q == x \div Kb
           p == q + RoundTo - 1
           r == (p \div RoundTo) * RoundTo
<1>1. x \in Nat /\ x + RoundTo <= BTCWord
  OBVIOUS
<1> HIDE DEF x
<1>2. ToWord(x) = x
  BY <1>1, WordFits, WordsAssumption
<1>3. q \in Nat /\ q <= x
  BY <1>1, DivNat, WordsAssumption
<1> HIDE DEF q
<1>4. p \in Nat /\ p < BTCWord
  BY <1>1, <1>3, WordsAssumption
<1> HIDE DEF p
<1>5. ToWord(p) = p
  BY <1>4, WordFits
<1>6. r \in Nat /\ r <= p
  BY <1>4, DivNat, WordsAssumption
<1> HIDE DEF r
<1>7. ToWord(r) = r
  BY <1>4, <1>6, WordFits, WordsAssumption
<1>8. TxFee(rate, size) = Larger(ToWord((ToWord(ToWord(x) \div Kb + RoundTo - 1) \div RoundTo) * RoundTo),
                                 (size * StandardFee) \div Kb)
  BY DEF TxFee, x
<1>9. TxFee(rate, size) = Larger(r, (size * StandardFee) \div Kb)
  BY <1>2, <1>5, <1>7, <1>8 DEF q, p, r
<1>. QED BY <1>9 DEF ExactFee, x, q, p, r

\* What BTCFeeFits says of a transaction.
FeeFits(tx) ==
  InRange(tx) =>
    LET size == VSize(Len(tx.inputs), Len(tx.outputs))
        fee  == Total([i \in DOMAIN tx.inputs |-> tx.inputs[i].amount]) - Total(tx.outputs)
        dust == MinOutputAmountWithFeePerKb(tx.rate)
    IN  /\ SubSeq(tx.outputs, 1, Len(tx.payments)) = tx.payments
        /\ fee >= ExactFee(tx.rate, size)
        /\ fee <= ExactFee(tx.rate, size + OutputSize) + dust
        /\ Len(tx.outputs) > Len(tx.payments) => tx.outputs[Len(tx.outputs)] > dust

LEMMA CreateFee ==
  ASSUME NEW inputs \in SeqOf(Coins, MaxCoins), NEW payments \in SeqOf(BTCPayments, MaxPayments),
         NEW rate \in Rates, BTCCreateTransaction(inputs, payments, rate), btcTx' # NoBtcTx
  PROVE  FeeFits(btcTx')
<1> DEFINE amounts == [i \in DOMAIN inputs |-> Parsed(inputs[i].amount)]
           paid    == [i \in DOMAIN payments |-> Parsed(payments[i])]
           exact   == [i \in DOMAIN inputs |-> inputs[i].amount]
           full    == VSize(Len(inputs), Len(paid)) + OutputSize
           fee     == TxFee(Parsed(rate), full)
           in      == WordSum(amounts)
           out     == ToWord(WordSum(paid) + fee)
           rest    == ToWord(in - out)
           dust    == MinOutputAmountWithFeePerKb(Parsed(rate))
           outputs == IF rest > dust THEN Append(paid, rest) ELSE paid
           tx      == [inputs |-> inputs, payments |-> payments, rate |-> rate,
                       outputs |-> outputs, signed |-> {}]
<1>1. btcTx' = tx /\ in >= out
  BY DEF BTCCreateTransaction, FeeSize
<1> HIDE DEF amounts, paid, exact, full, fee, in, out, rest, dust, outputs
<1> SUFFICES ASSUME InRange(tx)
             PROVE  /\ SubSeq(outputs, 1, Len(payments)) = payments
                    /\ Total(exact) - Total(outputs) >= ExactFee(rate, VSize(Len(inputs), Len(outputs)))
                    /\ Total(exact) - Total(outputs)
                         <= ExactFee(rate, VSize(Len(inputs), Len(outputs)) + OutputSize)
                            + MinOutputAmountWithFeePerKb(rate)
                    /\ Len(outputs) > Len(payments) =>
                         outputs[Len(outputs)] > MinOutputAmountWithFeePerKb(rate)
  BY <1>1 DEF FeeFits, exact
<1>2. /\ inputs \in Seq(Coins) /\ payments \in Seq(Int) /\ rate \in Int
      /\ \A i \in DOMAIN inputs : inputs[i].amount \in Int
  <2>1. PICK m \in 0..MaxCoins : inputs \in [1..m -> Coins]
    BY DEF SeqOf
  <2>2. PICK k \in 0..MaxPayments : payments \in [1..k -> BTCPayments]
    BY DEF SeqOf
  <2>3. m \in Nat /\ k \in Nat /\ payments \in [1..k -> Int]
    <3>1. m \in Nat /\ k \in Nat /\ BTCPayments \subseteq Int
      BY CoinsAssumption
    <3>. QED BY <2>2, <3>1
  <2>4. inputs \in Seq(Coins) /\ payments \in Seq(Int)
    BY <2>1, <2>3
  <2>. QED BY <2>1, <2>4, CoinsAssumption
<1>3. /\ \A i \in DOMAIN inputs : 0 <= inputs[i].amount /\ inputs[i].amount < Half
      /\ \A i \in DOMAIN payments : 0 <= payments[i] /\ payments[i] < Half
      /\ Total(exact) < BTCWord
      /\ 0 <= rate /\ rate < Half
  BY DEF InRange, exact
<1>4. Parsed(rate) = rate /\ rate \in Nat
  BY <1>2, <1>3, ParsedFits
<1>5. amounts = exact /\ exact \in Seq(Nat)
  <2>1. \A i \in DOMAIN inputs : Parsed(inputs[i].amount) = inputs[i].amount /\ inputs[i].amount \in Nat
    BY <1>2, <1>3, ParsedFits
  <2>. QED BY <1>2, <2>1 DEF amounts, exact
<1>6. paid = payments /\ payments \in Seq(Nat)
  <2>1. \A i \in DOMAIN payments : payments[i] \in Nat /\ Parsed(payments[i]) = payments[i]
    BY <1>2, <1>3, ParsedFits
  <2>. QED BY <1>2, <2>1 DEF paid
<1>7. /\ full * rate + RoundTo <= BTCWord
      /\ Total(payments) + ExactFee(rate, full) < BTCWord
  BY <1>6 DEF InRange, full
<1> DEFINE n == Len(inputs)
           p == Len(payments)
<1>8. n \in Nat /\ p \in Nat
  BY <1>2
<1> HIDE DEF n, p
<1>9. VSize(n, p) \in Nat /\ full = VSize(n, p) + OutputSize /\ full \in Nat /\ VSize(n, p + 1) = full
  <2>1. n * InputSize \in Nat /\ p * OutputSize \in Nat /\ (p + 1) * OutputSize = p * OutputSize + OutputSize
    BY <1>8, SizesAssumption
  <2>2. full = VSize(n, p) + OutputSize
    BY <1>6 DEF full, n, p
  <2>. QED BY <2>1, <2>2, SizesAssumption DEF VSize
<1>10. fee = ExactFee(rate, full) /\ fee \in Nat
  BY <1>4, <1>7, <1>9, TxFeeFits, ExactFeeNat DEF fee
<1>11. Total(payments) \in Nat /\ Total(exact) \in Nat
  BY <1>5, <1>6, TotalNat
<1>12. WordSum(payments) = Total(payments) /\ in = Total(exact)
  <2>1. Total(payments) < BTCWord
    BY <1>7, <1>10, <1>11, WordsAssumption
  <2>. QED BY <1>3, <1>5, <1>6, <2>1, WordSumFits DEF in
<1>13. out = Total(payments) + fee
  BY <1>6, <1>7, <1>10, <1>11, <1>12, WordFits DEF out
<1>14. rest = Total(exact) - Total(payments) - fee /\ rest \in Nat
  <2>1. in - out \in Nat /\ in - out < BTCWord
    BY <1>1, <1>3, <1>10, <1>11, <1>12, <1>13, WordsAssumption
  <2>. QED BY <2>1, <1>10, <1>11, <1>12, <1>13, WordFits DEF rest
<1>15. dust = MinOutputAmountWithFeePerKb(rate) /\ dust \in Nat
  <2>1. MinOutput * rate + MinFee - 1 \in Int
    BY <1>4, FeesAssumption
  <2>2. ToWord(MinOutput * rate + MinFee - 1) \in Nat
    BY <2>1, WordsAssumption DEF ToWord
  <2>3. ToWord(MinOutput * rate + MinFee - 1) \div MinFee \in Nat
    BY <2>2, DivNat, FeesAssumption
  <2>. QED BY <1>4, <2>3, FeesAssumption DEF dust, MinOutputAmountWithFeePerKb, Larger
<1>16. CASE rest > dust
  <2>1. outputs = Append(payments, rest)
    BY <1>6, <1>16 DEF outputs
  <2>2. /\ Len(outputs) = p + 1 /\ outputs[p + 1] = rest
        /\ SubSeq(outputs, 1, p) = payments
    BY <1>6, <1>14, <2>1 DEF p
  <2>3. Total(outputs) = Total(payments) + rest
    <3>1. payments \in Seq(Int) /\ rest \in Int
      BY <1>2, <1>14
    <3>. QED BY <2>1, <3>1, TotalAppend
  <2>4. Total(exact) - Total(outputs) = fee
    BY <1>10, <1>11, <1>14, <2>3
  <2>5. ExactFee(rate, full) <= ExactFee(rate, full + OutputSize) /\ ExactFee(rate, full + OutputSize) \in Nat
    <3>1. full + OutputSize \in Nat /\ full <= full + OutputSize
      BY <1>9, SizesAssumption
    <3>. QED BY <1>4, <1>9, <3>1, ExactFeeMonotone, ExactFeeNat
  <2>6. fee <= ExactFee(rate, full + OutputSize) + dust
    BY <1>10, <1>15, <2>5
  <2>. QED BY <1>9, <1>10, <1>15, <1>16, <2>2, <2>4, <2>6 DEF n, p
<1>17. CASE ~(rest > dust)
  <2>1. outputs = payments
    BY <1>6, <1>17 DEF outputs
  <2>2. SubSeq(outputs, 1, p) = payments
    BY <1>2, <2>1 DEF p
  <2>3. Total(exact) - Total(outputs) = fee + rest
    BY <1>10, <1>11, <1>14, <2>1
  <2>4. ExactFee(rate, VSize(n, p)) <= fee /\ ExactFee(rate, VSize(n, p)) \in Nat
    BY <1>4, <1>9, <1>10, ExactFeeMonotone, ExactFeeNat, SizesAssumption
  <2>5. ExactFee(rate, VSize(n, p)) <= fee + rest
    BY <1>10, <1>14, <2>4
  <2>6. fee + rest <= ExactFee(rate, full) + dust
    BY <1>10, <1>14, <1>15, <1>17
  <2>. QED BY <1>8, <1>9, <1>15, <2>1, <2>2, <2>3, <2>5, <2>6 DEF n, p
<1>. QED BY <1>16, <1>17

\* The signature of an input never fails for an address that the wallet handed out
\* since it was opened, and a transaction that counts as signed has a signature by
\* the right key on every input, however many addresses were derived in whatever
\* order.
THEOREM SpecHandedOutIsSignable == BTCSpec => []BTCHandedOutIsSignable
<1>1. BTCInv => BTCHandedOutIsSignable
  BY DEF BTCInv
<1> QED BY BTCInitInv, BTCNextInv, <1>1, PTL DEF BTCSpec

\* The record a transaction is does not change when it is signed, but for the
\* signatures.
LEMMA FeeNext ==
  ASSUME BTCInv, BTCFeeFits, [BTCNext]_btcVars
  PROVE  BTCFeeFits'
<1>1. BTCFeeFits <=> (btcTx # NoBtcTx => FeeFits(btcTx))
  BY DEF BTCFeeFits, FeeFits
<1>2. BTCFeeFits' <=> (btcTx' # NoBtcTx => FeeFits(btcTx'))
  BY DEF BTCFeeFits, FeeFits, InRange
<1> SUFFICES ASSUME btcTx' # NoBtcTx PROVE FeeFits(btcTx')
  BY <1>2
<1>3. CASE btcTx' = btcTx
  BY <1>1, <1>3
<1>4. ASSUME NEW inputs \in SeqOf(Coins, MaxCoins), NEW payments \in SeqOf(BTCPayments, MaxPayments),
             NEW rate \in Rates, BTCCreateTransaction(inputs, payments, rate)
      PROVE  FeeFits(btcTx')
  BY <1>4, CreateFee
<1>5. CASE BTCSignTransaction
  <2>1. CASE btcTx' = [btcTx EXCEPT !.signed =
                         {i \in DOMAIN btcTx.inputs : btcTx.inputs[i].address \in FindKeys(btcTx.inputs[i].address)}]
             /\ btcTx # NoBtcTx
    <3>1. btcTx = [inputs |-> btcTx.inputs, payments |-> btcTx.payments, rate |-> btcTx.rate,
                   outputs |-> btcTx.outputs, signed |-> btcTx.signed]
      BY <2>1 DEF BTCInv, TxShape
    <3>2. /\ btcTx'.inputs = btcTx.inputs /\ btcTx'.payments = btcTx.payments
          /\ btcTx'.rate = btcTx.rate /\ btcTx'.outputs = btcTx.outputs
      BY <2>1, <3>1
    <3>3. FeeFits(btcTx)
      BY <1>1, <2>1
    <3>. QED BY <3>2, <3>3 DEF FeeFits, InRange
  <2>. QED BY <1>3, <1>5, <2>1 DEF BTCSignTransaction
<1>6. CASE BTCNext
  <2>1. CASE \E index, count \in 0..MaxIndex, internal \in BOOLEAN :
               index + count <= MaxIndex /\ BTCGetAddresses(index, count, internal)
    BY <1>3, <2>1 DEF BTCGetAddresses
  <2>2. CASE Reopen
    BY <1>3, <2>2 DEF Reopen
  <2>. QED BY <1>4, <1>5, <1>6, <2>1, <2>2 DEF BTCNext
<1>. QED BY <1>3, <1>6 DEF btcVars

\* As long as the amounts and the fee rate stay in range, a transaction pays what it
\* was asked to pay, a fee that is at least what its size calls for and at most that
\* for one output more and an amount of dust, and its change is not dust: for any
\* word, sizes, fees, coins and payments, before and after it is signed.
THEOREM SpecFeeFits == BTCSpec => []BTCFeeFits
<1>1. BTCInit => BTCFeeFits
  BY DEF BTCInit, BTCFeeFits
<1>2. BTCInv /\ BTCFeeFits /\ [BTCNext]_btcVars => BTCFeeFits'
  BY FeeNext
<1> QED BY BTCInitInv, BTCNextInv, <1>1, <1>2, PTL DEF BTCSpec
=============================================================================
