--------------------------- MODULE AccountProofs ---------------------------
(***************************************************************************)
(* Proofs about Account, for every set of passwords.                       *)
(***************************************************************************)
EXTENDS Account, TLAPS

\* All secrets of a store open with one password.
OneKey(s, w) == \A f \in Secret : Opens(s.sec[f], w)

\* The first part of RegenerateKey, with a password it accepts: whatever it
\* stores is encrypted under the password that opens the rest.
LEMMA SeedStepKeeps ==
  ASSUME NEW s \in Store, NEW p \in Password, NEW w \in Password,
         OneKey(s, w), ~SeedThrows(s, p)
  PROVE  /\ SeedStep(s, p) \in Store /\ OneKey(SeedStep(s, p), w)
         /\ SeedStep(s, p).sec["seed"] # Empty => p = w
         /\ p # w => SeedStep(s, p) = s
         /\ SeedStep(s, p).pub = s.pub /\ SeedStep(s, p).multi = s.multi
<1>1. CASE SeedDerivable(s)
  <2>1. p = w
    BY <1>1, PasswordAssumption DEF SeedThrows, SeedDerivable, OneKey, Opens, Secret, Store
  <2>2. SeedStep(s, p) = [s EXCEPT !.sec["seed"] = p, !.passphrase = Empty,
                                   !.hasPassPhrase = @ \/ s.passphrase # Empty]
    BY <1>1 DEF SeedStep
  <2>3. SeedStep(s, p) \in Store
    <3> DEFINE h == s.hasPassPhrase \/ s.passphrase # Empty
               t == [s.sec EXCEPT !["seed"] = p]
    <3>1. SeedStep(s, p) = [s EXCEPT !.sec = t, !.passphrase = Empty, !.hasPassPhrase = h]
      BY <2>2 DEF Store
    <3>2. h \in BOOLEAN
      OBVIOUS
    <3>3. t \in [Secret -> Field] /\ Empty \in Field
      BY DEF Store, Field
    <3> HIDE DEF h, t
    <3> QED BY <3>1, <3>2, <3>3 DEF Store
  <2> QED BY <2>1, <2>2, <2>3 DEF OneKey, Opens, Store, Secret
<1>2. CASE ~SeedDerivable(s)
  BY <1>2, PasswordAssumption DEF SeedStep, SeedThrows, OneKey, Opens, Secret, Store
<1> QED BY <1>1, <1>2

\* The second part.
LEMMA RootStepKeeps ==
  ASSUME NEW s \in Store, NEW p \in Password, NEW w \in Password,
         OneKey(s, w), ~RootThrows(s, p), s.sec["seed"] # Empty => p = w
  PROVE  /\ RootStep(s, p) \in Store /\ OneKey(RootStep(s, p), w)
         /\ RootStep(s, p).sec["xPrivKey"] # Empty => p = w
         /\ RootStep(s, p).sec["seed"] # Empty => p = w
         /\ p # w => RootStep(s, p) = s
         /\ RootStep(s, p).pub = s.pub /\ RootStep(s, p).multi = s.multi
<1>1. CASE s.sec["xPrivKey"] = Empty /\ s.sec["seed"] # Empty
  <2>1. RootStep(s, p) = [s EXCEPT !.sec["xPrivKey"] = p] /\ p = w
    BY <1>1 DEF RootStep
  <2>2. RootStep(s, p) \in Store
    BY <2>1 DEF Store, Field, Secret
  <2> QED BY <2>1, <2>2 DEF OneKey, Opens, Store, Secret
<1>2. CASE ~(s.sec["xPrivKey"] = Empty /\ s.sec["seed"] # Empty)
  BY <1>2, PasswordAssumption DEF RootStep, RootThrows, OneKey, Opens, Secret, Store
<1> QED BY <1>1, <1>2

\* The third part.
LEMMA KeyStepKeeps ==
  ASSUME NEW s \in Store, NEW p \in Password, NEW w \in Password, OneKey(s, w),
         s.sec["xPrivKey"] # Empty => p = w, s.sec["seed"] # Empty => p = w
  PROVE  /\ KeyStep(s, p) \in Store /\ OneKey(KeyStep(s, p), w)
         /\ p # w => KeyStep(s, p) = s
         /\ KeyStep(s, p).multi = s.multi
<1> DEFINE r == IF s.sec["requestPrivKey"] = Empty /\ s.sec["xPrivKey"] # Empty
                THEN p ELSE s.sec["requestPrivKey"]
           k == IF s.sec["seed"] # Empty /\ (s.sec["singlePrivateKey"] = Empty
                                             \/ "ethscPrimaryPubKey" \notin s.pub)
                THEN p ELSE s.sec["singlePrivateKey"]
           fromRoot == {"xPubKey", "xPubKeyHDPM", "ownerPubKey"} \cup
                       (IF s.sec["requestPrivKey"] = Empty THEN {"requestPubKey"} ELSE {})
           fromSeed == {"xPubKeyBitcoin", "ethscPrimaryPubKey", "ripplePrimaryPubKey"}
           b == s.pub \cup (IF s.sec["xPrivKey"] # Empty THEN fromRoot ELSE {})
                      \cup (IF s.sec["seed"] # Empty THEN fromSeed ELSE {})
<1>1. KeyStep(s, p) = [s EXCEPT !.sec["requestPrivKey"] = r, !.sec["singlePrivateKey"] = k, !.pub = b]
  BY DEF KeyStep, Store, Secret
<1>2. r \in Field /\ k \in Field /\ Opens(r, w) /\ Opens(k, w)
  BY DEF OneKey, Opens, Store, Field, Secret
<1>3. b \in SUBSET PubKey
  BY DEF Store, PubKey
<1>4. p # w => /\ s.sec["xPrivKey"] = Empty /\ s.sec["seed"] = Empty
               /\ r = s.sec["requestPrivKey"] /\ k = s.sec["singlePrivateKey"] /\ b = s.pub
  OBVIOUS
<1> HIDE DEF r, k, b
<1>5. KeyStep(s, p) \in Store
  <2> DEFINE t == [s.sec EXCEPT !["requestPrivKey"] = r, !["singlePrivateKey"] = k]
  <2>1. KeyStep(s, p) = [s EXCEPT !.sec = t, !.pub = b]
    BY <1>1 DEF Store
  <2>2. t \in [Secret -> Field]
    BY <1>2 DEF Store
  <2> HIDE DEF t
  <2> QED BY <2>1, <2>2, <1>3 DEF Store
<1>6. OneKey(KeyStep(s, p), w)
  BY <1>1, <1>2 DEF OneKey, Store, Secret
<1>7. p # w => KeyStep(s, p) = s
  <2> SUFFICES ASSUME p # w PROVE KeyStep(s, p) = s
    OBVIOUS
  <2> DEFINE t == [s.sec EXCEPT !["requestPrivKey"] = r, !["singlePrivateKey"] = k]
  <2>1. KeyStep(s, p) = [s EXCEPT !.sec = t, !.pub = b]
    BY <1>1 DEF Store
  <2>2. t = s.sec
    BY <1>4 DEF Store, Secret
  <2>3. b = s.pub
    BY <1>4
  <2> HIDE DEF t
  <2> QED BY <2>1, <2>2, <2>3 DEF Store
<1> QED BY <1>1, <1>5, <1>6, <1>7 DEF Store

\* RegenerateKey with any password: one that is accepted keeps all secrets
\* under one password, and a wrong one changes nothing whether it is noticed
\* or not.
LEMMA RegenerateKeeps ==
  ASSUME NEW s \in Store, NEW p \in Password, NEW w \in Password, OneKey(s, w)
  PROVE  /\ ~RegenerateThrows(s, p) =>
              /\ Regenerated(s, p) \in Store /\ OneKey(Regenerated(s, p), w)
              /\ p # w => Regenerated(s, p) = s
              /\ Regenerated(s, p).multi = s.multi
         /\ RegenerateThrows(s, p) => RegenerateLeft(s, p) = s
<1>1. ASSUME ~RegenerateThrows(s, p)
      PROVE  /\ Regenerated(s, p) \in Store /\ OneKey(Regenerated(s, p), w)
             /\ p # w => Regenerated(s, p) = s
             /\ Regenerated(s, p).multi = s.multi
  <2> DEFINE a == SeedStep(s, p)
             b == RootStep(a, p)
  <2>1. ~SeedThrows(s, p) /\ ~RootThrows(a, p)
    BY <1>1 DEF RegenerateThrows
  <2>2. /\ a \in Store /\ OneKey(a, w) /\ (a.sec["seed"] # Empty => p = w)
        /\ (p # w => a = s) /\ a.multi = s.multi
    BY <2>1, SeedStepKeeps
  <2> HIDE DEF a
  <2>3. /\ b \in Store /\ OneKey(b, w) /\ (b.sec["seed"] # Empty => p = w)
        /\ (b.sec["xPrivKey"] # Empty => p = w) /\ (p # w => b = a) /\ b.multi = a.multi
    BY <2>1, <2>2, RootStepKeeps
  <2> HIDE DEF b
  <2>4. /\ KeyStep(b, p) \in Store /\ OneKey(KeyStep(b, p), w)
        /\ (p # w => KeyStep(b, p) = b) /\ KeyStep(b, p).multi = b.multi
    BY <2>3, KeyStepKeeps
  <2>5. Regenerated(s, p) = KeyStep(b, p)
    BY DEF Regenerated, a, b
  <2> QED BY <2>2, <2>3, <2>4, <2>5
<1>2. ASSUME RegenerateThrows(s, p) PROVE RegenerateLeft(s, p) = s
  <2>1. CASE SeedThrows(s, p)
    BY <2>1 DEF RegenerateLeft
  <2>2. CASE ~SeedThrows(s, p)
    <3>1. RootThrows(SeedStep(s, p), p) /\ OneKey(SeedStep(s, p), w)
      BY <1>2, <2>2, SeedStepKeeps DEF RegenerateThrows
    <3>2. p # w
      BY <3>1 DEF RootThrows, OneKey, Opens, Secret
    <3>3. SeedStep(s, p) = s
      BY <2>2, <3>2, SeedStepKeeps
    <3> QED BY <2>2, <3>3 DEF RegenerateLeft
  <2> QED BY <2>1, <2>2
<1> QED BY <1>1, <1>2
-----------------------------------------------------------------------------
(***************************************************************************)
(* The inductive invariant.  OnePassword and StoreSaved need each other    *)
(* (Load reads the file back), and need the types.                         *)
(***************************************************************************)
AccountInv == TypeOK /\ OnePassword /\ StoreSaved /\ (alive => disk # Torn)

\* A fresh encryption of some of the secrets is under one password.
LEMMA EncryptedOne ==
  ASSUME NEW S \in SUBSET Secret, NEW p \in Password
  PROVE  Encrypted(S, p) \in [Secret -> Field] /\ \A f \in Secret : Opens(Encrypted(S, p)[f], p)
BY DEF Encrypted, Field, Opens

\* The stores the constructors and the old files give are under one password.
LEMMA InitialStoreOne ==
  ASSUME NEW p \in Password, NEW s \in InitialStore(p)
  PROVE  s \in Store /\ OneKey(s, p)
<1>1. \A S \in SUBSET Secret : Encrypted(S, p) \in [Secret -> Field]
                              /\ \A f \in Secret : Opens(Encrypted(S, p)[f], p)
  BY EncryptedOne
<1>2. Encrypted({}, Empty) = Encrypted({}, p)
  BY DEF Encrypted
<1>3. /\ {} \in SUBSET Secret /\ {"mnemonic"} \in SUBSET Secret /\ {"singlePrivateKey"} \in SUBSET Secret
      /\ {"xPrivKey", "requestPrivKey"} \in SUBSET Secret
      /\ {"mnemonic", "xPrivKey", "requestPrivKey"} \in SUBSET Secret
      /\ Secret \ {"mnemonic"} \in SUBSET Secret /\ Secret \in SUBSET Secret
  BY DEF Secret
<1>4. Empty \in Field /\ p \in Field
  BY DEF Field
<1>5. ASSUME NEW h \in BOOLEAN PROVE HDStore(p, h) \in Store /\ OneKey(HDStore(p, h), p)
  BY <1>1, <1>3, <1>4 DEF HDStore, Store, OneKey
<1>6. SeedStore(p) \in Store /\ OneKey(SeedStore(p), p)
  BY <1>1, <1>3, <1>4 DEF SeedStore, HDStore, Store, OneKey
<1>7. SingleKeyStore(p) \in Store /\ OneKey(SingleKeyStore(p), p)
  BY <1>1, <1>3, <1>4 DEF SingleKeyStore, HDStore, Store, OneKey, PubKey
<1>8. XprvMultiSignStore(p) \in Store /\ OneKey(XprvMultiSignStore(p), p)
  BY <1>1, <1>3, <1>4 DEF XprvMultiSignStore, Store, OneKey, PubKey
<1>9. ASSUME NEW h \in BOOLEAN
      PROVE  MnemonicMultiSignStore(p, h) \in Store /\ OneKey(MnemonicMultiSignStore(p, h), p)
  BY <1>1, <1>3, <1>4 DEF MnemonicMultiSignStore, HDStore, Store, OneKey
<1>10. ReadonlyMultiSignStore \in Store /\ OneKey(ReadonlyMultiSignStore, p)
  BY <1>1, <1>2, <1>3, <1>4 DEF ReadonlyMultiSignStore, Store, OneKey
<1>11. ASSUME NEW h \in BOOLEAN, NEW pub \in {{}, {"xPubKey", "ownerPubKey"}}
       PROVE  OldStore(p, h, pub) \in Store /\ OneKey(OldStore(p, h, pub), p)
  BY <1>1, <1>3, <1>4 DEF OldStore, Store, OneKey, PubKey
<1>12. ASSUME NEW h \in BOOLEAN PROVE EarlierStore(p, h) \in Store /\ OneKey(EarlierStore(p, h), p)
  BY <1>1, <1>3, <1>4 DEF EarlierStore, Store, OneKey, PubKey
<1> QED BY <1>5, <1>6, <1>7, <1>8, <1>9, <1>10, <1>11, <1>12 DEF InitialStore

\* Changing the password of a store whose secrets are all under the old one.
LEMMA ChangeKeeps ==
  ASSUME NEW sec \in [Secret -> Field], NEW p \in Password, NEW q \in Password, NEW w \in Password,
         \A f \in Secret : Opens(sec[f], w)
  PROVE  /\ ChangePasswd(sec, p, q) \in [Secret -> Field]
         /\ ~ChangeThrows(sec, p) => \A f \in Secret : Opens(ChangePasswd(sec, p, q)[f], q)
         /\ ChangeThrows(sec, p) => ChangePasswd(sec, p, q) = sec
<1>1. ChangePasswd(sec, p, q) \in [Secret -> Field]
  BY DEF ChangePasswd, Field
<1>2. /\ \A i \in DOMAIN Order : Order[i] \in Secret
      /\ \A f \in Secret : \E j \in DOMAIN Order : Order[j] = f /\ j <= j
  BY DEF Order, Secret
<1>3. ASSUME ~ChangeThrows(sec, p), NEW f \in Secret PROVE Opens(ChangePasswd(sec, p, q)[f], q)
  BY <1>2, <1>3 DEF ChangePasswd, ChangeThrows, Opens
<1>4. ASSUME ChangeThrows(sec, p) PROVE ChangePasswd(sec, p, q) = sec
  <2>1. p # w
    BY <1>4 DEF ChangeThrows
  <2>2. \A f \in Secret : sec[f] # Empty => ~Opens(sec[f], p)
    BY <2>1 DEF Opens
  <2>3. \A f \in Secret : ChangePasswd(sec, p, q)[f] = sec[f]
    BY <1>2, <2>2 DEF ChangePasswd
  <2> QED BY <1>1, <2>3 DEF ChangePasswd
<1> QED BY <1>1, <1>3, <1>4

\* What a password call works on, once RegenerateKey has not thrown.
LEMMA ReadyKeeps ==
  ASSUME AccountInv, NEW p \in Password, ~NotReady(p)
  PROVE  /\ Ready(p) \in Store /\ OneKey(Ready(p), pw) /\ Ready(p).multi = store.multi
         /\ p # pw => Ready(p) = store
<1>1. store \in Store /\ pw \in Password /\ OneKey(store, pw)
  BY DEF AccountInv, TypeOK, OnePassword, OneKey
<1> QED BY <1>1, RegenerateKeeps DEF NotReady, Ready

\* A RegenerateKey that throws has changed nothing.
LEMMA NotReadyKeeps ==
  ASSUME AccountInv, NEW p \in Password, NotReady(p)
  PROVE  RegenerateLeft(store, p) = store
<1>1. store \in Store /\ pw \in Password /\ OneKey(store, pw)
  BY DEF AccountInv, TypeOK, OnePassword, OneKey
<1> QED BY <1>1, RegenerateKeeps DEF NotReady

\* What comes back from a call is one of the values a call returns.
LEMMA DecryptedVal ==
  ASSUME NEW s, NEW S, NEW p
  PROVE  Decrypted(s, S, p) \in {"throw", "empty", "secret"}
BY DEF Decrypted

\* A call that only returns something keeps the invariant.
LEMMA RefuseKeeps ==
  ASSUME AccountInv, NEW op \in Op, NEW p \in Password, NEW val \in Val, Refuse(op, p, val)
  PROVE  AccountInv'
BY DEF AccountInv, Refuse, TypeOK, OnePassword, StoreSaved, Ret, Field

\* A call that RegenerateKey ends with an exception.
LEMMA RegenerateFailsKeeps ==
  ASSUME AccountInv, NEW op \in Op, NEW p \in Password, RegenerateFails(op, p)
  PROVE  AccountInv' /\ UNCHANGED <<store, disk, inits, pw>>
<1>1. store' = store
  BY NotReadyKeeps DEF RegenerateFails
<1> QED BY <1>1 DEF AccountInv, RegenerateFails, TypeOK, OnePassword, StoreSaved, Ret, Field, Val

\* RegenerateKey, Save and Init at the start of a call.
LEMMA MakeReadyKeeps ==
  ASSUME AccountInv, alive, NEW p \in Password, ~NotReady(p), MakeReady(p)
  PROVE  /\ store' \in Store /\ OneKey(store', pw) /\ disk' = store' /\ store' = Ready(p)
         /\ inits' \in 0..MaxInits
<1>1. Ready(p) \in Store /\ OneKey(Ready(p), pw)
  BY ReadyKeeps
<1>2. disk = store /\ inits \in 0..MaxInits /\ MaxInits \in Nat
  BY PasswordAssumption DEF AccountInv, StoreSaved, TypeOK
<1>3. disk' = store' /\ store' = Ready(p)
  BY <1>2 DEF MakeReady, Ready
<1>4. inits' \in 0..MaxInits
  BY <1>2 DEF MakeReady, Pushes
<1> QED BY <1>1, <1>3, <1>4

\* A call that starts so, and then only returns something.
LEMMA MadeReadyKeeps ==
  ASSUME AccountInv, alive, NEW p \in Password, ~NotReady(p), MakeReady(p),
         ret' \in [op : Op, p : Field, val : Val], alive' = alive, pw' = pw,
         backup' \in Keystore \cup {NoBackup}
  PROVE  AccountInv'
<1>1. store' \in Store /\ OneKey(store', pw) /\ disk' = store' /\ inits' \in 0..MaxInits
  BY MakeReadyKeeps
<1>2. store' # Torn
  BY <1>1 DEF Store, Torn
<1> QED BY <1>1, <1>2 DEF AccountInv, TypeOK, OnePassword, OneKey, StoreSaved

\* A call with a password that returns a value.
LEMMA PasswordCallKeeps ==
  ASSUME AccountInv, alive, NEW op \in Op, NEW p \in Password, NEW val \in Val, PasswordCall(op, p, val)
  PROVE  AccountInv'
<1>1. CASE RegenerateFails(op, p)
  BY <1>1, RegenerateFailsKeeps
<1>2. CASE ~NotReady(p) /\ MakeReady(p) /\ ret' = Ret(op, p, val) /\ UNCHANGED <<alive, backup, pw>>
  <2>1. ret' \in [op : Op, p : Field, val : Val]
    BY <1>2 DEF Ret, Field
  <2>2. backup' \in Keystore \cup {NoBackup}
    BY <1>2 DEF AccountInv, TypeOK
  <2> QED BY <1>2, <2>1, <2>2, MadeReadyKeeps
<1> QED BY <1>1, <1>2 DEF PasswordCall

\* The calls that read or verify.
LEMMA ReadKeeps ==
  ASSUME AccountInv, NEW p \in Password,
         \/ \E f \in {"xPrivKey", "requestPrivKey", "mnemonic"} : ReadKey(f, p)
         \/ \E f \in {"seed", "singlePrivateKey"} : ReadStored(f, p)
         \/ VerifyPayPassword(p)
         \/ \E matches \in BOOLEAN : VerifyPassPhrase(matches, p)
  PROVE  AccountInv'
<1>1. /\ {"read", "verify"} \subseteq Op
      /\ {"throw", "empty", "secret", "true", "false"} \subseteq Val
  BY DEF Op, Val
<1>2. \A s, S : Decrypted(s, S, p) \in Val
  BY <1>1, DecryptedVal
<1>3. \A s, matches : PayPasswordVerdict(s, p) \in Val /\ PassPhraseVerdict(s, p, matches) \in Val
  BY <1>1 DEF PayPasswordVerdict, PassPhraseVerdict
<1>4. ASSUME NEW f, ReadKey(f, p) PROVE AccountInv'
  BY <1>1, <1>2, <1>4, RefuseKeeps, PasswordCallKeeps DEF ReadKey
<1>5. ASSUME NEW f, ReadStored(f, p) PROVE AccountInv'
  BY <1>1, <1>2, <1>5, RefuseKeeps DEF ReadStored
<1>6. CASE VerifyPayPassword(p)
  BY <1>1, <1>3, <1>6, RefuseKeeps, PasswordCallKeeps DEF VerifyPayPassword
<1>7. ASSUME NEW matches \in BOOLEAN, VerifyPassPhrase(matches, p) PROVE AccountInv'
  BY <1>1, <1>3, <1>7, RefuseKeeps, PasswordCallKeeps DEF VerifyPassPhrase
<1> QED BY <1>4, <1>5, <1>6, <1>7

\* ChangePasswd: the new password opens everything, or nothing was changed.
LEMMA ReencryptKeeps ==
  ASSUME AccountInv, alive, NEW p \in Password, NEW q \in Password, Reencrypt(p, q)
  PROVE  AccountInv'
<1>1. Ready(p) \in Store /\ OneKey(Ready(p), pw) /\ pw \in Password /\ inits \in 0..MaxInits
  BY ReadyKeeps DEF Reencrypt, AccountInv, TypeOK
<1>2. PICK r \in Store : r = Ready(p)
  BY <1>1
<1>3. r.sec \in [Secret -> Field] /\ \A f \in Secret : Opens(r.sec[f], pw)
  BY <1>1, <1>2 DEF Store, OneKey
<1>4. PICK c \in [Secret -> Field] : c = ChangePasswd(r.sec, p, q)
  BY <1>1, <1>3, ChangeKeeps
<1>5. store' = [r EXCEPT !.sec = c]
  BY <1>2, <1>4 DEF Reencrypt
<1>6. store' \in Store /\ store'.sec = c /\ store' # Torn
  BY <1>5 DEF Store, Torn
<1>7. inits' \in 0..MaxInits
  BY <1>1, PasswordAssumption DEF Reencrypt, Pushes
<1>8. alive' = alive /\ backup' = backup /\ disk = store
  BY DEF Reencrypt, AccountInv, StoreSaved
<1>9. CASE ChangeThrows(r.sec, p)
  <2>1. store' = r
    BY <1>1, <1>3, <1>4, <1>5, <1>9, ChangeKeeps DEF Store
  <2>2. disk' = store' /\ pw' = pw /\ ret' = Ret("changePassword", p, "throw")
    BY <1>2, <1>8, <1>9, <2>1 DEF Reencrypt, Ready
  <2> QED BY <1>1, <1>2, <1>6, <1>7, <1>8, <2>1, <2>2
          DEF AccountInv, TypeOK, OnePassword, OneKey, StoreSaved, Ret, Field, Op, Val
<1>10. CASE ~ChangeThrows(r.sec, p)
  <2>1. \A f \in Secret : Opens(c[f], q)
    BY <1>1, <1>3, <1>4, <1>10, ChangeKeeps
  <2>2. disk' = store' /\ pw' = q /\ ret' = Ret("changePassword", q, "done")
    BY <1>2, <1>10 DEF Reencrypt
  <2> QED BY <1>6, <1>7, <1>8, <2>1, <2>2
          DEF AccountInv, TypeOK, OnePassword, StoreSaved, Ret, Field, Op, Val
<1> QED BY <1>9, <1>10

\* Changing and resetting the password.
LEMMA PasswordKeeps ==
  ASSUME AccountInv, NEW p \in Password, NEW q \in Password, NEW matches \in BOOLEAN,
         ChangePassword(p, q) \/ ResetPassword(matches, p)
  PROVE  AccountInv'
<1>1. {"changePassword", "resetPassword"} \subseteq Op /\ {"throw", "done"} \subseteq Val
  BY DEF Op, Val
<1>2. CASE ChangePassword(p, q)
  BY <1>1, <1>2, RefuseKeeps, RegenerateFailsKeeps, ReencryptKeeps DEF ChangePassword
<1>3. CASE ResetPassword(matches, p)
  <2>1. CASE Refuse("resetPassword", p, "done") \/ Refuse("resetPassword", p, "throw")
    BY <1>1, <2>1, RefuseKeeps
  <2>2. CASE /\ store' = [store EXCEPT !.sec = Encrypted(Secret, p)]
             /\ disk' = store' /\ pw' = p /\ ret' = Ret("resetPassword", p, "done")
             /\ UNCHANGED <<alive, inits, backup>>
    <3>1. PICK c \in [Secret -> Field] : c = Encrypted(Secret, p) /\ \A f \in Secret : Opens(c[f], p)
      BY EncryptedOne
    <3>2. store' \in Store /\ store'.sec = c /\ store' # Torn
      BY <2>2, <3>1 DEF AccountInv, TypeOK, Store, Torn
    <3> QED BY <1>1, <2>2, <3>1, <3>2 DEF AccountInv, TypeOK, OnePassword, StoreSaved, Ret, Field
  <2> QED BY <1>3, <2>1, <2>2 DEF ResetPassword
<1> QED BY <1>2, <1>3

\* The keystore export.
LEMMA ExportKeeps ==
  ASSUME AccountInv, NEW p \in Password, ExportKeystore(p)
  PROVE  AccountInv'
<1>1. "exportKeystore" \in Op /\ {"throw", "done", "secret"} \subseteq Val /\ p \in Field
  BY DEF Op, Val, Field
<1>2. ASSUME NEW s \in Store PROVE Exported(s) \in Keystore
  BY DEF Exported, Keystore, Store
<1>3. alive /\ disk = store /\ store \in Store
  BY DEF ExportKeystore, AccountInv, TypeOK, StoreSaved
<1>4. CASE /\ disk' = store /\ backup' = Exported(store)
           /\ ret' = Ret("exportKeystore", p, "done")
           /\ UNCHANGED <<alive, store, inits, pw>>
  BY <1>1, <1>2, <1>3, <1>4 DEF AccountInv, TypeOK, OnePassword, StoreSaved, Ret
<1>5. CASE /\ NotReady(p) /\ store' = RegenerateLeft(store, p) /\ disk' = store
           /\ ret' = Ret("exportKeystore", p, "throw")
           /\ UNCHANGED <<alive, inits, backup, pw>>
  <2>1. store' = store
    BY <1>5, NotReadyKeeps
  <2> QED BY <1>1, <1>3, <1>5, <2>1 DEF AccountInv, TypeOK, OnePassword, StoreSaved, Ret
<1>6. CASE /\ ~NotReady(p) /\ MakeReady(p)
           /\ \/ UNCHANGED backup /\ ret' = Ret("exportKeystore", p, "throw")
              \/ backup' = Exported(Ready(p)) /\ ret' = Ret("exportKeystore", p, "secret")
           /\ UNCHANGED <<alive, pw>>
  <2>1. Ready(p) \in Store
    BY <1>6, ReadyKeeps
  <2>2. backup' \in Keystore \cup {NoBackup}
    BY <1>2, <1>6, <2>1 DEF AccountInv, TypeOK
  <2>3. ret' \in [op : Op, p : Field, val : Val]
    BY <1>1, <1>6 DEF Ret
  <2> QED BY <1>3, <1>6, <2>2, <2>3, MadeReadyKeeps
<1> QED BY <1>4, <1>5, <1>6 DEF ExportKeystore

\* The keystore import: everything is encrypted anew, under the password given.
LEMMA ImportKeeps ==
  ASSUME AccountInv, NEW p \in Password, ImportKeystore(p)
  PROVE  AccountInv'
<1>1. PICK ks \in Keystore : ks = backup
  BY DEF ImportKeystore, AccountInv, TypeOK
<1> DEFINE seed == "seed" \in ks.secrets \/ ("mnemonic" \in ks.secrets /\ ~ks.hasPassPhrase)
           xprv == "xPrivKey" \in ks.secrets \/ seed
           secrets == ks.secrets \cup (IF seed THEN {"seed"} ELSE {})
                                 \cup (IF xprv THEN {"xPrivKey", "requestPrivKey"} ELSE {})
           pub == ks.pub
        \cup (IF xprv THEN {"xPubKey", "xPubKeyHDPM", "ownerPubKey", "requestPubKey"} ELSE {})
        \cup (IF seed THEN {"xPubKeyBitcoin", "ethscPrimaryPubKey", "ripplePrimaryPubKey"} ELSE {})
<1>2. Imported(ks, p) = [readonly |-> secrets = {}, multi |-> ks.multi, sec |-> Encrypted(secrets, p),
                         passphrase |-> Empty, hasPassPhrase |-> ks.hasPassPhrase, pub |-> pub]
  BY DEF Imported
<1>3. secrets \in SUBSET Secret /\ pub \in SUBSET PubKey
  BY DEF Keystore, Secret, PubKey
<1> HIDE DEF secrets, pub
<1>4. PICK c \in [Secret -> Field] : c = Encrypted(secrets, p) /\ \A f \in Secret : Opens(c[f], p)
  BY <1>3, EncryptedOne
<1>5. (secrets = {}) \in BOOLEAN /\ ks.multi \in BOOLEAN /\ ks.hasPassPhrase \in BOOLEAN
  BY DEF Keystore
<1>6. store' = [readonly |-> secrets = {}, multi |-> ks.multi, sec |-> c,
                passphrase |-> Empty, hasPassPhrase |-> ks.hasPassPhrase, pub |-> pub]
  BY <1>1, <1>2, <1>4 DEF ImportKeystore
<1>7. store' \in Store
  BY <1>3, <1>5, <1>6 DEF Store, Field
<1>8. store'.sec = c /\ store' # Torn
  BY <1>6, <1>7 DEF Store, Torn
<1>9. inits' \in 0..MaxInits
  BY PasswordAssumption DEF ImportKeystore, Pushes
<1>10. ret' \in [op : Op, p : Field, val : Val]
  BY DEF ImportKeystore, Ret, Op, Val, Field
<1> QED BY <1>4, <1>7, <1>8, <1>9, <1>10
        DEF ImportKeystore, AccountInv, TypeOK, OnePassword, StoreSaved

\* The process ends, crashes in Save, and starts again on the file.
LEMMA RestartKeeps ==
  ASSUME AccountInv, Stop \/ CrashInSave \/ Load
  PROVE  AccountInv'
<1>1. Ret("none", Empty, "none") \in [op : Op, p : Field, val : Val]
  BY DEF Ret, Op, Val, Field
<1>2. CASE Stop
  BY <1>1, <1>2 DEF Stop, AccountInv, TypeOK, OnePassword, StoreSaved
<1>3. CASE CrashInSave
  BY <1>1, <1>3 DEF CrashInSave, AccountInv, TypeOK, OnePassword, StoreSaved
<1>4. CASE Load
  <2>1. store' = store
    BY <1>4 DEF Load, AccountInv, StoreSaved
  <2>2. inits' \in 0..MaxInits
    BY <1>4, PasswordAssumption DEF Load, Pushes
  <2> QED BY <1>1, <1>4, <2>1, <2>2 DEF Load, AccountInv, TypeOK, OnePassword, StoreSaved
<1> QED BY <1>2, <1>3, <1>4

LEMMA InitInv == Init => AccountInv
<1> SUFFICES ASSUME Init PROVE AccountInv
  OBVIOUS
<1>1. pw \in Password
  BY PasswordAssumption DEF Init
<1>2. store \in Store /\ OneKey(store, pw)
  BY <1>1, InitialStoreOne DEF Init
<1>3. store # Torn
  BY <1>2 DEF Store, Torn
<1>4. inits \in 0..MaxInits
  BY PasswordAssumption DEF Init, Pushes
<1> QED BY <1>1, <1>2, <1>3, <1>4
        DEF Init, AccountInv, TypeOK, OnePassword, OneKey, StoreSaved, Ret, Op, Val, Field

LEMMA NextInv == AccountInv /\ [Next]_vars => AccountInv'
<1> SUFFICES ASSUME AccountInv, [Next]_vars PROVE AccountInv'
  OBVIOUS
<1>1. CASE UNCHANGED vars
  BY <1>1 DEF vars, AccountInv, TypeOK, OnePassword, StoreSaved
<1>2. CASE Stop \/ CrashInSave \/ Load
  BY <1>2, RestartKeeps
<1>3. ASSUME NEW p \in Password, Call(p) PROVE AccountInv'
  <2>1. CASE \E q \in Password : ChangePassword(p, q)
    BY <2>1, PasswordKeeps
  <2>2. CASE \E matches \in BOOLEAN : ResetPassword(matches, p)
    BY <2>2, PasswordKeeps
  <2> QED BY <1>3, <2>1, <2>2, ReadKeeps, ExportKeeps, ImportKeeps DEF Call
<1> QED BY <1>1, <1>2, <1>3 DEF Next

LEMMA AccountInvariant == Spec => []AccountInv
BY InitInv, NextInv, PTL DEF Spec

\* The store in memory, the file and the backup are well formed after every
\* call, crash and restart.
THEOREM AccountTypes == Spec => []TypeOK
BY AccountInvariant, PTL DEF AccountInv

\* After every sequence of reads, password changes and resets, regenerations,
\* keystore exports and imports, crashes and restarts, with right and wrong
\* passwords, all secrets of the account open with the password set last.
THEOREM PasswordSafety == Spec => []OnePassword
BY AccountInvariant, PTL DEF AccountInv

\* The file holds what memory holds, unless a crash in Save cut it off: a
\* regeneration that throws half way has changed neither.
THEOREM FileIsCurrent == Spec => []StoreSaved
BY AccountInvariant, PTL DEF AccountInv
-----------------------------------------------------------------------------
(***************************************************************************)
(* A call that throws changes nothing.  Init pushes the cosigners again    *)
(* after RegenerateKey, so a wrong password must be noticed there: a       *)
(* multi-sign account that is not read-only always holds its root key.     *)
(***************************************************************************)
KeyHeld(s) == ~s.readonly /\ s.multi => s.sec["xPrivKey"] # Empty
BackupHolds == backup # NoBackup /\ backup.multi /\ backup.secrets # {} => "xPrivKey" \in backup.secrets
ThrowInv == AccountInv /\ KeyHeld(store) /\ BackupHolds

\* RegenerateKey never loses the root key.
LEMMA RegeneratedHolds ==
  ASSUME NEW s \in Store, NEW p \in Password, KeyHeld(s)
  PROVE  KeyHeld(Regenerated(s, p))
<1> DEFINE a == SeedStep(s, p)
           b == RootStep(a, p)
<1>1. KeyHeld(a) /\ a.sec \in [Secret -> Field] /\ a.multi = s.multi /\ a.readonly = s.readonly
  BY DEF SeedStep, KeyHeld, Store, Field, Secret
<1>2. DOMAIN a = DOMAIN s /\ "sec" \in DOMAIN a /\ "multi" \in DOMAIN a /\ "readonly" \in DOMAIN a
  BY DEF SeedStep, Store
<1> HIDE DEF a
<1>3. KeyHeld(b) /\ b.sec \in [Secret -> Field]
  BY <1>1, <1>2, PasswordAssumption DEF RootStep, KeyHeld, Secret, Field
<1>4. DOMAIN b = DOMAIN a
  BY DEF RootStep
<1> HIDE DEF b
<1>5. KeyHeld(KeyStep(b, p))
  BY <1>2, <1>3, <1>4 DEF KeyStep, KeyHeld, Secret
<1> QED BY <1>5 DEF Regenerated, a, b

\* A wrong password is noticed before Init, or there is nothing to push.
LEMMA WrongPasswordChangesNothing ==
  ASSUME ThrowInv, alive, ~store.readonly, NEW p \in Password, p # pw, ~NotReady(p), MakeReady(p)
  PROVE  UNCHANGED <<store, disk, inits>>
<1>1. store' = store /\ disk' = store /\ disk = store
  BY ReadyKeeps, MakeReadyKeeps DEF ThrowInv, AccountInv, StoreSaved
<1>2. store \in Store /\ pw \in Password /\ OneKey(store, pw) /\ KeyHeld(store)
  BY DEF ThrowInv, AccountInv, TypeOK, OnePassword, OneKey
<1>3. CASE Stale(store)
  <2>1. ~SeedThrows(store, p) /\ ~RootThrows(SeedStep(store, p), p)
    BY <1>3 DEF NotReady, RegenerateThrows
  <2>2. SeedStep(store, p) = store
    BY <1>2, <2>1, SeedStepKeeps
  <2>3. store.sec["xPrivKey"] = Empty
    BY <1>2, <2>1, <2>2 DEF RootThrows, OneKey, Opens, Secret
  <2>4. Pushes(store) = 0
    BY <1>2, <2>3 DEF KeyHeld, Pushes
  <2> QED BY <1>1, <1>3, <2>4 DEF MakeReady, ThrowInv, AccountInv, TypeOK
<1>4. CASE ~Stale(store)
  BY <1>1, <1>4 DEF MakeReady, ThrowInv, AccountInv, TypeOK
<1> QED BY <1>1, <1>3, <1>4

\* A decryption that throws was tried with a wrong password.
LEMMA ThrowMeansWrong ==
  ASSUME ThrowInv, NEW p \in Password, ~NotReady(p), NEW S \in SUBSET Secret,
         Decrypted(Ready(p), S, p) = "throw"
  PROVE  p # pw
<1>1. OneKey(Ready(p), pw)
  BY ReadyKeeps DEF ThrowInv
<1>2. \E f \in S : ~Opens(Ready(p).sec[f], p)
  BY DEF Decrypted
<1> QED BY <1>1, <1>2 DEF OneKey

LEMMA PasswordCallThrows ==
  ASSUME ThrowInv, alive, ~store.readonly, NEW op \in Op, NEW p \in Password, NEW val,
         NEW S \in SUBSET Secret, val = "throw" => Decrypted(Ready(p), S, p) = "throw",
         PasswordCall(op, p, val), ret'.val = "throw"
  PROVE  UNCHANGED <<store, disk, inits, pw>>
<1>1. CASE RegenerateFails(op, p)
  BY <1>1, RegenerateFailsKeeps DEF ThrowInv
<1>2. CASE ~NotReady(p) /\ MakeReady(p) /\ ret' = Ret(op, p, val) /\ UNCHANGED <<alive, backup, pw>>
  <2>1. p # pw
    BY <1>2, ThrowMeansWrong DEF Ret
  <2> QED BY <1>2, <2>1, WrongPasswordChangesNothing
<1> QED BY <1>1, <1>2 DEF PasswordCall

\* Every call that ends in an exception.
LEMMA CallThrows ==
  ASSUME ThrowInv, NEW p \in Password, Call(p), ret'.val = "throw"
  PROVE  UNCHANGED <<store, disk, inits, pw>>
<1>1. {"read", "verify", "changePassword", "exportKeystore"} \subseteq Op
  BY DEF Op
<1>2. disk = store \/ ~alive
  BY DEF ThrowInv, AccountInv, StoreSaved
<1>3. ASSUME NEW op, NEW val, Refuse(op, p, val) PROVE UNCHANGED <<store, disk, inits, pw>>
  BY <1>3 DEF Refuse
<1>4. ASSUME NEW f \in {"xPrivKey", "requestPrivKey", "mnemonic"}, ReadKey(f, p)
      PROVE  UNCHANGED <<store, disk, inits, pw>>
  <2>1. {f} \in SUBSET Secret
    BY DEF Secret
  <2> QED BY <1>1, <1>3, <1>4, <2>1, PasswordCallThrows DEF ReadKey
<1>5. CASE VerifyPayPassword(p)
  <2> DEFINE S == FirstStored(Ready(p))
  <2>1. S \in SUBSET Secret
    BY DEF FirstStored, VerifyOrder, Secret
  <2>2. PayPasswordVerdict(Ready(p), p) = "throw" => Decrypted(Ready(p), S, p) = "throw"
    BY DEF PayPasswordVerdict
  <2> HIDE DEF S
  <2> QED BY <1>1, <1>3, <1>5, <2>1, <2>2, PasswordCallThrows DEF VerifyPayPassword
<1>6. ASSUME NEW matches \in BOOLEAN, VerifyPassPhrase(matches, p)
      PROVE  UNCHANGED <<store, disk, inits, pw>>
  <2>1. {"mnemonic"} \in SUBSET Secret
    BY DEF Secret
  <2>2. PassPhraseVerdict(Ready(p), p, matches) = "throw"
          => Decrypted(Ready(p), {"mnemonic"}, p) = "throw"
    BY DEF PassPhraseVerdict
  <2> QED BY <1>1, <1>3, <1>6, <2>1, <2>2, PasswordCallThrows DEF VerifyPassPhrase
<1>7. ASSUME NEW q \in Password, ChangePassword(p, q) PROVE UNCHANGED <<store, disk, inits, pw>>
  <2>1. CASE RegenerateFails("changePassword", p)
    BY <1>1, <2>1, RegenerateFailsKeeps DEF ThrowInv
  <2>2. CASE alive /\ ~store.readonly /\ Reencrypt(p, q)
    <3>1. ChangeThrows(Ready(p).sec, p) /\ pw' = pw
      BY <2>2 DEF Reencrypt, Ret
    <3>2. Ready(p) \in Store /\ OneKey(Ready(p), pw) /\ pw \in Password
      BY <2>2, ReadyKeeps DEF Reencrypt, ThrowInv, AccountInv, TypeOK
    <3>3. p # pw
      BY <3>1, <3>2 DEF ChangeThrows, OneKey
    <3>4. Ready(p) = store
      BY <2>2, <3>3, ReadyKeeps DEF Reencrypt, ThrowInv
    <3>5. ChangePasswd(Ready(p).sec, p, q) = Ready(p).sec
      BY <3>1, <3>2, ChangeKeeps DEF Store, OneKey
    <3>6. store' = Ready(p)
      BY <2>2, <3>2, <3>5 DEF Reencrypt, Store
    <3>7. disk' = IF Stale(store) THEN store' ELSE disk
      BY <2>2, <3>1, <3>6 DEF Reencrypt
    <3>8. MakeReady(p) /\ ~NotReady(p)
      BY <2>2, <3>6, <3>7 DEF Reencrypt, MakeReady
    <3> QED BY <2>2, <3>1, <3>3, <3>8, WrongPasswordChangesNothing
  <2> QED BY <1>3, <1>7, <2>1, <2>2 DEF ChangePassword
<1>8. ASSUME NEW matches \in BOOLEAN, ResetPassword(matches, p)
      PROVE  UNCHANGED <<store, disk, inits, pw>>
  <2>1. CASE ret' = Ret("resetPassword", p, "done")
    BY <2>1 DEF Ret
  <2> QED BY <1>3, <1>8, <2>1 DEF ResetPassword
<1>9. CASE ExportKeystore(p)
  <2>1. CASE ~store.readonly /\ NotReady(p)
    BY <1>2, <1>9, <2>1, NotReadyKeeps DEF ExportKeystore, ThrowInv
  <2>2. CASE ~store.readonly /\ ~NotReady(p)
    <3>0. Ret("exportKeystore", p, "secret").val # "throw"
      BY DEF Ret
    <3>1. MakeReady(p) /\ Decrypted(Ready(p), Secret, p) = "throw" /\ alive /\ pw' = pw
      BY <1>9, <2>2, <3>0 DEF ExportKeystore
    <3>2. Secret \in SUBSET Secret
      OBVIOUS
    <3>3. p # pw
      BY <2>2, <3>1, <3>2, ThrowMeansWrong
    <3> QED BY <2>2, <3>1, <3>3, WrongPasswordChangesNothing
  <2>3. CASE ret' = Ret("exportKeystore", p, "done")
    BY <2>3 DEF Ret
  <2> QED BY <1>9, <2>1, <2>2, <2>3 DEF ExportKeystore
<1>10. CASE ImportKeystore(p)
  BY <1>10 DEF ImportKeystore, Ret
<1> QED BY <1>3, <1>4, <1>5, <1>6, <1>7, <1>8, <1>9, <1>10 DEF Call, ReadStored

\* The stores at the start hold the root key where they must.
LEMMA InitThrowInv == Init => ThrowInv
<1> SUFFICES ASSUME Init PROVE ThrowInv
  OBVIOUS
<1>1. pw \in Password /\ pw # Empty
  BY PasswordAssumption DEF Init
<1>2. KeyHeld(store)
  <2>1. /\ KeyHeld(SeedStore(pw)) /\ KeyHeld(SingleKeyStore(pw))
        /\ \A h \in BOOLEAN : KeyHeld(HDStore(pw, h)) /\ KeyHeld(EarlierStore(pw, h))
        /\ \A h, pub : KeyHeld(OldStore(pw, h, pub))
    BY DEF KeyHeld, SeedStore, SingleKeyStore, HDStore, EarlierStore, OldStore
  <2>2. KeyHeld(ReadonlyMultiSignStore)
    BY DEF KeyHeld, ReadonlyMultiSignStore
  <2>3. KeyHeld(XprvMultiSignStore(pw))
    BY <1>1 DEF KeyHeld, XprvMultiSignStore, Encrypted, Secret
  <2>4. \A h \in BOOLEAN : KeyHeld(MnemonicMultiSignStore(pw, h))
    BY <1>1 DEF KeyHeld, MnemonicMultiSignStore, HDStore, Encrypted, Secret
  <2> QED BY <2>1, <2>2, <2>3, <2>4 DEF Init, InitialStore
<1> QED BY <1>2, InitInv DEF ThrowInv, BackupHolds, Init

\* Every step keeps the root key where it is needed.
LEMMA NextThrowInv == ThrowInv /\ [Next]_vars => ThrowInv'
<1> SUFFICES ASSUME ThrowInv, [Next]_vars PROVE ThrowInv'
  OBVIOUS
<1>1. AccountInv /\ AccountInv'
  BY NextInv DEF ThrowInv
<1>2. SUFFICES KeyHeld(store)' /\ BackupHolds'
  BY <1>1 DEF ThrowInv
<1>3. store \in Store /\ KeyHeld(store) /\ BackupHolds /\ pw \in Password
  BY DEF ThrowInv, AccountInv, TypeOK
<1>4. ASSUME NEW p \in Password PROVE KeyHeld(Ready(p))
  BY <1>3, RegeneratedHolds DEF Ready
<1>5. ASSUME store' = store, backup' = backup PROVE KeyHeld(store)' /\ BackupHolds'
  BY <1>3, <1>5 DEF KeyHeld, BackupHolds
<1>6. ASSUME NEW p \in Password, store' = Ready(p), backup' = backup
      PROVE KeyHeld(store)' /\ BackupHolds'
  BY <1>3, <1>4, <1>6 DEF KeyHeld, BackupHolds
<1>7. ASSUME NEW op \in Op, NEW p \in Password, NEW val, PasswordCall(op, p, val)
      PROVE  KeyHeld(store)' /\ BackupHolds'
  <2>1. CASE RegenerateFails(op, p)
    BY <1>1, <1>5, <2>1, RegenerateFailsKeeps DEF RegenerateFails
  <2>2. CASE MakeReady(p) /\ backup' = backup
    BY <1>6, <2>2 DEF MakeReady
  <2> QED BY <1>7, <2>1, <2>2 DEF PasswordCall
<1>8. ASSUME NEW op, NEW p, NEW val, Refuse(op, p, val) PROVE KeyHeld(store)' /\ BackupHolds'
  BY <1>5, <1>8 DEF Refuse
<1>9. {"read", "verify", "changePassword"} \subseteq Op
  BY DEF Op
<1>10. CASE UNCHANGED vars \/ Stop \/ CrashInSave \/ Load
  <2>1. CASE Load
    BY <1>1, <1>5, <2>1 DEF Load, AccountInv, StoreSaved
  <2> QED BY <1>5, <1>10, <2>1 DEF vars, Stop, CrashInSave
<1>11. ASSUME NEW p \in Password, Call(p) PROVE KeyHeld(store)' /\ BackupHolds'
  <2>1. ASSUME NEW f, ReadKey(f, p) \/ ReadStored(f, p) PROVE KeyHeld(store)' /\ BackupHolds'
    BY <1>7, <1>8, <1>9, <2>1 DEF ReadKey, ReadStored
  <2>2. ASSUME NEW matches, VerifyPayPassword(p) \/ VerifyPassPhrase(matches, p)
        PROVE KeyHeld(store)' /\ BackupHolds'
    BY <1>7, <1>8, <1>9, <2>2 DEF VerifyPayPassword, VerifyPassPhrase
  <2>3. ASSUME NEW q \in Password, ChangePassword(p, q) PROVE KeyHeld(store)' /\ BackupHolds'
    <3>1. CASE RegenerateFails("changePassword", p)
      BY <1>1, <1>5, <1>9, <3>1, RegenerateFailsKeeps DEF RegenerateFails
    <3>2. CASE Reencrypt(p, q)
      <4>1. PICK r \in Store : r = Ready(p) /\ KeyHeld(r)
        BY <1>1, <1>4, <3>2, ReadyKeeps DEF Reencrypt
      <4>2. PICK c : c = ChangePasswd(r.sec, p, q)
        OBVIOUS
      <4>3. store' = [r EXCEPT !.sec = c] /\ backup' = backup
        BY <3>2, <4>1, <4>2 DEF Reencrypt
      <4>4. r.sec["xPrivKey"] # Empty => c["xPrivKey"] # Empty
        BY <4>2, PasswordAssumption DEF ChangePasswd, Secret
      <4>5. KeyHeld([r EXCEPT !.sec = c])
        BY <4>1, <4>4 DEF KeyHeld, Store
      <4> QED BY <1>3, <4>3, <4>5 DEF BackupHolds, KeyHeld
    <3> QED BY <1>8, <2>3, <3>1, <3>2 DEF ChangePassword
  <2>4. ASSUME NEW matches \in BOOLEAN, ResetPassword(matches, p) PROVE KeyHeld(store)' /\ BackupHolds'
    <3>1. CASE store' = [store EXCEPT !.sec = Encrypted(Secret, p)] /\ backup' = backup
      <4>0. Encrypted(Secret, p)["xPrivKey"] = p /\ p # Empty
        BY PasswordAssumption DEF Encrypted, Secret
      <4>1. PICK c : c = Encrypted(Secret, p) /\ c["xPrivKey"] # Empty
        BY <4>0
      <4>2. store' = [store EXCEPT !.sec = c] /\ store'.sec = c
        BY <1>3, <3>1, <4>1 DEF Store
      <4> QED BY <1>3, <3>1, <4>1, <4>2 DEF KeyHeld, BackupHolds
    <3> QED BY <1>8, <2>4, <3>1 DEF ResetPassword
  <2>5. CASE ExportKeystore(p)
    <3>1. ASSUME NEW s \in Store, KeyHeld(s), store' = s, backup' = Exported(s)
          PROVE  KeyHeld(store)' /\ BackupHolds'
      <4>1. backup'.multi = s.multi /\ backup'.secrets = {f \in Secret : ~s.readonly /\ s.sec[f] # Empty}
        BY <3>1 DEF Exported
      <4>2. "xPrivKey" \in Secret
        BY DEF Secret
      <4> QED BY <3>1, <4>1, <4>2 DEF KeyHeld, BackupHolds
    <3>2. CASE store.readonly
      BY <1>3, <2>5, <3>1, <3>2 DEF ExportKeystore
    <3>3. CASE ~store.readonly /\ NotReady(p)
      BY <1>1, <1>5, <2>5, <3>3, NotReadyKeeps DEF ExportKeystore
    <3>4. CASE ~store.readonly /\ ~NotReady(p)
      <4>1. Ready(p) \in Store /\ KeyHeld(Ready(p))
        BY <1>1, <1>4, <3>4, ReadyKeeps
      <4>2. store' = Ready(p) /\ (backup' = backup \/ backup' = Exported(Ready(p)))
        BY <2>5, <3>4 DEF ExportKeystore, MakeReady
      <4> QED BY <1>6, <3>1, <4>1, <4>2
    <3> QED BY <3>2, <3>3, <3>4
  <2>6. CASE ImportKeystore(p)
    <3>1. PICK ks \in Keystore : ks = backup /\ backup' = backup /\ store' = Imported(ks, p)
      BY <1>1, <2>6 DEF ImportKeystore, AccountInv, TypeOK
    <3>2. ks.multi /\ ks.secrets # {} => "xPrivKey" \in ks.secrets
      BY <1>3, <2>6, <3>1 DEF BackupHolds, ImportKeystore
    <3> DEFINE seed == "seed" \in ks.secrets \/ ("mnemonic" \in ks.secrets /\ ~ks.hasPassPhrase)
               xprv == "xPrivKey" \in ks.secrets \/ seed
               secrets == ks.secrets \cup (IF seed THEN {"seed"} ELSE {})
                                     \cup (IF xprv THEN {"xPrivKey", "requestPrivKey"} ELSE {})
    <3>3. store'.multi = ks.multi /\ store'.readonly = (secrets = {}) /\ store'.sec = Encrypted(secrets, p)
      BY <3>1 DEF Imported
    <3>4. ks.multi /\ secrets # {} => "xPrivKey" \in secrets
      BY <3>2
    <3> HIDE DEF secrets
    <3>5. ks.multi /\ secrets # {} => store'.sec["xPrivKey"] # Empty
      BY <3>3, <3>4, PasswordAssumption DEF Encrypted, Secret
    <3> QED BY <1>3, <3>1, <3>3, <3>5 DEF KeyHeld, BackupHolds
  <2> QED BY <1>11, <2>1, <2>2, <2>3, <2>4, <2>5, <2>6 DEF Call
<1> QED BY <1>10, <1>11 DEF Next

\* No call that throws (wrong password, illegal new password, a regeneration
\* that fails on the way) has changed the keys in memory, the file, the list of
\* cosigners or the password.
THEOREM ThrowIsAtomic == Spec => ThrowChangesNothing
<1>1. ThrowInv /\ [Next]_vars =>
        [ret'.val = "throw" => UNCHANGED <<store, disk, inits, pw>>]_vars
  <2> SUFFICES ASSUME ThrowInv, Next, ret'.val = "throw"
               PROVE  UNCHANGED <<store, disk, inits, pw>>
    OBVIOUS
  <2>1. CASE Stop \/ CrashInSave \/ Load
    BY <2>1 DEF Stop, CrashInSave, Load, Ret
  <2> QED BY <2>1, CallThrows DEF Next
<1> QED BY InitThrowInv, NextThrowInv, <1>1, PTL DEF Spec, ThrowChangesNothing
-----------------------------------------------------------------------------
(***************************************************************************)
(* What a step does to the keys and to the last backup, in one place.      *)
(***************************************************************************)
\* The store and the backup after a step.
LEMMA StoreEffect ==
  ASSUME AccountInv, [Next]_vars
  PROVE  \/ store' = store /\ backup' = backup
         \/ \E p \in Password : /\ ~store.readonly /\ ~NotReady(p) /\ store' = Ready(p)
                                /\ backup' \in {backup, Exported(Ready(p))}
         \/ store.readonly /\ store' = store /\ backup' = Exported(store)
         \/ \E p, q \in Password : /\ ~store.readonly /\ ~NotReady(p) /\ backup' = backup
                                   /\ store' = [Ready(p) EXCEPT !.sec = ChangePasswd(@, p, q)]
         \/ \E q \in Password : /\ ~store.readonly /\ backup' = backup
                                /\ store' = [store EXCEPT !.sec = Encrypted(Secret, q)]
         \/ \E p \in Password : backup # NoBackup /\ backup' = backup /\ store' = Imported(backup, p)
<1> DEFINE Same == store' = store /\ backup' = backup
           Readied(p) == /\ ~store.readonly /\ ~NotReady(p) /\ store' = Ready(p)
                         /\ backup' \in {backup, Exported(Ready(p))}
           Changed(p, q) == /\ ~store.readonly /\ ~NotReady(p) /\ backup' = backup
                            /\ store' = [Ready(p) EXCEPT !.sec = ChangePasswd(@, p, q)]
           Replaced(q) == /\ ~store.readonly /\ backup' = backup
                          /\ store' = [store EXCEPT !.sec = Encrypted(Secret, q)]
           Restored(p) == backup # NoBackup /\ backup' = backup /\ store' = Imported(backup, p)
           Goal == \/ Same \/ (\E p \in Password : Readied(p))
                   \/ store.readonly /\ store' = store /\ backup' = Exported(store)
                   \/ (\E p, q \in Password : Changed(p, q)) \/ (\E q \in Password : Replaced(q))
                   \/ \E p \in Password : Restored(p)
<1>1. CASE UNCHANGED vars \/ Stop \/ CrashInSave \/ Load
  BY <1>1 DEF vars, Stop, CrashInSave, Load, AccountInv, StoreSaved
<1>2. ASSUME NEW op, NEW p, NEW val, Refuse(op, p, val) PROVE Same
  BY <1>2 DEF Refuse
<1>3. ASSUME NEW op \in Op, NEW p \in Password, RegenerateFails(op, p) PROVE Same
  BY <1>3, RegenerateFailsKeeps DEF RegenerateFails
<1>4. ASSUME NEW op \in Op, NEW p \in Password, NEW val, ~store.readonly, PasswordCall(op, p, val)
      PROVE  Same \/ Readied(p)
  BY <1>3, <1>4 DEF PasswordCall, MakeReady
<1>5. {"read", "verify", "changePassword"} \subseteq Op
  BY DEF Op
<1>6. ASSUME NEW p \in Password, Call(p) PROVE Goal
  <2>1. ASSUME NEW f, ReadKey(f, p) \/ ReadStored(f, p) PROVE Same \/ Readied(p)
    BY <1>2, <1>4, <1>5, <2>1 DEF ReadKey, ReadStored
  <2>2. ASSUME NEW matches, VerifyPayPassword(p) \/ VerifyPassPhrase(matches, p)
        PROVE  Same \/ Readied(p)
    BY <1>2, <1>4, <1>5, <2>2 DEF VerifyPayPassword, VerifyPassPhrase
  <2>3. ASSUME NEW q \in Password, ChangePassword(p, q) PROVE Same \/ Changed(p, q)
    <3>1. CASE ~store.readonly /\ Reencrypt(p, q)
      BY <3>1 DEF Reencrypt
    <3>2. CASE RegenerateFails("changePassword", p)
      BY <1>3, <1>5, <3>2
    <3> QED BY <1>2, <2>3, <3>1, <3>2 DEF ChangePassword
  <2>4. ASSUME NEW matches \in BOOLEAN, ResetPassword(matches, p) PROVE Same \/ Replaced(p)
    BY <1>2, <2>4 DEF ResetPassword
  <2>5. ASSUME ExportKeystore(p)
        PROVE  Same \/ Readied(p) \/ (store.readonly /\ store' = store /\ backup' = Exported(store))
    BY <2>5, NotReadyKeeps DEF ExportKeystore, MakeReady
  <2>6. ASSUME ImportKeystore(p) PROVE Restored(p)
    BY <2>6 DEF ImportKeystore
  <2> HIDE DEF Same, Readied, Changed, Replaced, Restored
  <2> QED BY <1>6, <2>1, <2>2, <2>3, <2>4, <2>5, <2>6 DEF Call
<1> QED BY <1>1, <1>6 DEF Next

(***************************************************************************)
(* The signing key.  A store of an earlier version may hold it only as a   *)
(* mnemonic with its passphrase, which no keystore carries; such a store   *)
(* is regenerated before anything is exported from it.                     *)
(***************************************************************************)
\* The key is in the store, without the old passphrase field.
Firm(s) ==
  \/ s.sec["xPrivKey"] # Empty \/ s.sec["seed"] # Empty \/ s.sec["singlePrivateKey"] # Empty
  \/ s.sec["mnemonic"] # Empty /\ ~s.hasPassPhrase
SignsFor(s) == Firm(s) \/ (Stale(s) /\ SeedDerivable(s))

\* What the constructor needs of a keystore to have the key again.
Restores(ks) ==
  \/ "xPrivKey" \in ks.secrets \/ "seed" \in ks.secrets \/ "singlePrivateKey" \in ks.secrets
  \/ "mnemonic" \in ks.secrets /\ ~ks.hasPassPhrase

SignInv ==
  /\ ~store.readonly => SignsFor(store)
  /\ backup # NoBackup => IF store.readonly THEN backup.secrets = {} ELSE Restores(backup)

\* A store with the key can sign, and holds some secret.
LEMMA SignsForSigns ==
  ASSUME NEW s \in Store, SignsFor(s)
  PROVE  CanSign(s) /\ \E f \in Secret : s.sec[f] # Empty
BY DEF SignsFor, Firm, CanSign, SeedDerivable, Secret

\* RegenerateKey leaves the key in the store itself.
LEMMA RegeneratedFirm ==
  ASSUME NEW s \in Store, NEW p \in Password, SignsFor(s)
  PROVE  Firm(Regenerated(s, p)) /\ Regenerated(s, p).readonly = s.readonly
<1> DEFINE a == SeedStep(s, p)
           b == RootStep(a, p)
<1>1. p # Empty
  BY PasswordAssumption
<1>2. /\ a.sec \in [Secret -> Field] /\ a.readonly = s.readonly /\ DOMAIN a = DOMAIN s
      /\ {"sec", "readonly", "hasPassPhrase", "pub"} \subseteq DOMAIN a
  BY DEF SeedStep, Store, Field, Secret
<1>3. Firm(a)
  <2>1. CASE SeedDerivable(s)
    BY <1>1, <2>1 DEF SeedStep, Firm, Store, Secret
  <2>2. CASE ~SeedDerivable(s)
    BY <2>2 DEF SeedStep, SignsFor
  <2> QED BY <2>1, <2>2
<1> HIDE DEF a
<1>4. /\ Firm(b) /\ b.sec \in [Secret -> Field] /\ b.readonly = s.readonly /\ DOMAIN b = DOMAIN a
  BY <1>1, <1>2, <1>3 DEF RootStep, Firm, Secret, Field
<1> HIDE DEF b
<1>5. Firm(KeyStep(b, p)) /\ KeyStep(b, p).readonly = s.readonly
  BY <1>1, <1>2, <1>4 DEF KeyStep, Firm, Secret
<1> QED BY <1>5 DEF Regenerated, a, b

\* A call with a password works on a store that holds the key itself.
LEMMA ReadyFirm ==
  ASSUME AccountInv, NEW p \in Password, ~store.readonly, SignsFor(store)
  PROVE  Firm(Ready(p)) /\ ~Ready(p).readonly
<1>1. store \in Store
  BY DEF AccountInv, TypeOK
<1> QED BY <1>1, RegeneratedFirm DEF Ready, SignsFor

\* An export carries the key along, and an import has it.
LEMMA ExportedRestores ==
  ASSUME NEW s \in Store, Firm(s), ~s.readonly
  PROVE  Restores(Exported(s))
<1>1. /\ Exported(s).secrets = {f \in Secret : s.sec[f] # Empty}
      /\ Exported(s).hasPassPhrase = s.hasPassPhrase
  BY DEF Exported
<1> QED BY <1>1 DEF Firm, Restores, Secret

LEMMA ImportedSigns ==
  ASSUME NEW ks \in Keystore, NEW p \in Password
  PROVE  /\ Restores(ks) => Firm(Imported(ks, p)) /\ ~Imported(ks, p).readonly
         /\ ks.secrets = {} => Imported(ks, p).readonly
<1> DEFINE seed == "seed" \in ks.secrets \/ ("mnemonic" \in ks.secrets /\ ~ks.hasPassPhrase)
           xprv == "xPrivKey" \in ks.secrets \/ seed
           secrets == ks.secrets \cup (IF seed THEN {"seed"} ELSE {})
                                 \cup (IF xprv THEN {"xPrivKey", "requestPrivKey"} ELSE {})
<1>1. Imported(ks, p).sec = Encrypted(secrets, p) /\ Imported(ks, p).readonly = (secrets = {})
  BY DEF Imported
<1>2. ks.secrets = {} => secrets = {}
  OBVIOUS
<1>3. Restores(ks) => \E f \in secrets : f \in {"xPrivKey", "seed", "singlePrivateKey"}
  BY DEF Restores
<1> HIDE DEF secrets
<1>4. \A f \in Secret \cap secrets : Encrypted(secrets, p)[f] # Empty
  BY PasswordAssumption DEF Encrypted
<1>5. Restores(ks) => Firm(Imported(ks, p)) /\ ~Imported(ks, p).readonly
  BY <1>1, <1>3, <1>4 DEF Firm, Secret
<1> QED BY <1>1, <1>2, <1>5

\* The key at the start.
LEMMA InitSignInv == Init => SignInv
<1> SUFFICES ASSUME Init PROVE SignInv
  OBVIOUS
<1>1. pw \in Password /\ pw # Empty
  BY PasswordAssumption DEF Init
<1>2. SeedStore(pw).sec["seed"] # Empty /\ SingleKeyStore(pw).sec["singlePrivateKey"] # Empty
  BY <1>1 DEF SeedStore, SingleKeyStore, HDStore, Encrypted, Secret
<1>3. XprvMultiSignStore(pw).sec["xPrivKey"] # Empty /\ ReadonlyMultiSignStore.readonly
  BY <1>1 DEF XprvMultiSignStore, ReadonlyMultiSignStore, Encrypted, Secret
<1>4. \A h \in BOOLEAN : /\ HDStore(pw, h).sec["seed"] # Empty
                         /\ MnemonicMultiSignStore(pw, h).sec["seed"] # Empty
                         /\ EarlierStore(pw, h).sec["xPrivKey"] # Empty
  BY <1>1 DEF HDStore, MnemonicMultiSignStore, EarlierStore, Encrypted, Secret
<1>5. \A h \in BOOLEAN, pub \in {{}, {"xPubKey", "ownerPubKey"}} :
         Stale(OldStore(pw, h, pub)) /\ SeedDerivable(OldStore(pw, h, pub))
  BY <1>1 DEF OldStore, Encrypted, Secret, Stale, SeedDerivable
<1>6. ~store.readonly => SignsFor(store)
  BY <1>2, <1>3, <1>4, <1>5 DEF Init, InitialStore, SignsFor, Firm
<1> QED BY <1>6 DEF Init, SignInv

\* No step loses it, and the kind of the wallet does not change.
LEMMA NextSignInv ==
  ASSUME AccountInv, SignInv, [Next]_vars
  PROVE  SignInv' /\ store'.readonly = store.readonly
<1>1. store \in Store /\ backup \in Keystore \cup {NoBackup}
  BY DEF AccountInv, TypeOK
<1>2. /\ ~store.readonly => SignsFor(store)
      /\ backup # NoBackup => IF store.readonly THEN backup.secrets = {} ELSE Restores(backup)
  BY DEF SignInv
<1>3. ASSUME NEW s, store' = s, s.readonly = store.readonly, ~s.readonly => SignsFor(s),
             \/ backup' = backup
             \/ s.readonly /\ backup'.secrets = {}
             \/ ~s.readonly /\ Restores(backup')
      PROVE  SignInv' /\ store'.readonly = store.readonly
  BY <1>2, <1>3 DEF SignInv, SignsFor, Firm, Stale, SeedDerivable, Restores
<1>4. ASSUME store' = store, backup' = backup PROVE SignInv' /\ store'.readonly = store.readonly
  BY <1>2, <1>3, <1>4
<1>5. ASSUME NEW p \in Password, ~store.readonly, ~NotReady(p), store' = Ready(p),
             backup' \in {backup, Exported(Ready(p))}
      PROVE  SignInv' /\ store'.readonly = store.readonly
  <2>1. Ready(p) \in Store /\ Firm(Ready(p)) /\ ~Ready(p).readonly
    BY <1>2, <1>5, ReadyKeeps, ReadyFirm
  <2>2. Restores(Exported(Ready(p)))
    BY <2>1, ExportedRestores
  <2>3. Ready(p).readonly = store.readonly
    BY <1>1, <1>5, <2>1 DEF Store
  <2> QED BY <1>3, <1>5, <2>1, <2>2, <2>3 DEF SignsFor
<1>6. ASSUME store.readonly, store' = store, backup' = Exported(store)
      PROVE  SignInv' /\ store'.readonly = store.readonly
  <2>1. Exported(store).secrets = {}
    BY <1>6 DEF Exported
  <2> QED BY <1>2, <1>3, <1>6, <2>1
<1>7. ASSUME NEW p \in Password, NEW q \in Password, ~store.readonly, ~NotReady(p), backup' = backup,
             store' = [Ready(p) EXCEPT !.sec = ChangePasswd(@, p, q)]
      PROVE  SignInv' /\ store'.readonly = store.readonly
  <2>1. PICK r \in Store : r = Ready(p) /\ Firm(r) /\ ~r.readonly
    BY <1>2, <1>7, ReadyKeeps, ReadyFirm
  <2>2. PICK c : c = ChangePasswd(r.sec, p, q)
    OBVIOUS
  <2>3. store' = [r EXCEPT !.sec = c]
    BY <1>7, <2>1, <2>2
  <2>4. \A f \in Secret : r.sec[f] # Empty => c[f] # Empty
    BY <2>2, PasswordAssumption DEF ChangePasswd
  <2> DEFINE s == [r EXCEPT !.sec = c]
  <2>5. s.sec = c /\ s.readonly = r.readonly /\ s.hasPassPhrase = r.hasPassPhrase
    BY DEF Store
  <2> HIDE DEF s
  <2>6. Firm(s)
    BY <2>1, <2>4, <2>5 DEF Firm, Secret
  <2>7. s.readonly = store.readonly
    BY <1>1, <1>7, <2>1, <2>5 DEF Store
  <2> QED BY <1>3, <1>7, <2>1, <2>3, <2>5, <2>6, <2>7 DEF SignsFor, s
<1>8. ASSUME NEW q \in Password, ~store.readonly, backup' = backup,
             store' = [store EXCEPT !.sec = Encrypted(Secret, q)]
      PROVE  SignInv' /\ store'.readonly = store.readonly
  <2>0. Encrypted(Secret, q)["seed"] # Empty
    BY PasswordAssumption DEF Encrypted, Secret
  <2>1. PICK c : c = Encrypted(Secret, q) /\ c["seed"] # Empty
    BY <2>0
  <2> DEFINE s == [store EXCEPT !.sec = c]
  <2>2. s.sec = c /\ s.readonly = store.readonly /\ store' = s
    BY <1>1, <1>8, <2>1 DEF Store
  <2> HIDE DEF s
  <2>3. Firm(s)
    BY <2>1, <2>2 DEF Firm
  <2> QED BY <1>3, <1>8, <2>2, <2>3 DEF SignsFor
<1>9. ASSUME NEW p \in Password, backup # NoBackup, backup' = backup, store' = Imported(backup, p)
      PROVE  SignInv' /\ store'.readonly = store.readonly
  <2>1. backup \in Keystore
    BY <1>1, <1>9
  <2> DEFINE s == Imported(backup, p)
  <2>2. IF store.readonly THEN s.readonly ELSE Firm(s) /\ ~s.readonly
    BY <1>2, <1>9, <2>1, ImportedSigns
  <2>3. s.readonly \in BOOLEAN /\ store.readonly \in BOOLEAN
    BY <1>1 DEF Store, Imported
  <2> HIDE DEF s
  <2>4. s.readonly = store.readonly /\ (~s.readonly => SignsFor(s))
    BY <2>2, <2>3 DEF SignsFor
  <2> QED BY <1>3, <1>9, <2>4 DEF s
<1> QED BY <1>4, <1>5, <1>6, <1>7, <1>8, <1>9, StoreEffect

LEMMA SignInvariant == Spec => [](AccountInv /\ SignInv)
<1>1. AccountInv /\ SignInv /\ [Next]_vars => SignInv'
  BY NextSignInv
<1> QED BY <1>1, InitInv, NextInv, InitSignInv, PTL DEF Spec

\* A wallet that can sign stays able to, whatever is regenerated, re-encrypted,
\* reset, exported and imported again, and through crashes and restarts.
THEOREM SigningKeyIsKept == Spec => SigningKeySurvives
<1>1. AccountInv /\ SignInv /\ [Next]_vars =>
        [~store.readonly /\ CanSign(store) /\ store' # store => ~store'.readonly /\ CanSign(store')]_vars
  <2> SUFFICES ASSUME AccountInv, SignInv, [Next]_vars, ~store.readonly
               PROVE  ~store'.readonly /\ CanSign(store')
    OBVIOUS
  <2>1. SignInv' /\ ~store'.readonly /\ store' \in Store
    BY NextSignInv, NextInv DEF AccountInv, TypeOK
  <2>2. SignsFor(store')
    BY <2>1 DEF SignInv, SignsFor, Firm, Stale, SeedDerivable
  <2> QED BY <2>1, <2>2, SignsForSigns
<1> QED BY <1>1, SignInvariant, PTL DEF Spec, SigningKeySurvives
-----------------------------------------------------------------------------
(***************************************************************************)
(* What a password is good for.  VerifyPayPassword tries one field, so it  *)
(* could confirm any password for a store without secrets; SignInv rules   *)
(* such a store out.                                                       *)
(***************************************************************************)
\* A decryption that gives something was tried with the current password.
LEMMA SecretMeansRight ==
  ASSUME NEW s, NEW w, OneKey(s, w), NEW p, NEW S \in SUBSET Secret,
         \/ Decrypted(s, S, p) = "secret"
         \/ Decrypted(s, S, p) # "throw" /\ \E f \in S : s.sec[f] # Empty
  PROVE  p = w
<1>1. \A f \in S : Opens(s.sec[f], p)
  BY DEF Decrypted
<1>2. \E f \in S : s.sec[f] # Empty
  BY DEF Decrypted
<1> QED BY <1>1, <1>2 DEF OneKey, Opens

\* VerifyPayPassword tries a field, when there is one.
LEMMA FirstStoredFound ==
  ASSUME NEW s \in Store, \E f \in Secret : s.sec[f] # Empty
  PROVE  FirstStored(s) \in SUBSET Secret /\ \E f \in FirstStored(s) : s.sec[f] # Empty
<1>1. DOMAIN VerifyOrder = 1..5
  BY DEF VerifyOrder
<1>2. /\ VerifyOrder[1] = "requestPrivKey" /\ VerifyOrder[2] = "seed" /\ VerifyOrder[3] = "mnemonic"
      /\ VerifyOrder[4] = "singlePrivateKey" /\ VerifyOrder[5] = "xPrivKey"
  BY DEF VerifyOrder
<1>3. FirstStored(s) \in SUBSET Secret
  BY DEF FirstStored, VerifyOrder, Secret
<1>4. \E j \in 1..5 : s.sec[VerifyOrder[j]] # Empty /\ \A k \in 1..(j - 1) : s.sec[VerifyOrder[k]] = Empty
  <2> DEFINE e(j) == s.sec[VerifyOrder[j]] = Empty
  <2>1. ~e(1) \/ ~e(2) \/ ~e(3) \/ ~e(4) \/ ~e(5)
    BY <1>2 DEF Secret
  <2>2. /\ \A k \in 1..(1 - 1) : FALSE
        /\ \A k \in 1..(2 - 1) : k = 1
        /\ \A k \in 1..(3 - 1) : k = 1 \/ k = 2
        /\ \A k \in 1..(4 - 1) : k = 1 \/ k = 2 \/ k = 3
        /\ \A k \in 1..(5 - 1) : k = 1 \/ k = 2 \/ k = 3 \/ k = 4
    OBVIOUS
  <2>3. \E j \in 1..5 : ~e(j) /\ \A k \in 1..(j - 1) : e(k)
    <3> HIDE DEF e
    <3>1. CASE ~e(1)
      BY <2>2, <3>1
    <3>2. CASE e(1) /\ ~e(2)
      BY <2>2, <3>2
    <3>3. CASE e(1) /\ e(2) /\ ~e(3)
      BY <2>2, <3>3
    <3>4. CASE e(1) /\ e(2) /\ e(3) /\ ~e(4)
      BY <2>2, <3>4
    <3>5. CASE e(1) /\ e(2) /\ e(3) /\ e(4) /\ ~e(5)
      BY <2>2, <3>5
    <3> QED BY <2>1, <3>1, <3>2, <3>3, <3>4, <3>5
  <2> QED BY <2>3
<1>5. PICK j \in 1..5 : s.sec[VerifyOrder[j]] # Empty
                        /\ \A k \in 1..(j - 1) : s.sec[VerifyOrder[k]] = Empty
  BY <1>4
<1>6. VerifyOrder[j] \in FirstStored(s)
  BY <1>1, <1>5 DEF FirstStored
<1> QED BY <1>3, <1>5, <1>6

\* A call with a password that returns val.
LEMMA PasswordCallNeeds ==
  ASSUME AccountInv, NEW op, NEW p \in Password, NEW val, PasswordCall(op, p, val),
         ~NotReady(p) /\ val \in {"secret", "true"} => p = pw,
         ret'.val \in {"secret", "true"}
  PROVE  ret'.p = pw'
<1>1. CASE RegenerateFails(op, p)
  BY <1>1 DEF RegenerateFails, Ret
<1>2. CASE ~NotReady(p) /\ ret' = Ret(op, p, val) /\ pw' = pw
  BY <1>2 DEF Ret
<1> QED BY <1>1, <1>2 DEF PasswordCall

\* Every call that hands out a secret or confirms a password was given the
\* current password.
LEMMA CallNeeds ==
  ASSUME AccountInv, SignInv, NEW p \in Password, Call(p), ret'.val \in {"secret", "true"}
  PROVE  ret'.p = pw'
<1>1. ASSUME NEW op, NEW val \in {"throw", "done", "false"}, Refuse(op, p, val) PROVE FALSE
  BY <1>1 DEF Refuse, Ret
<1>2. store \in Store /\ OneKey(store, pw)
  BY DEF AccountInv, TypeOK, OnePassword, OneKey
<1>3. ASSUME ~NotReady(p) PROVE Ready(p) \in Store /\ OneKey(Ready(p), pw)
  BY <1>3, ReadyKeeps
<1>4. ASSUME NEW f \in {"xPrivKey", "requestPrivKey", "mnemonic"}, ReadKey(f, p) PROVE ret'.p = pw'
  <2>1. {f} \in SUBSET Secret
    BY DEF Secret
  <2>2. ~NotReady(p) /\ Decrypted(Ready(p), {f}, p) \in {"secret", "true"} => p = pw
    BY <1>3, <2>1, SecretMeansRight, DecryptedVal
  <2> QED BY <1>1, <1>4, <2>2, PasswordCallNeeds DEF ReadKey
<1>5. ASSUME NEW f \in {"seed", "singlePrivateKey"}, ReadStored(f, p) PROVE ret'.p = pw'
  <2>1. {f} \in SUBSET Secret
    BY DEF Secret
  <2>2. Refuse("read", p, Decrypted(store, {f}, p))
    BY <1>5 DEF ReadStored
  <2>3. ret'.val = Decrypted(store, {f}, p) /\ ret'.p = p /\ pw' = pw
    BY <2>2 DEF Refuse, Ret
  <2>4. Decrypted(store, {f}, p) = "secret"
    BY <2>3, DecryptedVal
  <2> QED BY <1>2, <2>1, <2>3, <2>4, SecretMeansRight
<1>6. CASE VerifyPayPassword(p)
  <2>1. CASE ~store.readonly /\ PasswordCall("verify", p, PayPasswordVerdict(Ready(p), p))
    <3>1. ASSUME ~NotReady(p), PayPasswordVerdict(Ready(p), p) \in {"secret", "true"} PROVE p = pw
      <4>1. Firm(Ready(p))
        BY <2>1, ReadyFirm DEF SignInv
      <4>2. \E f \in Secret : Ready(p).sec[f] # Empty
        BY <1>3, <3>1, <4>1, SignsForSigns DEF SignsFor
      <4>3. /\ FirstStored(Ready(p)) \in SUBSET Secret
            /\ \E f \in FirstStored(Ready(p)) : Ready(p).sec[f] # Empty
        BY <1>3, <3>1, <4>2, FirstStoredFound
      <4>4. Decrypted(Ready(p), FirstStored(Ready(p)), p) # "throw"
        BY <3>1 DEF PayPasswordVerdict
      <4> QED BY <1>3, <3>1, <4>3, <4>4, SecretMeansRight
    <3> QED BY <2>1, <3>1, PasswordCallNeeds
  <2> QED BY <1>1, <1>6, <2>1 DEF VerifyPayPassword
<1>7. ASSUME NEW matches \in BOOLEAN, VerifyPassPhrase(matches, p) PROVE ret'.p = pw'
  <2>1. {"mnemonic"} \in SUBSET Secret
    BY DEF Secret
  <2>2. PassPhraseVerdict(Ready(p), p, matches) \in {"secret", "true"}
          => Decrypted(Ready(p), {"mnemonic"}, p) = "secret"
    BY DEF PassPhraseVerdict
  <2>3. ~NotReady(p) /\ PassPhraseVerdict(Ready(p), p, matches) \in {"secret", "true"} => p = pw
    BY <1>3, <2>1, <2>2, SecretMeansRight
  <2> QED BY <1>1, <1>7, <2>3, PasswordCallNeeds DEF VerifyPassPhrase
<1>8. ASSUME NEW q \in Password, ChangePassword(p, q) PROVE FALSE
  <2>1. ~Reencrypt(p, q) /\ ~RegenerateFails("changePassword", p)
    <3>1. Ret("changePassword", p, "throw").val = "throw" /\ Ret("changePassword", q, "done").val = "done"
      BY DEF Ret
    <3> QED BY <3>1 DEF Reencrypt, RegenerateFails
  <2> QED BY <1>1, <1>8, <2>1 DEF ChangePassword
<1>9. ASSUME NEW matches \in BOOLEAN, ResetPassword(matches, p) PROVE FALSE
  <2>1. CASE ret' = Ret("resetPassword", p, "done")
    BY <2>1 DEF Ret
  <2> QED BY <1>1, <1>9, <2>1 DEF ResetPassword
<1>10. CASE ExportKeystore(p)
  <2>1. ~store.readonly /\ ~NotReady(p) /\ ret' = Ret("exportKeystore", p, "secret") /\ pw' = pw
        /\ Decrypted(Ready(p), Secret, p) # "throw"
    <3>1. /\ Ret("exportKeystore", p, "throw").val = "throw" /\ Ret("exportKeystore", p, "done").val = "done"
      BY DEF Ret
    <3> QED BY <1>10, <3>1 DEF ExportKeystore
  <2>2. \E f \in Secret : Ready(p).sec[f] # Empty
    BY <1>3, <2>1, ReadyFirm, SignsForSigns DEF SignInv, SignsFor
  <2>3. p = pw
    BY <1>3, <2>1, <2>2, SecretMeansRight
  <2> QED BY <2>1, <2>3 DEF Ret
<1>11. ASSUME ImportKeystore(p) PROVE FALSE
  BY <1>11 DEF ImportKeystore, Ret
<1> QED BY <1>4, <1>5, <1>6, <1>7, <1>8, <1>9, <1>10, <1>11 DEF Call

\* No call hands out a key or the mnemonic, and none confirms a password, unless
\* it was given the password set last: through old stores, regenerations,
\* failed changes, keystore imports and restarts.
THEOREM SecretsAreGuarded == Spec => []SecretsNeedPassword
<1>1. Init => SecretsNeedPassword
  BY DEF Init, SecretsNeedPassword, Ret
<1>2. AccountInv /\ SignInv /\ SecretsNeedPassword /\ [Next]_vars => SecretsNeedPassword'
  <2> SUFFICES ASSUME AccountInv, SignInv, SecretsNeedPassword, [Next]_vars,
                      ret'.val \in {"secret", "true"}
               PROVE  ret'.p = pw'
    BY DEF SecretsNeedPassword
  <2>1. CASE UNCHANGED vars
    BY <2>1 DEF vars, SecretsNeedPassword
  <2>2. CASE Stop \/ CrashInSave \/ Load
    BY <2>2 DEF Stop, CrashInSave, Load, Ret
  <2> QED BY <2>1, <2>2, CallNeeds DEF Next
<1> QED BY <1>1, <1>2, SignInvariant, PTL DEF Spec
=============================================================================
