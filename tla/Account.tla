------------------------------ MODULE Account ------------------------------
(***************************************************************************)
(* Account and its LocalStore: the secrets of one wallet, each encrypted   *)
(* on its own with the pay password, the calls that take a password, the   *)
(* regeneration of keys an older store lacks, the keystore backup, and the *)
(* file.  An encrypted field is modelled by the password that opens it:    *)
(* AES::EncryptCCM of nothing is the empty string, and the empty string    *)
(* decrypts to nothing under every password.                               *)
(***************************************************************************)
EXTENDS Naturals, Sequences, FiniteSets

CONSTANTS
  Password,   \* the passwords callers use
  Legal,      \* the passwords ErrorChecker::CheckPassword accepts
  Empty,      \* an empty field
  MaxInits    \* bound: how often Init has filled _allMultiSigners

ASSUME PasswordAssumption == Legal \subseteq Password /\ Empty \notin Password /\ MaxInits \in Nat \ {0}

Secret == {"mnemonic", "xPrivKey", "requestPrivKey", "seed", "singlePrivateKey"}
PubKey == {"xPubKey", "xPubKeyHDPM", "requestPubKey", "ownerPubKey",
           "xPubKeyBitcoin", "ethscPrimaryPubKey", "ripplePrimaryPubKey"}
Field == Password \cup {Empty}

\* The fields of LocalStore.  passphrase is written by old versions only.
Store == [readonly : BOOLEAN, multi : BOOLEAN, sec : [Secret -> Field],
          passphrase : Field, hasPassPhrase : BOOLEAN, pub : SUBSET PubKey]

Encrypted(S, p) == [f \in Secret |-> IF f \in S THEN p ELSE Empty]

(***************************************************************************)
(* The stores the constructors build, and the ones LocalStore::FromJson    *)
(* reads from files of earlier versions.                                   *)
(***************************************************************************)
HDStore(p, hasPass) ==
  [readonly |-> FALSE, multi |-> FALSE, sec |-> Encrypted(Secret, p),
   passphrase |-> Empty, hasPassPhrase |-> hasPass, pub |-> PubKey]

\* From a seed, without the mnemonic.
SeedStore(p) == [HDStore(p, FALSE) EXCEPT !.sec = Encrypted(Secret \ {"mnemonic"}, p)]

SingleKeyStore(p) ==
  [HDStore(p, FALSE) EXCEPT !.sec = Encrypted({"singlePrivateKey"}, p),
                            !.pub = {"ethscPrimaryPubKey"}]

XprvMultiSignStore(p) ==
  [readonly |-> FALSE, multi |-> TRUE, sec |-> Encrypted({"xPrivKey", "requestPrivKey"}, p),
   passphrase |-> Empty, hasPassPhrase |-> FALSE, pub |-> {"xPubKey", "xPubKeyHDPM", "requestPubKey"}]

MnemonicMultiSignStore(p, hasPass) ==
  [HDStore(p, hasPass) EXCEPT !.multi = TRUE, !.pub = PubKey \ {"ownerPubKey"}]

ReadonlyMultiSignStore ==
  [readonly |-> TRUE, multi |-> TRUE, sec |-> Encrypted({}, Empty),
   passphrase |-> Empty, hasPassPhrase |-> FALSE, pub |-> {}]

\* The file of an old version keeps the mnemonic and the passphrase only; the
\* public keys are there when the old wallet had used the main chain.
OldStore(p, hasPass, pub) ==
  [readonly |-> FALSE, multi |-> FALSE, sec |-> Encrypted({"mnemonic"}, p),
   passphrase |-> IF hasPass THEN p ELSE Empty, hasPassPhrase |-> hasPass,
   pub |-> pub \cup {"requestPubKey"}]

\* A version before Bitcoin and Ethereum: no seed, no single private key.
EarlierStore(p, hasPass) ==
  [readonly |-> FALSE, multi |-> FALSE,
   sec |-> Encrypted({"mnemonic", "xPrivKey", "requestPrivKey"}, p),
   passphrase |-> Empty, hasPassPhrase |-> hasPass,
   pub |-> {"xPubKey", "xPubKeyHDPM", "requestPubKey", "ownerPubKey"}]

InitialStore(p) ==
  {SeedStore(p), SingleKeyStore(p), XprvMultiSignStore(p), ReadonlyMultiSignStore}
  \cup {HDStore(p, h) : h \in BOOLEAN}
  \cup {MnemonicMultiSignStore(p, h) : h \in BOOLEAN}
  \cup {EarlierStore(p, h) : h \in BOOLEAN}
  \cup {OldStore(p, h, pub) : h \in BOOLEAN, pub \in {{}, {"xPubKey", "ownerPubKey"}}}

(***************************************************************************)
(* AES::DecryptCCM and RegenerateKey.                                      *)
(***************************************************************************)
Opens(c, p) == c \in {Empty, p}

\* The seed can be derived from the mnemonic: no passphrase, or a stored one.
SeedDerivable(s) ==
  /\ s.sec["seed"] = Empty /\ s.sec["mnemonic"] # Empty
  /\ s.hasPassPhrase => s.passphrase # Empty

\* First part of RegenerateKey: have the seed, drop the old passphrase field.
SeedThrows(s, p) ==
  IF SeedDerivable(s) THEN ~Opens(s.sec["mnemonic"], p) \/ ~Opens(s.passphrase, p)
                      ELSE ~Opens(s.sec["seed"], p)
\* Mutant: the passphrase is dropped whether or not the seed was derived with it.
DropsPassphraseFirst(s, p) == [s EXCEPT !.passphrase = Empty]

SeedStep(s, p) ==
  IF SeedDerivable(s)
  THEN [s EXCEPT !.sec["seed"] = p, !.passphrase = Empty,
                 !.hasPassPhrase = @ \/ s.passphrase # Empty]
  ELSE s

\* Second part: have the root key.
RootThrows(s, p) == ~Opens(s.sec["xPrivKey"], p)
RootStep(s, p) ==
  IF s.sec["xPrivKey"] = Empty /\ s.sec["seed"] # Empty THEN [s EXCEPT !.sec["xPrivKey"] = p] ELSE s

\* Third part: every key that is missing and can be derived.
KeyStep(s, p) ==
  LET haveSeed == s.sec["seed"] # Empty
      haveRootkey == s.sec["xPrivKey"] # Empty
      fromRoot == {"xPubKey", "xPubKeyHDPM", "ownerPubKey"} \cup
                  (IF s.sec["requestPrivKey"] = Empty THEN {"requestPubKey"} ELSE {})
      fromSeed == {"xPubKeyBitcoin", "ethscPrimaryPubKey", "ripplePrimaryPubKey"}
  IN [s EXCEPT
        !.sec["requestPrivKey"] = IF @ = Empty /\ haveRootkey THEN p ELSE @,
        !.sec["singlePrivateKey"] =
           IF haveSeed /\ (@ = Empty \/ "ethscPrimaryPubKey" \notin s.pub) THEN p ELSE @,
        !.pub = @ \cup (IF haveRootkey THEN fromRoot ELSE {}) \cup (IF haveSeed THEN fromSeed ELSE {})]

RegenerateThrows(s, p) == SeedThrows(s, p) \/ RootThrows(SeedStep(s, p), p)
Regenerated(s, p) == KeyStep(RootStep(SeedStep(s, p), p), p)
\* What a RegenerateKey that threw has already changed in memory.
RegenerateLeft(s, p) == IF SeedThrows(s, p) THEN s ELSE SeedStep(s, p)

\* The calls regenerate as long as the Bitcoin master public key is missing.
Stale(s) == "xPubKeyBitcoin" \notin s.pub

(***************************************************************************)
(* LocalStore::ChangePasswd re-encrypts the fields one after the other.    *)
(***************************************************************************)
Order == <<"mnemonic", "xPrivKey", "requestPrivKey", "seed", "singlePrivateKey">>

ChangeThrows(sec, p) == \E f \in Secret : ~Opens(sec[f], p)

\* Mutant: the seed was added to the store, and forgotten here.
SeedKeepsOldPassword(sec, p, q) ==
  [f \in Secret |-> IF sec[f] = Empty \/ f = "seed" THEN sec[f] ELSE q]

\* The fields before the first one that throws are re-encrypted already.
ChangePasswd(sec, p, q) ==
  [f \in Secret |->
     IF sec[f] # Empty /\ \A i \in DOMAIN Order :
          (\E j \in DOMAIN Order : Order[j] = f /\ i <= j) => Opens(sec[Order[i]], p)
     THEN q ELSE sec[f]]

(***************************************************************************)
(* The keystore: Account::ExportKeystore and the constructor that imports  *)
(* one, with what ElaNewWalletJson::FromJsonCommon derives on the way.     *)
(***************************************************************************)
Keystore == [secrets : SUBSET Secret, multi : BOOLEAN, hasPassPhrase : BOOLEAN, pub : SUBSET PubKey]

Exported(s) ==
  [secrets |-> {f \in Secret : ~s.readonly /\ s.sec[f] # Empty}, multi |-> s.multi,
   hasPassPhrase |-> s.hasPassPhrase, pub |-> s.pub]

Imported(ks, p) ==
  LET seed == "seed" \in ks.secrets \/ ("mnemonic" \in ks.secrets /\ ~ks.hasPassPhrase)
      xprv == "xPrivKey" \in ks.secrets \/ seed
      secrets == ks.secrets \cup (IF seed THEN {"seed"} ELSE {})
                            \cup (IF xprv THEN {"xPrivKey", "requestPrivKey"} ELSE {})
  IN [readonly |-> secrets = {}, multi |-> ks.multi, sec |-> Encrypted(secrets, p),
      passphrase |-> Empty, hasPassPhrase |-> ks.hasPassPhrase,
      pub |-> ks.pub
        \cup (IF xprv THEN {"xPubKey", "xPubKeyHDPM", "ownerPubKey", "requestPubKey"} ELSE {})
        \cup (IF seed THEN {"xPubKeyBitcoin", "ethscPrimaryPubKey", "ripplePrimaryPubKey"} ELSE {})]
-----------------------------------------------------------------------------
VARIABLES
  alive,     \* an Account object exists in the process
  store,     \* its _localstore in memory
  disk,      \* the store file: a Store, or torn by a crash in Save
  inits,     \* how often Init has pushed the cosigners onto _allMultiSigners
  backup,    \* the last keystore exported, or none
  pw,        \* the password last set with success: what the user remembers
  ret        \* the last call: its name, the password given, what came back

vars == <<alive, store, disk, inits, backup, pw, ret>>

Torn == [torn |-> TRUE]
NoBackup == [none |-> TRUE]
Ret(op, p, val) == [op |-> op, p |-> p, val |-> val]
Op == {"none", "read", "verify", "changePassword", "resetPassword", "exportKeystore", "import"}
Val == {"none", "secret", "empty", "true", "false", "throw", "done"}

TypeOK ==
  /\ alive \in BOOLEAN
  /\ store \in Store
  /\ disk \in Store \cup {Torn}
  /\ inits \in 0..MaxInits
  /\ backup \in Keystore \cup {NoBackup}
  /\ pw \in Password
  /\ ret \in [op : Op, p : Field, val : Val]

Pushes(s) == IF s.multi THEN 1 ELSE 0

Init ==
  /\ alive = TRUE
  /\ pw \in Legal
  /\ store \in InitialStore(pw)
  /\ disk = store
  /\ inits = Pushes(store)
  /\ backup = NoBackup
  /\ ret = Ret("none", Empty, "none")
-----------------------------------------------------------------------------
\* The store as a call with password p finds it once RegenerateKey and Init,
\* if they were needed, are done.
Ready(p) == IF Stale(store) THEN Regenerated(store, p) ELSE store
NotReady(p) == Stale(store) /\ RegenerateThrows(store, p)

\* RegenerateKey saves, Init pushes the cosigners once more.
MakeReady(p) ==
  /\ inits' = inits + (IF Stale(store) THEN Pushes(store) ELSE 0)
  /\ inits' <= MaxInits
  /\ store' = Ready(p)
  /\ disk' = IF Stale(store) THEN store' ELSE disk

RegenerateFails(op, p) ==
  /\ NotReady(p)
  /\ store' = RegenerateLeft(store, p)
  /\ ret' = Ret(op, p, "throw")
  /\ UNCHANGED <<alive, disk, inits, backup, pw>>

\* A call with password p that returns val once the store is ready.
PasswordCall(op, p, val) ==
  \/ RegenerateFails(op, p)
  \/ /\ ~NotReady(p)
     /\ MakeReady(p)
     /\ ret' = Ret(op, p, val)
     /\ UNCHANGED <<alive, backup, pw>>

Refuse(op, p, val) == ret' = Ret(op, p, val) /\ UNCHANGED <<alive, store, disk, inits, backup, pw>>

Decrypted(s, S, p) ==
  CASE \E f \in S : ~Opens(s.sec[f], p) -> "throw"
    [] \A f \in S : s.sec[f] = Empty    -> "empty"
    [] OTHER                            -> "secret"

\* RootKey, RequestPrivKey, GetxPrvKeyString and ExportMnemonic read one field.
ReadKey(f, p) ==
  /\ alive
  /\ \/ store.readonly /\ Refuse("read", p, "throw")
     \/ ~store.readonly /\ PasswordCall("read", p, Decrypted(Ready(p), {f}, p))

\* GetSeed and GetSinglePrivateKey read a field as it is.
ReadStored(f, p) ==
  /\ alive
  /\ Refuse("read", p, Decrypted(store, {f}, p))

\* VerifyPayPassword tries the first of the fields that is not empty.
VerifyOrder == <<"requestPrivKey", "seed", "mnemonic", "singlePrivateKey", "xPrivKey">>
FirstStored(s) ==
  {VerifyOrder[i] : i \in {j \in DOMAIN VerifyOrder :
      s.sec[VerifyOrder[j]] # Empty /\ \A k \in 1..(j - 1) : s.sec[VerifyOrder[k]] = Empty}}

PayPasswordVerdict(s, p) ==
  IF Decrypted(s, FirstStored(s), p) = "throw" THEN "throw" ELSE "true"

VerifyPayPassword(p) ==
  /\ alive
  /\ \/ store.readonly /\ Refuse("verify", p, "false")
     \/ ~store.readonly /\ PasswordCall("verify", p, PayPasswordVerdict(Ready(p), p))

\* VerifyPassPhrase compares the key it derives from the stored mnemonic.
PassPhraseVerdict(s, p, matches) ==
  CASE Decrypted(s, {"mnemonic"}, p) = "throw"              -> "throw"
    [] Decrypted(s, {"mnemonic"}, p) = "secret" /\ matches -> "true"
    [] OTHER                                                -> "false"

VerifyPassPhrase(matches, p) ==
  /\ alive
  /\ \/ (store.readonly \/ "xPubKey" \notin store.pub) /\ Refuse("verify", p, "false")
     \/ /\ ~store.readonly /\ "xPubKey" \in store.pub
        /\ PasswordCall("verify", p, PassPhraseVerdict(Ready(p), p, matches))

\* Mutant: the new password is checked after the keys were regenerated.
ChangeChecksLate(p, q) ==
  /\ alive /\ ~store.readonly
  /\ ~NotReady(p) /\ q \notin Legal
  /\ MakeReady(p)
  /\ ret' = Ret("changePassword", p, "throw")
  /\ UNCHANGED <<alive, backup, pw>>

\* The keys are regenerated and saved under the old password first.
Reencrypt(p, q) ==
  /\ ~NotReady(p)
  /\ inits' = inits + (IF Stale(store) THEN Pushes(store) ELSE 0)
  /\ inits' <= MaxInits
  /\ store' = [Ready(p) EXCEPT !.sec = ChangePasswd(@, p, q)]
  /\ IF ChangeThrows(Ready(p).sec, p)
     THEN /\ disk' = IF Stale(store) THEN Ready(p) ELSE disk
          /\ ret' = Ret("changePassword", p, "throw")
          /\ UNCHANGED pw
     ELSE /\ disk' = store'
          /\ pw' = q
          /\ ret' = Ret("changePassword", q, "done")
  /\ UNCHANGED <<alive, backup>>

ChangePassword(p, q) ==
  /\ alive
  /\ \/ store.readonly /\ Refuse("changePassword", p, "done")
     \/ ~store.readonly /\ q \notin Legal /\ Refuse("changePassword", p, "throw")
     \/ ~store.readonly /\ q \in Legal /\ RegenerateFails("changePassword", p)
     \/ ~store.readonly /\ q \in Legal /\ Reencrypt(p, q)

\* Mutant: the new secrets are not saved.
ResetWithoutSave(matches, q) ==
  /\ alive /\ ~store.readonly /\ q \in Legal /\ matches /\ "xPubKey" \in store.pub
  /\ store' = [store EXCEPT !.sec = Encrypted(Secret, q)]
  /\ pw' = q
  /\ ret' = Ret("resetPassword", q, "done")
  /\ UNCHANGED <<alive, disk, inits, backup>>

\* ResetPassword replaces every secret by the ones the mnemonic gives, if the
\* mnemonic is the wallet's.
ResetPassword(matches, q) ==
  /\ alive
  /\ \/ store.readonly /\ Refuse("resetPassword", q, "done")
     \/ /\ ~store.readonly
        /\ q \notin Legal \/ ~matches \/ "xPubKey" \notin store.pub
        /\ Refuse("resetPassword", q, "throw")
     \/ /\ ~store.readonly /\ q \in Legal /\ matches /\ "xPubKey" \in store.pub
        /\ store' = [store EXCEPT !.sec = Encrypted(Secret, q)]
        /\ disk' = store'
        /\ pw' = q
        /\ ret' = Ret("resetPassword", q, "done")
        /\ UNCHANGED <<alive, inits, backup>>

\* MasterWallet::ExportKeystore saves first.
ExportKeystore(p) ==
  /\ alive
  /\ \/ /\ store.readonly
        /\ disk' = store /\ backup' = Exported(store)
        /\ ret' = Ret("exportKeystore", p, "done")
        /\ UNCHANGED <<alive, store, inits, pw>>
     \/ /\ ~store.readonly /\ NotReady(p)
        /\ store' = RegenerateLeft(store, p) /\ disk' = store
        /\ ret' = Ret("exportKeystore", p, "throw")
        /\ UNCHANGED <<alive, inits, backup, pw>>
     \/ /\ ~store.readonly /\ ~NotReady(p)
        /\ MakeReady(p)
        /\ IF Decrypted(Ready(p), Secret, p) = "throw"
           THEN UNCHANGED backup /\ ret' = Ret("exportKeystore", p, "throw")
           ELSE backup' = Exported(Ready(p)) /\ ret' = Ret("exportKeystore", p, "secret")
        /\ UNCHANGED <<alive, pw>>

\* The wallet is destroyed and imported again from its keystore.  The pay
\* password given to the import is not checked.
ImportKeystore(p) ==
  /\ backup # NoBackup
  /\ alive' = TRUE
  /\ store' = Imported(backup, p)
  /\ disk' = store'
  /\ inits' = Pushes(store')
  /\ pw' = p
  /\ ret' = Ret("import", p, "done")
  /\ UNCHANGED backup

\* The process ends; a crash inside Save leaves a file that cannot be read.
Stop ==
  /\ alive
  /\ alive' = FALSE
  /\ ret' = Ret("none", Empty, "none")
  /\ UNCHANGED <<store, disk, inits, backup, pw>>

CrashInSave ==
  /\ alive
  /\ alive' = FALSE
  /\ disk' = Torn
  /\ ret' = Ret("none", Empty, "none")
  /\ UNCHANGED <<store, inits, backup, pw>>

\* Mutant: an unreadable file is not noticed.
LoadsTornFile ==
  /\ ~alive
  /\ alive' = TRUE
  /\ store' = disk
  /\ inits' = 0
  /\ ret' = Ret("none", Empty, "none")
  /\ UNCHANGED <<disk, backup, pw>>

Load ==
  /\ ~alive /\ disk # Torn
  /\ alive' = TRUE
  /\ store' = disk
  /\ inits' = Pushes(disk)
  /\ ret' = Ret("none", Empty, "none")
  /\ UNCHANGED <<disk, backup, pw>>

Call(p) ==
  \/ \E f \in {"xPrivKey", "requestPrivKey", "mnemonic"} : ReadKey(f, p)
  \/ \E f \in {"seed", "singlePrivateKey"} : ReadStored(f, p)
  \/ VerifyPayPassword(p)
  \/ \E matches \in BOOLEAN : VerifyPassPhrase(matches, p) \/ ResetPassword(matches, p)
  \/ \E q \in Password : ChangePassword(p, q)
  \/ ExportKeystore(p)
  \/ ImportKeystore(p)

Next == Stop \/ CrashInSave \/ Load \/ \E p \in Password : Call(p)

Spec == Init /\ [][Next]_vars
-----------------------------------------------------------------------------
(***************************************************************************)
(* Properties.                                                             *)
(***************************************************************************)
\* Every secret of the wallet opens with the one password the user set last:
\* no call re-encrypts some fields and leaves others (LocalStore::ChangePasswd,
\* ResetPassword, RegenerateKey).
OnePassword == \A f \in Secret : Opens(store.sec[f], pw)

\* What is in memory is in the file, unless a crash cut the file off.
StoreSaved == disk = store \/ disk = Torn

\* A call that throws has changed nothing, in memory or in the file: a wrong or
\* refused password never leaves a half-changed wallet.
ThrowChangesNothing ==
  [][ret'.val = "throw" => UNCHANGED <<store, disk, inits, pw>>]_vars

\* No call hands out a secret, or confirms the password, for any password but
\* the current one.
SecretsNeedPassword == ret.val \in {"secret", "true"} => ret.p = pw

\* The account can still produce its signing key.
CanSign(s) ==
  \/ s.sec["xPrivKey"] # Empty \/ s.sec["seed"] # Empty \/ s.sec["singlePrivateKey"] # Empty
  \/ SeedDerivable(s)

\* A wallet that can sign stays able to: regenerating drops the passphrase only
\* once the seed is stored, and an exported keystore restores the keys.
SigningKeySurvives ==
  [][~store.readonly /\ CanSign(store) /\ store' # store =>
       ~store'.readonly /\ CanSign(store')]_vars
=============================================================================
