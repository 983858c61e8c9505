----------------------- MODULE MCMasterWalletManager -----------------------
(***************************************************************************)
(* Small instances of MasterWalletManager: two wallet IDs, two root keys.  *)
(***************************************************************************)
EXTENDS MasterWalletManager

CONSTANTS k1, k2

\* The wallet IDs are interchangeable.
MCSymmetry == Permutations(Id)

\* A store of an earlier version: the mnemonic is there, the Bitcoin and
\* Ethereum keys are not.
OldAccount == [HDAccount(k1) EXCEPT !.eth = NoKey, !.btc = FALSE]
MCLegacyStore == {[acct |-> OldAccount, coins |-> <<"ELA">>]}

\* In the oldest stores not even the main chain's public key is there.
MCOldestStore ==
  MCLegacyStore \cup {[acct |-> [OldAccount EXCEPT !.xpub = NoKey, !.owner = FALSE], coins |-> <<>>]}

\* A keystore of a standard wallet and one of a multi-sign wallet.
MCKeystore == {[acct |-> HDAccount(k2), coins |-> <<"ELA", "ETHSC">>],
               [acct |-> XprvMultiSign(k1, <<k2>>, 1), coins |-> <<"ELA">>]}
=============================================================================
