---------------------------- MODULE MCSubAccount ----------------------------
(***************************************************************************)
(* Small instances of SubAccount.                                          *)
(***************************************************************************)
EXTENDS SubAccount

CONSTANTS a, b, c, r, x

\* Three cosigners with a mnemonic each.
MCCosigners == a :> "mnemonic" @@ b :> "mnemonic" @@ c :> "mnemonic"

\* A standard wallet whose key is in the ring, and a wallet that only watches.
MCMixed == c :> "standard" @@ r :> "readonly"

\* The same with a cosigner whose store is an old one.
MCOld == MCMixed @@ a :> "legacy"

\* An account made from an extended private key, and one made from a mnemonic.
MCXprv == a :> "mnemonic" @@ x :> "xprv"

\* The cosigners are interchangeable.
MCSymmetry == Permutations(Wallet)
=============================================================================
