--------------------------- MODULE MCTransactions ---------------------------
(***************************************************************************)
(* The model of the transactions of the Elastos chains and of Bitcoin.     *)
(* The two sub wallets share nothing, so a behaviour is about one of them  *)
(* and the other one rests.                                                *)
(***************************************************************************)
EXTENDS Transactions, BTCSubWallet

Utxo(t, a, x) == [txo |-> t, address |-> a, amount |-> x]

\* A transaction output that is named with two amounts, one of them beyond Word; a
\* deposit; somebody else's output; a negative amount.
MCUtxos ==
  {Utxo(1, "a0", 3), Utxo(1, "a0", 9), Utxo(2, "deposit", 4), Utxo(3, "other", 1), Utxo(4, "a0", -1)}

MCAmounts == {-2, 1, 4, 9}
MCFees    == {-1, 2}

Coin(c, i, x) == [address |-> <<c, i>>, amount |-> x]

\* Two addresses of a chain, one of the other, somebody else's; a negative amount,
\* one beyond the signed range, and amounts whose sum is beyond BTCWord.
MCCoins ==
  {Coin("external", 0, 60), Coin("external", 1, -1), Coin("internal", 1, 70), Coin("other", 0, 20)}

MCPayments == {-1, 7, 90}
MCRates    == {-1, 3, 40}

MCInit == Init /\ BTCInit

MCNext ==
  \/ single /\ ~multiSign /\ given = {} /\ btcTx = NoBtcTx /\ btcOutcome = "none" /\ Next /\ UNCHANGED btcVars
  \/ made = None /\ outcome = "none" /\ BTCNext /\ UNCHANGED vars

MCSpec == MCInit /\ [][MCNext]_<<vars, btcVars>>
=============================================================================
