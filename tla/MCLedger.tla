------------------------------ MODULE MCLedger ------------------------------
(* A payout claim posted twice, a reversal that locks the same two balances  *)
(* the other way round, a two-asset deposit and an entry list that balances  *)
(* only across assets.                                                       *)
EXTENDS Ledger

E(a, asset, d, n) == [account |-> a, asset |-> asset, direction |-> d, amount |-> n]

MCAccounts == {"payable", "operating"}
MCAssets == {"NGN", "USDC"}

PayoutClaim == [key |-> "payout",
          entries |-> <<E("payable", "NGN", "debit", 5), E("operating", "NGN", "credit", 5)>>]
Reversal == [key |-> "reversal",
             entries |-> <<E("operating", "NGN", "debit", 5), E("payable", "NGN", "credit", 5)>>]
Mixed == [key |-> "mixed",
          entries |-> <<E("operating", "USDC", "debit", 5), E("payable", "NGN", "credit", 5)>>]

MCTransactions == {PayoutClaim, Reversal, Mixed}
=============================================================================
