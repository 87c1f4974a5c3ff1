---------------------------- MODULE CreditLedger ----------------------------
(***************************************************************************)
(* What the mining service promises about wallet credits, without saying   *)
(* how: the reward of an accepted gradient is earned, an earned reward is  *)
(* paid at most once, and only a paid reward is ever confirmed -- to the   *)
(* miner, or in the service's own books.  WalletCredit implements it.      *)
(***************************************************************************)
CONSTANT Hashes        \* gradient hashes: the proof-of-training of a credit

VARIABLES
  earned,              \* hashes of gradients the service accepted
  paid,                \* hashes for which tokens reached a wallet
  confirmed            \* hashes the service reported as paid

ledgerVars == <<earned, paid, confirmed>>

LedgerInit ==
  /\ earned = {}
  /\ paid = {}
  /\ confirmed = {}

Earn(h) ==
  /\ earned' = earned \cup {h}
  /\ UNCHANGED <<paid, confirmed>>

\* Tokens for h move once, and only for work that was accepted.
Pay(h) ==
  /\ h \in earned \ paid
  /\ paid' = paid \cup {h}
  /\ UNCHANGED <<earned, confirmed>>

Confirm(h) ==
  /\ h \in paid
  /\ confirmed' = confirmed \cup {h}
  /\ UNCHANGED <<earned, paid>>

LedgerNext == \E h \in Hashes : Earn(h) \/ Pay(h) \/ Confirm(h)

LedgerSpec == LedgerInit /\ [][LedgerNext]_ledgerVars
=============================================================================
