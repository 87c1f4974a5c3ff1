------------------------------ MODULE Staking ------------------------------
(***************************************************************************)
(* The wallet service (wallet_service.py) in one token: wallets, balances, *)
(* stakes that are deposited, slashed and withdrawn, rewards.  The slashing*)
(* engine does not call it.  No operation is interrupted: none awaits      *)
(* anything that yields.                                                   *)
(***************************************************************************)
EXTENDS Roster, Naturals, Sequences, FiniteSets, Functions

CONSTANTS
  Stakes,              \* bound: stake ids
  NoStake,             \* a stake id not used yet
  MinStake,            \* min_stakes of the token
  Amounts,             \* bound: amounts rewarded and staked
  Percents,            \* bound: percentages slashed
  MaxWallets,          \* bound: wallets
  MaxRewards           \* bound: rewards

Stake ==
  [wallet : 1..MaxWallets, amount : Nat, status : {"active", "slashed", "withdrawn"},
   expired : BOOLEAN, slashed : Nat]

ASSUME StakingAssumption ==
  /\ MinStake \in Nat \ {0}
  /\ IsFiniteSet(Stakes)
  /\ NoStake \notin Stake
  /\ Amounts \subseteq Nat
  /\ Percents \subseteq 0..100
  /\ MaxWallets \in Nat

VARIABLES
  wallets,       \* the owners of the wallets, in the order of their creation
  balance,       \* the balance of each wallet
  stakes,        \* stakes by id
  rewards        \* amounts of the rewards distributed

walletVars == <<wallets, balance, stakes, rewards>>

StakingTypeOK ==
  /\ wallets \in Seq(Miners)
  /\ balance \in [DOMAIN wallets -> Nat]
  /\ stakes \in [Stakes -> Stake \cup {NoStake}]
  /\ rewards \in Seq(Amounts)

StakingInit ==
  /\ wallets = <<>>
  /\ balance = <<>>
  /\ stakes = [s \in Stakes |-> NoStake]
  /\ rewards = <<>>

Deposited == {s \in Stakes : stakes[s] # NoStake}
-----------------------------------------------------------------------------
\* create_wallet: another one for a miner that has one, too.
CreateWallet(m) ==
  /\ Len(wallets) < MaxWallets
  /\ wallets' = Append(wallets, m)
  /\ balance' = Append(balance, 0)
  /\ UNCHANGED <<stakes, rewards>>

\* get_wallet: the first wallet of the miner.
GetWallet(m) ==
  LET own == {w \in DOMAIN wallets : wallets[w] = m}
  IN  {w \in own : \A other \in own : w <= other}

\* distribute_reward, to a wallet there is.
DistributeReward(w, amount) ==
  /\ Len(rewards) < MaxRewards
  /\ rewards' = Append(rewards, amount)
  /\ balance' = [balance EXCEPT ![w] = @ + amount]
  /\ UNCHANGED <<wallets, stakes>>

\* deposit_stake, from the wallet that the endpoint finds for the user.
DepositStake(m, amount) ==
  /\ amount >= MinStake
  /\ \E w \in GetWallet(m), s \in Stakes \ Deposited :
       /\ balance[w] >= amount
       /\ balance' = [balance EXCEPT ![w] = @ - amount]
       /\ stakes' = [stakes EXCEPT ![s] =
            [wallet |-> w, amount |-> amount, status |-> "active", expired |-> FALSE,
             slashed |-> 0]]
  /\ UNCHANGED <<wallets, rewards>>

\* The lock period of a stake ends.
LockExpires(s) ==
  /\ s \in Deposited
  /\ stakes' = [stakes EXCEPT ![s].expired = TRUE]
  /\ UNCHANGED <<wallets, balance, rewards>>

\* Mistake: the lock period is all that counts.
WithdrawableOnceExpired(s) == stakes[s].expired

\* Only an active stake, once its lock period is over: what a slash has left of
\* one stays where it is.
Withdrawable(s) == stakes[s].status = "active" /\ stakes[s].expired

\* withdraw_stake: the amount goes back to the wallet of the stake.
WithdrawStake(s) ==
  /\ s \in Deposited
  /\ Withdrawable(s)
  /\ balance' = [balance EXCEPT ![stakes[s].wallet] = @ + stakes[s].amount]
  /\ stakes' = [stakes EXCEPT ![s].status = "withdrawn"]
  /\ UNCHANGED <<wallets, rewards>>

\* slash_stake: what is taken goes to the treasury, which keeps no account, and
\* into the slash history of the stake.
SlashStake(s, percent) ==
  /\ s \in Deposited
  /\ stakes[s].status = "active"
  /\ LET taken == (stakes[s].amount * percent) \div 100
     IN  stakes' = [stakes EXCEPT ![s].amount = @ - taken, ![s].slashed = @ + taken,
                                  ![s].status = "slashed"]
  /\ UNCHANGED <<wallets, balance, rewards>>

StakingNext ==
  \/ \E m \in Miners : CreateWallet(m) \/ \E amount \in Amounts : DepositStake(m, amount)
  \/ \E w \in DOMAIN wallets, amount \in Amounts : DistributeReward(w, amount)
  \/ \E s \in Stakes : \/ LockExpires(s) \/ WithdrawStake(s)
                       \/ \E percent \in Percents : SlashStake(s, percent)
-----------------------------------------------------------------------------
\* What a stake accounts for: what was slashed from it, and the rest of it as long as
\* it was not withdrawn.
AccountsFor(stake) ==
  IF stake.status = "withdrawn" THEN stake.slashed ELSE stake.amount + stake.slashed

\* No token is made or lost: what was rewarded is in balances, in stakes that were
\* not withdrawn, or was slashed.  A stake is paid back at most once.
TokensConserved ==
  SumFunction(rewards) =
    SumFunction(balance) + SumFunction([s \in Deposited |-> AccountsFor(stakes[s])])
=============================================================================
