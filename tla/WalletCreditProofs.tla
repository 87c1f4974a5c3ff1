------------------------- MODULE WalletCreditProofs -------------------------
(***************************************************************************)
(* Theorems about WalletCredit for every set of hashes and coroutines and  *)
(* every MaxAttempts: the inductive invariant, the finality of sent rows   *)
(* and the refinement of CreditLedger.                                     *)
(***************************************************************************)
EXTENDS WalletCredit, TLAPS

\* The invariant holds before the first startup.
LEMMA InitIInv == Init => IInv
  BY CreditAssumption
  DEF Init, IInv, TypeOK, RetryInv, PendingRows, PhaseInv, WorkInv, OriginInv, SentImpliesPaid, ToldImpliesPaid,
      Serving, Workers

\* Every step of the credit coroutines, the retry loop, the network or a crash
\* preserves the invariant.
LEMMA StepIInv == IInv /\ [Next]_vars => IInv'
<1> SUFFICES ASSUME IInv, [Next]_vars PROVE IInv'
  OBVIOUS
<1> USE CreditAssumption DEF IInv, TypeOK, RetryInv, PhaseInv, WorkInv, OriginInv,
                              SentImpliesPaid, ToldImpliesPaid, PendingRows, Serving,
                              Step, Finish, Workers
<1>1. ASSUME NEW j \in Jobs, JobStep(j) PROVE IInv'
  <2>1. ASSUME NEW h \in Hashes, AcceptGradient(j, h) PROVE IInv'
    BY <2>1 DEF AcceptGradient
  <2>2. CASE SpawnCredit(j)
    BY <2>2 DEF SpawnCredit
  <2>3. CASE DropCredit(j)
    BY <2>3 DEF DropCredit
  <2>4. CASE SavePending(j)
    <3>1. TypeOK'
      BY <2>4 DEF SavePending
    <3>2. \A h \in Hashes : h # work[j] => row'[h] = row[h]
      BY <2>4 DEF SavePending
    <3>3. work[j] \in Hashes
      BY <2>4 DEF SavePending
    <3>4. phase = "serving"
      BY <2>4 DEF SavePending
    <3>5. \A h \in Hashes : row'[h].attempts = row[h].attempts
      BY <2>4 DEF SavePending
    <3>6. RetryInv'
      BY <2>4, <3>1, <3>2, <3>3, <3>4, <3>5 DEF SavePending
    <3>7. PhaseInv' /\ WorkInv'
      BY <2>4, <3>1 DEF SavePending
    <3>8. OriginInv' /\ SentImpliesPaid' /\ ToldImpliesPaid'
      BY <2>4, <3>1 DEF SavePending
    <3> QED
      BY <3>1, <3>6, <3>7, <3>8
  <2>5. CASE TellMiner(j)
    BY <2>5 DEF TellMiner
  <2> QED
    BY <1>1, <2>1, <2>2, <2>3, <2>4, <2>5 DEF JobStep
<1>2. ASSUME NEW w \in Workers, CreditStep(w) PROVE IInv'
  <2>1. CASE PostCredit(w)
    BY <2>1 DEF PostCredit
  <2>2. CASE CryptoCredits(w)
    BY <2>2 DEF CryptoCredits
  <2>3. CASE AnswerReceived(w)
    BY <2>3 DEF AnswerReceived
  <2>4. CASE CryptoRefuses(w)
    BY <2>4 DEF CryptoRefuses, Fails
  <2>5. CASE RequestTimesOut(w)
    BY <2>5 DEF RequestTimesOut, Fails
  <2>6. CASE AnswerLost(w)
    BY <2>6 DEF AnswerLost, Fails
  <2>7. CASE MarkSent(w)
    <3>1. TypeOK'
      BY <2>7 DEF MarkSent, SetRow
    <3>2. \A h \in Hashes : h # work[w] => row'[h] = row[h]
      BY <2>7 DEF MarkSent, SetRow
    <3>3. work[w] \in Hashes
      BY <2>7 DEF MarkSent
    <3>4. w # Retrier => phase = "serving"
      BY <2>7 DEF MarkSent
    <3>5. row'[work[w]].status \in {"none", "pending"} => row'[work[w]] = row[work[w]]
      BY <2>7, <3>3 DEF MarkSent, SetRow
    <3>6. todo' = todo /\ (w = Retrier => pc'[Retrier] = "idle") /\ (w # Retrier => pc'[Retrier] = pc[Retrier])
      BY <2>7 DEF MarkSent
    <3>7. RetryInv'
      BY <3>1, <3>2, <3>3, <3>4, <3>5, <3>6, <2>7 DEF MarkSent
    <3>8. PhaseInv' /\ WorkInv'
      BY <2>7, <3>1 DEF MarkSent, SetRow
    <3>9. OriginInv' /\ SentImpliesPaid' /\ ToldImpliesPaid'
      BY <2>7, <3>1 DEF MarkSent, SetRow
    <3> QED
      BY <3>1, <3>7, <3>8, <3>9
  <2> QED
    BY <1>2, <2>1, <2>2, <2>3, <2>4, <2>5, <2>6, <2>7 DEF CreditStep
<1>3. ASSUME NEW h \in Hashes, StrayArrives(h) PROVE IInv'
  BY <1>3 DEF StrayArrives, process
<1>4. CASE Startup
  <2>1. CASE Start
    BY <2>1 DEF Start
  <2>2. ASSUME NEW h \in Hashes, RetryNext(h) PROVE IInv'
    BY <2>2 DEF RetryNext
  <2>3. CASE MarkFailed
    <3>1. TypeOK'
      BY <2>3 DEF MarkFailed, SetRow
    <3>2. \A h \in Hashes : h # work[Retrier] => row'[h] = row[h]
      BY <2>3 DEF MarkFailed, SetRow
    <3>3. work[Retrier] \in Hashes
      BY <2>3 DEF MarkFailed
    <3>4. row'[work[Retrier]].status \in {"none", "pending"}
             => row'[work[Retrier]].attempts < MaxAttempts
      BY <2>3, <3>3 DEF MarkFailed, SetRow
    <3>5. todo' = todo /\ pc'[Retrier] = "idle" /\ work[Retrier] \notin todo
      BY <2>3 DEF MarkFailed
    <3>6. RetryInv'
      BY <3>1, <3>2, <3>3, <3>4, <3>5
    <3>7. PhaseInv' /\ WorkInv'
      BY <2>3, <3>1 DEF MarkFailed, SetRow
    <3>8. OriginInv' /\ SentImpliesPaid' /\ ToldImpliesPaid'
      BY <2>3, <3>1 DEF MarkFailed, SetRow
    <3> QED
      BY <3>1, <3>6, <3>7, <3>8
  <2>4. CASE StartServing
    BY <2>4 DEF StartServing
  <2> QED
    BY <1>4, <2>1, <2>2, <2>3, <2>4 DEF Startup
<1>5. CASE Crash
  BY <1>5 DEF Crash, Waiting
<1>6. CASE UNCHANGED vars
  BY <1>6 DEF vars, process
<1> QED
  BY <1>1, <1>2, <1>3, <1>4, <1>5, <1>6 DEF Next

\* In every reachable state: types, the exclusion of the retry loop and the
\* credit coroutines, and the agreement of the queue, the miner's
\* notifications and the crypto service's ledger.
THEOREM CreditInvariant == Spec => []IInv
  BY InitIInv, StepIInv, PTL DEF Spec

\* Every variable keeps its type: no row counts more than MaxAttempts failures.
THEOREM CreditTypes == Spec => []TypeOK
  BY CreditInvariant, PTL DEF IInv

\* A pending_credits row reads "sent" only if the crypto service holds the credit.
THEOREM SentIsPaid == Spec => []SentImpliesPaid
  BY CreditInvariant, PTL DEF IInv

\* A miner is told wallet_credited only for tokens that moved.
THEOREM ToldIsPaid == Spec => []ToldImpliesPaid
  BY CreditInvariant, PTL DEF IInv

\* No step changes a sent row: not a failed retry, not a late coroutine.
LEMMA SentStep ==
  ASSUME IInv, [Next]_vars
  PROVE  \A h \in Hashes : row[h].status = "sent" => row'[h].status = "sent"
<1> USE CreditAssumption DEF IInv, TypeOK, RetryInv, PendingRows, Workers
<1>1. CASE row' = row
  BY <1>1
<1>2. ASSUME NEW j \in Jobs, SavePending(j)
      PROVE  \A h \in Hashes : row[h].status = "sent" => row'[h].status = "sent"
  BY <1>2 DEF SavePending
<1>3. ASSUME NEW w \in Workers, MarkSent(w)
      PROVE  \A h \in Hashes : row[h].status = "sent" => row'[h].status = "sent"
  BY <1>3 DEF MarkSent, SetRow
<1>4. ASSUME MarkFailed
      PROVE  \A h \in Hashes : row[h].status = "sent" => row'[h].status = "sent"
  BY <1>4 DEF MarkFailed, SetRow, Finish, Step
<1>5. row' = row \/ (\E j \in Jobs : SavePending(j)) \/ (\E w \in Workers : MarkSent(w))
        \/ MarkFailed
  BY DEF Next, vars, process, JobStep, CreditStep, Startup, AcceptGradient, SpawnCredit,
         DropCredit, TellMiner, PostCredit, CryptoCredits, AnswerReceived, CryptoRefuses,
         RequestTimesOut, AnswerLost, StrayArrives, Start, RetryNext, StartServing, Crash
<1> QED
  BY <1>1, <1>2, <1>3, <1>4, <1>5

\* The retry loop of a restart never overwrites a credit that went through.
THEOREM SentStaysSent == Spec => SentIsFinal
<1>1. IInv /\ [Next]_vars
        => [\A h \in Hashes : row[h].status = "sent" => row'[h].status = "sent"]_vars
  BY SentStep
<1> QED
  BY <1>1, CreditInvariant, PTL DEF Spec, SentIsFinal

\* Every step of the credit path is a step of the ledger or leaves it alone.
LEMMA LedgerStep == IInv /\ [Next]_vars => [Ledger!LedgerNext]_(Ledger!ledgerVars)
<1> SUFFICES ASSUME IInv, [Next]_vars
             PROVE  Ledger!LedgerNext \/ UNCHANGED Ledger!ledgerVars
  OBVIOUS
<1> DEFINE confirmed == told \cup {h \in Hashes : row[h].status = "sent"}
<1> USE CreditAssumption
    DEF Ledger!LedgerNext, Ledger!ledgerVars, Ledger!Earn, Ledger!Pay, Ledger!Confirm
<1>1. ASSUME NEW h \in Hashes, accepted' = accepted \cup {h}, UNCHANGED <<row, paid, told>>
      PROVE  Ledger!LedgerNext
  BY <1>1
<1>2. ASSUME NEW h \in accepted, h \in Hashes, paid' = paid \cup {h},
             UNCHANGED <<accepted, row, told>>
      PROVE  Ledger!LedgerNext \/ UNCHANGED Ledger!ledgerVars
  BY <1>2
<1>3. ASSUME NEW h \in paid, h \in Hashes, confirmed' = confirmed \cup {h},
             UNCHANGED <<accepted, paid>>
      PROVE  Ledger!LedgerNext
  BY <1>3
<1>4. ASSUME UNCHANGED <<accepted, paid, told>>,
             \A h \in Hashes : row'[h].status = "sent" <=> row[h].status = "sent"
      PROVE  UNCHANGED Ledger!ledgerVars
  BY <1>4
<1>5. ASSUME NEW j \in Jobs, JobStep(j)
      PROVE  Ledger!LedgerNext \/ UNCHANGED Ledger!ledgerVars
  <2>1. ASSUME NEW h \in Hashes, AcceptGradient(j, h)
        PROVE  Ledger!LedgerNext
    BY <1>1, <2>1 DEF AcceptGradient
  <2>2. CASE SpawnCredit(j) \/ DropCredit(j)
    BY <1>4, <2>2 DEF SpawnCredit, DropCredit
  <2>3. CASE SavePending(j)
    <3>1. \A h \in Hashes : row'[h].status = "sent" <=> row[h].status = "sent"
      BY <2>3 DEF SavePending, IInv, TypeOK, Workers
    <3> QED
      BY <1>4, <2>3, <3>1 DEF SavePending
  <2>4. CASE TellMiner(j)
    <3>1. work[j] \in paid /\ work[j] \in Hashes
      BY <2>4 DEF TellMiner, Finish, Step, IInv, WorkInv, TypeOK, Workers
    <3>2. CASE told' = told \cup {work[j]}
      BY <1>3, <2>4, <3>1, <3>2 DEF TellMiner
    <3>3. CASE UNCHANGED told
      BY <1>4, <2>4, <3>3 DEF TellMiner
    <3> QED
      BY <2>4, <3>2, <3>3 DEF TellMiner
  <2> QED
    BY <1>5, <2>1, <2>2, <2>3, <2>4 DEF JobStep
<1>6. ASSUME NEW w \in Workers, CreditStep(w)
      PROVE  Ledger!LedgerNext \/ UNCHANGED Ledger!ledgerVars
  <2>1. CASE CryptoCredits(w)
    <3>1. work[w] \in accepted /\ work[w] \in Hashes
      BY <2>1 DEF CryptoCredits, Step, IInv, WorkInv, TypeOK
    <3> QED
      BY <1>2, <2>1, <3>1 DEF CryptoCredits
  <2>2. CASE MarkSent(w)
    <3>1. /\ work[w] \in paid /\ work[w] \in Hashes
          /\ UNCHANGED <<accepted, paid, told>>
      BY <2>2 DEF MarkSent, Finish, Step, IInv, WorkInv, TypeOK
    <3>2. CASE UNCHANGED row \/ row[work[w]].status = "none"
      BY <1>4, <2>2, <3>1, <3>2 DEF MarkSent, SetRow
    <3>3. CASE row[work[w]].status # "none"
               /\ row' = [row EXCEPT ![work[w]] = [status |-> "sent",
                                                  attempts |-> row[work[w]].attempts]]
      <4>1. \A h \in Hashes : row'[h].status = "sent" <=> (row[h].status = "sent" \/ h = work[w])
        BY <3>1, <3>3 DEF IInv, TypeOK
      <4>2. confirmed' = confirmed \cup {work[w]}
        BY <3>1, <4>1
      <4> QED
        BY <1>3, <3>1, <4>2
    <3> QED
      BY <2>2, <3>2, <3>3 DEF MarkSent, SetRow
  <2>3. CASE \/ PostCredit(w) \/ AnswerReceived(w) \/ CryptoRefuses(w)
             \/ RequestTimesOut(w) \/ AnswerLost(w)
    BY <1>4, <2>3 DEF PostCredit, AnswerReceived, CryptoRefuses, RequestTimesOut, AnswerLost
  <2> QED
    BY <1>6, <2>1, <2>2, <2>3 DEF CreditStep
<1>7. ASSUME NEW h \in Hashes, StrayArrives(h)
      PROVE  Ledger!LedgerNext \/ UNCHANGED Ledger!ledgerVars
  <2>1. h \in accepted
    BY <1>7 DEF StrayArrives, IInv, OriginInv
  <2>2. CASE paid' = paid \cup {h}
    BY <1>2, <1>7, <2>1, <2>2 DEF StrayArrives
  <2>3. CASE UNCHANGED paid
    BY <1>4, <1>7, <2>3 DEF StrayArrives
  <2> QED
    BY <1>7, <2>2, <2>3 DEF StrayArrives
<1>8. CASE Startup
  <2>1. CASE MarkFailed
    <3>1. \A h \in Hashes : row'[h].status = "sent" <=> row[h].status = "sent"
      BY <2>1 DEF MarkFailed, Finish, Step, SetRow, IInv, TypeOK, RetryInv, PendingRows
    <3> QED
      BY <1>4, <2>1, <3>1 DEF MarkFailed
  <2>2. CASE Start \/ (\E h \in Hashes : RetryNext(h)) \/ StartServing
    BY <1>4, <2>2 DEF Start, RetryNext, StartServing
  <2> QED
    BY <1>8, <2>1, <2>2 DEF Startup
<1>9. CASE Crash \/ UNCHANGED vars
  BY <1>4, <1>9 DEF Crash, vars, process
<1> QED
  BY <1>5, <1>6, <1>7, <1>8, <1>9 DEF Next

\* The credit path implements CreditLedger: only accepted work is paid, at most
\* once, and neither the queue nor a miner is told of a payment not made.
THEOREM CreditImplementsLedger == Spec => ImplementsLedger
<1>1. Init => Ledger!LedgerInit
  BY DEF Init, Ledger!LedgerInit
<1> QED
  BY <1>1, LedgerStep, CreditInvariant, PTL DEF Spec, ImplementsLedger, Ledger!LedgerSpec
=============================================================================
