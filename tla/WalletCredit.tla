---------------------------- MODULE WalletCredit ----------------------------
(***************************************************************************)
(* The wallet-credit path of the mining service: an accepted gradient      *)
(* (ws_handler.py) starts a coroutine that saves the credit in the         *)
(* pending_credits table, posts it to the crypto service and marks it sent *)
(* (chain_bridge.py); at startup main.py retries what is still pending     *)
(* before the service takes requests.                                      *)
(*                                                                         *)
(* One action per stretch of code between two awaits.  A worker is one run *)
(* of the credit coroutine, or the startup retry loop (Retrier), which     *)
(* reuses the same posting code.  Database writes may fail: the code       *)
(* swallows the exception and goes on.  The process may crash anywhere.    *)
(***************************************************************************)
EXTENDS Naturals

CONSTANTS
  Hashes,        \* gradient hashes, unique key of a credit
  Jobs,          \* credit coroutines that may run at once
  Retrier,       \* the startup retry loop
  NoHash,        \* a worker with no credit in hand
  MaxAttempts    \* failed retries after which a row is given up (5 in the code)

ASSUME CreditAssumption ==
  /\ Retrier \notin Jobs
  /\ NoHash \notin Hashes
  /\ MaxAttempts \in Nat \ {0}

VARIABLES
  phase,         \* "down", "retrying" (lifespan before its yield) or "serving"
  pc,            \* where each worker stands
  work,          \* the hash each worker is crediting
  todo,          \* pending rows the retry loop read and has not reached
  row,           \* pending_credits: status ("none": no row) and attempts
  stray,         \* requests nobody waits for that may still reach the crypto service
  paid,          \* mining_credits of the crypto service: tokens moved
  accepted,      \* gradients the parameter server accepted over the websocket
  told           \* hashes some miner was told are credited

process == <<phase, pc, work, todo>>
vars == <<process, row, stray, paid, accepted, told>>

Workers == Jobs \cup {Retrier}

TypeOK ==
  /\ phase \in {"down", "retrying", "serving"}
  /\ pc \in [Workers -> {"idle", "ack", "save", "send", "wait", "answered",
                         "mark", "tell", "fail"}]
  /\ work \in [Workers -> Hashes \cup {NoHash}]
  /\ todo \subseteq Hashes
  /\ row \in [Hashes -> [status : {"none", "pending", "sent", "failed"},
                         attempts : 0..MaxAttempts]]
  /\ stray \subseteq Hashes
  /\ paid \subseteq Hashes
  /\ accepted \subseteq Hashes
  /\ told \subseteq Hashes

Init ==
  /\ phase = "down"
  /\ pc = [w \in Workers |-> "idle"]
  /\ work = [w \in Workers |-> NoHash]
  /\ todo = {}
  /\ row = [h \in Hashes |-> [status |-> "none", attempts |-> 0]]
  /\ stray = {}
  /\ paid = {}
  /\ accepted = {}
  /\ told = {}
-----------------------------------------------------------------------------
\* Mistake: requests are taken while the retry loop still runs.
ServingTooEarly == phase # "down"

Serving == phase = "serving"

Step(w, from, to) ==
  /\ pc[w] = from
  /\ pc' = [pc EXCEPT ![w] = to]

Finish(w, from) ==
  /\ Step(w, from, "idle")
  /\ work' = [work EXCEPT ![w] = NoHash]

(***************************************************************************)
(* The websocket handler: the gradient is accepted by the parameter server *)
(* and the acknowledgement is being sent.                                  *)
(***************************************************************************)
AcceptGradient(j, h) ==
  /\ Serving
  /\ Step(j, "idle", "ack")
  /\ work' = [work EXCEPT ![j] = h]
  /\ accepted' = accepted \cup {h}
  /\ UNCHANGED <<phase, todo, row, stray, paid, told>>

\* The acknowledgement went out: the credit coroutine is created.
SpawnCredit(j) ==
  /\ Step(j, "ack", "save")
  /\ UNCHANGED <<phase, work, todo, row, stray, paid, accepted, told>>

\* The acknowledgement failed (the socket closed), or the connection's
\* metadata is gone and the coroutine raises before it saves anything.
DropCredit(j) ==
  /\ Finish(j, "ack")
  /\ UNCHANGED <<phase, todo, row, stray, paid, accepted, told>>

-----------------------------------------------------------------------------
\* The insert commits unless the hash already has a row (UNIQUE), or fails.
SavePending(j) ==
  /\ Step(j, "save", "send")
  /\ \/ row' = [row EXCEPT ![work[j]].status = IF @ = "none" THEN "pending" ELSE @]
     \/ UNCHANGED row
  /\ UNCHANGED <<phase, work, todo, stray, paid, accepted, told>>

\* Mistake: the answer of the crypto service is not awaited.
PostWithoutWaiting(w) ==
  /\ Step(w, "send", "answered")
  /\ UNCHANGED <<phase, work, todo, row, stray, paid, accepted, told>>

PostCredit(w) ==
  /\ Step(w, "send", "wait")
  /\ UNCHANGED <<phase, work, todo, row, stray, paid, accepted, told>>

\* The crypto service credits a hash it has not seen (200) or recognises a
\* replay (409); the client treats both as success.
CryptoCredits(w) ==
  /\ Step(w, "wait", "answered")
  /\ paid' = paid \cup {work[w]}
  /\ UNCHANGED <<phase, work, todo, row, stray, accepted, told>>

AnswerReceived(w) ==
  /\ Step(w, "answered", "mark")
  /\ UNCHANGED <<phase, work, todo, row, stray, paid, accepted, told>>

\* Mistake: a refusal or a timeout is taken for a success.
FailsAsSuccess(w, from) == Step(w, from, "mark") /\ UNCHANGED work

\* The credit coroutine raises and its caller tells the miner; the retry loop
\* goes on to mark the row failed.
Fails(w, from) ==
  IF w = Retrier THEN Step(w, from, "fail") /\ UNCHANGED work ELSE Finish(w, from)

\* A 403 or any other status: nothing was credited.
CryptoRefuses(w) ==
  /\ Fails(w, "wait")
  /\ UNCHANGED <<phase, todo, row, stray, paid, accepted, told>>

\* The client gives up while the request is still on its way ...
RequestTimesOut(w) ==
  /\ Fails(w, "wait")
  /\ stray' = stray \cup {work[w]}
  /\ UNCHANGED <<phase, todo, row, paid, accepted, told>>

\* ... or after the credit was made, before the answer was read.
AnswerLost(w) ==
  /\ Fails(w, "answered")
  /\ UNCHANGED <<phase, todo, row, stray, paid, accepted, told>>

StrayArrives(h) ==
  /\ h \in stray
  /\ stray' = stray \ {h}
  /\ \/ paid' = paid \cup {h}
     \/ UNCHANGED paid
  /\ UNCHANGED <<process, row, accepted, told>>

\* update ... where gradient_hash = h: touches the row if there is one.
SetRow(h, status, attempts) ==
  IF row[h].status = "none" THEN row
  ELSE [row EXCEPT ![h] = [status |-> status, attempts |-> attempts]]

MarkSent(w) ==
  /\ IF w = Retrier THEN Finish(w, "mark") ELSE Step(w, "mark", "tell") /\ UNCHANGED work
  /\ \/ row' = SetRow(work[w], "sent", row[work[w]].attempts)
     \/ UNCHANGED row
  /\ UNCHANGED <<phase, todo, stray, paid, accepted, told>>

\* The wallet_credited event; a closed socket is ignored.
TellMiner(j) ==
  /\ Finish(j, "tell")
  /\ \/ told' = told \cup {work[j]}
     \/ UNCHANGED told
  /\ UNCHANGED <<phase, todo, row, stray, paid, accepted>>
-----------------------------------------------------------------------------
(***************************************************************************)
(* Startup: the retry loop runs inside lifespan, before the service serves.*)
(***************************************************************************)
PendingRows == {h \in Hashes : row[h].status = "pending"}

\* The scan that fails is logged and the service starts without retrying.
Start ==
  /\ phase = "down"
  /\ phase' = "retrying"
  /\ \/ todo' = PendingRows
     \/ todo' = {}
  /\ UNCHANGED <<pc, work, row, stray, paid, accepted, told>>

\* Rows are taken in order of creation; any order is allowed here.
RetryNext(h) ==
  /\ phase = "retrying"
  /\ h \in todo
  /\ Step(Retrier, "idle", "send")
  /\ work' = [work EXCEPT ![Retrier] = h]
  /\ todo' = todo \ {h}
  /\ UNCHANGED <<phase, row, stray, paid, accepted, told>>

\* Mistake: attempts are not counted.
MarkFailedUncounted ==
  /\ Finish(Retrier, "fail")
  /\ UNCHANGED <<phase, todo, row, stray, paid, accepted, told>>

\* The attempts field is the one the scan read: only this loop writes it.
MarkFailed ==
  /\ Finish(Retrier, "fail")
  /\ LET h == work[Retrier]
         n == row[h].attempts + 1
     IN  \/ row' = SetRow(h, IF n >= MaxAttempts THEN "failed" ELSE "pending", n)
         \/ UNCHANGED row
  /\ UNCHANGED <<phase, todo, stray, paid, accepted, told>>

StartServing ==
  /\ phase = "retrying"
  /\ todo = {}
  /\ pc[Retrier] = "idle"
  /\ phase' = "serving"
  /\ UNCHANGED <<pc, work, todo, row, stray, paid, accepted, told>>

Waiting == {w \in Workers : pc[w] = "wait"}

\* A crash or a shutdown: coroutines and their connections are gone, requests
\* already posted may still arrive.
Crash ==
  /\ phase # "down"
  /\ phase' = "down"
  /\ stray' = stray \cup {work[w] : w \in Waiting}
  /\ pc' = [w \in Workers |-> "idle"]
  /\ work' = [w \in Workers |-> NoHash]
  /\ todo' = {}
  /\ UNCHANGED <<row, paid, accepted, told>>
-----------------------------------------------------------------------------
JobStep(j) ==
  \/ \E h \in Hashes : AcceptGradient(j, h)
  \/ SpawnCredit(j)
  \/ DropCredit(j)
  \/ SavePending(j)
  \/ TellMiner(j)

CreditStep(w) ==
  \/ PostCredit(w)
  \/ CryptoCredits(w)
  \/ AnswerReceived(w)
  \/ CryptoRefuses(w)
  \/ RequestTimesOut(w)
  \/ AnswerLost(w)
  \/ MarkSent(w)

Startup ==
  \/ Start
  \/ \E h \in Hashes : RetryNext(h)
  \/ MarkFailed
  \/ StartServing

Next ==
  \/ \E j \in Jobs : JobStep(j)
  \/ \E w \in Workers : CreditStep(w)
  \/ \E h \in Hashes : StrayArrives(h)
  \/ Startup
  \/ Crash

Spec == Init /\ [][Next]_vars

\* Restarts need not happen, but if they keep happening then no single step of
\* the retry loop is cut off every time it comes up, and a database that fails
\* now and then also works now and then.
RetryFairness ==
  /\ SF_vars(Start /\ todo' = PendingRows)
  /\ \A h \in Hashes : SF_vars(RetryNext(h))
  /\ SF_vars(PostCredit(Retrier))
  /\ SF_vars(CryptoCredits(Retrier) \/ CryptoRefuses(Retrier) \/ RequestTimesOut(Retrier))
  /\ SF_vars(AnswerReceived(Retrier) \/ AnswerLost(Retrier))
  /\ SF_vars(MarkSent(Retrier) /\ row' # row)
  /\ SF_vars(MarkFailed /\ row' # row)

FairSpec == Spec /\ RetryFairness
-----------------------------------------------------------------------------
\* What the running process relies on: before the first request every row is
\* settled by the retry loop alone; no coroutine survives a crash.
PhaseInv ==
  /\ phase = "down" => \A w \in Workers : pc[w] = "idle"
  /\ phase = "retrying" => \A j \in Jobs : pc[j] = "idle"
  /\ Serving => pc[Retrier] = "idle"
  /\ ~(phase = "retrying") => todo = {}

\* A worker that was answered, marks or tells holds a hash that was paid.
WorkInv ==
  \A w \in Workers :
    /\ pc[w] # "idle" => work[w] \in accepted
    /\ pc[w] \in {"answered", "mark", "tell"} => work[w] \in paid

\* Rows, requests and payments all stem from an accepted gradient.
OriginInv ==
  /\ \A h \in Hashes : row[h].status # "none" => h \in accepted
  /\ todo \subseteq accepted
  /\ stray \subseteq accepted
  /\ paid \subseteq accepted

\* A row is marked sent only once the crypto service holds the credit:
\* chain_bridge marks after the answer, and never on a refusal or a timeout.
SentImpliesPaid == \A h \in Hashes : row[h].status = "sent" => h \in paid

\* A miner is told wallet_credited only for tokens that really moved.
ToldImpliesPaid == told \subseteq paid

\* The retry loop only handles rows that are still pending, and a row that is
\* pending has attempts left: no failed retry can overwrite a sent row.
RetryInv ==
  /\ todo \subseteq PendingRows
  /\ pc[Retrier] # "idle" => work[Retrier] \in PendingRows \ todo
  /\ \A h \in Hashes : row[h].status \in {"none", "pending"} => row[h].attempts < MaxAttempts

IInv ==
  /\ TypeOK
  /\ RetryInv
  /\ PhaseInv
  /\ WorkInv
  /\ OriginInv
  /\ SentImpliesPaid
  /\ ToldImpliesPaid

\* A sent row is final: a retry that fails never puts it back in the queue,
\* because the retry loop ends before the first coroutine of the new run.
SentIsFinal ==
  [][\A h \in Hashes : row[h].status = "sent" => row'[h].status = "sent"]_vars

\* Under restarts that recur, no row stays pending for ever: each is marked sent
\* or, after MaxAttempts failures, failed (retry_pending_credits).
RetrySettles ==
  []<>(phase = "down") =>
    \A h \in Hashes : row[h].status = "pending" ~> row[h].status # "pending"

\* The promise of credit_miner_wallet, "Tokens are NEVER lost": a credit that was
\* saved and is not yet paid is still in the queue the next startup retries.
SavedCreditIsRetried ==
  \A h \in Hashes : row[h].status # "none" /\ h \notin paid => row[h].status = "pending"

Ledger == INSTANCE CreditLedger WITH
  earned <- accepted,
  confirmed <- told \cup {h \in Hashes : row[h].status = "sent"}

\* The credit path implements the promise of CreditLedger: only work that was
\* accepted is paid, once, and only payments are confirmed.
ImplementsLedger == Ledger!LedgerSpec
=============================================================================
