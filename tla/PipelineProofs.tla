--------------------------- MODULE PipelineProofs ---------------------------
(***************************************************************************)
(* Theorems about Pipeline, for any number of stages, microbatches and     *)
(* executions, whichever notices fail and whatever is reported twice: no   *)
(* stage is sent a forward pass before the stage above has reported its    *)
(* own, stages follow their schedules, the schedules hold no more          *)
(* activations than they promise and cannot deadlock.                      *)
(***************************************************************************)
EXTENDS Pipeline, Induction, FiniteSetTheorems, TLAPS

Instruction == [action : {"forward", "backward", "submit_gradients"}, mb : Int]

Execution ==
  [strategy : Strategies, microbatches : Nat \ {0}, forward : SUBSET (Stages \X Int),
   backward : SUBSET (Stages \X Int), submitted : SUBSET Stages,
   status : {"running", "complete"}]

Types ==
  /\ numStages \in Nat \ {0}
  /\ execution = [e \in Executions |-> execution[e]]
  /\ \A e \in Running : execution[e] \in Execution
  /\ told \in [Executions -> [Stages -> SUBSET Instruction]]

IInv == Types /\ NoForwardBeforeUpstream
-----------------------------------------------------------------------------
LEMMA GPipeSteps ==
  ASSUME NEW m \in Nat \ {0}
  PROVE  /\ GPipe(m) \in Seq(Instruction)
         /\ Len(GPipe(m)) = 2 * m
         /\ GPipe(m)[1] = Forward(0)
<1>1. \A i \in 1..(2 * m) :
        (IF i <= m THEN Forward(i - 1) ELSE Backward(2 * m - i)) \in Instruction
  BY DEF Forward, Backward, Instruction
<1>2. 2 * m \in Nat /\ 1 \in 1..(2 * m) /\ 1 <= m
  OBVIOUS
<1>3. GPipe(m) \in [1..(2 * m) -> Instruction]
  BY <1>1 DEF GPipe
<1>4. GPipe(m)[1] = Forward(1 - 1)
  BY <1>2 DEF GPipe
<1> QED
  BY <1>2, <1>3, <1>4

LEMMA SingleStageSteps ==
  ASSUME NEW m \in Nat \ {0}
  PROVE  /\ SingleStage(m) \in Seq(Instruction)
         /\ Len(SingleStage(m)) = 2 * m
         /\ SingleStage(m)[1] = Forward(0)
<1>1. \A i \in 1..(2 * m) :
        (IF i <= m THEN Forward(i - 1) ELSE Backward(i - m - 1)) \in Instruction
  BY DEF Forward, Backward, Instruction
<1>2. 2 * m \in Nat /\ 1 \in 1..(2 * m) /\ 1 <= m
  OBVIOUS
<1>3. SingleStage(m) \in [1..(2 * m) -> Instruction]
  BY <1>1 DEF SingleStage
<1>4. SingleStage(m)[1] = Forward(1 - 1)
  BY <1>2 DEF SingleStage
<1> QED
  BY <1>2, <1>3, <1>4

\* The warm-up of a stage is a number of its forward passes.
LEMMA WarmupBounds ==
  ASSUME NEW m \in Nat \ {0}, NEW n \in Nat \ {0}, NEW s \in 0..(n - 1)
  PROVE  Warmup(n, m, s) \in 0..m
<1> DEFINE S == {n - s - 1, m}
<1>1. \E x \in S : \A y \in S : x <= y
  OBVIOUS
<1>2. Min(S) \in S /\ \A y \in S : Min(S) <= y
  BY <1>1 DEF Min
<1> QED
  BY <1>2 DEF Warmup

LEMMA OneForwardOneBackwardSteps ==
  ASSUME NEW m \in Nat \ {0}, NEW n \in Nat \ {0}, NEW s \in 0..(n - 1)
  PROVE  /\ OneForwardOneBackward(n, m, s) \in Seq(Instruction)
         /\ Len(OneForwardOneBackward(n, m, s)) = 2 * m
         /\ OneForwardOneBackward(n, m, s)[1] = Forward(0)
<1> DEFINE w == Warmup(n, m, s)
           steady == 2 * (m - w)
           F == OneForwardOneBackward(n, m, s)
<1>1. w \in 0..m
  BY WarmupBounds
<1>2. F = [i \in 1..(2 * m) |->
             CASE i <= w                              -> Forward(i - 1)
               [] i > w + steady                      -> Backward(i - m - 1)
               [] i \in (w + 1)..(w + steady) /\ (i - w) % 2 = 1
                                                      -> Forward((i + w - 1) \div 2)
               [] OTHER                               -> Backward((i - w) \div 2 - 1)]
  BY DEF OneForwardOneBackward
<1> HIDE DEF w, F
<1>3. \A i \in 1..(2 * m) :
        /\ i - 1 \in Int /\ i - m - 1 \in Int
        /\ (i + w - 1) \div 2 \in Int /\ (i - w) \div 2 - 1 \in Int
  BY <1>1
<1>4. \A k \in Int : Forward(k) \in Instruction /\ Backward(k) \in Instruction
  BY DEF Forward, Backward, Instruction
<1>5. ASSUME NEW i \in 1..(2 * m) PROVE F[i] \in Instruction
  <2>1. CASE i <= w
    BY <1>1, <1>2, <1>3, <1>4, <2>1
  <2>2. CASE i > w + steady
    BY <1>1, <1>2, <1>3, <1>4, <2>2
  <2>3. CASE i \in (w + 1)..(w + steady)
    <3>1. CASE (i - w) % 2 = 1
      BY <1>1, <1>2, <1>3, <1>4, <2>3, <3>1
    <3>2. CASE (i - w) % 2 # 1
      BY <1>1, <1>2, <1>3, <1>4, <2>3, <3>2
    <3> QED
      BY <3>1, <3>2
  <2> QED
    BY <1>1, <2>1, <2>2, <2>3
<1>6. F[1] = Forward(0)
  <2>1. CASE w > 0
    <3>1. 1 \in 1..(2 * m) /\ 1 <= w /\ 1 - 1 = 0
      BY <1>1, <2>1
    <3>2. ~(1 > w + steady) /\ ~(1 \in (w + 1)..(w + steady))
      BY <1>1, <3>1
    <3> QED
      BY <1>2, <3>1, <3>2
  <2>2. CASE w = 0
    <3>1. /\ 1 \in 1..(2 * m) /\ ~(1 <= w) /\ ~(1 > w + steady)
          /\ 1 \in (w + 1)..(w + steady) /\ (1 - w) % 2 = 1
          /\ (1 + w - 1) \div 2 = 0
      BY <1>1, <2>2
    <3> QED
      BY <1>2, <3>1
  <2> QED
    BY <1>1, <2>1, <2>2
<1>7. F \in [1..(2 * m) -> Instruction]
  BY <1>2, <1>5
<1>8. 2 * m \in Nat
  OBVIOUS
<1> QED
  BY <1>6, <1>7, <1>8 DEF F

\* Every schedule is made of passes and a submission, and begins with the forward
\* pass of the first microbatch.
LEMMA ScheduleSteps ==
  ASSUME Types, NEW strategy \in Strategies, NEW m \in Nat \ {0}, NEW s \in Stages
  PROVE  /\ StepsForStage(strategy, m, s) \in Seq(Instruction)
         /\ StepsForStage(strategy, m, s)[1] = Forward(0)
<1> DEFINE passes ==
      CASE strategy = "gpipe"                   -> GPipe(m)
        [] strategy = "1f1b"                    -> OneForwardOneBackward(numStages, m, s)
        [] strategy = "auto" /\ numStages = 1   -> SingleStage(m)
        [] strategy = "auto" /\ numStages > 1   ->
             OneForwardOneBackward(numStages, Max({m, numStages}), s)
<1>1. numStages \in Nat \ {0} /\ s \in 0..(numStages - 1)
  BY DEF Types, Stages
<1>2. Max({m, numStages}) \in Nat \ {0}
  <2> DEFINE S == {m, numStages}
  <2>1. \E x \in S : \A y \in S : x >= y
    BY <1>1
  <2>2. Max(S) \in S
    BY <2>1 DEF Max
  <2> QED
    BY <1>1, <2>2
<1>3. strategy \in {"gpipe", "1f1b", "auto"}
  BY PipelineAssumption
<1>4. passes \in Seq(Instruction) /\ Len(passes) > 0 /\ passes[1] = Forward(0)
  <2>1. CASE strategy = "gpipe"
    BY <2>1, GPipeSteps
  <2>2. CASE strategy = "1f1b"
    <3> DEFINE one == OneForwardOneBackward(numStages, m, s)
    <3>1. one \in Seq(Instruction) /\ Len(one) = 2 * m /\ one[1] = Forward(0)
      BY <1>1, OneForwardOneBackwardSteps
    <3>2. passes = one
      BY <2>2
    <3> HIDE DEF one, passes
    <3> QED
      BY <3>1, <3>2
  <2>3. CASE strategy = "auto" /\ numStages = 1
    BY <2>3, SingleStageSteps
  <2>4. CASE strategy = "auto" /\ numStages > 1
    <3> DEFINE k == Max({m, numStages})
               one == OneForwardOneBackward(numStages, k, s)
    <3>1. passes = one
      BY <1>1, <2>4
    <3> HIDE DEF k
    <3>2. k \in Nat \ {0}
      BY <1>2 DEF k
    <3>3. one \in Seq(Instruction) /\ Len(one) = 2 * k /\ one[1] = Forward(0)
      BY <1>1, <3>2, OneForwardOneBackwardSteps
    <3> HIDE DEF one, passes
    <3> QED
      BY <3>1, <3>2, <3>3
  <2> QED
    BY <1>1, <1>3, <2>1, <2>2, <2>3, <2>4
<1>5. StepsForStage(strategy, m, s) = Append(passes, SubmitGradients)
  BY DEF StepsForStage
<1>6. SubmitGradients \in Instruction
  BY DEF SubmitGradients, Instruction
<1> HIDE DEF passes
<1> QED
  BY <1>4, <1>5, <1>6
-----------------------------------------------------------------------------
(* Where the steps of a schedule stand, and when they can be done *)

\* Microbatches of the schedule, which may be more than the training step has.
Planned(strategy, m) ==
  IF strategy = "auto" /\ numStages > 1 THEN Max({m, numStages}) ELSE m

Alternates(strategy) == strategy = "1f1b" \/ (strategy = "auto" /\ numStages > 1)

Passes(k) == [action : {"forward", "backward"}, mb : 0..(k - 1)]

\* The places of the passes among 2k, w of which warm up, ...
ForwardAt(k, w, c) == IF c < w THEN c + 1 ELSE 2 * c + 1 - w
BackwardAt(k, w, c) == IF c < k - w THEN 2 * c + 2 + w ELSE c + k + 1

\* ... and of those of every schedule.
Position(strategy, m, s, step) ==
  LET k == Planned(strategy, m)
      w == Warmup(numStages, k, s)
  IN  CASE step.action = "forward" ->
             IF Alternates(strategy) THEN ForwardAt(k, w, step.mb) ELSE step.mb + 1
        [] step.action = "backward" ->
             IF Alternates(strategy) THEN BackwardAt(k, w, step.mb)
             ELSE IF strategy = "gpipe" THEN 2 * k - step.mb ELSE k + 1 + step.mb
        [] OTHER -> 2 * k + 1

\* A time for every step of every stage that agrees with the order of each
\* schedule and with the flow of the data.
Time(strategy, m, s, step) ==
  LET k == Planned(strategy, m)
      n == numStages
  IN  CASE step.action = "forward" ->
             IF Alternates(strategy) THEN 2 * step.mb + s ELSE step.mb + s
        [] step.action = "backward" ->
             IF Alternates(strategy) THEN 2 * n - 1 - s + 2 * step.mb
             ELSE IF strategy = "gpipe" THEN 2 * k + 2 * n - step.mb - s ELSE k + step.mb
        [] OTHER -> 4 * k + 4 * n

LEMMA GPipePlaces ==
  ASSUME NEW k \in Nat \ {0}, NEW c \in 0..(k - 1)
  PROVE  GPipe(k)[c + 1] = Forward(c) /\ GPipe(k)[2 * k - c] = Backward(c)
<1>1. c + 1 \in 1..(2 * k) /\ c + 1 <= k /\ c + 1 - 1 = c
  OBVIOUS
<1>2. 2 * k - c \in 1..(2 * k) /\ ~(2 * k - c <= k) /\ 2 * k - (2 * k - c) = c
  OBVIOUS
<1> QED
  BY <1>1, <1>2 DEF GPipe

LEMMA SingleStagePlaces ==
  ASSUME NEW k \in Nat \ {0}, NEW c \in 0..(k - 1)
  PROVE  SingleStage(k)[c + 1] = Forward(c) /\ SingleStage(k)[k + 1 + c] = Backward(c)
<1>1. c + 1 \in 1..(2 * k) /\ c + 1 <= k /\ c + 1 - 1 = c
  OBVIOUS
<1>2. k + 1 + c \in 1..(2 * k) /\ ~(k + 1 + c <= k) /\ (k + 1 + c) - k - 1 = c
  OBVIOUS
<1> QED
  BY <1>1, <1>2 DEF SingleStage

LEMMA OneForwardOneBackwardPlaces ==
  ASSUME NEW k \in Nat \ {0}, NEW n \in Nat \ {0}, NEW s \in 0..(n - 1),
         NEW c \in 0..(k - 1), NEW w, w = Warmup(n, k, s)
  PROVE  /\ OneForwardOneBackward(n, k, s)[ForwardAt(k, w, c)] = Forward(c)
         /\ OneForwardOneBackward(n, k, s)[BackwardAt(k, w, c)] = Backward(c)
<1> DEFINE steady == 2 * (k - w)
           F == OneForwardOneBackward(n, k, s)
<1>1. w \in 0..k
  BY WarmupBounds
<1>2. F = [i \in 1..(2 * k) |->
             CASE i <= w                              -> Forward(i - 1)
               [] i > w + steady                      -> Backward(i - k - 1)
               [] i \in (w + 1)..(w + steady) /\ (i - w) % 2 = 1
                                                      -> Forward((i + w - 1) \div 2)
               [] OTHER                               -> Backward((i - w) \div 2 - 1)]
  BY DEF OneForwardOneBackward
<1> HIDE DEF F
<1>3. F[ForwardAt(k, w, c)] = Forward(c)
  <2>1. CASE c < w
    <3>1. c + 1 \in 1..(2 * k) /\ c + 1 <= w /\ c + 1 - 1 = c
      BY <1>1, <2>1
    <3>2. ~(c + 1 > w + steady) /\ ~(c + 1 \in (w + 1)..(w + steady))
      BY <1>1, <3>1
    <3> QED
      BY <1>2, <2>1, <3>1, <3>2 DEF ForwardAt
  <2>2. CASE c >= w
    <3> DEFINE i == 2 * c + 1 - w
    <3>1. i \in 1..(2 * k) /\ i \in (w + 1)..(w + steady) /\ ~(i <= w) /\ ~(i > w + steady)
      BY <1>1, <2>2
    <3>2. (i - w) % 2 = 1 /\ (i + w - 1) \div 2 = c
      BY <1>1, <2>2
    <3>3. F[i] = Forward((i + w - 1) \div 2)
      BY <1>2, <3>1, <3>2
    <3>4. ForwardAt(k, w, c) = i
      BY <1>1, <2>2 DEF ForwardAt
    <3> QED
      BY <3>2, <3>3, <3>4
  <2> QED
    BY <1>1, <2>1, <2>2
<1>4. F[BackwardAt(k, w, c)] = Backward(c)
  <2>1. CASE c < k - w
    <3> DEFINE i == 2 * c + 2 + w
    <3>1. i \in 1..(2 * k) /\ i \in (w + 1)..(w + steady) /\ ~(i <= w) /\ ~(i > w + steady)
      BY <1>1, <2>1
    <3>2. (i - w) % 2 # 1 /\ (i - w) \div 2 - 1 = c
      BY <1>1, <2>1
    <3>3. F[i] = Backward((i - w) \div 2 - 1)
      BY <1>2, <3>1, <3>2
    <3>4. BackwardAt(k, w, c) = i
      BY <1>1, <2>1 DEF BackwardAt
    <3> QED
      BY <3>2, <3>3, <3>4
  <2>2. CASE c >= k - w
    <3> DEFINE i == c + k + 1
    <3>1. i \in 1..(2 * k) /\ i > w + steady /\ ~(i <= w)
          /\ ~(i \in (w + 1)..(w + steady)) /\ i - k - 1 = c
      BY <1>1, <2>2
    <3>2. F[i] = Backward(i - k - 1)
      BY <1>2, <3>1
    <3>3. BackwardAt(k, w, c) = i
      BY <1>1, <2>2 DEF BackwardAt
    <3> QED
      BY <3>1, <3>2, <3>3
  <2> QED
    BY <1>1, <2>1, <2>2
<1> QED
  BY <1>3, <1>4 DEF F

\* The places of alternating passes are all there are.
LEMMA AlternatingPlaces ==
  ASSUME NEW k \in Nat \ {0}, NEW w \in 0..k
  PROVE  /\ \A c \in 0..(k - 1) : ForwardAt(k, w, c) \in 1..(2 * k) /\ BackwardAt(k, w, c) \in 1..(2 * k)
         /\ \A i \in 1..(2 * k) : \E c \in 0..(k - 1) : i = ForwardAt(k, w, c) \/ i = BackwardAt(k, w, c)
<1>1. \A c \in 0..(k - 1) : ForwardAt(k, w, c) \in 1..(2 * k) /\ BackwardAt(k, w, c) \in 1..(2 * k)
  BY DEF ForwardAt, BackwardAt
<1>2. ASSUME NEW i \in 1..(2 * k)
      PROVE  \E c \in 0..(k - 1) : i = ForwardAt(k, w, c) \/ i = BackwardAt(k, w, c)
  <2>1. CASE i <= w
    <3>1. i - 1 \in 0..(k - 1) /\ i = ForwardAt(k, w, i - 1)
      BY <2>1 DEF ForwardAt
    <3> QED
      BY <3>1
  <2>2. CASE i > 2 * k - w
    <3>1. i - k - 1 \in 0..(k - 1) /\ i = BackwardAt(k, w, i - k - 1)
      BY <2>2 DEF BackwardAt
    <3> QED
      BY <3>1
  <2>3. CASE i > w /\ i <= 2 * k - w /\ (i - w) % 2 = 1
    <3> DEFINE c == (i + w - 1) \div 2
    <3>1. c \in Int /\ i + w - 1 = 2 * c
      BY <2>3
    <3>2. c \in 0..(k - 1) /\ c >= w
      BY <2>3, <3>1
    <3>3. i = ForwardAt(k, w, c)
      BY <3>1, <3>2 DEF ForwardAt
    <3> QED
      BY <3>2, <3>3
  <2>4. CASE i > w /\ i <= 2 * k - w /\ (i - w) % 2 # 1
    <3> DEFINE c == (i - w) \div 2 - 1
    <3>1. c \in Int /\ i - w = 2 * c + 2
      BY <2>4
    <3>2. c \in 0..(k - 1) /\ c < k - w
      BY <2>4, <3>1
    <3>3. i = BackwardAt(k, w, c)
      BY <3>1, <3>2 DEF BackwardAt
    <3> QED
      BY <3>2, <3>3
  <2> QED
    BY <2>1, <2>2, <2>3, <2>4
<1> QED
  BY <1>1, <1>2

LEMMA PlannedType ==
  ASSUME Types, NEW strategy, NEW m \in Nat \ {0}
  PROVE  /\ Planned(strategy, m) \in Nat \ {0}
         /\ Planned(strategy, m) >= m
<1> DEFINE S == {m, numStages}
<1>1. numStages \in Nat \ {0}
  BY DEF Types
<1>2. \E x \in S : \A y \in S : x >= y
  BY <1>1
<1>3. Max(S) \in S /\ \A y \in S : Max(S) >= y
  BY <1>2 DEF Max
<1> QED
  BY <1>1, <1>3 DEF Planned

\* What is at the places of a schedule, but for the submission at its end.
LEMMA SchedulePlaces ==
  ASSUME Types, NEW strategy \in Strategies, NEW m \in Nat \ {0}, NEW s \in Stages,
         NEW k, k = Planned(strategy, m), NEW steps, steps = StepsForStage(strategy, m, s)
  PROVE  /\ Len(steps) = 2 * k + 1
         /\ steps[2 * k + 1] = SubmitGradients
         /\ \A step \in Passes(k) :
              /\ Position(strategy, m, s, step) \in 1..(2 * k)
              /\ steps[Position(strategy, m, s, step)] = step
         /\ \A i \in 1..(2 * k) : \E step \in Passes(k) : Position(strategy, m, s, step) = i
<1> DEFINE passes ==
      CASE strategy = "gpipe"                   -> GPipe(m)
        [] strategy = "1f1b"                    -> OneForwardOneBackward(numStages, m, s)
        [] strategy = "auto" /\ numStages = 1   -> SingleStage(m)
        [] strategy = "auto" /\ numStages > 1   ->
             OneForwardOneBackward(numStages, Max({m, numStages}), s)
           w == Warmup(numStages, k, s)
<1>1. /\ numStages \in Nat \ {0} /\ s \in 0..(numStages - 1)
      /\ strategy \in {"gpipe", "1f1b", "auto"}
  BY PipelineAssumption DEF Types, Stages
<1>2. k \in Nat \ {0}
  BY PlannedType
<1>3. steps = Append(passes, SubmitGradients)
  BY DEF StepsForStage
<1>4. w \in 0..k
  BY <1>1, <1>2, WarmupBounds
<1> DEFINE at(step) == Position(strategy, m, s, step)
           Placed == /\ passes \in Seq(Instruction) /\ Len(passes) = 2 * k
                     /\ \A c \in 0..(k - 1) :
                          /\ at(Forward(c)) \in 1..(2 * k) /\ passes[at(Forward(c))] = Forward(c)
                          /\ at(Backward(c)) \in 1..(2 * k) /\ passes[at(Backward(c))] = Backward(c)
                     /\ \A i \in 1..(2 * k) : \E c \in 0..(k - 1) :
                          i = at(Forward(c)) \/ i = at(Backward(c))
<1>5. ASSUME strategy = "gpipe" PROVE Placed
  <2>1. passes = GPipe(m) /\ k = m /\ ~Alternates(strategy)
    BY <1>5 DEF Planned, Alternates
  <2>2. passes \in Seq(Instruction) /\ Len(passes) = 2 * k
    BY <2>1, GPipeSteps
  <2> HIDE DEF passes
  <2>3. \A c \in 0..(k - 1) : passes[c + 1] = Forward(c) /\ passes[2 * k - c] = Backward(c)
    BY <1>2, <2>1, GPipePlaces
  <2>4. \A c \in 0..(k - 1) : at(Forward(c)) = c + 1 /\ at(Backward(c)) = 2 * k - c
    BY <1>5, <2>1 DEF Position, Forward, Backward
  <2>5. ASSUME NEW i \in 1..(2 * k)
        PROVE  \E c \in 0..(k - 1) : i = c + 1 \/ i = 2 * k - c
    <3>1. IF i <= k THEN i - 1 \in 0..(k - 1) ELSE 2 * k - i \in 0..(k - 1)
      BY <1>2
    <3> QED
      BY <1>2, <3>1
  <2> HIDE DEF at
  <2>6. \A c \in 0..(k - 1) : c + 1 \in 1..(2 * k) /\ 2 * k - c \in 1..(2 * k)
    BY <1>2
  <2>7. \A c \in 0..(k - 1) :
          /\ at(Forward(c)) \in 1..(2 * k) /\ passes[at(Forward(c))] = Forward(c)
          /\ at(Backward(c)) \in 1..(2 * k) /\ passes[at(Backward(c))] = Backward(c)
    BY <2>3, <2>4, <2>6
  <2>8. \A i \in 1..(2 * k) : \E c \in 0..(k - 1) : i = at(Forward(c)) \/ i = at(Backward(c))
    BY <2>4, <2>5
  <2> QED
    BY <2>2, <2>7, <2>8
<1>6. ASSUME strategy = "auto", numStages = 1 PROVE Placed
  <2>1. passes = SingleStage(m) /\ k = m /\ ~Alternates(strategy)
    BY <1>6 DEF Planned, Alternates
  <2>2. passes \in Seq(Instruction) /\ Len(passes) = 2 * k
    BY <2>1, SingleStageSteps
  <2> HIDE DEF passes
  <2>3. \A c \in 0..(k - 1) : passes[c + 1] = Forward(c) /\ passes[k + 1 + c] = Backward(c)
    BY <1>2, <2>1, SingleStagePlaces
  <2>4. \A c \in 0..(k - 1) : at(Forward(c)) = c + 1 /\ at(Backward(c)) = k + 1 + c
    BY <1>6, <2>1 DEF Position, Forward, Backward
  <2>5. ASSUME NEW i \in 1..(2 * k)
        PROVE  \E c \in 0..(k - 1) : i = c + 1 \/ i = k + 1 + c
    <3>1. IF i <= k THEN i - 1 \in 0..(k - 1) ELSE i - k - 1 \in 0..(k - 1)
      BY <1>2
    <3> QED
      BY <1>2, <3>1
  <2> HIDE DEF at
  <2>6. \A c \in 0..(k - 1) : c + 1 \in 1..(2 * k) /\ k + 1 + c \in 1..(2 * k)
    BY <1>2
  <2>7. \A c \in 0..(k - 1) :
          /\ at(Forward(c)) \in 1..(2 * k) /\ passes[at(Forward(c))] = Forward(c)
          /\ at(Backward(c)) \in 1..(2 * k) /\ passes[at(Backward(c))] = Backward(c)
    BY <2>3, <2>4, <2>6
  <2>8. \A i \in 1..(2 * k) : \E c \in 0..(k - 1) : i = at(Forward(c)) \/ i = at(Backward(c))
    BY <2>4, <2>5
  <2> QED
    BY <2>2, <2>7, <2>8
<1>7. ASSUME Alternates(strategy) PROVE Placed
  <2> DEFINE one == OneForwardOneBackward(numStages, k, s)
  <2>1. passes = one
    BY <1>1, <1>7 DEF Planned, Alternates
  <2>2. one \in Seq(Instruction) /\ Len(one) = 2 * k
    BY <1>1, <1>2, OneForwardOneBackwardSteps
  <2>3. \A c \in 0..(k - 1) : /\ one[ForwardAt(k, w, c)] = Forward(c)
                              /\ one[BackwardAt(k, w, c)] = Backward(c)
    BY <1>1, <1>2, OneForwardOneBackwardPlaces
  <2>4. \A c \in 0..(k - 1) : /\ at(Forward(c)) = ForwardAt(k, w, c)
                              /\ at(Backward(c)) = BackwardAt(k, w, c)
    BY <1>7 DEF Position, Forward, Backward
  <2> HIDE DEF passes, one, at, w
  <2>5. /\ \A c \in 0..(k - 1) : ForwardAt(k, w, c) \in 1..(2 * k) /\ BackwardAt(k, w, c) \in 1..(2 * k)
        /\ \A i \in 1..(2 * k) : \E c \in 0..(k - 1) : i = ForwardAt(k, w, c) \/ i = BackwardAt(k, w, c)
    BY <1>2, <1>4, AlternatingPlaces
  <2> QED
    BY <2>1, <2>2, <2>3, <2>4, <2>5
<1>8. Placed
  <2>1. numStages = 1 \/ numStages > 1
    BY <1>1
  <2>2. strategy = "gpipe" \/ (strategy = "auto" /\ numStages = 1) \/ Alternates(strategy)
    BY <1>1, <2>1 DEF Alternates
  <2> HIDE DEF Placed
  <2> QED
    BY <2>2, <1>5, <1>6, <1>7
<1>9. /\ \A c \in 0..(k - 1) : Forward(c) \in Passes(k) /\ Backward(c) \in Passes(k)
      /\ \A step \in Passes(k) : \E c \in 0..(k - 1) : step = Forward(c) \/ step = Backward(c)
  BY DEF Passes, Forward, Backward
<1> HIDE DEF passes, at
<1>10. /\ Len(steps) = 2 * k + 1 /\ steps[2 * k + 1] = SubmitGradients
       /\ \A i \in 1..(2 * k) : steps[i] = passes[i]
  <2>1. SubmitGradients \in Instruction
    BY DEF SubmitGradients, Instruction
  <2> QED
    BY <1>2, <1>3, <1>8, <2>1
<1>11. \A step \in Passes(k) : at(step) \in 1..(2 * k) /\ steps[at(step)] = step
  BY <1>8, <1>9, <1>10
<1>12. \A i \in 1..(2 * k) : \E step \in Passes(k) : at(step) = i
  BY <1>8, <1>9
<1> QED
  BY <1>10, <1>11, <1>12 DEF at

\* Each place holds a step of its own.
LEMMA OnePlaceEach ==
  ASSUME Types, NEW strategy \in Strategies, NEW m \in Nat \ {0}, NEW s \in Stages,
         NEW k, k = Planned(strategy, m), NEW steps, steps = StepsForStage(strategy, m, s)
  PROVE  /\ \A i \in 1..(2 * k) : steps[i] \in Passes(k) /\ Position(strategy, m, s, steps[i]) = i
         /\ \A i, j \in 1..(2 * k + 1) : steps[i] = steps[j] => i = j
<1>1. \A i \in 1..(2 * k) : steps[i] \in Passes(k) /\ Position(strategy, m, s, steps[i]) = i
  BY SchedulePlaces
<1>2. k \in Nat \ {0}
  BY PlannedType
<1>3. steps[2 * k + 1] = SubmitGradients
  BY SchedulePlaces
<1>4. SubmitGradients \notin Passes(k)
  BY DEF SubmitGradients, Passes
<1> QED
  BY <1>1, <1>2, <1>3, <1>4

\* The order of the passes of a stage is that of their times.
LEMMA AlternatingTimes ==
  ASSUME NEW n \in Nat \ {0}, NEW s \in 0..(n - 1), NEW k \in Nat \ {0}, NEW w \in 0..k,
         w <= n - s - 1, w = k \/ w = n - s - 1, NEW c \in 0..(k - 1), NEW d \in 0..(k - 1)
  PROVE  /\ ForwardAt(k, w, c) < ForwardAt(k, w, d) => c < d
         /\ BackwardAt(k, w, c) < BackwardAt(k, w, d) => c < d
         /\ ForwardAt(k, w, c) < BackwardAt(k, w, d) => 2 * c + s < 2 * n - 1 - s + 2 * d
         /\ BackwardAt(k, w, c) < ForwardAt(k, w, d) => 2 * n - 1 - s + 2 * c < 2 * d + s
<1>1. ForwardAt(k, w, c) < ForwardAt(k, w, d) => c < d
  BY DEF ForwardAt
<1>2. BackwardAt(k, w, c) < BackwardAt(k, w, d) => c < d
  BY DEF BackwardAt
<1>3. ForwardAt(k, w, c) < BackwardAt(k, w, d) => 2 * c + s < 2 * n - 1 - s + 2 * d
  BY DEF ForwardAt, BackwardAt
<1>4. BackwardAt(k, w, c) < ForwardAt(k, w, d) => 2 * n - 1 - s + 2 * c < 2 * d + s
  BY DEF ForwardAt, BackwardAt
<1> QED
  BY <1>1, <1>2, <1>3, <1>4

LEMMA WarmupIsLeast ==
  ASSUME NEW m \in Nat \ {0}, NEW n \in Nat \ {0}, NEW s \in 0..(n - 1)
  PROVE  /\ Warmup(n, m, s) <= n - s - 1
         /\ Warmup(n, m, s) = m \/ Warmup(n, m, s) = n - s - 1
<1> DEFINE S == {n - s - 1, m}
<1>1. \E x \in S : \A y \in S : x <= y
  OBVIOUS
<1>2. Min(S) \in S /\ \A y \in S : Min(S) <= y
  BY <1>1 DEF Min
<1> QED
  BY <1>2 DEF Warmup

LEMMA TimeOfPasses ==
  ASSUME Types, NEW strategy \in Strategies, NEW m \in Nat \ {0}, NEW s \in Stages,
         NEW k, k = Planned(strategy, m), NEW a \in Passes(k), NEW b \in Passes(k),
         Position(strategy, m, s, a) < Position(strategy, m, s, b)
  PROVE  Time(strategy, m, s, a) < Time(strategy, m, s, b)
<1> DEFINE n == numStages
           w == Warmup(n, k, s)
           c == a.mb
           d == b.mb
<1>1. /\ n \in Nat \ {0} /\ s \in 0..(n - 1) /\ k \in Nat \ {0}
      /\ strategy \in {"gpipe", "1f1b", "auto"}
  BY PipelineAssumption, PlannedType DEF Types, Stages
<1>2. w \in 0..k /\ w <= n - s - 1 /\ (w = k \/ w = n - s - 1)
  BY <1>1, WarmupBounds, WarmupIsLeast
<1>3. /\ c \in 0..(k - 1) /\ d \in 0..(k - 1)
      /\ a.action \in {"forward", "backward"} /\ b.action \in {"forward", "backward"}
  BY DEF Passes
<1>4. CASE Alternates(strategy)
  <2> HIDE DEF w
  <2>1. /\ ForwardAt(k, w, c) < ForwardAt(k, w, d) => c < d
        /\ BackwardAt(k, w, c) < BackwardAt(k, w, d) => c < d
        /\ ForwardAt(k, w, c) < BackwardAt(k, w, d) => 2 * c + s < 2 * n - 1 - s + 2 * d
        /\ BackwardAt(k, w, c) < ForwardAt(k, w, d) => 2 * n - 1 - s + 2 * c < 2 * d + s
    BY <1>1, <1>2, <1>3, AlternatingTimes
  <2>2. CASE a.action = "forward" /\ b.action = "forward"
    BY <1>1, <1>3, <1>4, <2>1, <2>2 DEF Position, Time, w
  <2>3. CASE a.action = "forward" /\ b.action = "backward"
    BY <1>1, <1>3, <1>4, <2>1, <2>3 DEF Position, Time, w
  <2>4. CASE a.action = "backward" /\ b.action = "forward"
    BY <1>1, <1>3, <1>4, <2>1, <2>4 DEF Position, Time, w
  <2>5. CASE a.action = "backward" /\ b.action = "backward"
    BY <1>1, <1>3, <1>4, <2>1, <2>5 DEF Position, Time, w
  <2> QED
    BY <1>3, <2>2, <2>3, <2>4, <2>5
<1>5. CASE ~Alternates(strategy)
  <2>1. strategy = "gpipe" \/ (strategy # "gpipe" /\ n = 1 /\ s = 0)
    BY <1>1, <1>5 DEF Alternates
  <2>2. CASE strategy = "gpipe"
    BY <1>1, <1>3, <1>5, <2>2 DEF Position, Time
  <2>3. CASE strategy # "gpipe" /\ n = 1 /\ s = 0
    BY <1>1, <1>3, <1>5, <2>3 DEF Position, Time
  <2> QED
    BY <2>1, <2>2, <2>3
<1> QED
  BY <1>4, <1>5

\* The times of a whole schedule rise from step to step.
LEMMA ScheduleTimes ==
  ASSUME Types, NEW strategy \in Strategies, NEW m \in Nat \ {0}, NEW s \in Stages,
         NEW k, k = Planned(strategy, m), NEW steps, steps = StepsForStage(strategy, m, s)
  PROVE  /\ \A i \in 1..(2 * k + 1) : Time(strategy, m, s, steps[i]) \in Nat
         /\ \A i, j \in 1..(2 * k + 1) :
              i < j => Time(strategy, m, s, steps[i]) < Time(strategy, m, s, steps[j])
<1> DEFINE n == numStages
           time(step) == Time(strategy, m, s, step)
<1>1. n \in Nat \ {0} /\ s \in 0..(n - 1) /\ k \in Nat \ {0}
  BY PlannedType DEF Types, Stages
<1>2. \A i \in 1..(2 * k) : steps[i] \in Passes(k) /\ Position(strategy, m, s, steps[i]) = i
  BY OnePlaceEach
<1>3. steps[2 * k + 1] = SubmitGradients
  BY SchedulePlaces
<1>4. time(SubmitGradients) = 4 * k + 4 * n
  BY DEF Time, SubmitGradients
<1>5. ASSUME NEW a \in Passes(k) PROVE time(a) \in Nat /\ time(a) < 4 * k + 4 * n
  <2>1. a.mb \in 0..(k - 1) /\ a.action \in {"forward", "backward"}
    BY DEF Passes
  <2> QED
    BY <1>1, <2>1 DEF Time
<1>6. ASSUME NEW i \in 1..(2 * k), NEW j \in 1..(2 * k), i < j
      PROVE  time(steps[i]) < time(steps[j])
  BY <1>2, <1>6, TimeOfPasses
<1> HIDE DEF time
<1>7. \A i \in 1..(2 * k + 1) : i \in 1..(2 * k) \/ i = 2 * k + 1
  BY <1>1
<1>8. \A i \in 1..(2 * k + 1) : time(steps[i]) \in Nat
  BY <1>1, <1>2, <1>3, <1>4, <1>5, <1>7
<1>9. ASSUME NEW i \in 1..(2 * k + 1), NEW j \in 1..(2 * k + 1), i < j
      PROVE  time(steps[i]) < time(steps[j])
  <2>1. i \in 1..(2 * k)
    BY <1>1, <1>9
  <2>2. CASE j \in 1..(2 * k)
    BY <1>6, <1>9, <2>1, <2>2
  <2>3. CASE j = 2 * k + 1
    BY <1>2, <1>3, <1>4, <1>5, <2>1, <2>3
  <2> QED
    BY <1>7, <2>2, <2>3
<1> QED
  BY <1>8, <1>9 DEF time

\* The data a pass needs is there earlier: the activations from above, those of its
\* own forward pass, and the gradient from below.
LEMMA DataTimes ==
  ASSUME Types, NEW strategy \in Strategies, NEW m \in Nat \ {0}, NEW s \in Stages,
         NEW k, k = Planned(strategy, m), NEW c \in 0..(k - 1)
  PROVE  /\ Time(strategy, m, s - 1, Forward(c)) < Time(strategy, m, s, Forward(c))
         /\ Time(strategy, m, s, Forward(c)) < Time(strategy, m, s, Backward(c))
         /\ s < numStages - 1 =>
              Time(strategy, m, s + 1, Backward(c)) < Time(strategy, m, s, Backward(c))
<1> DEFINE n == numStages
<1>1. /\ n \in Nat \ {0} /\ s \in 0..(n - 1) /\ k \in Nat \ {0}
      /\ strategy \in {"gpipe", "1f1b", "auto"}
  BY PipelineAssumption, PlannedType DEF Types, Stages
<1>2. /\ Forward(c).action = "forward" /\ Forward(c).mb = c
      /\ Backward(c).action = "backward" /\ Backward(c).mb = c
  BY DEF Forward, Backward
<1>3. CASE Alternates(strategy)
  BY <1>1, <1>2, <1>3 DEF Time
<1>4. CASE ~Alternates(strategy) /\ strategy = "gpipe"
  BY <1>1, <1>2, <1>4 DEF Time
<1>5. CASE ~Alternates(strategy) /\ strategy # "gpipe"
  <2>1. n = 1 /\ s = 0
    BY <1>1, <1>5 DEF Alternates
  <2> QED
    BY <1>1, <1>2, <1>5, <2>1 DEF Time
<1> QED
  BY <1>3, <1>4, <1>5
-----------------------------------------------------------------------------
\* An execution is none that has not begun.
LEMMA ExecutionBegun == None \notin Execution
<1> SUFFICES ASSUME None \in Execution PROVE FALSE
  OBVIOUS
<1>1. Stages \subseteq Nat
  BY DEF Stages
<1>2. None.forward \subseteq Nat \X Int /\ None.backward \subseteq Nat \X Int /\ None.submitted \subseteq Nat
  BY <1>1 DEF Execution
<1> QED
  BY <1>2, NoneAssumption DEF Execution

LEMMA InitInv == Init => IInv
BY PipelineAssumption DEF Init, IInv, Types, NoForwardBeforeUpstream, Running, Stages

\* The first step of a schedule waits for nobody.
LEMMA StartInv ==
  ASSUME IInv, NEW e \in Executions, NEW strategy \in Strategies,
         NEW m \in 1..MaxMicrobatches, StartTrainingStep(e, strategy, m)
  PROVE  IInv'
<1> DEFINE first(s) == StepsForStage(strategy, m, s)[1]
<1>1. m \in Nat \ {0}
  OBVIOUS
<1>2. \A s \in Stages : first(s) = Forward(0)
  BY <1>1, ScheduleSteps DEF IInv
<1>3. Forward(0) \in Instruction
  BY DEF Forward, Instruction
<1>4. PICK reached \in SUBSET Stages :
        told' = [told EXCEPT ![e] = [s \in Stages |-> IF s \in reached THEN {first(s)} ELSE {}]]
  BY DEF StartTrainingStep
<1>5. /\ execution' = [execution EXCEPT ![e] =
           [strategy |-> strategy, microbatches |-> m, forward |-> {}, backward |-> {},
            submitted |-> {}, status |-> "running"]]
      /\ numStages' = numStages
  BY DEF StartTrainingStep
<1> HIDE DEF first
<1>6. /\ told' \in [Executions -> [Stages -> SUBSET Instruction]]
      /\ \A d \in Executions \ {e} : told'[d] = told[d] /\ execution'[d] = execution[d]
      /\ \A s \in Stages : told'[e][s] \subseteq {Forward(0)}
      /\ execution' = [d \in Executions |-> execution'[d]]
  <2>1. [s \in Stages |-> IF s \in reached THEN {first(s)} ELSE {}] \in [Stages -> SUBSET Instruction]
    BY <1>2, <1>3
  <2>2. told' \in [Executions -> [Stages -> SUBSET Instruction]]
    BY <1>4, <2>1 DEF IInv, Types
  <2>3. told'[e] = [s \in Stages |-> IF s \in reached THEN {first(s)} ELSE {}]
    BY <1>4 DEF IInv, Types
  <2>4. \A d \in Executions \ {e} : told'[d] = told[d] /\ execution'[d] = execution[d]
    BY <1>4, <1>5 DEF IInv, Types
  <2>5. execution' = [d \in Executions |-> execution'[d]]
    BY <1>5 DEF IInv, Types
  <2> QED
    BY <1>2, <2>2, <2>3, <2>4, <2>5
<1>7. execution'[e] \in Execution
  BY <1>1, <1>5 DEF IInv, Types, Execution
<1>8. Stages' = Stages
  BY <1>5 DEF Stages
<1>9. Types'
  <2>1. \A d \in Running' : execution'[d] \in Execution'
    <3>1. Execution' = Execution
      BY <1>8 DEF Execution
    <3> QED
      BY <1>6, <1>7, <3>1 DEF IInv, Types, Running
  <2> QED
    BY <1>5, <1>6, <1>8, <2>1 DEF IInv, Types
<1>10. NoForwardBeforeUpstream'
  <2> SUFFICES ASSUME NEW d \in Running', NEW s \in Stages, NEW step \in told'[d][s],
                      s > 0, step.action = "forward", step.mb > 0
               PROVE  <<s - 1, step.mb>> \in execution'[d].forward
    BY <1>8 DEF NoForwardBeforeUpstream
  <2>1. CASE d = e
    BY <1>6, <2>1 DEF Forward, Running
  <2>2. CASE d # e
    BY <1>6, <2>2 DEF Running, IInv, NoForwardBeforeUpstream
  <2> QED
    BY <2>1, <2>2
<1> QED
  BY <1>9, <1>10 DEF IInv

\* A step is sent after a report only with its dependency met, and nothing is
\* taken back from what was reported.
LEMMA ReportInv ==
  ASSUME IInv, NEW e \in Executions, NEW s \in Stages, NEW action, NEW mb,
         action \in {"forward", "backward", "submit_gradients"},
         ReportStepComplete(e, s, action, mb)
  PROVE  IInv'
<1> DEFINE x == Recorded(execution[e], s, action, mb)
           reported == [action |-> action, mb |-> mb]
           steps == StepsOf(e, s)
<1>1. execution[e] \in Execution /\ e \in Running /\ mb \in Int
  BY DEF ReportStepComplete, IInv, Types, Running, Tracked
<1>2. x \in Execution /\ execution[e].forward \subseteq x.forward
  <2>1. <<s, mb>> \in Stages \X Int
    BY <1>1
  <2> QED
    BY <1>1, <2>1 DEF Recorded, Execution
<1>3. PICK sent \in SUBSET NextSteps(e, s, reported, x) :
        told' = [told EXCEPT ![e][s] = @ \cup sent]
  BY DEF ReportStepComplete
<1>4. /\ numStages' = numStages
      /\ \/ execution' = [execution EXCEPT ![e] = [x EXCEPT !.status = "complete"]]
         \/ execution' = [execution EXCEPT ![e] = x]
  BY DEF ReportStepComplete
<1>5. ASSUME NEW step \in sent
      PROVE  /\ step \in Instruction
             /\ s > 0 /\ step.action = "forward" => <<s - 1, step.mb>> \in x.forward
  <2>1. steps \in Seq(Instruction)
    BY <1>1, ScheduleSteps DEF IInv, StepsOf, Execution
  <2>2. PICK i \in 1..(Len(steps) - 1) :
          /\ step = steps[i + 1]
          /\ \A t \in DependsOn(s, step) : IsDependencyMet(x, t, step)
    BY DEF NextSteps
  <2>3. step \in Instruction
    BY <2>1, <2>2
  <2>4. ASSUME s > 0, step.action = "forward"
        PROVE  <<s - 1, step.mb>> \in x.forward
    <3>1. s \in Int /\ DependsOn(s, step) = {s - 1} \cap 0..(s - 1)
      BY <2>4 DEF Stages, DependsOn
    <3>2. s - 1 \in DependsOn(s, step)
      BY <2>4, <3>1
    <3> QED
      BY <2>2, <2>4, <3>2 DEF IsDependencyMet
  <2> QED
    BY <2>3, <2>4
<1> HIDE DEF x, reported, steps
<1>6. /\ execution'[e] \in Execution
      /\ execution'[e].forward = x.forward
      /\ execution' = [d \in Executions |-> execution'[d]]
      /\ \A d \in Executions \ {e} : execution'[d] = execution[d]
  <2>1. PICK y \in Execution :
          y.forward = x.forward /\ execution' = [execution EXCEPT ![e] = y]
    <3>1. /\ [x EXCEPT !.status = "complete"] \in Execution
          /\ [x EXCEPT !.status = "complete"].forward = x.forward
      BY <1>2 DEF Execution
    <3> QED
      BY <1>2, <1>4, <3>1
  <2>2. execution = [d \in Executions |-> execution[d]]
    BY DEF IInv, Types
  <2> QED
    BY <2>1, <2>2
<1>7. /\ told' \in [Executions -> [Stages -> SUBSET Instruction]]
      /\ told'[e][s] = told[e][s] \cup sent
      /\ \A t \in Stages \ {s} : told'[e][t] = told[e][t]
      /\ \A d \in Executions \ {e} : told'[d] = told[d]
  <2>1. sent \subseteq Instruction
    BY <1>5
  <2>2. told \in [Executions -> [Stages -> SUBSET Instruction]]
    BY DEF IInv, Types
  <2>3. told[e][s] \cup sent \in SUBSET Instruction
    BY <2>1, <2>2
  <2>4. told[e] \in [Stages -> SUBSET Instruction]
    BY <2>2
  <2>5. told' = [told EXCEPT ![e] = [told[e] EXCEPT ![s] = told[e][s] \cup sent]]
    BY <1>3
  <2>6. [told[e] EXCEPT ![s] = told[e][s] \cup sent] \in [Stages -> SUBSET Instruction]
    BY <2>3, <2>4
  <2> QED
    BY <2>2, <2>4, <2>5, <2>6
<1>8. Stages' = Stages
  BY <1>4 DEF Stages
<1>9. Types'
  <2>1. \A d \in Running' : execution'[d] \in Execution'
    <3>1. Execution' = Execution
      BY <1>8 DEF Execution
    <3> QED
      BY <1>6, <3>1 DEF IInv, Types, Running
  <2> QED
    BY <1>4, <1>6, <1>7, <1>8, <2>1 DEF IInv, Types
<1>10. NoForwardBeforeUpstream'
  <2> SUFFICES ASSUME NEW d \in Running', NEW t \in Stages, NEW step \in told'[d][t],
                      t > 0, step.action = "forward", step.mb > 0
               PROVE  <<t - 1, step.mb>> \in execution'[d].forward
    BY <1>8 DEF NoForwardBeforeUpstream
  <2>1. CASE d # e
    BY <1>6, <1>7, <2>1 DEF Running, IInv, NoForwardBeforeUpstream
  <2>2. CASE d = e /\ step \in told[e][t]
    BY <1>1, <1>2, <1>6, <2>2 DEF IInv, NoForwardBeforeUpstream
  <2>3. CASE d = e /\ step \notin told[e][t]
    <3>1. t = s /\ step \in sent
      BY <1>7, <2>3
    <3> QED
      BY <1>5, <1>6, <2>3, <3>1
  <2> QED
    BY <2>1, <2>2, <2>3
<1> QED
  BY <1>9, <1>10 DEF IInv

LEMMA StepInv == IInv /\ [Next]_pipelineVars => IInv'
<1> SUFFICES ASSUME IInv, [Next]_pipelineVars PROVE IInv'
  OBVIOUS
<1>1. ASSUME UNCHANGED coordinatorVars PROVE IInv'
  BY <1>1 DEF coordinatorVars, IInv, Types, NoForwardBeforeUpstream, Running, Stages, Execution
<1>2. ASSUME NEW e \in Executions, NEW strategy \in Strategies, NEW m \in 1..MaxMicrobatches,
             StartTrainingStep(e, strategy, m)
      PROVE  IInv'
  BY <1>2, StartInv
<1>3. ASSUME NEW e \in Executions, MinersWork(e) PROVE IInv'
  <2>0. PICK s \in Stages : \E step \in told[e][s] : Execute(e, s, step) \/ Report(e, s, step)
    BY <1>3 DEF MinersWork
  <2>1. PICK step \in told[e][s] : Execute(e, s, step) \/ Report(e, s, step)
    BY <2>0
  <2>2. CASE Execute(e, s, step)
    BY <1>1, <2>2 DEF Execute
  <2>3. CASE Report(e, s, step)
    <3>1. step.action \in {"forward", "backward", "submit_gradients"}
      BY DEF IInv, Types, Instruction
    <3>2. PICK mb : ReportStepComplete(e, s, step.action, mb)
      BY <2>3 DEF Report
    <3> QED
      BY <3>1, <3>2, ReportInv
  <2> QED
    BY <2>1, <2>2, <2>3
<1>4. CASE UNCHANGED pipelineVars
  BY <1>1, <1>4 DEF pipelineVars, coordinatorVars
<1> QED
  BY <1>2, <1>3, <1>4 DEF Next

\* What report_step_complete sends: a stage below the first is never told to run
\* forward on a microbatch, after the first one, that the stage above has not
\* reported.
THEOREM ForwardFollowsUpstream == Spec => []NoForwardBeforeUpstream
<1>1. Init => IInv
  BY InitInv
<1>2. IInv /\ [Next]_pipelineVars => IInv'
  BY StepInv
<1>3. IInv => NoForwardBeforeUpstream
  BY DEF IInv
<1> QED
  BY <1>1, <1>2, <1>3, PTL DEF Spec
-----------------------------------------------------------------------------
(* Every stage works through its schedule in order *)

\* What a stage was sent is of its schedule, and all before it is done and was
\* reported on a microbatch that is tracked.
InOrder(steps, tracked, toldSteps, doneSteps) ==
  /\ toldSteps \subseteq {steps[i] : i \in 1..Len(steps)}
  /\ \A i \in 1..Len(steps) : steps[i] \in toldSteps =>
       \A j \in 1..(i - 1) : steps[j] \in doneSteps /\ steps[j].mb \in tracked

ToldInOrder ==
  \A e \in Executions, s \in Stages :
    /\ done[e][s] \subseteq told[e][s]
    /\ execution[e] = None => told[e][s] = {}
    /\ execution[e] # None =>
         InOrder(StepsOf(e, s), Tracked(execution[e]), told[e][s], done[e][s])

OrderInv ==
  /\ IInv
  /\ done \in [Executions -> [Stages -> SUBSET Instruction]]
  /\ ToldInOrder

LEMMA OrderInitInv == Init => OrderInv
BY InitInv, PipelineAssumption DEF Init, OrderInv, ToldInOrder, Stages

\* A schedule goes by the strategy and microbatches of its execution.
LEMMA SameSchedule ==
  ASSUME numStages' = numStages, NEW e, NEW s,
         execution'[e].strategy = execution[e].strategy,
         execution'[e].microbatches = execution[e].microbatches
  PROVE  StepsOf(e, s)' = StepsOf(e, s) /\ Tracked(execution[e])' = Tracked(execution[e])
BY DEF StepsOf, StepsForStage, Tracked

LEMMA StartOrder ==
  ASSUME OrderInv, NEW e \in Executions, NEW strategy \in Strategies,
         NEW m \in 1..MaxMicrobatches, StartTrainingStep(e, strategy, m)
  PROVE  OrderInv'
<1>1. IInv'
  BY StartInv DEF OrderInv
<1>2. m \in Nat \ {0}
  OBVIOUS
<1>3. /\ numStages' = numStages /\ done' = done /\ execution[e] = None
      /\ execution' = [execution EXCEPT ![e] =
           [strategy |-> strategy, microbatches |-> m, forward |-> {}, backward |-> {},
            submitted |-> {}, status |-> "running"]]
  BY DEF StartTrainingStep
<1>4. PICK reached \in SUBSET Stages :
        told' = [told EXCEPT ![e] = [s \in Stages |->
                   IF s \in reached THEN {StepsForStage(strategy, m, s)[1]} ELSE {}]]
  BY DEF StartTrainingStep
<1>5. Stages' = Stages
  BY <1>3 DEF Stages
<1>6. /\ execution'[e].strategy = strategy /\ execution'[e].microbatches = m
      /\ \A d \in Executions \ {e} : execution'[d] = execution[d]
  BY <1>3 DEF OrderInv, IInv, Types
<1>7. /\ \A s \in Stages : told'[e][s] \subseteq {StepsForStage(strategy, m, s)[1]}
      /\ \A d \in Executions \ {e} : told'[d] = told[d]
  BY <1>4 DEF OrderInv, IInv, Types
<1>8. ASSUME NEW s \in Stages
      PROVE  InOrder(StepsOf(e, s), Tracked(execution[e]), told[e][s], done[e][s])'
  <2> DEFINE steps == StepsForStage(strategy, m, s)
             k == Planned(strategy, m)
  <2>1. StepsOf(e, s)' = steps
    BY <1>3, <1>6 DEF StepsOf, StepsForStage
  <2>2. k \in Nat \ {0} /\ Types
    BY <1>2, PlannedType DEF OrderInv, IInv
  <2>3. Len(steps) = 2 * k + 1
    BY <1>2, <2>2, SchedulePlaces
  <2>4. \A i, j \in 1..(2 * k + 1) : steps[i] = steps[j] => i = j
    BY <1>2, <2>2, OnePlaceEach
  <2>5. told'[e][s] \subseteq {steps[1]}
    BY <1>7
  <2> HIDE DEF steps, k
  <2>6. 1 \in 1..(2 * k + 1) /\ 1..(1 - 1) = {}
    BY <2>2
  <2>7. told'[e][s] \subseteq {steps[i] : i \in 1..Len(steps)}
    BY <2>3, <2>5, <2>6
  <2>8. \A i \in 1..Len(steps) : steps[i] \in told'[e][s] => i = 1
    BY <2>3, <2>4, <2>5, <2>6
  <2> QED
    BY <2>1, <2>6, <2>7, <2>8 DEF InOrder
<1>9. ToldInOrder'
  <2> SUFFICES ASSUME NEW d \in Executions, NEW s \in Stages
               PROVE  /\ done'[d][s] \subseteq told'[d][s]
                      /\ execution'[d] = None => told'[d][s] = {}
                      /\ execution'[d] # None =>
                           InOrder(StepsOf(d, s), Tracked(execution[d]), told[d][s], done[d][s])'
    BY <1>5 DEF ToldInOrder
  <2>1. CASE d # e
    <3>1. execution'[d] = execution[d] /\ told'[d] = told[d] /\ done'[d] = done[d]
      BY <1>3, <1>6, <1>7, <2>1
    <3>2. StepsOf(d, s)' = StepsOf(d, s) /\ Tracked(execution[d])' = Tracked(execution[d])
      BY <1>3, <3>1, SameSchedule
    <3> QED
      BY <3>1, <3>2 DEF OrderInv, ToldInOrder, InOrder
  <2>2. CASE d = e
    <3>1. done'[e][s] = {}
      BY <1>3 DEF OrderInv, ToldInOrder
    <3>2. execution'[e] # None
      <4>1. execution'[e] \in Execution
        BY <1>2, <1>3 DEF OrderInv, IInv, Types, Execution
      <4> QED
        BY <4>1, ExecutionBegun
    <3> QED
      BY <1>8, <2>2, <3>1, <3>2
  <2> QED
    BY <2>1, <2>2
<1> QED
  BY <1>1, <1>3, <1>5, <1>9 DEF OrderInv

\* The schedule of a stage of an execution.
LEMMA OwnSchedule ==
  ASSUME IInv, NEW e \in Executions, execution[e] # None, NEW s \in Stages,
         NEW steps, steps = StepsOf(e, s),
         NEW strategy, strategy = execution[e].strategy,
         NEW m, m = execution[e].microbatches, NEW k, k = Planned(strategy, m)
  PROVE  /\ Types /\ strategy \in Strategies /\ m \in Nat \ {0} /\ k \in Nat \ {0} /\ m <= k
         /\ steps = StepsForStage(strategy, m, s)
         /\ Len(steps) = 2 * k + 1 /\ steps[2 * k + 1] = SubmitGradients
         /\ \A i \in 1..(2 * k) : steps[i] \in Passes(k)
         /\ \A i, j \in 1..(2 * k + 1) : steps[i] = steps[j] => i = j
<1>1. Types /\ strategy \in Strategies /\ m \in Nat \ {0}
  BY DEF IInv, Types, Running, Execution
<1>2. steps = StepsForStage(strategy, m, s)
  BY DEF StepsOf
<1>3. k \in Nat \ {0} /\ k >= m
  BY <1>1, PlannedType
<1>4. Len(steps) = 2 * k + 1 /\ steps[2 * k + 1] = SubmitGradients
  BY <1>1, <1>2, SchedulePlaces
<1>5. /\ \A i \in 1..(2 * k) : steps[i] \in Passes(k)
      /\ \A i, j \in 1..(2 * k + 1) : steps[i] = steps[j] => i = j
  BY <1>1, <1>2, OnePlaceEach
<1> QED
  BY <1>1, <1>2, <1>3, <1>4, <1>5

LEMMA InOrderSends ==
  ASSUME NEW steps, NEW tracked, NEW toldSteps, NEW doneSteps, NEW sent, Len(steps) \in Nat,
         \A i, j \in 1..Len(steps) : steps[i] = steps[j] => i = j,
         InOrder(steps, tracked, toldSteps, doneSteps), doneSteps \subseteq toldSteps,
         \A step \in sent : \E j \in 1..(Len(steps) - 1) :
           step = steps[j + 1] /\ steps[j] \in doneSteps /\ steps[j].mb \in tracked
  PROVE  InOrder(steps, tracked, toldSteps \cup sent, doneSteps)
<1>1. sent \subseteq {steps[i] : i \in 1..Len(steps)}
  <2> SUFFICES ASSUME NEW step \in sent PROVE \E i \in 1..Len(steps) : step = steps[i]
    OBVIOUS
  <2>1. PICK j \in 1..(Len(steps) - 1) : step = steps[j + 1]
    OBVIOUS
  <2>2. j + 1 \in 1..Len(steps)
    BY <2>1
  <2> QED
    BY <2>1, <2>2
<1>2. ASSUME NEW i \in 1..Len(steps), steps[i] \in toldSteps \cup sent, NEW j \in 1..(i - 1)
      PROVE  steps[j] \in doneSteps /\ steps[j].mb \in tracked
  <2>1. CASE steps[i] \in toldSteps
    BY <2>1 DEF InOrder
  <2>2. CASE steps[i] \in sent
    <3>1. PICK h \in 1..(Len(steps) - 1) :
            steps[i] = steps[h + 1] /\ steps[h] \in doneSteps /\ steps[h].mb \in tracked
      BY <2>2
    <3>2. h + 1 \in 1..Len(steps) /\ h \in 1..Len(steps)
      BY <3>1
    <3>3. i = h + 1
      BY <3>1, <3>2
    <3>4. j = h \/ j \in 1..(h - 1)
      BY <3>3
    <3>5. steps[h] \in toldSteps
      BY <3>1
    <3> QED
      BY <3>1, <3>2, <3>4, <3>5 DEF InOrder
  <2> QED
    BY <1>2, <2>1, <2>2
<1> QED
  BY <1>1, <1>2 DEF InOrder

\* A report has the step after the reported one sent, and that of a submission none.
LEMMA SentAfterReported ==
  ASSUME OrderInv, NEW e \in Executions, NEW s \in Stages, NEW step \in done[e][s], NEW mb,
         mb \in IF step = SubmitGradients THEN Microbatches ELSE {step.mb},
         execution[e] # None, NEW x, NEW steps, steps = StepsOf(e, s),
         NEW next \in NextSteps(e, s, [action |-> step.action, mb |-> mb], x)
  PROVE  \E j \in 1..(Len(steps) - 1) :
           /\ next = steps[j + 1] /\ steps[j] = step /\ mb = step.mb
           /\ \A t \in DependsOn(s, next) : IsDependencyMet(x, t, next)
<1> DEFINE k == Planned(execution[e].strategy, execution[e].microbatches)
<1>1. PICK j \in 1..(Len(steps) - 1) :
        /\ next = steps[j + 1] /\ steps[j] = [action |-> step.action, mb |-> mb]
        /\ \A t \in DependsOn(s, next) : IsDependencyMet(x, t, next)
  BY DEF NextSteps
<1>2. k \in Nat /\ Len(steps) = 2 * k + 1 /\ \A i \in 1..(2 * k) : steps[i] \in Passes(k)
  BY OwnSchedule DEF OrderInv
<1> HIDE DEF k
<1>6. steps[j] \in Passes(k)
  BY <1>1, <1>2
<1>7. step # SubmitGradients
  BY <1>1, <1>6 DEF SubmitGradients, Passes
<1>8. step \in Instruction /\ mb = step.mb
  BY <1>7 DEF OrderInv
<1>9. steps[j] = step
  BY <1>1, <1>8 DEF Instruction
<1> QED
  BY <1>1, <1>8, <1>9

LEMMA ReportOrder ==
  ASSUME OrderInv, NEW e \in Executions, NEW s \in Stages, NEW step \in done[e][s],
         Report(e, s, step)
  PROVE  OrderInv'
<1>1. PICK mb \in IF step = SubmitGradients THEN Microbatches ELSE {step.mb} :
        ReportStepComplete(e, s, step.action, mb)
  BY DEF Report
<1> DEFINE x == Recorded(execution[e], s, step.action, mb)
           reported == [action |-> step.action, mb |-> mb]
           steps == StepsOf(e, s)
<1>2. step \in Instruction /\ step.action \in {"forward", "backward", "submit_gradients"}
  BY DEF OrderInv, Instruction
<1>3. IInv'
  BY <1>1, <1>2, ReportInv DEF OrderInv
<1>4. /\ execution[e] # None /\ mb \in Tracked(execution[e])
      /\ numStages' = numStages /\ done' = done
  BY <1>1 DEF ReportStepComplete
<1>5. PICK sent \in SUBSET NextSteps(e, s, reported, x) :
        told' = [told EXCEPT ![e][s] = @ \cup sent]
  BY <1>1 DEF ReportStepComplete
<1>6. /\ told'[e][s] = told[e][s] \cup sent
      /\ \A t \in Stages \ {s} : told'[e][t] = told[e][t]
      /\ \A d \in Executions \ {e} : told'[d] = told[d]
  <2>1. told \in [Executions -> [Stages -> SUBSET Instruction]]
    BY DEF OrderInv, IInv, Types
  <2>2. told[e] \in [Stages -> SUBSET Instruction]
    BY <2>1
  <2>3. told' = [told EXCEPT ![e] = [told[e] EXCEPT ![s] = told[e][s] \cup sent]]
    BY <1>5
  <2> QED
    BY <2>1, <2>2, <2>3
<1>7. /\ \A d \in Executions \ {e} : execution'[d] = execution[d]
      /\ execution'[e].strategy = execution[e].strategy
      /\ execution'[e].microbatches = execution[e].microbatches
  <2>1. execution[e] \in Execution
    BY <1>4 DEF OrderInv, IInv, Types, Running
  <2>2. \/ execution' = [execution EXCEPT ![e] = [x EXCEPT !.status = "complete"]]
        \/ execution' = [execution EXCEPT ![e] = x]
    BY <1>1 DEF ReportStepComplete
  <2>3. /\ x.strategy = execution[e].strategy /\ x.microbatches = execution[e].microbatches
        /\ [x EXCEPT !.status = "complete"].strategy = x.strategy
        /\ [x EXCEPT !.status = "complete"].microbatches = x.microbatches
    BY <1>2, <2>1 DEF Recorded, Execution
  <2> HIDE DEF x
  <2> QED
    BY <2>2, <2>3 DEF OrderInv, IInv, Types
<1>8. /\ Len(steps) \in Nat
      /\ \A i, j \in 1..Len(steps) : steps[i] = steps[j] => i = j
  <2> DEFINE k == Planned(execution[e].strategy, execution[e].microbatches)
  <2>1. k \in Nat /\ Len(steps) = 2 * k + 1 /\ \A i, j \in 1..(2 * k + 1) : steps[i] = steps[j] => i = j
    BY <1>4, OwnSchedule DEF OrderInv
  <2> QED
    BY <2>1
<1>9. \A next \in sent : \E j \in 1..(Len(steps) - 1) :
        next = steps[j + 1] /\ steps[j] \in done[e][s] /\ steps[j].mb \in Tracked(execution[e])
  BY <1>4, SentAfterReported
<1> HIDE DEF x, reported, steps
<1>10. InOrder(steps, Tracked(execution[e]), told[e][s] \cup sent, done[e][s])
  <2>1. done[e][s] \subseteq told[e][s] /\ InOrder(steps, Tracked(execution[e]), told[e][s], done[e][s])
    BY <1>4 DEF OrderInv, ToldInOrder, steps
  <2> QED
    BY <1>8, <1>9, <2>1, InOrderSends
<1>11. Stages' = Stages
  BY <1>4 DEF Stages
<1>12. execution'[e] # None
  <2>1. e \in Running' => execution'[e] \in Execution'
    BY <1>3 DEF IInv, Types
  <2>2. execution[e] \in Execution
    BY <1>4 DEF OrderInv, IInv, Types, Running
  <2>3. x \in Execution
    BY <1>2, <1>4, <2>2 DEF x, Recorded, Execution, Tracked
  <2>4. [x EXCEPT !.status = "complete"] \in Execution
    BY <2>3 DEF Execution
  <2>5. \/ execution' = [execution EXCEPT ![e] = [x EXCEPT !.status = "complete"]]
        \/ execution' = [execution EXCEPT ![e] = x]
    BY <1>1 DEF ReportStepComplete, x
  <2>6. execution'[e] \in Execution
    BY <2>3, <2>4, <2>5 DEF OrderInv, IInv, Types
  <2> QED
    BY <2>6, ExecutionBegun
<1>13. ToldInOrder'
  <2> SUFFICES ASSUME NEW d \in Executions, NEW t \in Stages
               PROVE  /\ done'[d][t] \subseteq told'[d][t]
                      /\ execution'[d] = None => told'[d][t] = {}
                      /\ execution'[d] # None =>
                           InOrder(StepsOf(d, t), Tracked(execution[d]), told[d][t], done[d][t])'
    BY <1>11 DEF ToldInOrder
  <2>1. StepsOf(d, t)' = StepsOf(d, t) /\ Tracked(execution[d])' = Tracked(execution[d])
    BY <1>4, <1>7, SameSchedule
  <2>2. CASE d = e /\ t = s
    <3>1. InOrder(StepsOf(d, t), Tracked(execution[d]), told[d][t], done[d][t])'
      BY <1>4, <1>6, <1>10, <2>1, <2>2 DEF steps, InOrder
    <3> QED
      BY <1>4, <1>6, <1>12, <2>2, <3>1 DEF OrderInv, ToldInOrder
  <2>3. CASE ~(d = e /\ t = s)
    <3>1. told'[d][t] = told[d][t] /\ (execution'[d] = None <=> execution[d] = None)
      BY <1>4, <1>6, <1>7, <1>12, <2>3
    <3> QED
      BY <1>4, <2>1, <3>1 DEF OrderInv, ToldInOrder, InOrder
  <2> QED
    BY <2>2, <2>3
<1> QED
  BY <1>3, <1>4, <1>11, <1>13 DEF OrderInv

LEMMA ExecuteOrder ==
  ASSUME OrderInv, NEW e \in Executions, NEW s \in Stages, NEW step, Execute(e, s, step)
  PROVE  OrderInv'
<1>1. /\ step \in told[e][s] /\ UNCHANGED coordinatorVars
      /\ done' = [done EXCEPT ![e][s] = @ \cup {step}]
  BY DEF Execute
<1>2. IInv'
  BY <1>1 DEF OrderInv, coordinatorVars, IInv, Types, NoForwardBeforeUpstream, Running, Stages, Execution
<1>3. /\ done' \in [Executions -> [Stages -> SUBSET Instruction]]
      /\ \A d \in Executions, t \in Stages : done[d][t] \subseteq done'[d][t]
      /\ \A d \in Executions, t \in Stages : done'[d][t] \subseteq done[d][t] \cup told[d][t]
  <2>1. done \in [Executions -> [Stages -> SUBSET Instruction]] /\ step \in Instruction
    BY <1>1 DEF OrderInv, IInv, Types
  <2>2. done[e] \in [Stages -> SUBSET Instruction] /\ done[e][s] \cup {step} \in SUBSET Instruction
    BY <2>1
  <2>3. done' = [done EXCEPT ![e] = [done[e] EXCEPT ![s] = done[e][s] \cup {step}]]
    BY <1>1
  <2>4. [done[e] EXCEPT ![s] = done[e][s] \cup {step}] \in [Stages -> SUBSET Instruction]
    BY <2>2
  <2>5. /\ done'[e] = [done[e] EXCEPT ![s] = done[e][s] \cup {step}]
        /\ \A d \in Executions \ {e} : done'[d] = done[d]
    BY <2>1, <2>3
  <2>6. \A t \in Stages : done'[e][t] = IF t = s THEN done[e][s] \cup {step} ELSE done[e][t]
    BY <2>2, <2>5
  <2> QED
    BY <1>1, <2>1, <2>3, <2>4, <2>5, <2>6
<1>4. Stages' = Stages /\ told' = told /\ execution' = execution /\ numStages' = numStages
  BY <1>1 DEF Stages, coordinatorVars
<1>5. ToldInOrder'
  <2> SUFFICES ASSUME NEW d \in Executions, NEW t \in Stages
               PROVE  /\ done'[d][t] \subseteq told'[d][t]
                      /\ execution'[d] = None => told'[d][t] = {}
                      /\ execution'[d] # None =>
                           InOrder(StepsOf(d, t), Tracked(execution[d]), told[d][t], done[d][t])'
    BY <1>4 DEF ToldInOrder
  <2>1. StepsOf(d, t)' = StepsOf(d, t) /\ Tracked(execution[d])' = Tracked(execution[d])
    BY <1>4, SameSchedule
  <2>2. done[d][t] \subseteq done'[d][t] /\ done'[d][t] \subseteq done[d][t] \cup told[d][t]
    BY <1>3
  <2> QED
    BY <1>4, <2>1, <2>2 DEF OrderInv, ToldInOrder, InOrder
<1> QED
  BY <1>2, <1>3, <1>4, <1>5 DEF OrderInv

LEMMA OrderStep == OrderInv /\ [Next]_pipelineVars => OrderInv'
<1> SUFFICES ASSUME OrderInv, [Next]_pipelineVars PROVE OrderInv'
  OBVIOUS
<1>1. ASSUME NEW e \in Executions, NEW strategy \in Strategies, NEW m \in 1..MaxMicrobatches,
             StartTrainingStep(e, strategy, m)
      PROVE  OrderInv'
  BY <1>1, StartOrder
<1>2. ASSUME NEW e \in Executions, MinersWork(e) PROVE OrderInv'
  <2>1. PICK s \in Stages : \E step \in told[e][s] : Execute(e, s, step) \/ Report(e, s, step)
    BY <1>2 DEF MinersWork
  <2>2. PICK step \in told[e][s] : Execute(e, s, step) \/ Report(e, s, step)
    BY <2>1
  <2>3. CASE Execute(e, s, step)
    BY <2>3, ExecuteOrder
  <2>4. CASE Report(e, s, step)
    <3>1. step \in done[e][s]
      BY <2>4 DEF Report
    <3> QED
      BY <2>4, <3>1, ReportOrder
  <2> QED
    BY <2>2, <2>3, <2>4
<1>3. CASE UNCHANGED pipelineVars
  <2>1. IInv' /\ Stages' = Stages
    BY <1>3, StepInv DEF OrderInv, pipelineVars, Stages
  <2>2. execution' = execution /\ told' = told /\ done' = done /\ numStages' = numStages
    BY <1>3 DEF pipelineVars
  <2>3. \A e, s : StepsOf(e, s)' = StepsOf(e, s) /\ Tracked(execution[e])' = Tracked(execution[e])
    BY <2>2, SameSchedule
  <2> QED
    BY <2>1, <2>2, <2>3 DEF OrderInv, ToldInOrder, InOrder
<1> QED
  BY <1>1, <1>2, <1>3 DEF Next

\* A miner is sent the steps of its schedule in their order, each after it has
\* done the one before, whichever notices fail and whatever is reported again.
THEOREM StepsFollowSchedule == Spec => []OrderInv
<1>1. Init => OrderInv
  BY OrderInitInv
<1>2. OrderInv /\ [Next]_pipelineVars => OrderInv'
  BY OrderStep
<1> QED
  BY <1>1, <1>2, PTL DEF Spec
-----------------------------------------------------------------------------
(* The activations a stage holds *)

\* Of alternating passes: whoever holds the activations of two microbatches has
\* them less than the warm-up apart.
LEMMA HeldApart ==
  ASSUME NEW k \in Nat \ {0}, NEW w \in 0..k, NEW c \in 0..(k - 1), NEW d \in 0..(k - 1),
         ForwardAt(k, w, d) < BackwardAt(k, w, c)
  PROVE  d <= c + w
BY DEF ForwardAt, BackwardAt

\* A set of numbers of which no two are further apart than w has at most w + 1.
LEMMA NarrowSet ==
  ASSUME NEW S, S \subseteq Nat, NEW w \in Nat, \A c, d \in S : d <= c + w
  PROVE  IsFiniteSet(S) /\ Cardinality(S) <= w + 1
<1>1. CASE S = {}
  <2>1. IsFiniteSet(S) /\ Cardinality(S) = 0
    BY <1>1, FS_EmptySet
  <2> QED
    BY <2>1
<1>2. CASE S # {}
  <2>1. PICK c \in S : \A d \in S : c <= d
    BY <1>2, LeastNat
  <2>2. c \in Int /\ c + w \in Int /\ S \subseteq c..(c + w)
    BY <2>1
  <2>3. IsFiniteSet(c..(c + w)) /\ Cardinality(c..(c + w)) = w + 1
    <3>1. Cardinality(c..(c + w)) = IF c > c + w THEN 0 ELSE (c + w) - c + 1
      BY <2>2, FS_Interval
    <3> QED
      BY <2>2, <3>1, FS_Interval
  <2> QED
    BY <2>2, <2>3, FS_Subset
<1> QED
  BY <1>1, <1>2

\* What is done and not yet gone backward over is close together.
LEMMA HeldClose ==
  ASSUME OrderInv, NEW e \in Running, NEW s \in Stages, execution[e].strategy = "1f1b",
         NEW a \in InFlight(e, s), NEW b \in InFlight(e, s)
  PROVE  /\ a = Forward(a.mb) /\ a.mb \in Nat
         /\ b.mb <= a.mb + (numStages - s - 1)
<1> DEFINE strategy == execution[e].strategy
           m == execution[e].microbatches
           k == Planned(strategy, m)
           steps == StepsOf(e, s)
           w == Warmup(numStages, k, s)
<1>1. e \in Executions /\ execution[e] # None
  BY DEF Running
<1>2. /\ Types /\ strategy \in Strategies /\ m \in Nat \ {0} /\ k \in Nat \ {0}
      /\ steps = StepsForStage(strategy, m, s) /\ Len(steps) = 2 * k + 1
      /\ steps[2 * k + 1] = SubmitGradients
      /\ \A i \in 1..(2 * k) : steps[i] \in Passes(k)
      /\ \A i, j \in 1..(2 * k + 1) : steps[i] = steps[j] => i = j
  BY <1>1, OwnSchedule DEF OrderInv
<1>3. numStages \in Nat \ {0} /\ s \in 0..(numStages - 1) /\ strategy = "1f1b"
  BY <1>2 DEF Types, Stages
<1> DEFINE at(step) == Position(strategy, m, s, step)
<1>4. \A step \in Passes(k) : at(step) \in 1..(2 * k) /\ steps[at(step)] = step
  BY <1>2, SchedulePlaces
<1>5. \A c \in 0..(k - 1) : at(Forward(c)) = ForwardAt(k, w, c) /\ at(Backward(c)) = BackwardAt(k, w, c)
  BY <1>3 DEF Position, Alternates, Forward, Backward
<1>6. w \in 0..k /\ w <= numStages - s - 1
  BY <1>2, <1>3, WarmupBounds, WarmupIsLeast
<1>7. /\ InOrder(steps, Tracked(execution[e]), told[e][s], done[e][s])
      /\ done[e][s] \subseteq told[e][s]
  BY <1>1 DEF OrderInv, ToldInOrder
<1> HIDE DEF strategy, m, k, steps, w, at
<1>8. ASSUME NEW f \in InFlight(e, s)
      PROVE  /\ f \in Passes(k) /\ f.mb \in 0..(k - 1) /\ f = Forward(f.mb)
             /\ f \in done[e][s] /\ Backward(f.mb) \notin done[e][s]
  <2>1. f \in done[e][s] /\ f.action = "forward" /\ Backward(f.mb) \notin done[e][s]
    BY DEF InFlight
  <2>2. PICK i \in 1..Len(steps) : f = steps[i]
    BY <1>7, <2>1 DEF InOrder
  <2>3. i # 2 * k + 1
    BY <1>2, <2>1, <2>2 DEF SubmitGradients
  <2>4. f \in Passes(k)
    BY <1>2, <2>2, <2>3
  <2> QED
    BY <2>1, <2>4 DEF Passes, Forward
<1>9. Forward(b.mb) \in Passes(k) /\ Backward(a.mb) \in Passes(k)
  BY <1>8 DEF Passes, Forward, Backward
<1>10. ~(at(Backward(a.mb)) < at(b))
  <2> SUFFICES ASSUME at(Backward(a.mb)) < at(b) PROVE FALSE
    OBVIOUS
  <2>1. at(b) \in 1..Len(steps) /\ steps[at(b)] = b /\ at(Backward(a.mb)) \in 1..(at(b) - 1)
    <3>1. b \in Passes(k) /\ Backward(a.mb) \in Passes(k)
      BY <1>8, <1>9
    <3>2. at(b) \in 1..(2 * k) /\ steps[at(b)] = b /\ at(Backward(a.mb)) \in 1..(2 * k)
      BY <1>4, <3>1
    <3>3. k \in Nat /\ Len(steps) = 2 * k + 1
      BY <1>2
    <3> QED
      BY <3>2, <3>3
  <2>2. b \in told[e][s]
    BY <1>7, <1>8
  <2>3. steps[at(Backward(a.mb))] \in done[e][s]
    BY <1>7, <2>1, <2>2 DEF InOrder
  <2> QED
    BY <1>4, <1>8, <1>9, <2>3
<1>11. at(b) < at(Backward(a.mb))
  <2>1. at(b) # at(Backward(a.mb))
    <3>1. b # Backward(a.mb)
      BY <1>8 DEF Forward, Backward
    <3> QED
      BY <1>4, <1>8, <1>9, <3>1
  <2> QED
    BY <1>2, <1>4, <1>8, <1>9, <1>10, <2>1
<1>12. ForwardAt(k, w, b.mb) < BackwardAt(k, w, a.mb)
  BY <1>5, <1>8, <1>11
<1>13. b.mb <= a.mb + w
  BY <1>2, <1>6, <1>8, <1>12, HeldApart
<1> QED
  BY <1>3, <1>6, <1>8, <1>13

LEMMA OrderPeak == OrderInv => PeakActivations
<1> SUFFICES ASSUME OrderInv, NEW e \in Running, NEW s \in Stages, execution[e].strategy = "1f1b"
             PROVE  Cardinality(InFlight(e, s)) <= numStages - s
  BY DEF PeakActivations
<1> DEFINE F == InFlight(e, s)
           S == {step.mb : step \in F}
           w == numStages - s - 1
<1>1. numStages \in Nat \ {0} /\ s \in 0..(numStages - 1)
  BY DEF OrderInv, IInv, Types, Stages
<1>2. \A a, b \in F : a = Forward(a.mb) /\ a.mb \in Nat /\ b.mb <= a.mb + w
  BY HeldClose
<1> HIDE DEF F
<1>3. S \subseteq Nat /\ \A c, d \in S : d <= c + w
  BY <1>2
<1>4. w \in Nat
  BY <1>1
<1> HIDE DEF S, w
<1>5. IsFiniteSet(S) /\ Cardinality(S) <= w + 1
  BY <1>3, <1>4, NarrowSet
<1>6. IsFiniteSet(F) /\ Cardinality(F) <= Cardinality(S)
  <2> DEFINE f == [step \in F |-> step.mb]
  <2>1. f \in [F -> S] /\ \A a, b \in F : f[a] = f[b] => a = b
    BY <1>2 DEF S
  <2>2. f \in Injection(F, S)
    BY <2>1 DEF Injection, IsInjective
  <2> QED
    BY <1>5, <2>2, FS_Injection
<1>7. Cardinality(F) \in Nat /\ Cardinality(S) \in Nat
  BY <1>5, <1>6, FS_CardinalityType
<1> QED
  BY <1>1, <1>5, <1>6, <1>7 DEF F, w

\* generate_1f1b_schedule: a stage never holds the activations of more microbatches
\* than there are stages from it to the last.
THEOREM ActivationsStayBounded == Spec => []PeakActivations
<1>1. OrderInv => PeakActivations
  BY OrderPeak
<1> QED
  BY <1>1, StepsFollowSchedule, PTL
-----------------------------------------------------------------------------
(* Where a training step comes to rest *)

\* What the steps of the stages are to one another: each has a time, at which
\* what it needs of others is earlier.
LEMMA StepTimes ==
  ASSUME OrderInv, NEW e \in Running,
         NEW time, time = [s \in Stages |-> [step \in Instruction |->
           Time(execution[e].strategy, execution[e].microbatches, s, step)]],
         NEW k, k = Planned(execution[e].strategy, execution[e].microbatches)
  PROVE  /\ k \in Nat \ {0}
         /\ \A s \in Stages :
              /\ \A i \in 1..(2 * k + 1) : time[s][StepsOf(e, s)[i]] \in Nat
              /\ \A i, j \in 1..(2 * k + 1) :
                   i < j => time[s][StepsOf(e, s)[i]] < time[s][StepsOf(e, s)[j]]
         /\ \A s \in Stages, c \in 0..(k - 1) :
              /\ \E i \in 1..(2 * k) : StepsOf(e, s)[i] = Forward(c)
              /\ \E i \in 1..(2 * k) : StepsOf(e, s)[i] = Backward(c)
              /\ s > 0 => time[s - 1][Forward(c)] < time[s][Forward(c)]
              /\ time[s][Forward(c)] < time[s][Backward(c)]
              /\ s < numStages - 1 => time[s + 1][Backward(c)] < time[s][Backward(c)]
<1> DEFINE strategy == execution[e].strategy
           m == execution[e].microbatches
<1>1. e \in Executions /\ execution[e] # None
  BY DEF Running
<1>2. /\ Types /\ strategy \in Strategies /\ m \in Nat \ {0}
      /\ k = Planned(strategy, m) /\ k \in Nat \ {0}
  <2>1. Types /\ strategy \in Strategies /\ m \in Nat \ {0}
    BY <1>1 DEF OrderInv, IInv, Types, Running, Execution
  <2>2. k = Planned(strategy, m)
    OBVIOUS
  <2> QED
    BY <2>1, <2>2, PlannedType
<1>3. numStages \in Nat \ {0} /\ Stages = 0..(numStages - 1)
  BY <1>2 DEF Types, Stages
<1>4. time = [s \in Stages |-> [step \in Instruction |-> Time(strategy, m, s, step)]]
  OBVIOUS
<1>5. \A c \in 0..(k - 1) : /\ Forward(c) \in Instruction /\ Backward(c) \in Instruction
                           /\ Forward(c) \in Passes(k) /\ Backward(c) \in Passes(k)
  BY <1>2 DEF Forward, Backward, Instruction, Passes
<1>6. ASSUME NEW s \in Stages
      PROVE  /\ StepsOf(e, s) = StepsForStage(strategy, m, s)
             /\ \A i \in 1..(2 * k + 1) : StepsOf(e, s)[i] \in Instruction
  <2>1. StepsOf(e, s) = StepsForStage(strategy, m, s)
    BY DEF StepsOf
  <2> HIDE DEF strategy, m
  <2>2. StepsForStage(strategy, m, s) \in Seq(Instruction)
    BY <1>2, ScheduleSteps
  <2>3. Len(StepsForStage(strategy, m, s)) = 2 * k + 1
    BY <1>2, SchedulePlaces
  <2> QED
    BY <2>1, <2>2, <2>3
<1> HIDE DEF strategy, m
<1>7. \A s \in Stages :
        /\ \A i \in 1..(2 * k + 1) : Time(strategy, m, s, StepsOf(e, s)[i]) \in Nat
        /\ \A i, j \in 1..(2 * k + 1) : i < j =>
             Time(strategy, m, s, StepsOf(e, s)[i]) < Time(strategy, m, s, StepsOf(e, s)[j])
  BY <1>2, <1>6, ScheduleTimes
<1>8. \A s \in Stages :
        /\ \A i \in 1..(2 * k + 1) : time[s][StepsOf(e, s)[i]] \in Nat
        /\ \A i, j \in 1..(2 * k + 1) :
             i < j => time[s][StepsOf(e, s)[i]] < time[s][StepsOf(e, s)[j]]
  BY <1>4, <1>6, <1>7
<1>9. ASSUME NEW s \in Stages, NEW c \in 0..(k - 1)
      PROVE  /\ \E i \in 1..(2 * k) : StepsOf(e, s)[i] = Forward(c)
             /\ \E i \in 1..(2 * k) : StepsOf(e, s)[i] = Backward(c)
             /\ s > 0 => time[s - 1][Forward(c)] < time[s][Forward(c)]
             /\ time[s][Forward(c)] < time[s][Backward(c)]
             /\ s < numStages - 1 => time[s + 1][Backward(c)] < time[s][Backward(c)]
  <2>1. \A step \in Passes(k) :
          /\ Position(strategy, m, s, step) \in 1..(2 * k)
          /\ StepsOf(e, s)[Position(strategy, m, s, step)] = step
    BY <1>2, <1>6, SchedulePlaces
  <2>2. /\ Time(strategy, m, s - 1, Forward(c)) < Time(strategy, m, s, Forward(c))
        /\ Time(strategy, m, s, Forward(c)) < Time(strategy, m, s, Backward(c))
        /\ s < numStages - 1 =>
             Time(strategy, m, s + 1, Backward(c)) < Time(strategy, m, s, Backward(c))
    BY <1>2, DataTimes
  <2>3. (s > 0 => s - 1 \in Stages) /\ (s < numStages - 1 => s + 1 \in Stages)
    BY <1>3
  <2> QED
    BY <1>4, <1>5, <2>1, <2>2, <2>3
<1> QED
  BY <1>2, <1>8, <1>9

LEMMA OrderStalls == OrderInv => StallsOnlyWhenHeldBack
<1> SUFFICES ASSUME OrderInv, NEW e \in Running, Quiet(e), ~Finished(e),
                    \A s \in Stages : Lost(e, s) = {}
             PROVE  FALSE
  BY DEF StallsOnlyWhenHeldBack
<1> DEFINE k == Planned(execution[e].strategy, execution[e].microbatches)
           time == [s \in Stages |-> [step \in Instruction |->
             Time(execution[e].strategy, execution[e].microbatches, s, step)]]
           tracked == Tracked(execution[e])
           steps(s) == StepsOf(e, s)
<1>1. e \in Executions /\ execution[e] # None
  BY DEF Running
<1>2. /\ k \in Nat \ {0}
      /\ \A s \in Stages :
           /\ \A i \in 1..(2 * k + 1) : time[s][steps(s)[i]] \in Nat
           /\ \A i, j \in 1..(2 * k + 1) : i < j => time[s][steps(s)[i]] < time[s][steps(s)[j]]
      /\ \A s \in Stages, c \in 0..(k - 1) :
           /\ \E i \in 1..(2 * k) : steps(s)[i] = Forward(c)
           /\ \E i \in 1..(2 * k) : steps(s)[i] = Backward(c)
           /\ s > 0 => time[s - 1][Forward(c)] < time[s][Forward(c)]
           /\ time[s][Forward(c)] < time[s][Backward(c)]
           /\ s < numStages - 1 => time[s + 1][Backward(c)] < time[s][Backward(c)]
  BY StepTimes
<1>3. \A s \in Stages :
        /\ Len(steps(s)) = 2 * k + 1 /\ steps(s)[2 * k + 1] = SubmitGradients
        /\ \A i \in 1..(2 * k) : steps(s)[i] \in Passes(k)
        /\ \A i, j \in 1..(2 * k + 1) : steps(s)[i] = steps(s)[j] => i = j
  BY <1>1, OwnSchedule DEF OrderInv
<1>4. numStages \in Nat \ {0} /\ Stages = 0..(numStages - 1)
  BY DEF OrderInv, IInv, Types, Stages
<1>5. \A s \in Stages : InOrder(steps(s), tracked, told[e][s], done[e][s])
  BY <1>1 DEF OrderInv, ToldInOrder
<1> HIDE DEF k, time, tracked
<1> DEFINE Left == {t \in Nat : \E s \in Stages, i \in 1..(2 * k + 1) :
                      steps(s)[i] \notin done[e][s] /\ t = time[s][steps(s)[i]]}
<1>6. Left # {}
  <2>1. PICK s \in Stages : SubmitGradients \notin done[e][s]
    BY DEF Finished
  <2>2. 2 * k + 1 \in 1..(2 * k + 1)
    BY <1>2
  <2> HIDE DEF steps
  <2> QED
    BY <1>2, <1>3, <2>1, <2>2
<1>7. PICK t \in Left : \A u \in Left : t <= u
  <2>1. Left \subseteq Nat
    OBVIOUS
  <2> HIDE DEF Left
  <2> QED
    BY <1>6, <2>1, LeastNat
<1>8. PICK s \in Stages, i \in 1..(2 * k + 1) :
        steps(s)[i] \notin done[e][s] /\ t = time[s][steps(s)[i]]
  BY <1>7
<1> DEFINE next == steps(s)[i]
<1> HIDE DEF steps
\* All that has an earlier time is done.
<1>9. ASSUME NEW r \in Stages, NEW j \in 1..(2 * k + 1), time[r][steps(r)[j]] < time[s][next]
      PROVE  steps(r)[j] \in done[e][r]
  <2> SUFFICES ASSUME steps(r)[j] \notin done[e][r] PROVE FALSE
    OBVIOUS
  <2>1. time[r][steps(r)[j]] \in Nat
    BY <1>2
  <2>2. time[r][steps(r)[j]] \in Left
    BY <2>1
  <2>3. t <= time[r][steps(r)[j]] /\ t \in Nat
    BY <1>7, <2>2
  <2> HIDE DEF Left, next
  <2> QED
    BY <1>8, <1>9, <2>1, <2>3 DEF next
<1> HIDE DEF Left
<1>10. /\ next \notin done[e][s]
       /\ \A j \in 1..(i - 1) : steps(s)[j] \in done[e][s]
  <2>1. ASSUME NEW j \in 1..(i - 1) PROVE steps(s)[j] \in done[e][s]
    <3>1. j \in 1..(2 * k + 1) /\ j < i
      BY <1>2
    <3>2. time[s][steps(s)[j]] < time[s][next]
      BY <1>2, <3>1
    <3> QED
      BY <1>9, <3>1, <3>2
  <2> QED
    BY <1>8, <2>1
<1>11. ASSUME NEW r \in Stages, NEW c \in 0..(k - 1)
       PROVE  /\ time[r][Forward(c)] < time[s][next] => Forward(c) \in done[e][r]
              /\ time[r][Backward(c)] < time[s][next] => Backward(c) \in done[e][r]
  <2>1. PICK a \in 1..(2 * k), b \in 1..(2 * k) :
          steps(r)[a] = Forward(c) /\ steps(r)[b] = Backward(c)
    BY <1>2
  <2>2. a \in 1..(2 * k + 1) /\ b \in 1..(2 * k + 1)
    BY <1>2
  <2> HIDE DEF next
  <2> QED
    BY <1>9, <2>1, <2>2
<1>12. next = SubmitGradients \/ \E c \in 0..(k - 1) : next = Forward(c) \/ next = Backward(c)
  <2>1. CASE i = 2 * k + 1
    BY <1>3, <2>1
  <2>2. CASE i # 2 * k + 1
    <3>1. i \in 1..(2 * k)
      BY <1>2, <2>2
    <3>2. next \in Passes(k)
      BY <1>3, <3>1
    <3> QED
      BY <3>2 DEF Passes, Forward, Backward
  <2> QED
    BY <2>1, <2>2
<1> HIDE DEF next
\* So it has its data, and would have been done if it had been sent.
<1>13. HasData(e, s, next)
  <2>1. CASE next = SubmitGradients
    BY <2>1 DEF HasData, SubmitGradients
  <2>2. ASSUME NEW c \in 0..(k - 1), next = Forward(c) PROVE HasData(e, s, next)
    <3>1. s > 0 => s - 1 \in Stages /\ time[s - 1][Forward(c)] < time[s][next]
      BY <1>2, <1>4, <2>2
    <3>2. s > 0 => Forward(c) \in done[e][s - 1]
      BY <1>11, <3>1
    <3> QED
      BY <2>2, <3>2 DEF HasData, Forward
  <2>3. ASSUME NEW c \in 0..(k - 1), next = Backward(c) PROVE HasData(e, s, next)
    <3>1. Forward(c) \in done[e][s]
      BY <1>2, <1>11, <2>3
    <3>2. s < numStages - 1 => s + 1 \in Stages /\ time[s + 1][Backward(c)] < time[s][next]
      BY <1>2, <1>4, <2>3
    <3>3. s < numStages - 1 => Backward(c) \in done[e][s + 1]
      BY <1>11, <3>2
    <3> QED
      BY <2>3, <3>1, <3>3 DEF HasData, Backward
  <2> QED
    BY <1>12, <2>1, <2>2, <2>3
<1>14. next \notin told[e][s]
  BY <1>10, <1>13 DEF Quiet
\* It was held back, and since it is not lost it still waits for a forward pass.
<1>15. i - 1 \in HeldBack(e, s)
  <2>1. i - 1 \in 0..(Len(StepsOf(e, s)) - 1) /\ (i - 1) + 1 = i
    BY <1>2, <1>3 DEF steps
  <2>2. i - 1 > 0 => i - 1 \in 1..(i - 1)
    OBVIOUS
  <2> QED
    BY <1>10, <1>14, <2>1, <2>2 DEF HeldBack, steps, next
<1>16. PICK r \in DependsOn(s, next) : ~IsDependencyMet(execution[e], r, next)
  <2>1. i - 1 \notin Lost(e, s) /\ (i - 1) + 1 = i
    OBVIOUS
  <2> QED
    BY <1>15, <2>1 DEF Lost, steps, next
<1>17. PICK c \in 0..(k - 1) : next = Forward(c)
  <2>1. s \in Int
    BY <1>4
  <2>2. next # SubmitGradients
    BY <1>16, <2>1 DEF DependsOn, SubmitGradients
  <2>3. ASSUME NEW c \in 0..(k - 1), next = Backward(c) PROVE FALSE
    BY <1>16, <2>1, <2>3 DEF DependsOn, Backward
  <2> QED
    BY <1>12, <2>2, <2>3
<1>18. r = s - 1 /\ r \in Stages /\ s > 0 /\ <<r, c>> \notin execution[e].forward
  <2>1. next.action = "forward" /\ next.mb = c
    BY <1>17 DEF Forward
  <2>2. r = s - 1 /\ r \in 0..(s - 1) /\ s \in Int
    BY <1>4, <1>16, <2>1 DEF DependsOn
  <2> QED
    BY <1>4, <1>16, <2>1, <2>2 DEF IsDependencyMet
\* That one is done, so that its report does not count.
<1>19. Forward(c) \in done[e][r]
  BY <1>2, <1>11, <1>17, <1>18
<1>20. c \notin tracked
  BY <1>18, <1>19 DEF Quiet, Forward, tracked
<1>21. PICK p \in 1..(2 * k) : steps(r)[p] = Forward(c)
  BY <1>2, <1>18
<1>22. steps(r)[p + 1] \notin told[e][r]
  <2>1. p + 1 \in 1..Len(steps(r)) /\ p \in 1..((p + 1) - 1)
    BY <1>2, <1>3, <1>18, <1>21
  <2>2. Forward(c).mb = c
    BY DEF Forward
  <2> QED
    BY <1>5, <1>18, <1>20, <1>21, <2>1, <2>2 DEF InOrder
<1>23. p \in Lost(e, r)
  <2>1. p \in 0..(Len(steps(r)) - 1)
    BY <1>2, <1>3, <1>18, <1>21
  <2>2. p \in HeldBack(e, r)
    BY <1>19, <1>21, <1>22, <2>1 DEF HeldBack, steps
  <2>3. Forward(c).mb = c
    BY DEF Forward
  <2> QED
    BY <1>20, <1>21, <2>2, <2>3 DEF Lost, steps, tracked
<1> QED
  BY <1>18, <1>23

\* The schedules cannot deadlock: a training step at rest with steps left has one
\* that was not sent and waits for nothing, or a report that does not count.
THEOREM SchedulesDoNotDeadlock == Spec => []StallsOnlyWhenHeldBack
<1>1. OrderInv => StallsOnlyWhenHeldBack
  BY OrderStalls
<1> QED
  BY <1>1, StepsFollowSchedule, PTL
-----------------------------------------------------------------------------
(* Types *)

\* What is recorded of an execution is of its stages and tracked microbatches.
Records ==
  /\ numStages \in StageCounts
  /\ globalStep \in Nat
  /\ \A e \in Running :
       /\ execution[e].microbatches \in 1..MaxMicrobatches
       /\ execution[e].forward \subseteq Stages \X Tracked(execution[e])
       /\ execution[e].backward \subseteq Stages \X Tracked(execution[e])

TypeInv == OrderInv /\ Records

LEMMA TypeInvTypes == TypeInv => TypeOK
<1> SUFFICES ASSUME TypeInv PROVE TypeOK
  OBVIOUS
<1>1. ASSUME NEW e \in Executions, NEW s \in Stages
      PROVE  told[e][s] \subseteq Step /\ done[e][s] \subseteq Step
  <2> DEFINE steps == StepsOf(e, s)
             k == Planned(execution[e].strategy, execution[e].microbatches)
  <2>1. done[e][s] \subseteq told[e][s]
    BY DEF TypeInv, OrderInv, ToldInOrder
  <2>2. CASE execution[e] = None
    BY <2>1, <2>2 DEF TypeInv, OrderInv, ToldInOrder
  <2>3. CASE execution[e] # None
    <3>1. told[e][s] \subseteq {steps[i] : i \in 1..Len(steps)}
      BY <2>3 DEF TypeInv, OrderInv, ToldInOrder, InOrder
    <3>2. /\ k \in Nat /\ Len(steps) = 2 * k + 1 /\ steps[2 * k + 1] = SubmitGradients
          /\ \A i \in 1..(2 * k) : steps[i] \in Passes(k)
      BY <2>3, OwnSchedule DEF TypeInv, OrderInv
    <3> HIDE DEF steps, k
    <3>3. Passes(k) \subseteq Step /\ SubmitGradients \in Step
      BY <3>2 DEF Passes, Step
    <3>4. \A i \in 1..Len(steps) : steps[i] \in Step
      BY <3>2, <3>3
    <3> QED
      BY <2>1, <3>1, <3>4
  <2> QED
    BY <2>2, <2>3
<1>2. /\ told \in [Executions -> [Stages -> SUBSET Instruction]]
      /\ done \in [Executions -> [Stages -> SUBSET Instruction]]
      /\ \A e \in Executions : execution[e] # None => execution[e] \in Execution
  BY DEF TypeInv, OrderInv, IInv, Types, Running
<1>3. \A e \in Executions : told[e] \in [Stages -> SUBSET Step] /\ done[e] \in [Stages -> SUBSET Step]
  BY <1>1, <1>2
<1>4. \A e \in Executions : execution[e] # None =>
        /\ execution[e].strategy \in Strategies
        /\ execution[e].submitted \subseteq Stages
        /\ execution[e].status \in {"running", "complete"}
  BY <1>2 DEF Execution
<1> QED
  BY <1>3, <1>4 DEF TypeInv, Records, TypeOK, Running

LEMMA TypeStep == TypeInv /\ [Next]_pipelineVars => TypeInv'
<1> SUFFICES ASSUME TypeInv, [Next]_pipelineVars PROVE TypeInv'
  OBVIOUS
<1>1. OrderInv'
  BY OrderStep DEF TypeInv
<1>2. ASSUME numStages' = numStages, execution' = execution, globalStep' = globalStep PROVE Records'
  BY <1>2 DEF TypeInv, Records, Running, Stages, Tracked
<1>3. ASSUME NEW e \in Executions, NEW strategy \in Strategies, NEW m \in 1..MaxMicrobatches,
             StartTrainingStep(e, strategy, m)
      PROVE  Records'
  <2>1. /\ numStages' = numStages /\ globalStep' = globalStep
        /\ execution' = [execution EXCEPT ![e] =
             [strategy |-> strategy, microbatches |-> m, forward |-> {}, backward |-> {},
              submitted |-> {}, status |-> "running"]]
    BY <1>3 DEF StartTrainingStep
  <2>2. /\ execution'[e].microbatches = m
        /\ execution'[e].forward = {} /\ execution'[e].backward = {}
        /\ \A d \in Executions \ {e} : execution'[d] = execution[d]
    BY <2>1 DEF TypeInv, OrderInv, IInv, Types
  <2> QED
    BY <2>1, <2>2 DEF TypeInv, Records, Running, Stages, Tracked
<1>4. ASSUME NEW e \in Executions, NEW s \in Stages, NEW action, NEW mb,
             action \in {"forward", "backward", "submit_gradients"},
             ReportStepComplete(e, s, action, mb)
      PROVE  Records'
  <2> DEFINE x == Recorded(execution[e], s, action, mb)
  <2>1. /\ e \in Running /\ execution[e] \in Execution /\ mb \in Tracked(execution[e])
        /\ numStages' = numStages
    BY <1>4 DEF ReportStepComplete, TypeInv, OrderInv, IInv, Types, Running
  <2>2. /\ globalStep' \in Nat
        /\ \/ execution' = [execution EXCEPT ![e] = [x EXCEPT !.status = "complete"]]
           \/ execution' = [execution EXCEPT ![e] = x]
    <3>1. globalStep' = globalStep \/ globalStep' = globalStep + 1
      BY <1>4 DEF ReportStepComplete
    <3> QED
      BY <1>4, <3>1 DEF ReportStepComplete, TypeInv, Records
  <2>3. /\ x.microbatches = execution[e].microbatches
        /\ x.forward \subseteq execution[e].forward \cup {<<s, mb>>}
        /\ x.backward \subseteq execution[e].backward \cup {<<s, mb>>}
    BY <1>4, <2>1 DEF Recorded, Execution
  <2>4. LET y == [x EXCEPT !.status = "complete"]
        IN  y.microbatches = x.microbatches /\ y.forward = x.forward /\ y.backward = x.backward
    <3>1. x \in Execution
      <4>1. <<s, mb>> \in Stages \X Int
        BY <2>1 DEF Tracked
      <4> QED
        BY <1>4, <2>1, <4>1 DEF Recorded, Execution
    <3> QED
      BY <3>1 DEF Execution
  <2> HIDE DEF x
  <2>5. /\ execution'[e].microbatches = execution[e].microbatches
        /\ execution'[e].forward \subseteq execution[e].forward \cup {<<s, mb>>}
        /\ execution'[e].backward \subseteq execution[e].backward \cup {<<s, mb>>}
        /\ \A d \in Executions \ {e} : execution'[d] = execution[d]
    BY <2>2, <2>3, <2>4 DEF TypeInv, OrderInv, IInv, Types
  <2>6. Stages' = Stages /\ \A d \in Executions : Tracked(execution[d])' = Tracked(execution[d])
    BY <2>1, <2>5 DEF Stages, Tracked
  <2>7. <<s, mb>> \in Stages \X Tracked(execution[e])
    BY <2>1
  <2>8. ASSUME NEW d \in Running'
        PROVE  /\ execution'[d].microbatches \in 1..MaxMicrobatches
               /\ execution'[d].forward \subseteq Stages \X Tracked(execution[d])
               /\ execution'[d].backward \subseteq Stages \X Tracked(execution[d])
    <3>1. CASE d = e
      BY <2>1, <2>5, <2>7, <3>1 DEF TypeInv, Records
    <3>2. CASE d # e
      BY <2>5, <3>2 DEF TypeInv, Records, Running
    <3> QED
      BY <3>1, <3>2
  <2> QED
    BY <2>1, <2>2, <2>6, <2>8 DEF TypeInv, Records, Running
<1>5. ASSUME NEW e \in Executions, MinersWork(e) PROVE Records'
  <2>1. PICK s \in Stages : \E step \in told[e][s] : Execute(e, s, step) \/ Report(e, s, step)
    BY <1>5 DEF MinersWork
  <2>2. PICK step \in told[e][s] : Execute(e, s, step) \/ Report(e, s, step)
    BY <2>1
  <2>3. CASE Execute(e, s, step)
    BY <1>2, <2>3 DEF Execute, coordinatorVars
  <2>4. CASE Report(e, s, step)
    <3>1. step.action \in {"forward", "backward", "submit_gradients"}
      BY DEF TypeInv, OrderInv, IInv, Types, Instruction
    <3> QED
      BY <1>4, <2>4, <3>1 DEF Report
  <2> QED
    BY <2>2, <2>3, <2>4
<1>6. ASSUME UNCHANGED pipelineVars PROVE Records'
  BY <1>2, <1>6 DEF pipelineVars
<1> QED
  BY <1>1, <1>3, <1>5, <1>6 DEF Next, TypeInv

LEMMA TypeInvInit == Init => TypeInv
BY OrderInitInv DEF Init, TypeInv, Records, Running

\* The coordinator records passes of its own stages and microbatches only, and the
\* steps it sends are well formed.
THEOREM PipelineTypes == Spec => []TypeOK
<1>1. Init => TypeInv
  BY TypeInvInit
<1>2. TypeInv /\ [Next]_pipelineVars => TypeInv'
  BY TypeStep
<1>3. TypeInv => TypeOK
  BY TypeInvTypes
<1> QED
  BY <1>1, <1>2, <1>3, PTL DEF Spec
=============================================================================
