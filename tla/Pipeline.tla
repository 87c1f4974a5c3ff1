------------------------------ MODULE Pipeline ------------------------------
(***************************************************************************)
(* The pipeline coordinator and its schedules (pipeline.py).  A training   *)
(* step splits a batch into microbatches; every stage has its own order of *)
(* forward and backward passes, and is told its next step when it reports  *)
(* the one before.  The miners, which are external, do what they are told  *)
(* as soon as they have the data, and report it once or several times, in  *)
(* any order.                                                              *)
(*                                                                         *)
(* clock_tick is left out: nothing reads it.                               *)
(***************************************************************************)
EXTENDS Integers, Sequences, FiniteSetsExt

CONSTANTS
  StageCounts,         \* lengths of pipelines
  Strategies,          \* subset of {"gpipe", "1f1b", "auto"}
  Executions,
  None,                \* an execution that has not begun
  MaxMicrobatches,     \* bound: microbatches of a training step
  MaxGlobalStep        \* bound: of the global step

ASSUME PipelineAssumption ==
  /\ StageCounts \subseteq Nat \ {0}
  /\ Strategies \subseteq {"gpipe", "1f1b", "auto"}

\* An execution that has not begun is told from every one that has.
ASSUME NoneAssumption ==
  None \notin [strategy : Strategies, microbatches : Nat, forward : SUBSET (Nat \X Int),
               backward : SUBSET (Nat \X Int), submitted : SUBSET Nat,
               status : {"running", "complete"}]

VARIABLES
  numStages,     \* num_stages
  execution,     \* executions by id: what the coordinator tracks
  globalStep,    \* global_step
  told,          \* for each execution and stage, the steps its miner was sent
  done           \* and those it has carried out

pipelineVars == <<numStages, execution, globalStep, told, done>>
coordinatorVars == <<numStages, execution, globalStep, told>>

Stages == 0..(numStages - 1)
-----------------------------------------------------------------------------
Forward(mb) == [action |-> "forward", mb |-> mb]
Backward(mb) == [action |-> "backward", mb |-> mb]
SubmitGradients == [action |-> "submit_gradients", mb |-> -1]

\* Mistake: the backward passes are counted down past zero.
GPipePastZero(m) ==
  [i \in 1..(2 * m) |-> IF i <= m THEN Forward(i - 1) ELSE Backward(2 * m - i - 1)]

\* generate_gpipe_schedule: all forward passes, then all backward in reverse.
GPipe(m) ==
  [i \in 1..(2 * m) |-> IF i <= m THEN Forward(i - 1) ELSE Backward(2 * m - i)]

\* Mistake: the deeper a stage, the longer it warms up.
WarmupByDepth(n, m, s) == Min({s, m})

\* Mistake: one forward pass too many before the first backward pass.
WarmupTooLong(n, m, s) == Min({n - s, m})

\* Forward passes of stage s, of n, before it begins to alternate.
Warmup(n, m, s) == Min({n - s - 1, m})

\* generate_1f1b_schedule: warm up, alternate, drain.
OneForwardOneBackward(n, m, s) ==
  LET w == Warmup(n, m, s)
      steady == 2 * (m - w)
  IN  [i \in 1..(2 * m) |->
         CASE i <= w                              -> Forward(i - 1)
           [] i > w + steady                      -> Backward(i - m - 1)
           [] i \in (w + 1)..(w + steady) /\ (i - w) % 2 = 1
                                                  -> Forward((i + w - 1) \div 2)
           [] OTHER                               -> Backward((i - w) \div 2 - 1)]

\* choose_schedule of one stage: all forward passes, then all backward.
SingleStage(m) ==
  [i \in 1..(2 * m) |-> IF i <= m THEN Forward(i - 1) ELSE Backward(i - m - 1)]

\* create_schedule: the steps of stage s.  Left to itself it makes a training
\* step of at least as many microbatches as there are stages.
StepsForStage(strategy, m, s) ==
  Append(CASE strategy = "gpipe"                   -> GPipe(m)
           [] strategy = "1f1b"                    -> OneForwardOneBackward(numStages, m, s)
           [] strategy = "auto" /\ numStages = 1   -> SingleStage(m)
           [] strategy = "auto" /\ numStages > 1   ->
                OneForwardOneBackward(numStages, Max({m, numStages}), s),
         SubmitGradients)

\* depends_on, as the stage whose step of the same microbatch it names.  The
\* schedule is generated stage by stage, and _find_step_index sees the stages
\* before s: it finds the forward pass above and never the backward pass below.
DependsOn(s, step) ==
  LET sought == CASE step.action = "forward"  -> s - 1
                  [] step.action = "backward" -> s + 1
                  [] OTHER                    -> s
  IN  {sought} \cap 0..(s - 1)
-----------------------------------------------------------------------------
Microbatches == 0..(MaxMicrobatches - 1)

Step == [action : {"forward", "backward"}, mb : Nat] \cup {SubmitGradients}

\* The execution as the coordinator sees it.  Only the microbatches the caller
\* asked for are tracked, which may be fewer than the schedule has.
Tracked(x) == 0..(x.microbatches - 1)

TypeOK ==
  /\ numStages \in StageCounts
  /\ \A e \in Executions :
       /\ told[e] \in [Stages -> SUBSET Step]
       /\ done[e] \in [Stages -> SUBSET Step]
       /\ execution[e] # None =>
            /\ execution[e].strategy \in Strategies
            /\ execution[e].microbatches \in 1..MaxMicrobatches
            /\ execution[e].forward \subseteq Stages \X Tracked(execution[e])
            /\ execution[e].backward \subseteq Stages \X Tracked(execution[e])
            /\ execution[e].submitted \subseteq Stages
            /\ execution[e].status \in {"running", "complete"}
  /\ globalStep \in Nat

Init ==
  /\ numStages \in StageCounts
  /\ execution = [e \in Executions |-> None]
  /\ globalStep = 0
  /\ told = [e \in Executions |-> [s \in Stages |-> {}]]
  /\ done = [e \in Executions |-> [s \in Stages |-> {}]]

StepsOf(e, s) == StepsForStage(execution[e].strategy, execution[e].microbatches, s)

\* start_training_step: every stage is told its first step, unless the notice
\* fails, which is logged and forgotten (_notify_miner).
StartTrainingStep(e, strategy, m) ==
  /\ execution[e] = None
  /\ execution' = [execution EXCEPT ![e] =
       [strategy |-> strategy, microbatches |-> m, forward |-> {}, backward |-> {},
        submitted |-> {}, status |-> "running"]]
  /\ \E reached \in SUBSET Stages :
       told' = [told EXCEPT ![e] = [s \in Stages |->
         IF s \in reached THEN {StepsForStage(strategy, m, s)[1]} ELSE {}]]
  /\ UNCHANGED <<numStages, globalStep, done>>
-----------------------------------------------------------------------------
\* A stage needs the activations from above for a forward pass, its own forward
\* pass and the gradient from below for a backward pass.
HasData(e, s, step) ==
  /\ step.action = "forward" /\ s > 0 => step \in done[e][s - 1]
  /\ step.action = "backward" =>
       /\ Forward(step.mb) \in done[e][s]
       /\ s < numStages - 1 => step \in done[e][s + 1]

\* The miner of stage s carries out a step.
Execute(e, s, step) ==
  /\ step \in told[e][s] \ done[e][s]
  /\ HasData(e, s, step)
  /\ done' = [done EXCEPT ![e][s] = @ \cup {step}]
  /\ UNCHANGED coordinatorVars

\* Mistake: a dependency is looked up by its stage alone.
IsDependencyMetByStage(x, t, step) == \E mb \in Tracked(x) : <<t, mb>> \in x.forward

\* _is_dependency_met, of the step of stage t.
IsDependencyMet(x, t, step) ==
  <<t, step.mb>> \in (IF step.action = "forward" THEN x.forward ELSE x.backward)

\* is_complete
IsComplete(x) ==
  /\ x.forward = Stages \X Tracked(x)
  /\ x.backward = Stages \X Tracked(x)
  /\ x.submitted = Stages

\* The report is recorded.
Recorded(x, s, action, mb) ==
  CASE action = "forward"          -> [x EXCEPT !.forward = @ \cup {<<s, mb>>}]
    [] action = "backward"         -> [x EXCEPT !.backward = @ \cup {<<s, mb>>}]
    [] action = "submit_gradients" -> [x EXCEPT !.submitted = @ \cup {s}]

\* Steps that follow the reported one in the schedule of the stage and whose
\* dependency is met: one at most.
NextSteps(e, s, reported, x) ==
  LET steps == StepsOf(e, s)
  IN  {steps[i + 1] : i \in
         {j \in 1..(Len(steps) - 1) :
            /\ steps[j] = reported
            /\ \A t \in DependsOn(s, steps[j + 1]) : IsDependencyMet(x, t, steps[j + 1])}}

\* report_step_complete.  A report on a microbatch that is not tracked changes
\* nothing: that of a submission, which the schedule gives the number -1, is one.
\* The next step is sent if its dependency is met, and dropped otherwise; it may
\* also fail to be sent, which nothing comes back to.  Only a
\* report that names no step of the schedule comes to the check of completeness:
\* every forward and backward pass has a next step.
ReportStepComplete(e, s, action, mb) ==
  /\ execution[e] # None
  /\ mb \in Tracked(execution[e])
  /\ LET x == Recorded(execution[e], s, action, mb)
     IN  /\ \E sent \in SUBSET NextSteps(e, s, [action |-> action, mb |-> mb], x) :
              told' = [told EXCEPT ![e][s] = @ \cup sent]
         /\ IF action = "submit_gradients" /\ IsComplete(x)
            THEN /\ globalStep < MaxGlobalStep
                 /\ execution' = [execution EXCEPT ![e] = [x EXCEPT !.status = "complete"]]
                 /\ globalStep' = globalStep + 1
            ELSE /\ execution' = [execution EXCEPT ![e] = x]
                 /\ UNCHANGED globalStep
  /\ UNCHANGED <<numStages, done>>

\* A miner reports a step as it was given, once or again; a submission also
\* under a microbatch of its own choice.
Report(e, s, step) ==
  /\ step \in done[e][s]
  /\ \E mb \in IF step = SubmitGradients THEN Microbatches ELSE {step.mb} :
       ReportStepComplete(e, s, step.action, mb)

MinersWork(e) ==
  \E s \in Stages : \E step \in told[e][s] : Execute(e, s, step) \/ Report(e, s, step)

Next ==
  \E e \in Executions :
    \/ \E strategy \in Strategies, m \in 1..MaxMicrobatches :
         StartTrainingStep(e, strategy, m)
    \/ MinersWork(e)

Spec == Init /\ [][Next]_pipelineVars
-----------------------------------------------------------------------------
Running == {e \in Executions : execution[e] # None}

\* No stage but the first is sent a forward pass, apart from the first of all,
\* before the stage above has reported that of the same microbatch.
NoForwardBeforeUpstream ==
  \A e \in Running, s \in Stages : \A step \in told[e][s] :
    s > 0 /\ step.action = "forward" /\ step.mb > 0
      => <<s - 1, step.mb>> \in execution[e].forward

\* 1F1B holds the activations of no more microbatches than there are stages from
\* this one to the last ("Peak activation memory: num_stages activations").
InFlight(e, s) ==
  {step \in done[e][s] : step.action = "forward" /\ Backward(step.mb) \notin done[e][s]}

PeakActivations ==
  \A e \in Running, s \in Stages :
    execution[e].strategy = "1f1b" => Cardinality(InFlight(e, s)) <= numStages - s

\* Every stage has come to its submission.
Finished(e) == \A s \in Stages : SubmitGradients \in done[e][s]

\* Everything that was sent and can be done is done and reported.
Quiet(e) ==
  \A s \in Stages :
    /\ \A step \in told[e][s] \ done[e][s] : ~HasData(e, s, step)
    /\ \A step \in done[e][s] :
         /\ step.action = "forward" /\ step.mb \in Tracked(execution[e])
              => <<s, step.mb>> \in execution[e].forward
         /\ step.action = "backward" /\ step.mb \in Tracked(execution[e])
              => <<s, step.mb>> \in execution[e].backward

\* Positions a stage has come to, 0 at first, without having been sent the next
\* step.
HeldBack(e, s) ==
  LET steps == StepsOf(e, s)
  IN  {i \in 0..(Len(steps) - 1) :
         /\ i > 0 => steps[i] \in done[e][s]
         /\ steps[i + 1] \notin told[e][s]}

\* Those where nothing is left to wait for: the next step might be sent, but only
\* another report of this stage would send it; or no report of the step counts.
Lost(e, s) ==
  {i \in HeldBack(e, s) :
     \/ i = 0
     \/ StepsOf(e, s)[i].mb \notin Tracked(execution[e])
     \/ \A t \in DependsOn(s, StepsOf(e, s)[i + 1]) :
          IsDependencyMet(execution[e], t, StepsOf(e, s)[i + 1])}

\* The schedules cannot deadlock on their data: a training step that has come to
\* rest with steps left waits for a step whose notice failed, for one that was held
\* back and whose dependency has been met since, or for the report of a microbatch
\* nobody tracks.
StallsOnlyWhenHeldBack ==
  \A e \in Running : Quiet(e) /\ ~Finished(e) => \E s \in Stages : Lost(e, s) # {}

\* Positions of a stage whose step was reported while the dependency of the next
\* was not met, so that the next was not sent.
Dropped(e, s) ==
  LET steps == StepsOf(e, s)
      x == execution[e]
  IN  {i \in 1..(Len(steps) - 1) :
         /\ <<s, steps[i].mb>> \in (IF steps[i].action = "forward" THEN x.forward ELSE x.backward)
         /\ steps[i + 1] \notin told[e][s]
         /\ \E t \in DependsOn(s, steps[i + 1]) : ~IsDependencyMet(x, t, steps[i + 1])}

\* "Dependency not met -- will be triggered when upstream completes": the report
\* that meets the dependency of such a step gets it sent.
HeldBackIsTriggered ==
  [][\A e \in Running, s \in Stages : \A i \in Dropped(e, s) :
       LET next == StepsOf(e, s)[i + 1]
       IN  (\A t \in DependsOn(s, next) : IsDependencyMet(execution'[e], t, next))
             => next \in told'[e][s]]_pipelineVars
=============================================================================
