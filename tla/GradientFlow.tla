---------------------------- MODULE GradientFlow ----------------------------
(***************************************************************************)
(* What happens to a gradient (ws_handler.py, routers.py): the websocket   *)
(* handler and the REST endpoint both hand it to the parameter server      *)
(* first and to the task manager second.  The websocket handler ignores    *)
(* the task manager's answer, acknowledges over the socket (an await, in   *)
(* which every other handler runs) and then aggregates; the REST endpoint  *)
(* answers 400 when the task manager refuses, and leaves aggregation to    *)
(* another call.                                                           *)
(***************************************************************************)
EXTENDS TaskManager, ParamServer

VARIABLES
  acking,        \* miners whose websocket handler awaits its acknowledgement
  turnedDown     \* gradients whose sender the REST endpoint answered 400

handlers == <<acking, turnedDown>>
vars == <<taskVars, paramVars, handlers>>

TypeOK ==
  /\ TaskTypeOK
  /\ ParamTypeOK
  /\ acking \subseteq Miners
  /\ turnedDown \subseteq Gradient

Init ==
  /\ TaskInit
  /\ ParamInit
  /\ acking = {}
  /\ turnedDown = {}
-----------------------------------------------------------------------------
\* Calls that touch one of the two components only.  Nothing in the program
\* calls mark_verified or mark_rejected.
TaskCall ==
  /\ \/ \E m \in Miners : AssignTask(m)
     \/ \E t \in TaskIds : DeadlinePasses(t)
     \/ CreateTasks(1)
  /\ UNCHANGED <<paramVars, handlers>>

ParamCall ==
  /\ \/ \E m \in Miners : RegisterMiner(m) \/ HashMismatch(m)
     \/ Aggregate
  /\ UNCHANGED <<taskVars, handlers>>

\* submit_result, after the parameter server accepted.
Record(t, m) == IF Submittable(t, m) THEN SubmitResult(t) ELSE UNCHANGED taskVars

\* The websocket handler up to its acknowledgement; one at a time per miner.
WsSubmit(m, t, kind) ==
  /\ m \notin acking
  /\ ReceiveGradient(m, t, kind)
  /\ Record(t, m)
  /\ acking' = acking \cup {m}
  /\ UNCHANGED turnedDown

\* The acknowledgement is out: aggregate what is pending by now; nothing
\* changes when there is nothing to merge, or when the merge raises.
WsAcknowledged(m) ==
  /\ m \in acking
  /\ acking' = acking \ {m}
  /\ IF CanAggregate THEN Aggregate ELSE UNCHANGED paramVars
  /\ UNCHANGED <<taskVars, turnedDown>>

\* The socket is closed: the exception skips the aggregation.
WsAckFails(m) ==
  /\ m \in acking
  /\ acking' = acking \ {m}
  /\ UNCHANGED <<taskVars, paramVars, turnedDown>>

RestSubmit(m, t, kind) ==
  /\ ReceiveGradient(m, t, kind)
  /\ Record(t, m)
  /\ turnedDown' = turnedDown \cup (IF Submittable(t, m) THEN {} ELSE pending' \ pending)
  /\ UNCHANGED acking

Next ==
  \/ TaskCall
  \/ ParamCall
  \/ \E m \in Miners :
       \/ \E t \in TaskIds, kind \in Kinds :
            WsSubmit(m, t, kind) \/ RestSubmit(m, t, kind)
       \/ WsAcknowledged(m)
       \/ WsAckFails(m)

Spec == Init /\ [][Next]_vars
-----------------------------------------------------------------------------
\* A task counts as submitted only if the gradient of its own miner reached the
\* parameter server: recording comes second, and is refused to a former owner
\* whose task expired and went to somebody else meanwhile.
SubmittedWasReceived ==
  \A t \in TaskIds : task[t].status = "submitted" =>
    \E g \in pending \cup merged : g.task = t /\ g.miner = task[t].miner

\* What the 400 of the REST endpoint says, "Gradient submission rejected by task
\* manager": a gradient turned down has no part in the model.
TurnedDownIsNotMerged == turnedDown \cap merged = {}
=============================================================================
