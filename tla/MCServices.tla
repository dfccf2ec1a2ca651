------------------------------ MODULE MCServices ------------------------------
(***************************************************************************)
(* Four services that share no variable, checked in one run: "focus" names *)
(* the one that a behaviour is about; the others stay where they begin.    *)
(***************************************************************************)
EXTENDS ThreadGoal, ReviewWorkflow, ControlLane, TurnRecord

VARIABLE focus
servicesVars == <<focus, goalVars, reviewVars, laneVars, recordVars>>

\* Where a choice of another service would only repeat the behaviours, it is made once.
ServicesInit ==
  /\ focus \in {"goal", "review", "lane", "record"}
  /\ GoalInit /\ ReviewInit /\ LaneInit /\ RecordInit
  /\ focus # "goal" => ~workflow.configured /\ workflow.action = "clear"
  /\ focus # "review" => ~reviewCase.given /\ ~reviewCase.inline
  /\ focus # "lane" => mode = "client"
  /\ focus # "record" => hooks

ServicesNext ==
  \/ focus = "goal" /\ GoalNext /\ UNCHANGED <<focus, reviewVars, laneVars, recordVars>>
  \/ focus = "review" /\ ReviewNext /\ UNCHANGED <<focus, goalVars, laneVars, recordVars>>
  \/ focus = "lane" /\ LaneNext /\ UNCHANGED <<focus, goalVars, reviewVars, recordVars>>
  \/ focus = "record" /\ RecordNext /\ UNCHANGED <<focus, goalVars, reviewVars, laneVars>>

\* The fairness of each service, for the one in focus.
ServicesSpec ==
  /\ ServicesInit /\ [][ServicesNext]_servicesVars
  /\ \A t \in Syncs : WF_goalVars(focus = "goal" /\ (SyncBegins(t) \/ Serve(t) \/ Reply(t)))
  /\ WF_reviewVars(focus = "review" /\ Executes)
  /\ WF_reviewVars(focus = "review" /\ (TurnEnds \/ ReviewAnswered))
  /\ WF_reviewVars(focus = "review" /\ (StatusCallReads(TRUE) \/ StatusCallWrites))
  /\ \A c \in Commands : /\ WF_laneVars(focus = "lane" /\ LaneSteps(c))
                         /\ WF_laneVars(focus = "lane" /\ PollCompaction(c))
  /\ WF_laneVars(focus = "lane" /\ OwnerStarts)
  /\ WF_recordVars(focus = "record" /\ OwnerWorks)
  /\ WF_recordVars(focus = "record" /\ PollReads)
  /\ WF_recordVars(focus = "record" /\ PollStores)
=============================================================================
