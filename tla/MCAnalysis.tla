------------------------------ MODULE MCAnalysis ------------------------------
(* The analysis: its clock with the task queue, and what a task does.  A task*)
(* of the queue is one cycle; each is checked with the other at rest.        *)
EXTENDS HeartbeatScheduler, AiPipeline, TLC

CONSTANTS first, second, fast, slow

MCParams == <<first, second>>
MCNames == <<fast, slow>>
MCBounds == [p \in {fast, slow} |-> [max_delta |-> 1, hard_min |-> 1, hard_max |-> 3]]

\* Within the bounds or, like the slow average, above them.
MCConfigured ==
  [s \in {first, second} |-> [p \in {fast, slow} |-> IF p = slow THEN 4 ELSE IF s = first THEN 1 ELSE 2]]

\* One delta left out, one too large.
MCAnswers == {fast :> 2, (fast :> -1 @@ slow :> 2)}

VARIABLE part  \* the component that runs: "clock" or "cycle"

BothInit ==
  /\ SchedulerInit
  /\ AnalysisInit
  /\ part \in {"clock", "cycle"}
  /\ (provider = "newsapi") <=> (backend = "openai")
  /\ part = "clock" => backend = "openai"

BothNext ==
  \/ part = "clock" /\ SchedulerNext /\ UNCHANGED <<pipelineVars, part>>
  \/ part = "cycle" /\ AnalysisNext /\ UNCHANGED <<schedulerVars, part>>

\* The fairness of both: see FairSchedulerSpec and AnalysisSpec.
BothSpec ==
  /\ BothInit /\ [][BothNext]_<<schedulerVars, pipelineVars, part>>
  /\ WF_schedulerVars(part = "clock" /\ workerLoop /\ UNCHANGED <<schedulerState, pipelineVars, part>>)
  /\ \A c \in Callers :
       WF_schedulerVars(part = "clock" /\ continueCall(c)
                          /\ UNCHANGED <<schedulerState, pipelineVars, part>>)
  /\ WF_pipelineVars(part = "cycle" /\ continueCycle /\ UNCHANGED <<schedulerVars, part>>)
=============================================================================
