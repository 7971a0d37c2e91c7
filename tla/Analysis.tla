------------------------------ MODULE Analysis ------------------------------
(***************************************************************************)
(* One run of run_intelligence_worker: the LangGraph of app/graph/graph.py *)
(* (agent and tools, reporting, gatekeeper), and what is written and sent  *)
(* of its outcome.  Consumer takes all of the graph as one step, Analyse.  *)
(*                                                                         *)
(* Of a report only the verdicts it spells are kept, each "exact" as the   *)
(* gatekeeper looks for it ("SIGNAL: BUY") or "cased" otherwise            *)
(* ("Signal: Buy"), which only the worker's upper() finds.                 *)
(***************************************************************************)
EXTENDS Naturals

CONSTANTS
    Texts,            \* what a model may answer: sets of marks
    RecursionLimit    \* LangGraph's: steps before it raises

Verdicts == {"BUY", "SELL", "HOLD", "INVALID"}
GraphNodes == {"agent", "tools", "reporting", "gatekeeper"}
Marks == Verdicts \X {"exact", "cased"}

ASSUME AnalysisAssumption ==
    /\ Texts \subseteq SUBSET Marks
    /\ RecursionLimit \in Nat

VARIABLES
    node,         \* the node to run next, then the worker's own steps
    message,      \* marks in the last message
    report,       \* analysis_report
    retry,        \* retry_count
    steps,        \* steps LangGraph has made
    rounds,       \* history: rounds through the tools
    signal,       \* signal of the completed payload
    jobKey,       \* status under the job's key
    frame         \* status of the last frame sent to the sockets

analysisVars == <<node, message, report, retry, steps, rounds,
                  signal, jobKey, frame>>
graphVars == <<message, report, retry, steps, rounds>>
resultVars == <<signal, jobKey, frame>>

AnalysisTypeOK ==
    /\ node \in GraphNodes \cup {"end", "index", "announce", "except",
                                 "diagnose", "done", "raised"}
    /\ message \subseteq Marks
    /\ report \subseteq Marks
    /\ retry \in 0..2
    /\ steps \in 0..RecursionLimit
    /\ rounds \in 0..RecursionLimit
    /\ signal \in Verdicts \cup {"none"}
    /\ jobKey \in {"processing", "completed", "failed"}
    /\ frame \in {"none", "completed", "failed"}

AnalysisInit ==
    /\ node = "agent"
    /\ message = {}
    /\ report = {}
    /\ retry = 0
    /\ steps = 0
    /\ rounds = 0
    /\ signal = "none"
    /\ jobKey = "processing"
    /\ frame = "none"

-----------------------------------------------------------------------------
(* The graph                                                               *)

\* LangGraph runs node n and goes on to m.
Step(n, m) ==
    /\ node = n
    /\ steps < RecursionLimit
    /\ steps' = steps + 1
    /\ node' = m
    /\ UNCHANGED resultVars

\* A model calls tools, or answers; the models tried in turn differ in
\* nothing that is kept.
AgentCallsTools ==
    /\ Step("agent", "tools")
    /\ message' = {}
    /\ UNCHANGED <<report, retry, rounds>>

AgentAnswers ==
    /\ Step("agent", "reporting")
    /\ message' \in Texts
    /\ UNCHANGED <<report, retry, rounds>>

\* No model is left: the report is made of the indicators.
AgentFallsBack ==
    /\ Step("agent", "reporting")
    /\ \E v \in {"BUY", "SELL", "HOLD"} : message' = {<<v, "exact">>}
    /\ UNCHANGED <<report, retry, rounds>>

Tools ==
    /\ Step("tools", "agent")
    /\ rounds' = rounds + 1
    /\ UNCHANGED <<message, report, retry>>

Reporting ==
    /\ Step("reporting", "gatekeeper")
    /\ report' = message
    /\ UNCHANGED <<message, retry, rounds>>

\* A second answer without a verdict is not sent back.
LastAttempt == retry + 1 >= 2

ValidSchema == \E v \in Verdicts : <<v, "exact">> \in report

Accept ==
    /\ Step("gatekeeper", "end")
    /\ ValidSchema
    /\ retry' = retry + 1
    /\ UNCHANGED <<message, report, rounds>>

\* Mutant: the report is let through as it is
GiveUp ==
    /\ Step("gatekeeper", "end")
    /\ ~ValidSchema
    /\ LastAttempt
    /\ retry' = retry + 1
    /\ UNCHANGED <<message, report, rounds>>

DefaultToHold ==
    /\ Step("gatekeeper", "end")
    /\ ~ValidSchema
    /\ LastAttempt
    /\ retry' = retry + 1
    /\ report' = report \cup {<<"HOLD", "exact">>}
    /\ UNCHANGED <<message, rounds>>

\* Mutant: the attempt is not counted
RejectUncounted ==
    /\ Step("gatekeeper", "agent")
    /\ ~ValidSchema
    /\ ~LastAttempt
    /\ message' = {}
    /\ UNCHANGED <<report, retry, rounds>>

\* The feedback becomes the last message until the agent answers it.
Reject ==
    /\ Step("gatekeeper", "agent")
    /\ ~ValidSchema
    /\ ~LastAttempt
    /\ retry' = retry + 1
    /\ message' = {}
    /\ UNCHANGED <<report, rounds>>

\* GraphRecursionError
OutOfSteps ==
    /\ node \in GraphNodes
    /\ steps = RecursionLimit
    /\ node' = "except"
    /\ UNCHANGED <<graphVars, resultVars>>

\* A node raises, as the agent does on indicators it cannot read.
NodeRaises ==
    /\ node \in {"agent", "tools"}
    /\ steps < RecursionLimit
    /\ node' = "except"
    /\ UNCHANGED <<graphVars, resultVars>>

-----------------------------------------------------------------------------
(* run_intelligence_worker                                                 *)

Spelled(v) == \E c \in {"exact", "cased"} : <<v, c>> \in report

Extracted ==
    CASE Spelled("BUY")  -> "BUY"
      [] ~Spelled("BUY") /\ Spelled("SELL") -> "SELL"
      [] ~Spelled("BUY") /\ ~Spelled("SELL") /\ Spelled("HOLD") -> "HOLD"
      [] OTHER -> "INVALID"

SetCompleted ==
    /\ node = "end"
    /\ signal' = Extracted
    /\ jobKey' = "completed"
    /\ node' = "index"
    /\ UNCHANGED <<graphVars, frame>>

\* Redis fails, before the SET is executed or after
SetRaises ==
    /\ node = "end"
    /\ \/ UNCHANGED <<signal, jobKey>>
       \/ signal' = Extracted /\ jobKey' = "completed"
    /\ node' = "except"
    /\ UNCHANGED <<graphVars, frame>>

\* Audit index, trace and write-through
Index ==
    /\ node = "index"
    /\ node' \in {"announce", "except"}
    /\ UNCHANGED <<graphVars, resultVars>>

\* Personal message, broadcast and webhooks: what fails here is caught.
AnnounceCompleted ==
    /\ node = "announce"
    /\ frame' = "completed"
    /\ node' = "done"
    /\ UNCHANGED <<graphVars, signal, jobKey>>

\* Mutant: the failure is announced before it is written
RecoverAnnouncing ==
    /\ node = "except"
    /\ frame' = "failed"
    /\ \/ jobKey' = "failed" /\ node' = "done"
       \/ UNCHANGED jobKey /\ node' = "raised"
    /\ UNCHANGED <<graphVars, signal>>

\* The except branch: SET of the failure, whatever the key held
Recover ==
    /\ node = "except"
    /\ \/ jobKey' = "failed" /\ node' = "diagnose"
       \/ jobKey' \in {jobKey, "failed"} /\ node' = "raised"
    /\ UNCHANGED <<graphVars, signal, frame>>

\* ZADD, which may raise out of the worker, then the frames
Diagnose ==
    /\ node = "diagnose"
    /\ \/ frame' = "failed" /\ node' = "done"
       \/ UNCHANGED frame /\ node' = "raised"
    /\ UNCHANGED <<graphVars, signal, jobKey>>

AnalysisNext ==
    \/ AgentCallsTools \/ AgentAnswers \/ AgentFallsBack \/ Tools \/ Reporting
    \/ Accept \/ DefaultToHold \/ Reject \/ OutOfSteps \/ NodeRaises
    \/ SetCompleted \/ SetRaises \/ Index \/ AnnounceCompleted
    \/ Recover \/ Diagnose

AnalysisSpec == AnalysisInit /\ [][AnalysisNext]_analysisVars

-----------------------------------------------------------------------------
(* Properties.                                                             *)

\* The gatekeeper and the worker look for the verdict in different ways;
\* still a job is completed as INVALID only when a model said so itself.
InvalidIsTheModels ==
    signal = "INVALID" => <<"INVALID", "exact">> \in report

\* Rejected answers do not use up LangGraph's steps: a run still in the graph
\* has made fewer than six of them apart from its rounds through the tools,
\* so only a model that calls tools over and over is stopped by the limit.
StepsSuffice == node \in GraphNodes => steps < 2 * rounds + 6

\* Whatever fails after the key was written: clients that saw a frame find
\* the same outcome under the key.
LastFrameAgrees == frame # "none" => frame = jobKey

\* The run as WorkerRun sees it: the key, not the node, tells whether a run
\* that fails had concluded its job.
Promise == INSTANCE WorkerRun WITH
    phase <- CASE node \in GraphNodes \cup {"end"} -> "running"
               [] node \in {"index", "announce", "diagnose"} -> "concluded"
               [] node = "except" ->
                    IF jobKey = "processing" THEN "running" ELSE "concluded"
               [] node = "done" -> "told"
               [] node = "raised" -> "escaped",
    key   <- jobKey,
    told  <- frame

\* Through rejected reports, exhausted steps and calls that fail anywhere,
\* the worker keeps its promise: a success is taken back only before anyone
\* was told of it, a failure never, and the one frame is the last word.
ImplementsWorkerRun == Promise!Spec
=============================================================================
