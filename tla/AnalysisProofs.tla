--------------------------- MODULE AnalysisProofs ---------------------------
(***************************************************************************)
(* Proofs about Analysis, for every set of answers a model may give and    *)
(* every recursion limit, and about CompositeSignal and SignalSnapshots.   *)
(***************************************************************************)
EXTENDS Analysis, CompositeSignal, SignalSnapshots, TLAPS

\* LangGraph's steps follow from the rounds through the tools, the attempts
\* that were rejected and the node to run next.
StepsAccounted ==
    /\ node = "agent" => steps = 2 * rounds + 3 * retry /\ retry <= 1
    /\ node = "tools" => steps = 2 * rounds + 3 * retry + 1 /\ retry <= 1
    /\ node = "reporting" => steps = 2 * rounds + 3 * retry + 1 /\ retry <= 1
    /\ node = "gatekeeper" => steps = 2 * rounds + 3 * retry + 2 /\ retry <= 1

\* The graph ends with a report that spells a verdict exactly, and only then
\* is there a signal.
ReportIsChecked ==
    /\ node = "end" => ValidSchema
    /\ node \in GraphNodes \cup {"end"} => signal = "none"

\* What the key holds when a frame is about to be sent, and no frame before
\* the last step.
FrameComesLast ==
    /\ node \in {"index", "announce"} => jobKey = "completed"
    /\ node = "diagnose" => jobKey = "failed"
    /\ frame # "none" => node = "done"

AnalysisIInv ==
    /\ AnalysisTypeOK
    /\ StepsAccounted
    /\ ReportIsChecked
    /\ InvalidIsTheModels
    /\ FrameComesLast
    /\ LastFrameAgrees

\* The invariant holds before the first step.
LEMMA InitAnalysisIInv == AnalysisInit => AnalysisIInv
BY AnalysisAssumption
   DEF AnalysisInit, AnalysisIInv, AnalysisTypeOK, GraphNodes, Marks, Verdicts,
       StepsAccounted, ReportIsChecked, InvalidIsTheModels, FrameComesLast,
       LastFrameAgrees

\* A verdict is extracted in any case, and INVALID only when no other one is
\* spelled.
LEMMA ExtractedVerdict ==
    /\ Extracted \in Verdicts
    /\ Extracted = "INVALID" =>
          /\ ~Spelled("BUY") /\ ~Spelled("SELL") /\ ~Spelled("HOLD")
<1>1. CASE Spelled("BUY")
  BY <1>1 DEF Extracted, Verdicts
<1>2. CASE ~Spelled("BUY") /\ Spelled("SELL")
  BY <1>2 DEF Extracted, Verdicts
<1>3. CASE ~Spelled("BUY") /\ ~Spelled("SELL") /\ Spelled("HOLD")
  BY <1>3 DEF Extracted, Verdicts
<1>4. CASE ~Spelled("BUY") /\ ~Spelled("SELL") /\ ~Spelled("HOLD")
  BY <1>4 DEF Extracted, Verdicts
<1>. QED
  BY <1>1, <1>2, <1>3, <1>4

\* A report with a verdict is completed as INVALID only if it says so.
LEMMA InvalidIsSpelled ==
    ASSUME ValidSchema, Extracted = "INVALID"
    PROVE  <<"INVALID", "exact">> \in report
BY ExtractedVerdict DEF ValidSchema, Verdicts, Spelled

\* The steps of the graph.
LEMMA GraphKeeps ==
    ASSUME AnalysisIInv,
           \/ AgentCallsTools \/ AgentAnswers \/ AgentFallsBack \/ Tools
           \/ Reporting \/ Accept \/ DefaultToHold \/ Reject
    PROVE  AnalysisIInv'
<1> USE AnalysisAssumption DEF AnalysisIInv
<1>1. /\ node \in GraphNodes /\ node' \in GraphNodes \cup {"end"}
      /\ steps < RecursionLimit /\ steps' = steps + 1
      /\ UNCHANGED <<signal, jobKey, frame>>
  BY DEF AgentCallsTools, AgentAnswers, AgentFallsBack, Tools, Reporting,
     Accept, DefaultToHold, Reject, Step, GraphNodes, resultVars
<1>2. steps \in Nat /\ rounds \in Nat /\ retry \in Nat
  BY DEF AnalysisTypeOK
<1>3. message' \subseteq Marks /\ report' \subseteq Marks
  BY DEF AgentCallsTools, AgentAnswers, AgentFallsBack, Tools, Reporting,
     Accept, DefaultToHold, Reject, Marks, Verdicts, AnalysisTypeOK
<1>4. StepsAccounted' /\ retry' \in 0..2 /\ rounds' \in 0..RecursionLimit
  <2>1. CASE AgentCallsTools \/ AgentAnswers \/ AgentFallsBack
    BY <1>2, <2>1 DEF AgentCallsTools, AgentAnswers, AgentFallsBack, Step,
       StepsAccounted, AnalysisTypeOK
  <2>2. CASE Tools
    BY <1>2, <2>2 DEF Tools, Step, StepsAccounted, AnalysisTypeOK
  <2>3. CASE Reporting
    BY <1>2, <2>3 DEF Reporting, Step, StepsAccounted, AnalysisTypeOK
  <2>4. CASE Accept \/ DefaultToHold
    BY <1>2, <2>4 DEF Accept, DefaultToHold, Step, StepsAccounted, AnalysisTypeOK
  <2>5. CASE Reject
    BY <1>2, <2>5 DEF Reject, LastAttempt, Step, StepsAccounted, AnalysisTypeOK
  <2>. QED
    BY <2>1, <2>2, <2>3, <2>4, <2>5
<1>5. AnalysisTypeOK'
  BY <1>1, <1>3, <1>4 DEF AnalysisTypeOK
<1>6. ReportIsChecked'
  <2>1. node' = "end" => ValidSchema'
    BY DEF AgentCallsTools, AgentAnswers, AgentFallsBack, Tools, Reporting,
       Accept, DefaultToHold, Reject, Step, ValidSchema, Verdicts
  <2>. QED
    BY <1>1, <2>1 DEF ReportIsChecked
<1>7. InvalidIsTheModels' /\ FrameComesLast' /\ LastFrameAgrees'
  BY <1>1 DEF InvalidIsTheModels, FrameComesLast, LastFrameAgrees,
     ReportIsChecked, GraphNodes
<1>. QED
  BY <1>4, <1>5, <1>6, <1>7

\* The steps of the worker, which leave the report as it is.
LEMMA WorkerKeeps ==
    ASSUME AnalysisIInv,
           \/ OutOfSteps \/ NodeRaises \/ SetCompleted \/ SetRaises \/ Index
           \/ AnnounceCompleted \/ Recover \/ Diagnose
    PROVE  AnalysisIInv'
<1> USE DEF AnalysisIInv
<1>1. UNCHANGED <<message, report, retry, steps, rounds>>
  BY DEF OutOfSteps, NodeRaises, SetCompleted, SetRaises, Index,
     AnnounceCompleted, Recover, Diagnose, graphVars
<1>2. node' \in {"index", "announce", "except", "diagnose", "done", "raised"}
  BY DEF OutOfSteps, NodeRaises, SetCompleted, SetRaises, Index,
     AnnounceCompleted, Recover, Diagnose
<1>3. /\ signal' \in {signal, Extracted}
      /\ signal' # signal => ValidSchema
  BY DEF OutOfSteps, NodeRaises, SetCompleted, SetRaises, Index, ReportIsChecked,
     AnnounceCompleted, Recover, Diagnose, resultVars
<1>4. /\ jobKey' \in {jobKey, "completed", "failed"}
      /\ frame' \in {frame, "completed", "failed"}
  BY DEF OutOfSteps, NodeRaises, SetCompleted, SetRaises, Index,
     AnnounceCompleted, Recover, Diagnose, resultVars
<1>5. AnalysisTypeOK'
  BY <1>1, <1>2, <1>3, <1>4, ExtractedVerdict DEF AnalysisTypeOK
<1>6. StepsAccounted' /\ ReportIsChecked'
  BY <1>2 DEF StepsAccounted, ReportIsChecked, GraphNodes
<1>7. InvalidIsTheModels'
  BY <1>1, <1>3, InvalidIsSpelled DEF InvalidIsTheModels
<1>8. FrameComesLast' /\ LastFrameAgrees'
  <2>1. CASE OutOfSteps \/ NodeRaises
    BY <2>1 DEF OutOfSteps, NodeRaises, resultVars, FrameComesLast,
       LastFrameAgrees, GraphNodes
  <2>2. CASE SetCompleted \/ SetRaises \/ Index
    BY <2>2 DEF SetCompleted, SetRaises, Index, resultVars, FrameComesLast,
       LastFrameAgrees
  <2>3. CASE AnnounceCompleted \/ Recover \/ Diagnose
    BY <2>3 DEF AnnounceCompleted, Recover, Diagnose, FrameComesLast,
       LastFrameAgrees
  <2>. QED
    BY <2>1, <2>2, <2>3
<1>. QED
  BY <1>5, <1>6, <1>7, <1>8

\* Every step keeps the invariant.
LEMMA AnalysisInductive == AnalysisIInv /\ [AnalysisNext]_analysisVars => AnalysisIInv'
<1> SUFFICES ASSUME AnalysisIInv, [AnalysisNext]_analysisVars PROVE AnalysisIInv'
  OBVIOUS
<1>1. CASE UNCHANGED analysisVars
  BY <1>1 DEF analysisVars, AnalysisIInv, AnalysisTypeOK, StepsAccounted,
     ReportIsChecked, ValidSchema, InvalidIsTheModels, FrameComesLast,
     LastFrameAgrees
<1>. QED
  BY <1>1, GraphKeeps, WorkerKeeps DEF AnalysisNext

\* The invariant holds throughout.
LEMMA AnalysisInvariant == AnalysisSpec => []AnalysisIInv
BY InitAnalysisIInv, AnalysisInductive, PTL DEF AnalysisSpec

\* The counters of the graph stay within its limits, and the rest is well
\* formed.
THEOREM AnalysisTyped == AnalysisSpec => []AnalysisTypeOK
<1>1. AnalysisIInv => AnalysisTypeOK
  BY DEF AnalysisIInv
<1>. QED
  BY <1>1, AnalysisInvariant, PTL

\* No job is completed as INVALID unless the model's report says INVALID.
THEOREM InvalidIsSaid == AnalysisSpec => []InvalidIsTheModels
<1>1. AnalysisIInv => InvalidIsTheModels
  BY DEF AnalysisIInv
<1>. QED
  BY <1>1, AnalysisInvariant, PTL

\* Whatever the limit is, a run that makes fewer rounds through the tools
\* than half of it less three is not stopped by it.
THEOREM StepsAlwaysSuffice == AnalysisSpec => []StepsSuffice
<1>1. AnalysisIInv => StepsSuffice
  BY DEF AnalysisIInv, StepsAccounted, StepsSuffice, AnalysisTypeOK, GraphNodes
<1>. QED
  BY <1>1, AnalysisInvariant, PTL

\* The last frame sent to the clients tells what the job's key holds.
THEOREM FramesAgree == AnalysisSpec => []LastFrameAgrees
<1>1. AnalysisIInv => LastFrameAgrees
  BY DEF AnalysisIInv
<1>. QED
  BY <1>1, AnalysisInvariant, PTL

-----------------------------------------------------------------------------
(* Refinement.                                                             *)

\* Nothing is written before the graph ends, and who meets an exception has
\* written a success or nothing.
KeyFollowsNode ==
    /\ node \in GraphNodes \cup {"end"} => jobKey = "processing"
    /\ node \in {"index", "announce"} => jobKey = "completed"
    /\ node = "except" => jobKey \in {"processing", "completed"}
    /\ node = "diagnose" => jobKey = "failed"

\* Every step keeps it so.
LEMMA KeyFollowsNodeInductive ==
    KeyFollowsNode /\ [AnalysisNext]_analysisVars => KeyFollowsNode'
<1> SUFFICES ASSUME KeyFollowsNode, [AnalysisNext]_analysisVars
             PROVE  KeyFollowsNode'
  OBVIOUS
<1> USE DEF KeyFollowsNode
<1>1. CASE \/ AgentCallsTools \/ AgentAnswers \/ AgentFallsBack \/ Tools
           \/ Reporting \/ Accept \/ DefaultToHold \/ Reject
  BY <1>1 DEF AgentCallsTools, AgentAnswers, AgentFallsBack, Tools, Reporting,
     Accept, DefaultToHold, Reject, Step, GraphNodes, resultVars
<1>2. CASE OutOfSteps \/ NodeRaises \/ SetCompleted \/ SetRaises
  BY <1>2 DEF OutOfSteps, NodeRaises, SetCompleted, SetRaises, GraphNodes,
     resultVars
<1>3. CASE Index \/ AnnounceCompleted \/ Recover \/ Diagnose
  BY <1>3 DEF Index, AnnounceCompleted, Recover, Diagnose, GraphNodes, resultVars
<1>4. CASE UNCHANGED analysisVars
  BY <1>4 DEF analysisVars
<1>. QED
  BY <1>1, <1>2, <1>3, <1>4 DEF AnalysisNext

\* The phase WorkerRun is in, by the node.
Phase ==
    CASE node \in GraphNodes \cup {"end"} -> "running"
      [] node \in {"index", "announce", "diagnose"} -> "concluded"
      [] node = "except" ->
           IF jobKey = "processing" THEN "running" ELSE "concluded"
      [] node = "done" -> "told"
      [] node = "raised" -> "escaped"

\* No two of its cases overlap.
LEMMA PhaseByNode ==
    /\ node \in GraphNodes \cup {"end"} => Phase = "running"
    /\ node \in {"index", "announce", "diagnose"} => Phase = "concluded"
    /\ node = "except" /\ jobKey = "processing" => Phase = "running"
    /\ node = "except" /\ jobKey # "processing" => Phase = "concluded"
    /\ node = "done" => Phase = "told"
    /\ node = "raised" => Phase = "escaped"
BY DEF Phase, GraphNodes

\* ... after a step as before it.
LEMMA PhaseByNodeNext ==
    /\ node' \in GraphNodes \cup {"end"} => Phase' = "running"
    /\ node' \in {"index", "announce", "diagnose"} => Phase' = "concluded"
    /\ node' = "except" /\ jobKey' = "processing" => Phase' = "running"
    /\ node' = "except" /\ jobKey' # "processing" => Phase' = "concluded"
    /\ node' = "done" => Phase' = "told"
    /\ node' = "raised" => Phase' = "escaped"
BY DEF Phase, GraphNodes

\* A step that moves neither phase, key nor frame is a stutter of the run.
LEMMA PromiseStutters ==
    ASSUME Phase' = Phase, UNCHANGED <<jobKey, frame>>
    PROVE  [Promise!Next]_(Promise!vars)
BY DEF Phase, Promise!vars

\* The graph is silent; its end is Complete, the except branch Fail, a frame
\* Tell, and an exception that leaves the worker Escape.
LEMMA AnalysisStepRefines ==
    KeyFollowsNode /\ [AnalysisNext]_analysisVars
        => [Promise!Next]_(Promise!vars)
<1> SUFFICES ASSUME KeyFollowsNode, [AnalysisNext]_analysisVars
             PROVE  [Promise!Next]_(Promise!vars)
  OBVIOUS
<1>1. CASE \/ AgentCallsTools \/ AgentAnswers \/ AgentFallsBack \/ Tools
           \/ Reporting \/ Accept \/ DefaultToHold \/ Reject
  <2>1. /\ node \in GraphNodes /\ node' \in GraphNodes \cup {"end"}
        /\ UNCHANGED <<jobKey, frame>>
    BY <1>1 DEF AgentCallsTools, AgentAnswers, AgentFallsBack, Tools, Reporting,
       Accept, DefaultToHold, Reject, Step, GraphNodes, resultVars
  <2>2. Phase' = Phase
    BY <2>1, PhaseByNode, PhaseByNodeNext
  <2>. QED
    BY <2>1, <2>2, PromiseStutters
<1>2. CASE OutOfSteps \/ NodeRaises
  <2>1. /\ node \in GraphNodes /\ node' = "except" /\ jobKey = "processing"
        /\ UNCHANGED <<jobKey, frame>>
    BY <1>2 DEF OutOfSteps, NodeRaises, GraphNodes, resultVars, KeyFollowsNode
  <2>2. Phase' = Phase
    BY <2>1, PhaseByNode, PhaseByNodeNext
  <2>. QED
    BY <2>1, <2>2, PromiseStutters
<1>3. CASE SetCompleted \/ SetRaises
  <2>1. /\ node = "end" /\ jobKey = "processing" /\ frame' = frame
        /\ \/ jobKey' = jobKey /\ node' = "except"
           \/ jobKey' = "completed" /\ node' \in {"index", "except"}
    BY <1>3 DEF SetCompleted, SetRaises, KeyFollowsNode
  <2>2. CASE jobKey' = jobKey /\ node' = "except"
    BY <2>1, <2>2, PhaseByNode, PhaseByNodeNext, PromiseStutters
  <2>3. CASE jobKey' = "completed" /\ node' \in {"index", "except"}
    <3>1. Phase = "running" /\ Phase' = "concluded"
      BY <2>1, <2>3, PhaseByNode, PhaseByNodeNext
    <3>2. Promise!Complete
      BY <2>1, <2>3, <3>1 DEF Promise!Complete, Phase
    <3>. QED
      BY <3>2 DEF Promise!Next
  <2>. QED
    BY <2>1, <2>2, <2>3
<1>4. CASE Index
  <2>1. /\ node = "index" /\ node' \in {"announce", "except"}
        /\ jobKey = "completed" /\ UNCHANGED <<jobKey, frame>>
    BY <1>4 DEF Index, resultVars, KeyFollowsNode
  <2>2. Phase' = Phase
    BY <2>1, PhaseByNode, PhaseByNodeNext
  <2>. QED
    BY <2>1, <2>2, PromiseStutters
<1>5. CASE \/ AnnounceCompleted
           \/ Diagnose /\ node' = "done"
  <2>1. /\ node \in {"announce", "diagnose"} /\ node' = "done"
        /\ frame' = jobKey /\ jobKey' = jobKey
    BY <1>5 DEF AnnounceCompleted, Diagnose, KeyFollowsNode
  <2>2. Phase = "concluded" /\ Phase' = "told"
    BY <2>1, PhaseByNode, PhaseByNodeNext
  <2>3. Promise!Tell
    BY <2>1, <2>2 DEF Promise!Tell, Phase
  <2>. QED
    BY <2>3 DEF Promise!Next
<1>6. CASE Recover /\ node' = "diagnose"
  <2>1. /\ node = "except" /\ jobKey # "failed" /\ jobKey' = "failed"
        /\ frame' = frame
    BY <1>6 DEF Recover, KeyFollowsNode
  <2>2. Phase \in {"running", "concluded"} /\ Phase' = "concluded"
    BY <1>6, <2>1, PhaseByNode, PhaseByNodeNext
  <2>3. Promise!Fail
    BY <2>1, <2>2 DEF Promise!Fail, Phase
  <2>. QED
    BY <2>3 DEF Promise!Next
<1>7. CASE (Recover \/ Diagnose) /\ node' = "raised"
  <2>1. /\ node \in {"except", "diagnose"}
        /\ jobKey' \in {jobKey, "failed"} /\ frame' = frame
    BY <1>7 DEF Recover, Diagnose
  <2>2. Phase \in {"running", "concluded"} /\ Phase' = "escaped"
    BY <1>7, <2>1, PhaseByNode, PhaseByNodeNext
  <2>3. Promise!Escape
    BY <2>1, <2>2 DEF Promise!Escape, Phase
  <2>. QED
    BY <2>3 DEF Promise!Next
<1>8. CASE Recover \/ Diagnose
  BY <1>5, <1>6, <1>7, <1>8 DEF Recover, Diagnose
<1>9. CASE UNCHANGED analysisVars
  BY <1>9, PromiseStutters DEF analysisVars, Phase
<1>. QED
  BY <1>1, <1>2, <1>3, <1>4, <1>5, <1>8, <1>9 DEF AnalysisNext

\* One run of run_intelligence_worker implements WorkerRun, whatever the
\* models answer and whichever call fails.
THEOREM AnalysisRefines == AnalysisSpec => ImplementsWorkerRun
<1>1. AnalysisInit => KeyFollowsNode /\ Promise!Init
  BY DEF AnalysisInit, KeyFollowsNode, Promise!Init, GraphNodes
<1>. QED
  BY <1>1, KeyFollowsNodeInductive, AnalysisStepRefines, PTL
     DEF AnalysisSpec, ImplementsWorkerRun, Promise!Spec

-----------------------------------------------------------------------------
(* The composite signal.                                                   *)

\* A weighted score is an integer.
LEMMA WeightedTyped ==
    ASSUME NEW i \in Indicators
    PROVE  Weighted(i) \in Int
<1>1. Points.sma[i.sma] \in Int
  BY DEF Indicators, Points
<1>2. Points.rsi[i.rsi] \in Int
  BY DEF Indicators, Points
<1>3. Points.bb[i.bb] \in Int
  BY DEF Indicators, Points
<1>4. SharpePoints(i.risk) \in Int
  <2>1. i.risk \in Risks
    BY DEF Indicators
  <2>2. i.risk.sharpe = "none" \/ i.risk.sharpe \in DOMAIN Points.sharpe
    <3>1. CASE i.risk = [sharpe |-> "none", drawdown |-> "none"]
      BY <3>1
    <3>2. CASE i.risk \in [sharpe: DOMAIN Points.sharpe,
                           drawdown: {"mild", "over 35", "over 50"}]
      BY <3>2
    <3>. QED
      BY <2>1, <3>1, <3>2 DEF Risks
  <2>. QED
    BY <2>2 DEF SharpePoints, Points
<1>. QED
  BY <1>1, <1>2, <1>3, <1>4 DEF Weighted

\* The cap at 45 points stays under the 60 of a BUY whatever is scored.
THEOREM NoBuyInFreefall == SignalSpec => []FreefallIsNoBuy
<1>1. ASSUME NEW i \in Indicators, Freefall(i)
      PROVE  Recommend(Adjusted(i)) \notin {"BUY", "STRONG_BUY"}
  <2>1. Adjusted(i) = AtMost(Weighted(i), 20 * 45)
    BY <1>1 DEF Adjusted
  <2>2. Adjusted(i) \in Int /\ Adjusted(i) <= 900
    BY <2>1, WeightedTyped DEF AtMost
  <2>3. ASSUME NEW score \in Int, score <= 900
        PROVE  Recommend(score) \in {"NEUTRAL", "SELL", "STRONG_SELL"}
    <3>1. ~(score >= 20 * 75) /\ score \notin (20 * 60)..(20 * 75 - 1)
      BY <2>3
    <3>2. CASE score \in (20 * 40)..(20 * 60 - 1)
      BY <3>1, <3>2 DEF Recommend
    <3>3. CASE score \in (20 * 25)..(20 * 40 - 1)
      BY <3>1, <3>3 DEF Recommend
    <3>4. CASE /\ score \notin (20 * 40)..(20 * 60 - 1)
               /\ score \notin (20 * 25)..(20 * 40 - 1)
      BY <3>1, <3>4 DEF Recommend
    <3>. QED
      BY <3>2, <3>3, <3>4
  <2>. QED
    BY <2>2, <2>3
<1> DEFINE Inv == indicators \in Indicators /\ FreefallIsNoBuy
<1>2. SignalInit => Inv
  BY DEF SignalInit, FreefallIsNoBuy
<1>3. Inv /\ [SignalNext]_signalVars => Inv'
  BY <1>1 DEF SignalNext, ComputeCompositeSignal, signalVars, FreefallIsNoBuy
<1>4. Inv => FreefallIsNoBuy
  OBVIOUS
<1>. QED
  BY <1>2, <1>3, <1>4, PTL DEF SignalSpec

\* Every score is told as one of the five recommendations.
LEMMA RecommendTyped ==
    ASSUME NEW score
    PROVE  Recommend(score) \in Recommendations
BY DEF Recommend, Recommendations

\* What was scored and what is recommended are well formed.
THEOREM SignalTyped == SignalSpec => []SignalTypeOK
<1>1. SignalInit => SignalTypeOK
  BY DEF SignalInit, SignalTypeOK
<1>2. SignalTypeOK /\ [SignalNext]_signalVars => SignalTypeOK'
  BY RecommendTyped
     DEF SignalNext, ComputeCompositeSignal, signalVars, SignalTypeOK
<1>. QED
  BY <1>1, <1>2, PTL DEF SignalSpec

-----------------------------------------------------------------------------
(* SignalSnapshots                                                         *)

\* A row was committed after the rows its version was read from.
BasesAreEarlier == \A i \in 1..Len(snapshots) : snapshots[i].base < i

\* The version about to be inserted is above all rows its SELECT had seen,
\* and no number below it is missing.
PendingVersions ==
    \A c \in Computations : computation[c].pc = "insert" =>
        /\ computation[c].base <= Len(snapshots)
        /\ \A j \in 1..computation[c].base :
              snapshots[j].version < computation[c].version
        /\ \A n \in Nat : 0 < n /\ n < computation[c].version => n \in Versions

SnapshotIInv ==
    /\ SnapshotTypeOK
    /\ BasesAreEarlier
    /\ PendingVersions
    /\ LaterIsNewer
    /\ VersionsGapless

\* Before the first snapshot.
LEMMA InitSnapshotIInv == SnapshotInit => SnapshotIInv
<1> SUFFICES ASSUME SnapshotInit PROVE SnapshotIInv
  OBVIOUS
<1>1. snapshots \in Seq(Snapshot) /\ Len(snapshots) = 0
  BY DEF SnapshotInit
<1>2. SnapshotTypeOK
  BY <1>1 DEF SnapshotInit, SnapshotTypeOK
<1>3. PendingVersions
  BY DEF SnapshotInit, PendingVersions
<1>. QED
  BY <1>1, <1>2, <1>3
  DEF SnapshotIInv, BasesAreEarlier, LaterIsNewer, VersionsGapless, Versions

\* The version read is above every row there is.
LEMMA ReadKeeps ==
    ASSUME SnapshotIInv, NEW c \in Computations, ReadVersion(c)
    PROVE  SnapshotIInv'
<1> USE DEF SnapshotIInv
<1>1. PICK newest \in Versions \cup {0} :
          (\A v \in Versions : v <= newest) /\ Read(c, newest + 1)
  BY DEF ReadVersion
<1>2. snapshots' = snapshots /\ Versions' = Versions
  BY <1>1 DEF Read, Versions
<1>3. /\ Len(snapshots) \in Nat
      /\ newest \in Nat
      /\ \A i \in 1..Len(snapshots) : snapshots[i].version \in Nat
  <2>1. \A i \in 1..Len(snapshots) : snapshots[i] \in Snapshot
    BY DEF SnapshotTypeOK
  <2>2. \A i \in 1..Len(snapshots) : snapshots[i].version \in Nat
    BY <2>1 DEF Snapshot
  <2>3. Versions \subseteq Nat
    BY <2>2 DEF Versions
  <2>. QED
    BY <2>2, <2>3 DEF SnapshotTypeOK
<1>4. /\ computation'[c] = [pc |-> "insert", version |-> newest + 1,
                            base |-> Len(snapshots)]
      /\ \A d \in Computations : d # c => computation'[d] = computation[d]
  BY <1>1 DEF Read, SnapshotTypeOK
<1>5. SnapshotTypeOK'
  BY <1>1, <1>3 DEF Read, SnapshotTypeOK
<1>6. PendingVersions'
  <2> SUFFICES ASSUME NEW d \in Computations, computation'[d].pc = "insert"
               PROVE  /\ computation'[d].base <= Len(snapshots)
                      /\ \A j \in 1..computation'[d].base :
                            snapshots[j].version < computation'[d].version
                      /\ \A n \in Nat : 0 < n /\ n < computation'[d].version
                            => n \in Versions
    BY <1>2 DEF PendingVersions
  <2>1. CASE d # c
    BY <1>4, <2>1 DEF PendingVersions
  <2>2. CASE d = c
    <3>1. \A j \in 1..Len(snapshots) : snapshots[j].version < newest + 1
      <4> SUFFICES ASSUME NEW j \in 1..Len(snapshots)
                   PROVE  snapshots[j].version < newest + 1
        OBVIOUS
      <4>1. snapshots[j].version \in Versions
        BY DEF Versions
      <4>2. snapshots[j].version <= newest
        BY <1>1, <4>1
      <4>. QED
        BY <1>3, <4>2
    <3>2. \A n \in Nat : 0 < n /\ n < newest + 1 => n \in Versions
      <4> SUFFICES ASSUME NEW n \in Nat, 0 < n, n < newest + 1
                   PROVE  n \in Versions
        OBVIOUS
      <4>1. n \in 1..newest /\ newest # 0
        BY <1>3
      <4>. QED
        BY <4>1 DEF VersionsGapless
    <3>. QED
      BY <1>3, <1>4, <2>2, <3>1, <3>2
  <2>. QED
    BY <2>1, <2>2
<1>. QED
  BY <1>2, <1>5, <1>6 DEF BasesAreEarlier, LaterIsNewer, VersionsGapless

\* A row goes behind those there are, which keep their places.
LEMMA InsertKeeps ==
    ASSUME SnapshotIInv, NEW c \in Computations, InsertSnapshot(c)
    PROVE  SnapshotIInv'
<1> USE DEF SnapshotIInv
<1> DEFINE row == [version |-> computation[c].version,
                   base |-> computation[c].base]
<1>1. row \in Snapshot /\ Len(snapshots) \in Nat
  BY DEF SnapshotTypeOK, Snapshot
<1>2. /\ snapshots' \in Seq(Snapshot)
      /\ Len(snapshots') = Len(snapshots) + 1
      /\ snapshots'[Len(snapshots) + 1] = row
      /\ \A i \in 1..Len(snapshots) : snapshots'[i] = snapshots[i]
  BY <1>1 DEF SnapshotTypeOK, InsertSnapshot
<1>3. Versions' = Versions \cup {row.version}
  <2>1. \A i \in 1..Len(snapshots') :
            i \in 1..Len(snapshots) \/ i = Len(snapshots) + 1
    BY <1>1, <1>2
  <2>2. \A i \in 1..Len(snapshots) : i \in 1..Len(snapshots')
    BY <1>1, <1>2
  <2>3. Len(snapshots) + 1 \in 1..Len(snapshots')
    BY <1>1, <1>2
  <2>. QED
    BY <1>2, <2>1, <2>2, <2>3 DEF Versions
<1>4. /\ row.base <= Len(snapshots)
      /\ \A j \in 1..row.base : snapshots[j].version < row.version
      /\ \A n \in Nat : 0 < n /\ n < row.version => n \in Versions
  BY DEF PendingVersions, InsertSnapshot
<1>5. SnapshotTypeOK'
  BY <1>2 DEF SnapshotTypeOK, InsertSnapshot
<1>6. BasesAreEarlier'
  <2> SUFFICES ASSUME NEW i \in 1..Len(snapshots')
               PROVE  snapshots'[i].base < i
    BY DEF BasesAreEarlier
  <2>1. CASE i \in 1..Len(snapshots)
    <3>1. snapshots[i].base < i
      BY <2>1 DEF BasesAreEarlier
    <3>. QED
      BY <1>2, <2>1, <3>1
  <2>2. CASE i = Len(snapshots) + 1
    <3>1. row.base \in Nat /\ row.base < i
      BY <1>1, <1>4, <2>2 DEF Snapshot
    <3> HIDE DEF row
    <3>. QED
      BY <1>2, <2>2, <3>1
  <2>. QED
    BY <1>1, <1>2, <2>1, <2>2
<1>7. PendingVersions'
  <2> SUFFICES ASSUME NEW d \in Computations, computation'[d].pc = "insert"
               PROVE  /\ computation'[d].base <= Len(snapshots')
                      /\ \A j \in 1..computation'[d].base :
                            snapshots'[j].version < computation'[d].version
                      /\ \A n \in Nat : 0 < n /\ n < computation'[d].version
                            => n \in Versions'
    BY DEF PendingVersions
  <2>1. d # c /\ computation'[d] = computation[d]
    BY DEF SnapshotTypeOK, InsertSnapshot
  <2>2. /\ computation[d].base \in Nat
        /\ computation[d].base <= Len(snapshots)
    BY <2>1 DEF PendingVersions, SnapshotTypeOK
  <2>. QED
    BY <1>1, <1>2, <1>3, <2>1, <2>2 DEF PendingVersions
<1>8. LaterIsNewer'
  <2> SUFFICES ASSUME NEW i \in 1..Len(snapshots'),
                      NEW j \in 1..snapshots'[i].base
               PROVE  snapshots'[j].version < snapshots'[i].version
    BY DEF LaterIsNewer
  <2>1. CASE i = Len(snapshots) + 1
    <3>1. j \in 1..row.base /\ j \in 1..Len(snapshots)
      BY <1>1, <1>2, <1>4, <2>1 DEF Snapshot
    <3>. QED
      BY <1>2, <1>4, <2>1, <3>1
  <2>2. CASE i \in 1..Len(snapshots)
    <3>1. snapshots[i].base \in Nat /\ snapshots[i].base < i
      <4>1. snapshots[i] \in Snapshot
        BY <2>2 DEF SnapshotTypeOK
      <4>. QED
        BY <2>2, <4>1 DEF BasesAreEarlier, Snapshot
    <3>2. j \in 1..snapshots[i].base /\ j \in 1..Len(snapshots)
      BY <1>1, <1>2, <2>2, <3>1
    <3>. QED
      BY <1>2, <2>2, <3>2 DEF LaterIsNewer
  <2>. QED
    BY <1>1, <1>2, <2>1, <2>2
<1>9. VersionsGapless'
  <2> SUFFICES ASSUME NEW v \in Versions \cup {row.version}, NEW n \in 1..v
               PROVE  n \in Versions \cup {row.version}
    BY <1>3 DEF VersionsGapless
  <2>1. CASE v \in Versions
    BY <2>1 DEF VersionsGapless
  <2>2. CASE v = row.version
    BY <1>1, <1>4, <2>2 DEF Snapshot
  <2>. QED
    BY <2>1, <2>2
<1>. QED
  BY <1>5, <1>6, <1>7, <1>8, <1>9

\* Reading and inserting are the only steps that matter.
LEMMA SnapshotInductive ==
    SnapshotIInv /\ [SnapshotNext]_snapshotVars => SnapshotIInv'
<1> SUFFICES ASSUME SnapshotIInv, [SnapshotNext]_snapshotVars
             PROVE  SnapshotIInv'
  OBVIOUS
<1>1. ASSUME NEW c \in Computations, SnapshotFails(c) PROVE SnapshotIInv'
  <2>1. snapshots' = snapshots /\ Versions' = Versions
    BY <1>1 DEF SnapshotFails, Versions
  <2>2. /\ computation'[c].pc = "idle"
        /\ \A d \in Computations : d # c => computation'[d] = computation[d]
    BY <1>1 DEF SnapshotFails, SnapshotIInv, SnapshotTypeOK
  <2>3. SnapshotTypeOK'
    BY <1>1 DEF SnapshotFails, SnapshotIInv, SnapshotTypeOK
  <2>4. PendingVersions'
    BY <2>1, <2>2 DEF SnapshotIInv, PendingVersions
  <2>. QED
    BY <2>1, <2>3, <2>4
    DEF SnapshotIInv, BasesAreEarlier, LaterIsNewer, VersionsGapless
<1>2. CASE UNCHANGED snapshotVars
  BY <1>2 DEF snapshotVars, SnapshotIInv, SnapshotTypeOK, BasesAreEarlier,
              PendingVersions, LaterIsNewer, VersionsGapless, Versions
<1>. QED
  BY <1>1, <1>2, ReadKeeps, InsertKeeps DEF SnapshotNext

\* The invariant of the snapshots holds throughout.
LEMMA SnapshotInvariant == SnapshotSpec => []SnapshotIInv
BY InitSnapshotIInv, SnapshotInductive, PTL DEF SnapshotSpec

\* The rows and the computations are well formed throughout.
THEOREM SnapshotTyped == SnapshotSpec => []SnapshotTypeOK
<1>1. SnapshotIInv => SnapshotTypeOK
  BY DEF SnapshotIInv
<1>. QED
  BY <1>1, SnapshotInvariant, PTL

\* However many computations overlap and fail, a later one never gets a
\* version that an earlier row has.
THEOREM NumberingIsForward == SnapshotSpec => []LaterIsNewer
<1>1. SnapshotIInv => LaterIsNewer
  BY DEF SnapshotIInv
<1>. QED
  BY <1>1, SnapshotInvariant, PTL

\* ... and no version is ever left out.
THEOREM NoVersionMissing == SnapshotSpec => []VersionsGapless
<1>1. SnapshotIInv => VersionsGapless
  BY DEF SnapshotIInv
<1>. QED
  BY <1>1, SnapshotInvariant, PTL
=============================================================================
