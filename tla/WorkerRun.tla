----------------------------- MODULE WorkerRun -----------------------------
(***************************************************************************)
(* What one call of run_intelligence_worker promises to whoever asks for   *)
(* the job and whoever is told of it: a run concludes its job, may take a  *)
(* success back as long as nobody was told, never takes a failure back,    *)
(* and tells at most once, last, what the key then holds.  Analysis, which *)
(* has the graph and every step of the worker, implements it.              *)
(***************************************************************************)
VARIABLES
    phase,     \* "running", "concluded", "told" or "escaped"
    key,       \* the outcome under the job's key
    told       \* the outcome the sockets were told

vars == <<phase, key, told>>

Init ==
    /\ phase = "running"
    /\ key = "processing"
    /\ told = "none"

Complete ==
    /\ phase = "running"
    /\ key' = "completed"
    /\ phase' = "concluded"
    /\ UNCHANGED told

\* Also of a run whose success was written already
Fail ==
    /\ phase \in {"running", "concluded"}
    /\ key # "failed"
    /\ key' = "failed"
    /\ phase' = "concluded"
    /\ UNCHANGED told

Tell ==
    /\ phase = "concluded"
    /\ told' = key
    /\ phase' = "told"
    /\ UNCHANGED key

\* An exception ends the run without a word, after a failure was written or
\* before.
Escape ==
    /\ phase \in {"running", "concluded"}
    /\ key' \in {key, "failed"}
    /\ phase' = "escaped"
    /\ UNCHANGED told

Next == Complete \/ Fail \/ Tell \/ Escape

Spec == Init /\ [][Next]_vars
=============================================================================
