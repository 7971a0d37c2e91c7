---------------------------- MODULE AtLeastOnce ----------------------------
(***************************************************************************)
(* What the consumer group promises for the jobs handed to it: a job that  *)
(* was delivered is settled, never before there is evidence of how it      *)
(* ended, and once settled it stays settled.  Consumer implements it.      *)
(***************************************************************************)
CONSTANT Jobs

VARIABLES
    delivered,     \* jobs handed to the consumers
    evidence,      \* jobs with a written result or a dead-letter entry
    settled        \* jobs the group owes nothing any more

vars == <<delivered, evidence, settled>>

Init ==
    /\ delivered = {}
    /\ evidence = {}
    /\ settled = {}

Deliver(j) ==
    /\ j \notin delivered
    /\ delivered' = delivered \cup {j}
    /\ UNCHANGED <<evidence, settled>>

Record(j) ==
    /\ j \in delivered
    /\ j \notin evidence
    /\ evidence' = evidence \cup {j}
    /\ UNCHANGED <<delivered, settled>>

Settle(j) ==
    /\ j \in evidence
    /\ j \notin settled
    /\ settled' = settled \cup {j}
    /\ UNCHANGED <<delivered, evidence>>

Next == \E j \in Jobs : Deliver(j) \/ Record(j) \/ Settle(j)

Spec == Init /\ [][Next]_vars

FairSpec ==
    /\ Spec
    /\ \A j \in Jobs : WF_vars(Record(j)) /\ WF_vars(Settle(j))
=============================================================================
