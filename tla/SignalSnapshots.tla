--------------------------- MODULE SignalSnapshots ---------------------------
(***************************************************************************)
(* The versioned rows of signal_snapshots of one ticker, which the end of  *)
(* compute_composite_signal writes (CompositeSignal is the score before    *)
(* it): for every analysis, composite route and sector view, in any number *)
(* of processes.  The version is read by one statement and inserted by the *)
(* next; nothing makes it unique, and no row is ever deleted.              *)
(*                                                                         *)
(* The transaction is at READ COMMITTED: it reads what others have         *)
(* committed, and its own row is seen when it commits.                     *)
(***************************************************************************)
EXTENDS Naturals, Sequences

CONSTANTS
    Computations,    \* computations that can be under way at a time
    MaxSnapshots     \* bound: rows that are written

ASSUME SnapshotAssumption == MaxSnapshots \in Nat

VARIABLES
    snapshots,       \* versions in the order of commits, each with base, ...
    computation      \* ... a history: how many rows the SELECT had seen

snapshotVars == <<snapshots, computation>>

Snapshot == [version: Nat, base: Nat]

SnapshotTypeOK ==
    /\ snapshots \in Seq(Snapshot)
    /\ computation \in [Computations -> [pc: {"idle", "insert"},
                                         version: Nat, base: Nat]]

SnapshotInit ==
    /\ snapshots = <<>>
    /\ computation =
          [c \in Computations |-> [pc |-> "idle", version |-> 0, base |-> 0]]

Versions == {snapshots[i].version : i \in 1..Len(snapshots)}

Read(c, next) ==
    /\ computation[c].pc = "idle"
    /\ computation' = [computation EXCEPT ![c] =
          [pc |-> "insert", version |-> next, base |-> Len(snapshots)]]
    /\ UNCHANGED snapshots

\* Mutant: the rows are counted
ReadCount(c) == Read(c, Len(snapshots) + 1)

\* Mutant: the version of the last row is taken for the highest
ReadLast(c) ==
    Read(c, IF snapshots = <<>> THEN 1
                                ELSE snapshots[Len(snapshots)].version + 1)

\* SELECT COALESCE(MAX(version), 0) + 1
ReadVersion(c) ==
    \E newest \in Versions \cup {0} :
        /\ \A v \in Versions : v <= newest
        /\ Read(c, newest + 1)

\* INSERT and commit
InsertSnapshot(c) ==
    /\ computation[c].pc = "insert"
    /\ Len(snapshots) < MaxSnapshots
    /\ snapshots' = Append(snapshots, [version |-> computation[c].version,
                                       base |-> computation[c].base])
    /\ computation' = [computation EXCEPT ![c].pc = "idle"]

\* Any exception: rolled back, and the score is returned all the same.
SnapshotFails(c) ==
    /\ computation[c].pc = "insert"
    /\ computation' = [computation EXCEPT ![c].pc = "idle"]
    /\ UNCHANGED snapshots

SnapshotNext ==
    \E c \in Computations :
        ReadVersion(c) \/ InsertSnapshot(c) \/ SnapshotFails(c)

SnapshotSpec == SnapshotInit /\ [][SnapshotNext]_snapshotVars

-----------------------------------------------------------------------------
(* Properties.                                                             *)

\* Computations that overlap may write the same version, but the numbering
\* never runs backwards: one that began when a row was there gets a higher
\* version than that row.  So the snapshot diff, which takes the two highest
\* versions, leaves out no row that was begun after one of those two.
LaterIsNewer ==
    \A i \in 1..Len(snapshots) : \A j \in 1..snapshots[i].base :
        snapshots[j].version < snapshots[i].version

\* Duplicates, failures and slow inserts leave no version out: up to the
\* highest, each of them is recorded.
VersionsGapless ==
    \A v \in Versions : 1..v \subseteq Versions
=============================================================================
