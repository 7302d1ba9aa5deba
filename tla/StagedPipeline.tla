--------------------------- MODULE StagedPipeline ---------------------------
(***************************************************************************)
(* What an import promises, whoever runs it: a job's file is a fixed       *)
(* number of chunks, and each chunk is staged once, then matched, then     *)
(* snapshotted, the next stage starting only when the one before it has    *)
(* covered the whole file.  Nothing is ever taken back.  Workers,          *)
(* sessions, crashes and statuses do not appear here; ImportLifecycle is   *)
(* shown to implement this specification.                                  *)
(***************************************************************************)
EXTENDS Naturals

CONSTANTS
    Jobs,       \* job identifiers
    Sizes       \* the chunk counts a file may have

VARIABLES
    queued,     \* the jobs that exist
    size,       \* chunks in the job's file
    parsed,     \* chunks whose rows are staged
    matched,    \* chunks whose rows carry a match verdict
    snapped     \* chunks whose vendor lines have this job's snapshot

vars == <<queued, size, parsed, matched, snapped>>

Init ==
    /\ queued = {}
    /\ size = [j \in Jobs |-> 0]
    /\ parsed = [j \in Jobs |-> 0]
    /\ matched = [j \in Jobs |-> 0]
    /\ snapped = [j \in Jobs |-> 0]

Queue(j, n) ==
    /\ j \notin queued
    /\ queued' = queued \union {j}
    /\ size' = [size EXCEPT ![j] = n]
    /\ UNCHANGED <<parsed, matched, snapped>>

Parse(j) ==
    /\ j \in queued
    /\ parsed[j] < size[j]
    /\ parsed' = [parsed EXCEPT ![j] = @ + 1]
    /\ UNCHANGED <<queued, size, matched, snapped>>

Match(j) ==
    /\ parsed[j] = size[j]
    /\ matched[j] < size[j]
    /\ matched' = [matched EXCEPT ![j] = @ + 1]
    /\ UNCHANGED <<queued, size, parsed, snapped>>

Snapshot(j) ==
    /\ matched[j] = size[j]
    /\ snapped[j] < size[j]
    /\ snapped' = [snapped EXCEPT ![j] = @ + 1]
    /\ UNCHANGED <<queued, size, parsed, matched>>

Next ==
    \E j \in Jobs :
        \/ \E n \in Sizes : Queue(j, n)
        \/ Parse(j)
        \/ Match(j)
        \/ Snapshot(j)

Spec == Init /\ [][Next]_vars
=============================================================================
