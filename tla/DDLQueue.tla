----------------------------- MODULE DDLQueue ------------------------------
(***************************************************************************)
(* What the DDL puller promises its owner (DDLPuller interface of          *)
(* cdc/puller/ddl_puller.go): the owner receives the DDL jobs the puller  *)
(* keeps, each once, in increasing FinishedTS, and a resolved ts tells it *)
(* that no kept job at or below it is still to come.                      *)
(***************************************************************************)
EXTENDS Integers, Sequences, Functions

CONSTANTS NumJobs, JobTs, MaxTs

Jobs == 1..NumJobs

VARIABLES
    delivered,  \* jobs handed to the owner, in order
    frontier,   \* greatest resolved ts the owner has been told
    kept        \* jobs the puller keeps (schema and filter decisions)

absVars == <<delivered, frontier, kept>>

Init == delivered = <<>> /\ frontier = 0 /\ kept \in SUBSET Jobs

(* A kept job above the frontier and above every job delivered so far.    *)
Deliver(j) ==
    /\ j \in kept
    /\ JobTs[j] > frontier
    /\ \A i \in DOMAIN delivered : JobTs[delivered[i]] < JobTs[j]
    /\ delivered' = Append(delivered, j)
    /\ UNCHANGED <<frontier, kept>>

Advance(t) ==
    /\ t > frontier
    /\ frontier' = t
    /\ UNCHANGED <<delivered, kept>>

Next == (\E j \in Jobs : Deliver(j)) \/ (\E t \in 0..MaxTs : Advance(t))

Spec == Init /\ [][Next]_absVars

====
