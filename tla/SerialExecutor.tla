--------------------------- MODULE SerialExecutor ---------------------------
(***************************************************************************)
(* What the job system promises its users, without threads, locks or       *)
(* counters: the jobs of one session are handled one at a time, in the     *)
(* order in which they were accepted, each exactly once; sessions are      *)
(* independent of each other.                                              *)
(*                                                                         *)
(* A job is named by its position in the order of acceptance of its        *)
(* session: the n-th job that JobQueue::Push stored is n.                  *)
(***************************************************************************)
EXTENDS Naturals, Sequences

CONSTANTS Queues,    \* one job queue per session
          MaxJobs    \* bound on the jobs accepted per session

VARIABLES accepted,  \* accepted[q]: number of jobs accepted so far
          handling,  \* handling[q]: the job being handled, 0 when there is none
          executed   \* executed[q]: the jobs handled, in the order of completion

vars == <<accepted, handling, executed>>

Init ==
    /\ accepted = [q \in Queues |-> 0]
    /\ handling = [q \in Queues |-> 0]
    /\ executed = [q \in Queues |-> <<>>]

Accept(q) ==
    /\ accepted[q] < MaxJobs
    /\ accepted' = [accepted EXCEPT ![q] = @ + 1]
    /\ UNCHANGED <<handling, executed>>

\* Only the oldest job not yet handled may start, and only when none runs.
Start(q) ==
    /\ handling[q] = 0
    /\ Len(executed[q]) < accepted[q]
    /\ handling' = [handling EXCEPT ![q] = Len(executed[q]) + 1]
    /\ UNCHANGED <<accepted, executed>>

Finish(q) ==
    /\ handling[q] # 0
    /\ executed' = [executed EXCEPT ![q] = Append(@, handling[q])]
    /\ handling' = [handling EXCEPT ![q] = 0]
    /\ UNCHANGED accepted

Next == \E q \in Queues : Accept(q) \/ Start(q) \/ Finish(q)

Spec == Init /\ [][Next]_vars
=============================================================================
