---------------------------- MODULE AttemptTickets ----------------------------
(***************************************************************************)
(* What the lease queue promises of a job's attempts, whatever becomes of  *)
(* leases, rows and worker processes: attempt n of a job is a ticket that  *)
(* is handed to one worker, is not handed out again while that worker has  *)
(* it, and a job has MaxAttempts of them.  A worker that shuts down gives  *)
(* its last tickets back.  ProcessingJobs implements this module.          *)
(***************************************************************************)
EXTENDS Naturals

CONSTANTS Workers, Jobs, MaxAttempts

VARIABLES
  issued,  \* tickets issued for each job, less those given back
  held     \* the tickets in workers' hands: <<worker, job, attempt>>

Init ==
  /\ issued = [j \in Jobs |-> 0]
  /\ held = {}

Holds(w) == {s \in held : s[1] = w}
HeldByOthers(w, j, n) == \E s \in held \ Holds(w) : s[2] = j /\ s[3] = n

\* A worker is given a new ticket of each of some jobs; the step that gives
\* it may lose it.
Issue(w, S) ==
  /\ \A j \in S : issued[j] < MaxAttempts /\ \A s \in held : s[2] = j => s[3] <= issued[j]
  /\ issued' = [j \in Jobs |-> IF j \in S THEN issued[j] + 1 ELSE issued[j]]
  /\ held' \in {held, held \cup {<<w, j, issued[j] + 1>> : j \in S}}

\* Executions end, one at a time or with their worker.
Discard(T) ==
  /\ held' = held \ T
  /\ UNCHANGED issued

\* A worker lays down all it holds, and the last tickets of some jobs, which
\* no other worker holds, go back to be issued again.
GiveBack(w, S) ==
  /\ \A j \in S : issued[j] > 0 /\ ~HeldByOthers(w, j, issued[j])
  /\ issued' = [j \in Jobs |-> IF j \in S THEN issued[j] - 1 ELSE issued[j]]
  /\ held' = held \ Holds(w)

Next ==
  \/ \E w \in Workers, S \in SUBSET Jobs : Issue(w, S) \/ GiveBack(w, S)
  \/ \E T \in SUBSET held : Discard(T)

Spec == Init /\ [][Next]_<<issued, held>>
=============================================================================
