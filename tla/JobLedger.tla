----------------------------- MODULE JobLedger -----------------------------
(***************************************************************************)
(* What the review queue promises, with nothing of how it does it.         *)
(*                                                                         *)
(* A submitted job waits until a worker takes it.  The worker then holds   *)
(* the job's lease, and only the holder of the lease settles the job.  A   *)
(* lease may be lost (the process died), and only a job nobody holds goes  *)
(* back to waiting.  A settled job is never touched again.                 *)
(***************************************************************************)
EXTENDS Integers

CONSTANTS
  Worker,    \* the goroutines that run jobs
  MaxJobs,   \* bound: how many jobs are ever submitted
  NoJob      \* the lease of a worker that holds none

Job      == 1 .. MaxJobs                \* in order of submission
Terminal == {"succeeded", "failed", "cancelled"}

VARIABLES
  state,     \* [Job -> "absent" | "queued" | "running" | a terminal state]
  lease      \* [Worker -> Job \cup {NoJob}]

vars == <<state, lease>>

Init ==
  /\ state = [j \in Job |-> "absent"]
  /\ lease = [w \in Worker |-> NoJob]

Leased(j) == \E w \in Worker : lease[w] = j

Submit(j) ==
  /\ state[j] = "absent"
  /\ \A i \in Job : i < j => state[i] # "absent"
  /\ state' = [state EXCEPT ![j] = "queued"]
  /\ UNCHANGED lease

\* The oldest waiting job goes first.
Oldest(j) == state[j] = "queued" /\ \A i \in Job : i < j => state[i] # "queued"

Take(w, j) ==
  /\ lease[w] = NoJob
  /\ Oldest(j)
  /\ state' = [state EXCEPT ![j] = "running"]
  /\ lease' = [lease EXCEPT ![w] = j]

\* The job is handed out and its taker is never heard of again.
TakeAndVanish(j) ==
  /\ Oldest(j)
  /\ state' = [state EXCEPT ![j] = "running"]
  /\ UNCHANGED lease

Abandon(W) ==
  /\ lease' = [w \in Worker |-> IF w \in W THEN NoJob ELSE lease[w]]
  /\ UNCHANGED state

GiveBack(B) ==
  /\ \A j \in B : state[j] = "running" /\ ~Leased(j)
  /\ state' = [j \in Job |-> IF j \in B THEN "queued" ELSE state[j]]
  /\ UNCHANGED lease

Settle(w, result) ==
  /\ lease[w] # NoJob
  /\ state[lease[w]] = "running"
  /\ state' = [state EXCEPT ![lease[w]] = result]
  /\ lease' = [lease EXCEPT ![w] = NoJob]

Next ==
  \/ \E j \in Job : Submit(j) \/ TakeAndVanish(j)
  \/ \E w \in Worker, j \in Job : Take(w, j)
  \/ \E W \in SUBSET Worker : Abandon(W)
  \/ \E B \in SUBSET Job : GiveBack(B)
  \/ \E w \in Worker, result \in Terminal : Settle(w, result)

Spec == Init /\ [][Next]_vars
=============================================================================
