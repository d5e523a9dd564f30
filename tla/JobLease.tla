------------------------------ MODULE JobLease ------------------------------
(***************************************************************************)
(* What the job queue promises, without its messages, transactions, probes  *)
(* and clocks: a job is worked on by one worker at a time, its status only  *)
(* moves along the lifecycle, and completed and failed are final.           *)
(*                                                                          *)
(* The one thing the code does that a reader of its comments would not      *)
(* expect has an action of its own: Revive.  A worker that is about to      *)
(* retry a job puts it back in the queue even when the job has been         *)
(* cancelled meanwhile.  Retryable names the jobs this can happen to.       *)
(***************************************************************************)
CONSTANTS Job, Worker, Retryable

VARIABLES status,   \* status of each job
          lease     \* pairs << w, j >>: worker w is working on job j

vars == << status, lease >>

Status == {"absent", "queued", "running", "completed", "failed", "cancelled"}

TypeOK == /\ status \in [Job -> Status]
          /\ lease \subseteq Worker \X Job

Init == /\ status = [j \in Job |-> "absent"]
        /\ lease = {}

Held(j) == \E w \in Worker : << w, j >> \in lease
Busy(w) == \E j \in Job : << w, j >> \in lease

Submit(j) == /\ status[j] = "absent"
             /\ status' = [status EXCEPT ![j] = "queued"]
             /\ UNCHANGED lease

\* A queued job, or a running one nobody works on any more.
Take(w, j) == /\ status[j] \in {"queued", "running"}
              /\ ~ Held(j)
              /\ ~ Busy(w)
              /\ status' = [status EXCEPT ![j] = "running"]
              /\ lease' = lease \cup {<< w, j >>}

\* The holder settles the job or sends it back for another attempt.
Settle(w, j, s) == /\ << w, j >> \in lease
                   /\ status[j] = "running"
                   /\ s \in {"completed", "failed"} \cup
                            (IF j \in Retryable THEN {"queued"} ELSE {})
                   /\ status' = [status EXCEPT ![j] = s]
                   /\ lease' = lease \ {<< w, j >>}

\* The holder lets go without touching the job: it died, its write failed or
\* found the job cancelled.
Abandon(w, j) == /\ << w, j >> \in lease
                 /\ lease' = lease \ {<< w, j >>}
                 /\ UNCHANGED status

Cancel(j) == /\ status[j] \in {"queued", "running"}
             /\ status' = [status EXCEPT ![j] = "cancelled"]
             /\ UNCHANGED lease

Revive(w, j) == /\ << w, j >> \in lease
                /\ j \in Retryable
                /\ status[j] = "cancelled"
                /\ status' = [status EXCEPT ![j] = "queued"]
                /\ lease' = lease \ {<< w, j >>}

Next == \E j \in Job :
          \/ Submit(j)
          \/ Cancel(j)
          \/ \E w \in Worker : \/ Take(w, j)
                               \/ \E s \in Status : Settle(w, j, s)
                               \/ Abandon(w, j)
                               \/ Revive(w, j)

Spec == Init /\ [][Next]_vars
=============================================================================
