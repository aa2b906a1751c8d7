------------------------------ MODULE JobQueue ------------------------------
(***************************************************************************)
(* What the code relies on in a BullMQ queue whose jobs carry an id of     *)
(* their own: add() of an id the queue still knows is ignored, whatever    *)
(* the state of the known job; a finished job stays known until newer      *)
(* finished jobs push it out (removeOnComplete, removeOnFail); remove()    *)
(* takes out any job but one a worker holds.  A queue is a function from   *)
(* job ids to states, "absent" being an id the queue does not know.        *)
(***************************************************************************)
JobStates ==
  {"absent", "waiting", "delayed", "active", "completed", "failed"}

Retained == {"completed", "failed"}

\* Queue.add with a custom jobId; "state" is where a new job starts.
AddJob(queue, job, state) ==
  IF queue[job] = "absent" THEN [queue EXCEPT ![job] = state] ELSE queue

\* Job.remove: throws on a job that a worker holds, which the callers catch.
RemoveJob(queue, job) ==
  IF queue[job] = "active" THEN queue ELSE [queue EXCEPT ![job] = "absent"]

=============================================================================
