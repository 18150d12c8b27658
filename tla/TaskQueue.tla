------------------------------ MODULE TaskQueue ------------------------------
(***************************************************************************)
(* One evaluation task of the backend: its row in resume_task, the Redis   *)
(* stream that carries it to the workers, the requests that pause, resume, *)
(* cancel or revise it, and the run that is registered for it. The run's   *)
(* own life is module RunLifecycle; here it is the status other parts see. *)
(*                                                                         *)
(* A message of the stream names the task only, so that the stream is the  *)
(* number of messages no worker has read. A message that was read and not  *)
(* acknowledged is never read again: workers ask for new messages only.    *)
(***************************************************************************)
EXTENDS Naturals

CONSTANTS Workers,       \* threads of the worker pool
          Users,         \* threads that serve requests
          MaxMessages,   \* bound: messages in the stream
          MaxRequests,   \* bound: requests of users
          MaxFaults      \* bound: failures and restarts of the backend

VARIABLES task,      \* status, queue_status and "started_at is set"
          stream,    \* messages not yet read
          worker,    \* where each worker is
          user,      \* where each request is, with the run it has read
          run,       \* the linked run
          mirror,    \* status the run's thread is about to write to the task
          left,      \* requests and faults left
          history    \* what the properties have to know of the past

vars == <<task, stream, worker, user, run, mirror, left, history>>

Row(status, queue) == [status |-> status, queue |-> queue, started |-> TRUE]
Unstarted == [status |-> "QUEUED", queue |-> "QUEUED", started |-> FALSE]

\* CANCELLABLE and REVISIONABLE_TASK_STATUSES.
Open == {"QUEUED", "RUNNING", "PAUSING", "PAUSED", "RESUMING"}
Final == {"SUCCESS", "FAILED", "CANCELLED", "SUPERSEDED"}
\* What a run's end does not replace.
Fenced == Final \ {"FAILED"}

Idle == [at |-> "idle", run |-> "none"]

\* createTaskInternal has committed the row and announces it next.
Init ==
    /\ task = Unstarted
    /\ stream = 0
    /\ worker = [w \in Workers |-> "idle"]
    /\ \E u \in Users :
          user = [v \in Users |-> [Idle EXCEPT !.at = IF v = u THEN "announce" ELSE "idle"]]
    /\ run = "none" /\ mirror = "none"
    /\ left = [requests |-> MaxRequests, faults |-> MaxFaults]
    /\ history = [lost |-> FALSE, overwritten |-> FALSE, stopped |-> FALSE,
                  cancelled |-> FALSE]

Fault == left.faults > 0 /\ left' = [left EXCEPT !.faults = @ - 1]

(***************************************************************************)
(* Workers                                                                 *)
(***************************************************************************)

To(w, place) == worker' = [worker EXCEPT ![w] = place]

\* The task's monitor, held while its run is registered.
MonitorFree == \A w \in Workers : worker[w] \notin {"register", "update"}

pollMessage(w) ==
    /\ worker[w] = "idle" /\ stream > 0
    /\ stream' = stream - 1
    /\ To(w, "claim")
    /\ UNCHANGED <<task, user, run, mirror, left, history>>

claimTask(w) ==
    /\ worker[w] = "claim"
    /\ \/ /\ task.queue \in {"QUEUED", "RETRYING"}
          /\ task' = Row("RUNNING", "RUNNING")
          /\ To(w, "check")
       \/ /\ task.queue \notin {"QUEUED", "RETRYING"}
          /\ To(w, "ack")
          /\ UNCHANGED task
    /\ UNCHANGED <<stream, user, run, mirror, left, history>>

\* Mutant: the row is not read again after the claim.
runQueuedEvaluation_Unchecked(w) ==
    /\ worker[w] = "check" /\ MonitorFree
    /\ To(w, "register")
    /\ UNCHANGED <<task, stream, user, run, mirror, left, history>>

\* The row is read again under the monitor: it may have been cancelled, paused,
\* superseded or recovered since the claim.
runQueuedEvaluation(w) ==
    /\ worker[w] = "check" /\ MonitorFree
    /\ To(w, IF task.status = "RUNNING" /\ task.queue = "RUNNING"
             THEN "register" ELSE "ack")
    /\ UNCHANGED <<task, stream, user, run, mirror, left, history>>

\* A run that exists already is left as it is.
enqueueTaskRun(w) ==
    /\ worker[w] = "register"
    /\ run' = IF run = "none" THEN "queued" ELSE run
    /\ To(w, "update")
    /\ UNCHANGED <<task, stream, user, mirror, left, history>>

\* The row is written from memory, whatever the run has written to it meanwhile.
updateResumeTask(w) ==
    /\ worker[w] = "update"
    /\ task' = Row("RUNNING", "RUNNING")
    /\ history' = [history EXCEPT !.overwritten = @ \/ task.status \in Final]
    /\ To(w, "ack")
    /\ UNCHANGED <<stream, user, run, mirror, left>>

\* The catch of executeTaskViaAgentRuntime.
startFails(w) ==
    /\ worker[w] \in {"register", "update"} /\ Fault
    /\ task' = Row("FAILED", "FAILED")
    /\ To(w, "ack")
    /\ UNCHANGED <<stream, user, run, mirror, history>>

ack(w) ==
    /\ worker[w] = "ack"
    /\ To(w, "idle")
    /\ UNCHANGED <<task, stream, user, run, mirror, left, history>>

\* The database or the stream cannot be reached in any of these steps.
breaks(w) ==
    /\ worker[w] \in {"claim", "check", "update", "ack"} /\ Fault
    /\ To(w, "fail")
    /\ UNCHANGED <<task, stream, user, run, mirror, history>>

\* markRetrying or, when attempts are used up, markQueueFailed, whatever the row
\* says by now. The number of attempts is left open.
handleFailure(w) ==
    /\ worker[w] = "fail"
    /\ \/ task' = Row("QUEUED", "RETRYING") /\ To(w, "again")
       \/ task' = Row("FAILED", "FAILED") /\ To(w, "idle")
    /\ history' = [history EXCEPT !.overwritten = @ \/ task.status \in Final,
                                  !.stopped = FALSE, !.cancelled = FALSE]
    /\ UNCHANGED <<stream, user, run, mirror, left>>

announceRetry(w) ==
    /\ worker[w] = "again" /\ stream < MaxMessages
    /\ stream' = stream + 1
    /\ To(w, "idle")
    /\ UNCHANGED <<task, user, run, mirror, left, history>>

\* handleFailure itself fails: nobody catches it and the message stays pending.
gaveUp(w) ==
    /\ worker[w] \in {"fail", "again"} /\ Fault
    /\ To(w, "idle")
    /\ history' = [history EXCEPT !.lost = @ \/ worker[w] = "fail"]
    /\ UNCHANGED <<task, stream, user, run, mirror>>

(***************************************************************************)
(* The poller                                                              *)
(***************************************************************************)

requeueRetryReadyTasks ==
    /\ task.queue = "RETRYING" /\ stream < MaxMessages
    /\ stream' = stream + 1
    /\ UNCHANGED <<task, worker, user, run, mirror, left, history>>

\* After half an hour, which no worker takes between its claim and its ack.
recoverStuckRunning ==
    /\ task.queue = "RUNNING"
    /\ \A w \in Workers : worker[w] \in {"idle", "claim"}
    /\ task' = Row("QUEUED", "RETRYING")
    /\ UNCHANGED <<stream, worker, user, run, mirror, left, history>>

(***************************************************************************)
(* Requests of users                                                       *)
(***************************************************************************)

\* What a request does about the row it has read; most are answered at once.
Decision(action, row) ==
    LET waits == row.queue \in {"QUEUED", "RETRYING"}
        paused == row.status \in {"PAUSED", "PAUSING"}
    IN  IF row.status \in Final THEN "idle"
        ELSE CASE action = "CANCEL" -> "cancel"
               [] action = "REVISE" -> "revise"
               [] action = "PAUSE" /\ ~paused /\ waits -> "hold"
               [] action = "PAUSE" /\ ~paused /\ ~waits /\ row.status = "RUNNING" -> "pause"
               [] action = "RESUME" /\ paused /\ ~row.started -> "release"
               [] action = "RESUME" /\ paused /\ row.started -> "resume"
               [] OTHER -> "idle"

control(u, action) ==
    /\ user[u] = Idle /\ Decision(action, task) # "idle"
    /\ left.requests > 0 /\ left' = [left EXCEPT !.requests = @ - 1]
    /\ user' = [user EXCEPT ![u].at = Decision(action, task)]
    /\ UNCHANGED <<task, stream, worker, run, mirror, history>>

Done(u) == user' = [user EXCEPT ![u] = Idle]
Goes(u, place) ==
    user' = [user EXCEPT ![u] =
                [Idle EXCEPT !.at = place, !.run = IF place = "resumeRun" THEN run ELSE "none"]]

\* The request goes on only if the row had an expected status. A task that is
\* stopped before its run is registered is noted.
compareAndSetControlState(u, expected, status, queue, next) ==
    /\ MonitorFree
    /\ \/ /\ task.status \in expected
          /\ task' = [task EXCEPT !.status = status, !.queue = queue]
          /\ history' = [history EXCEPT
                !.stopped = status \in {"PAUSED", "CANCELLED", "SUPERSEDED"} /\ run = "none"]
          /\ Goes(u, next)
       \/ /\ task.status \notin expected
          /\ Done(u)
          /\ UNCHANGED <<task, history>>
    /\ UNCHANGED <<stream, worker, run, mirror, left>>

\* A task that waits is held in its queue, one that runs is asked to pause.
pause(u) ==
    \/ /\ user[u].at = "hold"
       /\ compareAndSetControlState(u, {"QUEUED"}, "PAUSED", "PAUSED", "idle")
    \/ /\ user[u].at = "pause"
       /\ compareAndSetControlState(u, {"RUNNING"}, "PAUSING", "RUNNING", "pauseRun")

\* Only an active run can be asked to pause; the call may not reach the runtime.
pauseActiveRun(u) ==
    /\ user[u].at = "pauseRun"
    /\ \/ /\ run = "active"
          /\ run' = "pausing" /\ Done(u)
          /\ UNCHANGED left
       \/ /\ run \in {"pausing", "paused"}
          /\ Done(u)
          /\ UNCHANGED <<run, left>>
       \/ /\ run = "active" /\ Fault
          /\ Goes(u, "unpause")
          /\ UNCHANGED run
       \/ /\ run \in {"none", "queued", "cancelling", "ended"}
          /\ Goes(u, "unpause")
          /\ UNCHANGED <<run, left>>
    /\ UNCHANGED <<task, stream, worker, mirror, history>>

\* A task no worker has claimed yet goes back to the queue; of one that has no
\* run nothing can be resumed.
resume(u) ==
    \/ /\ user[u].at = "release"
       /\ compareAndSetControlState(u, {"PAUSED"}, "QUEUED", "QUEUED", "enqueue")
    \/ /\ user[u].at = "resume" /\ run # "none"
       /\ compareAndSetControlState(u, {"PAUSED", "PAUSING"}, "RESUMING", "RESUMING",
                                    "resumeRun")
    \/ /\ user[u].at = "resume" /\ run = "none"
       /\ Done(u)
       /\ UNCHANGED <<task, stream, worker, run, mirror, left, history>>

\* Announces a new task or one that is resumed.
enqueue(u) ==
    /\ user[u].at \in {"announce", "enqueue"}
    /\ stream < MaxMessages /\ stream' = stream + 1
    /\ Done(u)
    /\ UNCHANGED <<task, worker, run, mirror, left, history>>

\* Of a new task nothing is taken back: the row is committed.
enqueueFails(u) ==
    /\ Fault
    /\ \/ /\ user[u].at = "enqueue"
          /\ Goes(u, "requeue")
          /\ UNCHANGED history
       \/ /\ user[u].at = "announce"
          /\ Done(u)
          /\ history' = [history EXCEPT !.lost = TRUE]
    /\ UNCHANGED <<task, stream, worker, run, mirror>>

\* A run that was not paused when it was read is returned as it is, and counts
\* as resumed; without a permit, or when the runtime refuses, it stays paused.
resumePausedRun(u) ==
    /\ user[u].at = "resumeRun"
    /\ \/ /\ user[u].run = "paused" /\ run = "paused"
          /\ run' = "active"
          /\ Goes(u, "resumed")
       \/ /\ user[u].run # "paused" \/ run # "paused"
          /\ Goes(u, "resumed")
          /\ UNCHANGED run
       \/ /\ user[u].run = "paused"
          /\ Goes(u, "unresume")
          /\ UNCHANGED run
    /\ UNCHANGED <<task, stream, worker, mirror, left, history>>

\* The transitions that follow the call, or take back what preceded it.
settles(u) ==
    \/ /\ user[u].at = "unpause"
       /\ compareAndSetControlState(u, {"PAUSING"}, "RUNNING", "RUNNING", "idle")
    \/ /\ user[u].at = "resumed"
       /\ compareAndSetControlState(u, {"RESUMING"}, "RUNNING", "RUNNING", "idle")
    \/ /\ user[u].at = "unresume"
       /\ compareAndSetControlState(u, {"RESUMING"}, "PAUSED", "PAUSED", "idle")
    \/ /\ user[u].at = "requeue"
       /\ compareAndSetControlState(u, {"QUEUED"}, "PAUSED", "PAUSED", "idle")

cancel(u) ==
    /\ user[u].at = "cancel"
    /\ compareAndSetControlState(u, Open, "CANCELLED", "CANCELLED", "cancelRun")

\* A revision of the task, in one transaction.
createRevision(u) ==
    /\ user[u].at = "revise"
    /\ compareAndSetControlState(u, Open, "SUPERSEDED", "SUPERSEDED", "dropRun")

\* A paused run ends at once, an active one is asked to; a run that still waits
\* in its queue is neither.
cancelActiveRun(u) ==
    /\ user[u].at \in {"cancelRun", "dropRun"} /\ run # "queued"
    /\ run' = CASE run = "paused" -> "ended"
                [] run \in {"active", "pausing"} -> "cancelling"
                [] OTHER -> run
    /\ mirror' = IF run = "paused" THEN "CANCELLED" ELSE mirror
    /\ Done(u)
    /\ history' = [history EXCEPT !.cancelled = @ \/ task.status = "CANCELLED"]
    /\ UNCHANGED <<task, stream, worker, left>>

\* TaskControlService.cancel makes no difference for a run that is queued.
cancelQueuedTask(u) ==
    /\ user[u].at = "cancelRun" /\ run = "queued"
    /\ Done(u)
    /\ history' = [history EXCEPT !.cancelled = @ \/ task.status = "CANCELLED"]
    /\ UNCHANGED <<task, stream, worker, run, mirror, left>>

\* cancelLinkedRun, called for a superseded task, does.
cancelLinkedRun(u) ==
    /\ user[u].at = "dropRun" /\ run = "queued"
    /\ run' = "ended"
    /\ Done(u)
    /\ UNCHANGED <<task, stream, worker, mirror, left, history>>

(***************************************************************************)
(* The run                                                                 *)
(***************************************************************************)

\* One status at a time is on its way to the task.
RunStep(before, after, status) ==
    /\ run \in before /\ mirror = "none"
    /\ run' = after /\ mirror' = status
    /\ UNCHANGED <<task, stream, worker, user, left, history>>

Dispatch == RunStep({"queued"}, "active", "none")

\* A pause the user asked for is not reported to the task, one for the approval
\* of the plan is.
applyPausedResult ==
    \/ RunStep({"pausing"}, "paused", "none")
    \/ RunStep({"active", "pausing"}, "paused", "PAUSED")

finishInternal ==
    \/ \E status \in {"SUCCESS", "FAILED"} :
          RunStep({"active", "pausing"}, "ended", status)
    \/ RunStep({"cancelling"}, "ended", "CANCELLED")

syncSourceTask ==
    /\ mirror # "none"
    /\ task' = IF task.status \in Fenced THEN task
               ELSE [task EXCEPT !.status = mirror, !.queue = mirror]
    /\ mirror' = "none"
    /\ UNCHANGED <<stream, worker, user, run, left, history>>

\* The backend stops and starts again: what its threads were doing is lost.
Restart ==
    /\ Fault
    /\ worker' = [w \in Workers |-> "idle"]
    /\ user' = [u \in Users |-> Idle]
    /\ mirror' = "none"
    /\ history' = [history EXCEPT
          !.lost = @ \/ mirror # "none"
                     \/ (\E w \in Workers : worker[w] \in {"claim", "fail"})
                     \/ \E u \in Users : user[u].at \in {"announce", "enqueue", "requeue"}]
    /\ UNCHANGED <<task, stream, run>>

Next ==
    \/ \E w \in Workers :
          \/ pollMessage(w) \/ claimTask(w) \/ runQueuedEvaluation(w)
          \/ enqueueTaskRun(w) \/ updateResumeTask(w) \/ startFails(w) \/ ack(w)
          \/ breaks(w) \/ handleFailure(w) \/ announceRetry(w) \/ gaveUp(w)
    \/ requeueRetryReadyTasks \/ recoverStuckRunning
    \/ \E u \in Users :
          \/ \E action \in {"PAUSE", "RESUME", "CANCEL", "REVISE"} : control(u, action)
          \/ pause(u) \/ pauseActiveRun(u)
          \/ resume(u) \/ enqueue(u) \/ enqueueFails(u) \/ resumePausedRun(u)
          \/ settles(u)
          \/ cancel(u) \/ createRevision(u)
          \/ cancelActiveRun(u) \/ cancelQueuedTask(u) \/ cancelLinkedRun(u)
    \/ Dispatch \/ applyPausedResult \/ finishInternal \/ syncSourceTask
    \/ Restart

Spec == Init /\ [][Next]_vars

(***************************************************************************)
(* Properties                                                              *)
(***************************************************************************)

\* A task that is cancelled, superseded or paused before its run is registered
\* gets no run, unless it is resumed or a failing worker writes over its row.
StoppedStaysUnrun == history.stopped => run = "none"

\* A task that waits in the queue is announced: a message is in the stream, a
\* worker has it, or a request is about to send it. Failures of the handler of
\* failures and restarts lose messages.
QueuedIsAnnounced ==
    task.queue = "QUEUED" =>
        \/ stream > 0
        \/ \E w \in Workers : worker[w] \in {"claim", "fail"}
        \/ \E u \in Users : user[u].at \in {"announce", "enqueue", "requeue"}
        \/ history.lost

\* The end of the run is the end of the task, unless a worker writes over it.
EndIsKept ==
    run = "ended" /\ mirror = "none" =>
        task.status \in Final \/ history.overwritten \/ history.lost

\* Claims, repeated messages, failures, recovery and requests of users leave no
\* task that runs against its row, waits for nobody, or outlives its run.
TasksSettle == StoppedStaysUnrun /\ QueuedIsAnnounced /\ EndIsKept

\* A cancellation that has been answered leaves no run that executes.
CancelledTaskIsDropped ==
    history.cancelled /\ task.status = "CANCELLED" => run \notin {"active", "pausing", "paused"}
=============================================================================
