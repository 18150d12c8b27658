------------------------------- MODULE Deploy -------------------------------
(***************************************************************************)
(* The deployment scripts (scripts/): sync_src_and_safe_deploy.py with the *)
(* ecs_safe_deploy.sh it starts, deploy_aliyun.py, apply_and_boot.py,      *)
(* bootstrap_ecs_env.py and repair_ecs_queue.py, one at a time, against    *)
(* the directories of the server, the stack that runs there and its        *)
(* dispatcher. A script may die between any two commands, and the next one *)
(* finds what it left.                                                     *)
(***************************************************************************)
EXTENDS Integers

CONSTANTS MaxDeploys, \* deployments of the instance
          Local       \* do the operator's variables have the secrets: values

Files == {"kept", "edited", "deleted", "stale", "lock", "built"}
Absent == 0
Work(n) == 10 + n       \* the operator's edit of commit n
Resolved == 20          \* a lock generated on the server

VARIABLES op,      \* [how, pc, n, armed]: the script that runs, for commit n
          disk,    \* [src, incoming, previous, tar, checkout, platform]
          images,  \* the files the images are built from
          stack,   \* [up, files, env]: what runs
          control, \* [drained, picked, run, late]: dispatcher and its run
          killed,  \* history: a run died without a checkpoint in a safe deploy
          torn,    \* history: an archive was not unpacked completely
          stuck    \* history: a script ended without reaching the dispatcher

dvars == <<op, disk, images, stack, control, killed, torn, stuck>>

NoFiles == [f \in Files |-> Absent]
NoEnv == [secrets |-> "absent", build |-> 0]
EmptyEnv == [secrets |-> "none", build |-> 0]
Usable(env) == env.secrets \in {"own", "default"}
Tree(files, env, n) == [files |-> files, env |-> env, marker |-> n, manifest |-> files]
NoTree == Tree(NoFiles, NoEnv, 0)
Idle == [how |-> "none", pc |-> "idle", n |-> 0, armed |-> FALSE]

Committed(n) == [f \in Files |-> IF f = "built" THEN Absent ELSE n]

Init ==
    /\ op = Idle
    /\ \E env \in {NoEnv, [secrets |-> "own", build |-> 0]}, git \in BOOLEAN :
          disk = [src |-> NoTree, incoming |-> NoTree, previous |-> NoTree, tar |-> 0,
                  checkout |-> IF git THEN Committed(0) ELSE NoFiles,
                  git |-> git, platform |-> env]
    /\ images = NoFiles
    /\ \E up \in BOOLEAN : stack = [up |-> up, files |-> NoFiles, env |-> NoEnv]
    /\ control = [drained |-> FALSE, picked |-> FALSE, run |-> "none", late |-> FALSE]
    /\ killed = FALSE /\ torn = FALSE /\ stuck = FALSE

At(how, pc) == op.how = how /\ op.pc = pc
To(pc) == op' = [op EXCEPT !.pc = pc]
Rest == UNCHANGED <<images, stack, control, killed, torn, stuck>>

\* load_env and the commit that HEAD names.
Start(how) ==
    /\ op.pc \in {"idle", "done"} /\ op.n < MaxDeploys
    /\ op' = [how |-> how, n |-> op.n + 1, armed |-> FALSE,
              pc |-> CASE how = "sync" -> "upload" [] how = "aliyun" -> "docker"
                       [] how = "bootstrap" -> "env" [] OTHER -> how]
    /\ torn' = FALSE
    /\ UNCHANGED <<disk, images, stack, control, killed, stuck>>

(***************************************************************************)
(* sync_src_and_safe_deploy.py                                             *)
(***************************************************************************)

Upload ==
    /\ At("sync", "upload") /\ To("unpack")
    /\ disk' = [disk EXCEPT !.tar = op.n]
    /\ Rest

\* One command line whose parts are joined with ";": neither a hash that
\* differs nor a disk that is full ends it. The .env of the source directory
\* comes along.
Unpack ==
    /\ At("sync", "unpack") /\ To("overlay")
    /\ \E complete \in BOOLEAN :
          /\ torn' = ~complete
          /\ disk' = [disk EXCEPT !.incoming =
                Tree([Committed(disk.tar) EXCEPT !["kept"] =
                          IF complete THEN @ ELSE Absent], disk.src.env, op.n)]
    /\ UNCHANGED <<images, stack, control, killed, stuck>>

\* Edits of the work tree are put over the commit, file by file.
Overlay ==
    /\ At("sync", "overlay") /\ To("delete")
    /\ disk' = [disk EXCEPT !.incoming.files["edited"] = Work(op.n)]
    /\ Rest

DeleteRemoved ==
    /\ At("sync", "delete") /\ To("swap out")
    /\ disk' = [disk EXCEPT !.incoming.files["deleted"] = Absent]
    /\ Rest

\* The swap is two renames.
SwapOut ==
    /\ At("sync", "swap out") /\ To("swap in")
    /\ disk' = [disk EXCEPT !.previous = disk.src, !.src = NoTree]
    /\ Rest

SwapIn ==
    /\ At("sync", "swap in") /\ To("stale")
    /\ disk' = [disk EXCEPT !.src = disk.incoming, !.incoming = NoTree, !.tar = 0]
    /\ Rest

RemoveStale ==
    /\ At("sync", "stale") /\ To("env")
    /\ disk' = [disk EXCEPT !.src.files["stale"] = Absent]
    /\ Rest

\* A missing .env is copied from the other directory or created empty.
MergeEnv ==
    /\ At("sync", "env") /\ To("lock")
    /\ disk' = [disk EXCEPT !.src.env =
          IF @ # NoEnv THEN @
          ELSE IF disk.platform # NoEnv THEN disk.platform ELSE EmptyEnv]
    /\ Rest

\* The lock is generated, outputs of earlier builds are removed and the
\* manifest is written anew from the files that are there.
Relock ==
    /\ At("sync", "lock") /\ To("verify")
    /\ LET files == [disk.src.files EXCEPT !["lock"] = Resolved, !["built"] = Absent]
       IN disk' = [disk EXCEPT !.src.files = files, !.src.manifest = files]
    /\ Rest

(***************************************************************************)
(* ecs_safe_deploy.sh                                                      *)
(***************************************************************************)

Stages == {"verify", "drain", "poll", "build", "up", "health", "resume"}

\* Mutant: the script leaves the dispatcher as it is.
restore_dispatch_on_exit_Never == stuck' = stuck /\ UNCHANGED control

\* The trap of the script: what it drained dispatches again, if it is reached.
restore_dispatch_on_exit ==
    \E reached \in BOOLEAN :
       /\ stuck' = (stuck \/ (op.armed /\ ~reached))
       /\ control' = [control EXCEPT !.drained = @ /\ ~(op.armed /\ reached)]

\* Any command fails, or the script is interrupted.
ScriptFails ==
    /\ op.how = "sync" /\ op.pc \in Stages
    /\ To("idle") /\ restore_dispatch_on_exit
    /\ UNCHANGED <<disk, images, stack, killed, torn>>

\* Marker, manifest and .env are right; the build is stamped.
verify_fresh_archive_manifest ==
    /\ At("sync", "verify") /\ To("drain")
    /\ disk.src.marker = op.n /\ disk.src.manifest = disk.src.files
    /\ Usable(disk.src.env)
    /\ disk' = [disk EXCEPT !.src.env.build = op.n]
    /\ Rest

BeginDrain ==
    /\ At("sync", "drain")
    /\ op' = [op EXCEPT !.pc = IF stack.up THEN "poll" ELSE "build", !.armed = stack.up]
    /\ control' = [control EXCEPT !.drained = stack.up]
    /\ UNCHANGED <<disk, images, stack, killed, torn, stuck>>

\* activeRunsSnapshot: no run is active, or all have a checkpoint.
readyToRestart == control.run # "fresh"

Poll ==
    /\ At("sync", "poll") /\ readyToRestart /\ To("build")
    /\ UNCHANGED disk /\ Rest

Build ==
    /\ At("sync", "build") /\ To("up")
    /\ images' = [disk.src.files EXCEPT !["built"] = op.n]
    /\ disk' = [disk EXCEPT !.src.files["built"] = op.n]
    /\ UNCHANGED <<stack, control, killed, torn, stuck>>

\* The containers are replaced: the flag of the dispatcher is gone, a run goes
\* on from its checkpoint or is lost.
Restart(files, env) ==
    /\ stack' = [up |-> TRUE, files |-> files, env |-> env]
    /\ control' = [drained |-> FALSE, picked |-> FALSE, late |-> FALSE,
                   run |-> IF control.run = "saved" THEN "saved" ELSE "none"]

Up ==
    /\ At("sync", "up") /\ To("health")
    /\ Restart(images, disk.src.env)
    /\ killed' = (killed \/ (control.run = "fresh" /\ ~control.late))
    /\ UNCHANGED <<disk, images, torn, stuck>>

Healthy ==
    /\ At("sync", "health") /\ To("resume")
    /\ UNCHANGED disk /\ Rest

ResumeDispatch ==
    /\ At("sync", "resume")
    /\ op' = [op EXCEPT !.pc = "done", !.armed = FALSE]
    /\ control' = [control EXCEPT !.drained = FALSE]
    /\ UNCHANGED <<disk, images, stack, killed, torn, stuck>>

(***************************************************************************)
(* deploy_aliyun.py, apply_and_boot.py, bootstrap_ecs_env.py,              *)
(* repair_ecs_queue.py                                                     *)
(***************************************************************************)

\* The daemon is restarted with its mirrors, and the containers with it.
configure_docker_mirror ==
    /\ At("aliyun", "docker") /\ To("git")
    /\ IF stack.up THEN Restart(stack.files, stack.env) ELSE UNCHANGED <<stack, control>>
    /\ UNCHANGED <<disk, images, killed, torn, stuck>>

\* A checkout is reset; a directory that is none is emptied first, its .env
\* with it.
sync_repository ==
    /\ At("aliyun", "git") /\ To("env")
    /\ disk' = [disk EXCEPT !.checkout = Committed(op.n), !.git = TRUE,
                            !.platform = IF disk.git THEN @ ELSE NoEnv]
    /\ Rest

\* Values the server has are kept unless the operator's variables override
\* them; without all that are required the deployment ends.
upload_env ==
    /\ At("aliyun", "env")
    /\ \E local \in Local :
          IF Usable(disk.platform) \/ local
          THEN /\ To("compose")
               /\ disk' = [disk EXCEPT !.platform.secrets = IF local THEN "own" ELSE @]
          ELSE To("idle") /\ UNCHANGED disk
    /\ Rest

\* Missing values get defaults, whatever the server has.
bootstrap_env ==
    /\ At("bootstrap", "env") /\ To("done")
    /\ \E local \in Local :
          disk' = [disk EXCEPT !.platform =
                      [secrets |-> IF local THEN "own" ELSE "default", build |-> 0]]
    /\ Rest

\* git am, else git apply; neither's failure is noticed.
apply_patch ==
    /\ At("patch", "patch") /\ To("compose")
    /\ \E applied \in BOOLEAN :
          disk' = IF applied THEN [disk EXCEPT !.checkout["edited"] = Work(op.n)] ELSE disk
    /\ Rest

\* The backend is restarted when its tables are repaired.
repair_queue ==
    /\ At("repair", "repair") /\ stack.up /\ To("health")
    /\ Restart(stack.files, stack.env)
    /\ UNCHANGED <<disk, images, killed, torn, stuck>>

\* The stack is built and started in place, without a drain.
compose_up ==
    /\ op.how \in {"aliyun", "patch"} /\ op.pc = "compose" /\ disk.git
    /\ Usable(disk.platform)
    /\ To("health") /\ images' = disk.checkout
    /\ Restart(disk.checkout, disk.platform)
    /\ UNCHANGED <<disk, killed, torn, stuck>>

wait_health ==
    /\ op.how \in {"aliyun", "patch", "repair"} /\ op.pc = "health" /\ To("done")
    /\ UNCHANGED disk /\ Rest

\* A command fails or the script dies; a .env that was being written is empty.
Dies ==
    /\ op.pc \notin {"idle", "done"} /\ (op.how = "sync" => op.pc \notin Stages)
    /\ To("idle")
    /\ \/ UNCHANGED disk
       \/ /\ op.how \in {"aliyun", "bootstrap"} /\ op.pc = "env"
          /\ disk' = [disk EXCEPT !.platform = EmptyEnv]
    /\ Rest

(***************************************************************************)
(* The dispatcher of the stack                                             *)
(***************************************************************************)

\* dispatchOnce looks at the flag before it reads the queue.
Pick ==
    /\ stack.up /\ ~control.drained /\ ~control.picked /\ control.run = "none"
    /\ control' = [control EXCEPT !.picked = TRUE]
    /\ UNCHANGED <<op, disk, images, stack, killed, torn, stuck>>

Dispatch ==
    /\ control.picked /\ control.run = "none"
    /\ control' = [control EXCEPT !.picked = FALSE, !.run = "fresh",
                                  !.late = control.drained]
    /\ UNCHANGED <<op, disk, images, stack, killed, torn, stuck>>

RunMoves ==
    /\ control.run # "none"
    /\ \E to \in {"saved", "none"} \ {control.run} : control' = [control EXCEPT !.run = to]
    /\ UNCHANGED <<op, disk, images, stack, killed, torn, stuck>>

Next ==
    \/ \E how \in {"sync", "aliyun", "patch", "bootstrap", "repair"} : Start(how)
    \/ Upload \/ Unpack \/ Overlay \/ DeleteRemoved \/ SwapOut \/ SwapIn
    \/ RemoveStale \/ MergeEnv \/ Relock
    \/ ScriptFails \/ verify_fresh_archive_manifest \/ BeginDrain \/ Poll
    \/ Build \/ Up \/ Healthy \/ ResumeDispatch
    \/ configure_docker_mirror \/ sync_repository \/ upload_env \/ bootstrap_env
    \/ apply_patch \/ repair_queue \/ compose_up \/ wait_health \/ Dies
    \/ Pick \/ Dispatch \/ RunMoves

Spec == Init /\ [][Next]_dvars

(***************************************************************************)
(* Properties                                                              *)
(***************************************************************************)

Released(n) ==
    [f \in Files |-> CASE f = "kept" -> n [] f = "edited" -> Work(n)
                       [] f = "lock" -> Resolved [] f = "built" -> n [] OTHER -> Absent]

\* What runs after a deployment that ended well was built from the commit it
\* names with the operator's edits and nothing else, has its secrets and, after
\* a safe one, its own build stamp, whatever earlier deployments left behind;
\* unless the archive was not unpacked completely. A safe deployment takes down
\* no run that has no checkpoint, except one that was picked before the drain,
\* and leaves the dispatcher dispatching unless it could not be reached.
DeploysAreSafe ==
    /\ op.pc = "done" /\ op.how \in {"sync", "aliyun"} => Usable(stack.env)
    /\ op.pc = "done" /\ op.how = "sync" /\ ~torn =>
          stack.files = Released(op.n) /\ stack.env.build = op.n
    /\ op.pc = "done" /\ op.how = "aliyun" => stack.files = Committed(op.n)
    /\ ~killed
    /\ ~(op.how = "sync" /\ op.pc \in Stages) /\ ~stuck => ~control.drained
=============================================================================
