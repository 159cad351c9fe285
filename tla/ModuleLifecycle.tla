-------------------------- MODULE ModuleLifecycle --------------------------
(***************************************************************************)
(* Installing, uninstalling, starting and stopping modules in one engine   *)
(* process: bot/engine/modules_jobs.py (the job runner and its lock),      *)
(* bot/modules/lifecycle.py (install and uninstall),                       *)
(* bot/modules/supervisor.py (the running modules), bot/main.py (boot and  *)
(* shutdown), bot/modules/registry.py and bot/modules/assembler.py (the    *)
(* files registry.json and CLAUDE.md).                                     *)
(*                                                                         *)
(* Two kinds of actors interleave.  The event loop runs request handlers,  *)
(* job coroutines, start_all and stop_all; it switches between them only   *)
(* at an await, so the code between two awaits is one action here.  An     *)
(* install job runs lifecycle.install in a worker thread, which interleaves*)
(* with the loop at every file access.  The process may crash at any time; *)
(* registry.json, CLAUDE.md and the files that module scripts create       *)
(* survive.                                                                *)
(***************************************************************************)
EXTENDS Naturals, SequencesExt

CONSTANTS
    Module,   \* names of the modules in the modules/ directory
    Depends,  \* Depends[m]: the "depends" list of m's manifest
    Runtime,  \* modules whose manifest has a runtime_entry
    JobId,    \* job ids; bounds the jobs known at one time
    Overlap   \* what the operator does concurrently: "boot" requests while
              \* start_all is running, "config" saves during an install

ASSUME CatalogAssumption == Depends \in [Module -> SUBSET Module]
ASSUME RuntimeAssumption == Runtime \subseteq Module
ASSUME OverlapAssumption == Overlap \subseteq {"boot", "config"}

VARIABLES
    registry, \* registry.json: module names, in the order of the list
    hub,      \* modules whose owned_paths exist under the hub directory
    prompts,  \* modules with a section in CLAUDE.md
    phase,    \* where bot.main._run is
    jobs,     \* modules_jobs._jobs
    locked,   \* modules_jobs._lock.locked()
    queue,    \* job tasks that do not hold the lock yet, in creation order
    thread,   \* thread[j]: lifecycle.install as run by job j's worker thread
    save,     \* modules_forms.save_config, in the middle of a call
    handles,  \* Supervisor._handles, in insertion order
    live,     \* modules whose runtime instance is running
    pending   \* what start_all or stop_all still has to go through

persistent == <<registry, hub, prompts>>
jobVars == <<jobs, locked, queue>>
runVars == <<handles, live, pending>>
vars == <<persistent, phase, jobVars, thread, save, runVars>>

-----------------------------------------------------------------------------
(* Values.  A definition named Fault... is not part of the model: it is the *)
(* definition that follows it with a bug seeded, used to show that the     *)
(* properties can fail.                                                    *)

Phase == {"down", "boot", "up", "stopping", "closing", "draining"}
Op == {"install", "uninstall"}
Status == {"absent", "running", "done", "failed"}
Rollback == {"none", "clean", "dirty", "unknown"}
NoModule == "-"

JobState == [op : Op, module : Module \cup {NoModule},
             status : Status, rollback : Rollback]
NoJob == [op |-> "install", module |-> NoModule,
          status |-> "absent", rollback |-> "none"]
NewJob(op, m) == [op |-> op, module |-> m,
                  status |-> "running", rollback |-> "none"]

ThreadStep == {"idle", "check", "script", "read", "write", "list", "publish",
               "rollback", "returned", "raised", "invalid"}
ThreadState == [step : ThreadStep, module : Module \cup {NoModule},
                view : Seq(Module)]
NoThread == [step |-> "idle", module |-> NoModule, view |-> <<>>]
Ended == {"returned", "raised", "invalid"}

SaveState == [step : {"idle", "write", "list", "publish"}, view : Seq(Module)]
NoSave == [step |-> "idle", view |-> <<>>]

-----------------------------------------------------------------------------
(* Helpers *)

Installed == ToSet(registry)

\* _missing_deps(manifest, hub_dir) and _dependents_of(name, hub_dir)
FaultNoMissingDeps(m) == {}
MissingDeps(m) == Depends[m] \ Installed
FaultNoDependents(m) == {}
DependentsOf(m) == {other \in Installed : m \in Depends[other]}

\* remove_entry, and dict.pop on the supervisor's handles
WithoutEntry(list, m) ==
    IF m \in ToSet(list)
    THEN LET at == CHOOSE i \in DOMAIN list : list[i] = m
         IN  [i \in 1..(Len(list) - 1) |-> list[IF i < at THEN i ELSE i + 1]]
    ELSE list

\* The event loop exists, and no call of save_config occupies it.
LoopFree == phase \in {"boot", "up", "stopping", "closing"} /\ save = NoSave

\* The engine answers the operator's requests.
Serving == /\ LoopFree
           /\ \/ phase \in {"up", "stopping"}
              \/ phase = "boot" /\ "boot" \in Overlap

Executing(j) == jobs[j].status = "running" /\ j \notin ToSet(queue)
Finished == {j \in JobId : jobs[j].status \in {"done", "failed"}}

-----------------------------------------------------------------------------
(* Job requests: start_install and start_uninstall *)

\* The lock is only tested here: the job's task takes it when it first runs.
Start(j, op, m) ==
    /\ Serving
    /\ ~locked
    /\ jobs[j].status = "absent"
    /\ jobs' = [jobs EXCEPT ![j] = NewJob(op, m)]
    /\ queue' = Append(queue, j)
    /\ UNCHANGED <<persistent, phase, locked, thread, save, runVars>>

StartInstall(j, m) == Start(j, "install", m)
StartUninstall(j, m) == Start(j, "uninstall", m)

\* The task at the head of the queue enters "async with _lock", and leaves it.
FaultKeepLock == UNCHANGED locked
ReleaseLock == locked' = FALSE

FaultEnterUnlocked(j, op) ==
    /\ LoopFree
    /\ queue # <<>> /\ Head(queue) = j
    /\ jobs[j].op = op
    /\ queue' = Tail(queue)

Enter(j, op) ==
    /\ LoopFree
    /\ ~locked
    /\ queue # <<>> /\ Head(queue) = j
    /\ jobs[j].op = op
    /\ queue' = Tail(queue)

\* The job's last lines: record the outcome, evict what is past its retention.
Finish(j, status, rollback) ==
    \E stale \in SUBSET (Finished \ {j}) :
       jobs' = [k \in JobId |->
                  IF k = j THEN [jobs[j] EXCEPT !.status = status,
                                                !.rollback = rollback]
                  ELSE IF k \in stale THEN NoJob ELSE jobs[k]]

-----------------------------------------------------------------------------
(* Install: the job coroutine, and lifecycle.install in its thread *)

RunInstall(j) ==
    /\ Enter(j, "install")
    /\ locked' = TRUE
    /\ thread' = [thread EXCEPT ![j] = [step |-> "check", view |-> <<>>,
                                        module |-> jobs[j].module]]
    /\ UNCHANGED <<persistent, phase, jobs, save, runVars>>

Goto(j, step) == thread' = [thread EXCEPT ![j].step = step]
ReadAndGoto(j, step) ==
    thread' = [thread EXCEPT ![j] = [@ EXCEPT !.step = step, !.view = registry]]
At(j, step) == phase # "down" /\ thread[j].step = step

\* Manifest, name and owned_paths validation, D-14, D-15.
CheckInstall(j) ==
    /\ At(j, "check")
    /\ \/ Goto(j, "invalid")
       \/ /\ \/ thread[j].module \in Installed
             \/ MissingDeps(thread[j].module) # {}
          /\ Goto(j, "raised")
       \/ /\ thread[j].module \notin Installed
          /\ MissingDeps(thread[j].module) = {}
          /\ Goto(j, "script")
    /\ UNCHANGED <<persistent, phase, jobVars, save, runVars>>

\* install.sh: it may fail after it has created some of the owned_paths.
InstallScript(j) ==
    /\ At(j, "script")
    /\ \/ /\ hub' = hub \cup {thread[j].module}
          /\ Goto(j, "read")
       \/ /\ hub' \in {hub, hub \cup {thread[j].module}}
          /\ Goto(j, "rollback")
    /\ UNCHANGED <<registry, prompts, phase, jobVars, save, runVars>>

\* _rollback_after_failed_install: uninstall.sh, best effort.
RollbackScript(j) ==
    /\ At(j, "rollback")
    /\ hub' \in {hub, hub \ {thread[j].module}}
    /\ Goto(j, "raised")
    /\ UNCHANGED <<registry, prompts, phase, jobVars, save, runVars>>

\* add_entry reads the registry, refuses a duplicate, and writes it back.
ReadRegistry(j) ==
    /\ At(j, "read")
    /\ IF thread[j].module \in Installed
       THEN Goto(j, "raised")
       ELSE ReadAndGoto(j, "write")
    /\ UNCHANGED <<persistent, phase, jobVars, save, runVars>>

WriteRegistry(j) ==
    /\ At(j, "write")
    /\ registry' = Append(thread[j].view, thread[j].module)
    /\ Goto(j, "list")
    /\ UNCHANGED <<hub, prompts, phase, jobVars, save, runVars>>

\* assemble_claude_md reads the registry, and writes CLAUDE.md.
ListForPrompts(j) ==
    /\ At(j, "list")
    /\ ReadAndGoto(j, "publish")
    /\ UNCHANGED <<persistent, phase, jobVars, save, runVars>>

FaultSkipPublish(j) ==
    /\ At(j, "publish")
    /\ Goto(j, "returned")
    /\ UNCHANGED <<persistent, phase, jobVars, save, runVars>>

PublishPrompts(j) ==
    /\ At(j, "publish")
    /\ prompts' = ToSet(thread[j].view)
    /\ Goto(j, "returned")
    /\ UNCHANGED <<registry, hub, phase, jobVars, save, runVars>>

InstallThread(j) ==
    \/ CheckInstall(j) \/ InstallScript(j) \/ RollbackScript(j)
    \/ ReadRegistry(j) \/ WriteRegistry(j)
    \/ ListForPrompts(j) \/ PublishPrompts(j)

\* _check_rollback
FaultAlwaysClean(j) == "clean"
FaultStatusAsRollback(j) == IF thread[j].step = "returned" THEN "none" ELSE "failed"
RollbackOf(j) ==
    CASE thread[j].step = "returned" -> "none"
      [] thread[j].step = "invalid"  -> "unknown"
      [] thread[j].step = "raised"   ->
            IF jobs[j].module \in hub THEN "dirty" ELSE "clean"

FinishInstall(j) ==
    /\ LoopFree
    /\ Executing(j)
    /\ thread[j].step \in Ended
    /\ Finish(j, IF thread[j].step = "returned" THEN "done" ELSE "failed",
                 RollbackOf(j))
    /\ ReleaseLock
    /\ thread' = [thread EXCEPT ![j] = NoThread]
    /\ UNCHANGED <<persistent, phase, queue, save, runVars>>

-----------------------------------------------------------------------------
(* Uninstall: its only await is the module's on_stop *)

MayUninstall(m) == m \in Installed /\ DependentsOf(m) = {}

RejectUninstall(j) ==
    /\ Enter(j, "uninstall")
    /\ ~MayUninstall(jobs[j].module)
    /\ Finish(j, "failed", "none")
    /\ UNCHANGED <<persistent, phase, locked, thread, save, runVars>>

\* What follows on_stop: uninstall.sh, remove_entry, assemble_claude_md, the
\* leakage check and the job's end.  uninstall.sh may fail, and may leave
\* owned_paths behind when it does not.
Teardown(j, m) ==
    \/ /\ hub' \in {hub, hub \ {m}}
       /\ UNCHANGED <<registry, prompts>>
       /\ Finish(j, "failed", "none")
    \/ /\ hub' \in {hub, hub \ {m}}
       /\ registry' = WithoutEntry(registry, m)
       /\ prompts' = ToSet(registry')
       /\ Finish(j, IF m \in hub' THEN "failed" ELSE "done", "none")

UninstallStopped(j) ==
    /\ Enter(j, "uninstall")
    /\ MayUninstall(jobs[j].module)
    /\ jobs[j].module \notin ToSet(handles)
    /\ Teardown(j, jobs[j].module)
    /\ UNCHANGED <<phase, locked, thread, save, runVars>>

AwaitOnStop(j) ==
    /\ Enter(j, "uninstall")
    /\ MayUninstall(jobs[j].module)
    /\ jobs[j].module \in ToSet(handles)
    /\ locked' = TRUE
    /\ UNCHANGED <<persistent, phase, jobs, thread, save, runVars>>

FaultKeepHandle(m) == UNCHANGED handles
DropHandle(m) == handles' = WithoutEntry(handles, m)

FinishUninstall(j) ==
    /\ LoopFree
    /\ Executing(j)
    /\ jobs[j].op = "uninstall"
    /\ live' = live \ {jobs[j].module}
    /\ DropHandle(jobs[j].module)
    /\ Teardown(j, jobs[j].module)
    /\ ReleaseLock
    /\ UNCHANGED <<phase, queue, thread, save, pending>>

-----------------------------------------------------------------------------
(* Saving a module's config: read the registry, replace one entry's config,*)
(* write it back, assemble CLAUDE.md.  The loop runs it without an await.  *)

SaveConfig ==
    /\ "config" \in Overlap
    /\ Serving
    /\ Installed # {}
    /\ save' = [step |-> "write", view |-> registry]
    /\ UNCHANGED <<persistent, phase, jobVars, thread, runVars>>

SaveWrite ==
    /\ save.step = "write"
    /\ registry' = save.view
    /\ save' = [save EXCEPT !.step = "list"]
    /\ UNCHANGED <<hub, prompts, phase, jobVars, thread, runVars>>

SaveList ==
    /\ save.step = "list"
    /\ save' = [step |-> "publish", view |-> registry]
    /\ UNCHANGED <<persistent, phase, jobVars, thread, runVars>>

SavePublish ==
    /\ save.step = "publish"
    /\ prompts' = ToSet(save.view)
    /\ save' = NoSave
    /\ UNCHANGED <<registry, hub, phase, jobVars, thread, runVars>>

-----------------------------------------------------------------------------
(* Boot, shutdown and crash *)

\* start_all passes over, without an await, the entries that have no
\* runtime_entry.
SkipPromptOnly(list) ==
    \E n \in 0..Len(list) :
       /\ \A i \in 1..n : list[i] \notin Runtime
       /\ n < Len(list) => list[n + 1] \in Runtime
       /\ pending' = SubSeq(list, n + 1, Len(list))

\* main assembles CLAUDE.md; start_all takes a snapshot of the registry.
Boot ==
    /\ phase = "down"
    /\ prompts' = Installed
    /\ SkipPromptOnly(registry)
    /\ phase' = IF pending' = <<>> THEN "up" ELSE "boot"
    /\ UNCHANGED <<registry, hub, jobVars, thread, save, handles, live>>

\* on_start of the next module returns its handle, or raises.
StartNext ==
    /\ phase = "boot"
    /\ LoopFree
    /\ \/ /\ handles' = Append(handles, Head(pending))
          /\ live' = live \cup {Head(pending)}
       \/ UNCHANGED <<handles, live>>
    /\ SkipPromptOnly(Tail(pending))
    /\ phase' = IF pending' = <<>> THEN "up" ELSE "boot"
    /\ UNCHANGED <<persistent, jobVars, thread, save>>

\* stop_all goes through a snapshot of the handles, and clears them at its end.
FaultForwardOrder(list) == list
StopOrder(list) == Reverse(list)

BeginShutdown ==
    /\ phase = "up"
    /\ LoopFree
    /\ pending' = StopOrder(handles)
    /\ phase' = IF handles = <<>> THEN "closing" ELSE "stopping"
    /\ UNCHANGED <<persistent, jobVars, thread, save, handles, live>>

StopNext ==
    /\ phase = "stopping"
    /\ LoopFree
    /\ live' = live \ {Head(pending)}
    /\ pending' = Tail(pending)
    /\ IF pending' = <<>>
       THEN phase' = "closing" /\ handles' = <<>>
       ELSE UNCHANGED <<phase, handles>>
    /\ UNCHANGED <<persistent, jobVars, thread, save>>

ForgetJobs == jobs' = [j \in JobId |-> NoJob] /\ locked' = FALSE /\ queue' = <<>>
ForgetModules == handles' = <<>> /\ live' = {} /\ pending' = <<>>

\* _run returns.  asyncio.run cancels the job tasks, and waits for the threads.
Exit ==
    /\ phase = "closing"
    /\ LoopFree
    /\ ForgetJobs /\ ForgetModules
    /\ IF \E j \in JobId : thread[j].step \notin Ended \cup {"idle"}
       THEN phase' = "draining" /\ UNCHANGED thread
       ELSE phase' = "down" /\ thread' = [j \in JobId |-> NoThread]
    /\ UNCHANGED <<persistent, save>>

Drained ==
    /\ phase = "draining"
    /\ \A j \in JobId : thread[j].step \in Ended \cup {"idle"}
    /\ phase' = "down"
    /\ thread' = [j \in JobId |-> NoThread]
    /\ UNCHANGED <<persistent, jobVars, save, runVars>>

Crash ==
    /\ phase # "down"
    /\ phase' = "down"
    /\ ForgetJobs /\ ForgetModules
    /\ thread' = [j \in JobId |-> NoThread]
    /\ save' = NoSave
    /\ UNCHANGED persistent

-----------------------------------------------------------------------------
(* Specification *)

Init ==
    /\ registry = <<>> /\ hub = {} /\ prompts = {}
    /\ phase = "down"
    /\ jobs = [j \in JobId |-> NoJob] /\ locked = FALSE /\ queue = <<>>
    /\ thread = [j \in JobId |-> NoThread]
    /\ save = NoSave
    /\ handles = <<>> /\ live = {} /\ pending = <<>>

RunUninstall(j) == RejectUninstall(j) \/ UninstallStopped(j) \/ AwaitOnStop(j)

JobStep(j) ==
    \/ RunInstall(j) \/ InstallThread(j) \/ FinishInstall(j)
    \/ RunUninstall(j) \/ FinishUninstall(j)

Request == \E j \in JobId, m \in Module : StartInstall(j, m) \/ StartUninstall(j, m)
Save == SaveConfig \/ SaveWrite \/ SaveList \/ SavePublish
Process == Boot \/ StartNext \/ BeginShutdown \/ StopNext \/ Exit \/ Drained \/ Crash

Next ==
    \/ Request
    \/ \E j \in JobId : JobStep(j)
    \/ Save
    \/ Process

Spec == Init /\ [][Next]_vars

\* The loop is not starved, scripts and on_start/on_stop return.  Nobody owes
\* a request, a shutdown or a crash.
Fairness ==
    /\ \A j \in JobId : WF_vars(JobStep(j))
    /\ WF_vars(StartNext) /\ WF_vars(StopNext) /\ WF_vars(Exit) /\ WF_vars(Drained)

FairSpec == Spec /\ Fairness

-----------------------------------------------------------------------------
(* Properties *)

\* Every variable keeps its type.
TypeOK ==
    /\ registry \in Seq(Module)
    /\ hub \subseteq Module /\ prompts \subseteq Module
    /\ phase \in Phase
    /\ jobs \in [JobId -> JobState] /\ locked \in BOOLEAN /\ queue \in Seq(JobId)
    /\ thread \in [JobId -> ThreadState]
    /\ save \in SaveState
    /\ handles \in Seq(Module) /\ live \subseteq Module /\ pending \in Seq(Module)

\* At most one job is inside lifecycle.install or lifecycle.uninstall, whatever
\* the number of jobs that start_install and start_uninstall have accepted.
Working(j) == Executing(j) \/ thread[j].step # "idle"
SerialJobs == \A j, k \in JobId : Working(j) /\ Working(k) => j = k

\* A module's dependencies are installed, and stand before it in registry.json:
\* start_all, which follows that order, starts them first.  The checks of D-15
\* and the writes they protect are made at different times.
DependenciesFirst ==
    \A i \in DOMAIN registry : \A d \in Depends[registry[i]] :
        \E k \in 1..(i - 1) : registry[k] = d

\* Seen from outside, the registry is a catalog that loses no dependency.
Catalog == INSTANCE ModuleCatalog WITH installed <- Installed
ImplementsCatalog == Catalog!Spec

\* The supervisor holds a handle only for an installed module: uninstall has
\* stopped the module by the time its entry goes (D-8.6).
HandlesRegistered == ToSet(handles) \subseteq Installed

\* A module is never stopped while a module that depends on it runs, whether
\* stop_all or an uninstall stops it.
StopsDependentsFirst ==
    [][\A m \in live \ live' : \A d \in live' : m \notin Depends[d]]_vars

Reports(j, status) == jobs[j].status = "running" /\ jobs'[j].status = status

\* What a job reports is so when it reports it: a done install is in the
\* registry and in CLAUDE.md, a done uninstall has left no entry, owned path or
\* handle, and a clean rollback has left no owned path.
TrueOutcome(j) ==
    LET m == jobs[j].module IN
    /\ Reports(j, "done") /\ jobs[j].op = "install" => m \in Installed' /\ m \in prompts'
    /\ Reports(j, "done") /\ jobs[j].op = "uninstall" =>
           m \notin Installed' \cup prompts' \cup hub' \cup ToSet(handles)'
    /\ Reports(j, "failed") /\ jobs'[j].rollback = "clean" => m \notin hub'
\* Every outcome that a job reports is true of the files and the handles.
OutcomeTruthful == [][\A j \in JobId : TrueOutcome(j)]_vars

\* When no job holds the lock, CLAUDE.md has a section for every installed
\* module and no other, also after a crash between the two writes.
PromptsCurrent ==
    phase \in {"boot", "up", "stopping", "closing"} /\ ~locked => prompts = Installed

\* Every accepted job comes to an end: the lock is released on every path, and
\* a job never waits for a lock that nobody holds.
JobsEnd == \A j \in JobId : jobs[j].status = "running" ~> jobs[j].status # "running"

\* tests/engine/test_modules_jobs.py, lines 98 to 101: a done install is in the
\* registry.  A config save that read registry.json before the install's write
\* puts the old list back.
DoneInstallRecorded ==
    [][\A j \in JobId :
         Reports(j, "done") /\ jobs[j].op = "install" => jobs[j].module \in Installed']_vars

-----------------------------------------------------------------------------
(* The inductive invariant *)

\* Jobs wait in the queue once each; the job that has left it holds the lock.
QueueInv ==
    /\ \A j \in ToSet(queue) : jobs[j].status = "running"
    /\ \A i, k \in DOMAIN queue : queue[i] = queue[k] => i = k
    /\ \A j \in JobId : Executing(j) => locked
    /\ \A j \in JobId : jobs[j].status = "running" => jobs[j].module \in Module

\* A worker thread works for the install job that holds the lock, unless the
\* loop has ended before it.
ThreadInv ==
    \A j \in JobId : thread[j].step # "idle" =>
       /\ thread[j].module \in Module
       /\ phase # "down"
       /\ phase # "draining" => /\ Executing(j)
                                /\ jobs[j].op = "install"
                                /\ jobs[j].module = thread[j].module

\* Nothing of the loop is left when it has ended.
PhaseInv ==
    /\ phase \in {"down", "draining"} =>
          save = NoSave /\ \A j \in JobId : jobs[j].status = "absent"
    /\ phase \in {"boot", "stopping"} => pending # <<>>

JobsInv == QueueInv /\ ThreadInv /\ PhaseInv

\* registry.json and every stale copy of it list a module once, after what it
\* depends on.
Ordered(list) ==
    /\ \A i, k \in DOMAIN list : list[i] = list[k] => i = k
    /\ \A i \in DOMAIN list : \A d \in Depends[list[i]] :
          \E k \in 1..(i - 1) : list[k] = d

\* What CheckInstall found is still so when the entry is written, although the
\* registry may have been rewritten in between.
Admissible(m, list) == m \notin ToSet(list) /\ Depends[m] \subseteq ToSet(list)

RegistryInv ==
    /\ Ordered(registry)
    /\ \A j \in JobId : thread[j].step \in {"script", "read", "write"} =>
          Admissible(thread[j].module, registry)
    /\ \A j \in JobId : thread[j].step = "write" => thread[j].view = registry
    /\ save.step = "write" =>
          \/ save.view = registry
          \/ /\ Ordered(save.view)
             /\ \E j \in JobId :
                   /\ thread[j].step \in {"list", "publish", "returned"}
                   /\ registry = Append(save.view, thread[j].module)

\* What uninstall checked before it awaited on_stop is still so afterwards,
\* when it removes the entry without checking again.
Removing(j) == Executing(j) /\ jobs[j].op = "uninstall"
RemovalInv == \A j \in JobId : Removing(j) => MayUninstall(jobs[j].module)

\* x may be started before y: it is another module, and does not depend on y.
Before(x, y) == x # y /\ y \notin Depends[x]
StartOrder(list) == \A i, k \in DOMAIN list : i < k => Before(list[i], list[k])

\* The handles are in the order in which start_all found their modules in
\* registry.json, what is stopped is in the opposite order, and nothing runs
\* without a handle.
RunInv ==
    /\ StartOrder(handles)
    /\ live \subseteq ToSet(handles)
    /\ phase \in {"down", "draining"} => handles = <<>>
    /\ phase = "boot" =>
          /\ StartOrder(pending)
          /\ \A h \in ToSet(handles), p \in ToSet(pending) : Before(h, p)
    /\ phase = "stopping" =>
          /\ \A i, k \in DOMAIN pending : i < k => Before(pending[k], pending[i])
          /\ live \subseteq ToSet(pending)

\* Without requests during start_all, its snapshot stays good; a module that
\* was installed after it has no handle.
HandlesInv == "boot" \notin Overlap =>
    /\ HandlesRegistered
    /\ phase = "boot" => /\ ToSet(pending) \subseteq Installed
                         /\ save = NoSave
                         /\ \A j \in JobId : jobs[j].status = "absent"
    /\ \A j \in JobId : thread[j].step \in {"list", "publish", "returned"} =>
          thread[j].module \notin ToSet(handles)

\* Without config saves, an install that has written its entry keeps it, and
\* CLAUDE.md is behind the registry only until the install publishes it.
PromptsInv == "config" \notin Overlap =>
    /\ save = NoSave
    /\ \A j \in JobId : thread[j].step = "publish" => thread[j].view = registry
    /\ \A j \in JobId : thread[j].step \in {"list", "publish", "returned"} =>
          thread[j].module \in Installed
    /\ \/ phase \in {"down", "draining"}
       \/ \E j \in JobId : thread[j].step \in {"list", "publish"}
       \/ prompts = Installed

IInv == /\ TypeOK /\ JobsInv /\ SerialJobs /\ RegistryInv /\ RemovalInv
        /\ RunInv /\ HandlesInv /\ PromptsInv

=============================================================================
