----------------------- MODULE ModuleLifecycleProofs -----------------------
(***************************************************************************)
(* Proofs about ModuleLifecycle, for every set of modules, dependencies,   *)
(* job ids and overlap the assumptions allow.                              *)
(***************************************************************************)
EXTENDS ModuleLifecycle, TLAPS

-----------------------------------------------------------------------------
(* Lists of distinct modules *)

\* Adding an admissible module at the end keeps a registry ordered.
LEMMA AppendOrdered ==
    ASSUME NEW list \in Seq(Module), NEW m \in Module,
           Ordered(list), Admissible(m, list)
    PROVE  /\ Append(list, m) \in Seq(Module)
           /\ ToSet(Append(list, m)) = ToSet(list) \cup {m}
           /\ Ordered(Append(list, m))
<1> DEFINE new == Append(list, m)
<1>1. /\ new \in Seq(Module)
      /\ Len(new) = Len(list) + 1
      /\ \A i \in 1..Len(list) : new[i] = list[i]
      /\ new[Len(list) + 1] = m
      /\ DOMAIN new = 1..(Len(list) + 1)
      /\ DOMAIN list = 1..Len(list)
      /\ Len(list) \in Nat
  OBVIOUS
<1> HIDE DEF new
<1>2. ToSet(new) = ToSet(list) \cup {m}
  <2>1. \A x : x \in ToSet(new) => x \in ToSet(list) \cup {m}
    BY <1>1 DEF ToSet
  <2>2. \A x \in ToSet(list) : x \in ToSet(new)
    BY <1>1 DEF ToSet
  <2>3. m \in ToSet(new)
    BY <1>1 DEF ToSet
  <2>4. QED
    BY <2>1, <2>2, <2>3
<1>3. \A i, k \in DOMAIN new : new[i] = new[k] => i = k
  BY <1>1 DEF Ordered, Admissible, ToSet
<1>4. \A i \in DOMAIN new : \A d \in Depends[new[i]] :
         \E k \in 1..(i - 1) : new[k] = d
  <2> SUFFICES ASSUME NEW i \in DOMAIN new, NEW d \in Depends[new[i]]
               PROVE  \E k \in 1..(i - 1) : new[k] = d
    OBVIOUS
  <2>1. CASE i \in 1..Len(list)
    <3>1. PICK k \in 1..(i - 1) : list[k] = d
      BY <1>1, <2>1 DEF Ordered
    <3>2. new[k] = d
      BY <1>1, <2>1, <3>1
    <3>3. QED
      BY <3>2
  <2>2. CASE i = Len(list) + 1
    <3>1. PICK k \in 1..Len(list) : list[k] = d
      BY <1>1, <2>2 DEF Admissible, ToSet
    <3>2. QED
      BY <1>1, <2>2, <3>1
  <2>3. QED
    BY <1>1, <2>1, <2>2
<1>5. QED
  BY <1>1, <1>2, <1>3, <1>4 DEF Ordered, new

\* WithoutEntry removes the entry and closes the gap.
LEMMA WithoutEntryFacts ==
    ASSUME NEW list \in Seq(Module), NEW m \in Module
    PROVE  /\ WithoutEntry(list, m) \in Seq(Module)
           /\ m \notin ToSet(list) => WithoutEntry(list, m) = list
           /\ m \in ToSet(list) => \E at \in DOMAIN list :
                 /\ list[at] = m
                 /\ WithoutEntry(list, m) =
                      [i \in 1..(Len(list) - 1) |-> list[IF i < at THEN i ELSE i + 1]]
<1>1. CASE m \notin ToSet(list)
  BY <1>1 DEF WithoutEntry
<1>2. CASE m \in ToSet(list)
  <2> DEFINE at == CHOOSE i \in DOMAIN list : list[i] = m
             gap == [i \in 1..(Len(list) - 1) |-> list[IF i < at THEN i ELSE i + 1]]
  <2>1. at \in DOMAIN list /\ list[at] = m
    BY <1>2 DEF ToSet
  <2>2. WithoutEntry(list, m) = gap
    BY <1>2 DEF WithoutEntry
  <2> HIDE DEF at
  <2>3. Len(list) - 1 \in Nat
    BY <2>1
  <2>4. \A i \in 1..(Len(list) - 1) : gap[i] \in Module
    BY <2>1
  <2>5. gap \in Seq(Module)
    BY <2>3, <2>4
  <2>6. QED
    BY <1>2, <2>1, <2>2, <2>5
<1>3. QED
  BY <1>1, <1>2

\* Removing a module that no entry depends on keeps a registry ordered.
LEMMA WithoutEntryOrdered ==
    ASSUME NEW list \in Seq(Module), NEW m \in ToSet(list),
           Ordered(list),
           \A other \in ToSet(list) : m \notin Depends[other]
    PROVE  /\ WithoutEntry(list, m) \in Seq(Module)
           /\ ToSet(WithoutEntry(list, m)) = ToSet(list) \ {m}
           /\ Ordered(WithoutEntry(list, m))
<1>1. m \in Module
  BY DEF ToSet
<1>2. PICK at \in DOMAIN list :
         /\ list[at] = m
         /\ WithoutEntry(list, m) =
              [i \in 1..(Len(list) - 1) |-> list[IF i < at THEN i ELSE i + 1]]
  BY <1>1, WithoutEntryFacts
<1> DEFINE new == WithoutEntry(list, m)
           old(i) == IF i < at THEN i ELSE i + 1
<1>3. /\ new \in Seq(Module)
      /\ Len(list) \in Nat
      /\ at \in 1..Len(list)
      /\ DOMAIN list = 1..Len(list)
      /\ DOMAIN new = 1..(Len(list) - 1)
      /\ \A i \in DOMAIN new : new[i] = list[old(i)]
      /\ \A i \in DOMAIN new : old(i) \in DOMAIN list /\ old(i) # at
  <2>1. new \in Seq(Module)
    BY <1>1, WithoutEntryFacts
  <2>2. Len(list) \in Nat /\ DOMAIN list = 1..Len(list) /\ at \in 1..Len(list)
    OBVIOUS
  <2>3. new = [i \in 1..(Len(list) - 1) |-> list[IF i < at THEN i ELSE i + 1]]
    BY <1>2
  <2>4. DOMAIN new = 1..(Len(list) - 1)
    BY <2>3
  <2>5. \A i \in DOMAIN new : new[i] = list[old(i)]
    BY <2>3
  <2>6. \A i \in DOMAIN new : old(i) \in DOMAIN list /\ old(i) # at
    BY <2>2, <2>4
  <2>7. QED
    BY <2>1, <2>2, <2>4, <2>5, <2>6
<1>4. \A k \in DOMAIN list : k # at => \E i \in DOMAIN new : old(i) = k
  <2> SUFFICES ASSUME NEW k \in DOMAIN list, k # at
               PROVE  \E i \in DOMAIN new : old(i) = k
    OBVIOUS
  <2>1. CASE k < at
    BY <1>3, <2>1
  <2>2. CASE k > at
    <3>1. k - 1 \in DOMAIN new /\ old(k - 1) = k
      BY <1>3, <2>2
    <3>2. QED
      BY <3>1
  <2>3. QED
    BY <1>3, <2>1, <2>2
<1>5. \A i, k \in DOMAIN list : list[i] = list[k] => i = k
  BY DEF Ordered
<1> HIDE DEF new
<1>6. ToSet(new) = ToSet(list) \ {m}
  <2>1. \A x \in ToSet(new) : x \in ToSet(list) \ {m}
    BY <1>2, <1>3, <1>5 DEF ToSet
  <2>2. \A x \in ToSet(list) \ {m} : x \in ToSet(new)
    <3> SUFFICES ASSUME NEW x \in ToSet(list) \ {m}
                 PROVE  x \in ToSet(new)
      OBVIOUS
    <3>1. PICK k \in DOMAIN list : list[k] = x
      BY DEF ToSet
    <3>2. PICK i \in DOMAIN new : old(i) = k
      BY <1>2, <1>4, <3>1
    <3>3. QED
      BY <1>3, <3>1, <3>2 DEF ToSet
  <2>3. QED
    BY <2>1, <2>2
<1>7. \A i, k \in DOMAIN new : new[i] = new[k] => i = k
  <2> SUFFICES ASSUME NEW i \in DOMAIN new, NEW k \in DOMAIN new, new[i] = new[k]
               PROVE  i = k
    OBVIOUS
  <2>1. old(i) = old(k)
    BY <1>3, <1>5
  <2>2. QED
    BY <1>3, <2>1
<1>8. \A i \in DOMAIN new : \A d \in Depends[new[i]] :
         \E k \in 1..(i - 1) : new[k] = d
  <2> SUFFICES ASSUME NEW i \in DOMAIN new, NEW d \in Depends[new[i]]
               PROVE  \E k \in 1..(i - 1) : new[k] = d
    OBVIOUS
  <2>1. new[i] = list[old(i)] /\ old(i) \in DOMAIN list
    BY <1>3
  <2>2. PICK k \in 1..(old(i) - 1) : list[k] = d
    BY <2>1 DEF Ordered
  <2>3. k \in DOMAIN list
    BY <1>3, <2>1, <2>2
  <2>4. d # m
    BY <2>1 DEF ToSet
  <2>5. k # at
    BY <1>2, <2>2, <2>4
  <2>6. PICK p \in DOMAIN new : old(p) = k
    BY <1>4, <2>3, <2>5
  <2>7. new[p] = d
    BY <1>3, <2>2, <2>6
  <2>8. p \in 1..(i - 1)
    BY <1>3, <2>2, <2>6
  <2>9. QED
    BY <2>7, <2>8
<1>9. QED
  BY <1>3, <1>6, <1>7, <1>8 DEF Ordered, new


\* The operators on lists of modules return lists of modules.
LEMMA SkipPromptOnlyType ==
    ASSUME NEW list \in Seq(Module), SkipPromptOnly(list)
    PROVE  pending' \in Seq(Module)
<1>1. PICK n \in 0..Len(list) : pending' = SubSeq(list, n + 1, Len(list))
  BY DEF SkipPromptOnly
<1>2. QED
  BY <1>1

LEMMA StopOrderType ==
    ASSUME NEW list \in Seq(Module)
    PROVE  StopOrder(list) \in Seq(Module) /\ (list # <<>> => StopOrder(list) # <<>>)
  BY DEF StopOrder, Reverse

-----------------------------------------------------------------------------
(* Types *)

\* The outcome of a job is a job state.
LEMMA FinishType ==
    ASSUME TypeOK, NEW j \in JobId, NEW status \in Status, NEW rollback \in Rollback,
           Finish(j, status, rollback)
    PROVE  jobs' \in [JobId -> JobState]
<1>1. PICK stale \in SUBSET (Finished \ {j}) :
         jobs' = [k \in JobId |->
                    IF k = j THEN [jobs[j] EXCEPT !.status = status, !.rollback = rollback]
                    ELSE IF k \in stale THEN NoJob ELSE jobs[k]]
  BY DEF Finish
<1>2. [jobs[j] EXCEPT !.status = status, !.rollback = rollback] \in JobState
  BY DEF TypeOK, JobState
<1>3. NoJob \in JobState
  BY DEF NoJob, JobState, Op, Status, Rollback
<1>4. \A k \in JobId : jobs[k] \in JobState
  BY DEF TypeOK
<1>5. QED
  BY <1>1, <1>2, <1>3, <1>4

LEMMA StartType ==
    ASSUME TypeOK, NEW j \in JobId, NEW op \in Op, NEW m \in Module, Start(j, op, m)
    PROVE  TypeOK'
<1>1. jobs' \in [JobId -> JobState]
  BY DEF Start, TypeOK, JobState, NewJob, Status, Rollback
<1>2. queue' \in Seq(JobId)
  BY DEF Start, TypeOK
<1>3. QED
  BY <1>1, <1>2 DEF Start, TypeOK, persistent, runVars

LEMMA RunInstallType ==
    ASSUME TypeOK, JobsInv, NEW j \in JobId, RunInstall(j)
    PROVE  TypeOK'
<1>1. jobs[j].module \in Module \cup {NoModule}
  BY DEF TypeOK, JobState
<1>2. thread' \in [JobId -> ThreadState]
  BY <1>1 DEF RunInstall, TypeOK, ThreadState, ThreadStep
<1>3. queue' \in Seq(JobId)
  BY DEF RunInstall, Enter, TypeOK
<1>4. QED
  BY <1>2, <1>3 DEF RunInstall, TypeOK, persistent, runVars

\* Moving a thread on changes its step only.
LEMMA GotoFacts ==
    ASSUME TypeOK, NEW j \in JobId, NEW step \in ThreadStep, Goto(j, step)
    PROVE  /\ thread' \in [JobId -> ThreadState]
           /\ \A k \in JobId : k # j => thread'[k] = thread[k]
           /\ thread'[j].step = step
           /\ thread'[j].module = thread[j].module
           /\ thread'[j].view = thread[j].view
<1>1. thread' = [thread EXCEPT ![j].step = step]
  BY DEF Goto
<1>2. [thread[j] EXCEPT !.step = step] \in ThreadState
  BY DEF TypeOK, ThreadState
<1>3. QED
  BY <1>1, <1>2 DEF TypeOK, ThreadState

LEMMA ReadAndGotoFacts ==
    ASSUME TypeOK, NEW j \in JobId, NEW step \in ThreadStep, ReadAndGoto(j, step)
    PROVE  /\ thread' \in [JobId -> ThreadState]
           /\ \A k \in JobId : k # j => thread'[k] = thread[k]
           /\ thread'[j].step = step
           /\ thread'[j].module = thread[j].module
           /\ thread'[j].view = registry
<1>1. thread' = [thread EXCEPT ![j] = [thread[j] EXCEPT !.step = step, !.view = registry]]
  BY DEF ReadAndGoto, TypeOK
<1>2. thread[j] \in ThreadState /\ thread \in [JobId -> ThreadState] /\ registry \in Seq(Module)
  BY DEF TypeOK
<1>3. [thread[j] EXCEPT !.step = step, !.view = registry] \in ThreadState
  BY <1>2 DEF ThreadState
<1>4. /\ [thread[j] EXCEPT !.step = step, !.view = registry].step = step
      /\ [thread[j] EXCEPT !.step = step, !.view = registry].module = thread[j].module
      /\ [thread[j] EXCEPT !.step = step, !.view = registry].view = registry
  BY <1>2 DEF ThreadState
<1>5. QED
  BY <1>1, <1>2, <1>3, <1>4

\* A step of the worker thread leaves the loop's state alone, and stays in the
\* thread's function.
LEMMA ThreadMoves ==
    ASSUME TypeOK, NEW j \in JobId, InstallThread(j)
    PROVE  /\ phase # "down" /\ thread[j].step # "idle"
           /\ UNCHANGED <<phase, jobVars, save, runVars>>
           /\ thread' \in [JobId -> ThreadState]
           /\ \A k \in JobId : k # j => thread'[k] = thread[k]
           /\ thread'[j].step # "idle"
           /\ thread'[j].module = thread[j].module
<1> USE GotoFacts DEF ThreadStep, At
<1>1. CASE CheckInstall(j)
  <2>1. \E s \in {"invalid", "raised", "script"} : Goto(j, s)
    BY <1>1 DEF CheckInstall
  <2>2. QED
    BY <1>1, <2>1 DEF CheckInstall
<1>2. CASE InstallScript(j)
  <2>1. \E s \in {"read", "rollback"} : Goto(j, s)
    BY <1>2 DEF InstallScript
  <2>2. QED
    BY <1>2, <2>1 DEF InstallScript
<1>3. CASE RollbackScript(j)
  BY <1>3 DEF RollbackScript
<1>4. CASE ReadRegistry(j)
  <2>1. CASE Goto(j, "raised")
    BY <1>4, <2>1 DEF ReadRegistry
  <2>2. CASE ReadAndGoto(j, "write")
    BY <1>4, <2>2, ReadAndGotoFacts DEF ReadRegistry
  <2>3. QED
    BY <1>4, <2>1, <2>2 DEF ReadRegistry
<1>5. CASE WriteRegistry(j)
  BY <1>5 DEF WriteRegistry
<1>6. CASE ListForPrompts(j)
  BY <1>6, ReadAndGotoFacts DEF ListForPrompts
<1>7. CASE PublishPrompts(j)
  BY <1>7 DEF PublishPrompts
<1>8. QED
  BY <1>1, <1>2, <1>3, <1>4, <1>5, <1>6, <1>7 DEF InstallThread

LEMMA InstallThreadType ==
    ASSUME TypeOK, JobsInv, NEW j \in JobId, InstallThread(j)
    PROVE  TypeOK'
<1>1. thread[j].step # "idle" /\ thread[j].module \in Module
  BY ThreadMoves DEF JobsInv, ThreadInv
<1>2. thread[j].view \in Seq(Module)
  BY DEF TypeOK, ThreadState
<1>3. ToSet(thread[j].view) \subseteq Module
  BY <1>2 DEF ToSet
<1>4. registry' \in Seq(Module) /\ hub' \subseteq Module /\ prompts' \subseteq Module
  <2> USE <1>1, <1>2, <1>3 DEF TypeOK, persistent
  <2>1. CASE CheckInstall(j)
    BY <2>1 DEF CheckInstall
  <2>2. CASE InstallScript(j)
    BY <2>2 DEF InstallScript
  <2>3. CASE RollbackScript(j)
    BY <2>3 DEF RollbackScript
  <2>4. CASE ReadRegistry(j)
    BY <2>4 DEF ReadRegistry
  <2>5. CASE WriteRegistry(j)
    BY <2>5 DEF WriteRegistry
  <2>6. CASE ListForPrompts(j)
    BY <2>6 DEF ListForPrompts
  <2>7. CASE PublishPrompts(j)
    BY <2>7 DEF PublishPrompts
  <2>8. QED
    BY <2>1, <2>2, <2>3, <2>4, <2>5, <2>6, <2>7 DEF InstallThread
<1>5. QED
  BY <1>4, ThreadMoves DEF TypeOK, jobVars, runVars

LEMMA FinishInstallType ==
    ASSUME TypeOK, NEW j \in JobId, FinishInstall(j)
    PROVE  TypeOK'
<1>1. RollbackOf(j) \in Rollback
  BY DEF FinishInstall, RollbackOf, Rollback, Ended
<1>2. jobs' \in [JobId -> JobState]
  BY <1>1, FinishType DEF FinishInstall, Status
<1>3. thread' \in [JobId -> ThreadState]
  BY DEF FinishInstall, TypeOK, NoThread, ThreadState, ThreadStep
<1>4. QED
  BY <1>2, <1>3 DEF FinishInstall, ReleaseLock, TypeOK, persistent, runVars

\* Teardown is the only part of an uninstall that changes the files.
LEMMA TeardownType ==
    ASSUME TypeOK, NEW j \in JobId, NEW m \in Module, Teardown(j, m)
    PROVE  /\ registry' \in Seq(Module) /\ hub' \subseteq Module /\ prompts' \subseteq Module
           /\ jobs' \in [JobId -> JobState]
<1>1. registry' \in Seq(Module)
  BY WithoutEntryFacts DEF Teardown, TypeOK
<1>2. hub' \subseteq Module
  BY DEF Teardown, TypeOK
<1>3. prompts' \subseteq Module
  BY <1>1 DEF Teardown, TypeOK, ToSet
<1>4. jobs' \in [JobId -> JobState]
  <2>1. \E s \in {"done", "failed"} : Finish(j, s, "none")
    BY DEF Teardown
  <2>2. QED
    BY <2>1, FinishType DEF Status, Rollback
<1>5. QED
  BY <1>1, <1>2, <1>3, <1>4

LEMMA RunUninstallType ==
    ASSUME TypeOK, JobsInv, NEW j \in JobId, RunUninstall(j)
    PROVE  TypeOK'
<1>1. queue' \in Seq(JobId) /\ jobs[j].status = "running" /\ jobs[j].module \in Module
  <2>1. Enter(j, "uninstall")
    BY DEF RunUninstall, RejectUninstall, UninstallStopped, AwaitOnStop
  <2>2. queue' \in Seq(JobId) /\ queue[1] = j /\ 1 \in DOMAIN queue
    BY <2>1 DEF Enter, TypeOK
  <2>3. QED
    BY <2>1, <2>2 DEF Enter, JobsInv, QueueInv, ToSet
<1>2. CASE RejectUninstall(j)
  <2>1. jobs' \in [JobId -> JobState]
    BY <1>2, FinishType DEF RejectUninstall, Status, Rollback
  <2>2. QED
    BY <1>1, <1>2, <2>1 DEF RejectUninstall, TypeOK, persistent, runVars
<1>3. CASE UninstallStopped(j)
  BY <1>1, <1>3, TeardownType DEF UninstallStopped, TypeOK, runVars
<1>4. CASE AwaitOnStop(j)
  BY <1>1, <1>4 DEF AwaitOnStop, TypeOK, persistent, runVars
<1>5. QED
  BY <1>2, <1>3, <1>4 DEF RunUninstall

LEMMA FinishUninstallType ==
    ASSUME TypeOK, JobsInv, NEW j \in JobId, FinishUninstall(j)
    PROVE  TypeOK'
<1>1. jobs[j].module \in Module
  BY DEF FinishUninstall, Executing, JobsInv, QueueInv
<1>2. handles' \in Seq(Module) /\ live' \subseteq Module
  BY <1>1, WithoutEntryFacts DEF FinishUninstall, DropHandle, TypeOK
<1>3. QED
  BY <1>1, <1>2, TeardownType DEF FinishUninstall, ReleaseLock, TypeOK

LEMMA SaveType ==
    ASSUME TypeOK, Save
    PROVE  TypeOK'
<1> USE DEF TypeOK, SaveState, persistent, jobVars, runVars
<1>1. CASE SaveConfig
  BY <1>1 DEF SaveConfig
<1>2. CASE SaveWrite
  BY <1>2 DEF SaveWrite
<1>3. CASE SaveList
  BY <1>3 DEF SaveList
<1>4. CASE SavePublish
  BY <1>4 DEF SavePublish, NoSave, ToSet
<1>5. QED
  BY <1>1, <1>2, <1>3, <1>4 DEF Save

\* What Exit and Crash reset has its type.
LEMMA ForgetType ==
    /\ ForgetJobs => /\ jobs' \in [JobId -> JobState]
                     /\ locked' \in BOOLEAN /\ queue' \in Seq(JobId)
    /\ ForgetModules => /\ handles' \in Seq(Module) /\ live' \subseteq Module
                        /\ pending' \in Seq(Module)
    /\ [j \in JobId |-> NoThread] \in [JobId -> ThreadState]
    /\ NoSave \in SaveState
<1>1. NoJob \in JobState
  BY DEF NoJob, JobState, Op, Status, Rollback
<1>2. NoThread \in ThreadState
  <2>1. <<>> \in Seq(Module)
    OBVIOUS
  <2>2. QED
    BY <2>1 DEF NoThread, ThreadState, ThreadStep
<1>3. NoSave \in SaveState
  BY DEF NoSave, SaveState
<1>4. ForgetJobs => /\ jobs' \in [JobId -> JobState]
                    /\ locked' \in BOOLEAN /\ queue' \in Seq(JobId)
  <2>1. <<>> \in Seq(JobId)
    OBVIOUS
  <2>2. QED
    BY <1>1, <2>1 DEF ForgetJobs
<1>5. ForgetModules => /\ handles' \in Seq(Module) /\ live' \subseteq Module
                       /\ pending' \in Seq(Module)
  BY DEF ForgetModules
<1>6. QED
  BY <1>2, <1>3, <1>4, <1>5

LEMMA ProcessType ==
    ASSUME TypeOK, JobsInv, Process
    PROVE  TypeOK'
<1> USE DEF TypeOK, Phase
<1>1. CASE Boot
  <2>1. pending' \in Seq(Module)
    BY <1>1, SkipPromptOnlyType DEF Boot
  <2>2. prompts' \subseteq Module
    BY <1>1 DEF Boot, Installed, ToSet
  <2>3. QED
    BY <1>1, <2>1, <2>2 DEF Boot, jobVars
<1>2. CASE StartNext
  <2>1. pending # <<>>
    BY <1>2 DEF StartNext, JobsInv, PhaseInv
  <2>2. Head(pending) \in Module /\ Tail(pending) \in Seq(Module)
    BY <2>1
  <2>3. pending' \in Seq(Module)
    BY <1>2, <2>2, SkipPromptOnlyType DEF StartNext
  <2>4. handles' \in Seq(Module) /\ live' \subseteq Module
    <3>1. CASE handles' = Append(handles, Head(pending)) /\ live' = live \cup {Head(pending)}
      BY <2>2, <3>1
    <3>2. CASE UNCHANGED <<handles, live>>
      BY <3>2
    <3>3. QED
      BY <1>2, <3>1, <3>2 DEF StartNext
  <2>5. QED
    BY <1>2, <2>3, <2>4 DEF StartNext, persistent, jobVars
<1>3. CASE BeginShutdown
  BY <1>3, StopOrderType DEF BeginShutdown, persistent, jobVars
<1>4. CASE StopNext
  <2>1. pending # <<>>
    BY <1>4 DEF StopNext, JobsInv, PhaseInv
  <2>2. Tail(pending) \in Seq(Module)
    BY <2>1
  <2>3. QED
    BY <1>4, <2>2 DEF StopNext, persistent, jobVars
<1>5. CASE Exit
  BY <1>5, ForgetType DEF Exit, persistent
<1>6. CASE Drained
  BY <1>6, ForgetType DEF Drained, persistent, jobVars, runVars
<1>7. CASE Crash
  BY <1>7, ForgetType DEF Crash, persistent
<1>8. QED
  BY <1>1, <1>2, <1>3, <1>4, <1>5, <1>6, <1>7 DEF Process

LEMMA TypeStep == TypeOK /\ JobsInv /\ [Next]_vars => TypeOK'
<1> SUFFICES ASSUME TypeOK, JobsInv, [Next]_vars
             PROVE  TypeOK'
  OBVIOUS
<1>1. CASE Request
  BY <1>1, StartType DEF Request, StartInstall, StartUninstall, Op
<1>2. CASE \E j \in JobId : JobStep(j)
  BY <1>2, RunInstallType, InstallThreadType, FinishInstallType, RunUninstallType,
     FinishUninstallType DEF JobStep
<1>3. CASE Save
  BY <1>3, SaveType
<1>4. CASE Process
  BY <1>4, ProcessType
<1>5. CASE UNCHANGED vars
  BY <1>5 DEF vars, persistent, jobVars, runVars, TypeOK
<1>6. QED
  BY <1>1, <1>2, <1>3, <1>4, <1>5 DEF Next

-----------------------------------------------------------------------------
(* The queue, the lock and the threads *)

LEMMA TailFacts ==
    ASSUME NEW q \in Seq(JobId), q # <<>>,
           \A i, k \in DOMAIN q : q[i] = q[k] => i = k
    PROVE  /\ Head(q) \in JobId
           /\ ToSet(Tail(q)) = ToSet(q) \ {Head(q)}
           /\ Head(q) \in ToSet(q)
           /\ \A i, k \in DOMAIN Tail(q) : Tail(q)[i] = Tail(q)[k] => i = k
<1>1. /\ Len(q) \in Nat \ {0}
      /\ DOMAIN q = 1..Len(q)
      /\ DOMAIN Tail(q) = 1..(Len(q) - 1)
      /\ \A i \in DOMAIN Tail(q) : Tail(q)[i] = q[i + 1]
      /\ Head(q) = q[1]
  OBVIOUS
<1>2. \A x \in ToSet(Tail(q)) : x \in ToSet(q) \ {Head(q)}
  BY <1>1 DEF ToSet
<1>3. \A x \in ToSet(q) \ {Head(q)} : x \in ToSet(Tail(q))
  <2> SUFFICES ASSUME NEW i \in 1..Len(q), i # 1
               PROVE  q[i] \in ToSet(Tail(q))
    BY <1>1 DEF ToSet
  <2>1. i - 1 \in DOMAIN Tail(q) /\ Tail(q)[i - 1] = q[i]
    BY <1>1
  <2>2. QED
    BY <2>1 DEF ToSet
<1>4. \A i, k \in DOMAIN Tail(q) : Tail(q)[i] = Tail(q)[k] => i = k
  BY <1>1
<1>5. Head(q) \in JobId /\ Head(q) \in ToSet(q)
  BY <1>1 DEF ToSet
<1>6. QED
  BY <1>2, <1>3, <1>4, <1>5

LEMMA AppendFacts ==
    ASSUME NEW q \in Seq(JobId), NEW j \in JobId, j \notin ToSet(q),
           \A i, k \in DOMAIN q : q[i] = q[k] => i = k
    PROVE  /\ ToSet(Append(q, j)) = ToSet(q) \cup {j}
           /\ \A i, k \in DOMAIN Append(q, j) : Append(q, j)[i] = Append(q, j)[k] => i = k
<1> DEFINE new == Append(q, j)
<1>1. /\ Len(q) \in Nat
      /\ DOMAIN q = 1..Len(q)
      /\ DOMAIN new = 1..(Len(q) + 1)
      /\ \A i \in 1..Len(q) : new[i] = q[i]
      /\ new[Len(q) + 1] = j
  OBVIOUS
<1> HIDE DEF new
<1>2. ToSet(new) = ToSet(q) \cup {j}
  <2>1. \A x \in ToSet(new) : x \in ToSet(q) \cup {j}
    BY <1>1 DEF ToSet
  <2>2. \A x \in ToSet(q) : x \in ToSet(new)
    BY <1>1 DEF ToSet
  <2>3. j \in ToSet(new)
    BY <1>1 DEF ToSet
  <2>4. QED
    BY <2>1, <2>2, <2>3
<1>3. \A i, k \in DOMAIN new : new[i] = new[k] => i = k
  BY <1>1 DEF ToSet
<1>4. QED
  BY <1>2, <1>3 DEF new

\* While nobody holds the lock nobody works.
LEMMA NobodyWorks ==
    ASSUME TypeOK, JobsInv, LoopFree, ~locked, NEW k \in JobId
    PROVE  ~Working(k)
  BY DEF JobsInv, QueueInv, ThreadInv, LoopFree, Working

\* While an uninstall is at work no thread is.
LEMMA UninstallAlone ==
    ASSUME JobsInv, SerialJobs, LoopFree, NEW j \in JobId,
           Executing(j), jobs[j].op = "uninstall", NEW k \in JobId
    PROVE  thread[k].step = "idle" /\ (Executing(k) => k = j)
  BY DEF JobsInv, ThreadInv, SerialJobs, LoopFree, Working

\* The job that takes the lock is the only one at work.
LEMMA EnterFacts ==
    ASSUME TypeOK, JobsInv, NEW j \in JobId, NEW op, Enter(j, op)
    PROVE  /\ queue' \in Seq(JobId)
           /\ ToSet(queue') = ToSet(queue) \ {j}
           /\ \A i, k \in DOMAIN queue' : queue'[i] = queue'[k] => i = k
           /\ j \in ToSet(queue)
           /\ jobs[j].status = "running" /\ jobs[j].op = op
           /\ jobs[j].module \in Module
           /\ LoopFree /\ \A k \in JobId : ~Working(k)
<1>1. /\ LoopFree /\ ~locked /\ queue # <<>> /\ Head(queue) = j
      /\ jobs[j].op = op /\ queue' = Tail(queue)
  BY DEF Enter
<1>2. \A k \in JobId : ~Working(k)
  BY <1>1, NobodyWorks
<1>3. queue \in Seq(JobId) /\ \A i, k \in DOMAIN queue : queue[i] = queue[k] => i = k
  BY DEF TypeOK, JobsInv, QueueInv
<1>4. j \in ToSet(queue) /\ queue' \in Seq(JobId)
  BY <1>1, <1>3, TailFacts
<1>5. jobs[j].status = "running" /\ jobs[j].module \in Module
  BY <1>4 DEF JobsInv, QueueInv
<1>6. QED
  BY <1>1, <1>2, <1>3, <1>4, <1>5, TailFacts

LEMMA FinishFacts ==
    ASSUME TypeOK, NEW j \in JobId, NEW status, NEW rollback, Finish(j, status, rollback)
    PROVE  /\ jobs'[j].status = status
           /\ \A k \in JobId : k # j =>
                 \/ jobs'[k] = jobs[k]
                 \/ jobs[k].status # "running" /\ jobs'[k].status = "absent"
<1>1. PICK stale \in SUBSET (Finished \ {j}) :
         jobs' = [k \in JobId |->
                    IF k = j THEN [jobs[j] EXCEPT !.status = status, !.rollback = rollback]
                    ELSE IF k \in stale THEN NoJob ELSE jobs[k]]
  BY DEF Finish
<1>2. jobs[j] \in JobState
  BY DEF TypeOK
<1>3. [jobs[j] EXCEPT !.status = status, !.rollback = rollback].status = status
  BY <1>2 DEF JobState
<1>4. \A k \in stale : jobs[k].status # "running"
  BY DEF Finished
<1>5. NoJob.status = "absent"
  BY DEF NoJob
<1>6. QED
  BY <1>1, <1>3, <1>4, <1>5

-----------------------------------------------------------------------------
(* Jobs: the queue, the lock and the threads keep to the protocol *)

\* A job that ends gives the lock back and leaves nobody at work.
LEMMA JobEnds ==
    ASSUME TypeOK, JobsInv, LoopFree, NEW j \in JobId,
           NEW status \in {"done", "failed"}, NEW rollback,
           Finish(j, status, rollback),
           \A k \in JobId : k # j => ~Executing(k),
           \A k \in JobId : thread'[k].step = "idle",
           ToSet(queue') = ToSet(queue) \ {j},
           \A i, k \in DOMAIN queue' : queue'[i] = queue'[k] => i = k,
           UNCHANGED <<phase, save, pending>>
    PROVE  JobsInv' /\ SerialJobs' /\ \A k \in JobId : ~Executing(k)'
<1>1. /\ jobs'[j].status = status
      /\ \A k \in JobId : k # j =>
            \/ jobs'[k] = jobs[k]
            \/ jobs[k].status # "running" /\ jobs'[k].status = "absent"
  BY FinishFacts
<1>2. \A k \in JobId : jobs'[k].status = "running" =>
         k # j /\ jobs'[k] = jobs[k] /\ k \in ToSet(queue')
  BY <1>1 DEF Executing
<1>3. \A k \in ToSet(queue') : k \in JobId /\ k # j /\ jobs'[k].status = "running"
  <2> SUFFICES ASSUME NEW k \in ToSet(queue')
               PROVE  k \in JobId /\ k # j /\ jobs'[k].status = "running"
    OBVIOUS
  <2>1. k \in ToSet(queue) /\ k # j
    OBVIOUS
  <2>2. k \in JobId /\ jobs[k].status = "running"
    BY <2>1 DEF TypeOK, JobsInv, QueueInv, ToSet
  <2>3. QED
    BY <1>1, <2>1, <2>2
<1>4. \A k \in JobId : ~Executing(k)'
  BY <1>2 DEF Executing
<1>5. QueueInv'
  BY <1>2, <1>3, <1>4 DEF QueueInv, JobsInv
<1>6. ThreadInv'
  BY DEF ThreadInv
<1>7. PhaseInv'
  BY DEF PhaseInv, JobsInv, LoopFree
<1>8. SerialJobs'
  BY <1>4 DEF SerialJobs, Working
<1>9. QED
  BY <1>4, <1>5, <1>6, <1>7, <1>8 DEF JobsInv

LEMMA StartJobs ==
    ASSUME TypeOK, JobsInv, SerialJobs, NEW j \in JobId, NEW op \in Op, NEW m \in Module,
           Start(j, op, m)
    PROVE  JobsInv' /\ SerialJobs'
<1>1. /\ LoopFree /\ ~locked /\ jobs[j].status = "absent"
      /\ jobs'[j] = NewJob(op, m)
      /\ \A k \in JobId : k # j => jobs'[k] = jobs[k]
      /\ queue' = Append(queue, j)
      /\ UNCHANGED <<phase, locked, thread, save, pending>>
  BY DEF Start, Serving, TypeOK, runVars
<1>2. j \notin ToSet(queue)
  BY <1>1 DEF JobsInv, QueueInv
<1>3. /\ ToSet(queue') = ToSet(queue) \cup {j}
      /\ \A i, k \in DOMAIN queue' : queue'[i] = queue'[k] => i = k
  BY <1>1, <1>2, AppendFacts DEF TypeOK, JobsInv, QueueInv
<1>4. \A k \in JobId : ~Executing(k) /\ thread[k].step = "idle"
  BY <1>1, NobodyWorks DEF Working
<1>5. \A k \in JobId : ~Executing(k)'
  BY <1>1, <1>3, <1>4 DEF Executing
<1>6. QueueInv'
  <2>1. \A k \in ToSet(queue) : k \in JobId /\ jobs[k].status = "running"
    BY DEF TypeOK, JobsInv, QueueInv, ToSet
  <2>2. \A k \in ToSet(queue') : jobs'[k].status = "running"
    BY <1>1, <1>2, <1>3, <2>1 DEF NewJob
  <2>3. \A k \in JobId : jobs'[k].status = "running" => jobs'[k].module \in Module
    BY <1>1 DEF NewJob, JobsInv, QueueInv
  <2>4. QED
    BY <1>3, <1>5, <2>2, <2>3 DEF QueueInv
<1>7. ThreadInv'
  BY <1>1, <1>4 DEF ThreadInv
<1>8. PhaseInv'
  BY <1>1 DEF JobsInv, PhaseInv, LoopFree
<1>9. SerialJobs'
  BY <1>1, <1>4, <1>5 DEF SerialJobs, Working
<1>10. QED
  BY <1>6, <1>7, <1>8, <1>9 DEF JobsInv

\* A job that takes the lock and keeps it: an install, or an uninstall that
\* awaits on_stop.
LEMMA EnterJobs ==
    ASSUME TypeOK, JobsInv, NEW j \in JobId, NEW op, Enter(j, op),
           locked' = TRUE,
           UNCHANGED <<phase, jobs, save, pending>>,
           \A k \in JobId : thread'[k].step # "idle" =>
              k = j /\ op = "install" /\ thread'[k].module = jobs[j].module
    PROVE  JobsInv' /\ SerialJobs'
<1>1. /\ ToSet(queue') = ToSet(queue) \ {j}
      /\ \A i, k \in DOMAIN queue' : queue'[i] = queue'[k] => i = k
      /\ jobs[j].status = "running" /\ jobs[j].op = op /\ jobs[j].module \in Module
      /\ LoopFree /\ \A k \in JobId : ~Working(k)
  BY EnterFacts
<1>2. \A k \in JobId : Executing(k)' <=> k = j
  BY <1>1 DEF Executing, Working
<1>3. QueueInv'
  BY <1>1, <1>2 DEF JobsInv, QueueInv
<1>4. ThreadInv'
  BY <1>1, <1>2 DEF ThreadInv, LoopFree
<1>5. PhaseInv'
  BY <1>1 DEF JobsInv, PhaseInv, LoopFree
<1>6. SerialJobs'
  BY <1>2 DEF SerialJobs, Working
<1>7. QED
  BY <1>3, <1>4, <1>5, <1>6 DEF JobsInv

LEMMA RunInstallJobs ==
    ASSUME TypeOK, JobsInv, NEW j \in JobId, RunInstall(j)
    PROVE  JobsInv' /\ SerialJobs'
<1>1. \A k \in JobId : thread[k].step = "idle"
  BY EnterFacts DEF RunInstall, Working
<1>2. \A k \in JobId : thread'[k].step # "idle" =>
         k = j /\ thread'[k].module = jobs[j].module
  BY <1>1 DEF RunInstall, TypeOK
<1>3. QED
  BY <1>2, EnterJobs DEF RunInstall, runVars

LEMMA InstallThreadJobs ==
    ASSUME TypeOK, JobsInv, SerialJobs, NEW j \in JobId, InstallThread(j)
    PROVE  JobsInv' /\ SerialJobs'
<1>1. /\ phase # "down" /\ thread[j].step # "idle"
      /\ UNCHANGED <<phase, jobs, locked, queue, save, pending>>
      /\ \A k \in JobId : k # j => thread'[k] = thread[k]
      /\ thread'[j].module = thread[j].module
  BY ThreadMoves DEF jobVars, runVars
<1>2. QueueInv'
  BY <1>1 DEF JobsInv, QueueInv, Executing
<1>3. ThreadInv'
  BY <1>1 DEF JobsInv, ThreadInv, Executing
<1>4. PhaseInv'
  BY <1>1 DEF JobsInv, PhaseInv
<1>5. SerialJobs'
  BY <1>1 DEF SerialJobs, Working, Executing
<1>6. QED
  BY <1>2, <1>3, <1>4, <1>5 DEF JobsInv

LEMMA FinishInstallJobs ==
    ASSUME TypeOK, JobsInv, SerialJobs, NEW j \in JobId, FinishInstall(j)
    PROVE  JobsInv' /\ SerialJobs'
<1>1. Executing(j) /\ LoopFree /\ UNCHANGED <<phase, queue, save, pending>>
  BY DEF FinishInstall, runVars
<1>2. \A k \in JobId : k # j => ~Working(k)
  BY <1>1 DEF SerialJobs, Working
<1>3. \A k \in JobId : thread'[k].step = "idle"
  BY <1>2 DEF FinishInstall, TypeOK, NoThread, Working
<1>4. j \notin ToSet(queue)
  BY <1>1 DEF Executing
<1>5. \E status \in {"done", "failed"} : Finish(j, status, RollbackOf(j))
  BY DEF FinishInstall
<1>6. QED
  BY <1>1, <1>2, <1>3, <1>4, <1>5, JobEnds DEF JobsInv, QueueInv, Working

LEMMA RunUninstallJobs ==
    ASSUME TypeOK, JobsInv, NEW j \in JobId, RunUninstall(j)
    PROVE  JobsInv' /\ SerialJobs'
<1>1. Enter(j, "uninstall") /\ UNCHANGED <<phase, thread, save, pending>>
  BY DEF RunUninstall, RejectUninstall, UninstallStopped, AwaitOnStop, runVars
<1>2. /\ LoopFree /\ \A k \in JobId : ~Executing(k) /\ thread'[k].step = "idle"
      /\ ToSet(queue') = ToSet(queue) \ {j}
      /\ \A i, k \in DOMAIN queue' : queue'[i] = queue'[k] => i = k
  BY <1>1, EnterFacts DEF Working
<1>3. CASE AwaitOnStop(j)
  BY <1>1, <1>2, <1>3, EnterJobs DEF AwaitOnStop
<1>4. CASE RejectUninstall(j) \/ UninstallStopped(j)
  <2>1. \E status \in {"done", "failed"} : Finish(j, status, "none")
    BY <1>4 DEF RejectUninstall, UninstallStopped, Teardown
  <2>2. QED
    BY <1>1, <1>2, <2>1, JobEnds
<1>5. QED
  BY <1>3, <1>4 DEF RunUninstall

LEMMA FinishUninstallJobs ==
    ASSUME TypeOK, JobsInv, SerialJobs, NEW j \in JobId, FinishUninstall(j)
    PROVE  JobsInv' /\ SerialJobs'
<1>1. /\ Executing(j) /\ LoopFree /\ jobs[j].op = "uninstall"
      /\ UNCHANGED <<phase, queue, thread, save, pending>>
  BY DEF FinishUninstall
<1>2. \A k \in JobId : thread'[k].step = "idle" /\ (k # j => ~Executing(k))
  BY <1>1, UninstallAlone
<1>3. j \notin ToSet(queue)
  BY <1>1 DEF Executing
<1>4. \E status \in {"done", "failed"} : Finish(j, status, "none")
  BY DEF FinishUninstall, Teardown
<1>5. QED
  BY <1>1, <1>2, <1>3, <1>4, JobEnds DEF JobsInv, QueueInv

LEMMA SaveJobs ==
    ASSUME JobsInv, SerialJobs, Save
    PROVE  JobsInv' /\ SerialJobs'
<1>1. UNCHANGED <<phase, jobs, locked, queue, thread, pending>>
  BY DEF Save, SaveConfig, SaveWrite, SaveList, SavePublish, jobVars, runVars
<1>2. phase \in {"down", "draining"} => save' = NoSave
  BY DEF Save, SaveConfig, SaveWrite, SaveList, SavePublish, Serving, LoopFree,
         JobsInv, PhaseInv, NoSave
<1>3. QED
  BY <1>1, <1>2 DEF JobsInv, QueueInv, ThreadInv, PhaseInv, SerialJobs, Working, Executing

\* Boot, the supervisor's steps and the shutdown up to Exit leave the jobs alone.
LEMMA PhaseJobs ==
    ASSUME TypeOK, JobsInv, SerialJobs,
           Boot \/ StartNext \/ BeginShutdown \/ StopNext
    PROVE  JobsInv' /\ SerialJobs'
<1>1. UNCHANGED <<jobs, locked, queue, thread, save>>
  BY DEF Boot, StartNext, BeginShutdown, StopNext, jobVars
<1>2. phase' \notin {"down", "draining"} /\ phase # "draining"
  BY DEF Boot, StartNext, BeginShutdown, StopNext, LoopFree
<1>3. phase' \in {"boot", "stopping"} => pending' # <<>>
  <2>1. CASE Boot \/ StartNext
    BY <2>1 DEF Boot, StartNext
  <2>2. CASE BeginShutdown
    BY <2>2, StopOrderType DEF BeginShutdown, TypeOK
  <2>3. CASE StopNext
    BY <2>3 DEF StopNext
  <2>4. QED
    BY <2>1, <2>2, <2>3
<1>4. QueueInv'
  BY <1>1 DEF JobsInv, QueueInv, Executing
<1>5. ThreadInv'
  BY <1>1, <1>2 DEF JobsInv, ThreadInv, Executing
<1>6. PhaseInv'
  BY <1>1, <1>2, <1>3 DEF PhaseInv
<1>7. SerialJobs'
  BY <1>1 DEF SerialJobs, Working, Executing
<1>8. QED
  BY <1>4, <1>5, <1>6, <1>7 DEF JobsInv

\* The end of the process forgets every job; only a thread may be left.
LEMMA ForgetJobsFacts ==
    ASSUME ForgetJobs
    PROVE  QueueInv' /\ \A j \in JobId : jobs'[j].status = "absent" /\ ~Executing(j)'
<1>1. \A j \in JobId : jobs'[j].status = "absent"
  BY DEF ForgetJobs, NoJob
<1>2. ToSet(queue') = {} /\ DOMAIN queue' = {}
  BY DEF ForgetJobs, ToSet
<1>3. QED
  BY <1>1, <1>2 DEF QueueInv, Executing

LEMMA EndJobs ==
    ASSUME TypeOK, JobsInv, SerialJobs, Exit \/ Drained \/ Crash
    PROVE  JobsInv' /\ SerialJobs'
<1>1. CASE Exit
  <2>1. QueueInv' /\ \A j \in JobId : jobs'[j].status = "absent" /\ ~Executing(j)'
    BY <1>1, ForgetJobsFacts DEF Exit
  <2>2. \A j \in JobId : thread'[j].step # "idle" =>
           phase' = "draining" /\ thread'[j] = thread[j]
    BY <1>1 DEF Exit, NoThread
  <2>3. phase' \in {"down", "draining"} /\ save' = NoSave
    BY <1>1 DEF Exit, LoopFree
  <2>4. QED
    BY <2>1, <2>2, <2>3 DEF JobsInv, ThreadInv, PhaseInv, SerialJobs, Working
<1>2. CASE Drained
  <2>1. UNCHANGED <<jobs, locked, queue, save, pending>> /\ phase = "draining"
    BY <1>2 DEF Drained, jobVars, runVars
  <2>2. \A j \in JobId : thread'[j].step = "idle" /\ jobs[j].status = "absent"
    BY <1>2, <2>1 DEF Drained, NoThread, JobsInv, PhaseInv
  <2>3. phase' = "down" /\ save = NoSave
    BY <1>2, <2>1 DEF Drained, JobsInv, PhaseInv
  <2>4. QED
    BY <2>1, <2>2, <2>3
       DEF JobsInv, QueueInv, ThreadInv, PhaseInv, SerialJobs, Working, Executing
<1>3. CASE Crash
  <2>1. QueueInv' /\ \A j \in JobId : jobs'[j].status = "absent" /\ ~Executing(j)'
    BY <1>3, ForgetJobsFacts DEF Crash
  <2>2. \A j \in JobId : thread'[j].step = "idle"
    BY <1>3 DEF Crash, NoThread
  <2>3. phase' = "down" /\ save' = NoSave
    BY <1>3 DEF Crash
  <2>4. QED
    BY <2>1, <2>2, <2>3 DEF JobsInv, ThreadInv, PhaseInv, SerialJobs, Working
<1>4. QED
  BY <1>1, <1>2, <1>3

LEMMA JobsStep ==
    TypeOK /\ JobsInv /\ SerialJobs /\ [Next]_vars => JobsInv' /\ SerialJobs'
<1> SUFFICES ASSUME TypeOK, JobsInv, SerialJobs, [Next]_vars
             PROVE  JobsInv' /\ SerialJobs'
  OBVIOUS
<1>1. CASE Request
  BY <1>1, StartJobs DEF Request, StartInstall, StartUninstall, Op
<1>2. CASE \E j \in JobId : JobStep(j)
  BY <1>2, RunInstallJobs, InstallThreadJobs, FinishInstallJobs, RunUninstallJobs,
     FinishUninstallJobs DEF JobStep
<1>3. CASE Save
  BY <1>3, SaveJobs
<1>4. CASE Process
  BY <1>4, PhaseJobs, EndJobs DEF Process
<1>5. CASE UNCHANGED vars
  BY <1>5 DEF vars, persistent, jobVars, runVars, JobsInv, QueueInv, ThreadInv,
              PhaseInv, SerialJobs, Working, Executing
<1>6. QED
  BY <1>1, <1>2, <1>3, <1>4, <1>5 DEF Next

-----------------------------------------------------------------------------
(* The registry and its stale copies *)

\* Nothing about the registry changes while it, the threads' steps and views
\* and the config save stay as they are or go back to idle.
LEMMA RegistryKept ==
    ASSUME RegistryInv, registry' = registry,
           \A k \in JobId : thread'[k] = thread[k] \/ thread'[k].step = "idle",
           \/ save' = save /\ \A k \in JobId : thread'[k] = thread[k]
           \/ save' = NoSave
    PROVE  RegistryInv'
<1>1. Ordered(registry)'
  BY DEF RegistryInv, Ordered
<1>2. \A k \in JobId : thread'[k].step \in {"script", "read", "write"} =>
         Admissible(thread'[k].module, registry')
  BY DEF RegistryInv
<1>3. \A k \in JobId : thread'[k].step = "write" => thread'[k].view = registry'
  BY DEF RegistryInv
<1>4. save'.step = "write" =>
         \/ save'.view = registry'
         \/ /\ Ordered(save'.view)
            /\ \E k \in JobId :
                  /\ thread'[k].step \in {"list", "publish", "returned"}
                  /\ registry' = Append(save'.view, thread'[k].module)
  BY DEF RegistryInv, NoSave
<1>5. QED
  BY <1>1, <1>2, <1>3, <1>4 DEF RegistryInv, Ordered, Admissible

LEMMA CheckInstallRegistry ==
    ASSUME TypeOK, SerialJobs, RegistryInv, NEW j \in JobId, CheckInstall(j)
    PROVE  RegistryInv'
<1>1. /\ thread[j].step = "check" /\ UNCHANGED <<registry, save>>
      /\ \E s \in {"invalid", "raised", "script"} :
            /\ Goto(j, s)
            /\ s = "script" => Admissible(thread[j].module, registry)
  BY DEF CheckInstall, At, MissingDeps, Installed, Admissible, persistent
<1>2. PICK s \in {"invalid", "raised", "script"} :
         /\ Goto(j, s)
         /\ s = "script" => Admissible(thread[j].module, registry)
  BY <1>1
<1>3. /\ \A k \in JobId : k # j => thread'[k] = thread[k]
      /\ thread'[j].step = s /\ thread'[j].module = thread[j].module
  BY <1>2, GotoFacts DEF ThreadStep
<1>4. \A k \in JobId : k # j => thread[k].step = "idle"
  BY <1>1 DEF SerialJobs, Working
<1>5. \A k \in JobId : thread[k].step \notin {"list", "publish", "returned"}
  BY <1>1, <1>4
<1>6. QED
  BY <1>1, <1>2, <1>3, <1>4, <1>5 DEF RegistryInv, Ordered, Admissible

\* Steps of the thread that leave the registry and do not come to its write.
LEMMA ScriptRegistry ==
    ASSUME TypeOK, SerialJobs, RegistryInv, NEW j \in JobId,
           InstallScript(j) \/ RollbackScript(j)
    PROVE  RegistryInv'
<1>1. /\ thread[j].step \in {"script", "rollback"} /\ UNCHANGED <<registry, save>>
      /\ \E s \in {"read", "rollback", "raised"} :
            Goto(j, s) /\ (s = "read" => thread[j].step = "script")
  BY DEF InstallScript, RollbackScript, At
<1>2. PICK s \in {"read", "rollback", "raised"} :
         Goto(j, s) /\ (s = "read" => thread[j].step = "script")
  BY <1>1
<1>3. /\ \A k \in JobId : k # j => thread'[k] = thread[k]
      /\ thread'[j].step = s /\ thread'[j].module = thread[j].module
  BY <1>2, GotoFacts DEF ThreadStep
<1>4. \A k \in JobId : k # j => thread[k].step = "idle"
  BY <1>1 DEF SerialJobs, Working
<1>5. \A k \in JobId : thread[k].step \notin {"list", "publish", "returned"}
  BY <1>1, <1>4
<1>6. QED
  BY <1>1, <1>2, <1>3, <1>4, <1>5 DEF RegistryInv, Ordered, Admissible

LEMMA ReadRegistryRegistry ==
    ASSUME TypeOK, SerialJobs, RegistryInv, NEW j \in JobId, ReadRegistry(j)
    PROVE  RegistryInv'
<1>1. thread[j].step = "read" /\ UNCHANGED <<registry, save>>
  BY DEF ReadRegistry, At, persistent
<1>2. /\ \A k \in JobId : k # j => thread'[k] = thread[k]
      /\ thread'[j].module = thread[j].module
      /\ \/ thread'[j].step = "raised"
         \/ thread'[j].step = "write" /\ thread'[j].view = registry
  BY GotoFacts, ReadAndGotoFacts DEF ReadRegistry, ThreadStep
<1>3. \A k \in JobId : k # j => thread[k].step = "idle"
  BY <1>1 DEF SerialJobs, Working
<1>4. \A k \in JobId : thread[k].step \notin {"list", "publish", "returned"}
  BY <1>1, <1>3
<1>5. QED
  BY <1>1, <1>2, <1>3, <1>4 DEF RegistryInv, Ordered, Admissible

\* The one step of an install that changes the registry.  A save that was in
\* its way holds the list as it was before.
LEMMA WriteRegistryRegistry ==
    ASSUME TypeOK, JobsInv, SerialJobs, RegistryInv, NEW j \in JobId, WriteRegistry(j)
    PROVE  RegistryInv' /\ Installed' = Installed \cup {thread[j].module}
           /\ Admissible(thread[j].module, registry)
<1>1. /\ thread[j].step = "write" /\ thread[j].view = registry /\ save' = save
      /\ registry' = Append(registry, thread[j].module)
      /\ Admissible(thread[j].module, registry)
      /\ thread[j].module \in Module /\ registry \in Seq(Module) /\ Ordered(registry)
  BY DEF WriteRegistry, At, RegistryInv, JobsInv, ThreadInv, TypeOK
<1>2. /\ \A k \in JobId : k # j => thread'[k] = thread[k]
      /\ thread'[j].step = "list" /\ thread'[j].module = thread[j].module
  BY GotoFacts DEF WriteRegistry, ThreadStep
<1>3. \A k \in JobId : k # j => thread[k].step = "idle"
  BY <1>1 DEF SerialJobs, Working
<1>4. /\ ToSet(registry') = ToSet(registry) \cup {thread[j].module}
      /\ Ordered(registry')
  BY <1>1, AppendOrdered
<1>5. save'.step = "write" => save'.view = registry
  BY <1>1, <1>3 DEF RegistryInv
<1>6. RegistryInv'
  <2>1. \A k \in JobId : thread'[k].step \notin {"script", "read", "write"}
    BY <1>2, <1>3
  <2>2. Ordered(registry)'
    BY <1>4 DEF Ordered
  <2>3. save'.step = "write" =>
           /\ Ordered(save'.view)
           /\ \E k \in JobId : /\ thread'[k].step = "list"
                              /\ registry' = Append(save'.view, thread'[k].module)
    BY <1>1, <1>2, <1>5
  <2>4. QED
    BY <2>1, <2>2, <2>3 DEF RegistryInv, Ordered
<1>7. QED
  BY <1>1, <1>4, <1>6 DEF Installed

LEMMA PromptsRegistry ==
    ASSUME TypeOK, SerialJobs, RegistryInv, NEW j \in JobId,
           ListForPrompts(j) \/ PublishPrompts(j)
    PROVE  RegistryInv'
<1>1. thread[j].step \in {"list", "publish"} /\ UNCHANGED <<registry, save>>
  BY DEF ListForPrompts, PublishPrompts, At, persistent
<1>2. /\ \A k \in JobId : k # j => thread'[k] = thread[k]
      /\ thread'[j].step \in {"publish", "returned"}
      /\ thread'[j].module = thread[j].module
  BY GotoFacts, ReadAndGotoFacts DEF ListForPrompts, PublishPrompts, ThreadStep
<1>3. \A k \in JobId : k # j => thread[k].step = "idle"
  BY <1>1 DEF SerialJobs, Working
<1>4. QED
  BY <1>1, <1>2, <1>3 DEF RegistryInv, Ordered, Admissible

\* What an uninstall leaves of the registry: all of it, or all but a module no
\* entry depends on.
LEMMA TeardownRegistry ==
    ASSUME TypeOK, RegistryInv, NEW j \in JobId, NEW m \in Module,
           MayUninstall(m), Teardown(j, m)
    PROVE  /\ Ordered(registry)'
           /\ \/ registry' = registry
              \/ Installed' = Installed \ {m}
<1>1. CASE registry' = registry
  BY <1>1 DEF RegistryInv, Ordered
<1>2. CASE registry' = WithoutEntry(registry, m)
  <2>1. m \in ToSet(registry) /\ \A other \in ToSet(registry) : m \notin Depends[other]
    BY DEF MayUninstall, DependentsOf, Installed
  <2>2. registry \in Seq(Module) /\ Ordered(registry)
    BY DEF TypeOK, RegistryInv
  <2>3. Ordered(registry') /\ ToSet(registry') = ToSet(registry) \ {m}
    BY <1>2, <2>1, <2>2, WithoutEntryOrdered
  <2>4. QED
    BY <2>3 DEF Installed, Ordered
<1>3. QED
  BY <1>1, <1>2 DEF Teardown

\* An uninstall takes the registry from one ordered list to another while no
\* thread and no save holds a copy of it.
LEMMA UninstallRegistry ==
    ASSUME TypeOK, JobsInv, SerialJobs, RegistryInv, RemovalInv, NEW j \in JobId,
           UninstallStopped(j) \/ FinishUninstall(j)
    PROVE  /\ RegistryInv'
           /\ MayUninstall(jobs[j].module)
           /\ jobs[j].module \in Module
           /\ registry' = registry \/ Installed' = Installed \ {jobs[j].module}
<1>1. /\ MayUninstall(jobs[j].module) /\ Teardown(j, jobs[j].module)
      /\ LoopFree /\ UNCHANGED <<thread, save>>
  BY DEF UninstallStopped, FinishUninstall, Enter, RemovalInv, Removing
<1>2. jobs[j].module \in Module /\ \A k \in JobId : thread[k].step = "idle"
  <2>1. CASE UninstallStopped(j)
    BY <2>1, EnterFacts DEF UninstallStopped, Working
  <2>2. CASE FinishUninstall(j)
    BY <2>2, UninstallAlone DEF FinishUninstall, JobsInv, QueueInv, Executing
  <2>3. QED
    BY <2>1, <2>2
<1>3. /\ Ordered(registry)'
      /\ registry' = registry \/ Installed' = Installed \ {jobs[j].module}
  BY <1>1, <1>2, TeardownRegistry
<1>4. save' = NoSave
  BY <1>1 DEF LoopFree
<1>5. RegistryInv'
  BY <1>1, <1>2, <1>3, <1>4 DEF RegistryInv, NoSave
<1>6. QED
  BY <1>1, <1>2, <1>3, <1>5

\* A config save that comes late writes back an ordered list.
LEMMA SaveRegistry ==
    ASSUME TypeOK, JobsInv, SerialJobs, RegistryInv, Save
    PROVE  RegistryInv'
<1>1. thread' = thread
  BY DEF Save, SaveConfig, SaveWrite, SaveList, SavePublish
<1>2. CASE SaveConfig
  BY <1>1, <1>2 DEF SaveConfig, persistent, RegistryInv, Ordered, Admissible
<1>3. CASE SaveWrite
  <2>1. save.step = "write" /\ registry' = save.view /\ save'.step # "write"
    BY <1>3 DEF SaveWrite, TypeOK, SaveState
  <2>2. CASE registry' = registry
    BY <1>1, <2>1, <2>2 DEF RegistryInv, Ordered, Admissible
  <2>3. CASE registry' # registry
    <3>1. Ordered(registry')
      BY <2>1, <2>3 DEF RegistryInv
    <3>2. \E k \in JobId : thread[k].step \in {"list", "publish", "returned"}
      BY <2>1, <2>3 DEF RegistryInv
    <3>3. \A k \in JobId : thread[k].step \notin {"script", "read", "write"}
      BY <3>2 DEF SerialJobs, Working
    <3>4. QED
      BY <1>1, <2>1, <3>1, <3>3 DEF RegistryInv, Ordered
  <2>4. QED
    BY <2>2, <2>3
<1>4. CASE SaveList \/ SavePublish
  <2>1. registry' = registry /\ save'.step # "write"
    BY <1>4 DEF SaveList, SavePublish, persistent, NoSave
  <2>2. QED
    BY <1>1, <2>1 DEF RegistryInv, Ordered, Admissible
<1>5. QED
  BY <1>2, <1>3, <1>4 DEF Save

LEMMA ProcessRegistry ==
    ASSUME RegistryInv, JobsInv, Process
    PROVE  RegistryInv'
<1>1. registry' = registry
  BY DEF Process, Boot, StartNext, BeginShutdown, StopNext, Exit, Drained, Crash, persistent
<1>2. CASE Boot \/ StartNext \/ BeginShutdown \/ StopNext
  BY <1>1, <1>2, RegistryKept DEF Boot, StartNext, BeginShutdown, StopNext
<1>3. CASE Exit \/ Drained
  <2>1. \A k \in JobId : thread'[k] = thread[k] \/ thread'[k].step = "idle"
    BY <1>3 DEF Exit, Drained, NoThread
  <2>2. save' = NoSave
    BY <1>3 DEF Exit, Drained, LoopFree, JobsInv, PhaseInv
  <2>3. QED
    BY <1>1, <2>1, <2>2, RegistryKept
<1>4. CASE Crash
  BY <1>1, <1>4, RegistryKept DEF Crash, NoThread
<1>5. QED
  BY <1>2, <1>3, <1>4 DEF Process

LEMMA JobRegistry ==
    ASSUME TypeOK, JobsInv, SerialJobs, RegistryInv, RemovalInv,
           NEW j \in JobId, JobStep(j)
    PROVE  RegistryInv'
<1>1. CASE RunInstall(j)
  <2>1. /\ UNCHANGED <<registry, save>> /\ save = NoSave
        /\ \A k \in JobId : thread'[k] = thread[k] \/ thread'[k].step = "check"
    BY <1>1 DEF RunInstall, persistent, Enter, LoopFree, TypeOK
  <2>2. QED
    BY <2>1 DEF RegistryInv, Ordered, Admissible, NoSave
<1>2. CASE InstallThread(j)
  BY <1>2, CheckInstallRegistry, ScriptRegistry, ReadRegistryRegistry,
     WriteRegistryRegistry, PromptsRegistry DEF InstallThread
<1>3. CASE FinishInstall(j)
  <2>1. /\ UNCHANGED <<registry, save>> /\ save = NoSave
        /\ \A k \in JobId : thread'[k] = thread[k] \/ thread'[k].step = "idle"
    BY <1>3 DEF FinishInstall, persistent, LoopFree, TypeOK, NoThread
  <2>2. QED
    BY <2>1, RegistryKept
<1>4. CASE RejectUninstall(j) \/ AwaitOnStop(j)
  <2>1. UNCHANGED <<registry, thread, save>>
    BY <1>4 DEF RejectUninstall, AwaitOnStop, persistent
  <2>2. QED
    BY <2>1, RegistryKept
<1>5. CASE UninstallStopped(j) \/ FinishUninstall(j)
  BY <1>5, UninstallRegistry
<1>6. QED
  BY <1>1, <1>2, <1>3, <1>4, <1>5 DEF JobStep, RunUninstall

LEMMA RegistryStep ==
    TypeOK /\ JobsInv /\ SerialJobs /\ RegistryInv /\ RemovalInv /\ [Next]_vars
        => RegistryInv'
<1> SUFFICES ASSUME TypeOK, JobsInv, SerialJobs, RegistryInv, RemovalInv, [Next]_vars
             PROVE  RegistryInv'
  OBVIOUS
<1>1. CASE Request
  <2>1. UNCHANGED <<registry, thread, save>>
    BY <1>1 DEF Request, StartInstall, StartUninstall, Start, persistent
  <2>2. QED
    BY <2>1, RegistryKept
<1>2. CASE \E j \in JobId : JobStep(j)
  BY <1>2, JobRegistry
<1>3. CASE Save
  BY <1>3, SaveRegistry
<1>4. CASE Process
  BY <1>4, ProcessRegistry
<1>5. CASE UNCHANGED vars
  BY <1>5, RegistryKept DEF vars, persistent
<1>6. QED
  BY <1>1, <1>2, <1>3, <1>4, <1>5 DEF Next

-----------------------------------------------------------------------------
(* An uninstall that awaits on_stop *)

LEMMA RemovalKept ==
    ASSUME RemovalInv, registry' = registry,
           \A j \in JobId : Removing(j)' => Removing(j) /\ jobs'[j].module = jobs[j].module
    PROVE  RemovalInv'
  BY DEF RemovalInv, MayUninstall, DependentsOf, Installed

\* A thread at work excludes an uninstall at work.
LEMMA NoRemoval ==
    ASSUME JobsInv, SerialJobs, NEW j \in JobId, thread[j].step # "idle"
    PROVE  \A k \in JobId : ~Removing(k)
<1> SUFFICES ASSUME NEW k \in JobId, Removing(k)
             PROVE  FALSE
  OBVIOUS
<1>1. k = j
  BY DEF SerialJobs, Working, Removing
<1>2. QED
  BY <1>1 DEF JobsInv, ThreadInv, PhaseInv, Removing, Executing

LEMMA JobRemoval ==
    ASSUME TypeOK, JobsInv, SerialJobs, RemovalInv, NEW j \in JobId, JobStep(j)
    PROVE  RemovalInv'
<1>1. CASE RunInstall(j)
  <2>1. /\ registry' = registry /\ jobs' = jobs
        /\ jobs[j].op = "install" /\ ToSet(queue') = ToSet(queue) \ {j}
    BY <1>1, EnterFacts DEF RunInstall, persistent
  <2>2. QED
    BY <2>1, RemovalKept DEF Removing, Executing
<1>2. CASE InstallThread(j)
  <2>1. thread[j].step # "idle" /\ jobs' = jobs /\ queue' = queue
    BY <1>2, ThreadMoves DEF jobVars
  <2>2. \A k \in JobId : ~Removing(k)'
    BY <2>1, NoRemoval DEF Removing, Executing
  <2>3. QED
    BY <2>2 DEF RemovalInv
<1>3. CASE FinishInstall(j)
  <2>1. Executing(j) /\ queue' = queue /\ thread[j].step # "idle"
    BY <1>3 DEF FinishInstall, Ended
  <2>2. jobs'[j].status \in {"done", "failed"}
    BY <1>3, FinishFacts DEF FinishInstall
  <2>3. \A k \in JobId : k # j /\ jobs'[k].status = "running" => jobs'[k] = jobs[k]
    BY <1>3, FinishFacts DEF FinishInstall
  <2>4. \A k \in JobId : ~Removing(k)'
    BY <2>1, <2>2, <2>3, NoRemoval DEF Removing, Executing
  <2>5. QED
    BY <2>4 DEF RemovalInv
<1>4. CASE AwaitOnStop(j)
  <2>1. /\ registry' = registry /\ jobs' = jobs /\ MayUninstall(jobs[j].module)
        /\ ToSet(queue') = ToSet(queue) \ {j}
    BY <1>4, EnterFacts DEF AwaitOnStop, persistent
  <2>2. \A k \in JobId : k # j /\ Removing(k)' => Removing(k)
    BY <2>1 DEF Removing, Executing
  <2>3. QED
    BY <2>1, <2>2 DEF RemovalInv, MayUninstall, DependentsOf, Installed
<1>5. CASE RejectUninstall(j) \/ UninstallStopped(j) \/ FinishUninstall(j)
  <2>1. \E status \in {"done", "failed"} : Finish(j, status, "none")
    BY <1>5 DEF RejectUninstall, UninstallStopped, FinishUninstall, Teardown
  <2>2. /\ jobs'[j].status \in {"done", "failed"}
        /\ \A k \in JobId : k # j /\ jobs'[k].status = "running" => jobs'[k] = jobs[k]
    BY <2>1, FinishFacts
  <2>3. \A k \in JobId : k # j => ~Executing(k)
    <3>1. CASE FinishUninstall(j)
      BY <3>1, UninstallAlone DEF FinishUninstall
    <3>2. CASE RejectUninstall(j) \/ UninstallStopped(j)
      BY <3>2, EnterFacts DEF RejectUninstall, UninstallStopped, Working
    <3>3. QED
      BY <1>5, <3>1, <3>2
  <2>4. ToSet(queue') = ToSet(queue) \/ ToSet(queue') = ToSet(queue) \ {j}
    BY <1>5, EnterFacts DEF RejectUninstall, UninstallStopped, FinishUninstall
  <2>5. \A k \in JobId : ~Removing(k)'
    BY <2>2, <2>3, <2>4 DEF Removing, Executing
  <2>6. QED
    BY <2>5 DEF RemovalInv
<1>6. QED
  BY <1>1, <1>2, <1>3, <1>4, <1>5 DEF JobStep, RunUninstall

LEMMA RemovalStep ==
    TypeOK /\ JobsInv /\ SerialJobs /\ RegistryInv /\ RemovalInv /\ [Next]_vars
        => RemovalInv'
<1> SUFFICES ASSUME TypeOK, JobsInv, SerialJobs, RegistryInv, RemovalInv, [Next]_vars
             PROVE  RemovalInv'
  OBVIOUS
<1>1. CASE Request
  <2> SUFFICES ASSUME NEW j \in JobId, NEW op \in Op, NEW m \in Module, Start(j, op, m)
               PROVE  RemovalInv'
    BY <1>1 DEF Request, StartInstall, StartUninstall, Op
  <2>1. /\ registry' = registry /\ queue' = Append(queue, j)
        /\ \A k \in JobId : k # j => jobs'[k] = jobs[k]
        /\ LoopFree /\ ~locked /\ jobs[j].status = "absent"
    BY DEF Start, Serving, persistent, TypeOK
  <2>2. ToSet(queue') = ToSet(queue) \cup {j}
    BY <2>1, AppendFacts DEF TypeOK, JobsInv, QueueInv
  <2>3. QED
    BY <2>1, <2>2, RemovalKept DEF Removing, Executing
<1>2. CASE \E j \in JobId : JobStep(j)
  BY <1>2, JobRemoval
<1>3. CASE Save
  <2>1. UNCHANGED <<jobs, queue>>
    BY <1>3 DEF Save, SaveConfig, SaveWrite, SaveList, SavePublish, jobVars
  <2>2. CASE registry' = registry
    BY <2>1, <2>2, RemovalKept DEF Removing, Executing
  <2>3. CASE registry' # registry
    <3>1. save.step = "write" /\ registry' = save.view
      BY <1>3, <2>3 DEF Save, SaveConfig, SaveWrite, SaveList, SavePublish, persistent
    <3>2. PICK k \in JobId : thread[k].step \in {"list", "publish", "returned"}
      BY <2>3, <3>1 DEF RegistryInv
    <3>3. \A i \in JobId : ~Removing(i)
      BY <3>2, NoRemoval
    <3>4. QED
      BY <2>1, <3>3 DEF RemovalInv, Removing, Executing
  <2>4. QED
    BY <2>2, <2>3
<1>4. CASE Process
  <2>1. registry' = registry
    BY <1>4 DEF Process, Boot, StartNext, BeginShutdown, StopNext, Exit, Drained,
                Crash, persistent
  <2>2. UNCHANGED <<jobs, queue>> \/ ForgetJobs
    BY <1>4 DEF Process, Boot, StartNext, BeginShutdown, StopNext, Exit, Drained,
                Crash, jobVars
  <2>3. QED
    BY <2>1, <2>2, ForgetJobsFacts, RemovalKept DEF Removing, Executing
<1>5. CASE UNCHANGED vars
  BY <1>5, RemovalKept DEF vars, persistent, jobVars, Removing, Executing
<1>6. QED
  BY <1>1, <1>2, <1>3, <1>4, <1>5 DEF Next

-----------------------------------------------------------------------------
(* What changes the registry *)

\* Only four kinds of steps change registry.json.
LEMMA RegistryWriters ==
    ASSUME [Next]_vars
    PROVE  \/ registry' = registry
           \/ \E j \in JobId : WriteRegistry(j)
           \/ \E j \in JobId : UninstallStopped(j) \/ FinishUninstall(j)
           \/ SaveWrite
<1> USE DEF persistent
<1>1. CASE Request
  BY <1>1 DEF Request, StartInstall, StartUninstall, Start
<1>2. CASE \E j \in JobId : JobStep(j)
  BY <1>2 DEF JobStep, RunInstall, InstallThread, CheckInstall, InstallScript,
              RollbackScript, ReadRegistry, ListForPrompts, PublishPrompts,
              FinishInstall, RunUninstall, RejectUninstall, AwaitOnStop
<1>3. CASE Save
  BY <1>3 DEF Save, SaveConfig, SaveList, SavePublish
<1>4. CASE Process
  BY <1>4 DEF Process, Boot, StartNext, BeginShutdown, StopNext, Exit, Drained, Crash
<1>5. CASE UNCHANGED vars
  BY <1>5 DEF vars
<1>6. QED
  BY <1>1, <1>2, <1>3, <1>4, <1>5 DEF Next

\* A late config save takes back the last install, and no other module: nothing
\* can depend on a module that was last to be installed.
LEMMA LateSave ==
    ASSUME TypeOK, JobsInv, RegistryInv, SaveWrite, registry' # registry
    PROVE  \E j \in JobId : LET m == thread[j].module IN
              /\ thread[j].step \in {"list", "publish", "returned"}
              /\ m \in Module /\ m \in Installed
              /\ Installed' = Installed \ {m}
              /\ \A other \in Installed : m \notin Depends[other]
<1>1. /\ save.step = "write" /\ registry' = save.view
      /\ save.view \in Seq(Module) /\ registry \in Seq(Module) /\ Ordered(registry)
  BY DEF SaveWrite, TypeOK, SaveState, RegistryInv
<1>2. PICK j \in JobId : /\ thread[j].step \in {"list", "publish", "returned"}
                         /\ registry = Append(save.view, thread[j].module)
  BY <1>1 DEF RegistryInv
<1> DEFINE m == thread[j].module
           old == save.view
<1>3. m \in Module
  BY <1>2 DEF JobsInv, ThreadInv
<1>4. /\ Len(old) \in Nat
      /\ DOMAIN old = 1..Len(old)
      /\ DOMAIN registry = 1..(Len(old) + 1)
      /\ \A i \in 1..Len(old) : registry[i] = old[i]
      /\ registry[Len(old) + 1] = m
  BY <1>1, <1>2, <1>3
<1>5. \A i \in 1..Len(old) : registry[i] # m
  BY <1>1, <1>4 DEF Ordered
<1>6. Installed' = Installed \ {m}
  <2>1. \A x \in ToSet(old) : x \in ToSet(registry) /\ x # m
    BY <1>4, <1>5 DEF ToSet
  <2>2. \A x \in ToSet(registry) : x # m => x \in ToSet(old)
    BY <1>4 DEF ToSet
  <2>3. QED
    BY <1>1, <2>1, <2>2 DEF Installed
<1>7. m \in Installed
  BY <1>4 DEF Installed, ToSet
<1>8. \A other \in Installed : m \notin Depends[other]
  <2> SUFFICES ASSUME NEW i \in DOMAIN registry, m \in Depends[registry[i]]
               PROVE  FALSE
    BY DEF Installed, ToSet
  <2>1. PICK k \in 1..(i - 1) : registry[k] = m
    BY <1>1 DEF Ordered
  <2>2. k \in 1..Len(old)
    BY <1>4, <2>1
  <2>3. QED
    BY <1>5, <2>1, <2>2
<1>9. QED
  BY <1>2, <1>3, <1>6, <1>7, <1>8

-----------------------------------------------------------------------------
(* The supervisor's handles: their order, and the order of stopping *)

\* registry.json lists a module after what it depends on: it can be started in
\* that order.
LEMMA OrderedStart ==
    ASSUME NEW list \in Seq(Module), Ordered(list)
    PROVE  StartOrder(list)
<1> SUFFICES ASSUME NEW i \in DOMAIN list, NEW k \in DOMAIN list, i < k
             PROVE  Before(list[i], list[k])
  BY DEF StartOrder
<1>1. list[i] # list[k]
  BY DEF Ordered
<1>2. ASSUME list[k] \in Depends[list[i]]
      PROVE  FALSE
  <2>1. PICK n \in 1..(i - 1) : list[n] = list[k]
    BY <1>2 DEF Ordered
  <2>2. n \in DOMAIN list
    BY <2>1
  <2>3. n = k
    BY <2>1, <2>2 DEF Ordered
  <2>4. QED
    BY <2>1, <2>3
<1>3. QED
  BY <1>1, <1>2 DEF Before

LEMMA SkippedStart ==
    ASSUME NEW list \in Seq(Module), StartOrder(list), SkipPromptOnly(list)
    PROVE  StartOrder(pending') /\ ToSet(pending') \subseteq ToSet(list)
<1>1. PICK n \in 0..Len(list) : pending' = SubSeq(list, n + 1, Len(list))
  BY DEF SkipPromptOnly
<1>2. /\ DOMAIN list = 1..Len(list) /\ Len(list) \in Nat
      /\ DOMAIN pending' = 1..(Len(list) - n)
      /\ \A i \in DOMAIN pending' : pending'[i] = list[n + i] /\ n + i \in DOMAIN list
  BY <1>1
<1>3. StartOrder(pending')
  BY <1>2 DEF StartOrder
<1>4. ToSet(pending') \subseteq ToSet(list)
  BY <1>2 DEF ToSet
<1>5. QED
  BY <1>3, <1>4

LEMMA TailStart ==
    ASSUME NEW list \in Seq(Module), list # <<>>
    PROVE  /\ Head(list) \in Module /\ Tail(list) \in Seq(Module)
           /\ ToSet(list) = {Head(list)} \cup ToSet(Tail(list))
           /\ StartOrder(list) =>
                 /\ StartOrder(Tail(list))
                 /\ \A x \in ToSet(Tail(list)) : Before(Head(list), x)
<1>1. /\ Len(list) \in Nat \ {0} /\ DOMAIN list = 1..Len(list)
      /\ DOMAIN Tail(list) = 1..(Len(list) - 1)
      /\ \A i \in DOMAIN Tail(list) : Tail(list)[i] = list[i + 1] /\ i + 1 \in DOMAIN list
      /\ Head(list) = list[1] /\ 1 \in DOMAIN list
      /\ Head(list) \in Module /\ Tail(list) \in Seq(Module)
  OBVIOUS
<1>2. ToSet(list) = {Head(list)} \cup ToSet(Tail(list))
  <2>1. \A i \in DOMAIN list : i # 1 => i - 1 \in DOMAIN Tail(list) /\ Tail(list)[i - 1] = list[i]
    BY <1>1
  <2>2. ASSUME NEW x \in ToSet(list), x # Head(list)
        PROVE  x \in ToSet(Tail(list))
    <3>1. PICK i \in DOMAIN list : list[i] = x
      BY DEF ToSet
    <3>2. i - 1 \in DOMAIN Tail(list) /\ Tail(list)[i - 1] = x
      BY <1>1, <2>1, <2>2, <3>1
    <3>3. QED
      BY <3>2 DEF ToSet
  <2>3. \A x \in {Head(list)} \cup ToSet(Tail(list)) : x \in ToSet(list)
    BY <1>1 DEF ToSet
  <2>4. QED
    BY <2>2, <2>3
<1>3. ASSUME StartOrder(list)
      PROVE  StartOrder(Tail(list)) /\ \A x \in ToSet(Tail(list)) : Before(Head(list), x)
  BY <1>1, <1>3 DEF StartOrder, ToSet
<1>4. QED
  BY <1>1, <1>2, <1>3

LEMMA AppendStart ==
    ASSUME NEW list \in Seq(Module), StartOrder(list),
           NEW m \in Module, \A h \in ToSet(list) : Before(h, m)
    PROVE  StartOrder(Append(list, m)) /\ ToSet(Append(list, m)) = ToSet(list) \cup {m}
<1> DEFINE new == Append(list, m)
<1>1. /\ Len(list) \in Nat /\ DOMAIN list = 1..Len(list)
      /\ DOMAIN new = 1..(Len(list) + 1)
      /\ \A i \in 1..Len(list) : new[i] = list[i]
      /\ new[Len(list) + 1] = m
  OBVIOUS
<1> HIDE DEF new
<1>2. StartOrder(new)
  BY <1>1 DEF StartOrder, ToSet
<1>3. ToSet(new) = ToSet(list) \cup {m}
  <2>1. \A x \in ToSet(new) : x \in ToSet(list) \cup {m}
    BY <1>1 DEF ToSet
  <2>2. \A x \in ToSet(list) : x \in ToSet(new)
    BY <1>1 DEF ToSet
  <2>3. m \in ToSet(new)
    BY <1>1 DEF ToSet
  <2>4. QED
    BY <2>1, <2>2, <2>3
<1>4. QED
  BY <1>2, <1>3 DEF new

LEMMA WithoutEntryStart ==
    ASSUME NEW list \in Seq(Module), NEW m \in Module, StartOrder(list)
    PROVE  /\ StartOrder(WithoutEntry(list, m))
           /\ ToSet(WithoutEntry(list, m)) = ToSet(list) \ {m}
<1>1. CASE m \notin ToSet(list)
  BY <1>1, WithoutEntryFacts
<1>2. CASE m \in ToSet(list)
  <2>1. PICK at \in DOMAIN list :
           /\ list[at] = m
           /\ WithoutEntry(list, m) =
                [i \in 1..(Len(list) - 1) |-> list[IF i < at THEN i ELSE i + 1]]
    BY <1>2, WithoutEntryFacts
  <2> DEFINE new == WithoutEntry(list, m)
             old(i) == IF i < at THEN i ELSE i + 1
  <2>2. /\ Len(list) \in Nat /\ DOMAIN list = 1..Len(list) /\ at \in 1..Len(list)
        /\ DOMAIN new = 1..(Len(list) - 1)
    BY <2>1
  <2>3. \A i \in DOMAIN new : new[i] = list[old(i)]
    BY <2>1
  <2>4. \A i \in DOMAIN new : old(i) \in DOMAIN list /\ old(i) # at
    BY <2>2
  <2>5. \A i, k \in DOMAIN new : i < k => old(i) < old(k)
    BY <2>2
  <2>6. \A k \in DOMAIN list : k # at => \E i \in DOMAIN new : old(i) = k
    <3> SUFFICES ASSUME NEW k \in DOMAIN list, k # at
                 PROVE  \E i \in DOMAIN new : old(i) = k
      OBVIOUS
    <3>1. CASE k < at
      BY <2>2, <3>1
    <3>2. CASE k > at
      <4>1. k - 1 \in DOMAIN new /\ old(k - 1) = k
        BY <2>2, <3>2
      <4>2. QED
        BY <4>1
    <3>3. QED
      BY <2>2, <3>1, <3>2
  <2>7. \A k \in DOMAIN list : k # at => list[k] # m
    BY <2>1, <2>2 DEF StartOrder, Before
  <2> HIDE DEF new, old
  <2>8. StartOrder(new)
    BY <2>3, <2>4, <2>5 DEF StartOrder
  <2>9. ToSet(new) = ToSet(list) \ {m}
    <3>1. \A x \in ToSet(new) : x \in ToSet(list) \ {m}
      BY <2>3, <2>4, <2>7 DEF ToSet
    <3>2. \A x \in ToSet(list) \ {m} : x \in ToSet(new)
      BY <2>1, <2>3, <2>6 DEF ToSet
    <3>3. QED
      BY <3>1, <3>2
  <2>10. QED
    BY <2>8, <2>9 DEF new
<1>3. QED
  BY <1>1, <1>2

\* What stop_all goes through: the same modules, the last one first.
LEMMA StopOrderFacts ==
    ASSUME NEW list \in Seq(Module), StartOrder(list)
    PROVE  /\ ToSet(StopOrder(list)) = ToSet(list)
           /\ \A i, k \in DOMAIN StopOrder(list) :
                 i < k => Before(StopOrder(list)[k], StopOrder(list)[i])
<1> DEFINE new == StopOrder(list)
<1>1. /\ Len(list) \in Nat /\ DOMAIN list = 1..Len(list) /\ DOMAIN new = 1..Len(list)
      /\ \A i \in 1..Len(list) : new[i] = list[Len(list) - i + 1]
  BY DEF StopOrder, Reverse
<1> HIDE DEF new
<1>2. \A x \in ToSet(new) : x \in ToSet(list)
  BY <1>1 DEF ToSet
<1>3. \A i \in DOMAIN list : list[i] \in ToSet(new)
  <2> SUFFICES ASSUME NEW i \in DOMAIN list
               PROVE  list[i] \in ToSet(new)
    OBVIOUS
  <2>1. Len(list) - i + 1 \in DOMAIN new /\ new[Len(list) - i + 1] = list[i]
    BY <1>1
  <2>2. QED
    BY <2>1 DEF ToSet
<1>4. \A i, k \in DOMAIN new : i < k => Before(new[k], new[i])
  BY <1>1 DEF StartOrder
<1>5. QED
  BY <1>2, <1>3, <1>4 DEF new, ToSet

LEMMA RunKept ==
    ASSUME RunInv, UNCHANGED <<phase, runVars>>
    PROVE  RunInv'
  BY DEF RunInv, runVars, StartOrder

LEMMA FinishUninstallRun ==
    ASSUME TypeOK, JobsInv, RunInv, NEW j \in JobId, FinishUninstall(j)
    PROVE  RunInv' /\ ToSet(handles') = ToSet(handles) \ {jobs[j].module}
<1>1. /\ LoopFree /\ jobs[j].module \in Module
      /\ live' = live \ {jobs[j].module} /\ handles' = WithoutEntry(handles, jobs[j].module)
      /\ UNCHANGED <<phase, pending>>
  BY DEF FinishUninstall, DropHandle, Executing, JobsInv, QueueInv
<1>2. /\ StartOrder(handles')
      /\ ToSet(handles') = ToSet(handles) \ {jobs[j].module}
  BY <1>1, WithoutEntryStart DEF TypeOK, RunInv
<1>3. QED
  BY <1>1, <1>2 DEF RunInv, LoopFree, StartOrder

LEMMA EmptyList == ToSet(<<>>) = {} /\ StartOrder(<<>>)
  BY DEF ToSet, StartOrder

LEMMA BootRun ==
    ASSUME TypeOK, RegistryInv, RunInv, Boot
    PROVE  RunInv' /\ ToSet(pending') \subseteq Installed
<1>1. /\ phase = "down" /\ handles = <<>> /\ live = {}
      /\ UNCHANGED <<handles, live>> /\ phase' \in {"up", "boot"}
      /\ SkipPromptOnly(registry)
  BY EmptyList DEF Boot, RunInv
<1>2. registry \in Seq(Module) /\ StartOrder(registry)
  BY OrderedStart DEF TypeOK, RegistryInv
<1>3. StartOrder(pending') /\ ToSet(pending') \subseteq ToSet(registry)
  BY <1>1, <1>2, SkippedStart
<1>4. QED
  BY <1>1, <1>3, EmptyList DEF RunInv, StartOrder, Installed

LEMMA StartNextRun ==
    ASSUME TypeOK, JobsInv, RunInv, StartNext
    PROVE  /\ RunInv' /\ ToSet(pending') \subseteq ToSet(pending)
           /\ ToSet(handles') \subseteq ToSet(handles) \cup ToSet(pending)
<1>1. phase = "boot" /\ pending # <<>> /\ pending \in Seq(Module) /\ handles \in Seq(Module)
  BY DEF StartNext, JobsInv, PhaseInv, TypeOK
<1>2. /\ Head(pending) \in Module /\ Tail(pending) \in Seq(Module)
      /\ ToSet(pending) = {Head(pending)} \cup ToSet(Tail(pending))
      /\ StartOrder(Tail(pending))
      /\ \A x \in ToSet(Tail(pending)) : Before(Head(pending), x)
  BY <1>1, TailStart DEF RunInv
<1>3. /\ StartOrder(handles) /\ live \subseteq ToSet(handles)
      /\ \A h \in ToSet(handles), p \in ToSet(pending) : Before(h, p)
  BY <1>1 DEF RunInv
<1>4. StartOrder(pending') /\ ToSet(pending') \subseteq ToSet(Tail(pending))
  BY <1>2, SkippedStart DEF StartNext
<1>5. /\ StartOrder(handles') /\ live' \subseteq ToSet(handles')
      /\ ToSet(handles') \subseteq ToSet(handles) \cup {Head(pending)}
  <2>1. CASE handles' = Append(handles, Head(pending)) /\ live' = live \cup {Head(pending)}
    BY <1>1, <1>2, <1>3, <2>1, AppendStart
  <2>2. CASE UNCHANGED <<handles, live>>
    BY <1>3, <2>2
  <2>3. QED
    BY <2>1, <2>2 DEF StartNext
<1>6. \A h \in ToSet(handles'), p \in ToSet(pending') : Before(h, p)
  BY <1>2, <1>3, <1>4, <1>5
<1>7. phase' \in {"up", "boot"}
  BY DEF StartNext
<1>8. RunInv'
  BY <1>4, <1>5, <1>6, <1>7 DEF RunInv, StartOrder
<1>9. QED
  BY <1>2, <1>4, <1>5, <1>8

LEMMA BeginShutdownRun ==
    ASSUME TypeOK, RunInv, BeginShutdown
    PROVE  RunInv'
<1>1. /\ handles \in Seq(Module) /\ StartOrder(handles) /\ live \subseteq ToSet(handles)
      /\ pending' = StopOrder(handles) /\ UNCHANGED <<handles, live>>
      /\ phase' \in {"closing", "stopping"}
  BY DEF BeginShutdown, RunInv, TypeOK
<1>2. /\ ToSet(pending') = ToSet(handles)
      /\ \A i, k \in DOMAIN pending' : i < k => Before(pending'[k], pending'[i])
  BY <1>1, StopOrderFacts
<1>3. QED
  BY <1>1, <1>2 DEF RunInv, StartOrder

\* The module that is stopped next comes after everything it depends on.
LEMMA StopNextRun ==
    ASSUME TypeOK, JobsInv, RunInv, StopNext
    PROVE  /\ RunInv' /\ ToSet(handles') \subseteq ToSet(handles)
           /\ live' = live \ {Head(pending)}
           /\ \A d \in live' : Head(pending) \notin Depends[d]
<1>1. /\ phase = "stopping" /\ pending # <<>> /\ pending \in Seq(Module)
      /\ live' = live \ {Head(pending)} /\ pending' = Tail(pending)
  BY DEF StopNext, JobsInv, PhaseInv, TypeOK
<1>2. /\ \A i, k \in DOMAIN pending : i < k => Before(pending[k], pending[i])
      /\ live \subseteq ToSet(pending) /\ live \subseteq ToSet(handles) /\ StartOrder(handles)
  BY <1>1 DEF RunInv
<1>3. /\ Len(pending) \in Nat \ {0} /\ DOMAIN pending = 1..Len(pending)
      /\ DOMAIN pending' = 1..(Len(pending) - 1)
      /\ \A i \in DOMAIN pending' : pending'[i] = pending[i + 1]
      /\ Head(pending) = pending[1]
  BY <1>1
<1>4. ToSet(pending) = {Head(pending)} \cup ToSet(pending')
  BY <1>1, TailStart
<1>5. \A i, k \in DOMAIN pending' : i < k => Before(pending'[k], pending'[i])
  BY <1>2, <1>3
<1>6. \A d \in ToSet(pending') : Before(d, Head(pending))
  BY <1>2, <1>3 DEF ToSet
<1>7. live' \subseteq ToSet(pending')
  BY <1>1, <1>2, <1>4
<1>8. \A d \in live' : Head(pending) \notin Depends[d]
  BY <1>6, <1>7 DEF Before
<1>9. CASE pending' = <<>>
  <2>1. handles' = <<>> /\ phase' = "closing" /\ live' = {}
    BY <1>7, <1>9, EmptyList DEF StopNext
  <2>2. QED
    BY <1>1, <1>8, <2>1, EmptyList DEF RunInv, StartOrder
<1>10. CASE pending' # <<>>
  <2>1. UNCHANGED <<phase, handles>>
    BY <1>10 DEF StopNext
  <2>2. QED
    BY <1>1, <1>2, <1>5, <1>7, <1>8, <2>1 DEF RunInv, StartOrder
<1>11. QED
  BY <1>9, <1>10

LEMMA EndRun ==
    ASSUME RunInv, Exit \/ Drained \/ Crash
    PROVE  RunInv' /\ handles' = <<>> /\ live' = {} /\ phase' \in {"down", "draining"}
<1>1. handles' = <<>> /\ live' = {} /\ phase' \in {"down", "draining"}
  <2>1. CASE Exit \/ Crash
    BY <2>1 DEF Exit, Crash, ForgetModules
  <2>2. CASE Drained
    BY <2>2, EmptyList DEF Drained, RunInv, runVars
  <2>3. QED
    BY <2>1, <2>2
<1>2. QED
  BY <1>1, EmptyList DEF RunInv, StartOrder

\* Of a job's steps only the end of an uninstall touches the supervisor.
LEMMA JobRun ==
    ASSUME TypeOK, NEW j \in JobId, JobStep(j), ~FinishUninstall(j)
    PROVE  UNCHANGED <<phase, runVars>>
  BY ThreadMoves DEF JobStep, RunInstall, FinishInstall, RunUninstall, RejectUninstall,
     UninstallStopped, AwaitOnStop

LEMMA RunStep == TypeOK /\ JobsInv /\ RegistryInv /\ RunInv /\ [Next]_vars => RunInv'
<1> SUFFICES ASSUME TypeOK, JobsInv, RegistryInv, RunInv, [Next]_vars
             PROVE  RunInv'
  OBVIOUS
<1>1. CASE Request
  BY <1>1, RunKept DEF Request, StartInstall, StartUninstall, Start
<1>2. CASE \E j \in JobId : JobStep(j)
  BY <1>2, RunKept, JobRun, FinishUninstallRun
<1>3. CASE Save
  BY <1>3, RunKept DEF Save, SaveConfig, SaveWrite, SaveList, SavePublish
<1>4. CASE Process
  BY <1>4, BootRun, StartNextRun, BeginShutdownRun, StopNextRun, EndRun DEF Process
<1>5. CASE UNCHANGED vars
  BY <1>5, RunKept DEF vars
<1>6. QED
  BY <1>1, <1>2, <1>3, <1>4, <1>5 DEF Next

-----------------------------------------------------------------------------
(* The handles, the registry and CLAUDE.md *)

\* A module that has a job at work, or a thread, is not found during start_all
\* when nobody is served then.
LEMMA BootIdle ==
    ASSUME JobsInv, HandlesInv, "boot" \notin Overlap, phase = "boot"
    PROVE  \A k \in JobId : jobs[k].status = "absent" /\ thread[k].step = "idle"
  BY DEF HandlesInv, JobsInv, ThreadInv, Executing

\* Where the installed modules, the handles and the start list are not touched,
\* and no thread enters the steps after its write, the handles stay registered.
LEMMA HandlesKept ==
    ASSUME HandlesInv,
           UNCHANGED <<phase, registry, handles, pending>>,
           \A k \in JobId : \/ thread'[k].step \notin {"list", "publish", "returned"}
                            \/ thread'[k] = thread[k],
           "boot" \notin Overlap /\ phase = "boot" => UNCHANGED <<jobs, save>>
    PROVE  HandlesInv'
  BY DEF HandlesInv, HandlesRegistered, Installed

LEMMA ThreadHandles ==
    ASSUME TypeOK, JobsInv, SerialJobs, RegistryInv, HandlesInv,
           NEW j \in JobId, InstallThread(j)
    PROVE  HandlesInv'
<1> SUFFICES ASSUME "boot" \notin Overlap
             PROVE  HandlesInv'
  BY DEF HandlesInv
<1>1. /\ thread[j].step # "idle"
      /\ UNCHANGED <<phase, jobs, save, handles, pending>>
      /\ \A k \in JobId : k # j => thread'[k] = thread[k]
      /\ thread'[j].module = thread[j].module
  BY ThreadMoves DEF jobVars, runVars
<1>2. CASE WriteRegistry(j)
  <2>1. /\ Installed' = Installed \cup {thread[j].module}
        /\ Admissible(thread[j].module, registry)
    BY <1>2, WriteRegistryRegistry
  <2>2. thread[j].module \notin ToSet(handles)
    BY <2>1 DEF HandlesInv, HandlesRegistered, Admissible, Installed
  <2>3. QED
    BY <1>1, <2>1, <2>2 DEF HandlesInv, HandlesRegistered
<1>3. CASE ListForPrompts(j) \/ PublishPrompts(j)
  <2>1. registry' = registry /\ thread[j].step \in {"list", "publish"}
    BY <1>3 DEF ListForPrompts, PublishPrompts, At, persistent
  <2>2. QED
    BY <1>1, <2>1 DEF HandlesInv, HandlesRegistered, Installed
<1>4. CASE CheckInstall(j) \/ InstallScript(j) \/ RollbackScript(j) \/ ReadRegistry(j)
  <2>1. registry' = registry
    BY <1>4 DEF CheckInstall, InstallScript, RollbackScript, ReadRegistry, persistent
  <2>2. thread'[j].step \in {"invalid", "raised", "script", "read", "rollback", "write"}
    BY <1>4, GotoFacts, ReadAndGotoFacts
       DEF CheckInstall, InstallScript, RollbackScript, ReadRegistry, ThreadStep
  <2>3. QED
    BY <1>1, <2>1, <2>2, HandlesKept
<1>5. QED
  BY <1>2, <1>3, <1>4 DEF InstallThread

LEMMA UninstallHandles ==
    ASSUME TypeOK, JobsInv, SerialJobs, RegistryInv, RemovalInv, RunInv, HandlesInv,
           NEW j \in JobId, UninstallStopped(j) \/ FinishUninstall(j)
    PROVE  HandlesInv'
<1> SUFFICES ASSUME "boot" \notin Overlap
             PROVE  HandlesInv'
  BY DEF HandlesInv
<1> DEFINE m == jobs[j].module
<1>1. registry' = registry \/ Installed' = Installed \ {m}
  BY UninstallRegistry
<1>2. ToSet(handles') = ToSet(handles) \ {m}
  <2>1. CASE UninstallStopped(j)
    BY <2>1 DEF UninstallStopped, runVars
  <2>2. CASE FinishUninstall(j)
    BY <2>2, FinishUninstallRun
  <2>3. QED
    BY <2>1, <2>2
<1>3. UNCHANGED <<phase, thread>>
  BY DEF UninstallStopped, FinishUninstall
<1>4. jobs[j].status = "running"
  BY EnterFacts DEF UninstallStopped, FinishUninstall, Executing
<1>5. phase # "boot"
  BY <1>4, BootIdle
<1>6. QED
  BY <1>1, <1>2, <1>3, <1>5 DEF HandlesInv, HandlesRegistered, Installed

LEMMA JobHandles ==
    ASSUME TypeOK, JobsInv, SerialJobs, RegistryInv, RemovalInv, RunInv, HandlesInv,
           NEW j \in JobId, JobStep(j)
    PROVE  HandlesInv'
<1>1. CASE InstallThread(j)
  BY <1>1, ThreadHandles
<1>2. CASE UninstallStopped(j) \/ FinishUninstall(j)
  BY <1>2, UninstallHandles
<1>3. CASE RunInstall(j) \/ FinishInstall(j) \/ RejectUninstall(j) \/ AwaitOnStop(j)
  <2>1. UNCHANGED <<phase, registry, handles, pending>>
    BY <1>3 DEF RunInstall, FinishInstall, RejectUninstall, AwaitOnStop, persistent, runVars
  <2>2. \A k \in JobId : \/ thread'[k].step \notin {"list", "publish", "returned"}
                         \/ thread'[k] = thread[k]
    BY <1>3 DEF RunInstall, FinishInstall, RejectUninstall, AwaitOnStop, TypeOK, NoThread
  <2>3. jobs[j].status = "running"
    BY <1>3, EnterFacts
       DEF RunInstall, FinishInstall, RejectUninstall, AwaitOnStop, Executing
  <2>4. QED
    BY <2>1, <2>2, <2>3, BootIdle, HandlesKept
<1>4. QED
  BY <1>1, <1>2, <1>3 DEF JobStep, RunUninstall

LEMMA SaveHandles ==
    ASSUME TypeOK, JobsInv, RegistryInv, HandlesInv, Save
    PROVE  HandlesInv'
<1> SUFFICES ASSUME "boot" \notin Overlap
             PROVE  HandlesInv'
  BY DEF HandlesInv
<1>1. UNCHANGED <<phase, jobs, thread, handles, pending>>
  BY DEF Save, SaveConfig, SaveWrite, SaveList, SavePublish, jobVars, runVars
<1>2. phase # "boot"
  BY DEF Save, SaveConfig, SaveWrite, SaveList, SavePublish, Serving, HandlesInv, NoSave
<1>3. CASE registry' = registry
  BY <1>1, <1>2, <1>3 DEF HandlesInv, HandlesRegistered, Installed
<1>4. CASE registry' # registry
  <2>1. SaveWrite
    BY <1>4 DEF Save, SaveConfig, SaveList, SavePublish, persistent
  <2>2. PICK k \in JobId : /\ thread[k].step \in {"list", "publish", "returned"}
                           /\ Installed' = Installed \ {thread[k].module}
    BY <1>4, <2>1, LateSave
  <2>3. QED
    BY <1>1, <1>2, <2>2 DEF HandlesInv, HandlesRegistered
<1>5. QED
  BY <1>3, <1>4

LEMMA ProcessHandles ==
    ASSUME TypeOK, JobsInv, RegistryInv, RunInv, HandlesInv, Process
    PROVE  HandlesInv'
<1> SUFFICES ASSUME "boot" \notin Overlap
             PROVE  HandlesInv'
  BY DEF HandlesInv
<1>1. registry' = registry
  BY DEF Process, Boot, StartNext, BeginShutdown, StopNext, Exit, Drained, Crash, persistent
<1>2. CASE Boot
  <2>1. /\ handles' = <<>> /\ save' = NoSave
        /\ \A k \in JobId : jobs'[k].status = "absent" /\ thread'[k].step = "idle"
    BY <1>2 DEF Boot, RunInv, JobsInv, PhaseInv, ThreadInv, jobVars
  <2>2. QED
    BY <1>1, <1>2, <2>1, BootRun, EmptyList DEF HandlesInv, HandlesRegistered, Installed
<1>3. CASE StartNext
  <2>1. /\ phase = "boot" /\ UNCHANGED <<jobs, thread, save>>
    BY <1>3 DEF StartNext, jobVars
  <2>2. /\ ToSet(handles) \subseteq Installed /\ ToSet(pending) \subseteq Installed
        /\ \A k \in JobId : jobs'[k].status = "absent" /\ thread'[k].step = "idle"
        /\ save' = NoSave
    BY <2>1, BootIdle DEF HandlesInv, HandlesRegistered
  <2>3. QED
    BY <1>1, <1>3, <2>2, StartNextRun DEF HandlesInv, HandlesRegistered, Installed
<1>4. CASE BeginShutdown \/ StopNext
  <2>1. /\ UNCHANGED <<thread>> /\ phase' # "boot"
        /\ ToSet(handles') \subseteq ToSet(handles)
    BY <1>4, StopNextRun DEF BeginShutdown, StopNext
  <2>2. QED
    BY <1>1, <2>1 DEF HandlesInv, HandlesRegistered, Installed
<1>5. CASE Exit \/ Drained \/ Crash
  BY <1>1, <1>5, EndRun, EmptyList DEF HandlesInv, HandlesRegistered
<1>6. QED
  BY <1>2, <1>3, <1>4, <1>5 DEF Process

LEMMA HandlesStep ==
    ASSUME TypeOK, JobsInv, SerialJobs, RegistryInv, RemovalInv, RunInv, HandlesInv,
           [Next]_vars
    PROVE  HandlesInv'
<1>1. CASE Request
  <2>1. /\ UNCHANGED <<phase, registry, thread, handles, pending>>
        /\ "boot" \notin Overlap => phase # "boot"
    BY <1>1 DEF Request, StartInstall, StartUninstall, Start, Serving, persistent, runVars
  <2>2. QED
    BY <2>1, HandlesKept
<1>2. CASE \E j \in JobId : JobStep(j)
  BY <1>2, JobHandles
<1>3. CASE Save
  BY <1>3, SaveHandles
<1>4. CASE Process
  BY <1>4, ProcessHandles
<1>5. CASE UNCHANGED vars
  BY <1>5, HandlesKept DEF vars, persistent, jobVars, runVars
<1>6. QED
  BY <1>1, <1>2, <1>3, <1>4, <1>5 DEF Next

\* CLAUDE.md stays as current as it was.
LEMMA PromptsKept ==
    ASSUME PromptsInv, UNCHANGED <<registry, prompts, save>>,
           phase' = phase \/ phase' \in {"down", "draining"}
               \/ phase \notin {"down", "draining"},
           \A k \in JobId : thread'[k] = thread[k]
    PROVE  PromptsInv'
  BY DEF PromptsInv, Installed

LEMMA ThreadPrompts ==
    ASSUME TypeOK, JobsInv, SerialJobs, RegistryInv, PromptsInv,
           NEW j \in JobId, InstallThread(j)
    PROVE  PromptsInv'
<1> SUFFICES ASSUME "config" \notin Overlap
             PROVE  PromptsInv'
  BY DEF PromptsInv
<1>1. /\ thread[j].step # "idle" /\ UNCHANGED <<phase, save>>
      /\ \A k \in JobId : k # j => thread'[k] = thread[k]
      /\ thread'[j].module = thread[j].module
  BY ThreadMoves
<1>2. \A k \in JobId : k # j => thread[k].step = "idle"
  BY <1>1 DEF SerialJobs, Working
<1>3. /\ save = NoSave
      /\ \/ phase \in {"down", "draining"}
         \/ thread[j].step \in {"list", "publish"}
         \/ prompts = Installed
      /\ thread[j].step = "publish" => thread[j].view = registry
      /\ thread[j].step \in {"list", "publish", "returned"} => thread[j].module \in Installed
  BY <1>2 DEF PromptsInv
<1>4. CASE CheckInstall(j) \/ InstallScript(j) \/ RollbackScript(j) \/ ReadRegistry(j)
  <2>1. /\ UNCHANGED <<registry, prompts>>
        /\ thread[j].step \in {"check", "script", "rollback", "read"}
    BY <1>4 DEF CheckInstall, InstallScript, RollbackScript, ReadRegistry, persistent, At
  <2>2. thread'[j].step \in {"invalid", "raised", "script", "read", "rollback", "write"}
    BY <1>4, GotoFacts, ReadAndGotoFacts
       DEF CheckInstall, InstallScript, RollbackScript, ReadRegistry, ThreadStep
  <2>3. QED
    BY <1>1, <1>2, <1>3, <2>1, <2>2 DEF PromptsInv, Installed
<1>5. CASE WriteRegistry(j)
  <2>1. thread'[j].step = "list"
    BY <1>5, GotoFacts DEF WriteRegistry, ThreadStep
  <2>2. Installed' = Installed \cup {thread[j].module}
    BY <1>5, WriteRegistryRegistry
  <2>3. QED
    BY <1>1, <1>2, <1>3, <2>1, <2>2 DEF PromptsInv
<1>6. CASE ListForPrompts(j)
  <2>1. /\ UNCHANGED <<registry, prompts>> /\ thread[j].step = "list"
        /\ thread'[j].step = "publish" /\ thread'[j].view = registry
    BY <1>6, ReadAndGotoFacts DEF ListForPrompts, ThreadStep, At, persistent
  <2>2. QED
    BY <1>1, <1>2, <1>3, <2>1 DEF PromptsInv, Installed
<1>7. CASE PublishPrompts(j)
  <2>1. /\ UNCHANGED registry /\ thread[j].step = "publish" /\ thread'[j].step = "returned"
        /\ prompts' = ToSet(thread[j].view)
    BY <1>7, GotoFacts DEF PublishPrompts, ThreadStep, At
  <2>2. QED
    BY <1>1, <1>2, <1>3, <2>1 DEF PromptsInv, Installed
<1>8. QED
  BY <1>4, <1>5, <1>6, <1>7 DEF InstallThread

\* Where no thread is at work the two files agree, and a teardown rewrites both
\* or neither.
LEMMA IdlePrompts ==
    ASSUME PromptsInv, "config" \notin Overlap, LoopFree,
           \A k \in JobId : thread[k].step \notin {"list", "publish"}
    PROVE  prompts = Installed
  BY DEF PromptsInv, LoopFree

LEMMA JobPrompts ==
    ASSUME TypeOK, JobsInv, SerialJobs, RegistryInv, RemovalInv, PromptsInv,
           NEW j \in JobId, JobStep(j)
    PROVE  PromptsInv'
<1> SUFFICES ASSUME "config" \notin Overlap
             PROVE  PromptsInv'
  BY DEF PromptsInv
<1>1. CASE InstallThread(j)
  BY <1>1, ThreadPrompts
<1>2. CASE RunInstall(j)
  <2>1. /\ UNCHANGED <<phase, registry, prompts, save>> /\ LoopFree
        /\ \A k \in JobId : thread[k].step = "idle"
    BY <1>2, EnterFacts DEF RunInstall, persistent, Working
  <2>2. \A k \in JobId : thread'[k].step \in {"idle", "check"}
    BY <1>2, <2>1 DEF RunInstall, TypeOK
  <2>3. QED
    BY <2>1, <2>2, IdlePrompts DEF PromptsInv, Installed
<1>3. CASE FinishInstall(j)
  <2>1. /\ UNCHANGED <<phase, registry, prompts, save>> /\ LoopFree
        /\ thread[j].step \in Ended
        /\ \A k \in JobId : k # j => thread[k].step = "idle"
    BY <1>3 DEF FinishInstall, persistent, SerialJobs, Working
  <2>2. \A k \in JobId : thread'[k].step = "idle"
    BY <1>3, <2>1 DEF FinishInstall, TypeOK, NoThread
  <2>3. \A k \in JobId : thread[k].step \notin {"list", "publish"}
    BY <2>1 DEF Ended
  <2>4. QED
    BY <2>1, <2>2, <2>3, IdlePrompts DEF PromptsInv, Installed
<1>4. CASE RejectUninstall(j) \/ AwaitOnStop(j)
  BY <1>4, PromptsKept DEF RejectUninstall, AwaitOnStop, persistent
<1>5. CASE UninstallStopped(j) \/ FinishUninstall(j)
  <2>1. /\ UNCHANGED <<phase, thread, save>> /\ LoopFree
        /\ Teardown(j, jobs[j].module)
    BY <1>5 DEF UninstallStopped, FinishUninstall, Enter
  <2>2. \A k \in JobId : thread[k].step = "idle"
    BY <1>5, EnterFacts, UninstallAlone DEF UninstallStopped, FinishUninstall, Working
  <2>3. prompts = Installed
    BY <2>1, <2>2, IdlePrompts
  <2>4. prompts' = Installed'
    BY <2>1, <2>3 DEF Teardown, Installed
  <2>5. QED
    BY <2>1, <2>2, <2>4 DEF PromptsInv
<1>6. QED
  BY <1>1, <1>2, <1>3, <1>4, <1>5 DEF JobStep, RunUninstall

LEMMA PromptsStep ==
    ASSUME TypeOK, JobsInv, SerialJobs, RegistryInv, RemovalInv, PromptsInv, [Next]_vars
    PROVE  PromptsInv'
<1> SUFFICES ASSUME "config" \notin Overlap
             PROVE  PromptsInv'
  BY DEF PromptsInv
<1>1. CASE Request
  BY <1>1, PromptsKept DEF Request, StartInstall, StartUninstall, Start, persistent
<1>2. CASE \E j \in JobId : JobStep(j)
  BY <1>2, JobPrompts
<1>3. CASE Save
  BY <1>3 DEF Save, SaveConfig, SaveWrite, SaveList, SavePublish, PromptsInv, NoSave
<1>4. CASE Boot
  <2>1. UNCHANGED <<registry, save>> /\ prompts' = Installed
    BY <1>4 DEF Boot
  <2>2. \A k \in JobId : thread'[k].step = "idle"
    BY <1>4 DEF Boot, JobsInv, ThreadInv
  <2>3. QED
    BY <2>1, <2>2 DEF PromptsInv, Installed
<1>5. CASE StartNext \/ BeginShutdown \/ StopNext
  BY <1>5, PromptsKept DEF StartNext, BeginShutdown, StopNext, persistent
<1>6. CASE Exit \/ Drained \/ Crash
  <2>1. registry' = registry /\ phase' \in {"down", "draining"}
    BY <1>6 DEF Exit, Drained, Crash, persistent
  <2>2. save' = NoSave
    BY <1>6 DEF Exit, Drained, Crash, PromptsInv
  <2>3. \A k \in JobId : thread'[k] = thread[k] \/ thread'[k].step = "idle"
    BY <1>6 DEF Exit, Drained, Crash, NoThread
  <2>4. QED
    BY <2>1, <2>2, <2>3 DEF PromptsInv, Installed
<1>7. CASE UNCHANGED vars
  BY <1>7, PromptsKept DEF vars, persistent
<1>8. QED
  BY <1>1, <1>2, <1>3, <1>4, <1>5, <1>6, <1>7 DEF Next, Process

-----------------------------------------------------------------------------
(* Theorems *)

LEMMA InitInv == Init => IInv
<1> SUFFICES ASSUME Init
             PROVE  IInv
  OBVIOUS
<1>1. TypeOK
  <2>1. /\ [j \in JobId |-> NoJob] \in [JobId -> JobState]
        /\ [j \in JobId |-> NoThread] \in [JobId -> ThreadState]
        /\ NoSave \in SaveState
    <3>1. NoJob \in JobState
      BY DEF NoJob, JobState, Op, Status, Rollback
    <3>2. QED
      BY <3>1, ForgetType
  <2>2. \A S : <<>> \in Seq(S)
    OBVIOUS
  <2>3. QED
    BY <2>1, <2>2 DEF Init, TypeOK, Phase
<1>2. /\ \A j \in JobId : jobs[j].status = "absent" /\ thread[j].step = "idle"
      /\ queue = <<>> /\ registry = <<>> /\ save.step = "idle" /\ phase = "down"
      /\ save = NoSave /\ handles = <<>> /\ live = {} /\ prompts = {}
  BY DEF Init, NoJob, NoThread, NoSave
<1>3. \A j \in JobId : ~Working(j) /\ ~Executing(j)
  BY <1>2 DEF Working, Executing
<1>4. JobsInv /\ SerialJobs /\ RemovalInv
  BY <1>2, <1>3 DEF JobsInv, QueueInv, ThreadInv, PhaseInv, SerialJobs, RemovalInv,
                    Removing, ToSet
<1>5. RegistryInv
  BY <1>2 DEF RegistryInv, Ordered
<1>6. RunInv /\ HandlesInv /\ PromptsInv
  BY <1>2, EmptyList DEF RunInv, HandlesInv, HandlesRegistered, PromptsInv, Installed
<1>7. QED
  BY <1>1, <1>4, <1>5, <1>6 DEF IInv

\* The inductive invariant: it holds at the start and every step keeps it.
THEOREM Inductive == Spec => []IInv
<1>1. IInv /\ [Next]_vars => IInv'
  BY TypeStep, JobsStep, RegistryStep, RemovalStep, RunStep, HandlesStep, PromptsStep
     DEF IInv
<1>2. QED
  BY <1>1, InitInv, PTL DEF Spec

\* Every variable keeps its type, for any catalog of modules, any number of
\* jobs and whatever overlap.
THEOREM TypeCorrect == Spec => []TypeOK
<1>1. IInv => TypeOK
  BY DEF IInv
<1>2. QED
  BY <1>1, Inductive, PTL

\* modules_jobs._lock does its work: two installs or uninstalls are never
\* inside lifecycle.py at one time, although a job takes the lock only after
\* its request was accepted, and a thread outlives the loop.
THEOREM JobsAreSerial == Spec => []SerialJobs
<1>1. IInv => SerialJobs
  BY DEF IInv
<1>2. QED
  BY <1>1, Inductive, PTL

\* The dependency checks of D-15 hold at all times, not only when they are
\* made: between the check and the write the thread runs scripts, and a config
\* save may write an older registry back.
THEOREM DependenciesHold == Spec => []DependenciesFirst
<1>1. IInv => DependenciesFirst
  BY DEF IInv, RegistryInv, Ordered, DependenciesFirst
<1>2. QED
  BY <1>1, Inductive, PTL

\* With requests only after start_all, the supervisor never holds a handle of a
\* module that is not in registry.json, whatever installs, uninstalls, config
\* saves, failures and crashes do.
THEOREM HandlesStayRegistered ==
    ASSUME "boot" \notin Overlap
    PROVE  Spec => []HandlesRegistered
<1>1. IInv => HandlesRegistered
  BY DEF IInv, HandlesInv
<1>2. QED
  BY <1>1, Inductive, PTL

\* While no job holds the lock, CLAUDE.md has the sections of the installed
\* modules, if no config is saved during an install: also with requests during
\* start_all, after a failed install or uninstall, and after a crash.
THEOREM PromptsStayCurrent ==
    ASSUME "config" \notin Overlap
    PROVE  Spec => []PromptsCurrent
<1>1. IInv => PromptsCurrent
  <2> SUFFICES ASSUME IInv, phase \in {"boot", "up", "stopping", "closing"}, ~locked
               PROVE  prompts = Installed
    BY DEF PromptsCurrent
  <2>1. \A j \in JobId : thread[j].step = "idle"
    BY DEF IInv, JobsInv, QueueInv, ThreadInv
  <2>2. QED
    BY <2>1 DEF IInv, PromptsInv
<1>2. QED
  BY <1>1, Inductive, PTL

\* An uninstall stops a module only when no installed module depends on it, so
\* none that runs does; stop_all stops the last one started first.
THEOREM DependentsStopFirst ==
    ASSUME "boot" \notin Overlap
    PROVE  Spec => StopsDependentsFirst
<1> DEFINE Kept == \A m \in live \ live' : \A d \in live' : m \notin Depends[d]
<1>1. IInv /\ [Next]_vars => Kept
  <2> SUFFICES ASSUME IInv, [Next]_vars
               PROVE  Kept
    OBVIOUS
  <2> USE DEF IInv
  <2>1. CASE live \subseteq live'
    BY <2>1
  <2>2. CASE \E j \in JobId : FinishUninstall(j)
    <3>1. PICK j \in JobId : FinishUninstall(j)
      BY <2>2
    <3>2. live' = live \ {jobs[j].module} /\ live \subseteq Installed
      BY <3>1 DEF FinishUninstall, RunInv, HandlesInv, HandlesRegistered
    <3>3. \A d \in Installed : jobs[j].module \notin Depends[d]
      BY <3>1, UninstallRegistry DEF MayUninstall, DependentsOf
    <3>4. QED
      BY <3>2, <3>3
  <2>3. CASE StopNext
    BY <2>3, StopNextRun
  <2>4. CASE Exit \/ Drained \/ Crash
    BY <2>4, EndRun
  <2>5. \/ live \subseteq live'
        \/ \E j \in JobId : FinishUninstall(j)
        \/ StopNext \/ Exit \/ Drained \/ Crash
    <3>1. CASE Request
      BY <3>1 DEF Request, StartInstall, StartUninstall, Start, runVars
    <3>2. CASE \E j \in JobId : JobStep(j)
      BY <3>2, JobRun DEF runVars
    <3>3. CASE Save
      BY <3>3 DEF Save, SaveConfig, SaveWrite, SaveList, SavePublish, runVars
    <3>4. CASE Process
      BY <3>4 DEF Process, Boot, StartNext, BeginShutdown
    <3>5. CASE UNCHANGED vars
      BY <3>5 DEF vars, runVars
    <3>6. QED
      BY <3>1, <3>2, <3>3, <3>4, <3>5 DEF Next
  <2>6. QED
    BY <2>1, <2>2, <2>3, <2>4, <2>5
<1>2. IInv /\ [Next]_vars => [Kept]_vars
  BY <1>1
<1>3. QED
  BY <1>2, Inductive, PTL DEF Spec, StopsDependentsFirst

\* Only a job's last step reports its outcome.
LEMMA WhoReports ==
    ASSUME IInv, [Next]_vars, NEW j \in JobId, NEW status \in {"done", "failed"},
           Reports(j, status)
    PROVE  \/ FinishInstall(j) \/ RejectUninstall(j)
           \/ UninstallStopped(j) \/ FinishUninstall(j)
<1> USE DEF IInv, Reports
<1>1. ASSUME NEW k \in JobId, k # j, NEW s, NEW r, Finish(k, s, r)
      PROVE  FALSE
  BY <1>1, FinishFacts
<1>2. jobs' # jobs
  OBVIOUS
<1>3. CASE Request
  <2>1. PICK k \in JobId, op \in Op, m \in Module : Start(k, op, m)
    BY <1>3 DEF Request, StartInstall, StartUninstall, Op
  <2>2. \A i \in JobId : jobs'[i] = jobs[i] \/ jobs[i].status = "absent"
    BY <2>1 DEF Start, TypeOK
  <2>3. QED
    BY <2>2
<1>4. CASE \E k \in JobId : JobStep(k)
  <2>1. PICK k \in JobId : JobStep(k)
    BY <1>4
  <2>2. \/ FinishInstall(k) \/ RejectUninstall(k)
        \/ UninstallStopped(k) \/ FinishUninstall(k)
    BY <1>2, <2>1, ThreadMoves DEF JobStep, RunInstall, RunUninstall, AwaitOnStop, jobVars
  <2>3. \E s, r : Finish(k, s, r)
    BY <2>2 DEF FinishInstall, RejectUninstall, UninstallStopped, FinishUninstall, Teardown
  <2>4. QED
    BY <1>1, <2>2, <2>3
<1>5. CASE Save
  BY <1>2, <1>5 DEF Save, SaveConfig, SaveWrite, SaveList, SavePublish, jobVars
<1>6. CASE Process
  <2>1. UNCHANGED jobs \/ ForgetJobs
    BY <1>6 DEF Process, Boot, StartNext, BeginShutdown, StopNext, Exit, Drained,
                Crash, jobVars
  <2>2. QED
    BY <1>2, <2>1, ForgetJobsFacts
<1>7. CASE UNCHANGED vars
  BY <1>2, <1>7 DEF vars, jobVars
<1>8. QED
  BY <1>3, <1>4, <1>5, <1>6, <1>7 DEF Next

\* The recorded status and rollback are those of Finish.
LEMMA FinishRecords ==
    ASSUME TypeOK, NEW j \in JobId, NEW status, NEW rollback, Finish(j, status, rollback)
    PROVE  jobs'[j].status = status /\ jobs'[j].rollback = rollback
<1>1. jobs'[j] = [jobs[j] EXCEPT !.status = status, !.rollback = rollback]
  BY DEF Finish
<1>2. jobs[j] \in JobState
  BY DEF TypeOK
<1>3. QED
  BY <1>1, <1>2 DEF JobState

\* What a job reports is so, if no config is saved while an install is at work:
\* the files, the hub directory and the supervisor agree with the outcome.
THEOREM OutcomesAreTrue ==
    ASSUME "config" \notin Overlap
    PROVE  Spec => OutcomeTruthful
<1> USE DEF TrueOutcome
<1>1. ASSUME IInv, NEW j \in JobId, FinishInstall(j)
      PROVE  TrueOutcome(j)
  <2> USE <1>1 DEF IInv
  <2>1. /\ LoopFree /\ thread[j].step \in Ended /\ UNCHANGED <<registry, prompts, hub>>
        /\ jobs[j].op = "install" /\ jobs[j].module = thread[j].module
        /\ \A k \in JobId : k # j => thread[k].step = "idle"
    BY DEF FinishInstall, persistent, Ended, LoopFree, JobsInv, ThreadInv, SerialJobs, Working
  <2>2. prompts = Installed
    BY <2>1, IdlePrompts DEF Ended
  <2>3. jobs'[j].status = "done" => thread[j].step = "returned"
    BY FinishRecords DEF FinishInstall
  <2>4. jobs'[j].rollback = "clean" => jobs[j].module \notin hub
    <3>1. jobs'[j].rollback = RollbackOf(j)
      BY FinishRecords DEF FinishInstall
    <3>2. QED
      BY <2>1, <3>1 DEF RollbackOf, Ended
  <2>5. thread[j].step = "returned" => jobs[j].module \in Installed
    BY <2>1 DEF PromptsInv
  <2>6. QED
    BY <2>1, <2>2, <2>3, <2>4, <2>5 DEF Reports, Installed
<1>2. ASSUME IInv, NEW j \in JobId, RejectUninstall(j)
      PROVE  TrueOutcome(j)
  BY <1>2, FinishRecords DEF IInv, RejectUninstall, Reports
<1>3. ASSUME IInv, NEW j \in JobId, UninstallStopped(j) \/ FinishUninstall(j)
      PROVE  TrueOutcome(j)
  <2> USE <1>3 DEF IInv
  <2>1. /\ Teardown(j, jobs[j].module) /\ MayUninstall(jobs[j].module)
        /\ jobs[j].module \in Module /\ jobs[j].op = "uninstall"
    BY EnterFacts, UninstallRegistry DEF UninstallStopped, FinishUninstall
  <2>2. jobs[j].module \notin ToSet(handles)'
    <3>1. CASE UninstallStopped(j)
      BY <3>1 DEF UninstallStopped, runVars
    <3>2. CASE FinishUninstall(j)
      BY <3>2, FinishUninstallRun
    <3>3. QED
      BY <1>3, <3>1, <3>2
  <2>3. CASE Finish(j, "failed", "none")
    BY <2>3, FinishRecords DEF Reports
  <2>4. CASE /\ registry' = WithoutEntry(registry, jobs[j].module)
             /\ prompts' = ToSet(registry')
             /\ Finish(j, IF jobs[j].module \in hub' THEN "failed" ELSE "done", "none")
    <3>1. Installed' = Installed \ {jobs[j].module}
      BY <2>1, <2>4, WithoutEntryOrdered
         DEF MayUninstall, DependentsOf, Installed, TypeOK, RegistryInv
    <3>2. jobs'[j].rollback = "none"
      BY <2>4, FinishRecords
    <3>3. jobs'[j].status = "done" => jobs[j].module \notin hub'
      BY <2>4, FinishRecords
    <3>4. QED
      BY <2>1, <2>2, <2>4, <3>1, <3>2, <3>3 DEF Reports, Installed
  <2>5. QED
    BY <2>1, <2>3, <2>4 DEF Teardown
<1>4. IInv /\ [Next]_vars => \A j \in JobId : TrueOutcome(j)
  <2> SUFFICES ASSUME IInv, [Next]_vars, NEW j \in JobId
               PROVE  TrueOutcome(j)
    OBVIOUS
  <2>1. CASE \E status \in {"done", "failed"} : Reports(j, status)
    BY <1>1, <1>2, <1>3, <2>1, WhoReports
  <2>2. CASE ~\E status \in {"done", "failed"} : Reports(j, status)
    BY <2>2
  <2>3. QED
    BY <2>1, <2>2
<1>5. IInv /\ [Next]_vars => [\A j \in JobId : TrueOutcome(j)]_vars
  BY <1>4
<1>6. QED
  BY <1>5, Inductive, PTL DEF Spec, OutcomeTruthful

-----------------------------------------------------------------------------
(* The registry implements the catalog *)

\* A step that leaves registry.json leaves the catalog.
LEMMA SameRegistry == registry' = registry => UNCHANGED Installed
  BY DEF Installed

LEMMA CatalogStep == IInv /\ [Next]_vars => [Catalog!Next]_Installed
<1> SUFFICES ASSUME IInv, [Next]_vars
             PROVE  Catalog!Next \/ UNCHANGED Installed
  OBVIOUS
<1> USE DEF IInv
<1>1. CASE registry' = registry
  BY <1>1, SameRegistry
<1>2. CASE \E j \in JobId : WriteRegistry(j)
  <2>1. PICK j \in JobId : WriteRegistry(j)
    BY <1>2
  <2>2. /\ Installed' = Installed \cup {thread[j].module}
        /\ Admissible(thread[j].module, registry)
    BY <2>1, WriteRegistryRegistry
  <2>3. thread[j].module \in Module
    BY <2>1 DEF WriteRegistry, At, JobsInv, ThreadInv
  <2>4. Catalog!Install(thread[j].module)
    BY <2>2 DEF Catalog!Install, Admissible, Installed
  <2>5. QED
    BY <2>3, <2>4 DEF Catalog!Next
<1>3. CASE \E j \in JobId : UninstallStopped(j) \/ FinishUninstall(j)
  <2>1. PICK j \in JobId : UninstallStopped(j) \/ FinishUninstall(j)
    BY <1>3
  <2>2. /\ MayUninstall(jobs[j].module) /\ jobs[j].module \in Module
        /\ registry' = registry \/ Installed' = Installed \ {jobs[j].module}
    BY <2>1, UninstallRegistry
  <2>3. CASE Installed' = Installed \ {jobs[j].module}
    <3>1. Catalog!Uninstall(jobs[j].module)
      BY <2>2, <2>3 DEF Catalog!Uninstall, MayUninstall, DependentsOf
    <3>2. QED
      BY <2>2, <3>1 DEF Catalog!Next
  <2>4. QED
    BY <2>2, <2>3, SameRegistry
<1>4. CASE SaveWrite /\ registry' # registry
  <2>1. \E m \in Module : Catalog!Uninstall(m)
    BY <1>4, LateSave DEF Catalog!Uninstall
  <2>2. QED
    BY <2>1 DEF Catalog!Next
<1>5. QED
  BY <1>1, <1>2, <1>3, <1>4, RegistryWriters

\* Whatever jobs, saves, failures and crashes do, registry.json goes through
\* the states of a catalog that installs and uninstalls one module at a time
\* and never breaks a dependency.
THEOREM CatalogImplemented == Spec => ImplementsCatalog
<1>1. Init => Catalog!Init
  BY DEF Init, Catalog!Init, Installed, ToSet
<1>2. QED
  BY <1>1, CatalogStep, Inductive, PTL DEF Spec, ImplementsCatalog, Catalog!Spec

=============================================================================
