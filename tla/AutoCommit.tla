----------------------------- MODULE AutoCommit -----------------------------
(***************************************************************************)
(* The automatic commits of knowledge/ (bot/modules_runtime/               *)
(* git_versioning.py): commit_if_changed runs git status, add, diff and    *)
(* commit under a lock, commit_loop calls it again and again, and once     *)
(* more when it is cancelled.  Each git process may fail; one that takes   *)
(* too long is killed, and may leave git's own lock file behind; one whose *)
(* caller is cancelled goes on by itself.  Meanwhile files are edited, and *)
(* somebody may stage files outside knowledge/.  The commit takes those as *)
(* well, although the docstring says that "only declared scope is touched" *)
(* (line 10): git add has a path, git commit has none.                     *)
(*                                                                         *)
(* The content of knowledge/ is a number that grows with every edit.       *)
(***************************************************************************)
EXTENDS Naturals

CONSTANTS Committer,  \* tasks that call commit_if_changed
          Loop,       \* the one that is commit_loop
          NoTask,
          MaxEdits,   \* bound: edits
          MaxFailures \* bound: failures and timeouts of git

ASSUME CommitAssumption == /\ Loop \in Committer /\ NoTask \notin Committer
                           /\ MaxEdits \in Nat /\ MaxFailures \in Nat

VARIABLES
    work,      \* knowledge/ in the working tree
    staged,    \* knowledge/ in the index
    head,      \* knowledge/ in the last commit
    foreign,   \* something else is staged
    committer, \* the holder of _COMMIT_LOCK
    awaits,    \* per task: the git command it awaits
    orphan,    \* a git process whose caller was cancelled
    stuck,     \* a killed git left its lock file
    failures,
    final,     \* commit_loop was cancelled, and tries a last time
    promised,  \* history: knowledge/ when it was cancelled
    troubled   \* history: something went wrong since then

repository == <<work, staged, head, foreign>>
commitVars == <<repository, committer, awaits, orphan, stuck, failures, final, promised, troubled>>

Command == {"status", "add", "diff", "commit"}
IndexFree == orphan = "none" /\ ~stuck

\* Leaves commit_if_changed, and the loop for good after the last try.
Leave(c) == /\ committer' = NoTask
            /\ awaits' = [awaits EXCEPT ![c] = IF c = Loop /\ final THEN "stopped" ELSE "rest"]
Proceed(c, next) == awaits' = [awaits EXCEPT ![c] = next] /\ UNCHANGED committer

-----------------------------------------------------------------------------
Edit == /\ work < MaxEdits /\ work' = work + 1
        /\ UNCHANGED <<staged, head, foreign, committer, awaits, orphan, stuck,
                       failures, final, promised, troubled>>
StageForeign == /\ ~foreign /\ foreign' = TRUE
                /\ UNCHANGED <<work, staged, head, committer, awaits, orphan, stuck,
                               failures, final, promised, troubled>>

Call(c) == /\ awaits[c] = "rest" /\ awaits' = [awaits EXCEPT ![c] = "waiting"]
           /\ UNCHANGED <<repository, committer, orphan, stuck, failures, final, promised, troubled>>
CommitLockFree == committer = NoTask
EnterCommit(c) == /\ awaits[c] = "waiting" /\ CommitLockFree
                  /\ committer' = c /\ awaits' = [awaits EXCEPT ![c] = "status"]
                  /\ UNCHANGED <<repository, orphan, stuck, failures, final, promised, troubled>>

GitStatus(c) == /\ awaits[c] = "status"
                /\ IF work = staged /\ staged = head THEN Leave(c) ELSE Proceed(c, "add")
                /\ UNCHANGED <<repository, orphan, stuck, failures, final, promised, troubled>>
FaultStageNothing == staged
AddedVersion == work
GitAdd(c) == /\ awaits[c] = "add" /\ IndexFree
             /\ staged' = AddedVersion /\ Proceed(c, "diff")
             /\ UNCHANGED <<work, head, foreign, orphan, stuck, failures, final, promised, troubled>>
NothingStaged == staged = head
GitDiff(c) == /\ awaits[c] = "diff"
              /\ IF NothingStaged THEN Leave(c) ELSE Proceed(c, "commit")
              /\ UNCHANGED <<repository, orphan, stuck, failures, final, promised, troubled>>

\* git commit without a path takes the whole index; an empty one is refused.
CommitsIndex == /\ staged # head \/ foreign
                /\ head' = staged /\ foreign' = FALSE
                /\ UNCHANGED <<work, staged>>
GitCommit(c) == /\ awaits[c] = "commit" /\ IndexFree
                /\ \/ CommitsIndex
                   \/ staged = head /\ ~foreign /\ UNCHANGED repository
                /\ Leave(c)
                /\ UNCHANGED <<orphan, stuck, failures, final, promised, troubled>>

\* A command fails, as it must while the index is locked, or is killed.
GitFails(c) ==
    /\ awaits[c] \in Command
    /\ \/ awaits[c] \in {"add", "commit"} /\ ~IndexFree /\ UNCHANGED <<failures, stuck>>
       \/ failures < MaxFailures /\ failures' = failures + 1
          /\ \/ UNCHANGED stuck
             \/ awaits[c] \in {"add", "commit"} /\ IndexFree /\ stuck' = TRUE
    /\ Leave(c) /\ troubled' = (troubled \/ final)
    /\ UNCHANGED <<repository, orphan, final, promised>>

\* commit_loop is cancelled while it sleeps, waits for the lock or for git.
FaultNoFinal(s) == "stopped"
AfterCancel(s) == "waiting"
CancelLoop ==
    /\ ~final /\ final' = TRUE /\ promised' = work
    /\ awaits' = [awaits EXCEPT ![Loop] = AfterCancel(@)]
    /\ committer' = IF committer = Loop THEN NoTask ELSE committer
    /\ \/ awaits[Loop] \in {"add", "commit"} /\ IndexFree
          /\ orphan' = awaits[Loop] /\ troubled' = TRUE
       \/ ~(awaits[Loop] \in {"add", "commit"} /\ IndexFree) /\ UNCHANGED <<orphan, troubled>>
    /\ UNCHANGED <<repository, stuck, failures>>
OrphanEnds ==
    /\ orphan # "none" /\ orphan' = "none"
    /\ \/ UNCHANGED repository
       \/ orphan = "add" /\ staged' = work /\ UNCHANGED <<work, head, foreign>>
       \/ orphan = "commit" /\ CommitsIndex
    /\ UNCHANGED <<committer, awaits, stuck, failures, final, promised, troubled>>

-----------------------------------------------------------------------------
CommitInit == /\ work = 0 /\ staged = 0 /\ head = 0 /\ foreign = FALSE
              /\ committer = NoTask /\ awaits = [c \in Committer |-> "rest"]
              /\ orphan = "none" /\ stuck = FALSE /\ failures = 0
              /\ final = FALSE /\ promised = 0 /\ troubled = FALSE

CommitStep(c) == \/ EnterCommit(c) \/ GitStatus(c) \/ GitAdd(c) \/ GitDiff(c)
                 \/ GitCommit(c) \/ GitFails(c)
CommitNext == \/ Edit \/ StageForeign \/ CancelLoop \/ OrphanEnds
              \/ \E c \in Committer : Call(c) \/ CommitStep(c)

\* The sleep of the loop ends, and every command returns.
CommitFairness ==
    /\ WF_commitVars(Call(Loop)) /\ WF_commitVars(OrphanEnds)
    /\ \A c \in Committer : SF_commitVars(CommitStep(c))
CommitSpec == CommitInit /\ [][CommitNext]_commitVars /\ CommitFairness

-----------------------------------------------------------------------------
CommitTypeOK ==
    /\ {work, staged, head, promised} \subseteq 0..MaxEdits
    /\ {foreign, stuck, final, troubled} \subseteq BOOLEAN
    /\ committer \in Committer \cup {NoTask}
    /\ awaits \in [Committer -> Command \cup {"rest", "waiting", "stopped"}]
    /\ orphan \in {"none", "add", "commit"} /\ failures \in 0..MaxFailures

\* Unless git fails, or the cancellation hits one of its writing commands, what
\* was in knowledge/ when the loop was cancelled is committed when it has
\* stopped.
FinalCommit == awaits[Loop] = "stopped" /\ ~troubled /\ ~stuck => head >= promised

\* An edit is committed at last, although commits fail and are killed, unless
\* the loop ends or git's lock file stays.
EditsCommitted == \A v \in 1..MaxEdits :
    work = v ~> head >= v \/ stuck \/ final

-----------------------------------------------------------------------------
(* The inductive invariant behind the safety properties *)

\* Between git status and the end of a commit a task holds the lock.  The git
\* process of a cancelled one has the lock of the index instead, which nobody
\* passes.
CommitLocked ==
    /\ \A c \in Committer : awaits[c] \in Command => committer = c
    /\ orphan # "none" =>
          final /\ troubled /\ \A c \in Committer : awaits[c] \notin {"diff", "commit"}

\* The index is between the last commit and the working tree.
VersionsOrdered == head <= staged /\ staged <= work /\ promised <= work

\* A commit that is under way, with or without its caller, has a change.
CommitHasChange ==
    /\ \A c \in Committer : awaits[c] = "commit" => staged # head
    /\ orphan = "commit" => staged # head

\* The last try of the loop takes what was promised to the index, and on.
FinalUnderWay ==
    /\ awaits[Loop] = "stopped" => final
    /\ final /\ ~troubled =>
          /\ awaits[Loop] \in {"diff", "commit"} => staged >= promised
          /\ awaits[Loop] = "stopped" => head >= promised

CommitInv == CommitTypeOK /\ CommitLocked /\ VersionsOrdered /\ CommitHasChange /\ FinalUnderWay
=============================================================================
