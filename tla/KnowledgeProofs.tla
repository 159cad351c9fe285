-------------------------- MODULE KnowledgeProofs --------------------------
(***************************************************************************)
(* Proofs about what is kept of knowledge/ and the memory: AutoCommit, for *)
(* any tasks that commit, and EmbeddingIndex, for any texts, any length of *)
(* a chunk and any processes that index.                                   *)
(***************************************************************************)
EXTENDS AutoCommit, EmbeddingIndex, SequenceTheorems, WellFoundedInduction, TLAPS

\* Nothing has been edited, and no task has begun.
LEMMA CommitStart == CommitInit => CommitInv
<1> SUFFICES ASSUME CommitInit
             PROVE  CommitInv
  OBVIOUS
<1> USE CommitAssumption DEF CommitInit
<1>1. CommitTypeOK
  <2>1. {work, staged, head, promised} \subseteq 0..MaxEdits /\ failures \in 0..MaxFailures
    OBVIOUS
  <2>2. {foreign, stuck, final, troubled} \subseteq BOOLEAN
    OBVIOUS
  <2>3. awaits \in [Committer -> Command \cup {"rest", "waiting", "stopped"}]
    OBVIOUS
  <2>4. QED
    BY <2>1, <2>2, <2>3 DEF CommitTypeOK
<1>2. CommitLocked /\ VersionsOrdered /\ CommitHasChange /\ FinalUnderWay
  BY DEF CommitLocked, VersionsOrdered, CommitHasChange, FinalUnderWay, Command
<1>3. QED
  BY <1>1, <1>2 DEF CommitInv

\* The commit of the index keeps the order of the versions, and takes what is
\* staged.
LEMMA IndexCommitted ==
    ASSUME CommitInv, CommitsIndex
    PROVE  /\ head' = staged /\ staged' = staged /\ work' = work
           /\ foreign' = FALSE
BY DEF CommitsIndex, CommitInv, CommitTypeOK

\* Files are edited or staged by others.
LEMMA OthersInv ==
    ASSUME CommitInv, Edit \/ StageForeign
    PROVE  CommitInv'
<1> USE CommitAssumption DEF CommitInv, Edit, StageForeign
<1>1. CommitTypeOK'
  <2>1. {work', staged', head', promised'} \subseteq 0..MaxEdits
    BY DEF CommitTypeOK
  <2>2. {foreign', stuck', final', troubled'} \subseteq BOOLEAN
    BY DEF CommitTypeOK
  <2>3. QED
    BY <2>1, <2>2 DEF CommitTypeOK
<1>2. VersionsOrdered'
  BY DEF VersionsOrdered, CommitTypeOK
<1>3. CommitLocked' /\ CommitHasChange'
  BY DEF CommitLocked, CommitHasChange
<1>4. FinalUnderWay'
  BY DEF FinalUnderWay
<1>5. QED
  BY <1>1, <1>2, <1>3, <1>4

\* A task asks for the lock, and gets it.
LEMMA EnterInv ==
    ASSUME CommitInv, NEW c \in Committer, Call(c) \/ EnterCommit(c)
    PROVE  CommitInv'
<1> USE CommitAssumption DEF CommitInv, Call, EnterCommit, CommitLockFree, repository
<1>1. /\ work' = work /\ staged' = staged /\ head' = head /\ orphan' = orphan
      /\ final' = final /\ promised' = promised /\ troubled' = troubled
  OBVIOUS
<1>2. /\ awaits[c] \in {"rest", "waiting"}
      /\ \/ awaits' = [awaits EXCEPT ![c] = "waiting"] /\ committer' = committer
         \/ awaits' = [awaits EXCEPT ![c] = "status"] /\ committer = NoTask /\ committer' = c
  OBVIOUS
<1>3. CommitTypeOK'
  BY DEF CommitTypeOK, Command
<1>4. VersionsOrdered'
  BY <1>1 DEF VersionsOrdered
<1>5. CommitLocked'
  BY <1>1, <1>2 DEF CommitLocked, CommitTypeOK, Command
<1>6. CommitHasChange'
  BY <1>1, <1>2 DEF CommitHasChange, CommitTypeOK
<1>7. FinalUnderWay'
  BY <1>1, <1>2 DEF FinalUnderWay, CommitTypeOK
<1>8. QED
  BY <1>3, <1>4, <1>5, <1>6, <1>7

\* Where a task that holds the lock may go: on to the next command, or out of
\* commit_if_changed, which leaves the lock free.
LEMMA Onward ==
    ASSUME CommitInv, NEW c \in Committer, awaits[c] \in Command, NEW next \in Command,
           \/ Leave(c)
           \/ Proceed(c, next)
    PROVE  /\ committer = c /\ \A d \in Committer \ {c} : awaits[d] \notin Command
           /\ \A d \in Committer \ {c} : awaits'[d] = awaits[d]
           /\ awaits' \in [Committer -> Command \cup {"rest", "waiting", "stopped"}]
           /\ committer' \in Committer \cup {NoTask}
           /\ awaits'[c] \in Command => awaits'[c] = next /\ committer' = c
           /\ awaits'[c] = "stopped" => c = Loop /\ final
           /\ awaits'[c] \in {next, "rest", "stopped"}
BY CommitAssumption
   DEF CommitInv, CommitTypeOK, CommitLocked, Leave, Proceed, Command

\* A command of git returns or fails.
LEMMA CommandInv ==
    ASSUME CommitInv, NEW c \in Committer,
           GitStatus(c) \/ GitAdd(c) \/ GitDiff(c) \/ GitCommit(c) \/ GitFails(c)
    PROVE  CommitInv'
<1> USE CommitAssumption DEF CommitInv
<1>1. CASE GitStatus(c)
  <2> USE <1>1 DEF GitStatus, repository
  <2>1. /\ work' = work /\ staged' = staged /\ head' = head /\ orphan' = orphan
        /\ final' = final /\ promised' = promised /\ troubled' = troubled
    OBVIOUS
  <2>2. awaits[c] = "status" /\ "add" \in Command /\ "status" \in Command
    BY DEF Command
  <2>3. /\ committer = c /\ \A d \in Committer \ {c} : awaits[d] \notin Command
        /\ \A d \in Committer \ {c} : awaits'[d] = awaits[d]
        /\ awaits' \in [Committer -> Command \cup {"rest", "waiting", "stopped"}]
        /\ committer' \in Committer \cup {NoTask}
        /\ awaits'[c] \in Command => awaits'[c] = "add" /\ committer' = c
        /\ awaits'[c] = "stopped" => c = Loop /\ final
        /\ awaits'[c] \in {"add", "rest", "stopped"}
    BY <2>2, Onward
  <2>4. CommitTypeOK'
    BY <2>3 DEF CommitTypeOK
  <2>5. CommitLocked'
    BY <2>1, <2>3 DEF CommitLocked, Command
  <2>6. VersionsOrdered' /\ CommitHasChange'
    BY <2>1, <2>3 DEF VersionsOrdered, CommitHasChange
  <2>7. FinalUnderWay'
    <3>1. awaits'[Loop] = "stopped" => final'
      BY <2>1, <2>3 DEF FinalUnderWay
    <3>2. c = Loop /\ awaits'[Loop] = "stopped" => head >= promised
      <4>1. awaits'[c] = "stopped" => work = staged /\ staged = head
        BY <2>2 DEF Proceed, CommitTypeOK
      <4>2. QED
        BY <4>1 DEF VersionsOrdered, CommitTypeOK
    <3>3. QED
      BY <2>1, <2>3, <3>1, <3>2 DEF FinalUnderWay
  <2>8. QED
    BY <2>4, <2>5, <2>6, <2>7
<1>2. CASE GitAdd(c)
  <2> USE <1>2 DEF GitAdd, AddedVersion, IndexFree
  <2>1. /\ work' = work /\ staged' = work /\ head' = head /\ orphan' = "none" /\ orphan = "none"
        /\ final' = final /\ promised' = promised /\ troubled' = troubled
    OBVIOUS
  <2>2. awaits[c] = "add" /\ "diff" \in Command /\ "add" \in Command
    BY DEF Command
  <2>3. /\ committer = c /\ \A d \in Committer \ {c} : awaits[d] \notin Command
        /\ \A d \in Committer \ {c} : awaits'[d] = awaits[d]
        /\ awaits' \in [Committer -> Command \cup {"rest", "waiting", "stopped"}]
        /\ committer' \in Committer \cup {NoTask}
        /\ awaits'[c] \in Command => awaits'[c] = "diff" /\ committer' = c
        /\ awaits'[c] = "stopped" => c = Loop /\ final
        /\ awaits'[c] \in {"diff", "rest", "stopped"}
    BY <2>2, Onward
  <2>4. awaits'[c] = "diff"
    BY DEF Proceed, CommitTypeOK
  <2>5. CommitTypeOK'
    BY <2>1, <2>3 DEF CommitTypeOK
  <2>6. CommitLocked'
    BY <2>1, <2>3 DEF CommitLocked, Command
  <2>7. VersionsOrdered' /\ CommitHasChange'
    BY <2>1, <2>3, <2>4 DEF VersionsOrdered, CommitHasChange, CommitTypeOK, Command
  <2>8. FinalUnderWay'
    BY <2>1, <2>3, <2>4 DEF FinalUnderWay, VersionsOrdered, CommitTypeOK, Command
  <2>9. QED
    BY <2>5, <2>6, <2>7, <2>8
<1>3. CASE GitDiff(c)
  <2> USE <1>3 DEF GitDiff, NothingStaged, repository
  <2>1. /\ work' = work /\ staged' = staged /\ head' = head /\ orphan' = orphan
        /\ final' = final /\ promised' = promised /\ troubled' = troubled
    OBVIOUS
  <2>2. awaits[c] = "diff" /\ "commit" \in Command /\ "diff" \in Command
    BY DEF Command
  <2>3. /\ committer = c /\ \A d \in Committer \ {c} : awaits[d] \notin Command
        /\ \A d \in Committer \ {c} : awaits'[d] = awaits[d]
        /\ awaits' \in [Committer -> Command \cup {"rest", "waiting", "stopped"}]
        /\ committer' \in Committer \cup {NoTask}
        /\ awaits'[c] \in Command => awaits'[c] = "commit" /\ committer' = c
        /\ awaits'[c] = "stopped" => c = Loop /\ final
        /\ awaits'[c] \in {"commit", "rest", "stopped"}
    BY <2>2, Onward
  <2>4. /\ awaits'[c] = "commit" => staged # head
        /\ awaits'[c] = "stopped" => staged = head
    BY DEF Leave, Proceed, CommitTypeOK
  <2>5. orphan = "none"
    BY <2>2 DEF CommitLocked
  <2>6. CommitTypeOK'
    BY <2>3 DEF CommitTypeOK
  <2>7. CommitLocked'
    BY <2>1, <2>3, <2>5 DEF CommitLocked, Command
  <2>8. VersionsOrdered' /\ CommitHasChange'
    BY <2>1, <2>3, <2>4 DEF VersionsOrdered, CommitHasChange
  <2>9. FinalUnderWay'
    BY <2>1, <2>2, <2>3, <2>4 DEF FinalUnderWay
  <2>10. QED
    BY <2>6, <2>7, <2>8, <2>9
<1>4. CASE GitCommit(c)
  <2> USE <1>4 DEF GitCommit, IndexFree
  <2>1. /\ orphan' = "none" /\ final' = final /\ promised' = promised /\ troubled' = troubled
        /\ stuck' = stuck /\ failures' = failures
    OBVIOUS
  <2>2. awaits[c] = "commit" /\ "commit" \in Command
    BY DEF Command
  <2>3. work' = work /\ staged' = staged /\ head' = staged /\ foreign' \in BOOLEAN
    BY IndexCommitted DEF repository, CommitTypeOK
  <2>4. /\ committer = c /\ \A d \in Committer \ {c} : awaits[d] \notin Command
        /\ \A d \in Committer \ {c} : awaits'[d] = awaits[d]
        /\ awaits' \in [Committer -> Command \cup {"rest", "waiting", "stopped"}]
        /\ committer' \in Committer \cup {NoTask}
        /\ awaits'[c] = "stopped" => c = Loop /\ final
        /\ awaits'[c] \in {"commit", "rest", "stopped"}
    BY <2>2, Onward
  <2>5. awaits'[c] \in {"rest", "stopped"}
    BY DEF Leave, CommitTypeOK
  <2>6. CommitTypeOK'
    BY <2>1, <2>3, <2>4 DEF CommitTypeOK
  <2>7. CommitLocked'
    BY <2>1, <2>4, <2>5 DEF CommitLocked, Command
  <2>8. VersionsOrdered'
    BY <2>1, <2>3 DEF VersionsOrdered, CommitTypeOK
  <2>9. CommitHasChange'
    BY <2>1, <2>4, <2>5, <2>2 DEF CommitHasChange
  <2>10. FinalUnderWay'
    BY <2>1, <2>2, <2>3, <2>4, <2>5 DEF FinalUnderWay, VersionsOrdered, CommitTypeOK
  <2>11. QED
    BY <2>6, <2>7, <2>8, <2>9, <2>10
<1>5. CASE GitFails(c)
  <2> USE <1>5 DEF GitFails, repository
  <2>1. /\ work' = work /\ staged' = staged /\ head' = head /\ orphan' = orphan
        /\ foreign' = foreign
        /\ final' = final /\ promised' = promised /\ troubled' = (troubled \/ final)
    OBVIOUS
  <2>2. awaits[c] \in Command /\ "status" \in Command
    BY DEF Command
  <2>3. /\ committer = c /\ \A d \in Committer \ {c} : awaits[d] \notin Command
        /\ \A d \in Committer \ {c} : awaits'[d] = awaits[d]
        /\ awaits' \in [Committer -> Command \cup {"rest", "waiting", "stopped"}]
        /\ committer' \in Committer \cup {NoTask}
        /\ awaits'[c] = "stopped" => c = Loop /\ final
    BY <2>2, Onward
  <2>4. awaits'[c] \in {"rest", "stopped"}
    BY DEF Leave, CommitTypeOK
  <2>5. stuck' \in BOOLEAN /\ failures' \in 0..MaxFailures
    <3>1. stuck \in BOOLEAN /\ failures \in 0..MaxFailures
      BY DEF CommitTypeOK
    <3>2. stuck' \in {stuck, TRUE}
      OBVIOUS
    <3>3. failures' = failures \/ (failures < MaxFailures /\ failures' = failures + 1)
      OBVIOUS
    <3>4. stuck' \in BOOLEAN
      BY <3>1, <3>2, Zenon
    <3>5. failures' \in 0..MaxFailures
      BY <3>1, <3>3
    <3>6. QED
      BY <3>4, <3>5
  <2>6. CommitTypeOK'
    BY <2>1, <2>3, <2>5 DEF CommitTypeOK
  <2>7. CommitLocked'
    BY <2>1, <2>3, <2>4 DEF CommitLocked, Command, CommitTypeOK
  <2>8. VersionsOrdered' /\ CommitHasChange'
    BY <2>1, <2>3, <2>4 DEF VersionsOrdered, CommitHasChange
  <2>9. FinalUnderWay'
    BY <2>1, <2>2, <2>3, <2>4 DEF FinalUnderWay, Command, CommitTypeOK
  <2>10. QED
    BY <2>6, <2>7, <2>8, <2>9
<1>6. QED
  BY <1>1, <1>2, <1>3, <1>4, <1>5

\* The loop is cancelled, and what it awaited goes on by itself.
LEMMA CancelInv ==
    ASSUME CommitInv, CancelLoop \/ OrphanEnds
    PROVE  CommitInv'
<1> USE CommitAssumption DEF CommitInv
<1>1. CASE CancelLoop
  <2> USE <1>1 DEF CancelLoop, AfterCancel, IndexFree, repository
  <2>1. /\ work' = work /\ staged' = staged /\ head' = head /\ foreign' = foreign
        /\ stuck' = stuck /\ failures' = failures
        /\ final = FALSE /\ final' = TRUE /\ promised' = work
        /\ committer' = IF committer = Loop THEN NoTask ELSE committer
    BY DEF CommitTypeOK
  <2>2. /\ awaits' = [awaits EXCEPT ![Loop] = "waiting"]
        /\ awaits'[Loop] = "waiting" /\ \A d \in Committer \ {Loop} : awaits'[d] = awaits[d]
    BY DEF CommitTypeOK
  <2>3. orphan = "none"
    BY <2>1 DEF CommitLocked
  <2>4. \/ /\ orphan' = awaits[Loop] /\ orphan' \in {"add", "commit"} /\ troubled' = TRUE
        \/ orphan' = "none" /\ troubled' = troubled
    BY <2>3
  <2>5. CommitTypeOK'
    BY <2>1, <2>2, <2>4 DEF CommitTypeOK
  <2>6. CommitLocked'
    <3>1. \A d \in Committer : awaits'[d] \in Command => committer' = d
      BY <2>1, <2>2 DEF CommitLocked, Command
    <3>2. orphan' # "none" => \A d \in Committer : awaits'[d] \notin {"diff", "commit"}
      BY <2>2, <2>4 DEF CommitLocked, Command
    <3>3. QED
      BY <2>1, <2>4, <3>1, <3>2 DEF CommitLocked
  <2>7. VersionsOrdered'
    BY <2>1 DEF VersionsOrdered, CommitTypeOK
  <2>8. CommitHasChange'
    BY <2>1, <2>2, <2>4 DEF CommitHasChange
  <2>9. FinalUnderWay'
    BY <2>1, <2>2 DEF FinalUnderWay
  <2>10. QED
    BY <2>5, <2>6, <2>7, <2>8, <2>9
<1>2. CASE OrphanEnds
  <2> USE <1>2 DEF OrphanEnds
  <2>1. /\ orphan # "none" /\ orphan' = "none" /\ awaits' = awaits /\ committer' = committer
        /\ final' = final /\ promised' = promised /\ troubled' = troubled
        /\ stuck' = stuck /\ failures' = failures
    OBVIOUS
  <2>2. /\ work' = work /\ staged' \in {staged, work} /\ head' \in {head, staged}
        /\ foreign' \in BOOLEAN
    BY IndexCommitted DEF repository, CommitTypeOK
  <2>3. final /\ troubled /\ \A d \in Committer : awaits[d] \notin {"diff", "commit"}
    BY <2>1 DEF CommitLocked
  <2>4. CommitTypeOK'
    BY <2>1, <2>2 DEF CommitTypeOK
  <2>5. VersionsOrdered'
    BY <2>1, <2>2 DEF VersionsOrdered, CommitTypeOK
  <2>6. CommitLocked' /\ CommitHasChange' /\ FinalUnderWay'
    BY <2>1, <2>3 DEF CommitLocked, CommitHasChange, FinalUnderWay
  <2>7. QED
    BY <2>4, <2>5, <2>6
<1>3. QED
  BY <1>1, <1>2

\* Every step of the tasks, of git and of others keeps the invariant.
LEMMA CommitKept == CommitInv /\ [CommitNext]_commitVars => CommitInv'
<1>1. ASSUME CommitInv, CommitNext
      PROVE  CommitInv'
  BY <1>1, OthersInv, EnterInv, CommandInv, CancelInv DEF CommitNext, CommitStep
<1>2. ASSUME CommitInv, UNCHANGED commitVars
      PROVE  CommitInv'
  BY <1>2 DEF commitVars, repository, CommitInv, CommitTypeOK, CommitLocked, VersionsOrdered,
              CommitHasChange, FinalUnderWay
<1>3. QED
  BY <1>1, <1>2

-----------------------------------------------------------------------------
(* The theorems *)

\* Locks, index and last commit stay in step, although git fails, is killed, or
\* outlives its caller.
THEOREM CommitInductive == CommitSpec => []CommitInv
<1>1. QED
  BY CommitStart, CommitKept, PTL DEF CommitSpec

\* When the loop has stopped without trouble, what was in knowledge/ at its
\* cancellation is committed, for any number of tasks and edits.
THEOREM LastTryCommits == CommitSpec => []FinalCommit
<1>1. CommitInv => FinalCommit
  BY DEF CommitInv, FinalUnderWay, FinalCommit
<1>2. QED
  BY <1>1, CommitInductive, PTL

-----------------------------------------------------------------------------
(* Recursion over the numbers, by sets and functions instead of predicates. *)

\* A set of numbers that is not empty has a least one.
LEMMA LeastElement ==
    ASSUME NEW T \in SUBSET Nat, T # {}
    PROVE  \E x \in T : \A y \in T : ~(y < x)
<1>1. IsWellFoundedOn(OpToRel(<, Nat), Nat)
  BY NatLessThanWellFounded
<1>2. \E x \in T : \A y \in T : ~(<<y, x>> \in OpToRel(<, Nat))
  BY <1>1, WFMin
<1>3. QED
  BY <1>2 DEF OpToRel

\* Induction over the numbers up to n, as a fact about the set of those for
\* which the claim holds.
LEMMA UpTo ==
    ASSUME NEW n \in Nat, NEW G \in SUBSET (0..n), 0 \in G,
           \A i \in 0..n : i \in G /\ i < n => i + 1 \in G
    PROVE  G = 0..n
<1> DEFINE T == (0..n) \ G
<1> SUFFICES ASSUME T # {}
             PROVE  FALSE
  OBVIOUS
<1>1. T \in SUBSET Nat
  OBVIOUS
<1>2. PICK x \in T : \A y \in T : ~(y < x)
  BY <1>1, LeastElement
<1>3. x \in 1..n /\ x - 1 \in 0..n /\ x - 1 < x /\ x - 1 < n
  BY <1>2
<1>4. x - 1 \in G
  BY <1>2, <1>3
<1>5. x - 1 + 1 \in G
  BY <1>3, <1>4
<1>6. QED
  BY <1>2, <1>3, <1>5

\* There is a function on 0..n with that first value and that step from each
\* value to the next one.
Computes(n, S, zero, step) ==
    \E f \in [0..n -> S] : f[0] = zero /\ \A i \in 1..n : f[i] = step[i][f[i - 1]]

\* There always is one.
LEMMA Recursion ==
    ASSUME NEW n \in Nat, NEW S, NEW zero \in S, NEW step \in [Nat -> [S -> S]]
    PROVE  Computes(n, S, zero, step)
<1> DEFINE Good(m, f) == f[0] = zero /\ \A i \in 1..m : f[i] = step[i][f[i - 1]]
           G == {m \in 0..n : \E f \in [0..m -> S] : Good(m, f)}
<1>1. 0 \in G
  <2> DEFINE f == [i \in 0..0 |-> zero]
  <2>1. Good(0, f) /\ f \in [0..0 -> S]
    OBVIOUS
  <2> HIDE DEF Good, f
  <2>2. QED
    BY <2>1, 0 \in 0..n
<1>2. ASSUME NEW m \in 0..n, m \in G, m < n
      PROVE  m + 1 \in G
  <2>1. PICK f \in [0..m -> S] : Good(m, f)
    BY <1>2
  <2> DEFINE g == [i \in 0..(m + 1) |-> IF i <= m THEN f[i] ELSE step[i][f[m]]]
  <2>2. m \in Nat /\ m \in 0..m /\ f[m] \in S /\ step[m + 1] \in [S -> S]
    OBVIOUS
  <2>3. step[m + 1][f[m]] \in S
    BY <2>2
  <2>4. \A i \in 0..m : f[i] \in S /\ i <= m /\ g[i] = f[i]
    OBVIOUS
  <2>5. g[m + 1] = step[m + 1][f[m]]
    BY <2>2
  <2>6. g \in [0..(m + 1) -> S]
    BY <2>2, <2>3
  <2>7. Good(m + 1, g)
    <3>1. g[0] = zero
      BY <2>1
    <3>2. ASSUME NEW i \in 1..(m + 1)
          PROVE  g[i] = step[i][g[i - 1]]
      <4>1. CASE i = m + 1
        BY <2>2, <2>4, <2>5, <4>1
      <4>2. CASE i # m + 1
        <5>1. i \in 1..m /\ i \in 0..m /\ i - 1 \in 0..m
          BY <4>2
        <5>2. QED
          BY <2>1, <2>4, <5>1
      <4>3. QED
        BY <4>1, <4>2
    <3>3. QED
      BY <3>1, <3>2
  <2>8. m + 1 \in 0..n
    BY <1>2
  <2> HIDE DEF Good, g
  <2>9. QED
    BY <2>6, <2>7, <2>8
<1> HIDE DEF Good
<1>3. G \in SUBSET (0..n)
  OBVIOUS
<1> HIDE DEF G
<1>4. G = 0..n
  BY <1>1, <1>2, <1>3, UpTo
<1>5. \E f \in [0..n -> S] : Good(n, f)
  BY <1>4 DEF G
<1>6. QED
  BY <1>5 DEF Good, Computes

-----------------------------------------------------------------------------
(* chunk_markdown *)

\* The length of a text is the sum of those of its blocks.
LEMMA LengthDef ==
    ASSUME NEW t \in Seq(Nat)
    PROVE  \E upTo : /\ upTo[0] = 0
                     /\ \A i \in 1..Len(t) : upTo[i] = upTo[i - 1] + t[i]
                     /\ Length(t) = upTo[Len(t)]
<1> DEFINE step == [i \in Nat |-> [x \in Nat |-> IF i \in 1..Len(t) THEN x + t[i] ELSE x]]
           F(f) == [n \in 0..Len(t) |-> IF n = 0 THEN 0 ELSE f[n - 1] + t[n]]
           upTo == CHOOSE f : f = F(f)
<1>1. step \in [Nat -> [Nat -> Nat]]
  OBVIOUS
<1>2. \A i \in 1..Len(t), x \in Nat : step[i][x] = x + t[i]
  OBVIOUS
<1> HIDE DEF step
<1>3. Len(t) \in Nat /\ 0 \in Nat
  OBVIOUS
<1>4. PICK f \in [0..Len(t) -> Nat] :
          f[0] = 0 /\ \A i \in 1..Len(t) : f[i] = step[i][f[i - 1]]
  <2>1. Computes(Len(t), Nat, 0, step)
    BY <1>1, <1>3, Recursion, Zenon
  <2>2. QED
    BY <2>1 DEF Computes
<1>5. ASSUME NEW i \in 1..Len(t)
      PROVE  f[i] = f[i - 1] + t[i]
  <2>1. i - 1 \in 0..Len(t)
    OBVIOUS
  <2>2. f[i - 1] \in Nat
    BY <2>1
  <2>3. QED
    BY <1>2, <1>4, <2>2
<1>6. f = F(f)
  BY <1>4, <1>5
<1>7. upTo = F(upTo)
  BY <1>6
<1>8. Length(t) = upTo[Len(t)]
  BY DEF Length
<1> HIDE DEF upTo
<1>9. upTo[0] = 0 /\ \A i \in 1..Len(t) : upTo[i] = upTo[i - 1] + t[i]
  <2>1. upTo[0] = 0
    BY <1>7
  <2>2. ASSUME NEW i \in 1..Len(t)
        PROVE  upTo[i] = upTo[i - 1] + t[i]
    <3>1. i \in 0..Len(t) /\ i # 0
      OBVIOUS
    <3>2. F(upTo)[i] = upTo[i - 1] + t[i]
      BY <3>1, Zenon
    <3>3. QED
      BY <1>7, <3>2, Zenon
  <2>3. QED
    BY <2>1, <2>2
<1>10. QED
  BY <1>8, <1>9

Chunk == [from : Nat, to : Nat, chars : Nat]
Accumulator == [chunks : Seq(Chunk), buffer : Chunk]
Block == Nat \ {0}
Start == [chunks |-> <<>>, buffer |-> Span(0, 0)]

\* The chunks divide up what comes before the buffer, and the buffer holds the
\* rest of the first n characters.
Kept(acc, n) ==
    /\ acc \in Accumulator
    /\ Divides(acc.chunks, acc.buffer.from)
    /\ acc.buffer.to = n /\ acc.buffer.chars <= MaxChars + 1
    /\ IF acc.buffer.chars = 0 THEN acc.buffer.from = n ELSE acc.buffer.from < n

\* How many pieces a block is cut into: the last one is not empty and reaches to
\* its end.
LEMMA PieceCount ==
    ASSUME NEW b \in Block, NEW k \in Int, k = (b + MaxChars - 1) \div MaxChars
    PROVE  k \in Nat /\ k >= 1 /\ (k - 1) * MaxChars < b /\ b <= k * MaxChars
<1> DEFINE q == (b + MaxChars - 1) \div MaxChars
<1>1. MaxChars \in Nat /\ MaxChars > 0 /\ b \in Nat /\ b > 0
  BY SearchAssumption DEF Block
<1>2. k \in Int /\ b + MaxChars - 1 = MaxChars * k + ((b + MaxChars - 1) % MaxChars)
      /\ (b + MaxChars - 1) % MaxChars \in 0..(MaxChars - 1)
  BY <1>1
<1>3. QED
  BY <1>1, <1>2

\* Another chunk that begins where the last one ends.
LEMMA AppendDivides ==
    ASSUME NEW s \in Seq(Chunk), NEW m \in Nat, Divides(s, m), NEW c \in Chunk,
           c.from = m, c.from < c.to, c.chars <= MaxChars + 1
    PROVE  Append(s, c) \in Seq(Chunk) /\ Divides(Append(s, c), c.to)
<1> DEFINE r == Append(s, c)
<1>1. r \in Seq(Chunk) /\ Len(r) = Len(s) + 1 /\ r # <<>> /\ r[Len(r)] = c
      /\ \A i \in 1..Len(s) : r[i] = s[i]
  BY AppendProperties
<1>2. ASSUME NEW i \in DOMAIN r
      PROVE  /\ r[i].from = IF i = 1 THEN 0 ELSE r[i - 1].to
             /\ r[i].from < r[i].to /\ r[i].chars <= MaxChars + 1
  <2>1. CASE i \in 1..Len(s)
    <3>1. i # 1 => i - 1 \in 1..Len(s)
      BY <2>1
    <3>2. QED
      BY <1>1, <2>1, <3>1 DEF Divides
  <2>2. CASE i = Len(s) + 1
    BY <1>1, <2>2 DEF Divides
  <2>3. QED
    BY <1>1, <2>1, <2>2
<1>3. QED
  BY <1>1, <1>2 DEF Divides

\* More chunks that begin where the last one ends.
LEMMA ConcatDivides ==
    ASSUME NEW s \in Seq(Chunk), NEW m \in Nat, Divides(s, m),
           NEW p \in Seq(Chunk), p # <<>>, p[1].from = m,
           \A i \in DOMAIN p : /\ i # 1 => p[i].from = p[i - 1].to
                               /\ p[i].from < p[i].to /\ p[i].chars <= MaxChars + 1
    PROVE  s \o p \in Seq(Chunk) /\ Divides(s \o p, p[Len(p)].to)
<1> DEFINE r == s \o p
<1>1. /\ r \in Seq(Chunk) /\ Len(r) = Len(s) + Len(p)
      /\ \A i \in 1..Len(s) : r[i] = s[i]
      /\ \A i \in (Len(s) + 1)..Len(r) : r[i] = p[i - Len(s)]
  BY ConcatProperties
<1>2. Len(s) \in Nat /\ Len(p) \in Nat /\ Len(p) >= 1 /\ DOMAIN p = 1..Len(p)
      /\ DOMAIN s = 1..Len(s) /\ DOMAIN r = 1..Len(r)
  BY <1>1
<1> HIDE DEF r
<1>3. ASSUME NEW i \in 1..Len(r)
      PROVE  /\ r[i].from = IF i = 1 THEN 0 ELSE r[i - 1].to
             /\ r[i].from < r[i].to /\ r[i].chars <= MaxChars + 1
  <2>1. CASE i \in 1..Len(s)
    <3>1. i # 1 => i - 1 \in 1..Len(s)
      BY <2>1
    <3>2. QED
      BY <1>1, <1>2, <2>1, <3>1 DEF Divides
  <2>2. CASE i = Len(s) + 1
    <3>1. r[i] = p[1]
      BY <1>1, <1>2, <2>2
    <3>2. s # <<>> => i - 1 \in 1..Len(s) /\ i # 1 /\ r[i - 1] = s[Len(s)]
      BY <1>1, <1>2, <2>2
    <3>3. s = <<>> => i = 1
      BY <2>2
    <3>4. QED
      BY <1>2, <3>1, <3>2, <3>3 DEF Divides
  <2>3. CASE i > Len(s) + 1
    <3> DEFINE j == i - Len(s)
    <3>1. j \in 1..Len(p) /\ j # 1 /\ j - 1 = (i - 1) - Len(s) /\ i # 1
          /\ i \in (Len(s) + 1)..Len(r) /\ i - 1 \in (Len(s) + 1)..Len(r)
      BY <1>1, <1>2, <2>3
    <3>2. r[i] = p[j] /\ r[i - 1] = p[j - 1]
      BY <1>1, <3>1
    <3>3. QED
      BY <1>2, <3>1, <3>2
  <2>4. i \in 1..Len(s) \/ i = Len(s) + 1 \/ i > Len(s) + 1
    BY <1>2
  <2>5. QED
    BY <2>1, <2>2, <2>3, <2>4
<1>4. r # <<>> /\ r[Len(r)] = p[Len(p)]
  BY <1>1, <1>2
<1>5. Divides(r, p[Len(p)].to)
  BY <1>2, <1>3, <1>4 DEF Divides
<1>6. QED
  BY <1>1, <1>5 DEF r

\* The pieces of a block that is too long divide it up.
LEMMA PiecesDivide ==
    ASSUME NEW s \in Seq(Chunk), NEW m \in Nat, Divides(s, m), NEW b \in Block
    PROVE  s \o Pieces(m, b) \in Seq(Chunk) /\ Divides(s \o Pieces(m, b), m + b)
<1> DEFINE k == (b + MaxChars - 1) \div MaxChars
           p == Pieces(m, b)
<1>1. MaxChars \in Nat /\ MaxChars >= 1 /\ b \in Nat
  BY SearchAssumption DEF Block
<1>2. k \in Nat /\ k >= 1 /\ (k - 1) * MaxChars < b /\ b <= k * MaxChars
  <2>1. k \in Int
    BY <1>1
  <2>2. QED
    BY <2>1, PieceCount
<1>3. p = [i \in 1..k |->
              Span(m + (i - 1) * MaxChars,
                   IF i * MaxChars <= b THEN MaxChars ELSE b - (i - 1) * MaxChars)]
  BY DEF Pieces
<1> HIDE DEF k, p
<1>4. ASSUME NEW i \in 1..k
      PROVE  /\ (i - 1) * MaxChars \in Nat /\ i * MaxChars = (i - 1) * MaxChars + MaxChars
             /\ (i - 1) * MaxChars < b /\ (i < k => i * MaxChars <= b)
  <2>1. (i - 1) * MaxChars \in Nat /\ i * MaxChars = (i - 1) * MaxChars + MaxChars
    BY <1>1, <1>2
  <2>2. (i - 1) * MaxChars <= (k - 1) * MaxChars
    BY <1>1, <1>2
  <2>3. i < k => i * MaxChars <= (k - 1) * MaxChars
    BY <1>1, <1>2
  <2>4. i * MaxChars \in Nat /\ (k - 1) * MaxChars \in Nat
    BY <1>1, <1>2
  <2> QED
    BY <1>1, <1>2, <2>1, <2>2, <2>3, <2>4
<1>5. ASSUME NEW i \in 1..k
      PROVE  /\ p[i] \in Chunk /\ p[i].from = m + (i - 1) * MaxChars
             /\ p[i].from < p[i].to /\ p[i].chars <= MaxChars
             /\ p[i].to = IF i < k THEN m + i * MaxChars ELSE m + b
  <2> DEFINE at == (i - 1) * MaxChars
             end == i * MaxChars
  <2>1. at \in Nat /\ end = at + MaxChars /\ at < b /\ (i < k => end <= b)
    BY <1>4
  <2>2. i = k => b <= end
    BY <1>2
  <2>3. p[i] = Span(m + at, IF end <= b THEN MaxChars ELSE b - at)
    BY <1>3
  <2> HIDE DEF at, end
  <2>4. i \in Nat /\ (i < k \/ i = k)
    BY <1>2
  <2>5. /\ p[i] \in Chunk /\ p[i].from = m + at
        /\ p[i].from < p[i].to /\ p[i].chars <= MaxChars
        /\ p[i].to = IF i < k THEN m + end ELSE m + b
    BY <1>1, <2>1, <2>2, <2>3, <2>4 DEF Span, Chunk
  <2>6. QED
    BY <2>5 DEF at, end
<1>6. p \in Seq(Chunk) /\ Len(p) = k /\ DOMAIN p = 1..k /\ p # <<>>
  <2>1. p \in [1..k -> Chunk]
    BY <1>3, <1>5
  <2>2. p \in Seq(Chunk)
    BY <1>2, <2>1
  <2>3. QED
    BY <1>2, <1>3, <2>2
<1>7. p[1].from = m /\ p[Len(p)].to = m + b
  <2>1. (1 - 1) * MaxChars = 0
    BY <1>1
  <2>2. QED
    BY <1>2, <1>5, <1>6, <2>1
<1>8. ASSUME NEW i \in DOMAIN p
      PROVE  /\ i # 1 => p[i].from = p[i - 1].to
             /\ p[i].from < p[i].to /\ p[i].chars <= MaxChars + 1
  <2>1. ASSUME i # 1
        PROVE  p[i].from = p[i - 1].to
    <3>1. i - 1 \in 1..k /\ i - 1 < k
      BY <1>2, <1>6, <2>1
    <3>2. p[i - 1].to = m + (i - 1) * MaxChars
      BY <1>5, <3>1
    <3>3. QED
      BY <1>5, <1>6, <3>2
  <2>2. p[i].chars \in Nat
    BY <1>5, <1>6 DEF Chunk
  <2>3. QED
    BY <1>1, <1>5, <1>6, <2>1, <2>2
<1>9. s \o p \in Seq(Chunk) /\ Divides(s \o p, m + b)
  BY <1>6, <1>7, <1>8, ConcatDivides
<1>10. QED
  BY <1>9 DEF p

\* Flush completes the chunks.
LEMMA FlushDivides ==
    ASSUME NEW n \in Nat, NEW acc, Kept(acc, n)
    PROVE  Flush(acc) \in Seq(Chunk) /\ Divides(Flush(acc), n)
<1>1. acc.chunks \in Seq(Chunk) /\ acc.buffer \in Chunk
  BY DEF Kept, Accumulator
<1>2. acc.buffer.from \in Nat
  BY <1>1 DEF Chunk
<1>3. CASE acc.buffer.chars = 0
  BY <1>1, <1>3 DEF Kept, Flush
<1>4. CASE acc.buffer.chars # 0
  BY <1>1, <1>2, <1>4, AppendDivides DEF Kept, Flush
<1>5. QED
  BY <1>3, <1>4

\* A block keeps what is said of the accumulator.
LEMMA AddBlockKept ==
    ASSUME NEW n \in Nat, NEW acc, Kept(acc, n), NEW b \in Block
    PROVE  Kept(AddBlock(acc, b), n + b)
<1> DEFINE c == acc.buffer
<1>1. /\ acc = [chunks |-> acc.chunks, buffer |-> c]
      /\ acc.chunks \in Seq(Chunk) /\ c \in Chunk
  BY DEF Kept, Accumulator
<1>2. /\ c = [from |-> c.from, to |-> c.to, chars |-> c.chars]
      /\ c.from \in Nat /\ c.to \in Nat /\ c.chars \in Nat
      /\ b \in Nat /\ b > 0 /\ MaxChars \in Nat /\ MaxChars >= 1
  BY <1>1, SearchAssumption DEF Chunk, Block
<1>3. /\ Divides(acc.chunks, c.from) /\ c.to = n /\ c.chars <= MaxChars + 1
      /\ IF c.chars = 0 THEN c.from = n ELSE c.from < n
  BY DEF Kept
<1>4. Flush(acc) \in Seq(Chunk) /\ Divides(Flush(acc), n)
  BY FlushDivides
<1>5. CASE c.chars + b < MaxChars
  <2>1. JoinBlock(c, b) = [from |-> c.from, to |-> n + b,
                        chars |-> IF c.chars = 0 THEN b ELSE c.chars + 2 + b]
    BY <1>2, <1>3 DEF JoinBlock, Span
  <2>2. AddBlock(acc, b) = [chunks |-> acc.chunks, buffer |-> JoinBlock(c, b)]
    BY <1>1, <1>5 DEF AddBlock
  <2>3. QED
    BY <1>1, <1>2, <1>3, <1>5, <2>1, <2>2 DEF Kept, Accumulator, Chunk
<1>6. CASE ~(c.chars + b < MaxChars) /\ b > MaxChars
  <2>1. AddBlock(acc, b) = [chunks |-> Flush(acc) \o Pieces(n, b), buffer |-> Span(n + b, 0)]
    BY <1>3, <1>6 DEF AddBlock
  <2>2. Flush(acc) \o Pieces(n, b) \in Seq(Chunk) /\ Divides(Flush(acc) \o Pieces(n, b), n + b)
    BY <1>4, PiecesDivide
  <2>3. QED
    BY <1>2, <2>1, <2>2 DEF Kept, Accumulator, Chunk, Span
<1>7. CASE ~(c.chars + b < MaxChars) /\ ~(b > MaxChars)
  <2>1. AddBlock(acc, b) = [chunks |-> Flush(acc), buffer |-> Span(n, b)]
    BY <1>3, <1>7 DEF AddBlock
  <2>2. QED
    BY <1>2, <1>4, <1>7, <2>1 DEF Kept, Accumulator, Chunk, Span
<1>8. QED
  BY <1>5, <1>6, <1>7

\* The chunks of a text are what its last block leaves.
LEMMA ChunksDef ==
    ASSUME NEW t \in Seq(Block)
    PROVE  \E after : /\ after[0] = Start
                      /\ \A i \in 1..Len(t) : after[i] = AddBlock(after[i - 1], t[i])
                      /\ ChunksOf(t) = Flush(after[Len(t)])
<1> DEFINE Known == {x \in Accumulator : \E n \in Nat : Kept(x, n)}
           step == [i \in Nat |-> [x \in Known |->
                       IF i \in 1..Len(t) THEN AddBlock(x, t[i]) ELSE x]]
           F(f) == [n \in 0..Len(t) |-> IF n = 0 THEN [chunks |-> <<>>, buffer |-> Span(0, 0)]
                                        ELSE AddBlock(f[n - 1], t[n])]
           after == CHOOSE f : f = F(f)
<1>1. ASSUME NEW x \in Known, NEW b \in Block
      PROVE  AddBlock(x, b) \in Known
  <2>1. PICK n \in Nat : Kept(x, n)
    OBVIOUS
  <2>2. Kept(AddBlock(x, b), n + b) /\ n + b \in Nat
    BY <2>1, AddBlockKept DEF Block
  <2>3. QED
    BY <2>2 DEF Kept
<1>2. Start \in Known
  <2>1. Kept(Start, 0)
    BY SearchAssumption DEF Kept, Start, Span, Accumulator, Chunk, Divides
  <2>2. QED
    BY <2>1 DEF Kept
<1> HIDE DEF Known
<1>3. \A i \in 1..Len(t) : t[i] \in Block
  OBVIOUS
<1>4. step \in [Nat -> [Known -> Known]]
  BY <1>1, <1>3
<1>5. \A i \in 1..Len(t), x \in Known : step[i][x] = AddBlock(x, t[i])
  OBVIOUS
<1> HIDE DEF step
<1>6. PICK f \in [0..Len(t) -> Known] :
          f[0] = Start /\ \A i \in 1..Len(t) : f[i] = step[i][f[i - 1]]
  <2>1. Len(t) \in Nat
    OBVIOUS
  <2>2. Computes(Len(t), Known, Start, step)
    BY <1>2, <1>4, <2>1, Recursion, Zenon
  <2>3. QED
    BY <2>2 DEF Computes
<1>7. ASSUME NEW i \in 1..Len(t)
      PROVE  f[i] = AddBlock(f[i - 1], t[i])
  <2>1. i - 1 \in 0..Len(t)
    OBVIOUS
  <2>2. f[i - 1] \in Known
    BY <2>1
  <2>3. QED
    BY <1>5, <1>6, <2>2
<1>8. f = F(f)
  BY <1>6, <1>7 DEF Start
<1>9. after = F(after)
  BY <1>8
<1>10. ChunksOf(t) = Flush(after[Len(t)])
  BY DEF ChunksOf
<1> HIDE DEF after
<1>11. after[0] = Start /\ \A i \in 1..Len(t) : after[i] = AddBlock(after[i - 1], t[i])
  <2>1. after[0] = Start
    BY <1>9 DEF Start
  <2>2. ASSUME NEW i \in 1..Len(t)
        PROVE  after[i] = AddBlock(after[i - 1], t[i])
    <3>1. i \in 0..Len(t) /\ i # 0
      OBVIOUS
    <3>2. F(after)[i] = AddBlock(after[i - 1], t[i])
      BY <3>1, Zenon
    <3>3. QED
      BY <1>9, <3>2, Zenon
  <2>3. QED
    BY <2>1, <2>2
<1>12. QED
  BY <1>10, <1>11

\* chunk_markdown loses, doubles and moves nothing, for every text and every
\* limit.
THEOREM ChunksDivide ==
    ASSUME NEW t \in Seq(Block)
    PROVE  Divides(ChunksOf(t), Length(t))
<1>1. t \in Seq(Nat) /\ Len(t) \in Nat /\ \A i \in 1..Len(t) : t[i] \in Block
  BY DEF Block
<1>2. PICK upTo : /\ upTo[0] = 0
                  /\ \A i \in 1..Len(t) : upTo[i] = upTo[i - 1] + t[i]
                  /\ Length(t) = upTo[Len(t)]
  BY <1>1, LengthDef
<1>3. PICK after : /\ after[0] = Start
                   /\ \A i \in 1..Len(t) : after[i] = AddBlock(after[i - 1], t[i])
                   /\ ChunksOf(t) = Flush(after[Len(t)])
  BY ChunksDef
<1> DEFINE G == {i \in 0..Len(t) : upTo[i] \in Nat /\ Kept(after[i], upTo[i])}
<1>4. G = 0..Len(t)
  <2>1. 0 \in G
    <3>1. Kept(Start, 0)
      BY SearchAssumption DEF Kept, Start, Span, Accumulator, Chunk, Divides
    <3>2. QED
      BY <1>1, <1>2, <1>3, <3>1
  <2>2. ASSUME NEW i \in 0..Len(t), i \in G, i < Len(t)
        PROVE  i + 1 \in G
    <3>1. i + 1 \in 1..Len(t) /\ i + 1 \in 0..Len(t) /\ (i + 1) - 1 = i
      BY <1>1, <2>2
    <3>2. upTo[i + 1] = upTo[i] + t[i + 1] /\ after[i + 1] = AddBlock(after[i], t[i + 1])
      BY <1>2, <1>3, <3>1
    <3>3. t[i + 1] \in Block /\ upTo[i] \in Nat /\ Kept(after[i], upTo[i])
      BY <1>1, <2>2, <3>1
    <3>4. upTo[i + 1] \in Nat /\ Kept(after[i + 1], upTo[i + 1])
      <4>1. Kept(AddBlock(after[i], t[i + 1]), upTo[i] + t[i + 1])
        BY <3>3, AddBlockKept
      <4>2. upTo[i] + t[i + 1] \in Nat
        BY <3>3 DEF Block
      <4>3. QED
        BY <3>2, <4>1, <4>2
    <3>5. QED
      BY <3>1, <3>4
  <2>3. G \in SUBSET (0..Len(t))
    OBVIOUS
  <2> HIDE DEF G
  <2>4. QED
    BY <1>1, <2>1, <2>2, <2>3, UpTo
<1>5. Kept(after[Len(t)], Length(t)) /\ Length(t) \in Nat
  BY <1>1, <1>2, <1>4
<1>6. QED
  BY <1>3, <1>5, FlushDivides

-----------------------------------------------------------------------------
(* What is searched. *)

\* A file that is there is none that is not, and neither is a process's rest.
LEMMA NoFileDiffers == NoFile \notin Texts \cup Samples /\ NoFile # Nothing
<1>1. NoFile[1] = -1 /\ Nothing[1] = -2 /\ Len(NoFile) = 1
  BY DEF NoFile, Nothing
<1>2. \A t \in Texts \cup Samples : Len(t) = 1 => t[1] \in Nat
  BY SearchAssumption
<1>3. QED
  BY <1>1, <1>2

\* Nothing is indexed yet.
LEMMA SearchStart == SearchInit => SearchInv
<1> SUFFICES ASSUME SearchInit
             PROVE  SearchInv
  OBVIOUS
<1> USE DEF SearchInit
<1>1. SearchTypeOK
  BY DEF SearchTypeOK, NoSidecar
<1>2. FoundWhole
  BY DEF FoundWhole
<1>3. sidecar.chunks = IF sidecar.hash = NoFile THEN <<>> ELSE Chunks[sidecar.hash]
  BY DEF NoSidecar
<1>4. \A p \in Indexer : indexing[p] # NoFile
  BY NoFileDiffers
<1>5. QED
  BY <1>1, <1>2, <1>3, <1>4 DEF SearchInv

\* The writing, the indexing by several processes and the searching of a file
\* keep what a search finds the whole of one version.
LEMMA SearchKept == SearchInv /\ [SearchNext]_searchVars => SearchInv'
<1> SUFFICES ASSUME SearchInv, [SearchNext]_searchVars
             PROVE  SearchInv'
  OBVIOUS
<1> USE DEF SearchInv
<1>1. ASSUME UNCHANGED <<sidecar, indexing, found>>, text' \in Texts \cup Samples \cup {NoFile}
      PROVE  SearchInv'
  BY <1>1 DEF SearchTypeOK, FoundWhole
<1>2. ASSUME NEW t \in Texts \cup {NoFile}, WriteText(t)
      PROVE  SearchInv'
  BY <1>1, <1>2 DEF WriteText
<1>3. ASSUME NEW p \in Indexer, BeginIndex(p)
      PROVE  SearchInv'
  <2>1. text \in Texts \cup Samples /\ UNCHANGED <<text, sidecar, found>>
        /\ indexing' = [indexing EXCEPT ![p] = text]
    BY <1>3 DEF BeginIndex, SearchTypeOK
  <2>2. SearchTypeOK'
    BY <2>1 DEF SearchTypeOK
  <2>3. FoundWhole'
    BY <2>1 DEF FoundWhole
  <2>4. \A q \in Indexer : indexing'[q] # NoFile
    BY <2>1, NoFileDiffers DEF SearchTypeOK
  <2>5. QED
    BY <2>1, <2>2, <2>3, <2>4
<1>4. ASSUME NEW p \in Indexer, indexing' = [indexing EXCEPT ![p] = Nothing],
             UNCHANGED <<text, found>>, sidecar'.hash \in Texts \cup Samples \cup {NoFile},
             sidecar'.chunks = IF sidecar'.hash = NoFile THEN <<>> ELSE Chunks[sidecar'.hash]
      PROVE  SearchInv'
  <2>1. SearchTypeOK'
    BY <1>4 DEF SearchTypeOK
  <2>2. FoundWhole'
    BY <1>4 DEF FoundWhole
  <2>3. \A q \in Indexer : indexing'[q] # NoFile
    BY <1>4, NoFileDiffers DEF SearchTypeOK
  <2>4. QED
    BY <1>4, <2>1, <2>2, <2>3
<1>5. ASSUME NEW p \in Indexer, EndIndex(p)
      PROVE  SearchInv'
  <2>1. indexing[p] \in Texts \cup Samples /\ indexing[p] # NoFile
    BY <1>5 DEF EndIndex, SearchTypeOK
  <2>2. sidecar'.hash = indexing[p] /\ sidecar'.chunks = Chunks[indexing[p]]
    BY <1>5 DEF EndIndex, NewChunks
  <2>3. indexing' = [indexing EXCEPT ![p] = Nothing] /\ UNCHANGED <<text, found>>
    BY <1>5 DEF EndIndex
  <2>4. QED
    BY <1>4, <2>1, <2>2, <2>3
<1>6. ASSUME NEW p \in Indexer, FailIndex(p)
      PROVE  SearchInv'
  <2>1. indexing' = [indexing EXCEPT ![p] = Nothing] /\ UNCHANGED <<text, found>>
    BY <1>6 DEF FailIndex
  <2>2. /\ sidecar'.hash \in Texts \cup Samples \cup {NoFile}
        /\ sidecar'.chunks = IF sidecar'.hash = NoFile THEN <<>> ELSE Chunks[sidecar'.hash]
    BY <1>6 DEF FailIndex, NoSidecar, SearchTypeOK
  <2>3. QED
    BY <1>4, <2>1, <2>2
<1>7. ASSUME Search
      PROVE  SearchInv'
  <2>1. found' = sidecar.chunks /\ UNCHANGED <<text, sidecar, indexing>>
    BY <1>7 DEF Search
  <2>2. SearchTypeOK'
    BY <2>1 DEF SearchTypeOK
  <2>3. FoundWhole'
    <3>1. SUFFICES ASSUME found' # <<>>
                   PROVE  \E t \in DOMAIN Chunks :
                             found' = Chunks[t] /\ Divides(found', Length(t))
      BY DEF FoundWhole
    <3>2. sidecar.hash \in Texts \cup Samples /\ found' = Chunks[sidecar.hash]
      BY <2>1, <3>1 DEF SearchTypeOK
    <3>3. found' = ChunksOf(sidecar.hash) /\ sidecar.hash \in DOMAIN Chunks
      BY <3>2 DEF Chunks
    <3>4. sidecar.hash \in Seq(Block)
      BY <3>2, SearchAssumption DEF Block
    <3>5. Divides(found', Length(sidecar.hash))
      BY <3>3, <3>4, ChunksDivide
    <3>6. QED
      BY <3>2, <3>3, <3>5
  <2>4. QED
    BY <2>1, <2>2, <2>3
<1>8. CASE UNCHANGED searchVars
  BY <1>1, <1>8 DEF searchVars, SearchTypeOK
<1>9. QED
  BY <1>2, <1>3, <1>5, <1>6, <1>7, <1>8 DEF SearchNext

\* The invariant of the search.
THEOREM SearchInductive == SearchSpec => []SearchInv
BY SearchStart, SearchKept, PTL DEF SearchSpec

\* A search ranks the whole of one version of the file or nothing, however many
\* processes index it while it is edited, and whichever of them fail.
THEOREM FoundIsWhole == SearchSpec => []FoundWhole
<1>1. SearchInv => FoundWhole
  BY DEF SearchInv
<1>2. QED
  BY <1>1, SearchInductive, PTL
=============================================================================
