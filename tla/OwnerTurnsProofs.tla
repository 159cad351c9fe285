-------------------------- MODULE OwnerTurnsProofs --------------------------
(***************************************************************************)
(* Proofs about OwnerTurns, for any streams, owners and bound on events.   *)
(***************************************************************************)
EXTENDS OwnerTurns, SequenceTheorems, TLAPS

-----------------------------------------------------------------------------
(* The books of the lock: HoldersHold, WaitersWait, WaitingQueued *)

\* What is left of a sequence without its element at i.
LEMMA RemoveAtFacts ==
    ASSUME NEW S, NEW q \in Seq(S), NEW i \in 1..Len(q)
    PROVE  /\ RemoveAt(q, i) \in Seq(S) /\ Len(RemoveAt(q, i)) = Len(q) - 1
           /\ \A j \in 1..(Len(q) - 1) :
                 RemoveAt(q, i)[j] = IF j < i THEN q[j] ELSE q[j + 1]
<1> DEFINE a == SubSeq(q, 1, i - 1)
           b == SubSeq(q, i + 1, Len(q))
<1>0. Len(q) \in Nat /\ i \in Nat /\ \A j \in 1..(Len(q) - 1) : j \in Nat
  OBVIOUS
<1>1. a \in Seq(S) /\ b \in Seq(S)
  OBVIOUS
<1>2. Len(a) = i - 1 /\ Len(b) = Len(q) - i
  OBVIOUS
<1>3. \A j \in 1..(i - 1) : a[j] = q[j]
  OBVIOUS
<1>4. \A j \in 1..(Len(q) - i) : b[j] = q[i + j]
  OBVIOUS
<1>5. RemoveAt(q, i) = a \o b
  BY DEF RemoveAt
<1> HIDE DEF a, b
<1>6. a \o b \in Seq(S) /\ Len(a \o b) = Len(q) - 1
  BY <1>1, <1>2
<1>7. ASSUME NEW j \in 1..(Len(q) - 1)
      PROVE  (a \o b)[j] = IF j < i THEN q[j] ELSE q[j + 1]
  <2>0. j \in Nat /\ i \in Nat /\ (j < i \/ j >= i)
    BY <1>0
  <2>1. CASE j < i
    BY <1>1, <1>2, <1>3, <2>1
  <2>2. CASE j >= i
    <3>1. (a \o b)[j] = b[j - (i - 1)]
      BY <1>1, <1>2, <2>2
    <3>2. j - (i - 1) \in 1..(Len(q) - i) /\ i + (j - (i - 1)) = j + 1
      BY <1>0, <2>2
    <3>3. b[j - (i - 1)] = q[j + 1]
      <4>1. b[j - (i - 1)] = q[i + (j - (i - 1))]
        BY <1>4, <3>2
      <4>2. QED
        BY <3>2, <4>1
    <3>4. ~(j < i)
      BY <1>0, <2>2
    <3>5. QED
      BY <3>1, <3>3, <3>4
  <2>3. QED
    BY <2>0, <2>1, <2>2
<1>8. QED
  BY <1>5, <1>6, <1>7

\* The invariant holds when the engine starts.
LEMMA InitInv == Init => IInv
<1> SUFFICES ASSUME Init
             PROVE  IInv
  OBVIOUS
<1>1. TypeOK
  BY ConstAssumption DEF Init, TypeOK, At, Pull, Run
<1>2. HoldersHold /\ OwnersKnown /\ WaitersWait /\ WaitingQueued /\ RunsHold
  BY ConstAssumption DEF Init, Holding, HoldersHold, OwnersKnown, WaitersWait,
     WaitingQueued, RunsHold
<1>3. QED
  BY <1>1, <1>2 DEF IInv

\* A step of one generator that neither takes, leaves nor awaits the lock keeps
\* its books.
LEMMA MoveInside ==
    ASSUME IInv, UNCHANGED <<owner, lock>>,
           NEW s \in Stream, at[s] \in Holding, at'[s] \in Holding,
           \A t \in Stream \ {s} : at'[t] = at[t]
    PROVE  HoldersHold' /\ OwnersKnown' /\ WaitersWait' /\ WaitingQueued'
<1> USE DEF IInv, lock
<1>1. HoldersHold' /\ OwnersKnown'
  BY DEF HoldersHold, OwnersKnown
<1>2. at[s] # "waiting" /\ at'[s] # "waiting"
  BY DEF Holding
<1>3. WaitersWait'
  <2>1. \A o \in Owner : \A i \in DOMAIN waiters[o] : waiters[o][i] \in Stream \ {s}
    BY <1>2 DEF TypeOK, WaitersWait
  <2>2. QED
    BY <2>1 DEF WaitersWait
<1>4. WaitingQueued'
  BY <1>2 DEF WaitingQueued
<1>5. QED
  BY <1>1, <1>3, <1>4

\* What Claude does to a run is no business of the lock.
LEMMA ClaudeInv ==
    ASSUME IInv, NEW s \in Stream, Claude(s)
    PROVE  IInv'
<1> USE DEF IInv, streams, lock
<1>1. HoldersHold' /\ OwnersKnown' /\ WaitersWait' /\ WaitingQueued'
  BY DEF Claude, Emit, Exhaust, Stopped, HoldersHold, OwnersKnown, WaitersWait, WaitingQueued
<1>2. CASE Emit(s)
  BY <1>1, <1>2, ConstAssumption DEF Emit, TypeOK, Pull, RunsHold
<1>3. CASE Exhaust(s)
  BY <1>1, <1>3 DEF Exhaust, TypeOK, Pull, Run, RunsHold
<1>4. CASE Stopped(s)
  BY <1>1, <1>4 DEF Stopped, TypeOK, Run, RunsHold
<1>5. QED
  BY <1>2, <1>3, <1>4 DEF Claude

\* Frames, heartbeats and hang-ups leave the lock where it is.
LEMMA MovesInv ==
    ASSUME IInv, NEW s \in Stream,
           \/ Frame(s) \/ Ping(s) \/ Continue(s) \/ Finish(s)
           \/ HangUpPulling(s) \/ HangUpSuspended(s) \/ Finalise(s)
    PROVE  IInv'
<1> USE DEF IInv, lock, claude
<1>1. HoldersHold' /\ OwnersKnown' /\ WaitersWait' /\ WaitingQueued'
  <2>1. /\ UNCHANGED <<owner, lock>> /\ at[s] \in Holding /\ at'[s] \in Holding
        /\ \A t \in Stream \ {s} : at'[t] = at[t]
    BY DEF Frame, Ping, Continue, Finish, HangUpPulling, HangUpSuspended, Finalise,
           Holding, TypeOK
  <2>2. QED
    BY <2>1, MoveInside
<1>2. CASE Frame(s)
  <2>1. TypeOK'
    BY <1>2 DEF Frame, TypeOK, At, Pull
  <2>2. RunsHold'
    BY <1>2 DEF Frame, TypeOK, RunsHold, Holding
  <2>3. QED
    BY <1>1, <2>1, <2>2
<1>3. CASE Ping(s)
  <2>1. TypeOK'
    BY <1>3 DEF Ping, KeepPull, TypeOK, At
  <2>2. RunsHold'
    BY <1>3 DEF Ping, KeepPull, TypeOK, RunsHold, Holding
  <2>3. QED
    BY <1>1, <2>1, <2>2
<1>4. CASE Continue(s)
  <2>1. TypeOK'
    BY <1>4 DEF Continue, TypeOK, At, Pull
  <2>2. RunsHold'
    BY <1>4 DEF Continue, TypeOK, RunsHold, Holding
  <2>3. QED
    BY <1>1, <2>1, <2>2
<1>5. CASE Finish(s)
  <2>1. TypeOK'
    BY <1>5, ConstAssumption DEF Finish, TypeOK, At, Pull, EndFrame
  <2>2. RunsHold'
    BY <1>5 DEF Finish, TypeOK, RunsHold, Holding
  <2>3. QED
    BY <1>1, <2>1, <2>2
<1>6. CASE HangUpPulling(s)
  <2>1. TypeOK'
    BY <1>6 DEF HangUpPulling, GiveUpTask, TypeOK, At, Pull, Run
  <2>2. RunsHold'
    BY <1>6 DEF HangUpPulling, GiveUpTask, TypeOK, RunsHold, Holding
  <2>3. QED
    BY <1>1, <2>1, <2>2
<1>7. CASE HangUpSuspended(s)
  <2>1. TypeOK'
    BY <1>7 DEF HangUpSuspended, TypeOK, At
  <2>2. RunsHold'
    BY <1>7 DEF HangUpSuspended, TypeOK, RunsHold, Holding
  <2>3. QED
    BY <1>1, <2>1, <2>2
<1>8. CASE Finalise(s)
  <2>1. TypeOK'
    BY <1>8 DEF Finalise, GiveUpTask, TypeOK, At, Pull, Run
  <2>2. RunsHold'
    BY <1>8 DEF Finalise, GiveUpTask, TypeOK, RunsHold, Holding
  <2>3. QED
    BY <1>1, <2>1, <2>2
<1>9. QED
  BY <1>2, <1>3, <1>4, <1>5, <1>6, <1>7, <1>8

\* The end of a generator releases the lock it holds.
LEMMA EndsInv ==
    ASSUME IInv, NEW s \in Stream, Close(s) \/ Collect(s)
    PROVE  IInv'
<1> USE DEF IInv, claude
<1>1. /\ at[s] \in {"closing", "dropped"} /\ owner[s] \in Owner /\ holder[owner[s]] = s
      /\ at' = [at EXCEPT ![s] = "done"] /\ holder' = [holder EXCEPT ![owner[s]] = None]
      /\ UNCHANGED <<owner, waiters, frames, pull, produced, turn>>
  BY DEF Close, Collect, Release, Holding, OwnersKnown, HoldersHold
<1>2. TypeOK'
  BY <1>1 DEF Close, Collect, TypeOK, At, Run
<1>3. HoldersHold'
  BY <1>1, ConstAssumption DEF HoldersHold, Holding, TypeOK
<1>4. OwnersKnown'
  BY <1>1 DEF OwnersKnown, TypeOK, Holding
<1>5. WaitersWait' /\ WaitingQueued'
  <2>1. \A o \in Owner : \A i \in DOMAIN waiters[o] : waiters[o][i] \in Stream \ {s}
    BY <1>1 DEF TypeOK, WaitersWait
  <2>2. WaitersWait'
    BY <1>1, <2>1 DEF WaitersWait, TypeOK
  <2>3. \A t \in Stream : at'[t] = "waiting" => at[t] = "waiting"
    BY <1>1 DEF TypeOK
  <2>4. WaitingQueued'
    BY <1>1, <2>3 DEF WaitingQueued
  <2>5. QED
    BY <2>2, <2>4
<1>6. RunsHold'
  BY <1>1 DEF Close, Collect, RunsHold, TypeOK, Holding
<1>7. QED
  BY <1>2, <1>3, <1>4, <1>5, <1>6

\* A waiter that stops waiting leaves the queue at its place; the others keep theirs.
LEMMA Dequeue ==
    ASSUME IInv, UNCHANGED owner,
           NEW s \in Stream, NEW o \in Owner, NEW i \in DOMAIN waiters[o],
           waiters[o][i] = s, at'[s] # "waiting",
           \A t \in Stream \ {s} : at'[t] = at[t],
           waiters' = [waiters EXCEPT ![o] = RemoveAt(@, i)]
    PROVE  /\ waiters' \in [Owner -> Seq(Stream)]
           /\ WaitersWait' /\ WaitingQueued'
<1> DEFINE q == waiters[o]
           r == RemoveAt(q, i)
<1> USE DEF IInv
<1>1. q \in Seq(Stream) /\ i \in 1..Len(q) /\ Len(q) \in Nat
  BY DEF TypeOK
<1>2. /\ r \in Seq(Stream) /\ Len(r) = Len(q) - 1
      /\ \A j \in 1..(Len(q) - 1) : r[j] = IF j < i THEN q[j] ELSE q[j + 1]
  BY <1>1, RemoveAtFacts
<1>3. waiters' = [waiters EXCEPT ![o] = r] /\ waiters \in [Owner -> Seq(Stream)]
  BY DEF TypeOK
<1>4. DOMAIN q = 1..Len(q) /\ DOMAIN r = 1..(Len(q) - 1)
  BY <1>1, <1>2
<1>5. \A j, k \in DOMAIN q : q[j] = q[k] => j = k
  BY DEF WaitersWait
<1> HIDE DEF q, r
<1>6. /\ \A j \in DOMAIN r : \E k \in DOMAIN q : k # i /\ r[j] = q[k]
      /\ \A j, k \in DOMAIN r : r[j] = r[k] => j = k
      /\ \A k \in DOMAIN q : k # i => \E j \in DOMAIN r : r[j] = q[k]
  <2> DEFINE From(j) == IF j < i THEN j ELSE j + 1
  <2>1. \A j \in DOMAIN r : From(j) \in DOMAIN q /\ From(j) # i /\ r[j] = q[From(j)]
    BY <1>1, <1>2, <1>4
  <2>2. \A j, k \in DOMAIN r : From(j) = From(k) => j = k
    BY <1>1, <1>4
  <2>3. ASSUME NEW k \in DOMAIN q, k # i
        PROVE  \E j \in DOMAIN r : r[j] = q[k]
    <3>1. CASE k < i
      BY <1>1, <1>2, <1>4, <3>1
    <3>2. CASE k > i
      <4>1. k - 1 \in DOMAIN r /\ ~(k - 1 < i) /\ (k - 1) + 1 = k
        BY <1>1, <1>4, <3>2
      <4>2. r[k - 1] = q[(k - 1) + 1]
        BY <1>2, <1>4, <4>1
      <4>3. QED
        BY <4>1, <4>2
    <3>3. QED
      BY <1>1, <1>4, <2>3, <3>1, <3>2
  <2> HIDE DEF From
  <2>4. QED
    BY <1>5, <2>1, <2>2, <2>3
<1>7. WaitersWait'
  <2>1. ASSUME NEW p \in Owner, p # o, NEW j \in DOMAIN waiters[p]
        PROVE  waiters[p][j] \in Stream \ {s}
    BY <2>1 DEF WaitersWait, TypeOK
  <2>2. ASSUME NEW j \in DOMAIN r
        PROVE  r[j] \in Stream \ {s} /\ at[r[j]] = "waiting" /\ owner[r[j]] = o
    <3>1. PICK k \in DOMAIN q : k # i /\ r[j] = q[k]
      BY <1>6
    <3>2. q[k] \in Stream \ {s} /\ at[q[k]] = "waiting" /\ owner[q[k]] = o
      BY <1>1, <1>5, <3>1 DEF WaitersWait, q
    <3>3. QED
      BY <3>1, <3>2
  <2>3. ASSUME NEW j \in DOMAIN waiters'[o]
        PROVE  LET t == waiters'[o][j] IN
               /\ at'[t] = "waiting" /\ owner'[t] = o
               /\ \A k \in DOMAIN waiters'[o] : waiters'[o][k] = t => j = k
    BY <1>3, <1>6, <2>2, <2>3
  <2>4. ASSUME NEW p \in Owner, p # o, NEW j \in DOMAIN waiters'[p]
        PROVE  LET t == waiters'[p][j] IN
               /\ at'[t] = "waiting" /\ owner'[t] = p
               /\ \A k \in DOMAIN waiters'[p] : waiters'[p][k] = t => j = k
    <3>1. waiters'[p] = waiters[p]
      BY <1>3, <2>4
    <3>2. QED
      BY <2>1, <2>4, <3>1 DEF WaitersWait
  <2>5. QED
    BY <2>3, <2>4 DEF WaitersWait
<1>8. WaitingQueued'
  <2> SUFFICES ASSUME NEW t \in Stream, at'[t] = "waiting"
               PROVE  \E j \in DOMAIN waiters'[owner'[t]] : waiters'[owner'[t]][j] = t
    BY DEF WaitingQueued
  <2>1. t # s /\ at[t] = "waiting" /\ owner[t] \in Owner
    BY DEF OwnersKnown
  <2>2. PICK k \in DOMAIN waiters[owner[t]] : waiters[owner[t]][k] = t
    BY <2>1 DEF WaitingQueued
  <2>3. CASE owner[t] = o
    BY <1>3, <1>6, <2>1, <2>2, <2>3 DEF q
  <2>4. CASE owner[t] # o
    BY <1>3, <2>1, <2>2, <2>4
  <2>5. QED
    BY <2>3, <2>4
<1>9. QED
  BY <1>2, <1>3, <1>7, <1>8

\* A new waiter stands at the end of one queue only.
LEMMA Enqueue ==
    ASSUME IInv, NEW s \in Stream, NEW o \in Owner, at[s] = "idle",
           at' = [at EXCEPT ![s] = "waiting"], owner' = [owner EXCEPT ![s] = o],
           waiters' = [waiters EXCEPT ![o] = Append(@, s)]
    PROVE  /\ waiters' \in [Owner -> Seq(Stream)]
           /\ WaitersWait' /\ WaitingQueued'
<1> DEFINE q == waiters[o]
           r == Append(q, s)
<1> USE DEF IInv
<1>1. q \in Seq(Stream) /\ Len(q) \in Nat
  BY DEF TypeOK
<1>2. r \in Seq(Stream) /\ waiters' = [waiters EXCEPT ![o] = r]
  BY <1>1
<1>3. /\ DOMAIN q = 1..Len(q) /\ DOMAIN r = 1..(Len(q) + 1)
      /\ \A j \in 1..Len(q) : r[j] = q[j]
      /\ r[Len(q) + 1] = s
  BY <1>1
<1>4. waiters \in [Owner -> Seq(Stream)]
  BY DEF TypeOK
<1>5. \A p \in Owner : \A j \in DOMAIN waiters[p] : waiters[p][j] \in Stream \ {s}
  BY <1>4 DEF WaitersWait
<1>6. /\ at'[s] = "waiting" /\ owner'[s] = o
      /\ \A t \in Stream \ {s} : at'[t] = at[t] /\ owner'[t] = owner[t]
  BY DEF TypeOK
<1>7. \A j \in DOMAIN q : /\ q[j] \in Stream \ {s} /\ at[q[j]] = "waiting" /\ owner[q[j]] = o
                          /\ \A k \in DOMAIN q : q[k] = q[j] => j = k
  BY <1>5 DEF WaitersWait
<1> HIDE DEF q, r
<1>8. WaitersWait'
  <2>1. ASSUME NEW j \in DOMAIN r
        PROVE  /\ at'[r[j]] = "waiting" /\ owner'[r[j]] = o
               /\ \A k \in DOMAIN r : r[k] = r[j] => j = k
    <3>1. CASE j \in 1..Len(q)
      BY <1>1, <1>3, <1>6, <1>7, <3>1
    <3>2. CASE j = Len(q) + 1
      BY <1>1, <1>3, <1>6, <1>7, <3>2
    <3>3. QED
      BY <1>1, <1>3, <3>1, <3>2
  <2>2. ASSUME NEW p \in Owner, p # o, NEW j \in DOMAIN waiters'[p]
        PROVE  LET t == waiters'[p][j] IN
               /\ at'[t] = "waiting" /\ owner'[t] = p
               /\ \A k \in DOMAIN waiters'[p] : waiters'[p][k] = t => j = k
    <3>1. waiters'[p] = waiters[p]
      BY <1>2, <1>4, <2>2
    <3>2. QED
      BY <1>5, <1>6, <2>2, <3>1 DEF WaitersWait
  <2>3. waiters'[o] = r
    BY <1>2, <1>4
  <2>4. QED
    BY <2>1, <2>2, <2>3 DEF WaitersWait
<1>9. WaitingQueued'
  <2> SUFFICES ASSUME NEW t \in Stream, at'[t] = "waiting"
               PROVE  \E j \in DOMAIN waiters'[owner'[t]] : waiters'[owner'[t]][j] = t
    BY DEF WaitingQueued
  <2>1. CASE t = s
    <3>1. waiters'[o] = r /\ Len(q) + 1 \in DOMAIN r /\ r[Len(q) + 1] = s
      BY <1>1, <1>2, <1>3, <1>4
    <3>2. QED
      BY <1>6, <2>1, <3>1
  <2>2. CASE t # s
    <3>1. at[t] = "waiting" /\ owner'[t] = owner[t] /\ owner[t] \in Owner
      BY <1>6, <2>2 DEF OwnersKnown
    <3>2. PICK k \in DOMAIN waiters[owner[t]] : waiters[owner[t]][k] = t
      BY <3>1 DEF WaitingQueued
    <3>3. CASE owner[t] = o
      <4>1. k \in 1..Len(q) /\ q[k] = t
        BY <1>3, <3>2, <3>3 DEF q
      <4>2. k \in DOMAIN r /\ r[k] = t
        BY <1>1, <1>3, <4>1
      <4>3. QED
        BY <1>2, <1>4, <3>1, <3>3, <4>2, SMTT(30)
    <3>4. CASE owner[t] # o
      BY <1>2, <1>4, <3>1, <3>2, <3>4
    <3>5. QED
      BY <3>3, <3>4
  <2>3. QED
    BY <2>1, <2>2
<1>10. QED
  BY <1>2, <1>4, <1>8, <1>9

\* A request takes a free lock, or queues for it.
LEMMA RequestInv ==
    ASSUME IInv, NEW s \in Stream, Request(s)
    PROVE  IInv'
<1> USE DEF IInv, claude
<1>1. PICK o \in Owner :
         /\ at[s] = "idle" /\ owner' = [owner EXCEPT ![s] = o] /\ UNCHANGED turn
         /\ \/ LockFree(o) /\ Starts(s)
               /\ holder' = [holder EXCEPT ![o] = s] /\ UNCHANGED waiters
            \/ ~LockFree(o) /\ at' = [at EXCEPT ![s] = "waiting"]
               /\ waiters' = [waiters EXCEPT ![o] = Append(@, s)]
               /\ UNCHANGED <<holder, claude, frames>>
  BY DEF Request
<1>2. CASE LockFree(o) /\ Starts(s) /\ holder' = [holder EXCEPT ![o] = s] /\ UNCHANGED waiters
  <2>1. TypeOK'
    BY <1>1, <1>2 DEF Starts, TypeOK, At, Pull, Run
  <2>2. HoldersHold'
    BY <1>1, <1>2, ConstAssumption DEF LockFree, Starts, HoldersHold, Holding, TypeOK
  <2>3. OwnersKnown'
    BY <1>1, <1>2 DEF Starts, OwnersKnown, TypeOK
  <2>4. \A p \in Owner : \A j \in DOMAIN waiters[p] : waiters[p][j] \in Stream \ {s}
    BY <1>1 DEF WaitersWait, TypeOK
  <2>5. /\ at'[s] = "pulling"
        /\ \A t \in Stream \ {s} : at'[t] = at[t] /\ owner'[t] = owner[t]
    BY <1>1, <1>2 DEF Starts, TypeOK
  <2>6. WaitersWait'
    BY <1>2, <2>4, <2>5 DEF WaitersWait
  <2>7. WaitingQueued'
    BY <1>2, <2>5 DEF WaitingQueued
  <2>8. RunsHold'
    BY <1>1, <1>2 DEF Starts, RunsHold, TypeOK, Holding
  <2>9. QED
    BY <2>1, <2>2, <2>3, <2>6, <2>7, <2>8
<1>3. CASE /\ ~LockFree(o) /\ at' = [at EXCEPT ![s] = "waiting"]
           /\ waiters' = [waiters EXCEPT ![o] = Append(@, s)]
           /\ UNCHANGED <<holder, claude, frames>>
  <2>1. waiters' \in [Owner -> Seq(Stream)] /\ WaitersWait' /\ WaitingQueued'
    BY <1>1, <1>3, Enqueue
  <2>2. TypeOK'
    BY <1>1, <1>3, <2>1 DEF TypeOK, At
  <2>3. HoldersHold'
    BY <1>1, <1>3 DEF HoldersHold, Holding, TypeOK
  <2>4. OwnersKnown'
    BY <1>1, <1>3 DEF OwnersKnown, TypeOK
  <2>5. RunsHold'
    BY <1>1, <1>3 DEF RunsHold, TypeOK, Holding
  <2>6. QED
    BY <2>1, <2>2, <2>3, <2>4, <2>5
<1>4. QED
  BY <1>1, <1>2, <1>3

\* A waiter gets the lock, or its client hangs up.
LEMMA QueueInv ==
    ASSUME IInv, NEW s \in Stream, Refuse(s) \/ Resume(s) \/ HangUpWaiting(s)
    PROVE  IInv'
<1> USE DEF IInv, lock, claude
<1>1. CASE Refuse(s)
  <2>1. TypeOK' /\ RunsHold'
    BY <1>1 DEF Refuse, TypeOK, At, RunsHold, Holding
  <2>2. HoldersHold' /\ OwnersKnown'
    BY <1>1 DEF Refuse, HoldersHold, OwnersKnown, Holding, TypeOK
  <2>3. \A p \in Owner : \A j \in DOMAIN waiters[p] : waiters[p][j] \in Stream \ {s}
    BY <1>1 DEF Refuse, WaitersWait, TypeOK
  <2>4. /\ at'[s] = "done" /\ UNCHANGED <<owner, waiters>>
        /\ \A t \in Stream \ {s} : at'[t] = at[t]
    BY <1>1 DEF Refuse, TypeOK
  <2>5. WaitersWait'
    BY <2>3, <2>4 DEF WaitersWait
  <2>6. WaitingQueued'
    BY <2>4 DEF WaitingQueued
  <2>7. QED
    BY <2>1, <2>2, <2>5, <2>6
<1>2. CASE Resume(s)
  <2> DEFINE o == owner[s]
  <2>1. at[s] = "waiting" /\ o \in Owner /\ holder[o] = None
    BY <1>2 DEF Resume, OwnersKnown
  <2>2. PICK i \in DOMAIN waiters[o] :
           waiters[o][i] = s /\ waiters' = [waiters EXCEPT ![o] = RemoveAt(@, i)]
    BY <1>2 DEF Resume, IsAt
  <2>3. /\ at' = [at EXCEPT ![s] = "pulling"] /\ holder' = [holder EXCEPT ![o] = s]
        /\ pull' = [pull EXCEPT ![s] = "pending"] /\ run' = [run EXCEPT ![s] = "running"]
        /\ UNCHANGED <<produced, frames, owner, turn>>
    BY <1>2 DEF Resume, Starts
  <2>4. at'[s] # "waiting" /\ \A t \in Stream \ {s} : at'[t] = at[t]
    BY <2>3 DEF TypeOK
  <2>5. waiters' \in [Owner -> Seq(Stream)] /\ WaitersWait' /\ WaitingQueued'
    BY <2>1, <2>2, <2>3, <2>4, Dequeue
  <2>6. TypeOK'
    BY <2>1, <2>3, <2>5 DEF TypeOK, At, Pull, Run
  <2>7. HoldersHold'
    BY <2>1, <2>3, ConstAssumption DEF HoldersHold, Holding, TypeOK
  <2>8. OwnersKnown' /\ RunsHold'
    BY <2>1, <2>3 DEF OwnersKnown, RunsHold, Holding, TypeOK
  <2>9. QED
    BY <2>5, <2>6, <2>7, <2>8
<1>3. CASE HangUpWaiting(s)
  <2> DEFINE o == owner[s]
  <2>1. at[s] = "waiting" /\ o \in Owner /\ at' = [at EXCEPT ![s] = "done"]
        /\ UNCHANGED <<owner, frames, holder, claude, turn>>
    BY <1>3 DEF HangUpWaiting, OwnersKnown
  <2>2. PICK i \in DOMAIN waiters[o] :
           waiters[o][i] = s /\ waiters' = [waiters EXCEPT ![o] = RemoveAt(@, i)]
    BY <1>3 DEF HangUpWaiting, LeaveQueue, IsAt
  <2>3. at'[s] # "waiting" /\ \A t \in Stream \ {s} : at'[t] = at[t]
    BY <2>1 DEF TypeOK
  <2>4. waiters' \in [Owner -> Seq(Stream)] /\ WaitersWait' /\ WaitingQueued'
    BY <2>1, <2>2, <2>3, Dequeue
  <2>5. TypeOK'
    BY <2>1, <2>4 DEF TypeOK, At
  <2>6. HoldersHold'
    BY <2>1 DEF HoldersHold, Holding, TypeOK
  <2>7. OwnersKnown' /\ RunsHold'
    BY <2>1 DEF OwnersKnown, RunsHold, Holding, TypeOK
  <2>8. QED
    BY <2>4, <2>5, <2>6, <2>7
<1>4. QED
  BY <1>1, <1>2, <1>3

\* Every step keeps the invariant.
LEMMA NextInv == IInv /\ [Next]_vars => IInv'
<1> SUFFICES ASSUME IInv, [Next]_vars
             PROVE  IInv'
  OBVIOUS
<1>1. ASSUME NEW s \in Stream,
             Claude(s) \/ Engine(s) \/ Ping(s) \/ Client(s) \/ Collector(s)
      PROVE  IInv'
  BY <1>1, ClaudeInv, MovesInv, EndsInv, RequestInv, QueueInv DEF Engine, Client, Collector
<1>2. CASE (\E o \in Owner : TelegramTurn(o)) \/ TelegramDone
  BY <1>2 DEF TelegramTurn, TelegramDone, streams, lock, claude, IInv, TypeOK, HoldersHold,
     OwnersKnown, WaitersWait, WaitingQueued, RunsHold
<1>3. CASE UNCHANGED vars
  BY <1>3 DEF vars, streams, lock, claude, IInv, TypeOK, HoldersHold, OwnersKnown,
     WaitersWait, WaitingQueued, RunsHold
<1>4. QED
  BY <1>1, <1>2, <1>3 DEF Next

\* The lock's books agree with the generators, whatever hangs up where.
THEOREM Inductive == Spec => []IInv
<1>1. QED
  BY InitInv, NextInv, PTL DEF Spec

\* No two runs of one owner are ever going on.
THEOREM RunsAreSerial == Spec => []RunsSerial
<1>1. IInv => RunsSerial
  <2> SUFFICES ASSUME IInv, NEW s \in Stream, NEW t \in Stream,
                      run[s] = "running", run[t] = "running", owner[s] = owner[t]
               PROVE  s = t
    BY DEF RunsSerial
  <2>1. at[s] \in Holding /\ at[t] \in Holding /\ owner[s] \in Owner
    BY DEF IInv, RunsHold, OwnersKnown
  <2>2. QED
    BY <2>1 DEF IInv, HoldersHold
<1>2. QED
  BY <1>1, Inductive, PTL

-----------------------------------------------------------------------------
(* The frames of an answer *)

\* FramesInv and AnswersComplete of one stream.
Sound(s) ==
    LET n == Len(frames[s])
        ended == n > 0 /\ frames[s][n] = EndFrame
    IN /\ at[s] \in {"idle", "waiting"} => frames[s] = <<>> /\ produced[s] = 0
       /\ at[s] \in InLoop =>
            /\ produced[s] = n + (IF pull[s] = "event" THEN 1 ELSE 0)
            /\ \A i \in 1..n : frames[s][i] = i
       /\ at[s] \notin InLoop => pull[s] = "none"
       /\ pull[s] \in {"stop", "error"} => run[s] \in {"finished", "failed"}
       /\ \A i \in 1..n : frames[s][i] = i \/ (i = n /\ ended)
       /\ ended => n = produced[s] + 1 /\ run[s] \in {"finished", "failed"}

\* Sound, of every stream.
LEMMA SoundMeans == FramesInv /\ AnswersComplete <=> \A s \in Stream : Sound(s)
BY DEF FramesInv, AnswersComplete, Sound

\* A step that is not about the stream keeps it sound.
LEMMA UntouchedSound ==
    ASSUME NEW t \in Stream, Sound(t),
           at'[t] = at[t], pull'[t] = pull[t], run'[t] = run[t],
           produced'[t] = produced[t], frames'[t] = frames[t]
    PROVE  Sound(t)'
BY DEF Sound

\* While the generator is in its loop, no frame is an end frame.
LEMMA LoopNotEnded ==
    ASSUME TypeOK, NEW s \in Stream, Sound(s), at[s] \in InLoop
    PROVE  /\ Len(frames[s]) \in Nat /\ produced[s] \in Nat
           /\ ~(Len(frames[s]) > 0 /\ frames[s][Len(frames[s])] = EndFrame)
<1> DEFINE n == Len(frames[s])
<1>1. frames[s] \in Seq(0..MaxEvents) /\ produced[s] \in 0..MaxEvents
  BY DEF TypeOK
<1>2. n \in Nat /\ produced[s] \in Nat
  BY <1>1, ConstAssumption
<1>3. \A i \in 1..n : frames[s][i] = i
  BY DEF Sound
<1>4. CASE n > 0
  <2>1. n \in 1..n
    BY <1>2, <1>4
  <2>2. frames[s][n] = n
    BY <1>3, <2>1
  <2>3. QED
    BY <1>2, <1>4, <2>2 DEF EndFrame
<1>5. QED
  BY <1>2, <1>4

\* A step of the stream itself keeps it sound.
LEMMA SoundStep ==
    ASSUME TypeOK, NEW s \in Stream, Sound(s),
           Claude(s) \/ Engine(s) \/ Ping(s) \/ Client(s) \/ Collector(s)
    PROVE  Sound(s)'
<1> USE DEF streams, lock, claude
<1>0. /\ frames[s] \in Seq(0..MaxEvents) /\ Len(frames[s]) \in Nat /\ produced[s] \in Nat
      /\ at \in [Stream -> At] /\ pull \in [Stream -> Pull] /\ run \in [Stream -> Run]
      /\ produced \in [Stream -> 0..MaxEvents] /\ frames \in [Stream -> Seq(0..MaxEvents)]
  BY DEF TypeOK
<1>1. CASE Emit(s)
  <2>1. at[s] \in InLoop /\ pull[s] = "pending"
    BY <1>1 DEF Emit, Sound
  <2>2. /\ at'[s] = at[s] /\ frames'[s] = frames[s] /\ run'[s] = run[s]
        /\ pull'[s] = "event" /\ produced'[s] = produced[s] + 1
    BY <1>0, <1>1 DEF Emit
  <2>3. /\ produced[s] = Len(frames[s]) /\ \A i \in 1..Len(frames[s]) : frames[s][i] = i
        /\ at[s] \notin {"idle", "waiting"}
    BY <2>1 DEF Sound, InLoop
  <2>4. produced'[s] = Len(frames'[s]) + 1
    BY <2>2, <2>3
  <2>5. ~(Len(frames[s]) > 0 /\ frames[s][Len(frames[s])] = EndFrame)
    BY <2>1, LoopNotEnded
  <2>6. QED
    BY <2>1, <2>2, <2>3, <2>4, <2>5 DEF Sound
<1>2. CASE Exhaust(s)
  <2>1. at[s] \in InLoop /\ pull[s] = "pending"
    BY <1>2 DEF Exhaust, Sound
  <2>2. /\ at'[s] = at[s] /\ frames'[s] = frames[s] /\ produced'[s] = produced[s]
        /\ pull'[s] \in {"stop", "error"} /\ run'[s] \in {"finished", "failed"}
    BY <1>0, <1>2 DEF Exhaust
  <2>3. QED
    BY <1>0, <2>1, <2>2, LoopNotEnded DEF Sound
<1>3. CASE Stopped(s)
  BY <1>0, <1>3 DEF Stopped, Sound
<1>4. CASE Frame(s)
  <2>1. at[s] \in InLoop /\ pull[s] = "event"
    BY <1>4 DEF Frame, InLoop
  <2>2. /\ at'[s] = "framing" /\ run'[s] = run[s] /\ produced'[s] = produced[s]
        /\ pull'[s] = "none" /\ frames'[s] = Append(frames[s], produced[s])
    BY <1>0, <1>4 DEF Frame
  <2>3. /\ Len(frames'[s]) = Len(frames[s]) + 1
        /\ \A i \in 1..Len(frames[s]) : frames'[s][i] = frames[s][i]
        /\ frames'[s][Len(frames[s]) + 1] = produced[s]
    BY <1>0, <2>2
  <2>4. produced[s] = Len(frames[s]) + 1 /\ \A i \in 1..Len(frames[s]) : frames[s][i] = i
    BY <2>1 DEF Sound
  <2>5. ASSUME NEW i \in 1..Len(frames'[s])
        PROVE  frames'[s][i] = i
    <3>1. i \in 1..Len(frames[s]) \/ i = Len(frames[s]) + 1
      BY <1>0, <2>3
    <3>2. QED
      BY <2>3, <2>4, <3>1
  <2>6. produced'[s] = Len(frames'[s]) /\ frames'[s][Len(frames'[s])] # EndFrame
    BY <1>0, <2>2, <2>3, <2>4 DEF EndFrame
  <2>7. QED
    BY <2>2, <2>5, <2>6 DEF Sound, InLoop
<1>5. CASE Ping(s)
  BY <1>0, <1>5 DEF Ping, KeepPull, Sound, InLoop
<1>6. CASE Continue(s)
  BY <1>0, <1>6 DEF Continue, Sound, InLoop
<1>7. CASE Finish(s)
  <2>1. at[s] \in InLoop /\ pull[s] \in {"stop", "error"}
    BY <1>7 DEF Finish, InLoop
  <2>2. /\ at'[s] = "closing" /\ run'[s] = run[s] /\ produced'[s] = produced[s]
        /\ pull'[s] = "none" /\ frames'[s] = Append(frames[s], EndFrame)
    BY <1>0, <1>7 DEF Finish
  <2>3. EndFrame \in 0..MaxEvents
    BY ConstAssumption DEF EndFrame
  <2>4. /\ Len(frames'[s]) = Len(frames[s]) + 1
        /\ \A i \in 1..Len(frames[s]) : frames'[s][i] = frames[s][i]
        /\ frames'[s][Len(frames[s]) + 1] = EndFrame
    BY <1>0, <2>2, <2>3
  <2>5. /\ produced[s] = Len(frames[s]) /\ \A i \in 1..Len(frames[s]) : frames[s][i] = i
        /\ run[s] \in {"finished", "failed"}
    BY <1>0, <2>1 DEF Sound
  <2>6. \A i \in 1..Len(frames'[s]) : frames'[s][i] = i \/ i = Len(frames'[s])
    BY <1>0, <2>4, <2>5
  <2>7. Len(frames'[s]) > 0 /\ frames'[s][Len(frames'[s])] = EndFrame
    BY <1>0, <2>4
  <2>8. Len(frames'[s]) = produced'[s] + 1 /\ run'[s] \in {"finished", "failed"}
    BY <2>2, <2>4, <2>5
  <2>9. QED
    BY <2>2, <2>6, <2>7, <2>8 DEF Sound, InLoop
<1>8. CASE Close(s) \/ Refuse(s) \/ HangUpWaiting(s)
  <2>1. /\ at[s] \in {"closing", "idle", "waiting"} /\ at'[s] = "done"
        /\ pull'[s] = pull[s] /\ run'[s] = run[s] /\ produced'[s] = produced[s]
        /\ frames'[s] = frames[s]
    BY <1>0, <1>8 DEF Close, Refuse, HangUpWaiting
  <2>2. QED
    BY <2>1 DEF Sound, InLoop
<1>9. CASE Request(s) \/ Resume(s)
  <2>1. at[s] \in {"idle", "waiting"} /\ frames'[s] = frames[s] /\ produced'[s] = produced[s]
    BY <1>9 DEF Request, Resume, Starts
  <2>2. \/ at'[s] = "waiting" /\ pull'[s] = pull[s]
        \/ at'[s] = "pulling" /\ pull'[s] = "pending"
    BY <1>0, <1>9 DEF Request, Resume, Starts
  <2>3. frames[s] = <<>> /\ produced[s] = 0 /\ pull[s] = "none"
    BY <2>1 DEF Sound, InLoop
  <2>4. QED
    BY <2>1, <2>2, <2>3 DEF Sound, InLoop
<1>10. CASE HangUpPulling(s) \/ Finalise(s)
  <2>1. /\ at[s] \in InLoop /\ at'[s] = "dropped" /\ pull'[s] = "none"
        /\ frames'[s] = frames[s] /\ produced'[s] = produced[s]
    BY <1>0, <1>10 DEF HangUpPulling, Finalise, GiveUpTask, InLoop
  <2>2. QED
    BY <2>1, LoopNotEnded DEF Sound, InLoop
<1>11. CASE HangUpSuspended(s)
  BY <1>0, <1>11 DEF HangUpSuspended, Sound, InLoop
<1>12. CASE Collect(s)
  <2>1. /\ at[s] = "dropped" /\ at'[s] = "done" /\ pull'[s] = pull[s]
        /\ frames'[s] = frames[s] /\ produced'[s] = produced[s]
        /\ run[s] \in {"finished", "failed"} => run'[s] = run[s]
    BY <1>0, <1>12 DEF Collect
  <2>2. QED
    BY <2>1 DEF Sound, InLoop
<1>13. QED
  BY <1>1, <1>2, <1>3, <1>4, <1>5, <1>6, <1>7, <1>8, <1>9, <1>10, <1>11, <1>12
     DEF Claude, Engine, Client, Collector

\* A step of one stream leaves the run and the frames of the others alone.
LEMMA OneStreamMoves ==
    ASSUME TypeOK, NEW s \in Stream, NEW t \in Stream, s # t,
           Claude(s) \/ Engine(s) \/ Ping(s) \/ Client(s) \/ Collector(s)
    PROVE  /\ at'[t] = at[t] /\ pull'[t] = pull[t] /\ run'[t] = run[t]
           /\ produced'[t] = produced[t] /\ frames'[t] = frames[t]
<1> USE DEF TypeOK, streams, lock, claude
<1>1. CASE Claude(s)
  BY <1>1 DEF Claude, Emit, Exhaust, Stopped
<1>2. CASE Engine(s)
  BY <1>2 DEF Engine, Resume, Starts, Frame, Finish, Close
<1>3. CASE Ping(s)
  BY <1>3 DEF Ping, KeepPull
<1>4. CASE Client(s)
  BY <1>4 DEF Client, Request, Starts, Refuse, Continue, HangUpWaiting, HangUpPulling,
     HangUpSuspended, GiveUpTask
<1>5. CASE Collector(s)
  BY <1>5 DEF Collector, Finalise, Collect, GiveUpTask
<1>6. QED
  BY <1>1, <1>2, <1>3, <1>4, <1>5

\* The data frames are the events in order, and an end frame follows the last.
THEOREM AnswersAreComplete == Spec => []AnswersComplete
<1> DEFINE AllSound == \A s \in Stream : Sound(s)
<1>1. Init => AllSound
  BY ConstAssumption DEF Init, Sound, InLoop
<1>2. TypeOK /\ AllSound /\ [Next]_vars => AllSound'
  <2> SUFFICES ASSUME TypeOK, AllSound, [Next]_vars, NEW t \in Stream
               PROVE  Sound(t)'
    OBVIOUS
  <2>1. ASSUME NEW s \in Stream,
               Claude(s) \/ Engine(s) \/ Ping(s) \/ Client(s) \/ Collector(s)
        PROVE  Sound(t)'
    <3>1. CASE s = t
      BY <2>1, <3>1, SoundStep
    <3>2. CASE s # t
      BY <2>1, <3>2, OneStreamMoves, UntouchedSound
    <3>3. QED
      BY <3>1, <3>2
  <2>2. CASE (\E o \in Owner : TelegramTurn(o)) \/ TelegramDone \/ UNCHANGED vars
    BY <2>2, UntouchedSound DEF TelegramTurn, TelegramDone, vars, streams, claude
  <2>3. QED
    BY <2>1, <2>2 DEF Next
<1>3. IInv => TypeOK
  BY DEF IInv
<1>4. AllSound => AnswersComplete
  BY SoundMeans
<1> HIDE DEF AllSound
<1>5. QED
  BY <1>1, <1>2, <1>3, <1>4, Inductive, PTL DEF Spec

-----------------------------------------------------------------------------
(* The lock implements the queue of turns *)

\* A line is the holder, if there is one, and those who wait.
Line == [o \in Owner |-> HolderFirst(o) \o waiters[o]]
Serving == {o \in Owner : holder[o] # None}

\* The line with and without its first element.
LEMMA FirstInLine ==
    ASSUME NEW h \in Stream, NEW w \in Seq(Stream)
    PROVE  /\ <<h>> \o w \in Seq(Stream) /\ Len(<<h>> \o w) = Len(w) + 1
           /\ (<<h>> \o w)[1] = h /\ \A i \in 1..Len(w) : (<<h>> \o w)[i + 1] = w[i]
           /\ Tail(<<h>> \o w) = w
           /\ <<h>> \o w # <<>>
<1> DEFINE l == <<h>> \o w
<1>1. /\ <<h>> \in Seq(Stream) /\ Len(<<h>>) = 1 /\ <<h>>[1] = h /\ Len(w) \in Nat
  OBVIOUS
<1>2. /\ l \in Seq(Stream) /\ Len(l) = Len(w) + 1
      /\ \A i \in 1..(Len(w) + 1) : l[i] = IF i <= 1 THEN <<h>>[i] ELSE w[i - 1]
  <2>1. /\ l \in Seq(Stream) /\ Len(l) = 1 + Len(w)
        /\ \A i \in 1..(1 + Len(w)) : l[i] = IF i <= 1 THEN <<h>>[i] ELSE w[i - 1]
    BY <1>1, ConcatProperties
  <2>2. 1 + Len(w) = Len(w) + 1
    BY <1>1
  <2> HIDE DEF l
  <2>3. QED
    BY <2>1, <2>2
<1> HIDE DEF l
<1>3. l[1] = h /\ \A i \in 1..Len(w) : l[i + 1] = w[i]
  <2>1. l[1] = h
    BY <1>1, <1>2
  <2>2. ASSUME NEW i \in 1..Len(w)
        PROVE  l[i + 1] = w[i]
    <3>1. i + 1 \in 1..(Len(w) + 1) /\ ~(i + 1 <= 1) /\ (i + 1) - 1 = i
      BY <1>1
    <3>2. QED
      BY <1>2, <3>1
  <2>3. QED
    BY <2>1, <2>2
<1>4. l # <<>>
  BY <1>1, <1>2
<1>5. Tail(l) = w
  <2>1. /\ Tail(l) \in Seq(Stream) /\ Len(Tail(l)) = Len(w)
        /\ \A i \in 1..Len(w) : Tail(l)[i] = w[i]
    BY <1>1, <1>2, <1>3, <1>4
  <2>2. QED
    BY <2>1, SeqEqual
<1>6. QED
  BY <1>2, <1>3, <1>4, <1>5 DEF l

\* A place in the queue of the waiters is one further in the line.
LEMMA RemoveBehindFirst ==
    ASSUME NEW h \in Stream, NEW w \in Seq(Stream), NEW i \in 1..Len(w)
    PROVE  RemoveAt(<<h>> \o w, i + 1) = <<h>> \o RemoveAt(w, i)
<1> DEFINE l == <<h>> \o w
           r == RemoveAt(w, i)
           x == RemoveAt(l, i + 1)
           y == <<h>> \o r
<1>1. /\ Len(w) \in Nat \ {0} /\ i \in Nat \ {0} /\ i <= Len(w)
      /\ l \in Seq(Stream) /\ Len(l) = Len(w) + 1 /\ l[1] = h
      /\ \A k \in 1..Len(w) : l[k + 1] = w[k]
  BY FirstInLine
<1>2. /\ r \in Seq(Stream) /\ Len(r) = Len(w) - 1
      /\ \A k \in 1..(Len(w) - 1) : r[k] = IF k < i THEN w[k] ELSE w[k + 1]
  BY RemoveAtFacts
<1> HIDE DEF l, r
<1>3. /\ x \in Seq(Stream) /\ Len(x) = Len(w)
      /\ \A k \in 1..Len(w) : x[k] = IF k < i + 1 THEN l[k] ELSE l[k + 1]
  <2>1. i + 1 \in 1..Len(l) /\ Len(l) - 1 = Len(w)
    BY <1>1
  <2>2. QED
    BY <1>1, <2>1, RemoveAtFacts
<1>4. /\ y \in Seq(Stream) /\ Len(y) = Len(w) /\ y[1] = h
      /\ \A k \in 1..(Len(w) - 1) : y[k + 1] = r[k]
  BY <1>1, <1>2, FirstInLine
<1> HIDE DEF x, y
<1>5. ASSUME NEW k \in 1..Len(w)
      PROVE  x[k] = y[k]
  <2>1. CASE k = 1
    BY <1>1, <1>3, <1>4, <2>1
  <2>2. CASE k # 1
    <3>1. k - 1 \in 1..(Len(w) - 1) /\ k - 1 \in 1..Len(w) /\ (k - 1) + 1 = k /\ k \in 1..Len(w)
      BY <1>1, <2>2
    <3>2. y[k] = IF k - 1 < i THEN w[k - 1] ELSE w[k]
      BY <1>2, <1>4, <3>1
    <3>3. l[k] = w[k - 1] /\ l[k + 1] = w[k]
      BY <1>1, <3>1
    <3>4. k < i + 1 <=> k - 1 < i
      BY <1>1
    <3>5. QED
      BY <1>3, <3>2, <3>3, <3>4
  <2>3. QED
    BY <2>1, <2>2
<1>6. QED
  BY <1>3, <1>4, <1>5, SeqEqual DEF x, y, l, r

\* The first waiter that becomes the holder stays where it is in the line.
LEMMA FirstStays ==
    ASSUME NEW w \in Seq(Stream), 1 \in DOMAIN w
    PROVE  <<w[1]>> \o RemoveAt(w, 1) = w
<1> DEFINE r == RemoveAt(w, 1)
           y == <<w[1]>> \o r
<1>1. /\ 1 \in 1..Len(w) /\ Len(w) \in Nat \ {0} /\ w[1] \in Stream
  OBVIOUS
<1>2. /\ r \in Seq(Stream) /\ Len(r) = Len(w) - 1
      /\ \A k \in 1..(Len(w) - 1) : r[k] = IF k < 1 THEN w[k] ELSE w[k + 1]
  BY <1>1, RemoveAtFacts
<1> HIDE DEF r
<1>3. /\ y \in Seq(Stream) /\ Len(y) = Len(w) /\ y[1] = w[1]
      /\ \A k \in 1..(Len(w) - 1) : y[k + 1] = r[k]
  BY <1>1, <1>2, FirstInLine
<1> HIDE DEF y
<1>4. ASSUME NEW k \in 1..Len(w)
      PROVE  y[k] = w[k]
  <2>1. CASE k = 1
    BY <1>3, <2>1
  <2>2. CASE k # 1
    <3>1. k - 1 \in 1..(Len(w) - 1) /\ (k - 1) + 1 = k /\ ~(k - 1 < 1)
      BY <1>1, <2>2
    <3>2. QED
      BY <1>2, <1>3, <3>1
  <2>3. QED
    BY <2>1, <2>2
<1>5. QED
  BY <1>3, <1>4, SeqEqual DEF y, r

\* A newcomer stands at the end of the line, behind a holder or not.
LEMMA AppendBehindFirst ==
    ASSUME NEW h \in Stream, NEW w \in Seq(Stream), NEW s \in Stream
    PROVE  <<h>> \o Append(w, s) = Append(<<h>> \o w, s)
<1>1. <<h>> \in Seq(Stream) /\ <<s>> \in Seq(Stream) /\ <<h>> \o w \in Seq(Stream)
  BY FirstInLine
<1>2. /\ Append(w, s) = w \o <<s>>
      /\ Append(<<h>> \o w, s) = (<<h>> \o w) \o <<s>>
  BY <1>1, AppendIsConcat
<1>3. (<<h>> \o w) \o <<s>> = <<h>> \o (w \o <<s>>)
  BY <1>1, ConcatAssociative
<1>4. QED
  BY <1>2, <1>3

\* The two shapes of a line.
LEMMA LineShape ==
    ASSUME IInv, NEW o \in Owner
    PROVE  /\ waiters[o] \in Seq(Stream)
           /\ holder[o] = None => Line[o] = waiters[o]
           /\ holder[o] # None => holder[o] \in Stream /\ Line[o] = <<holder[o]>> \o waiters[o]
  BY ConcatEmptySeq DEF IInv, TypeOK, Line, HolderFirst

\* Who is idle stands in no line.
LEMMA IdleNotInLine ==
    ASSUME IInv, NEW s \in Stream, at[s] = "idle", NEW o \in Owner
    PROVE  \A i \in DOMAIN Line[o] : Line[o][i] # s
<1>1. \A i \in DOMAIN waiters[o] : waiters[o][i] # s
  BY DEF IInv, WaitersWait
<1>2. holder[o] # s
  BY DEF IInv, HoldersHold, Holding
<1>3. CASE holder[o] = None
  BY <1>1, <1>3, LineShape
<1>4. CASE holder[o] # None
  <2>1. /\ holder[o] \in Stream /\ waiters[o] \in Seq(Stream)
        /\ Line[o] = <<holder[o]>> \o waiters[o]
    BY <1>4, LineShape
  <2>2. /\ Line[o] \in Seq(Stream) /\ Len(Line[o]) = Len(waiters[o]) + 1
        /\ Line[o][1] = holder[o] /\ \A i \in 1..Len(waiters[o]) : Line[o][i + 1] = waiters[o][i]
    BY <2>1, FirstInLine
  <2>3. ASSUME NEW i \in DOMAIN Line[o]
        PROVE  Line[o][i] # s
    <3>1. Len(waiters[o]) \in Nat /\ i \in 1..(Len(waiters[o]) + 1)
          /\ DOMAIN waiters[o] = 1..Len(waiters[o])
      BY <2>1, <2>2
    <3>2. CASE i = 1
      BY <1>2, <2>2, <3>2
    <3>3. CASE i # 1
      <4>1. i - 1 \in 1..Len(waiters[o]) /\ (i - 1) + 1 = i
        BY <3>1, <3>3
      <4>2. QED
        BY <1>1, <2>2, <3>1, <4>1
    <3>4. QED
      BY <3>2, <3>3
  <2>4. QED
    BY <2>3
<1>5. QED
  BY <1>3, <1>4

\* A change of one owner's holder and waiters is a change of his line.
LEMMA LineMoves ==
    ASSUME IInv, NEW o \in Owner, \A p \in Owner \ {o} : holder'[p] = holder[p] /\ waiters'[p] = waiters[p]
    PROVE  Line' = [Line EXCEPT ![o] = Line'[o]]
<1>1. \A p \in Owner \ {o} : Line'[p] = Line[p]
  BY DEF Line, HolderFirst
<1>2. /\ Line = [p \in Owner |-> Line[p]] /\ Line' = [p \in Owner |-> Line'[p]]
  BY DEF Line
<1>3. QED
  BY <1>1, <1>2

\* The actions of the queue, of these lines.
LEMMA QueueActions ==
    ASSUME NEW o \in Owner, NEW s, NEW n
    PROVE  /\ TQ!Join(s, o) <=>
                 /\ \A p \in Owner : ~\E i \in DOMAIN Line[p] : Line[p][i] = s
                 /\ Line' = [Line EXCEPT ![o] = Append(@, s)]
                 /\ Serving' \in {Serving, Serving \cup {o}}
                 /\ Serving' # Serving => Line[o] = <<>>
           /\ TQ!Serve(o) <=>
                 /\ Line[o] # <<>> /\ o \notin Serving
                 /\ Serving' = Serving \cup {o} /\ Line' = Line
           /\ TQ!GiveUp(n, o) <=>
                 /\ o \in Serving => n > 1
                 /\ Line' = [Line EXCEPT ![o] = RemoveAt(@, n)] /\ Serving' = Serving
           /\ TQ!End(o) <=>
                 /\ o \in Serving
                 /\ Line' = [Line EXCEPT ![o] = Tail(@)] /\ Serving' = Serving \ {o}
<1>1. TQ!Join(s, o) <=>
         /\ \A p \in Owner : ~\E i \in DOMAIN Line[p] : Line[p][i] = s
         /\ Line' = [Line EXCEPT ![o] = Append(@, s)]
         /\ Serving' \in {Serving, Serving \cup {o}}
         /\ Serving' # Serving => Line[o] = <<>>
  BY Zenon DEF TQ!Join, TQ!InLine, TQ!Positions, Line, Serving
<1>2. TQ!Serve(o) <=>
         /\ Line[o] # <<>> /\ o \notin Serving
         /\ Serving' = Serving \cup {o} /\ Line' = Line
  BY Zenon DEF TQ!Serve, Line, Serving
<1>3. TQ!GiveUp(n, o) <=>
         /\ o \in Serving => n > 1
         /\ Line' = [Line EXCEPT ![o] = RemoveAt(@, n)] /\ Serving' = Serving
  BY Zenon DEF TQ!GiveUp, TQ!RemoveAt, RemoveAt, Line, Serving
<1>4. TQ!End(o) <=>
         /\ o \in Serving
         /\ Line' = [Line EXCEPT ![o] = Tail(@)] /\ Serving' = Serving \ {o}
  BY Zenon DEF TQ!End, Line, Serving
<1>5. QED
  BY <1>1, <1>2, <1>3, <1>4

LEMMA RequestQueue ==
    ASSUME IInv, NEW s \in Stream, Request(s)
    PROVE  \E o \in Owner : TQ!Join(s, o)
<1>1. PICK o \in Owner :
         /\ at[s] = "idle"
         /\ \/ LockFree(o) /\ holder' = [holder EXCEPT ![o] = s] /\ UNCHANGED waiters
            \/ ~LockFree(o) /\ waiters' = [waiters EXCEPT ![o] = Append(@, s)]
               /\ UNCHANGED holder
  BY DEF Request
<1>2. holder \in [Owner -> Stream \cup {None}] /\ waiters \in [Owner -> Seq(Stream)]
  BY DEF IInv, TypeOK
<1>3. Line' = [Line EXCEPT ![o] = Line'[o]]
  <2>1. \A p \in Owner \ {o} : holder'[p] = holder[p] /\ waiters'[p] = waiters[p]
    BY <1>1, <1>2
  <2>2. QED
    BY <2>1, LineMoves
<1>4. /\ Line'[o] = Append(Line[o], s)
      /\ Serving' \in {Serving, Serving \cup {o}}
      /\ Serving' # Serving => Line[o] = <<>>
  <2>1. CASE LockFree(o) /\ holder' = [holder EXCEPT ![o] = s] /\ UNCHANGED waiters
    <3>1. holder[o] = None /\ waiters[o] = <<>> /\ Line[o] = <<>>
      BY <2>1, LineShape DEF LockFree
    <3>2. holder'[o] = s /\ s # None
      BY <1>2, <2>1, ConstAssumption
    <3>3. Line'[o] = <<s>> \o <<>>
      BY <2>1, <3>1, <3>2 DEF Line, HolderFirst
    <3>4. <<s>> \o <<>> = <<s>> /\ Append(<<>>, s) = <<s>>
      BY ConcatEmptySeq
    <3>5. Serving' = Serving \cup {o}
      BY <1>2, <2>1, <3>2 DEF Serving
    <3>6. QED
      BY <3>1, <3>3, <3>4, <3>5
  <2>2. CASE /\ ~LockFree(o) /\ waiters' = [waiters EXCEPT ![o] = Append(@, s)]
             /\ UNCHANGED holder
    <3>1. waiters'[o] = Append(waiters[o], s) /\ holder'[o] = holder[o]
      BY <1>2, <2>2
    <3>2. Line'[o] = HolderFirst(o) \o Append(waiters[o], s)
      BY <3>1 DEF Line, HolderFirst
    <3>3. CASE holder[o] = None
      <4>1. Append(waiters[o], s) \in Seq(Stream)
        BY <1>2
      <4>2. Line'[o] = Append(waiters[o], s)
        BY <3>2, <3>3, <4>1, ConcatEmptySeq DEF HolderFirst
      <4>3. QED
        BY <2>2, <3>3, <4>2, LineShape DEF Serving
    <3>4. CASE holder[o] # None
      BY <2>2, <3>2, <3>4, LineShape, AppendBehindFirst DEF Serving, HolderFirst
    <3>5. QED
      BY <3>3, <3>4
  <2>3. QED
    BY <1>1, <2>1, <2>2
<1>5. \A p \in Owner : \A i \in DOMAIN Line[p] : Line[p][i] # s
  BY <1>1, IdleNotInLine
<1>6. Line' = [Line EXCEPT ![o] = Append(@, s)]
  BY <1>3, <1>4 DEF Line
<1>7. TQ!Join(s, o)
  BY <1>4, <1>5, <1>6, QueueActions
<1>8. QED
  BY <1>7

LEMMA ResumeQueue ==
    ASSUME IInv, NEW s \in Stream, Resume(s)
    PROVE  \E o \in Owner : TQ!Serve(o)
<1>0. PICK o \in Owner : o = owner[s]
  BY DEF Resume, Close, Collect, Holding, IInv, OwnersKnown
<1>1. /\ o \in Owner /\ holder[o] = None /\ 1 \in DOMAIN waiters[o] /\ waiters[o][1] = s
      /\ waiters' = [waiters EXCEPT ![o] = RemoveAt(@, 1)]
      /\ holder' = [holder EXCEPT ![o] = s]
  BY <1>0 DEF Resume, IsAt, IsNext, IInv, OwnersKnown
<1>2. holder \in [Owner -> Stream \cup {None}] /\ waiters \in [Owner -> Seq(Stream)]
  BY DEF IInv, TypeOK
<1>3. Line' = [Line EXCEPT ![o] = Line'[o]]
  <2>1. \A p \in Owner \ {o} : holder'[p] = holder[p] /\ waiters'[p] = waiters[p]
    BY <1>1, <1>2
  <2>2. QED
    BY <1>1, <2>1, LineMoves
<1>4. holder'[o] = s /\ s # None /\ waiters'[o] = RemoveAt(waiters[o], 1)
  BY <1>1, <1>2, ConstAssumption
<1>5. Line'[o] = <<s>> \o RemoveAt(waiters[o], 1)
  BY <1>1, <1>4 DEF Line, HolderFirst
<1>6. Line'[o] = waiters[o] /\ Line[o] = waiters[o]
  BY <1>1, <1>2, <1>5, FirstStays, LineShape
<1>7. Line' = Line
  BY <1>3, <1>6 DEF Line
<1>8. Line[o] # <<>> /\ o \notin Serving /\ Serving' = Serving \cup {o}
  BY <1>1, <1>2, <1>4, <1>6 DEF Serving
<1>9. TQ!Serve(o)
  BY <1>7, <1>8, QueueActions
<1>10. QED
  BY <1>1, <1>9

LEMMA HangUpQueue ==
    ASSUME IInv, NEW s \in Stream, HangUpWaiting(s)
    PROVE  \E o \in Owner : \E n \in DOMAIN Line[o] : TQ!GiveUp(n, o)
<1>0. PICK o \in Owner : o = owner[s]
  BY DEF HangUpWaiting, IInv, OwnersKnown
<1>1. o \in Owner /\ holder' = holder
  BY <1>0 DEF HangUpWaiting, IInv, OwnersKnown
<1>2. PICK i \in DOMAIN waiters[o] : waiters' = [waiters EXCEPT ![o] = RemoveAt(@, i)]
  BY <1>0 DEF HangUpWaiting, LeaveQueue
<1>3. /\ holder \in [Owner -> Stream \cup {None}] /\ waiters \in [Owner -> Seq(Stream)]
      /\ waiters[o] \in Seq(Stream) /\ i \in 1..Len(waiters[o]) /\ Len(waiters[o]) \in Nat
  BY <1>1 DEF IInv, TypeOK
<1>4. Line' = [Line EXCEPT ![o] = Line'[o]] /\ Serving' = Serving
  <2>1. \A p \in Owner \ {o} : holder'[p] = holder[p] /\ waiters'[p] = waiters[p]
    BY <1>1, <1>2, <1>3
  <2>2. QED
    BY <1>1, <2>1, LineMoves DEF Serving
<1>5. waiters'[o] = RemoveAt(waiters[o], i)
  BY <1>1, <1>2, <1>3
<1>6. Line'[o] = HolderFirst(o) \o RemoveAt(waiters[o], i)
  BY <1>1, <1>5 DEF Line, HolderFirst
<1>7. \E n \in DOMAIN Line[o] : Line'[o] = RemoveAt(Line[o], n) /\ (o \in Serving => n > 1)
  <2>1. CASE holder[o] = None
    <3>1. RemoveAt(waiters[o], i) \in Seq(Stream)
      BY <1>3, RemoveAtFacts
    <3>2. Line[o] = waiters[o] /\ Line'[o] = RemoveAt(waiters[o], i)
      BY <1>1, <1>6, <2>1, <3>1, ConcatEmptySeq, LineShape DEF HolderFirst
    <3>3. i \in DOMAIN Line[o] /\ o \notin Serving
      BY <1>2, <2>1, <3>2 DEF Serving
    <3>4. QED
      BY <3>2, <3>3
  <2>2. CASE holder[o] # None
    <3>1. holder[o] \in Stream /\ Line[o] = <<holder[o]>> \o waiters[o]
      BY <1>1, <2>2, LineShape
    <3>2. Line'[o] = RemoveAt(Line[o], i + 1)
      BY <1>3, <1>6, <2>2, <3>1, RemoveBehindFirst DEF HolderFirst
    <3>3. i + 1 \in DOMAIN Line[o] /\ i + 1 > 1
      <4>1. Line[o] \in Seq(Stream) /\ Len(Line[o]) = Len(waiters[o]) + 1
        BY <1>3, <3>1, FirstInLine
      <4>2. QED
        BY <1>3, <4>1
    <3>4. QED
      BY <3>2, <3>3
  <2>3. QED
    BY <2>1, <2>2
<1>8. PICK n \in DOMAIN Line[o] : Line'[o] = RemoveAt(Line[o], n) /\ (o \in Serving => n > 1)
  BY <1>7
<1>9. Line' = [Line EXCEPT ![o] = RemoveAt(@, n)]
  <2>1. o \in DOMAIN Line
    BY DEF Line
  <2>2. QED
    BY <1>4, <1>8, <2>1
<1>10. TQ!GiveUp(n, o)
  BY <1>4, <1>8, <1>9, QueueActions
<1>11. QED
  BY <1>1, <1>8, <1>10

LEMMA EndQueue ==
    ASSUME IInv, NEW s \in Stream, Close(s) \/ Collect(s)
    PROVE  \E o \in Owner : TQ!End(o)
<1>0. PICK o \in Owner : o = owner[s]
  BY DEF Resume, Close, Collect, Holding, IInv, OwnersKnown
<1>1. /\ o \in Owner /\ holder[o] = s /\ holder' = [holder EXCEPT ![o] = None]
      /\ waiters' = waiters
  BY <1>0 DEF Close, Collect, Release, Holding, IInv, OwnersKnown, HoldersHold
<1>2. /\ holder \in [Owner -> Stream \cup {None}] /\ waiters \in [Owner -> Seq(Stream)]
      /\ s # None
  BY ConstAssumption DEF IInv, TypeOK
<1>3. Line' = [Line EXCEPT ![o] = Line'[o]]
  <2>1. \A p \in Owner \ {o} : holder'[p] = holder[p] /\ waiters'[p] = waiters[p]
    BY <1>1, <1>2
  <2>2. QED
    BY <1>1, <2>1, LineMoves
<1>4. Line'[o] = <<>> \o waiters[o]
  BY <1>1, <1>2 DEF Line, HolderFirst
<1>5. Line'[o] = waiters[o]
  BY <1>1, <1>2, <1>4, ConcatEmptySeq
<1>6. Line[o] = <<s>> \o waiters[o] /\ waiters[o] \in Seq(Stream)
  BY <1>1, <1>2, LineShape
<1>7. Line' = [Line EXCEPT ![o] = Tail(@)]
  <2>1. Line'[o] = Tail(Line[o])
    BY <1>5, <1>6, FirstInLine
  <2>2. o \in DOMAIN Line
    BY DEF Line
  <2>3. QED
    BY <1>3, <2>1, <2>2
<1>8. o \in Serving /\ Serving' = Serving \ {o}
  BY <1>1, <1>2 DEF Serving
<1>9. TQ!End(o)
  BY <1>7, <1>8, QueueActions
<1>10. QED
  BY <1>1, <1>9

\* Every other step leaves the lock alone.
LEMMA QueueStep == IInv /\ [Next]_vars => [TQ!Next]_<<Line, Serving>>
<1> SUFFICES ASSUME IInv, [Next]_vars
             PROVE  TQ!Next \/ UNCHANGED <<Line, Serving>>
  OBVIOUS
<1>1. ASSUME UNCHANGED lock
      PROVE  UNCHANGED <<Line, Serving>>
  BY <1>1 DEF lock, Line, Serving, HolderFirst
<1>2. ASSUME NEW s \in Stream, Request(s)
      PROVE  TQ!Next
  BY <1>2, RequestQueue DEF TQ!Next
<1>3. ASSUME NEW s \in Stream, Resume(s)
      PROVE  TQ!Next
  BY <1>3, ResumeQueue DEF TQ!Next
<1>4. ASSUME NEW s \in Stream, HangUpWaiting(s)
      PROVE  TQ!Next
  BY <1>4, HangUpQueue DEF TQ!Next, TQ!Positions, Line
<1>5. ASSUME NEW s \in Stream, Close(s) \/ Collect(s)
      PROVE  TQ!Next
  BY <1>5, EndQueue DEF TQ!Next
<1>6. ASSUME NEW s \in Stream,
             \/ Claude(s) \/ Frame(s) \/ Finish(s) \/ Ping(s) \/ Refuse(s) \/ Continue(s)
             \/ HangUpPulling(s) \/ HangUpSuspended(s) \/ Finalise(s)
      PROVE  UNCHANGED lock
  BY <1>6 DEF Claude, Emit, Exhaust, Stopped, Frame, Finish, Ping, Refuse, Continue,
              HangUpPulling, HangUpSuspended, Finalise
<1>7. CASE (\E o \in Owner : TelegramTurn(o)) \/ TelegramDone \/ UNCHANGED vars
  BY <1>1, <1>7 DEF TelegramTurn, TelegramDone, vars
<1>8. QED
  BY <1>1, <1>2, <1>3, <1>4, <1>5, <1>6, <1>7 DEF Next, Engine, Client, Collector

\* The owner lock implements the queue of turns, for any streams and owners: the
\* turns of an owner are served one at a time in the order of their requests,
\* whoever hangs up while it waits or in the middle of its answer.
THEOREM QueueImplemented == Spec => ImplementsTurnQueue
<1>1. Init => TQ!Init
  <2> SUFFICES ASSUME Init
               PROVE  Line = [o \in Owner |-> <<>>] /\ Serving = {}
    BY DEF TQ!Init, Line, Serving
  <2>1. \A o \in Owner : holder[o] = None /\ waiters[o] = <<>>
    BY DEF Init
  <2>2. QED
    BY <2>1, ConcatEmptySeq DEF Line, Serving, HolderFirst
<1>2. IInv /\ [Next]_vars => [TQ!Next]_(TQ!vars)
  BY QueueStep DEF TQ!vars, Line, Serving
<1>3. QED
  BY <1>1, <1>2, Inductive, PTL DEF Spec, ImplementsTurnQueue, TQ!Spec

-----------------------------------------------------------------------------
(* What follows for the turns: first come, first served *)

Distinct(q) == \A i, j \in DOMAIN q : q[i] = q[j] => i = j
Has(q, s) == \E i \in DOMAIN q : q[i] = s
Before(q, s, t) == \E i, j \in DOMAIN q : i < j /\ q[i] = s /\ q[j] = t

\* A line that somebody joins keeps its order.
LEMMA AppendKeeps ==
    ASSUME NEW S, NEW q \in Seq(S), NEW x \in S, Distinct(q), ~Has(q, x)
    PROVE  /\ Distinct(Append(q, x))
           /\ \A s : Has(Append(q, x), s) => s = x \/ Has(q, s)
           /\ \A s, t : Before(q, s, t) => Before(Append(q, x), s, t)
           /\ q # <<>> => Append(q, x)[1] = q[1]
<1>1. PICK r : r = Append(q, x)
  OBVIOUS
<1>2. /\ DOMAIN q = 1..Len(q) /\ Len(q) \in Nat /\ DOMAIN r = 1..(Len(q) + 1)
      /\ r[Len(q) + 1] = x /\ \A i \in 1..Len(q) : r[i] = q[i]
  BY <1>1
<1>3. Distinct(r)
  BY <1>2 DEF Distinct, Has
<1>4. \A s : Has(r, s) => s = x \/ Has(q, s)
  BY <1>2 DEF Has
<1>5. \A s, t : Before(q, s, t) => Before(r, s, t)
  BY <1>2 DEF Before
<1>6. q # <<>> => r[1] = q[1]
  BY <1>2, EmptySeq
<1>7. QED
  BY <1>1, <1>3, <1>4, <1>5, <1>6

\* A line that somebody leaves, from the n-th place, keeps the order of those
\* who stay.
LEMMA ShorterKeeps ==
    ASSUME NEW S, NEW q \in Seq(S), NEW r \in Seq(S), NEW n \in 1..Len(q), Distinct(q),
           Len(r) = Len(q) - 1,
           \A i \in 1..(Len(q) - 1) : r[i] = IF i < n THEN q[i] ELSE q[i + 1]
    PROVE  /\ Distinct(r)
           /\ \A s : Has(r, s) => Has(q, s)
           /\ \A s, t : Before(q, s, t) /\ Has(r, s) /\ Has(r, t) => Before(r, s, t)
           /\ n > 1 => r[1] = q[1]
<1> DEFINE Place(i) == IF i < n THEN i ELSE i + 1
<1>1. /\ Len(q) \in Nat /\ n \in Nat /\ DOMAIN q = 1..Len(q) /\ DOMAIN r = 1..(Len(q) - 1)
      /\ \A i \in DOMAIN r : Place(i) \in DOMAIN q /\ r[i] = q[Place(i)]
      /\ \A i, j \in DOMAIN r : (Place(i) < Place(j) <=> i < j) /\ (Place(i) = Place(j) <=> i = j)
  OBVIOUS
<1> HIDE DEF Place
<1>2. Distinct(r)
  BY <1>1 DEF Distinct
<1>3. \A s : Has(r, s) => Has(q, s)
  BY <1>1 DEF Has
<1>4. ASSUME NEW s, NEW t, Before(q, s, t), Has(r, s), Has(r, t)
      PROVE  Before(r, s, t)
  <2>1. PICK i, j \in DOMAIN q : i < j /\ q[i] = s /\ q[j] = t
    BY <1>4 DEF Before
  <2>2. PICK k, l \in DOMAIN r : r[k] = s /\ r[l] = t
    BY <1>4 DEF Has
  <2>3. Place(k) = i /\ Place(l) = j
    BY <1>1, <2>1, <2>2 DEF Distinct
  <2>4. QED
    BY <1>1, <2>1, <2>2, <2>3 DEF Before
<1>5. n > 1 => r[1] = q[1]
  OBVIOUS
<1>6. QED
  BY <1>2, <1>3, <1>4, <1>5

\* The properties of the queue, of these lines.
LEMMA QueueProperties ==
    /\ TQ!OnceInLine <=> \A o, p \in Owner : \A i \in DOMAIN Line[o], j \in DOMAIN Line[p] :
                            Line[o][i] = Line[p][j] => o = p /\ i = j
    /\ TQ!OnceInLine' <=> \A o, p \in Owner : \A i \in DOMAIN Line'[o], j \in DOMAIN Line'[p] :
                             Line'[o][i] = Line'[p][j] => o = p /\ i = j
    /\ \A o : TQ!KeepsOrder(o) <=>
         /\ \A s, t \in Stream : Before(Line[o], s, t) /\ Has(Line[o], s)' /\ Has(Line[o], t)'
                                   => Before(Line[o], s, t)'
         /\ o \in Serving /\ o \in Serving' => Line'[o][1] = Line[o][1]
<1>1. TQ!OnceInLine <=> \A o, p \in Owner : \A i \in DOMAIN Line[o], j \in DOMAIN Line[p] :
                           Line[o][i] = Line[p][j] => o = p /\ i = j
  BY Zenon DEF TQ!OnceInLine, TQ!Positions, Line
<1>2. ASSUME NEW o
      PROVE  TQ!KeepsOrder(o) <=>
                /\ \A s, t \in Stream : Before(Line[o], s, t) /\ Has(Line[o], s)' /\ Has(Line[o], t)'
                                          => Before(Line[o], s, t)'
                /\ o \in Serving /\ o \in Serving' => Line'[o][1] = Line[o][1]
  BY Zenon DEF TQ!KeepsOrder, TQ!Ahead, TQ!InLine, TQ!Positions, Before, Has, Line, Serving
<1>3. TQ!OnceInLine' <=> \A o, p \in Owner : \A i \in DOMAIN Line'[o], j \in DOMAIN Line'[p] :
                            Line'[o][i] = Line'[p][j] => o = p /\ i = j
  BY Zenon DEF TQ!OnceInLine, TQ!Positions, Line
<1>4. QED
  BY <1>1, <1>2, <1>3

\* The lines are sequences, and a served one has somebody in it.
LEMMA LineType ==
    ASSUME IInv, NEW o \in Owner
    PROVE  Line[o] \in Seq(Stream) /\ (o \in Serving => Line[o] # <<>>)
<1>1. CASE holder[o] = None
  BY <1>1, LineShape DEF Serving
<1>2. CASE holder[o] # None
  <2>1. holder[o] \in Stream /\ waiters[o] \in Seq(Stream)
    BY <1>2, LineShape
  <2>2. <<holder[o]>> \o waiters[o] \in Seq(Stream) /\ <<holder[o]>> \o waiters[o] # <<>>
    BY <2>1
  <2>3. QED
    BY <1>2, <2>2, LineShape
<1>3. QED
  BY <1>1, <1>2

\* Who is new in a line stands in no other one.
LEMMA OneLineMoves ==
    ASSUME NEW o \in Owner,
           Line' = [Line EXCEPT ![o] = Line'[o]],
           \A p, u \in Owner : \A i \in DOMAIN Line[p], j \in DOMAIN Line[u] :
              Line[p][i] = Line[u][j] => p = u /\ i = j,
           Distinct(Line'[o]),
           \A s : Has(Line'[o], s) => Has(Line[o], s) \/ \A p \in Owner : ~Has(Line[p], s)
    PROVE  \A p, u \in Owner : \A i \in DOMAIN Line'[p], j \in DOMAIN Line'[u] :
              Line'[p][i] = Line'[u][j] => p = u /\ i = j
<1>1. \A p \in Owner \ {o} : Line'[p] = Line[p]
  BY DEF Line
<1>2. SUFFICES ASSUME NEW p \in Owner, NEW u \in Owner,
                      NEW i \in DOMAIN Line'[p], NEW j \in DOMAIN Line'[u],
                      Line'[p][i] = Line'[u][j]
               PROVE  p = u /\ i = j
  OBVIOUS
<1>3. CASE p = o /\ u = o
  BY <1>2, <1>3 DEF Distinct
<1>4. CASE p # o /\ u # o
  BY <1>1, <1>2, <1>4
<1>5. CASE p = o /\ u # o
  <2>1. Has(Line'[o], Line'[u][j]) /\ Has(Line[u], Line'[u][j])
    BY <1>1, <1>2, <1>5 DEF Has
  <2>2. QED
    BY <1>5, <2>1 DEF Has
<1>6. CASE p # o /\ u = o
  <2>1. Has(Line'[o], Line'[p][i]) /\ Has(Line[p], Line'[p][i])
    BY <1>1, <1>2, <1>6 DEF Has
  <2>2. QED
    BY <1>6, <2>1 DEF Has
<1>7. QED
  BY <1>3, <1>4, <1>5, <1>6


\* One owner's line, and who is served, when the queue moves.
LEMMA LineKeeps ==
    ASSUME IInv, IInv', TQ!OnceInLine, NEW o \in Owner,
           Line' = [Line EXCEPT ![o] = Line'[o]],
           Serving' \ {o} = Serving \ {o},
           Distinct(Line'[o]),
           \A s : Has(Line'[o], s) => Has(Line[o], s) \/ \A p \in Owner : ~Has(Line[p], s),
           \A s, t : Before(Line[o], s, t) /\ Has(Line'[o], s) /\ Has(Line'[o], t)
                        => Before(Line'[o], s, t),
           o \in Serving /\ o \in Serving' => Line'[o][1] = Line[o][1]
    PROVE  TQ!OnceInLine' /\ \A p \in Owner : TQ!KeepsOrder(p)
<1>1. \A p \in Owner \ {o} : Line'[p] = Line[p]
  BY DEF Line
<1>2. \A p, u \in Owner : \A i \in DOMAIN Line[p], j \in DOMAIN Line[u] :
         Line[p][i] = Line[u][j] => p = u /\ i = j
  BY QueueProperties
<1>3. \A p, u \in Owner : \A i \in DOMAIN Line'[p], j \in DOMAIN Line'[u] :
         Line'[p][i] = Line'[u][j] => p = u /\ i = j
  BY <1>2, OneLineMoves
<1>4. ASSUME NEW p \in Owner
      PROVE  /\ \A s, t \in Stream : Before(Line[p], s, t) /\ Has(Line[p], s)' /\ Has(Line[p], t)'
                                       => Before(Line[p], s, t)'
             /\ p \in Serving /\ p \in Serving' => Line'[p][1] = Line[p][1]
  <2>1. CASE p = o
    BY <2>1 DEF Before, Has
  <2>2. CASE p # o
    BY <1>1, <2>2 DEF Before, Has
  <2>3. QED
    BY <2>1, <2>2
<1>5. TQ!OnceInLine'
  BY <1>3, QueueProperties
<1>6. QED
  BY <1>4, <1>5, QueueProperties

\* Whoever joins, leaves or ends, the line behaves as one.
LEMMA QueueKeeps ==
    ASSUME IInv, IInv', TQ!OnceInLine, [TQ!Next]_<<Line, Serving>>
    PROVE  TQ!OnceInLine' /\ \A p \in Owner : TQ!KeepsOrder(p)
<1>1. ASSUME UNCHANGED Line
      PROVE  TQ!OnceInLine' /\ \A p \in Owner : TQ!KeepsOrder(p)
  BY <1>1, QueueProperties DEF Before, Has
<1>2. \A o \in Owner : Distinct(Line[o])
  BY QueueProperties DEF Distinct
<1>3. ASSUME NEW o \in Owner, NEW s \in Stream, TQ!Join(s, o)
      PROVE  TQ!OnceInLine' /\ \A p \in Owner : TQ!KeepsOrder(p)
  <2>1. /\ \A p \in Owner : ~Has(Line[p], s)
        /\ Line' = [Line EXCEPT ![o] = Append(@, s)] /\ Serving' \in {Serving, Serving \cup {o}}
    BY <1>3, QueueActions DEF Has
  <2>2. Line'[o] = Append(Line[o], s) /\ Line' = [Line EXCEPT ![o] = Line'[o]]
    BY <2>1 DEF Line
  <2>3. Line[o] \in Seq(Stream) /\ (o \in Serving => Line[o] # <<>>)
    BY LineType
  <2>4. /\ Distinct(Line'[o])
        /\ \A t : Has(Line'[o], t) => Has(Line[o], t) \/ t = s
        /\ \A t, u : Before(Line[o], t, u) => Before(Line'[o], t, u)
        /\ Line[o] # <<>> => Line'[o][1] = Line[o][1]
    BY <1>2, <2>1, <2>2, <2>3, AppendKeeps
  <2>5. QED
    BY <2>1, <2>2, <2>3, <2>4, LineKeeps
<1>4. ASSUME NEW o \in Owner, NEW n \in DOMAIN Line[o], Line' = [Line EXCEPT ![o] = Line'[o]],
             Line'[o] = RemoveAt(Line[o], n), o \in Serving => n > 1 \/ o \notin Serving',
             Serving' \ {o} = Serving \ {o}
      PROVE  TQ!OnceInLine' /\ \A p \in Owner : TQ!KeepsOrder(p)
  <2>1. Line[o] \in Seq(Stream)
    BY LineType
  <2>2. n \in 1..Len(Line[o])
    BY <2>1
  <2>3. PICK r : r = Line'[o]
    OBVIOUS
  <2>4. /\ r \in Seq(Stream) /\ Len(r) = Len(Line[o]) - 1
        /\ \A i \in 1..(Len(Line[o]) - 1) : r[i] = IF i < n THEN Line[o][i] ELSE Line[o][i + 1]
    BY <1>4, <2>1, <2>2, <2>3, RemoveAtFacts
  <2>5. /\ Distinct(r)
        /\ \A s : Has(r, s) => Has(Line[o], s)
        /\ \A s, t : Before(Line[o], s, t) /\ Has(r, s) /\ Has(r, t) => Before(r, s, t)
        /\ n > 1 => r[1] = Line[o][1]
    BY <1>2, <2>1, <2>2, <2>4, ShorterKeeps
  <2>6. QED
    BY <1>4, <2>3, <2>5, LineKeeps
<1>5. ASSUME NEW o \in Owner, TQ!End(o)
      PROVE  TQ!OnceInLine' /\ \A p \in Owner : TQ!KeepsOrder(p)
  <2>1. o \in Serving /\ Line' = [Line EXCEPT ![o] = Tail(@)] /\ Serving' = Serving \ {o}
    BY <1>5, QueueActions
  <2>2. Line'[o] = Tail(Line[o]) /\ Line' = [Line EXCEPT ![o] = Line'[o]]
    BY <2>1 DEF Line
  <2>3. Line[o] \in Seq(Stream) /\ Line[o] # <<>>
    BY <2>1, LineType
  <2>4. 1 \in DOMAIN Line[o] /\ Tail(Line[o]) = RemoveAt(Line[o], 1)
    <3>1. 1 \in 1..Len(Line[o])
      BY <2>3, EmptySeq
    <3>2. SubSeq(Line[o], 1, 0) = <<>>
      BY <2>3
    <3>3. QED
      BY <2>3, <3>1, <3>2 DEF RemoveAt
  <2>5. QED
    BY <1>4, <2>1, <2>2, <2>4
<1>6. ASSUME NEW o \in Owner, NEW n \in DOMAIN Line[o], TQ!GiveUp(n, o)
      PROVE  TQ!OnceInLine' /\ \A p \in Owner : TQ!KeepsOrder(p)
  <2>1. /\ o \in Serving => n > 1
        /\ Line' = [Line EXCEPT ![o] = RemoveAt(@, n)] /\ Serving' = Serving
    BY <1>6, QueueActions
  <2>2. Line'[o] = RemoveAt(Line[o], n) /\ Line' = [Line EXCEPT ![o] = Line'[o]]
    BY <2>1 DEF Line
  <2>3. QED
    BY <1>4, <2>1, <2>2
<1>7. ASSUME NEW o \in Owner, TQ!Serve(o)
      PROVE  UNCHANGED Line
  BY <1>7, QueueActions
<1>8. TQ!Next => \E o \in Owner : \/ TQ!Serve(o) \/ TQ!End(o)
                                  \/ \E s \in Stream : TQ!Join(s, o)
                                  \/ \E n \in DOMAIN Line[o] : TQ!GiveUp(n, o)
  BY Zenon DEF TQ!Next, TQ!Positions, Line
<1>9. QED
  BY <1>1, <1>3, <1>5, <1>6, <1>7, <1>8

LEMMA NobodyInLine == Init => TQ!OnceInLine
<1> SUFFICES ASSUME Init
             PROVE  TQ!OnceInLine
  OBVIOUS
<1>1. \A o \in Owner : Line[o] = <<>>
  BY ConcatEmptySeq DEF Init, Line, HolderFirst
<1>2. QED
  BY <1>1, QueueProperties

\* First come, first served: no turn stands in two places, of two turns of an
\* owner that stay in line the first one stays ahead, and while one is served
\* nobody takes its place, for any streams and owners and wherever clients hang up.
THEOREM FirstComeFirstServed == Spec => []TQ!OnceInLine /\ TQ!NobodyOvertakes
<1>1. IInv /\ IInv' /\ TQ!OnceInLine /\ [Next]_vars
         => TQ!OnceInLine' /\ \A o \in Owner : TQ!KeepsOrder(o)
  BY QueueStep, QueueKeeps
<1>2. IInv /\ IInv' /\ TQ!OnceInLine /\ [Next]_vars => [\A o \in Owner : TQ!KeepsOrder(o)]_(TQ!vars)
  BY <1>1
<1>3. QED
  BY <1>1, <1>2, NobodyInLine, Inductive, PTL DEF Spec, TQ!NobodyOvertakes

=============================================================================
