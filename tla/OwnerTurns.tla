----------------------------- MODULE OwnerTurns -----------------------------
(***************************************************************************)
(* The web chat's turns: the owner lock (bot/engine/owner_lock.py) and the *)
(* event stream of a turn (stream_chat in bot/engine/chat_stream.py), with *)
(* the Telegram turns that run beside them (_enqueue_or_run in             *)
(* bot/bridge/telegram.py).                                                *)
(*                                                                         *)
(* A stream is an asynchronous generator.  It waits for the lock, pulls    *)
(* events from Claude in a task of its own while it sends heartbeats, and  *)
(* is suspended whenever it has given a frame away.  The client may hang   *)
(* up at any moment: the framework cancels the generator where it awaits,  *)
(* and leaves it alone where it is suspended in a yield; then Python's     *)
(* collector finalises it, some time later.                                *)
(***************************************************************************)
EXTENDS Naturals, Sequences, SequencesExt

CONSTANTS
    Stream,    \* requests to /engine/chat
    Owner,     \* owner ids: what follows the colon of a session key
    None,      \* no stream, no owner
    MaxEvents  \* bound: events of one answer

ASSUME ConstAssumption == None \notin Stream \cup Owner /\ MaxEvents \in Nat

VARIABLES
    at,       \* where the generator of a stream is
    owner,    \* whose turn it is
    holder,   \* the stream that holds an owner's lock
    waiters,  \* the streams waiting for it, in order
    pull,     \* what became of next_task
    run,      \* the Claude run of a stream
    produced, \* events that it has produced
    frames,   \* data frames that left the generator; heartbeats are left out
    turn      \* the owner of the Telegram turn being processed

streams == <<at, owner, frames>>
lock == <<holder, waiters>>
claude == <<pull, run, produced>>
vars == <<streams, lock, claude, turn>>

-----------------------------------------------------------------------------
(* Values *)

\* "pulling": awaits next_task; "framing": suspended after a frame or a
\* heartbeat; "closing": suspended after the end frame.  The client of an
\* "abandoned" or a "dropped" one is gone: it is suspended in its loop, or after
\* its end frame, until it is finalised.
At == {"idle", "waiting", "pulling", "framing", "closing",
       "abandoned", "dropped", "done"}
Holding == {"pulling", "framing", "closing", "abandoned", "dropped"}
Pull == {"none", "pending", "event", "stop", "error"}
\* "stopping" and "stopped": the run was cancelled, or its iterator is given up.
Run == {"none", "running", "finished", "failed", "stopping", "stopped"}
EndFrame == 0

\* Asyncio's lock is fair: a new request takes it only if nobody waits.
\* (A definition named Fault... is the next one with a bug seeded, used to
\* show that the properties can fail.)
FaultOwnLock(o) == waiters[o] = <<>>
LockFree(o) == holder[o] = None /\ waiters[o] = <<>>

IsAt(s, o, i) == i \in DOMAIN waiters[o] /\ waiters[o][i] = s

Starts(s) == /\ at' = [at EXCEPT ![s] = "pulling"]
             /\ pull' = [pull EXCEPT ![s] = "pending"]
             /\ run' = [run EXCEPT ![s] = "running"]
             /\ UNCHANGED <<produced, frames>>

-----------------------------------------------------------------------------
(* The turn *)

\* stream_chat takes the lock or queues for it.
Request(s) == \E o \in Owner :
    /\ at[s] = "idle"
    /\ owner' = [owner EXCEPT ![s] = o]
    /\ \/ LockFree(o) /\ Starts(s)
          /\ holder' = [holder EXCEPT ![o] = s] /\ UNCHANGED waiters
       \/ ~LockFree(o) /\ at' = [at EXCEPT ![s] = "waiting"]
          /\ waiters' = [waiters EXCEPT ![o] = Append(@, s)]
          /\ UNCHANGED <<holder, claude, frames>>
    /\ UNCHANGED turn

\* A session key of a wrong form ends the answer before any frame.
Refuse(s) == /\ at[s] = "idle" /\ at' = [at EXCEPT ![s] = "done"]
             /\ UNCHANGED <<owner, frames, lock, claude, turn>>

FaultAnyone(i) == TRUE
IsNext(i) == i = 1

\* The lock is free and the first waiter gets it.
Resume(s) == LET o == owner[s] IN
    /\ at[s] = "waiting" /\ holder[o] = None
    /\ \E i \in DOMAIN waiters[o] :
         IsAt(s, o, i) /\ IsNext(i) /\ waiters' = [waiters EXCEPT ![o] = RemoveAt(@, i)]
    /\ Starts(s)
    /\ holder' = [holder EXCEPT ![o] = s]
    /\ UNCHANGED <<owner, turn>>

\* Claude: the task has its event, its StopAsyncIteration or its exception.
Emit(s) == /\ pull[s] = "pending" /\ run[s] = "running" /\ produced[s] < MaxEvents
           /\ pull' = [pull EXCEPT ![s] = "event"]
           /\ produced' = [produced EXCEPT ![s] = @ + 1]
           /\ UNCHANGED <<streams, lock, run, turn>>
Exhaust(s) == /\ pull[s] = "pending" /\ run[s] = "running"
              /\ \/ pull' = [pull EXCEPT ![s] = "stop"] /\ run' = [run EXCEPT ![s] = "finished"]
                 \/ pull' = [pull EXCEPT ![s] = "error"] /\ run' = [run EXCEPT ![s] = "failed"]
              /\ UNCHANGED <<streams, lock, produced, turn>>

\* The event goes out as a frame.
Frame(s) == /\ at[s] = "pulling" /\ pull[s] = "event"
            /\ at' = [at EXCEPT ![s] = "framing"]
            /\ pull' = [pull EXCEPT ![s] = "none"]
            /\ frames' = [frames EXCEPT ![s] = Append(@, produced[s])]
            /\ UNCHANGED <<owner, lock, run, produced, turn>>

\* A heartbeat, fifteen seconds without an event: the task goes on.
FaultRestartPull(s) == pull' = [pull EXCEPT ![s] = "stop"] /\ run' = [run EXCEPT ![s] = "stopped"]
KeepPull(s) == UNCHANGED <<pull, run>>
Ping(s) == /\ at[s] = "pulling" /\ pull[s] = "pending"
           /\ at' = [at EXCEPT ![s] = "framing"] /\ KeepPull(s)
           /\ UNCHANGED <<owner, frames, lock, produced, turn>>

\* The client has taken the frame.
Continue(s) == /\ at[s] = "framing"
               /\ at' = [at EXCEPT ![s] = "pulling"]
               /\ pull' = [pull EXCEPT ![s] = IF @ = "none" THEN "pending" ELSE @]
               /\ UNCHANGED <<owner, frames, lock, run, produced, turn>>

\* Claude is through, or has failed: the end frame either way.
Finish(s) == /\ at[s] = "pulling" /\ pull[s] \in {"stop", "error"}
             /\ at' = [at EXCEPT ![s] = "closing"]
             /\ pull' = [pull EXCEPT ![s] = "none"]
             /\ frames' = [frames EXCEPT ![s] = Append(@, EndFrame)]
             /\ UNCHANGED <<owner, lock, run, produced, turn>>

FaultReleaseNothing(s) == UNCHANGED holder
Release(s) == holder' = [holder EXCEPT ![owner[s]] = None]

Close(s) == /\ at[s] = "closing"
            /\ at' = [at EXCEPT ![s] = "done"] /\ Release(s)
            /\ UNCHANGED <<owner, frames, waiters, claude, turn>>

-----------------------------------------------------------------------------
(* The client hangs up *)

FaultStayQueued(s) == UNCHANGED waiters
LeaveQueue(s) == \E i \in DOMAIN waiters[owner[s]] :
    IsAt(s, owner[s], i) /\ waiters' = [waiters EXCEPT ![owner[s]] = RemoveAt(@, i)]

\* Giving up next_task ends the run if the task was waiting for it.
GiveUpTask(s) ==
    /\ pull' = [pull EXCEPT ![s] = "none"]
    /\ run' = [run EXCEPT ![s] =
                 IF pull[s] = "pending" /\ @ = "running" THEN "stopping" ELSE @]

\* A cancelled wait for the lock leaves the queue.
HangUpWaiting(s) == /\ at[s] = "waiting" /\ at' = [at EXCEPT ![s] = "done"]
                    /\ LeaveQueue(s)
                    /\ UNCHANGED <<owner, frames, holder, claude, turn>>

\* A cancelled wait for the event runs into the finally clause, which yields.
HangUpPulling(s) == /\ at[s] = "pulling" /\ at' = [at EXCEPT ![s] = "dropped"]
                    /\ GiveUpTask(s)
                    /\ UNCHANGED <<owner, frames, lock, produced, turn>>

\* A suspended generator does not notice, and Claude goes on.
HangUpSuspended(s) ==
    /\ at[s] \in {"framing", "closing"}
    /\ at' = [at EXCEPT ![s] = IF @ = "framing" THEN "abandoned" ELSE "dropped"]
    /\ UNCHANGED <<owner, frames, lock, claude, turn>>

\* The collector finalises an abandoned generator: it yields its end frame
\* instead of ending, and stays suspended there with the lock.
Finalise(s) == /\ at[s] = "abandoned" /\ at' = [at EXCEPT ![s] = "dropped"]
               /\ GiveUpTask(s)
               /\ UNCHANGED <<owner, frames, lock, produced, turn>>

\* It finalises one that is suspended there: the lock is released, and the
\* iterator of the run is given up.
Collect(s) == /\ at[s] = "dropped" /\ at' = [at EXCEPT ![s] = "done"]
              /\ Release(s)
              /\ run' = [run EXCEPT ![s] = IF @ = "running" THEN "stopping" ELSE @]
              /\ UNCHANGED <<owner, frames, waiters, pull, produced, turn>>

\* Claude's process has ended.
Stopped(s) == /\ run[s] = "stopping" /\ run' = [run EXCEPT ![s] = "stopped"]
              /\ UNCHANGED <<streams, lock, pull, produced, turn>>

-----------------------------------------------------------------------------
(* Telegram.  Updates are processed one by one, so the lock per user of the *)
(* bridge is always free, and it is not the lock above.                     *)

TelegramTurn(o) == /\ turn = None /\ turn' = o /\ UNCHANGED <<streams, lock, claude>>
TelegramDone == /\ turn # None /\ turn' = None /\ UNCHANGED <<streams, lock, claude>>

-----------------------------------------------------------------------------
Init ==
    /\ at = [s \in Stream |-> "idle"]
    /\ owner = [s \in Stream |-> None]
    /\ frames = [s \in Stream |-> <<>>]
    /\ holder = [o \in Owner |-> None]
    /\ waiters = [o \in Owner |-> <<>>]
    /\ pull = [s \in Stream |-> "none"]
    /\ run = [s \in Stream |-> "none"]
    /\ produced = [s \in Stream |-> 0]
    /\ turn = None

Claude(s) == Emit(s) \/ Exhaust(s) \/ Stopped(s)
Engine(s) == Resume(s) \/ Frame(s) \/ Finish(s) \/ Close(s)
Client(s) == \/ Request(s) \/ Refuse(s) \/ Continue(s)
             \/ HangUpWaiting(s) \/ HangUpPulling(s) \/ HangUpSuspended(s)
Collector(s) == Finalise(s) \/ Collect(s)

Next == \/ \E s \in Stream : \/ Claude(s) \/ Engine(s) \/ Ping(s)
                             \/ Client(s) \/ Collector(s)
        \/ \E o \in Owner : TelegramTurn(o)
        \/ TelegramDone

Spec == Init /\ [][Next]_vars

\* Claude goes on until its answer ends (the bound on events makes it end), the
\* loop runs what is ready, a client takes a frame or hangs up, and the
\* collector comes round.
FairSpec == Spec /\ \A s \in Stream :
    /\ WF_vars(Claude(s)) /\ WF_vars(Engine(s)) /\ WF_vars(Collector(s))
    /\ WF_vars(Continue(s) \/ HangUpSuspended(s))

-----------------------------------------------------------------------------
(* Properties *)

TypeOK ==
    /\ at \in [Stream -> At] /\ owner \in [Stream -> Owner \cup {None}]
    /\ frames \in [Stream -> Seq(0..MaxEvents)]
    /\ holder \in [Owner -> Stream \cup {None}] /\ waiters \in [Owner -> Seq(Stream)]
    /\ pull \in [Stream -> Pull] /\ run \in [Stream -> Run]
    /\ produced \in [Stream -> 0..MaxEvents]
    /\ turn \in Owner \cup {None}

\* The lock's books: a stream holds the lock of its owner as long as its
\* generator is suspended inside it, and stands in the queue once while it waits.
HoldersHold == \A s \in Stream : \A o \in Owner :
    holder[o] = s <=> at[s] \in Holding /\ owner[s] = o
OwnersKnown == \A s \in Stream : at[s] \in Holding \cup {"waiting"} => owner[s] \in Owner
WaitersWait == \A o \in Owner : \A i \in DOMAIN waiters[o] :
    LET s == waiters[o][i] IN /\ at[s] = "waiting" /\ owner[s] = o
                              /\ \A j \in DOMAIN waiters[o] : waiters[o][j] = s => i = j
WaitingQueued == \A s \in Stream : at[s] = "waiting" =>
    \E i \in DOMAIN waiters[owner[s]] : waiters[owner[s]][i] = s
RunsHold == \A s \in Stream :
    run[s] = "running" => /\ at[s] \in Holding \ {"closing"}
                          /\ pull[s] \notin {"stop", "error"}

\* Type correctness, and the agreement of the lock with the generators: what
\* the other properties rest on.
IInv == TypeOK /\ HoldersHold /\ OwnersKnown /\ WaitersWait /\ WaitingQueued /\ RunsHold

\* Two Claude runs of one owner are never both going on: when the lock passes
\* to the next turn, the run of the one before has ended or is being stopped.
RunsSerial == \A s, t \in Stream :
    run[s] = "running" /\ run[t] = "running" /\ owner[s] = owner[t] => s = t

\* Heartbeats neither lose, repeat nor reorder an event: the data frames are
\* the events in order, and an end frame follows all that the run has produced,
\* and only after it ended by itself.
AnswersComplete == \A s \in Stream :
    LET n == Len(frames[s])
        ended == n > 0 /\ frames[s][n] = EndFrame
    IN /\ \A i \in 1..n : frames[s][i] = i \/ (i = n /\ ended)
       /\ ended => n = produced[s] + 1 /\ run[s] \in {"finished", "failed"}

\* What makes it hold in every step: while a generator is in its loop, all that
\* the run has produced is in a frame or in the finished task.
InLoop == {"pulling", "framing", "abandoned"}
FramesInv == \A s \in Stream :
    /\ at[s] \in {"idle", "waiting"} => frames[s] = <<>> /\ produced[s] = 0
    /\ at[s] \in InLoop =>
         /\ produced[s] = Len(frames[s]) + (IF pull[s] = "event" THEN 1 ELSE 0)
         /\ \A i \in 1..Len(frames[s]) : frames[s][i] = i
    /\ at[s] \notin InLoop => pull[s] = "none"
    /\ pull[s] \in {"stop", "error"} => run[s] \in {"finished", "failed"}

HolderFirst(o) == IF holder[o] = None THEN <<>> ELSE <<holder[o]>>
TQ == INSTANCE TurnQueue
          WITH line <- [o \in Owner |-> HolderFirst(o) \o waiters[o]],
               serving <- {o \in Owner : holder[o] # None}

\* The turns of an owner are served one at a time and in the order of their
\* requests, whoever hangs up in the queue or in the middle of an answer.
ImplementsTurnQueue == TQ!Spec

\* A turn that waits for the lock gets it or its client hangs up, although
\* earlier clients vanish while their generators are suspended.
EveryoneServed == \A s \in Stream : at[s] = "waiting" ~> at[s] # "waiting"

\* "A Telegram turn and a web turn for the same owner never overlap"
\* (chat_stream.py:12-13).  The bridge does not take this lock.
NeverOverlap == \A s \in Stream : run[s] = "running" => owner[s] # turn
=============================================================================
