----------------------------- MODULE ChatClient -----------------------------
(***************************************************************************)
(* The browser's side of the web chat: useSSE                              *)
(* (dashboard/app/(auth)/_lib/use-sse.ts) and the panel that uses it       *)
(* (chat-panel.tsx).  A send posts a turn, reads the frames of the answer, *)
(* and posts the turn once more if the connection fails; a new send aborts *)
(* the one before it, whose continuation runs some time later.             *)
(*                                                                         *)
(* The dashboard's proxy and the engine are the environment: they take a   *)
(* post or not, answer with frames, and break off anywhere.                *)
(***************************************************************************)
EXTENDS Naturals, Sequences, FiniteSets

CONSTANTS MaxTurns, \* bound: turns sent
          MaxFrames \* bound: frames of one answer

ASSUME ChatAssumption == MaxTurns \in Nat \ {0} /\ MaxFrames \in Nat

VARIABLES
    panelStatus, \* what the panel is told
    latest,      \* the turn of the last send; abortRef holds its controller
    open,        \* the panel is on the screen
    sending,     \* where the send of each turn is
    try,         \* its attempt
    aborted,     \* its controller has been aborted
    events       \* the frames shown with the latest turn, as <<turn, try, number>>

panel == <<panelStatus, latest, open, events>>
chatVars == <<panel, sending, try, aborted>>

Turn == 1..MaxTurns
Doing == {"unsent", "posting", "reading", "backoff", "done"}
Alive(m) == sending[m] \in {"posting", "reading", "backoff"} /\ ~aborted[m]

Goes(m, where) == sending' = [sending EXCEPT ![m] = where]
Says(what) == panelStatus' = what

\* The frames of the attempt that have been shown.
Got(m) == Cardinality({i \in DOMAIN events : events[i][1] = m /\ events[i][2] = try[m]})

-----------------------------------------------------------------------------
(* The user *)

FaultKeepEvents == events
NoEvents == <<>>

\* The panel takes no turn while the status is "streaming".
FaultTakeAnyway == TRUE
InputEnabled == panelStatus # "streaming"

\* submit, and send, which aborts the turn before.
Submit ==
    /\ open /\ InputEnabled /\ latest < MaxTurns
    /\ latest' = latest + 1
    /\ aborted' = [m \in Turn |-> aborted[m] \/ m = latest]
    /\ events' = NoEvents
    /\ Says("streaming") /\ Goes(latest + 1, "posting")
    /\ UNCHANGED <<open, try>>

\* The page is left; the hook aborts what is under way.
LeavePage ==
    /\ open /\ open' = FALSE
    /\ aborted' = [m \in Turn |-> aborted[m] \/ m = latest]
    /\ UNCHANGED <<panelStatus, latest, events, sending, try>>

-----------------------------------------------------------------------------
(* One attempt *)

Connect(m) == /\ sending[m] = "posting" /\ ~aborted[m]
              /\ Goes(m, "reading")
              /\ UNCHANGED <<panel, try, aborted>>

Frame(m) == /\ sending[m] = "reading" /\ ~aborted[m] /\ Got(m) < MaxFrames
            /\ events' = Append(events, <<m, try[m], Got(m) + 1>>)
            /\ UNCHANGED <<panelStatus, latest, open, sending, try, aborted>>

FaultStayStreaming == "streaming"
EndStatus == "closed"

\* An end frame, or the end of the body without one: the turn is complete.
Complete(m) == /\ sending[m] = "reading" /\ ~aborted[m]
               /\ Goes(m, "done") /\ Says(EndStatus)
               /\ UNCHANGED <<latest, open, events, try, aborted>>

AfterFailure(m) == IF try[m] = 1 THEN "backoff" ELSE "done"

\* An error status or a lost connection.
FailTurn(m) == /\ sending[m] \in {"posting", "reading"} /\ ~aborted[m]
               /\ Goes(m, AfterFailure(m)) /\ Says("error")
               /\ UNCHANGED <<latest, open, events, try, aborted>>

-----------------------------------------------------------------------------
(* The retry *)

FaultDeafTimer(m) == TRUE
MayRetry(m) == ~aborted[m]

Retry(m) == /\ sending[m] = "backoff" /\ MayRetry(m)
            /\ try' = [try EXCEPT ![m] = 2]
            /\ Goes(m, "posting")
            /\ UNCHANGED <<panel, aborted>>

-----------------------------------------------------------------------------
(* The continuation of a send that was aborted *)

\* In fetch it returns, and in the wait for the retry.
EndQuietly(m) == /\ sending[m] \in {"posting", "backoff"} /\ aborted[m]
                 /\ Goes(m, "done")
                 /\ UNCHANGED <<panel, try, aborted>>

\* In a read it throws, which sets the status, whoever streams by then.
EndReading(m) == /\ sending[m] = "reading" /\ aborted[m]
                 /\ Goes(m, "done") /\ Says(IF try[m] = 1 THEN "closed" ELSE "error")
                 /\ UNCHANGED <<latest, open, events, try, aborted>>

-----------------------------------------------------------------------------
ChatInit ==
    /\ panelStatus = "idle" /\ latest = 0 /\ open = TRUE /\ events = <<>>
    /\ sending = [m \in Turn |-> "unsent"]
    /\ try = [m \in Turn |-> 1]
    /\ aborted = [m \in Turn |-> FALSE]

Network(m) == Connect(m) \/ Frame(m) \/ Complete(m) \/ FailTurn(m)
Browser(m) == Retry(m) \/ EndQuietly(m) \/ EndReading(m)

ChatNext == Submit \/ LeavePage \/ \E m \in Turn : Network(m) \/ Browser(m)

\* A request is answered, refused or lost in the end, an answer has an end (the
\* bound on frames makes it end), and the browser runs timers and continuations.
ChatFairness == \A m \in Turn :
    WF_chatVars(Network(m)) /\ WF_chatVars(Browser(m))
ChatSpec == ChatInit /\ [][ChatNext]_chatVars /\ ChatFairness

-----------------------------------------------------------------------------
(* Properties *)

ChatTypeOK ==
    /\ panelStatus \in {"idle", "streaming", "closed", "error"}
    /\ latest \in 0..MaxTurns /\ open \in BOOLEAN
    /\ sending \in [Turn -> Doing] /\ try \in [Turn -> 1..2]
    /\ aborted \in [Turn -> BOOLEAN]
    /\ events \in Seq(Turn \X (1..2) \X (1..MaxFrames))

\* "the retry does not race with the new stream and double-post"
\* (use-sse.ts:118-121): a turn is posted, for the first time or again, only
\* while it is the latest one and its panel is there.
PostsOnlyLatest == [][\A m \in Turn :
    sending[m] # "posting" /\ sending'[m] = "posting" => m = latest' /\ open']_chatVars

\* The panel shows the frames of the latest turn only: those of its first
\* attempt in order, then those of the retry in order, none of them twice.
ShownInOrder == \A i \in DOMAIN events :
    /\ events[i][1] = latest
    /\ events[i][3] = 1 + Cardinality({j \in 1..(i - 1) : events[j][2] = events[i][2]})
    /\ i > 1 => events[i - 1][2] <= events[i][2]

\* The panel takes the next turn some time after it has taken one.
InputReturns == panelStatus = "streaming" ~> panelStatus # "streaming" \/ ~open

\* "Input disables while a turn is streaming" (chat-panel.tsx:15), whatever ends
\* when, as long as no turn had to be retried: a retry streams with the status
\* "error", and a turn that is submitted then is told the end of the aborted one.
InputHeld == open /\ (\A m \in Turn : try[m] = 1) =>
    \A m \in Turn : sending[m] \in {"posting", "reading"} => panelStatus = "streaming"

-----------------------------------------------------------------------------
(* The inductive invariant behind the safety properties *)

\* A send that goes on without having been aborted is the latest one, and its
\* panel is there.
AliveIsLatest == \A m \in Turn : Alive(m) => m = latest /\ open
SentBefore == \A m \in Turn : m > latest <=> sending[m] = "unsent"
\* The second attempt shows its frames after the first one.
TriesInOrder == \A i \in DOMAIN events : events[i][2] <= try[latest]

\* Without a retry a send is aborted in the wait for one, or never.
AbortedWaits ==
    /\ \A m \in Turn : aborted[m] => m <= latest
    /\ open /\ (\A m \in Turn : try[m] = 1) =>
          \A m \in Turn : sending[m] \in {"posting", "reading"} => ~aborted[m]

ChatInv == /\ ChatTypeOK /\ AliveIsLatest /\ SentBefore /\ TriesInOrder /\ ShownInOrder
           /\ InputHeld /\ AbortedWaits
=============================================================================
