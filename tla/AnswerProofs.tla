---------------------------- MODULE AnswerProofs ----------------------------
(***************************************************************************)
(* Proofs about the two ends where an answer is shown: ChatClient, the     *)
(* panel in the browser, for any numbers of turns and frames, and          *)
(* ReplyStream, the messages in Telegram, for any length of an answer and  *)
(* of a message and any number of tools.                                   *)
(***************************************************************************)
EXTENDS ChatClient, ReplyStream, FiniteSetTheorems, SequenceTheorems, TLAPS

-----------------------------------------------------------------------------
(* The panel *)

ChatFrame == Turn \X (1..2) \X (1..MaxFrames)

\* The frames shown of an attempt can be counted, so the next one has a number.
LEMMA FramesCounted ==
    ASSUME ChatTypeOK, NEW m \in Turn
    PROVE  Got(m) \in Nat
<1> DEFINE Shown == {i \in DOMAIN events : events[i][1] = m /\ events[i][2] = try[m]}
<1>1. Len(events) \in Nat /\ DOMAIN events = 1..Len(events)
  BY DEF ChatTypeOK
<1>2. IsFiniteSet(1..Len(events))
  BY <1>1, FS_Interval
<1>3. IsFiniteSet(Shown)
  BY <1>1, <1>2, FS_Subset
<1>4. Cardinality(Shown) \in Nat
  BY <1>3, FS_CardinalityType
<1>5. QED
  BY <1>4 DEF Got

\* The panel starts with nothing sent and nothing shown.
LEMMA ChatStart == ChatInit => ChatInv
<1> SUFFICES ASSUME ChatInit
             PROVE  ChatInv
  OBVIOUS
<1> USE ChatAssumption DEF ChatInit
<1>1. ChatTypeOK
  BY DEF ChatTypeOK, Turn, Doing
<1>2. AliveIsLatest /\ SentBefore
  BY DEF AliveIsLatest, SentBefore, Alive, Turn
<1>3. DOMAIN events = {}
  OBVIOUS
<1>4. TriesInOrder /\ ShownInOrder
  BY <1>3 DEF TriesInOrder, ShownInOrder
<1>5. InputHeld /\ AbortedWaits
  BY DEF InputHeld, AbortedWaits
<1>6. QED
  BY <1>1, <1>2, <1>4, <1>5 DEF ChatInv

\* What the steps of a send have in common: none starts one, or aborts one, and
\* only a frame changes what is shown.
LEMMA QuietStep ==
    ASSUME ChatInv, NEW m \in Turn, Network(m) \/ Browser(m)
    PROVE  /\ m <= latest /\ latest' = latest /\ open' = open /\ aborted' = aborted
           /\ sending[m] # "unsent"
           /\ \E where \in Doing \ {"unsent"} :
                 sending' = [sending EXCEPT ![m] = where] \/ sending' = sending
           /\ \A n \in Turn : try'[n] \in {try[n], 2}
           /\ try' \in [Turn -> 1..2]
           /\ panelStatus' \in {"idle", "streaming", "closed", "error"}
           /\ Frame(m) \/ events' = events
<1> USE DEF ChatInv, ChatTypeOK, Network, Browser, Doing, Goes, Says, panel
<1>1. sending[m] # "unsent"
  BY DEF Connect, Frame, Complete, FailTurn, Retry, EndQuietly, EndReading
<1>2. m <= latest
  BY <1>1 DEF SentBefore, Turn
<1>3. latest' = latest /\ open' = open /\ aborted' = aborted
  BY DEF Connect, Frame, Complete, FailTurn, Retry, EndQuietly, EndReading
<1>4. \E where \in Doing \ {"unsent"} :
         sending' = [sending EXCEPT ![m] = where] \/ sending' = sending
  BY DEF Connect, Frame, Complete, FailTurn, Retry, EndQuietly, EndReading, AfterFailure
<1>5. /\ \A n \in Turn : try'[n] \in {try[n], 2}
      /\ try' \in [Turn -> 1..2]
  BY DEF Connect, Frame, Complete, FailTurn, Retry, EndQuietly, EndReading
<1>6. panelStatus' \in {"idle", "streaming", "closed", "error"}
  BY DEF Connect, Frame, Complete, FailTurn, Retry, EndQuietly, EndReading, EndStatus
<1>7. Frame(m) \/ events' = events
  BY DEF Connect, Complete, FailTurn, Retry, EndQuietly, EndReading
<1>8. QED
  BY <1>1, <1>2, <1>3, <1>4, <1>5, <1>6, <1>7

\* What a frame adds to the panel: the next one of the latest turn's attempt.
LEMMA FrameShown ==
    ASSUME ChatInv, NEW m \in Turn, Frame(m)
    PROVE  events' \in Seq(ChatFrame) /\ ShownInOrder' /\ TriesInOrder'
<1> USE DEF ChatInv, ChatTypeOK
<1> DEFINE new == <<m, try[m], Got(m) + 1>>
           L == Len(events)
<1>1. m = latest /\ latest' = latest /\ try' = try
  BY DEF Frame, AliveIsLatest, Alive
<1>2. Got(m) \in Nat /\ Got(m) < MaxFrames
  BY FramesCounted DEF Frame
<1>3. events' = Append(events, new)
  BY DEF Frame
<1>4. new \in ChatFrame
  BY <1>2, ChatAssumption DEF ChatFrame
<1>5. /\ events' \in Seq(ChatFrame) /\ L \in Nat
      /\ DOMAIN events = 1..L /\ DOMAIN events' = 1..(L + 1)
      /\ events'[L + 1] = new
      /\ \A i \in 1..L : events'[i] = events[i]
  BY <1>3, <1>4 DEF ChatFrame
<1>6. new[1] = m /\ new[2] = try[m] /\ new[3] = Got(m) + 1
  OBVIOUS
<1>7. TriesInOrder'
  <2>1. ASSUME NEW i \in 1..(L + 1)
        PROVE  events'[i][2] <= try[latest]
    <3>1. CASE i = L + 1
      <4>1. events'[i][2] = try[latest]
        BY <1>1, <1>5, <1>6, <3>1
      <4>2. try[latest] \in 1..2
        BY <1>1 DEF ChatInv, ChatTypeOK
      <4>3. QED
        BY <4>1, <4>2
    <3>2. CASE i \in 1..L
      BY <1>5, <3>2 DEF TriesInOrder
    <3>3. QED
      BY <1>5, <3>1, <3>2
  <2>2. QED
    BY <1>1, <1>5, <2>1 DEF TriesInOrder
<1>8. ShownInOrder'
  <2>1. ASSUME NEW i \in 1..L
        PROVE  /\ events'[i][1] = latest'
               /\ events'[i][3] =
                    1 + Cardinality({j \in 1..(i - 1) : events'[j][2] = events'[i][2]})
               /\ i > 1 => events'[i - 1][2] <= events'[i][2]
    <3>1. {j \in 1..(i - 1) : events'[j][2] = events'[i][2]}
             = {j \in 1..(i - 1) : events[j][2] = events[i][2]}
      <4>1. \A j \in 1..(i - 1) : j \in 1..L
        BY <1>5
      <4>2. QED
        BY <1>5, <4>1, Zenon
    <3>2. events'[i] = events[i] /\ (i > 1 => events'[i - 1] = events[i - 1])
      <4>1. i > 1 => i - 1 \in 1..L
        BY <1>5
      <4>2. QED
        BY <1>5, <4>1, Zenon
    <3>3. /\ events[i][1] = latest
          /\ events[i][3] = 1 + Cardinality({j \in 1..(i - 1) : events[j][2] = events[i][2]})
          /\ i > 1 => events[i - 1][2] <= events[i][2]
      BY <1>5 DEF ShownInOrder
    <3>4. QED
      BY <1>1, <3>1, <3>2, <3>3
  <2>2. /\ new[1] = latest'
        /\ new[3] = 1 + Cardinality({j \in 1..((L + 1) - 1) : events'[j][2] = new[2]})
        /\ L + 1 > 1 => events'[(L + 1) - 1][2] <= new[2]
    <3>1. {j \in 1..((L + 1) - 1) : events'[j][2] = new[2]}
             = {j \in DOMAIN events : events[j][1] = m /\ events[j][2] = try[m]}
      <4>1. (L + 1) - 1 = L
        BY <1>5
      <4>2. \A j \in 1..L : events[j][1] = m /\ events'[j] = events[j]
        BY <1>1, <1>5 DEF ShownInOrder
      <4>3. QED
        BY <1>5, <1>6, <4>1, <4>2
    <3>2. new[3] = 1 + Cardinality({j \in 1..((L + 1) - 1) : events'[j][2] = new[2]})
      <4>1. Got(m) = Cardinality({j \in 1..((L + 1) - 1) : events'[j][2] = new[2]})
        BY <3>1 DEF Got
      <4>2. Got(m) + 1 = 1 + Got(m)
        BY <1>2
      <4>3. QED
        BY <1>6, <4>1, <4>2
    <3>3. L + 1 > 1 => events'[(L + 1) - 1][2] <= new[2]
      BY <1>1, <1>5, <1>6 DEF TriesInOrder
    <3>4. QED
      BY <1>1, <1>6, <3>2, <3>3
  <2>3. ASSUME NEW i \in 1..(L + 1)
        PROVE  /\ events'[i][1] = latest'
               /\ events'[i][3] =
                    1 + Cardinality({j \in 1..(i - 1) : events'[j][2] = events'[i][2]})
               /\ i > 1 => events'[i - 1][2] <= events'[i][2]
    <3>1. CASE i = L + 1
      <4>1. i - 1 = (L + 1) - 1 /\ events'[i] = new
        BY <1>5, <3>1
      <4>2. QED
        BY <1>5, <2>2, <3>1, <4>1
    <3>2. CASE i \in 1..L
      BY <2>1, <3>2
    <3>3. QED
      BY <1>5, <3>1, <3>2
  <2>4. QED
    BY <1>5, <2>3 DEF ShownInOrder
<1>9. QED
  BY <1>5, <1>7, <1>8

\* Without a retry, a send that still posts or reads after a step did so before,
\* and the step was not the end of another one.
LEMMA HeldStep ==
    ASSUME ChatInv, NEW m \in Turn, Network(m) \/ Browser(m)
    PROVE  InputHeld' /\ AbortedWaits'
<1> DEFINE Streams(n) == sending[n] \in {"posting", "reading"}
           NoRetry == \A n \in Turn : try[n] = 1
<1>1. /\ latest' = latest /\ open' = open /\ aborted' = aborted
      /\ \A n \in Turn : try'[n] \in {try[n], 2}
  BY QuietStep
<1>2. ASSUME open', NoRetry', NEW n \in Turn, Streams(n)'
      PROVE  panelStatus' = "streaming" /\ ~aborted'[n]
  <2> USE DEF ChatInv, ChatTypeOK
  <2>1. open /\ NoRetry
    BY <1>1, <1>2
  <2>2. ~Retry(m)
    BY <1>2 DEF Retry
  <2>3. Streams(n)
    BY <1>2, <2>2 DEF Network, Browser, Connect, Frame, Complete, FailTurn, AfterFailure,
                      EndQuietly, EndReading, Goes, panel
  <2>4. panelStatus = "streaming" /\ ~aborted[n]
    BY <2>1, <2>3 DEF InputHeld, AbortedWaits
  <2>5. CASE panelStatus' # panelStatus
    <3>1. (Complete(m) \/ FailTurn(m) \/ EndReading(m)) /\ Streams(m)
      BY <2>2, <2>5 DEF Network, Browser, Connect, Frame, Complete, FailTurn, EndQuietly,
                        EndReading, panel
    <3>2. ~aborted[m]
      BY <2>1, <3>1 DEF AbortedWaits
    <3>3. n = m
      BY <2>3, <2>4, <3>1, <3>2 DEF AliveIsLatest, Alive
    <3>4. ~Streams(m)'
      BY <3>1 DEF Complete, FailTurn, AfterFailure, EndReading, Goes
    <3>5. QED
      BY <1>2, <3>3, <3>4
  <2>6. QED
    BY <1>1, <2>4, <2>5
<1>3. AbortedWaits'
  BY <1>1, <1>2 DEF ChatInv, AbortedWaits
<1>4. InputHeld'
  BY <1>2 DEF InputHeld
<1>5. QED
  BY <1>3, <1>4

\* Every step of the user, the network and the browser keeps the invariant.
LEMMA ChatKept == ChatInv /\ [ChatNext]_chatVars => ChatInv'
<1> SUFFICES ASSUME ChatInv, [ChatNext]_chatVars
             PROVE  ChatInv'
  OBVIOUS
<1>1. CASE Submit
  <2> USE <1>1, ChatAssumption DEF ChatInv, ChatTypeOK, Submit, Goes, Says, NoEvents, Doing
  <2>1. latest + 1 \in Turn /\ latest' = latest + 1 /\ latest' \in 0..MaxTurns
    BY DEF Turn
  <2>2. ChatTypeOK'
    BY <2>1
  <2>3. SentBefore'
    BY <2>1 DEF SentBefore, Turn
  <2>4. AliveIsLatest'
    <3>1. ASSUME NEW n \in Turn, Alive(n)', n # latest + 1
          PROVE  FALSE
      <4>1. Alive(n) /\ n # latest
        BY <2>1, <3>1 DEF Alive
      <4>2. QED
        BY <4>1 DEF AliveIsLatest
    <3>2. QED
      BY <2>1, <3>1 DEF AliveIsLatest
  <2>5. DOMAIN events' = {}
    OBVIOUS
  <2>6. ShownInOrder' /\ TriesInOrder'
    BY <2>5 DEF ShownInOrder, TriesInOrder
  <2>7. \A n \in Turn : aborted'[n] <=> aborted[n] \/ n = latest
    OBVIOUS
  <2>8. \A n \in Turn : aborted'[n] => n <= latest /\ n # latest + 1
    BY <2>7 DEF AbortedWaits, Turn
  <2>9. InputHeld'
    BY DEF InputHeld
  <2>10. AbortedWaits'
    <3>1. ASSUME NEW n \in Turn, open, \A i \in Turn : try[i] = 1,
                 sending'[n] \in {"posting", "reading"}
          PROVE  n = latest + 1
      <4>1. n # latest + 1 => sending'[n] = sending[n]
        BY <2>1
      <4>2. QED
        BY <3>1, <4>1 DEF InputHeld, InputEnabled
    <3>2. QED
      BY <2>1, <2>8, <3>1 DEF AbortedWaits, Turn
  <2>11. QED
    BY <2>2, <2>3, <2>4, <2>6, <2>9, <2>10
<1>2. CASE LeavePage
  <2> USE <1>2 DEF ChatInv, ChatTypeOK, LeavePage
  <2>1. ChatTypeOK'
    OBVIOUS
  <2>2. SentBefore' /\ ShownInOrder' /\ TriesInOrder'
    BY DEF SentBefore, ShownInOrder, TriesInOrder
  <2>3. AliveIsLatest'
    BY DEF AliveIsLatest, Alive
  <2>4. InputHeld' /\ AbortedWaits'
    BY DEF InputHeld, AbortedWaits, Turn
  <2>5. QED
    BY <2>1, <2>2, <2>3, <2>4
<1>3. ASSUME NEW m \in Turn, Network(m) \/ Browser(m)
      PROVE  ChatInv'
  <2> USE DEF ChatInv, ChatTypeOK
  <2>1. /\ m <= latest /\ latest' = latest /\ open' = open /\ aborted' = aborted
        /\ sending[m] # "unsent"
        /\ \A n \in Turn : try'[n] \in {try[n], 2}
        /\ try' \in [Turn -> 1..2]
        /\ panelStatus' \in {"idle", "streaming", "closed", "error"}
        /\ Frame(m) \/ events' = events
    BY <1>3, QuietStep
  <2>2. PICK where \in Doing \ {"unsent"} :
           sending' = [sending EXCEPT ![m] = where] \/ sending' = sending
    BY <1>3, QuietStep
  <2>3. sending' \in [Turn -> Doing] /\ sending'[m] # "unsent"
    BY <2>1, <2>2
  <2>4. \A n \in Turn : sending'[n] = "unsent" <=> sending[n] = "unsent"
    BY <2>1, <2>2, <2>3
  <2>5. SentBefore'
    BY <2>1, <2>4 DEF SentBefore
  <2>6. ASSUME NEW n \in Turn, Alive(n)'
        PROVE  Alive(n)
    <3>1. n # m => Alive(n)
      BY <2>1, <2>2, <2>6 DEF Alive
    <3>2. n = m => Alive(n)
      BY <1>3, <2>1, <2>6
         DEF Alive, Network, Browser, Connect, Frame, Complete, FailTurn, Retry,
             EndQuietly, EndReading, Goes, panel
    <3>3. QED
      BY <3>1, <3>2
  <2>7. AliveIsLatest'
    BY <2>1, <2>6 DEF AliveIsLatest
  <2>8. /\ events' \in Seq(ChatFrame) /\ ShownInOrder' /\ TriesInOrder'
    <3>1. CASE Frame(m)
      BY <3>1, FrameShown
    <3>2. CASE events' = events
      <4>1. latest \in Turn \/ DOMAIN events = {}
        <5>1. latest >= 1
          BY <2>1 DEF Turn
        <5>2. QED
          BY <5>1 DEF Turn
      <4>2. TriesInOrder'
        <5>1. ASSUME NEW i \in DOMAIN events
              PROVE  events[i][2] <= try'[latest]
          <6>1. events[i] \in ChatFrame /\ latest \in Turn
            <7>1. events \in Seq(ChatFrame)
              BY DEF ChatFrame
            <7>2. DOMAIN events = 1..Len(events)
              BY <7>1, LenProperties
            <7>3. QED
              BY <4>1, <7>1, <7>2, ElementOfSeq, Zenon
          <6>2. events[i][2] \in 1..2
            BY <6>1 DEF ChatFrame
          <6>3. try'[latest] = try[latest] \/ try'[latest] = 2
            BY <2>1, <6>1
          <6>4. events[i][2] <= try[latest]
            BY DEF TriesInOrder
          <6>5. QED
            BY <6>2, <6>3, <6>4
        <5>2. QED
          BY <2>1, <3>2, <5>1 DEF TriesInOrder
      <4>3. ShownInOrder'
        BY <2>1, <3>2 DEF ShownInOrder
      <4>4. QED
        BY <3>2, <4>2, <4>3 DEF ChatFrame
    <3>3. QED
      BY <2>1, <3>1, <3>2
  <2>9. QED
    BY <1>3, <2>1, <2>3, <2>5, <2>7, <2>8, HeldStep DEF ChatFrame
<1>4. CASE UNCHANGED chatVars
  BY <1>4 DEF chatVars, panel, ChatInv, ChatTypeOK, AliveIsLatest, SentBefore, Alive,
              TriesInOrder, ShownInOrder, InputHeld, AbortedWaits
<1>5. QED
  BY <1>1, <1>2, <1>3, <1>4 DEF ChatNext

-----------------------------------------------------------------------------
(* The theorems *)

\* What the panel shows and which send is alive agree in every behaviour of
\* useSSE, however sends, aborts, failures and retries follow each other.
THEOREM ChatInductive == ChatSpec => []ChatInv
<1>1. QED
  BY ChatStart, ChatKept, PTL DEF ChatSpec

\* Frames are shown in order and once: no frame of an aborted turn, and none of
\* a first attempt behind one of its retry.
THEOREM FramesInOrder == ChatSpec => []ShownInOrder
<1>1. ChatInv => ShownInOrder
  BY DEF ChatInv
<1>2. QED
  BY <1>1, ChatInductive, PTL

\* From the submission of a turn to its end the panel takes no other one, for any
\* interleaving of answers and failures, as long as no turn was retried.
THEOREM InputIsHeld == ChatSpec => []InputHeld
<1>1. ChatInv => InputHeld
  BY DEF ChatInv
<1>2. QED
  BY <1>1, ChatInductive, PTL

\* A turn that is not the latest one, or whose panel is gone, is never posted
\* again: the retry does not double-post beside a new stream.
THEOREM OnlyLatestPosted == ChatSpec => PostsOnlyLatest
<1>1. ChatInv /\ [ChatNext]_chatVars =>
         [\A m \in Turn : sending[m] # "posting" /\ sending'[m] = "posting" =>
                              m = latest' /\ open']_chatVars
  <2> SUFFICES ASSUME ChatInv, ChatNext, NEW m \in Turn,
                      sending[m] # "posting", sending'[m] = "posting"
               PROVE  m = latest' /\ open'
    OBVIOUS
  <2> USE DEF ChatInv, ChatTypeOK
  <2>1. CASE Submit
    BY <2>1 DEF Submit, Goes, Turn
  <2>2. CASE LeavePage
    BY <2>2 DEF LeavePage
  <2>3. ASSUME NEW n \in Turn, Network(n) \/ Browser(n)
        PROVE  m = latest' /\ open'
    <3>1. n = m /\ Retry(m)
      BY <2>3 DEF Network, Browser, Connect, Frame, Complete, FailTurn, AfterFailure,
                  EndQuietly, EndReading, Retry, Goes, panel
    <3>2. Alive(m)
      BY <3>1 DEF Retry, MayRetry, Alive
    <3>3. QED
      BY <3>1, <3>2 DEF Retry, AliveIsLatest, panel
  <2>4. QED
    BY <2>1, <2>2, <2>3 DEF ChatNext
<1>2. QED
  BY <1>1, ChatInductive, PTL DEF ChatSpec, PostsOnlyLatest

-----------------------------------------------------------------------------
(* The messages in Telegram: what they show *)

\* The units of a message ascend.
Ascending(m) == \A k, l \in DOMAIN m.units : k < l => m.units[k] < m.units[l]

\* A message has units, which are numbers.
LEMMA Units ==
    ASSUME NEW m \in Message
    PROVE  /\ m.units \in Seq(1..MaxUnits) /\ Len(m.units) \in Nat
           /\ DOMAIN m.units = 1..Len(m.units)
           /\ \A k \in DOMAIN m.units : m.units[k] \in 1..MaxUnits /\ m.units[k] \in Int
BY ReplyAssumption DEF Message

\* Messages without text.
LEMMA EmptyShape ==
    /\ Busy \in Message /\ Failed \in Message
    /\ \A a, b : Within(Busy, a, b) /\ Within(Failed, a, b)
    /\ Ascending(Busy) /\ Ascending(Failed)
BY DEF Busy, Failed, Message, Kind, Within, Ascending

\* A message with text shows the units between two places, each once.
LEMMA TextShape ==
    ASSUME NEW a \in Nat, NEW b \in Nat, b <= MaxUnits
    PROVE  /\ Text(a, b) \in Message /\ Text(a, b).kind = "text"
           /\ Within(Text(a, b), a, b) /\ Ascending(Text(a, b))
           /\ \A u \in (a + 1)..b : Shows(Text(a, b), u)
<1> DEFINE us == [i \in 1..(b - a) |-> a + i]
<1>1. Text(a, b).units = us /\ Text(a, b).kind = "text"
  BY DEF Text
<1>2. DOMAIN us = 1..(b - a) /\ \A i \in 1..(b - a) : us[i] = a + i
  OBVIOUS
<1>3. us \in Seq(1..MaxUnits)
  <2>1. PICK n \in Nat : 1..(b - a) = 1..n
    <3>1. CASE a <= b
      <4>1. b - a \in Nat
        BY <3>1
      <4>2. QED
        BY <4>1
    <3>2. CASE ~(a <= b)
      <4>1. 1..(b - a) = 1..0
        BY <3>2
      <4>2. QED
        BY <4>1
    <3>3. QED
      BY <3>1, <3>2
  <2>2. \A i \in 1..(b - a) : a + i \in 1..MaxUnits
    BY ReplyAssumption
  <2>3. us \in [1..n -> 1..MaxUnits]
    BY <2>1, <2>2
  <2>4. QED
    BY <2>3
<1>4. Text(a, b) \in Message
  BY <1>3 DEF Text, Message, Kind
<1> HIDE DEF us
<1>5. Within(Text(a, b), a, b)
  BY <1>1, <1>2 DEF Within
<1>6. Ascending(Text(a, b))
  BY <1>1, <1>2 DEF Ascending
<1>7. ASSUME NEW u \in (a + 1)..b
      PROVE  Shows(Text(a, b), u)
  <2>1. u - a \in 1..(b - a) /\ a + (u - a) = u
    OBVIOUS
  <2>2. QED
    BY <1>1, <1>2, <2>1 DEF Shows
<1>8. QED
  BY <1>1, <1>4, <1>5, <1>6, <1>7

\* A wider range, and an empty message, for what a message shows.
LEMMA WithinWider ==
    ASSUME NEW m \in Message, NEW a \in Int, NEW b \in Int, NEW c \in Int, NEW d \in Int,
           Within(m, a, b), c <= a, b <= d
    PROVE  Within(m, c, d)
BY Units DEF Within

\* A message that shows later units than the ones above it leaves the chat in order.
LEMMA OrderExtended ==
    ASSUME NEW chat \in Seq(Message), NEW n \in Nat, Len(chat) = n + 1,
           NEW a \in Nat, NEW b \in Nat,
           \A i \in 1..n : Within(chat[i], 0, a),
           AsProduced(SubSeq(chat, 1, n)),
           Within(chat[n + 1], a, b), Ascending(chat[n + 1])
    PROVE  AsProduced(chat)
<1> DEFINE s == SubSeq(chat, 1, n)
<1>1. DOMAIN chat = 1..(n + 1)
  OBVIOUS
<1>2. DOMAIN s = 1..n /\ \A i \in 1..n : s[i] = chat[i]
  OBVIOUS
<1> HIDE DEF s
<1>3. AsProduced(s)
  BY DEF s
<1>4. ASSUME NEW i \in 1..(n + 1), NEW j \in 1..(n + 1),
             NEW k \in DOMAIN chat[i].units, NEW l \in DOMAIN chat[j].units,
             i < j \/ (i = j /\ k < l)
      PROVE  chat[i].units[k] < chat[j].units[l]
  <2>1. CASE j \in 1..n
    <3>1. i \in 1..n
      BY <1>4, <2>1
    <3>2. QED
      BY <1>2, <1>3, <1>4, <2>1, <3>1 DEF AsProduced
  <2>2. CASE i \in 1..n /\ j = n + 1
    <3>1. chat[i].units[k] <= a
      BY <2>2 DEF Within
    <3>2. a < chat[j].units[l]
      BY <2>2 DEF Within
    <3>3. chat[i] \in Message /\ chat[j] \in Message
      BY <1>1
    <3>4. chat[i].units[k] \in Int /\ chat[j].units[l] \in Int
      BY <3>3, Units
    <3>5. QED
      BY <3>1, <3>2, <3>4
  <2>3. CASE i = n + 1
    <3>1. j = n + 1 /\ k < l
      BY <1>4, <2>3
    <3>2. QED
      BY <2>3, <3>1 DEF Ascending
  <2>4. QED
    BY <2>1, <2>2, <2>3
<1>5. QED
  BY <1>1, <1>4 DEF AsProduced

\* A part of a chat that is in order is in order.
LEMMA OrderPrefix ==
    ASSUME NEW chat \in Seq(Message), NEW n \in 0..Len(chat), AsProduced(chat)
    PROVE  AsProduced(SubSeq(chat, 1, n))
<1>1. PICK s : s = SubSeq(chat, 1, n)
  OBVIOUS
<1>2. DOMAIN s = 1..n /\ DOMAIN chat = 1..Len(chat) /\ \A i \in 1..n : s[i] = chat[i]
  BY <1>1
<1>3. AsProduced(s)
  BY <1>2 DEF AsProduced
<1>4. QED
  BY <1>1, <1>3

\* What a chat looks like after its end.
LEMMA ChatAppended ==
    ASSUME NEW chat \in Seq(Message), NEW m \in Message, NEW n \in Nat, n = Len(chat)
    PROVE  /\ Append(chat, m) \in Seq(Message) /\ Len(Append(chat, m)) = n + 1
           /\ DOMAIN Append(chat, m) = 1..(n + 1)
           /\ \A i \in 1..n : Append(chat, m)[i] = chat[i]
           /\ Append(chat, m)[n + 1] = m
           /\ SubSeq(Append(chat, m), 1, n) = chat
<1>1. /\ Append(chat, m) \in Seq(Message) /\ Len(Append(chat, m)) = n + 1
      /\ DOMAIN Append(chat, m) = 1..(n + 1)
      /\ \A i \in 1..n : Append(chat, m)[i] = chat[i]
      /\ Append(chat, m)[n + 1] = m
  OBVIOUS
<1>2. PICK s : s = SubSeq(Append(chat, m), 1, n)
  OBVIOUS
<1>3. s \in Seq(Message) /\ Len(s) = n /\ \A i \in 1..n : s[i] = chat[i]
  BY <1>1, <1>2
<1>4. s = chat
  BY <1>3, SeqEqual
<1>5. QED
  BY <1>1, <1>2, <1>4

\* A message after all others, with later units.
LEMMA OrderAppended ==
    ASSUME NEW chat \in Seq(Message), NEW m \in Message, NEW a \in Nat, NEW b \in Nat,
           AsProduced(chat), \A i \in DOMAIN chat : Within(chat[i], 0, a),
           Within(m, a, b), Ascending(m)
    PROVE  AsProduced(Append(chat, m))
<1>1. PICK t, n : t = Append(chat, m) /\ n = Len(chat)
  OBVIOUS
<1>2. n \in Nat /\ DOMAIN chat = 1..n
  BY <1>1
<1>3. /\ t \in Seq(Message) /\ Len(t) = n + 1 /\ \A i \in 1..n : t[i] = chat[i]
      /\ t[n + 1] = m /\ SubSeq(t, 1, n) = chat
  BY <1>1, <1>2, ChatAppended
<1>4. AsProduced(t)
  BY <1>2, <1>3, OrderExtended
<1>5. QED
  BY <1>1, <1>4

\* An edit of the status message, the last one, to units of its segment.
LEMMA SegmentEdited ==
    ASSUME ReplyInv, stage = "streaming", NEW m \in Message, NEW b \in Nat,
           Within(m, start, b), Ascending(m)
    PROVE  /\ Edited(m) \in Seq(Message) /\ Len(Edited(m)) = status
           /\ \A i \in 1..(status - 1) : Edited(m)[i] = messages[i]
           /\ Edited(m)[status] = m
           /\ Undisturbed => AsProduced(Edited(m))
<1>1. /\ messages \in Seq(Message) /\ start \in Nat
      /\ status \in Nat /\ status > 0 /\ status = Len(messages)
      /\ \A i \in 1..(status - 1) : Within(messages[i], 0, start)
  BY ReplyAssumption DEF ReplyInv, ReplyTypeOK, SegmentOpen
<1>2. PICK t, n : t = Edited(m) /\ n = status - 1
  OBVIOUS
<1>3. n \in Nat /\ status = n + 1
  BY <1>1, <1>2
<1>4. /\ t \in Seq(Message) /\ Len(t) = n + 1
      /\ \A i \in 1..n : t[i] = messages[i]
      /\ t[n + 1] = m
  <2>1. t = [messages EXCEPT ![n + 1] = m] /\ n + 1 \in 1..Len(messages)
    BY <1>1, <1>2, <1>3 DEF Edited
  <2>2. /\ t \in Seq(Message) /\ Len(t) = Len(messages)
        /\ \A j \in 1..Len(messages) : t[j] = IF j = n + 1 THEN m ELSE messages[j]
    BY <1>1, <2>1, ExceptSeq
  <2>3. \A i \in 1..n : i \in 1..Len(messages) /\ i # n + 1
    BY <1>1, <1>3
  <2>4. QED
    BY <1>1, <1>3, <2>1, <2>2, <2>3
<1>5. Undisturbed => AsProduced(t)
  <2> SUFFICES ASSUME AsProduced(messages)
               PROVE  AsProduced(t)
    BY DEF ReplyInv, OrderKept
  <2>1. AsProduced(SubSeq(messages, 1, n))
    <3>1. n \in 0..Len(messages)
      BY <1>1, <1>3
    <3>2. QED
      BY <1>1, <3>1, OrderPrefix
  <2>2. SubSeq(t, 1, n) = SubSeq(messages, 1, n)
    <3>1. PICK u, v : u = SubSeq(t, 1, n) /\ v = SubSeq(messages, 1, n)
      OBVIOUS
    <3>2. /\ u \in Seq(Message) /\ v \in Seq(Message) /\ Len(u) = n /\ Len(v) = n
          /\ \A i \in 1..n : u[i] = v[i]
      BY <1>1, <1>3, <1>4, <3>1
    <3>3. QED
      BY <3>1, <3>2, SeqEqual
  <2>3. \A i \in 1..n : Within(t[i], 0, start)
    BY <1>1, <1>2, <1>4
  <2>4. QED
    BY <1>1, <1>3, <1>4, <2>1, <2>2, <2>3, OrderExtended
<1>6. QED
  BY <1>2, <1>3, <1>4, <1>5

\* The last message goes, and the others stay.
LEMMA LastRemoved ==
    ASSUME NEW chat \in Seq(Message), chat # <<>>
    PROVE  /\ RemoveAt(chat, Len(chat)) = SubSeq(chat, 1, Len(chat) - 1)
           /\ SubSeq(chat, 1, Len(chat) - 1) \in Seq(Message)
           /\ Len(SubSeq(chat, 1, Len(chat) - 1)) = Len(chat) - 1
           /\ \A i \in 1..(Len(chat) - 1) : SubSeq(chat, 1, Len(chat) - 1)[i] = chat[i]
<1>1. Len(chat) \in Nat \ {0}
  BY EmptySeq
<1>2. PICK s, n : n = Len(chat) - 1 /\ s = SubSeq(chat, 1, n)
  OBVIOUS
<1>3. s \in Seq(Message) /\ Len(s) = n /\ \A i \in 1..n : s[i] = chat[i]
  <2>1. n \in Nat /\ \A i \in 1..n : chat[i] \in Message
    BY <1>1, <1>2
  <2>2. QED
    BY <1>2, <2>1
<1>4. SubSeq(chat, Len(chat) + 1, Len(chat)) = <<>>
  BY <1>1, SubSeqEmpty
<1>5. s \o <<>> = s
  BY <1>3, ConcatEmptySeq
<1>6. QED
  BY <1>2, <1>3, <1>4, <1>5 DEF RemoveAt

-----------------------------------------------------------------------------
(* The streamed answer: its steps *)

\* The status message is sent before Claude is asked.
LEMMA ReplyStart == ReplyInit => ReplyInv
<1> SUFFICES ASSUME ReplyInit
             PROVE  ReplyInv
  OBVIOUS
<1> USE ReplyAssumption, EmptyShape DEF ReplyInit
<1>1. messages \in Seq(Message) /\ Len(messages) = 1 /\ messages[1] = Busy /\ DOMAIN messages = {1}
  OBVIOUS
<1>2. ReplyTypeOK
  <2>1. {produced, start, sent} \subseteq 0..MaxUnits /\ tools \in 0..MaxTools
    OBVIOUS
  <2>2. greeting \in BOOLEAN /\ first \in BOOLEAN
    BY Zenon
  <2>3. stage \in {"streaming", "sending", "failing", "done", "silent", "failed"}
        /\ status \in 0..Len(messages)
    BY <1>1
  <2>4. QED
    BY <1>1, <2>1, <2>2, <2>3, Zenon DEF ReplyTypeOK
<1>3. SegmentOpen
  BY <1>1 DEF SegmentOpen
<1>4. OrderKept
  <2>1. DOMAIN messages[1].units = {}
    BY <1>1 DEF Busy
  <2>2. QED
    BY <1>1, <2>1 DEF OrderKept, AsProduced
<1>5. NoneMissing /\ OnlyText
  BY <1>1 DEF NoneMissing, OnlyText
<1>6. QED
  BY <1>2, <1>3, <1>4, <1>5 DEF ReplyInv

\* What holds of the chat while the answer comes.
LEMMA Streaming ==
    ASSUME ReplyInv, stage = "streaming"
    PROVE  /\ messages \in Seq(Message) /\ status = Len(messages) /\ status \in Nat \ {0}
           /\ messages # <<>> /\ DOMAIN messages = 1..status
           /\ start \in Nat /\ produced \in Nat /\ start <= produced /\ produced <= MaxUnits
           /\ \A i \in 1..(status - 1) : Within(messages[i], 0, start)
           /\ Within(messages[status], start, produced)
           /\ \A i \in 1..status : messages[i] \in Message
           /\ Undisturbed => AsProduced(messages)
<1>1. /\ messages \in Seq(Message) /\ status = Len(messages) /\ status \in Nat \ {0}
      /\ start \in 0..MaxUnits /\ produced \in 0..MaxUnits /\ start <= produced
  BY DEF ReplyInv, ReplyTypeOK, SegmentOpen
<1>2. DOMAIN messages = 1..status /\ messages # <<>> /\ \A i \in 1..status : messages[i] \in Message
  BY <1>1
<1>3. QED
  BY <1>1, <1>2, ReplyAssumption DEF ReplyInv, SegmentOpen, OrderKept

\* A block of text, shown or not.
LEMMA BlockInv ==
    ASSUME ReplyInv, TextBlock
    PROVE  ReplyInv'
<1> USE ReplyAssumption
<1>1. /\ stage = "streaming" /\ stage' = stage /\ produced < MaxUnits
      /\ produced' = produced + 1 /\ first' = FALSE /\ greeting' = greeting
      /\ start' = start /\ tools' = tools /\ status' = status /\ sent' = sent
      /\ faults' = faults
  BY DEF TextBlock
<1>2. PICK w : w = Window(produced + 1)
  OBVIOUS
<1>3. messages' = messages \/ messages' = Edited(w)
  BY <1>2 DEF TextBlock
<1>4. w \in Message /\ Within(w, start, produced + 1) /\ Ascending(w)
  <2>1. PICK a \in Nat, b \in Nat :
          start <= a /\ a <= b /\ b <= produced + 1 /\ w = Text(a, b)
    <3>1. CASE first
      <4>1. PICK b : b = Least(produced + 1, start + Limit)
        OBVIOUS
      <4>2. b \in Nat /\ start <= b /\ b <= produced + 1
        BY <1>1, <4>1, Streaming DEF Least
      <4>3. w = Text(start, b)
        BY <1>2, <3>1, <4>1 DEF Window
      <4>4. QED
        BY <1>1, <4>2, <4>3, Streaming
    <3>2. CASE ~first
      <4>1. PICK a : a = IF (produced + 1) - start > Limit THEN (produced + 1) - Limit ELSE start
        OBVIOUS
      <4>2. a \in Nat /\ start <= a /\ a <= produced + 1
        BY <1>1, <4>1, Streaming
      <4>3. w = Text(a, produced + 1)
        BY <1>2, <3>2, <4>1 DEF Window
      <4>4. QED
        BY <1>1, <4>2, <4>3, Streaming
    <3>3. QED
      BY <3>1, <3>2
  <2>2. b <= MaxUnits /\ start \in Nat /\ produced \in Nat
    BY <1>1, <2>1, Streaming
  <2>3. w \in Message /\ Within(w, a, b) /\ Ascending(w)
    BY <2>1, <2>2, TextShape
  <2>4. Within(w, start, produced + 1)
    BY <2>1, <2>2, <2>3, WithinWider
  <2>5. QED
    BY <2>3, <2>4
<1>5. /\ messages' \in Seq(Message) /\ Len(messages') = status
      /\ \A i \in 1..(status - 1) : messages'[i] = messages[i]
      /\ Within(messages'[status], start, produced + 1)
      /\ Undisturbed => AsProduced(messages)'
  <2>1. CASE messages' = messages
    <3>1. Within(messages[status], start, produced + 1)
      <4>1. /\ messages[status] \in Message /\ start \in Nat /\ produced \in Nat
            /\ Within(messages[status], start, produced)
        BY <1>1, Streaming
      <4>2. QED
        BY <4>1, WithinWider
    <3>2. AsProduced(messages)' = AsProduced(messages)
      BY <2>1 DEF AsProduced
    <3>3. QED
      BY <1>1, <2>1, <3>1, <3>2, Streaming
  <2>2. CASE messages' = Edited(w)
    <3>1. produced + 1 \in Nat
      BY <1>1, Streaming
    <3>2. /\ Edited(w) \in Seq(Message) /\ Len(Edited(w)) = status
          /\ \A i \in 1..(status - 1) : Edited(w)[i] = messages[i]
          /\ Edited(w)[status] = w
          /\ Undisturbed => AsProduced(Edited(w))
      BY <1>1, <1>4, <3>1, SegmentEdited
    <3>3. PICK t : t = Edited(w)
      OBVIOUS
    <3>4. AsProduced(t) => AsProduced(messages)'
      BY <2>2, <3>3 DEF AsProduced
    <3>5. QED
      BY <1>4, <2>2, <3>2, <3>3, <3>4
  <2>3. QED
    BY <1>3, <2>1, <2>2
<1>6. ReplyTypeOK'
  <2>1. {produced', start', sent'} \subseteq 0..MaxUnits
    BY <1>1 DEF ReplyInv, ReplyTypeOK
  <2>2. status' \in 0..Len(messages')
    BY <1>1, <1>5, Streaming
  <2>3. first' \in BOOLEAN
    BY <1>1, Zenon
  <2>4. QED
    BY <1>1, <1>5, <2>1, <2>2, <2>3, Zenon DEF ReplyInv, ReplyTypeOK
<1>7. SegmentOpen'
  <2>1. start' <= produced' /\ status' > 0 /\ status' = Len(messages')
    BY <1>1, <1>5, Streaming
  <2>2. \A i \in 1..(status - 1) : Within(messages'[i], 0, start)
    BY <1>1, <1>5, Streaming
  <2>3. QED
    BY <1>1, <1>5, <2>1, <2>2 DEF SegmentOpen, Within
<1>8. OrderKept'
  BY <1>1, <1>5 DEF OrderKept, Undisturbed
<1>9. NoneMissing'
  BY <1>1, <1>5 DEF ReplyInv, NoneMissing, Shows
<1>10. OnlyText'
  BY <1>1, <1>5 DEF ReplyInv, OnlyText
<1>11. QED
  BY <1>6, <1>7, <1>8, <1>9, <1>10 DEF ReplyInv

\* A tool is used after text: what may be shown of the segment then.
LEMMA SegmentClosed ==
    ASSUME ReplyInv, stage = "streaming", start < produced, NEW edited \in BOOLEAN,
           NEW chat, NEW n, n = Least(produced, start + Limit),
           chat = IF edited THEN Edited(Text(start, n)) ELSE messages
    PROVE  /\ chat \in Seq(Message) /\ Len(chat) = status
           /\ \A i \in 1..(status - 1) : chat[i] = messages[i]
           /\ \A i \in 1..status : Within(chat[i], 0, produced)
           /\ Undisturbed => AsProduced(chat)
           /\ edited => chat[status].kind = "text"
           /\ edited /\ ~(n < produced) =>
                \A u \in (start + 1)..produced : Shows(chat[status], u)
<1> USE ReplyAssumption
<1>1. n \in Nat /\ start <= n /\ n <= produced
  BY Streaming DEF Least
<1>2. CASE edited
  <2>1. PICK w : w = Text(start, n)
    OBVIOUS
  <2>2. n <= MaxUnits /\ start \in Nat /\ produced \in Nat
    BY <1>1, Streaming
  <2>3. /\ w \in Message /\ w.kind = "text" /\ Within(w, start, n) /\ Ascending(w)
        /\ \A u \in (start + 1)..n : Shows(w, u)
    BY <1>1, <2>1, <2>2, TextShape
  <2>4. chat = Edited(w)
    BY <1>2, <2>1
  <2>5. /\ chat \in Seq(Message) /\ Len(chat) = status
        /\ \A i \in 1..(status - 1) : chat[i] = messages[i]
        /\ chat[status] = w /\ (Undisturbed => AsProduced(chat))
    BY <1>1, <2>3, <2>4, SegmentEdited
  <2>6. Within(w, 0, produced)
    BY <1>1, <2>2, <2>3, WithinWider
  <2>7. ASSUME NEW i \in 1..(status - 1)
        PROVE  Within(chat[i], 0, produced)
    <3>1. Within(messages[i], 0, start) /\ messages[i] \in Message
      BY Streaming
    <3>2. QED
      BY <2>2, <2>5, <3>1, WithinWider
  <2>8. \A i \in 1..status : i = status \/ i \in 1..(status - 1)
    BY Streaming
  <2>9. ~(n < produced) => n = produced
    BY <1>1, <2>2
  <2>10. QED
    BY <2>3, <2>5, <2>6, <2>7, <2>8, <2>9
<1>3. CASE ~edited
  <2>1. start \in Nat /\ produced \in Nat
    BY Streaming
  <2>2. ASSUME NEW i \in 1..status
        PROVE  Within(chat[i], 0, produced)
    <3>1. chat[i] = messages[i] /\ messages[i] \in Message
      BY <1>3, Streaming
    <3>2. CASE i = status
      <4>1. Within(messages[i], start, produced)
        BY <3>2, Streaming
      <4>2. QED
        BY <2>1, <3>1, <4>1, WithinWider
    <3>3. CASE i # status
      <4>1. i \in 1..(status - 1)
        BY <3>3, Streaming
      <4>2. Within(messages[i], 0, start) /\ start <= produced
        BY <4>1, Streaming
      <4>3. QED
        BY <2>1, <3>1, <4>2, WithinWider
    <3>4. QED
      BY <3>2, <3>3
  <2>3. QED
    BY <1>3, <2>2, Streaming
<1>4. QED
  BY <1>2, <1>3

\* A tool is used before or after text.
LEMMA ToolInv ==
    ASSUME ReplyInv, ToolUse
    PROVE  ReplyInv'
<1> USE ReplyAssumption
<1>1. /\ stage = "streaming" /\ greeting' = greeting /\ produced' = produced
      /\ sent' = sent /\ tools < MaxTools /\ tools' = tools + 1
  BY DEF ToolUse
<1>2. {produced', sent'} \subseteq 0..MaxUnits /\ tools' \in 0..MaxTools /\ greeting' \in BOOLEAN
  BY <1>1 DEF ReplyInv, ReplyTypeOK
<1>3. CASE produced = start
  <2>1. /\ stage' = stage /\ start' = start /\ first' = first /\ status' = status
        /\ faults' = faults /\ (messages' = messages \/ messages' = Edited(Busy))
    BY <1>3 DEF ToolUse
  <2>2. /\ messages' \in Seq(Message) /\ Len(messages') = status
        /\ \A i \in 1..(status - 1) : messages'[i] = messages[i]
        /\ Within(messages'[status], start, produced)
        /\ Undisturbed => AsProduced(messages)'
    <3>1. CASE messages' = messages
      <4>1. AsProduced(messages)' = AsProduced(messages)
        BY <3>1 DEF AsProduced
      <4>2. QED
        BY <1>1, <3>1, <4>1, Streaming
    <3>2. CASE messages' = Edited(Busy)
      <4>1. /\ Edited(Busy) \in Seq(Message) /\ Len(Edited(Busy)) = status
            /\ \A i \in 1..(status - 1) : Edited(Busy)[i] = messages[i]
            /\ Edited(Busy)[status] = Busy
            /\ Undisturbed => AsProduced(Edited(Busy))
        BY <1>1, Streaming, EmptyShape, SegmentEdited
      <4>2. PICK t : t = Edited(Busy)
        OBVIOUS
      <4>3. AsProduced(t) => AsProduced(messages)'
        BY <3>2, <4>2 DEF AsProduced
      <4>4. QED
        BY <3>2, <4>1, <4>2, <4>3, EmptyShape
    <3>3. QED
      BY <2>1, <3>1, <3>2
  <2>3. ReplyTypeOK'
    <3>1. status' \in 0..Len(messages')
      BY <1>1, <2>1, <2>2, Streaming
    <3>2. QED
      BY <1>1, <1>2, <2>1, <2>2, <3>1, Zenon DEF ReplyInv, ReplyTypeOK
  <2>4. SegmentOpen'
    <3>1. status' > 0 /\ \A i \in 1..(status - 1) : Within(messages'[i], 0, start)
      BY <1>1, <2>1, <2>2, Streaming
    <3>2. start <= produced
      BY <1>1, Streaming
    <3>3. QED
      BY <1>1, <2>1, <2>2, <3>1, <3>2 DEF SegmentOpen, Within
  <2>5. OrderKept'
    BY <2>1, <2>2 DEF OrderKept, Undisturbed
  <2>6. NoneMissing'
    BY <1>1, <2>1, <2>2 DEF ReplyInv, NoneMissing, Shows
  <2>7. OnlyText'
    BY <1>1, <2>1, <2>2 DEF ReplyInv, OnlyText
  <2>8. QED
    BY <2>3, <2>4, <2>5, <2>6, <2>7 DEF ReplyInv
<1>4. CASE produced # start
  <2>1. start < produced
    BY <1>1, <1>4, Streaming
  <2>2. PICK n : n = Least(produced, start + Limit)
    OBVIOUS
  <2>3. PICK cut : cut = IF n < produced THEN {"cut"} ELSE {}
    OBVIOUS
  <2>4. PICK edited \in BOOLEAN :
          LET chat == IF edited THEN Edited(Text(start, n)) ELSE messages IN
          \/ /\ messages' = Append(chat, Busy) /\ status' = Len(chat) + 1
             /\ start' = NextSegment /\ first' = TRUE
             /\ faults' = faults \cup cut \cup (IF edited THEN {} ELSE {"edit"})
             /\ UNCHANGED stage
          \/ /\ messages' \in {chat, Append(chat, Busy)} /\ stage' = "failing"
             /\ UNCHANGED <<start, first, status, faults>>
    BY <1>4, <2>2, <2>3 DEF ToolUse
  <2>5. PICK chat : chat = IF edited THEN Edited(Text(start, n)) ELSE messages
    OBVIOUS
  <2>6. /\ chat \in Seq(Message) /\ Len(chat) = status
        /\ \A i \in 1..(status - 1) : chat[i] = messages[i]
        /\ \A i \in 1..status : Within(chat[i], 0, produced)
        /\ Undisturbed => AsProduced(chat)
        /\ edited => chat[status].kind = "text"
        /\ edited /\ ~(n < produced) =>
             \A u \in (start + 1)..produced : Shows(chat[status], u)
    BY <1>1, <2>1, <2>2, <2>5, SegmentClosed
  <2>7. PICK t : t = Append(chat, Busy)
    OBVIOUS
  <2>8. /\ t \in Seq(Message) /\ Len(t) = status + 1
        /\ \A i \in 1..status : t[i] = chat[i]
        /\ t[status + 1] = Busy
    BY <1>1, <2>6, <2>7, ChatAppended, EmptyShape, Streaming
  <2>9. Undisturbed => AsProduced(t)
    <3>1. DOMAIN chat = 1..status /\ produced \in Nat
      BY <1>1, <2>6, Streaming
    <3>2. QED
      BY <2>6, <2>7, <3>1, EmptyShape, OrderAppended
  <2>10. CASE /\ messages' = t /\ status' = status + 1 /\ start' = produced
              /\ first' = TRUE /\ stage' = stage
              /\ faults' = faults \cup cut \cup (IF edited THEN {} ELSE {"edit"})
    <3>1. ReplyTypeOK'
      <4>1. start' \in 0..MaxUnits /\ stage' = "streaming"
        BY <1>1, <1>2, <2>10
      <4>2. status' \in 0..Len(messages')
        BY <1>1, <2>8, <2>10, Streaming
      <4>3. faults' \subseteq {"cut", "edit", "delete", "send"}
        BY <2>3, <2>10 DEF ReplyInv, ReplyTypeOK
      <4>4. first' \in BOOLEAN
        BY <2>10, Zenon
      <4>5. {produced', start', sent'} \subseteq 0..MaxUnits
        BY <1>2, <4>1
      <4>6. QED
        BY <1>2, <2>8, <2>10, <4>1, <4>2, <4>3, <4>4, <4>5, Zenon DEF ReplyTypeOK
    <3>2. SegmentOpen'
      <4>1. status' - 1 = status /\ status' > 0
        BY <1>1, <2>10, Streaming
      <4>2. \A i \in 1..status : Within(t[i], 0, produced)
        BY <2>6, <2>8
      <4>3. Within(t[status + 1], produced, produced)
        BY <2>8, EmptyShape
      <4>4. start' <= produced'
        BY <1>1, <2>10, Streaming
      <4>5. QED
        BY <1>1, <2>8, <2>10, <4>1, <4>2, <4>3, <4>4 DEF SegmentOpen, Within
    <3>3. OrderKept'
      <4>1. Undisturbed' => Undisturbed
        BY <2>10 DEF Undisturbed
      <4>2. AsProduced(t) => AsProduced(messages)'
        BY <2>10 DEF AsProduced
      <4>3. QED
        BY <2>9, <4>1, <4>2 DEF OrderKept
    <3>4. NoneMissing'
      <4> SUFFICES ASSUME faults' = {}, NEW u \in 1..produced
                   PROVE  \E i \in 1..status : Shows(t[i], u)
        <5>1. status' - 1 = status
          BY <1>1, <2>10, Streaming
        <5>2. QED
          BY <1>1, <2>10, <5>1 DEF NoneMissing, Shows
      <4>1. faults = {} /\ edited /\ ~(n < produced)
        BY <2>3, <2>10
      <4>2. CASE u \in 1..start
        <5>1. PICK i \in 1..(status - 1) : Shows(messages[i], u)
          BY <1>1, <4>1, <4>2 DEF ReplyInv, NoneMissing
        <5>2. i \in 1..status
          BY <1>1, Streaming
        <5>3. t[i] = messages[i]
          BY <2>6, <2>8, <5>2
        <5>4. QED
          BY <5>1, <5>2, <5>3
      <4>3. CASE u \notin 1..start
        <5>1. u \in (start + 1)..produced /\ status \in 1..status
          BY <1>1, <4>3, Streaming
        <5>2. Shows(chat[status], u)
          BY <2>6, <4>1, <5>1
        <5>3. QED
          BY <2>8, <5>1, <5>2
      <4>4. QED
        BY <4>2, <4>3
    <3>5. OnlyText'
      <4> SUFFICES ASSUME faults' \cap {"delete", "edit"} = {}, NEW i \in 1..status
                   PROVE  t[i].kind = "text"
        <5>1. status' - 1 = status
          BY <1>1, <2>10, Streaming
        <5>2. QED
          BY <1>1, <2>10, <5>1 DEF OnlyText
      <4>1. faults \cap {"delete", "edit"} = {} /\ edited
        BY <2>10
      <4>2. CASE i = status
        BY <2>6, <2>8, <4>1, <4>2
      <4>3. CASE i \in 1..(status - 1)
        BY <1>1, <2>6, <2>8, <4>1, <4>3 DEF ReplyInv, OnlyText
      <4>4. QED
        BY <1>1, <4>2, <4>3, Streaming
    <3>6. QED
      BY <3>1, <3>2, <3>3, <3>4, <3>5 DEF ReplyInv
  <2>11. CASE /\ messages' \in {chat, t} /\ stage' = "failing" /\ start' = start
              /\ first' = first /\ status' = status /\ faults' = faults
    <3>1. messages' \in Seq(Message) /\ status \in 0..Len(messages')
      BY <1>1, <2>6, <2>8, <2>11, Streaming
    <3>2. ReplyTypeOK'
      BY <1>1, <1>2, <2>11, <3>1, Zenon DEF ReplyInv, ReplyTypeOK
    <3>3. SegmentOpen'
      BY <1>1, <2>11 DEF ReplyInv, SegmentOpen
    <3>4. OrderKept'
      <4>1. PICK m \in {chat, t} : messages' = m
        BY <2>11
      <4>2. AsProduced(m) => AsProduced(messages)'
        BY <4>1 DEF AsProduced
      <4>3. QED
        BY <2>6, <2>9, <2>11, <4>1, <4>2 DEF OrderKept, Undisturbed
    <3>5. NoneMissing' /\ OnlyText'
      BY <2>11 DEF NoneMissing, OnlyText
    <3>6. QED
      BY <3>2, <3>3, <3>4, <3>5 DEF ReplyInv
  <2>12. QED
    BY <2>4, <2>5, <2>6, <2>7, <2>10, <2>11 DEF NextSegment
<1>5. QED
  BY <1>3, <1>4

\* The status message is deleted, or stays because that failed.
LEMMA Deleted ==
    ASSUME ReplyInv, stage = "streaming", Delete
    PROVE  /\ messages' \in Seq(Message) /\ status' \in 0..Len(messages')
           /\ faults' \subseteq {"cut", "edit", "delete", "send"}
           /\ \/ "delete" \in faults' /\ faults' = faults \cup {"delete"}
              \/ /\ faults' = faults /\ Len(messages') = status - 1 /\ status' = 0
                 /\ \A i \in 1..(status - 1) : messages'[i] = messages[i]
                 /\ Undisturbed => AsProduced(messages)'
<1>1. CASE messages' = RemoveAt(messages, status) /\ status' = 0 /\ UNCHANGED faults
  <2>1. PICK s, n : n = status - 1 /\ s = SubSeq(messages, 1, n)
    OBVIOUS
  <2>2. /\ messages' = s /\ s \in Seq(Message) /\ Len(s) = n
        /\ \A i \in 1..n : s[i] = messages[i]
    BY <1>1, <2>1, LastRemoved, Streaming, ZenonT(60)
  <2>3. Undisturbed => AsProduced(messages)'
    <3>1. n \in 0..Len(messages)
      BY <2>1, Streaming
    <3>2. Undisturbed => AsProduced(s)
      BY <2>1, <3>1, OrderPrefix, Streaming
    <3>3. AsProduced(s) => AsProduced(messages)'
      BY <2>2 DEF AsProduced
    <3>4. QED
      BY <3>2, <3>3
  <2>4. 0 \in 0..Len(messages')
    BY <2>2
  <2>5. QED
    BY <1>1, <2>1, <2>2, <2>3, <2>4 DEF ReplyInv, ReplyTypeOK
<1>2. CASE UNCHANGED <<messages, status>> /\ faults' = faults \cup {"delete"}
  BY <1>2 DEF ReplyInv, ReplyTypeOK
<1>3. QED
  BY <1>1, <1>2 DEF Delete

\* The answer ends: without text, with a tool, with a short or a long segment.
LEMMA EndInv ==
    ASSUME ReplyInv, EndSilent \/ EndWithTool \/ EndWithEdit \/ EndWithChunks
    PROVE  ReplyInv'
<1> USE ReplyAssumption
<1>1. /\ stage = "streaming" /\ greeting' = greeting /\ produced' = produced
      /\ start' = start /\ tools' = tools /\ first' = first
      /\ (sent' = sent \/ sent' = start)
  BY DEF EndSilent, EndWithTool, EndWithEdit, EndWithChunks
<1>2. {produced', start', sent'} \subseteq 0..MaxUnits
  BY <1>1 DEF ReplyInv, ReplyTypeOK
<1>3. ASSUME Delete, stage' \in {"silent", "done", "sending"},
             stage' = "done" => produced = start,
             stage' = "sending" => sent' = start
      PROVE  ReplyInv'
  <2>1. /\ messages' \in Seq(Message) /\ status' \in 0..Len(messages')
        /\ faults' \subseteq {"cut", "edit", "delete", "send"}
        /\ \/ "delete" \in faults' /\ faults' = faults \cup {"delete"}
           \/ /\ faults' = faults /\ Len(messages') = status - 1 /\ status' = 0
              /\ \A i \in 1..(status - 1) : messages'[i] = messages[i]
              /\ Undisturbed => AsProduced(messages)'
    BY <1>1, <1>3, Deleted
  <2>2. ReplyTypeOK'
    <3>1. stage' \in {"streaming", "sending", "failing", "done", "silent", "failed"}
      BY <1>3
    <3>2. QED
      BY <1>1, <1>2, <2>1, <3>1, Zenon DEF ReplyInv, ReplyTypeOK
  <2>3. CASE "delete" \in faults'
    <3>1. start' <= produced'
      BY <1>1, Streaming
    <3>2. stage' = "sending" => start' <= sent' /\ sent' <= produced'
      BY <1>1, <1>3, Streaming
    <3>3. SegmentOpen'
      BY <1>3, <2>3, <3>1, <3>2 DEF SegmentOpen, Undisturbed
    <3>4. OrderKept' /\ NoneMissing' /\ OnlyText'
      BY <2>3 DEF OrderKept, NoneMissing, OnlyText, Undisturbed
    <3>5. QED
      BY <2>2, <3>3, <3>4 DEF ReplyInv
  <2>4. CASE /\ faults' = faults /\ Len(messages') = status - 1
             /\ \A i \in 1..(status - 1) : messages'[i] = messages[i]
             /\ Undisturbed => AsProduced(messages)'
    <3>1. DOMAIN messages' = 1..(status - 1)
      BY <2>1, <2>4
    <3>2. SegmentOpen'
      <4>1. start' <= produced'
        BY <1>1, Streaming
      <4>2. \A i \in 1..(status - 1) : Within(messages'[i], 0, start)
        BY <1>1, <2>4, Streaming
      <4>3. stage' = "sending" => start' <= sent' /\ sent' <= produced'
        BY <1>1, <1>3, Streaming
      <4>4. QED
        BY <1>3, <3>1, <4>1, <4>2, <4>3 DEF SegmentOpen, Within
    <3>3. OrderKept'
      BY <2>4 DEF OrderKept, Undisturbed
    <3>4. NoneMissing'
      <4> SUFFICES ASSUME faults = {}
                   PROVE  NoneMissing'
        BY <2>4 DEF NoneMissing
      <4>1. \A u \in 1..start : \E i \in DOMAIN messages' : Shows(messages'[i], u)
        <5>1. \A u \in 1..start : \E i \in 1..(status - 1) : Shows(messages[i], u)
          BY <1>1 DEF ReplyInv, NoneMissing
        <5>2. QED
          BY <2>4, <3>1, <5>1
      <4>2. \A i \in DOMAIN messages' : Within(messages'[i], 0, start)
        BY <1>1, <2>4, <3>1, Streaming
      <4>3. QED
        BY <1>1, <1>3, <4>1, <4>2 DEF NoneMissing, Shows, Within
    <3>5. OnlyText'
      <4> SUFFICES ASSUME faults \cap {"delete", "edit"} = {}
                   PROVE  OnlyText'
        BY <2>4 DEF OnlyText
      <4>1. \A i \in 1..(status - 1) : messages[i].kind = "text"
        BY <1>1 DEF ReplyInv, OnlyText
      <4>2. QED
        BY <1>3, <2>4, <3>1, <4>1 DEF OnlyText
    <3>6. QED
      BY <2>2, <3>2, <3>3, <3>4, <3>5 DEF ReplyInv
  <2>5. QED
    BY <2>1, <2>3, <2>4
<1>4. CASE EndSilent
  BY <1>3, <1>4 DEF EndSilent
<1>5. CASE EndWithTool
  BY <1>3, <1>5 DEF EndWithTool, DropStatus
<1>6. ASSUME start < produced, messages' = Edited(Text(start, produced)), status' = status,
             \/ stage' = "done" /\ faults' = faults
             \/ stage' = "sending" /\ faults' = faults \cup {"delete"} /\ sent' = start
      PROVE  ReplyInv'
  <2>1. PICK w, t : w = Text(start, produced) /\ t = Edited(w)
    OBVIOUS
  <2>2. /\ start \in Nat /\ produced \in Nat /\ produced <= MaxUnits
    BY <1>1, Streaming
  <2>3. /\ w \in Message /\ w.kind = "text" /\ Within(w, start, produced) /\ Ascending(w)
        /\ \A u \in (start + 1)..produced : Shows(w, u)
    BY <2>1, <2>2, TextShape
  <2>4. /\ t \in Seq(Message) /\ Len(t) = status /\ messages' = t
        /\ \A i \in 1..(status - 1) : t[i] = messages[i]
        /\ t[status] = w
        /\ Undisturbed => AsProduced(t)
    BY <1>1, <1>6, <2>1, <2>2, <2>3, SegmentEdited
  <2>5. ReplyTypeOK'
    <3>1. stage' \in {"streaming", "sending", "failing", "done", "silent", "failed"}
      BY <1>6
    <3>2. faults' \subseteq {"cut", "edit", "delete", "send"}
      BY <1>6 DEF ReplyInv, ReplyTypeOK
    <3>3. status' \in 0..Len(messages')
      BY <1>1, <1>6, <2>4, Streaming
    <3>4. QED
      BY <1>1, <1>2, <2>4, <3>1, <3>2, <3>3, Zenon DEF ReplyInv, ReplyTypeOK
  <2>6. SegmentOpen'
    BY <1>1, <1>6, Streaming, SMTT(30) DEF SegmentOpen, Undisturbed
  <2>7. OrderKept'
    <3>1. Undisturbed' => Undisturbed
      BY <1>6 DEF Undisturbed
    <3>2. AsProduced(t) => AsProduced(messages)'
      BY <2>4 DEF AsProduced
    <3>3. QED
      BY <2>4, <3>1, <3>2 DEF OrderKept
  <2>8. DOMAIN t = 1..status /\ \A i \in 1..status : i = status \/ i \in 1..(status - 1)
    BY <1>1, <2>4, Streaming
  <2>9. NoneMissing'
    <3> SUFFICES ASSUME faults' = {}
                 PROVE  NoneMissing'
      BY DEF NoneMissing
    <3>1. faults = {} /\ stage' = "done"
      BY <1>6
    <3>2. ASSUME NEW u \in 1..produced
          PROVE  \E i \in DOMAIN t : Shows(t[i], u)
      <4>1. CASE u \in 1..start
        <5>1. PICK i \in 1..(status - 1) : Shows(messages[i], u)
          BY <1>1, <3>1, <4>1 DEF ReplyInv, NoneMissing
        <5>2. i \in DOMAIN t
          BY <1>1, <2>8, Streaming
        <5>3. QED
          BY <2>4, <5>1, <5>2
      <4>2. CASE u \notin 1..start
        <5>1. u \in (start + 1)..produced /\ status \in DOMAIN t
          BY <1>1, <2>2, <2>8, <4>2, Streaming
        <5>2. QED
          BY <2>3, <2>4, <5>1
      <4>3. QED
        BY <4>1, <4>2
    <3>3. ASSUME NEW i \in DOMAIN t
          PROVE  Within(t[i], 0, produced)
      <4>1. CASE i = status
        BY <2>2, <2>3, <2>4, <4>1, WithinWider
      <4>2. CASE i \in 1..(status - 1)
        <5>1. Within(messages[i], 0, start) /\ messages[i] \in Message
          BY <1>1, <4>2, Streaming
        <5>2. Within(messages[i], 0, produced)
          <6>1. start <= produced
            BY <1>6, <2>2
          <6>2. QED
            BY <2>2, <5>1, <6>1, Units DEF Within
        <5>3. t[i] = messages[i]
          BY <2>4, <4>2
        <5>4. QED
          BY <5>2, <5>3
      <4>3. QED
        BY <2>8, <4>1, <4>2
    <3>4. QED
      BY <1>1, <2>4, <3>1, <3>2, <3>3 DEF NoneMissing, Shows, Within
  <2>10. OnlyText'
    <3> SUFFICES ASSUME faults' \cap {"delete", "edit"} = {}
                 PROVE  OnlyText'
      BY DEF OnlyText
    <3>1. faults \cap {"delete", "edit"} = {} /\ stage' = "done"
      BY <1>6
    <3>2. \A i \in 1..(status - 1) : messages[i].kind = "text"
      BY <1>1, <3>1 DEF ReplyInv, OnlyText
    <3>3. \A i \in DOMAIN t : t[i].kind = "text"
      BY <2>3, <2>4, <2>8, <3>2
    <3>4. QED
      BY <2>4, <3>1, <3>3 DEF OnlyText
  <2>11. QED
    BY <2>5, <2>6, <2>7, <2>9, <2>10 DEF ReplyInv
<1>7. CASE EndWithEdit
  BY <1>6, <1>7 DEF EndWithEdit
<1>8. CASE EndWithChunks
  <2>1. CASE Delete
    BY <1>3, <1>8, <2>1 DEF EndWithChunks
  <2>2. CASE ~Delete
    BY <1>6, <1>8, <2>2 DEF EndWithChunks
  <2>3. QED
    BY <2>1, <2>2
<1>9. QED
  BY <1>4, <1>5, <1>7, <1>8

\* A chunk is sent, once, twice or not at all.
LEMMA ChunkInv ==
    ASSUME ReplyInv, SendChunk
    PROVE  ReplyInv'
<1> USE ReplyAssumption
<1>1. /\ stage = "sending" /\ sent < produced
      /\ greeting' = greeting /\ produced' = produced /\ start' = start
      /\ tools' = tools /\ first' = first /\ status' = status
  BY DEF SendChunk
<1>2. /\ messages \in Seq(Message) /\ Len(messages) \in Nat /\ status \in 0..Len(messages)
      /\ {produced, start, sent} \subseteq 0..MaxUnits
      /\ start <= sent
      /\ faults \subseteq {"cut", "edit", "delete", "send"}
      /\ Undisturbed => \A i \in DOMAIN messages : Within(messages[i], 0, sent)
  BY <1>1 DEF ReplyInv, ReplyTypeOK, SegmentOpen
<1>3. PICK n : n = ChunkEnd(sent)
  OBVIOUS
<1>4. n \in Nat /\ sent \in Nat /\ sent <= n /\ n <= produced /\ n <= MaxUnits
  BY <1>1, <1>2, <1>3 DEF ChunkEnd, Least
<1>5. PICK copies \in 0..2 :
         /\ messages' = messages \o [i \in 1..copies |-> Text(sent, n)]
         /\ \/ /\ copies > 0 /\ sent' = n /\ stage' = stage
               /\ faults' = IF copies = 2 THEN faults \cup {"send"} ELSE faults
            \/ /\ copies = 0 /\ sent' = n /\ stage' = stage /\ faults' = faults \cup {"send"}
            \/ /\ stage' = "failing" /\ sent' = sent /\ faults' = faults \cup {"send"}
  BY <1>3 DEF SendChunk
<1>6. PICK m : m = Text(sent, n)
  OBVIOUS
<1>7. /\ m \in Message /\ m.kind = "text" /\ Within(m, sent, n) /\ Ascending(m)
      /\ \A u \in (sent + 1)..n : Shows(m, u)
  BY <1>4, <1>6, TextShape
<1>8. PICK new : new = [i \in 1..copies |-> m]
  OBVIOUS
<1>9. new \in Seq(Message) /\ Len(new) = copies /\ \A i \in 1..copies : new[i] = m
  <2>1. copies \in Nat /\ new \in [1..copies -> Message]
    BY <1>7, <1>8
  <2>2. QED
    BY <1>8, <2>1
<1>10. /\ messages' \in Seq(Message) /\ Len(messages') = Len(messages) + copies
       /\ \A i \in 1..Len(messages') : messages'[i] = IF i <= Len(messages) THEN messages[i] ELSE m
  <2>1. messages' = messages \o new
    BY <1>5, <1>6, <1>8
  <2>2. /\ messages' \in Seq(Message) /\ Len(messages') = Len(messages) + Len(new)
        /\ \A i \in 1..(Len(messages) + Len(new)) :
             messages'[i] = IF i <= Len(messages) THEN messages[i] ELSE new[i - Len(messages)]
    BY <1>2, <1>9, <2>1, ConcatProperties
  <2>3. ASSUME NEW i \in 1..(Len(messages) + copies), ~(i <= Len(messages))
        PROVE  new[i - Len(messages)] = m
    <3>1. i - Len(messages) \in 1..copies
      BY <1>2, <2>3
    <3>2. QED
      BY <1>9, <3>1
  <2>4. QED
    BY <1>9, <2>2, <2>3
<1>11. ReplyTypeOK'
  <2>1. {produced', start', sent'} \subseteq 0..MaxUnits
    BY <1>1, <1>2, <1>4, <1>5
  <2>2. stage' \in {"streaming", "sending", "failing", "done", "silent", "failed"}
    BY <1>1, <1>5
  <2>3. faults' \subseteq {"cut", "edit", "delete", "send"}
    BY <1>2, <1>5
  <2>4. status' \in 0..Len(messages')
    BY <1>1, <1>2, <1>10
  <2>5. QED
    BY <1>1, <1>10, <2>1, <2>2, <2>3, <2>4, Zenon DEF ReplyInv, ReplyTypeOK
<1>12. OnlyText'
  <2> SUFFICES ASSUME faults' \cap {"delete", "edit"} = {}, stage' = "sending",
                      NEW i \in DOMAIN messages'
               PROVE  messages'[i].kind = "text"
    BY <1>1, <1>5 DEF OnlyText
  <2>1. faults \cap {"delete", "edit"} = {}
    BY <1>5
  <2>2. \A k \in 1..Len(messages) : messages[k].kind = "text"
    BY <1>1, <1>2, <2>1 DEF ReplyInv, OnlyText
  <2>3. i \in 1..Len(messages')
    BY <1>10
  <2>4. i <= Len(messages) => i \in 1..Len(messages)
    BY <2>3
  <2>5. QED
    BY <1>7, <1>10, <2>2, <2>3, <2>4
<1>13. start' <= produced' /\ (stage' = "sending" => start' <= sent' /\ sent' <= produced')
  BY <1>1, <1>2, <1>4, <1>5
<1>14. CASE "send" \in faults'
  <2>1. SegmentOpen'
    BY <1>1, <1>5, <1>13, <1>14 DEF SegmentOpen, Undisturbed
  <2>2. OrderKept' /\ NoneMissing'
    BY <1>14 DEF OrderKept, NoneMissing, Undisturbed
  <2>3. QED
    BY <1>11, <1>12, <2>1, <2>2 DEF ReplyInv
<1>15. CASE "send" \notin faults'
  <2>1. copies = 1 /\ sent' = n /\ stage' = "sending" /\ faults' = faults
    BY <1>1, <1>5, <1>15
  <2>2. /\ DOMAIN messages' = 1..(Len(messages) + 1)
        /\ \A i \in 1..Len(messages) : messages'[i] = messages[i]
        /\ messages'[Len(messages) + 1] = m
    BY <1>2, <1>10, <2>1
  <2>3. \A i \in 1..(Len(messages) + 1) : i \in 1..Len(messages) \/ i = Len(messages) + 1
    BY <1>2
  <2>4. DOMAIN messages = 1..Len(messages)
    BY <1>2
  <2>5. SegmentOpen'
    <3> SUFFICES ASSUME Undisturbed, NEW i \in DOMAIN messages'
                 PROVE  Within(messages'[i], 0, n)
      BY <1>1, <1>13, <2>1 DEF SegmentOpen, Undisturbed, Within
    <3>1. CASE i \in 1..Len(messages)
      <4>1. messages[i] \in Message /\ Within(messages[i], 0, sent)
        BY <1>2, <2>4, <3>1
      <4>2. Within(messages[i], 0, n)
        BY <1>4, <4>1, WithinWider
      <4>3. messages'[i] = messages[i]
        BY <2>2, <3>1
      <4>4. QED
        BY <4>2, <4>3
    <3>2. CASE i = Len(messages) + 1
      BY <1>4, <1>7, <2>2, <3>2, WithinWider
    <3>3. QED
      BY <2>2, <2>3, <3>1, <3>2
  <2>6. OrderKept'
    <3> SUFFICES ASSUME Undisturbed
                 PROVE  AsProduced(messages)'
      BY <2>1 DEF OrderKept, Undisturbed
    <3>1. PICK t : t = Append(messages, m)
      OBVIOUS
    <3>2. messages' = t
      <4>1. /\ t \in Seq(Message) /\ Len(t) = Len(messages) + 1
            /\ \A i \in 1..Len(messages) : t[i] = messages[i]
            /\ t[Len(messages) + 1] = m
        BY <1>2, <1>7, <3>1, ChatAppended
      <4>2. \A i \in 1..Len(t) : t[i] = messages'[i]
        BY <2>2, <2>3, <4>1
      <4>3. QED
        BY <1>10, <2>1, <4>1, <4>2, SeqEqual
    <3>3. AsProduced(messages)
      BY DEF ReplyInv, OrderKept
    <3>4. AsProduced(t)
      BY <1>2, <1>4, <1>7, <3>1, <3>3, OrderAppended
    <3>5. QED
      BY <3>2, <3>4 DEF AsProduced
  <2>7. NoneMissing'
    <3> SUFFICES ASSUME faults = {}, NEW u \in 1..n
                 PROVE  \E i \in DOMAIN messages' : Shows(messages'[i], u)
      BY <2>1 DEF NoneMissing, Shows
    <3>1. CASE u \in 1..sent
      <4>1. PICK i \in DOMAIN messages : Shows(messages[i], u)
        BY <1>1, <3>1 DEF ReplyInv, NoneMissing
      <4>2. i \in 1..Len(messages) /\ i \in DOMAIN messages'
        BY <1>2, <2>2, <2>4
      <4>3. QED
        BY <2>2, <4>1, <4>2
    <3>2. CASE u \notin 1..sent
      <4>1. u \in (sent + 1)..n /\ Len(messages) + 1 \in DOMAIN messages'
        BY <1>2, <1>4, <2>2, <3>2
      <4>2. QED
        BY <1>7, <2>2, <4>1
    <3>3. QED
      BY <3>1, <3>2
  <2>8. QED
    BY <1>11, <1>12, <2>5, <2>6, <2>7 DEF ReplyInv
<1>16. QED
  BY <1>14, <1>15

\* The last chunk is sent; Claude fails; the failure is shown or not.
LEMMA LastInv ==
    ASSUME ReplyInv, EndSending \/ ClaudeFails \/ ReportError
    PROVE  ReplyInv'
<1> USE ReplyAssumption
<1>1. /\ greeting' = greeting /\ produced' = produced /\ start' = start /\ tools' = tools
      /\ first' = first /\ status' = status /\ sent' = sent /\ faults' = faults
      /\ stage' \in {"done", "failing", "failed"}
  BY DEF EndSending, ClaudeFails, ReportError
<1>2. CASE messages' = messages
  <2>1. ReplyTypeOK'
    BY <1>1, <1>2 DEF ReplyInv, ReplyTypeOK
  <2>2. SegmentOpen'
    BY <1>1 DEF ReplyInv, SegmentOpen
  <2>3. OrderKept'
    BY <1>1, <1>2 DEF ReplyInv, OrderKept, Undisturbed, AsProduced
  <2>4. stage' = "done" => stage = "sending" /\ sent = produced
    BY DEF EndSending, ClaudeFails, ReportError
  <2>5. NoneMissing'
    <3> SUFFICES ASSUME faults = {}, stage' = "done"
                 PROVE  NoneMissing'
      BY <1>1 DEF NoneMissing
    <3>1. \A u \in 1..produced : \E i \in DOMAIN messages : Shows(messages[i], u)
      BY <2>4 DEF ReplyInv, NoneMissing
    <3>2. \A i \in DOMAIN messages : Within(messages[i], 0, produced)
      BY <2>4 DEF ReplyInv, SegmentOpen, Undisturbed
    <3>3. QED
      BY <1>1, <1>2, <3>1, <3>2 DEF NoneMissing, Shows, Within
  <2>6. OnlyText'
    BY <1>1, <1>2, <2>4 DEF ReplyInv, OnlyText
  <2>7. QED
    BY <2>1, <2>2, <2>3, <2>5, <2>6 DEF ReplyInv
<1>3. CASE messages' # messages
  <2>1. stage' = "failed" /\ status > 0 /\ messages' = Edited(Failed)
    BY <1>3 DEF EndSending, ClaudeFails, ReportError
  <2>2. messages \in Seq(Message) /\ status \in 1..Len(messages)
    BY <2>1 DEF ReplyInv, ReplyTypeOK
  <2>3. PICK t : t = [messages EXCEPT ![status] = Failed]
    OBVIOUS
  <2>4. /\ t \in Seq(Message) /\ Len(t) = Len(messages) /\ messages' = t
        /\ \A i \in 1..Len(messages) : t[i] = IF i = status THEN Failed ELSE messages[i]
    BY <2>1, <2>2, <2>3, EmptyShape, ExceptSeq DEF Edited
  <2>5. ReplyTypeOK'
    BY <1>1, <2>2, <2>4, Zenon DEF ReplyInv, ReplyTypeOK
  <2>6. SegmentOpen' /\ NoneMissing' /\ OnlyText'
    BY <1>1, <2>1 DEF ReplyInv, SegmentOpen, NoneMissing, OnlyText
  <2>7. OrderKept'
    <3>1. AsProduced(messages) => AsProduced(t)
      <4>1. DOMAIN t = 1..Len(messages) /\ DOMAIN messages = 1..Len(messages)
        BY <2>2, <2>4
      <4>2. \A i \in 1..Len(messages) :
               DOMAIN t[i].units = {} \/ t[i] = messages[i]
        BY <2>4 DEF Failed
      <4>3. QED
        BY <4>1, <4>2 DEF AsProduced
    <3>2. AsProduced(t) => AsProduced(messages)'
      BY <2>4 DEF AsProduced
    <3>3. QED
      BY <1>1, <3>1, <3>2 DEF ReplyInv, OrderKept, Undisturbed
  <2>8. QED
    BY <2>5, <2>6, <2>7 DEF ReplyInv
<1>4. QED
  BY <1>2, <1>3

\* Every step of the turn.
LEMMA ReplyKept == ReplyInv /\ [ReplyNext]_replyVars => ReplyInv'
<1> SUFFICES ASSUME ReplyInv, [ReplyNext]_replyVars
             PROVE  ReplyInv'
  OBVIOUS
<1>1. CASE ReplyNext
  BY <1>1, BlockInv, ToolInv, EndInv, ChunkInv, LastInv DEF ReplyNext
<1>2. CASE UNCHANGED replyVars
  BY <1>2, SMTT(30) DEF replyVars, ReplyInv, ReplyTypeOK, SegmentOpen, OrderKept, NoneMissing, OnlyText,
     Undisturbed, AsProduced, Within, Shows
<1>3. QED
  BY <1>1, <1>2

\* The chat is in order, and what is above the status message is complete.
THEOREM ReplyInductive == ReplySpec => []ReplyInv
BY ReplyStart, ReplyKept, PTL DEF ReplySpec

\* When the turn is done, the chat holds the whole answer, once and in order,
\* and nothing but text, unless a call of Telegram failed or a segment was cut.
THEOREM AnswerIsShown == ReplySpec => []AnswerShown
<1>1. ReplyInv => AnswerShown
  <2> SUFFICES ASSUME ReplyInv
               PROVE  AnswerShown
    OBVIOUS
  <2>1. ASSUME stage = "done", faults = {}
        PROVE  /\ AsProduced(messages)
               /\ \A u \in 1..MaxUnits :
                     u <= produced <=> \E i \in DOMAIN messages : Shows(messages[i], u)
    <3>1. /\ \A u \in 1..produced : \E i \in DOMAIN messages : Shows(messages[i], u)
          /\ \A i \in DOMAIN messages : Within(messages[i], 0, produced)
      BY <2>1 DEF ReplyInv, NoneMissing
    <3>2. produced \in Nat
      BY ReplyAssumption DEF ReplyInv, ReplyTypeOK
    <3>3. ASSUME NEW u \in 1..MaxUnits
          PROVE  u <= produced <=> \E i \in DOMAIN messages : Shows(messages[i], u)
      <4>1. u <= produced => u \in 1..produced
        BY ReplyAssumption, <3>2
      <4>2. QED
        BY <3>1, <4>1 DEF Shows, Within
    <3>4. AsProduced(messages)
      BY <2>1 DEF ReplyInv, OrderKept, Undisturbed
    <3>5. QED
      BY <3>3, <3>4
  <2>2. QED
    BY <2>1 DEF AnswerShown, ReplyInv, OnlyText
<1>2. QED
  BY <1>1, ReplyInductive, PTL

\* No unit of the answer is in two places of the chat, at any time, unless a send
\* or a delete failed.
THEOREM NothingIsTwice == ReplySpec => []NothingTwice
<1>1. ReplyInv => NothingTwice
  <2> SUFFICES ASSUME ReplyInv, Undisturbed,
                      NEW i \in DOMAIN messages, NEW j \in DOMAIN messages,
                      NEW k \in DOMAIN messages[i].units, NEW l \in DOMAIN messages[j].units,
                      messages[i].units[k] = messages[j].units[l]
               PROVE  i = j /\ k = l
    BY DEF NothingTwice, Undisturbed
  <2>1. messages \in Seq(Message) /\ AsProduced(messages)
    BY DEF ReplyInv, ReplyTypeOK, OrderKept
  <2>2. i \in Nat /\ j \in Nat /\ messages[i] \in Message /\ messages[j] \in Message
    BY <2>1
  <2>3. k \in Nat /\ l \in Nat /\ messages[i].units[k] \in Int
    BY <2>2, Units
  <2>4. ~(i < j \/ (i = j /\ k < l)) /\ ~(j < i \/ (j = i /\ l < k))
    BY <2>1, <2>3 DEF AsProduced
  <2>5. QED
    BY <2>2, <2>3, <2>4
<1>2. QED
  BY <1>1, ReplyInductive, PTL
=============================================================================
