----------------------------- MODULE ReplyStream -----------------------------
(***************************************************************************)
(* How an answer of Claude becomes Telegram messages: _stream_text,        *)
(* _on_tool_use, _finalize_stream and _run_claude_and_stream in            *)
(* bot/bridge/telegram.py.  A status message is edited while the text      *)
(* grows; a tool use closes it and opens another one; the end edits the    *)
(* last one, or deletes it and sends the text in chunks.  Every call of    *)
(* Telegram may fail, and one that failed may have been carried out.       *)
(*                                                                         *)
(* The text is a sequence of units, known by their position; a segment is  *)
(* what stands between two uses of tools (accumulated in the code).        *)
(***************************************************************************)
EXTENDS Naturals, Sequences, SequencesExt

CONSTANTS Limit,    \* units in one message (4096 characters)
          MaxUnits, \* bound: units of one answer
          MaxTools  \* bound: uses of tools

ASSUME ReplyAssumption == Limit \in Nat \ {0} /\ MaxUnits \in Nat /\ MaxTools \in Nat

VARIABLES
    greeting,  \* the turn is the greeting, without an update to reply to
    stage,     \* of the turn
    produced,  \* units that Claude has produced
    start,     \* units before the current segment
    tools,     \* uses of tools so far
    first,     \* the status message has no text yet (state["first"])
    messages,  \* the chat
    status,    \* the place of the status message in it, 0 when deleted
    sent,      \* units sent, or given up, by _finalize_stream
    faults     \* history: what went wrong and may have lost or doubled text

replyVars == <<greeting, stage, produced, start, tools, first, messages, status, sent, faults>>

Least(a, b) == IF a < b THEN a ELSE b
Text(a, b) == [kind |-> "text", units |-> [i \in 1..(b - a) |-> a + i]]  \* a excluded
Busy == [kind |-> "busy", units |-> <<>>]
Failed == [kind |-> "error", units |-> <<>>]

Edited(m) == [messages EXCEPT ![status] = m]

-----------------------------------------------------------------------------
\* A block of text.  The first one is shown at once, the others when enough time
\* has passed and enough has come; a failed edit is ignored.
Window(n) == IF first THEN Text(start, Least(n, start + Limit))
             ELSE Text(IF n - start > Limit THEN n - Limit ELSE start, n)
TextBlock ==
    /\ stage = "streaming" /\ produced < MaxUnits
    /\ produced' = produced + 1 /\ first' = FALSE
    /\ messages' \in {messages, Edited(Window(produced + 1))}
    /\ UNCHANGED <<greeting, stage, start, tools, status, sent, faults>>

\* A definition named Fault... is the next one with a bug seeded.
FaultKeepSegment == start
NextSegment == produced
\* A tool is used: the segment is shown once more, up to the limit, and a new
\* status message is sent; if that fails the turn does, with the old one.
ToolUse ==
    /\ stage = "streaming" /\ tools < MaxTools /\ tools' = tools + 1
    /\ IF produced = start
       THEN /\ messages' \in {messages, Edited(Busy)}
            /\ UNCHANGED <<stage, start, first, status, faults>>
       ELSE LET n == Least(produced, start + Limit)
                cut == IF n < produced THEN {"cut"} ELSE {}
            IN \E edited \in BOOLEAN :
               LET chat == IF edited THEN Edited(Text(start, n)) ELSE messages IN
               \/ /\ messages' = Append(chat, Busy) /\ status' = Len(chat) + 1
                  /\ start' = NextSegment /\ first' = TRUE
                  /\ faults' = faults \cup cut \cup (IF edited THEN {} ELSE {"edit"})
                  /\ UNCHANGED stage
               \/ /\ messages' \in {chat, Append(chat, Busy)} /\ stage' = "failing"
                  /\ UNCHANGED <<start, first, status, faults>>
    /\ UNCHANGED <<greeting, produced, sent>>

-----------------------------------------------------------------------------
\* The status message goes; a delete that fails is ignored too.
Delete == \/ messages' = RemoveAt(messages, status) /\ status' = 0 /\ UNCHANGED faults
          \/ UNCHANGED <<messages, status>> /\ faults' = faults \cup {"delete"}

\* The answer ends without text: nothing is left of it.
EndSilent == /\ stage = "streaming" /\ produced = 0 /\ stage' = "silent" /\ Delete
             /\ UNCHANGED <<greeting, produced, start, tools, first, sent>>
\* It ends with a tool: the text is there, and the status message goes.
FaultKeepStatus == UNCHANGED <<messages, status, faults>>
DropStatus == Delete
EndWithTool == /\ stage = "streaming" /\ 0 < produced /\ produced = start
               /\ stage' = "done" /\ DropStatus
               /\ UNCHANGED <<greeting, produced, start, tools, first, sent>>
\* A short last segment takes the place of the status message.
EndWithEdit == /\ stage = "streaming" /\ start < produced /\ produced - start <= Limit
               /\ stage' = "done" /\ messages' = Edited(Text(start, produced))
               /\ UNCHANGED <<greeting, produced, start, tools, first, status, sent, faults>>
\* A long one, or one whose edit fails, is sent anew.
EndWithChunks ==
    /\ stage = "streaming" /\ start < produced
    /\ stage' = "sending" /\ sent' = start
    /\ \/ Delete
       \/ produced - start <= Limit /\ messages' = Edited(Text(start, produced))
          /\ faults' = faults \cup {"delete"} /\ UNCHANGED status
    /\ UNCHANGED <<greeting, produced, start, tools, first>>

\* One chunk: with its markup, without it if that fails; if both fail the turn
\* does, except for a greeting, which is tried once and goes on.
ChunkEnd(a) == Least(produced, a + Limit)
SendChunk ==
    /\ stage = "sending" /\ sent < produced
    /\ \E copies \in 0..2 :
         LET n == ChunkEnd(sent) IN
         /\ messages' = messages \o [i \in 1..copies |-> Text(sent, n)]
         /\ \/ /\ copies > 0 /\ (greeting => copies = 1) /\ sent' = n
               /\ faults' = IF copies = 2 THEN faults \cup {"send"} ELSE faults
               /\ UNCHANGED stage
            \/ /\ greeting /\ copies = 0 /\ sent' = n
               /\ faults' = faults \cup {"send"} /\ UNCHANGED stage
            \/ /\ ~greeting /\ stage' = "failing"
               /\ faults' = faults \cup {"send"} /\ UNCHANGED sent
    /\ UNCHANGED <<greeting, produced, start, tools, first, status>>
EndSending == /\ stage = "sending" /\ sent = produced /\ stage' = "done"
              /\ UNCHANGED <<greeting, produced, start, tools, first, messages, status, sent, faults>>

\* Claude fails.
ClaudeFails == /\ stage = "streaming" /\ stage' = "failing"
               /\ UNCHANGED <<greeting, produced, start, tools, first, messages, status, sent, faults>>
\* The status message, if it still exists, says so.
ReportError == /\ stage = "failing" /\ stage' = "failed"
               /\ \/ UNCHANGED messages
                  \/ status > 0 /\ messages' = Edited(Failed)
               /\ UNCHANGED <<greeting, produced, start, tools, first, status, sent, faults>>

ReplyInit == /\ greeting \in BOOLEAN /\ stage = "streaming" /\ produced = 0 /\ start = 0
             /\ tools = 0 /\ first = TRUE /\ messages = <<Busy>> /\ status = 1
             /\ sent = 0 /\ faults = {}
ReplyNext == \/ TextBlock \/ ToolUse \/ EndSilent \/ EndWithTool \/ EndWithEdit
             \/ EndWithChunks \/ SendChunk \/ EndSending \/ ClaudeFails \/ ReportError
ReplySpec == ReplyInit /\ [][ReplyNext]_replyVars

-----------------------------------------------------------------------------
Kind == {"text", "busy", "error"}
Message == [kind : Kind, units : Seq(1..MaxUnits)]
ReplyTypeOK ==
    /\ greeting \in BOOLEAN /\ first \in BOOLEAN
    /\ stage \in {"streaming", "sending", "failing", "done", "silent", "failed"}
    /\ {produced, start, sent} \subseteq 0..MaxUnits /\ tools \in 0..MaxTools
    /\ messages \in Seq(Message) /\ status \in 0..Len(messages)
    /\ faults \subseteq {"cut", "edit", "delete", "send"}

\* What is before a place in the chat was produced before it.
AsProduced(chat) ==
    \A i, j \in DOMAIN chat : \A k \in DOMAIN chat[i].units, l \in DOMAIN chat[j].units :
        i < j \/ (i = j /\ k < l) => chat[i].units[k] < chat[j].units[l]
\* Message m shows unit u.
Shows(m, u) == \E k \in DOMAIN m.units : m.units[k] = u

\* Whatever the throttle shows in between and however the answer is split by
\* tools and by the limit: when the turn is done, the chat holds all of it, once
\* and in order, and no status message.  What may be missing or doubled is named
\* by the faults: a segment before a tool that is longer than a message, or a
\* call that Telegram failed.
AnswerShown ==
    /\ stage = "done" /\ faults = {} =>
          /\ AsProduced(messages)
          /\ \A u \in 1..MaxUnits :
                u <= produced <=> \E i \in DOMAIN messages : Shows(messages[i], u)
    /\ stage \in {"done", "silent"} /\ faults \cap {"delete", "edit"} = {} =>
         \A i \in DOMAIN messages : messages[i].kind = "text"

\* No unit is in the chat twice, at any time, unless a send or a delete failed
\* with an unknown outcome.
NothingTwice ==
    faults \cap {"send", "delete"} = {} =>
        \A i, j \in DOMAIN messages :
            \A k \in DOMAIN messages[i].units, l \in DOMAIN messages[j].units :
                messages[i].units[k] = messages[j].units[l] => i = j /\ k = l

-----------------------------------------------------------------------------
(* The inductive invariant behind both *)

\* Message m shows units after a and up to b only.
Within(m, a, b) == \A k \in DOMAIN m.units : a < m.units[k] /\ m.units[k] <= b
Undisturbed == faults \cap {"send", "delete"} = {}

\* The status message is the last one and belongs to the current segment, what
\* is above it to the segments before; when it is gone, the chat ends with the
\* last chunk.
SegmentOpen ==
    /\ start <= produced
    /\ stage = "streaming" =>
          /\ status = Len(messages) /\ status > 0
          /\ \A i \in 1..(status - 1) : Within(messages[i], 0, start)
          /\ Within(messages[status], start, produced)
    /\ stage = "sending" =>
          /\ start <= sent /\ sent <= produced
          /\ Undisturbed => \A i \in DOMAIN messages : Within(messages[i], 0, sent)

OrderKept == Undisturbed => AsProduced(messages)

\* Nothing is missing of the segments that are closed, or of the chunks sent.
NoneMissing == faults = {} =>
    /\ stage = "streaming" =>
          \A u \in 1..start : \E i \in 1..(status - 1) : Shows(messages[i], u)
    /\ stage = "sending" =>
          \A u \in 1..sent : \E i \in DOMAIN messages : Shows(messages[i], u)
    /\ stage = "done" =>
          /\ \A u \in 1..produced : \E i \in DOMAIN messages : Shows(messages[i], u)
          /\ \A i \in DOMAIN messages : Within(messages[i], 0, produced)

\* What is above the status message, and what is left when it is gone, is text.
OnlyText == faults \cap {"delete", "edit"} = {} =>
    /\ stage = "streaming" => \A i \in 1..(status - 1) : messages[i].kind = "text"
    /\ stage \in {"sending", "done", "silent"} =>
          \A i \in DOMAIN messages : messages[i].kind = "text"

ReplyInv == ReplyTypeOK /\ SegmentOpen /\ OrderKept /\ NoneMissing /\ OnlyText
=============================================================================
