------------------------------ MODULE EventLog ------------------------------
(***************************************************************************)
(* The event log (bot/events.py): emit appends a line, tail reads the last *)
(* lines, and rotate cuts the file to its last lines by writing a new one  *)
(* and renaming it.  The engine rotates before it starts anything, but the *)
(* command line interface is a process of its own and may append meanwhile.*)
(* A line can be torn by a crash or a full disk, and a record may hold a   *)
(* character that JSON leaves as it is and splitlines() takes for the end  *)
(* of a line.  Records are not escaped to ASCII: one torn in the middle of *)
(* a character leaves bytes that nobody can decode, and every reader reads *)
(* the whole file.                                                         *)
(***************************************************************************)
EXTENDS Naturals, Sequences

CONSTANTS Emitter,    \* processes that append
          Rotator,    \* the one of them that rotates, at its start
          MaxLines,   \* lines kept by a rotation
          MaxRecords  \* bound: records written

ASSUME EventAssumption == Rotator \in Emitter /\ MaxLines \in Nat \ {0} /\ MaxRecords \in Nat

VARIABLES
    lines,     \* events.log: a line is a record's number, and whether it parses
    midline,   \* its last line has no newline
    decodes,   \* all its bytes are characters
    version,   \* which file has the name: a rotation replaces it
    handle,    \* the version a process has opened to append to, 0 if none
    rotation,  \* the lines rotate has read
    written,   \* history: records written so far
    exposed    \* history: records hit by a crash, a split or a race

eventVars == <<lines, midline, decodes, version, handle, rotation, written, exposed>>

NotRotating == [on |-> FALSE, lines |-> <<>>, midline |-> FALSE]
Line(n, parses) == [rec |-> n, parses |-> parses]
\* Appending to an unfinished line spoils that line.
Joined(new) == IF midline /\ lines # <<>>
               THEN SubSeq(lines, 1, Len(lines) - 1) \o
                    <<Line(lines[Len(lines)].rec, FALSE)>> \o Tail(new)
               ELSE lines \o new
\* (A definition named Fault... is the next one with a bug seeded.)
FaultKeepHead(s) == SubSeq(s, 1, MaxLines)
FaultAppendKept(s) == lines \o SubSeq(s, Len(s) - MaxLines + 1, Len(s))
LastLines(s) == SubSeq(s, Len(s) - MaxLines + 1, Len(s))

-----------------------------------------------------------------------------
\* emit opens the file, and then writes one line to it.
OpenLog(p) == /\ handle[p] = 0 /\ (p = Rotator => ~rotation.on)
              /\ written < MaxRecords
              /\ handle' = [handle EXCEPT ![p] = version]
              /\ UNCHANGED <<lines, midline, decodes, version, rotation, written, exposed>>

\* The record is whole, or split in two by a line separator, or torn, between two
\* characters or in the middle of one.
WriteRecord(p) == LET n == written + 1 IN
    /\ handle[p] # 0 /\ n <= MaxRecords
    /\ written' = n
    /\ handle' = [handle EXCEPT ![p] = 0]
    /\ \E shape \in {"whole", "split", "torn"} :
         LET new == CASE shape = "whole" -> <<Line(n, TRUE)>>
                      [] shape = "split" -> <<Line(n, FALSE), Line(n, FALSE)>>
                      [] shape = "torn" -> <<Line(n, FALSE)>>
             current == handle[p] = version
         IN /\ lines' = IF current THEN Joined(new) ELSE lines
            /\ midline' = IF current THEN shape = "torn" ELSE midline
            /\ decodes' \in IF current /\ shape = "torn" THEN {decodes, FALSE} ELSE {decodes}
            /\ exposed' = IF shape # "whole" \/ midline \/ rotation.on \/ ~current
                          THEN exposed \cup {n} ELSE exposed
    /\ UNCHANGED <<version, rotation>>

\* rotate reads the file, which raises if it cannot be decoded (the engine starts
\* all the same), and does nothing if it is short.
BeginRotate == /\ ~rotation.on /\ handle[Rotator] = 0 /\ decodes /\ Len(lines) > MaxLines
               /\ rotation' = [on |-> TRUE, lines |-> lines, midline |-> midline]
               /\ UNCHANGED <<lines, midline, decodes, version, handle, written, exposed>>
EndRotate == /\ rotation.on /\ rotation' = NotRotating
             /\ lines' = LastLines(rotation.lines)
             /\ midline' = rotation.midline /\ decodes' = TRUE
             /\ version' = version + 1
             /\ UNCHANGED <<handle, written, exposed>>
\* It fails, or the process ends: the log stays as it is.
FailRotate == /\ rotation.on /\ rotation' = NotRotating
              /\ UNCHANGED <<lines, midline, decodes, version, handle, written, exposed>>

EventInit == /\ lines = <<>> /\ midline = FALSE /\ decodes = TRUE /\ version = 1
             /\ handle = [p \in Emitter |-> 0]
             /\ rotation = NotRotating /\ written = 0 /\ exposed = {}

EventNext == \/ \E p \in Emitter : OpenLog(p) \/ WriteRecord(p)
             \/ BeginRotate \/ EndRotate \/ FailRotate

EventSpec == EventInit /\ [][EventNext]_eventVars

-----------------------------------------------------------------------------
LogLine == [rec : 1..MaxRecords, parses : BOOLEAN]
EventTypeOK ==
    /\ lines \in Seq(LogLine)
    /\ {midline, decodes} \subseteq BOOLEAN /\ version \in Nat \ {0}
    /\ handle \in [Emitter -> Nat] /\ rotation \in [on : BOOLEAN, lines : Seq(LogLine), midline : BOOLEAN]
    /\ written \in 0..MaxRecords /\ exposed \subseteq 1..MaxRecords

\* tail returns the lines that parse, if it can read the file at all.
ReportedIn(s, n) == \E i \in DOMAIN s : s[i].parses /\ s[i].rec = n

\* tail reports records in the order they were written, none twice.
TailInOrder == \A i, j \in DOMAIN lines :
    i < j /\ lines[i].parses /\ lines[j].parses => lines[i].rec < lines[j].rec

\* Older than the last MaxLines lines.
RotatedAway(n) == Len(lines) >= MaxLines /\ \A i \in DOMAIN lines : lines[i].rec > n

\* While the file can be decoded, a record that was written whole, on a line of
\* its own and outside a rotation is reported until it is older than the last
\* MaxLines lines: what is lost otherwise is exposed to a crash, a separator or a
\* race.
RecentReported == decodes =>
    \A n \in 1..written : ReportedIn(lines, n) \/ n \in exposed \/ RotatedAway(n)

\* events.py, line 83: "Corrupt / unparsable lines are skipped silently", so that
\* the other records are reported whatever one line holds.  A record torn in the
\* middle of a character takes all of them with it, and the rotation as well.
CorruptLinesSkipped ==
    \A n \in 1..written : (decodes /\ ReportedIn(lines, n)) \/ n \in exposed \/ RotatedAway(n)

-----------------------------------------------------------------------------
(* The inductive invariant behind both, of the log and of a copy of it *)

\* Records stand in the order they were written; two lines of one record are
\* the halves of a split one.
InOrder(s) ==
    /\ \A i \in DOMAIN s : s[i].rec <= written
    /\ \A i, j \in DOMAIN s : i < j =>
          s[i].rec < s[j].rec \/ (s[i].rec = s[j].rec /\ ~s[i].parses /\ ~s[j].parses)
TornAtEnd(s, mid) == mid /\ s # <<>> => ~s[Len(s)].parses
KeepsRecent(s) == \A n \in 1..written :
    \/ ReportedIn(s, n)
    \/ n \in exposed
    \/ Len(s) >= MaxLines /\ \A i \in DOMAIN s : s[i].rec > n

LogInv(s, mid) == InOrder(s) /\ TornAtEnd(s, mid) /\ KeepsRecent(s)
EventInv == /\ EventTypeOK /\ LogInv(lines, midline)
            /\ rotation.on => Len(rotation.lines) > MaxLines
                              /\ LogInv(rotation.lines, rotation.midline)
=============================================================================
