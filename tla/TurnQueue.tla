----------------------------- MODULE TurnQueue -----------------------------
(***************************************************************************)
(* What the owner lock promises to the turns of the web chat: the turns of *)
(* one owner form a line and are served one at a time, from its front.  A  *)
(* turn that is not served yet may leave the line from any place; the one  *)
(* being served leaves when it is over.                                    *)
(***************************************************************************)
EXTENDS Naturals, Sequences, SequencesExt

CONSTANTS Stream, \* requests of the web chat
          Owner

VARIABLES line,   \* per owner, the turns in the order they came
          serving \* the owners whose first turn is being served

vars == <<line, serving>>

Positions(o) == DOMAIN line[o]
InLine(s, o) == \E i \in Positions(o) : line[o][i] = s

Init == line = [o \in Owner |-> <<>>] /\ serving = {}

Join(s, o) ==
    /\ \A p \in Owner : ~InLine(s, p)
    /\ line' = [line EXCEPT ![o] = Append(@, s)]
    /\ serving' \in {serving, serving \cup {o}}
    /\ serving' # serving => line[o] = <<>>

Serve(o) ==
    /\ line[o] # <<>> /\ o \notin serving
    /\ serving' = serving \cup {o} /\ UNCHANGED line

\* A turn gives up; the one being served cannot.
GiveUp(i, o) ==
    /\ o \in serving => i > 1
    /\ line' = [line EXCEPT ![o] = RemoveAt(@, i)] /\ UNCHANGED serving

End(o) ==
    /\ o \in serving
    /\ line' = [line EXCEPT ![o] = Tail(@)] /\ serving' = serving \ {o}

Next == \E o \in Owner : \/ Serve(o) \/ End(o)
                         \/ \E s \in Stream : Join(s, o)
                         \/ \E i \in Positions(o) : GiveUp(i, o)

Spec == Init /\ [][Next]_vars

-----------------------------------------------------------------------------
(* What the line is good for *)

\* A turn stands in one place of one line.
OnceInLine == \A o, p \in Owner : \A i \in Positions(o), j \in Positions(p) :
    line[o][i] = line[p][j] => o = p /\ i = j

\* Of two turns that stay in line the one that came first stays ahead, and while
\* a turn is served nobody takes its place.
Ahead(s, t, o) == \E i, j \in Positions(o) : i < j /\ line[o][i] = s /\ line[o][j] = t
KeepsOrder(o) ==
    /\ \A s, t \in Stream : Ahead(s, t, o) /\ InLine(s, o)' /\ InLine(t, o)' => Ahead(s, t, o)'
    /\ o \in serving /\ o \in serving' => line'[o][1] = line[o][1]
NobodyOvertakes == [][\A o \in Owner : KeepsOrder(o)]_vars
=============================================================================
