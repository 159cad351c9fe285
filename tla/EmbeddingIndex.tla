--------------------------- MODULE EmbeddingIndex ---------------------------
(***************************************************************************)
(* The search index of the memory (bot/memory/search.py): index_file       *)
(* splits a file into chunks, embeds those it has no vector for, and       *)
(* writes a sidecar file next to it, which search reads.  Both are run     *)
(* from the command line, by Claude or by hand, so several processes may   *)
(* index one file while it is edited.  The embedding service may fail.     *)
(*                                                                         *)
(* A text is a sequence of blocks, each known by its length.  A chunk is   *)
(* known by the characters of the blocks that it holds, from one to        *)
(* another, and by its length with the blank lines between the blocks.     *)
(***************************************************************************)
EXTENDS Integers, Sequences

CONSTANTS Indexer,    \* processes
          Texts,      \* what is written to the file
          MaxChars,   \* length of a chunk (500)
          Samples     \* more texts that it may hold at the start

\* Blocks that are empty after strip() are left out.
ASSUME SearchAssumption == /\ MaxChars \in Nat \ {0}
                           /\ Texts \cup Samples \subseteq Seq(Nat \ {0})

VARIABLES
    text,      \* the file, NoFile if there is none
    sidecar,   \* its sidecar file
    indexing,  \* per process: the text index_file has read
    found      \* the chunks of the file that the last search ranked

searchVars == <<text, sidecar, indexing, found>>

NoFile == <<-1>>
Nothing == <<-2>>   \* the process is not in index_file
NoSidecar == [hash |-> NoFile, chunks |-> <<>>]

-----------------------------------------------------------------------------
(* chunk_markdown *)

Span(from, length) == [from |-> from, to |-> from + length, chars |-> length]
JoinBlock(c, b) == IF c.chars = 0 THEN Span(c.from, b)
                ELSE [c EXCEPT !.to = @ + b, !.chars = @ + 2 + b]

\* A block longer than a chunk is cut into pieces.
Pieces(from, b) == [i \in 1..((b + MaxChars - 1) \div MaxChars) |->
                      Span(from + (i - 1) * MaxChars,
                           IF i * MaxChars <= b THEN MaxChars ELSE b - (i - 1) * MaxChars)]
Flush(acc) == IF acc.buffer.chars = 0 THEN acc.chunks ELSE Append(acc.chunks, acc.buffer)

\* A block joins the buffer while both are shorter than a chunk; the blank line
\* between them is not counted.
FaultAddUnflushed(acc, b) == [acc EXCEPT !.buffer = Span(@.to, b)]
AddBlock(acc, b) ==
    IF acc.buffer.chars + b < MaxChars THEN [acc EXCEPT !.buffer = JoinBlock(@, b)]
    ELSE IF b > MaxChars THEN [chunks |-> Flush(acc) \o Pieces(acc.buffer.to, b),
                               buffer |-> Span(acc.buffer.to + b, 0)]
    ELSE [chunks |-> Flush(acc), buffer |-> Span(acc.buffer.to, b)]
ChunksOf(t) ==
    LET after[n \in 0..Len(t)] == IF n = 0 THEN [chunks |-> <<>>, buffer |-> Span(0, 0)]
                                  ELSE AddBlock(after[n - 1], t[n])
    IN  Flush(after[Len(t)])
Chunks == [t \in Texts \cup Samples |-> ChunksOf(t)]

-----------------------------------------------------------------------------
(* index_file *)

WriteText(t) == /\ t # text /\ text' = t /\ UNCHANGED <<sidecar, indexing, found>>

\* Nothing is done without a file or text, and if the hash is that of the file.
FaultTrustAnySidecar(t) == sidecar # NoSidecar
UpToDate(t) == sidecar.hash = t
BeginIndex(p) ==
    /\ indexing[p] = Nothing /\ text # NoFile /\ Chunks[text] # <<>>
    /\ ~UpToDate(text)
    /\ indexing' = [indexing EXCEPT ![p] = text]
    /\ UNCHANGED <<text, sidecar, found>>

\* Chunks with a known text take over their vectors, the others are embedded.
NewChunks(t) == Chunks[t]
EndIndex(p) ==
    /\ indexing[p] # Nothing
    /\ sidecar' = [hash |-> indexing[p], chunks |-> NewChunks(indexing[p])]
    /\ indexing' = [indexing EXCEPT ![p] = Nothing] /\ UNCHANGED <<text, found>>
\* The service fails, and the sidecar stays as it was; or the process ends while
\* it writes, or two write at once, and what is left does not parse and is read as
\* nothing.
FailIndex(p) ==
    /\ indexing[p] # Nothing /\ sidecar' \in {sidecar, NoSidecar}
    /\ indexing' = [indexing EXCEPT ![p] = Nothing] /\ UNCHANGED <<text, found>>

Search == /\ found' = sidecar.chunks /\ found' # found /\ UNCHANGED <<text, sidecar, indexing>>

SearchInit == /\ text \in Texts \cup Samples /\ sidecar = NoSidecar /\ found = <<>>
              /\ indexing = [p \in Indexer |-> Nothing]
SearchNext == \/ \E t \in Texts \cup {NoFile} : WriteText(t)
              \/ \E p \in Indexer : BeginIndex(p) \/ EndIndex(p) \/ FailIndex(p)
              \/ Search
\* Somebody goes on indexing, and the service answers again and again.
SearchFairness == \A p \in Indexer :
    WF_searchVars(BeginIndex(p)) /\ SF_searchVars(EndIndex(p))
SearchSpec == SearchInit /\ [][SearchNext]_searchVars /\ SearchFairness

-----------------------------------------------------------------------------
SearchTypeOK == /\ {text, sidecar.hash} \subseteq Texts \cup Samples \cup {NoFile}
                /\ indexing \in [Indexer -> Texts \cup Samples \cup {Nothing}]

Length(t) == LET upTo[n \in 0..Len(t)] == IF n = 0 THEN 0 ELSE upTo[n - 1] + t[n]
             IN  upTo[Len(t)]

\* Chunks that divide up the characters from the first to the n-th, none is
\* longer than the limit by more than one.
Divides(s, n) ==
    /\ \A i \in DOMAIN s : /\ s[i].from = IF i = 1 THEN 0 ELSE s[i - 1].to
                           /\ s[i].from < s[i].to /\ s[i].chars <= MaxChars + 1
    /\ IF s = <<>> THEN n = 0 ELSE s[Len(s)].to = n

\* What search ranks is the whole of one version of the file, never mixed from
\* two, or nothing: no character is lost, doubled or moved by the joining and
\* the cutting of its blocks, and no chunk is longer than the limit by more than
\* one character (the blank line between two blocks is not counted).
FoundWhole == found # <<>> => \E t \in DOMAIN Chunks :
    found = Chunks[t] /\ Divides(found, Length(t))

\* When the file stops changing and has text, the index catches up with it,
\* although older runs write after newer ones and may be cut short.
IndexCatchesUp == \A t \in Texts :
    Chunks[t] # <<>> => (<>[](text = t) => []<>(sidecar.hash = t))

\* The chunks of the sidecar, too, are those of one version; a process that
\* indexes has read a text.
SearchInv ==
    /\ SearchTypeOK
    /\ FoundWhole
    /\ sidecar.chunks = IF sidecar.hash = NoFile THEN <<>> ELSE Chunks[sidecar.hash]
    /\ \A p \in Indexer : indexing[p] # NoFile
=============================================================================
