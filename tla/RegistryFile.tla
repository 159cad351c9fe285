---------------------------- MODULE RegistryFile ----------------------------
(***************************************************************************)
(* registry.json on the disk (bot/modules/registry.py): the file, its      *)
(* temporary file, and the writers that read, change and replace it.  They *)
(* share no lock: the engine's event loop, the thread of an install job,   *)
(* and the command line (python -m bot.modules).                           *)
(*                                                                         *)
(* ModuleLifecycle takes a write of the file for one step; here it is the  *)
(* three system calls it consists of.                                      *)
(***************************************************************************)
EXTENDS Naturals, FiniteSets

CONSTANTS
    Module,
    Writer,   \* what reads and writes the file
    Process,  \* which of them die together: a partition of Writer
    Inode,    \* bound: files on the disk at a time
    NoInode   \* no file

ASSUME DiskAssumption == /\ NoInode \notin Inode
                         /\ IsFiniteSet(Module)
                         /\ UNION Process = Writer

VARIABLES
    content,    \* of each file on the disk
    registry,   \* the file called registry.json
    temp,       \* the file called registry.json.tmp
    writing,    \* where each writer is
    job,        \* what it is to write: a module to add or to remove, and the list
    opened,     \* the file it has open
    meant,      \* history: the modules that completed writes have left installed
    overlapped, \* history: a writer has read between another one's read and write
    clashed     \* history: two writers have used the temporary file at once

onDisk == <<content, registry, temp>>
writerVars == <<writing, job, opened>>
registryVars == <<onDisk, writerVars, meant, overlapped, clashed>>

-----------------------------------------------------------------------------
(* Texts.  A text is the list it begins with and its length; an entry takes *)
(* one unit and the brackets take another.                                  *)

SizeOf(ms) == Cardinality(ms) + 1
TextOf(ms) == [list |-> ms, size |-> SizeOf(ms)]
EmptyText == [list |-> {}, size |-> 0]
IsWhole(text) == text.size = SizeOf(text.list)

\* One write at the beginning of a file: what was longer keeps its end.
Over(old, ms) == [list |-> ms, size |-> IF old.size > SizeOf(ms) THEN old.size ELSE SizeOf(ms)]

\* What read_registry returns, if it does not raise.
Readable == registry # NoInode => IsWhole(content[registry])
Listed == IF registry = NoInode THEN {} ELSE content[registry].list

-----------------------------------------------------------------------------
EditOp == {"add", "remove"}
NoEdit == [op |-> "add", of |-> {}, list |-> {}]
InTemp(w) == writing[w] \in {"open", "written"}

FaultOnlyNew(op, m, ms) == IF op = "add" THEN {m} ELSE ms \ {m}
AfterEdit(op, m, ms) == IF op = "add" THEN ms \cup {m} ELSE ms \ {m}

\* add_entry and remove_entry read the list; a file that cannot be parsed, a
\* module that is already there or that is not raise an exception instead.
ReadList(w, op, m) ==
    /\ writing[w] = "idle" /\ Readable
    /\ op = "add" <=> m \notin Listed
    /\ writing' = [writing EXCEPT ![w] = "ready"]
    /\ job' = [job EXCEPT ![w] = [op |-> op, of |-> {m}, list |-> AfterEdit(op, m, Listed)]]
    /\ overlapped' = (overlapped \/ \E v \in Writer : writing[v] # "idle")
    /\ UNCHANGED <<onDisk, opened, meant, clashed>>

\* open(tmp, "w"): the file is made, or emptied.
FaultKeepText(i) == content[i]
Truncated(i) == EmptyText

\* Which free file is taken makes no difference.
Free == {i \in Inode \ {registry, temp} : \A w \in Writer : opened[w] # i}
FaultInPlace == IF registry = NoInode THEN CHOOSE i \in Free : TRUE ELSE registry
FreeInode == CHOOSE i \in Free : TRUE

OpenTemp(w) ==
    /\ writing[w] = "ready"
    /\ writing' = [writing EXCEPT ![w] = "open"]
    /\ \/ temp = NoInode /\ Free # {} /\ temp' = FreeInode
          /\ content' = [content EXCEPT ![temp'] = EmptyText]
       \/ temp # NoInode /\ content' = [content EXCEPT ![temp] = Truncated(temp)]
          /\ UNCHANGED temp
    /\ opened' = [opened EXCEPT ![w] = temp']
    /\ clashed' = (clashed \/ \E v \in Writer : InTemp(v))
    /\ UNCHANGED <<registry, job, meant, overlapped>>

WriteTemp(w) ==
    /\ writing[w] = "open"
    /\ writing' = [writing EXCEPT ![w] = "written"]
    /\ content' = [content EXCEPT ![opened[w]] = Over(@, job[w].list)]
    /\ opened' = [opened EXCEPT ![w] = NoInode]
    /\ UNCHANGED <<registry, temp, job, meant, overlapped, clashed>>

\* A file without a name and without a reader is gone.
Dropped(i) == [j \in Inode |-> IF j = i THEN EmptyText ELSE content[j]]

\* os.replace moves whatever is called registry.json.tmp by now.
Replace(w) ==
    /\ writing[w] = "written" /\ temp # NoInode
    /\ registry' = temp /\ temp' = NoInode /\ content' = Dropped(registry)
    /\ writing' = [writing EXCEPT ![w] = "idle"]
    /\ job' = [job EXCEPT ![w] = NoEdit]
    /\ meant' = IF job[w].op = "add" THEN meant \cup job[w].of ELSE meant \ job[w].of
    /\ UNCHANGED <<opened, overlapped, clashed>>

GiveUp(ws) == /\ writing' = [w \in Writer |-> IF w \in ws THEN "idle" ELSE writing[w]]
              /\ job' = [w \in Writer |-> IF w \in ws THEN NoEdit ELSE job[w]]
              /\ opened' = [w \in Writer |-> IF w \in ws THEN NoInode ELSE opened[w]]
              /\ UNCHANGED <<onDisk, meant, overlapped, clashed>>

\* There is nothing to rename: somebody else has taken the temporary file.
MissTemp(w) == writing[w] = "written" /\ temp = NoInode /\ GiveUp({w})

\* The disk is full; the temporary file stays.
FailWrite(w) == writing[w] = "open" /\ GiveUp({w})

Die(p) == (\E w \in p : writing[w] # "idle") /\ GiveUp(p)

FileInit ==
    /\ content = [i \in Inode |-> EmptyText]
    /\ registry = NoInode /\ temp = NoInode
    /\ writing = [w \in Writer |-> "idle"]
    /\ job = [w \in Writer |-> NoEdit]
    /\ opened = [w \in Writer |-> NoInode]
    /\ meant = {} /\ overlapped = FALSE /\ clashed = FALSE

FileNext == \/ \E w \in Writer :
              \/ \E op \in EditOp, m \in Module : ReadList(w, op, m)
              \/ OpenTemp(w) \/ WriteTemp(w) \/ Replace(w) \/ MissTemp(w) \/ FailWrite(w)
        \/ \E p \in Process : Die(p)

FileSpec == FileInit /\ [][FileNext]_registryVars

-----------------------------------------------------------------------------
(* Properties *)

FileTypeOK ==
    /\ content \in [Inode -> [list : SUBSET Module, size : Nat]]
    /\ registry \in Inode \cup {NoInode} /\ temp \in Inode \cup {NoInode}
    /\ registry = temp => registry = NoInode
    /\ writing \in [Writer -> {"idle", "ready", "open", "written"}]
    /\ job \in [Writer -> [op : EditOp, of : SUBSET Module, list : SUBSET Module]]
    /\ opened \in [Writer -> Inode \cup {NoInode}]
    /\ meant \in SUBSET Module /\ overlapped \in BOOLEAN /\ clashed \in BOOLEAN

\* What protects a reader (a boot, a page, the next writer) from half a file is
\* that only one writer at a time is between the opening of the temporary file
\* and its renaming: then no crash, no full disk and no temporary file left
\* behind by either makes registry.json unreadable.
WholeUnlessClash == clashed \/ Readable

\* "All writes are atomic (temp file + os.replace) to survive crashes mid-write"
\* (registry.py:6): when nobody is writing any more, the file can be read.  Not
\* so: one writer can rename what the other one has just emptied, which then
\* crashes.
ReadableAtRest == (\A w \in Writer : writing[w] = "idle") => Readable

\* With writers that keep out of each other's way, from the read to the
\* replace, registry.json holds what they meant: no edit is lost and none comes
\* back, whichever of them dies where.
EditsKept == overlapped \/ Listed = meant

\* What stands for a file that cannot be parsed: no list of modules.
Garbled == {"-"}

Atomic == INSTANCE AtomicRegistry WITH
    list    <- IF Readable THEN Listed ELSE Garbled,
    held    <- [w \in Writer |-> IF writing[w] = "idle" THEN [busy |-> FALSE, list |-> {}]
                                 ELSE [busy |-> TRUE, list |-> job[w].list]],
    spoiled <- clashed

\* Until two writers clash, the file with its temporary one, its truncation, its
\* write and its renaming is a list that is replaced in one step: by no other
\* text than one that a writer has made of a list it read, and only at its
\* os.replace, whoever fails or dies before.
ImplementsRegistry == Atomic!Spec

-----------------------------------------------------------------------------
(* The inductive invariant behind both *)

\* Without a clash, one writer at most uses the temporary file, and what is in
\* it is what that writer has put there.
OneInTemp == ~clashed => \A v, w \in Writer : InTemp(v) /\ InTemp(w) => v = w
TempKnown == \A w \in Writer :
    /\ writing[w] # "open" => opened[w] = NoInode
    /\ ~clashed /\ InTemp(w) => temp # NoInode
    /\ ~clashed /\ writing[w] = "open" => opened[w] = temp /\ content[temp] = EmptyText
    /\ ~clashed /\ writing[w] = "written" => content[temp] = TextOf(job[w].list)

\* Without an overlap, one writer at most is busy, so what it is to write is
\* still its edit of the last list.
OneBusy == ~overlapped =>
    /\ ~clashed
    /\ \A v, w \in Writer : writing[v] # "idle" /\ writing[w] # "idle" => v = w
EditKnown == ~overlapped => \A w \in Writer : writing[w] # "idle" =>
    job[w].list = IF job[w].op = "add" THEN meant \cup job[w].of ELSE meant \ job[w].of

FileInv == /\ FileTypeOK /\ OneInTemp /\ TempKnown /\ OneBusy /\ EditKnown
           /\ WholeUnlessClash /\ EditsKept
=============================================================================
