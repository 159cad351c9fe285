------------------------- MODULE SharedFileProofs --------------------------
(***************************************************************************)
(* Proofs about RegistryFile and EventLog, the two files that processes    *)
(* write without a lock between them: for any processes, modules and       *)
(* inodes, and for any numbers of records and of lines that are kept.      *)
(***************************************************************************)
EXTENDS RegistryFile, EventLog, FiniteSetTheorems, SequenceTheorems, TLAPS

-----------------------------------------------------------------------------
(* registry.json: its texts *)

\* The length of a list is a number.
LEMMA SizeType ==
    ASSUME NEW ms \in SUBSET Module
    PROVE  SizeOf(ms) \in Nat
<1>1. IsFiniteSet(ms)
  BY DiskAssumption, FS_Subset
<1>2. QED
  BY <1>1, FS_CardinalityType DEF SizeOf

\* One write into an empty file leaves exactly what was written, and that can
\* be read.
LEMMA WriteEmpty ==
    ASSUME NEW ms \in SUBSET Module
    PROVE  Over(EmptyText, ms) = TextOf(ms) /\ IsWhole(TextOf(ms))
BY SizeType DEF Over, EmptyText, TextOf, IsWhole

\* A write into any file leaves a list and a length.
LEMMA OverType ==
    ASSUME NEW ms \in SUBSET Module,
           NEW old \in [list : SUBSET Module, size : Nat]
    PROVE  Over(old, ms) \in [list : SUBSET Module, size : Nat]
BY SizeType DEF Over

-----------------------------------------------------------------------------
(* The steps *)

LEMMA FileStart == FileInit => FileInv
<1> SUFFICES ASSUME FileInit
             PROVE  FileInv
  OBVIOUS
<1>1. FileTypeOK
  BY DiskAssumption DEF FileInit, FileTypeOK, EmptyText, NoEdit, EditOp
<1>2. OneInTemp /\ TempKnown /\ OneBusy /\ EditKnown /\ WholeUnlessClash /\ EditsKept
  BY DEF FileInit, OneInTemp, TempKnown, OneBusy, EditKnown, WholeUnlessClash, EditsKept,
     InTemp, Readable, Listed
<1>3. QED
  BY <1>1, <1>2 DEF FileInv

\* A writer that begins while another one is busy overlaps with it.
LEMMA ReadListInv ==
    ASSUME FileInv, NEW w \in Writer, NEW op \in EditOp, NEW m \in Module, ReadList(w, op, m)
    PROVE  FileInv'
<1> USE DEF FileInv, onDisk
<1>1. /\ writing[w] = "idle" /\ writing' = [writing EXCEPT ![w] = "ready"]
      /\ job' = [job EXCEPT ![w] = [op |-> op, of |-> {m}, list |-> AfterEdit(op, m, Listed)]]
      /\ overlapped' = (overlapped \/ \E v \in Writer : writing[v] # "idle")
      /\ UNCHANGED <<content, registry, temp, opened, meant, clashed>>
  BY DEF ReadList
<1>2. Listed \in SUBSET Module
  BY DEF Listed, FileTypeOK
<1>3. FileTypeOK'
  BY <1>1, <1>2 DEF FileTypeOK, AfterEdit
<1>4. \A v \in Writer : InTemp(v)' <=> InTemp(v)
  BY <1>1 DEF InTemp, FileTypeOK
<1>5. OneInTemp'
  BY <1>1, <1>4 DEF OneInTemp
<1>6. TempKnown'
  BY <1>1, <1>4 DEF TempKnown, FileTypeOK, InTemp
<1>7. OneBusy'
  BY <1>1 DEF OneBusy, FileTypeOK
<1>8. EditKnown'
  BY <1>1 DEF EditKnown, EditsKept, AfterEdit, FileTypeOK
<1>9. WholeUnlessClash' /\ EditsKept'
  BY <1>1 DEF WholeUnlessClash, EditsKept, Readable, Listed
<1>10. QED
  BY <1>3, <1>5, <1>6, <1>7, <1>8, <1>9

\* A file that is opened is not registry.json, and is empty; without a clash
\* nobody else is in it.
LEMMA OpenTempInv ==
    ASSUME FileInv, NEW w \in Writer, OpenTemp(w)
    PROVE  FileInv'
<1> USE DEF FileInv
<1>1. /\ writing[w] = "ready" /\ writing' = [writing EXCEPT ![w] = "open"]
      /\ opened' = [opened EXCEPT ![w] = temp']
      /\ clashed' = (clashed \/ \E v \in Writer : InTemp(v))
      /\ UNCHANGED <<registry, job, meant, overlapped>>
  BY DEF OpenTemp
<1>2. /\ temp' \in Inode \ {registry} /\ content' = [content EXCEPT ![temp'] = EmptyText]
      /\ temp = NoInode \/ temp' = temp
  <2>1. CASE temp = NoInode
    <3>1. /\ Free # {} /\ temp' = FreeInode
          /\ content' = [content EXCEPT ![temp'] = EmptyText]
      BY <2>1 DEF OpenTemp
    <3>2. FreeInode \in Free
      BY <3>1 DEF FreeInode
    <3>3. QED
      BY <2>1, <3>1, <3>2 DEF Free
  <2>2. CASE temp # NoInode
    BY <2>2 DEF OpenTemp, Truncated, FileTypeOK
  <2>3. QED
    BY <2>1, <2>2
<1>3. FileTypeOK'
  BY <1>1, <1>2, DiskAssumption DEF FileTypeOK, EmptyText
<1>4. ~clashed' => ~clashed /\ \A v \in Writer : ~InTemp(v)
  BY <1>1
<1>5. \A v \in Writer \ {w} : writing'[v] = writing[v] /\ opened'[v] = opened[v]
  BY <1>1 DEF FileTypeOK
<1>6. writing'[w] = "open" /\ opened'[w] = temp'
  BY <1>1 DEF FileTypeOK
<1>7. OneInTemp'
  BY <1>4, <1>5 DEF OneInTemp, InTemp
<1>8. TempKnown'
  <2> SUFFICES ASSUME NEW v \in Writer
               PROVE  /\ writing'[v] # "open" => opened'[v] = NoInode
                      /\ ~clashed' /\ InTemp(v)' => temp' # NoInode
                      /\ ~clashed' /\ writing'[v] = "open" =>
                            opened'[v] = temp' /\ content'[temp'] = EmptyText
                      /\ ~clashed' /\ writing'[v] = "written" =>
                            content'[temp'] = TextOf(job'[v].list)
    BY DEF TempKnown
  <2>1. CASE v = w
    BY <1>2, <1>6, <2>1, DiskAssumption DEF FileTypeOK
  <2>2. CASE v # w
    BY <1>4, <1>5, <2>2 DEF TempKnown, InTemp
  <2>3. QED
    BY <2>1, <2>2
<1>9. OneBusy' /\ EditKnown'
  <2>1. \A v \in Writer : writing'[v] # "idle" => writing[v] # "idle"
    BY <1>1, <1>5
  <2>2. ~overlapped => \A v \in Writer : ~InTemp(v)
    BY <1>1 DEF OneBusy, InTemp
  <2>3. OneBusy'
    BY <1>1, <2>1, <2>2 DEF OneBusy
  <2>4. EditKnown'
    BY <1>1, <2>1 DEF EditKnown
  <2>5. QED
    BY <2>3, <2>4
<1>10. WholeUnlessClash' /\ EditsKept'
  <2>1. registry # NoInode => content'[registry] = content[registry]
    BY <1>2 DEF FileTypeOK
  <2>2. QED
    BY <1>1, <1>4, <2>1 DEF WholeUnlessClash, EditsKept, Readable, Listed
<1>11. QED
  BY <1>3, <1>7, <1>8, <1>9, <1>10

\* The write goes to the file that was opened: without a clash the temporary
\* one, still empty.
LEMMA WriteTempInv ==
    ASSUME FileInv, NEW w \in Writer, WriteTemp(w)
    PROVE  FileInv'
<1> USE DEF FileInv
<1>1. /\ writing[w] = "open" /\ writing' = [writing EXCEPT ![w] = "written"]
      /\ content' = [content EXCEPT ![opened[w]] = Over(@, job[w].list)]
      /\ opened' = [opened EXCEPT ![w] = NoInode]
      /\ UNCHANGED <<registry, temp, job, meant, overlapped, clashed>>
  BY DEF WriteTemp
<1>2. job[w].list \in SUBSET Module
  BY DEF FileTypeOK
<1>3. FileTypeOK'
  <2>1. content' \in [Inode -> [list : SUBSET Module, size : Nat]]
    <3>1. \A i \in Inode : Over(content[i], job[w].list) \in [list : SUBSET Module, size : Nat]
      BY <1>2, OverType DEF FileTypeOK
    <3>2. QED
      BY <1>1, <3>1 DEF FileTypeOK
  <2>2. QED
    BY <1>1, <2>1 DEF FileTypeOK
<1>4. \A v \in Writer \ {w} : writing'[v] = writing[v] /\ opened'[v] = opened[v]
  BY <1>1 DEF FileTypeOK
<1>5. writing'[w] = "written" /\ opened'[w] = NoInode
  BY <1>1 DEF FileTypeOK
<1>6. \A v \in Writer : InTemp(v)' <=> InTemp(v)
  BY <1>1, <1>4, <1>5 DEF InTemp
<1>7. ~clashed => /\ temp \in Inode \ {registry} /\ content'[temp] = TextOf(job[w].list)
                  /\ \A i \in Inode \ {temp} : content'[i] = content[i]
                  /\ \A v \in Writer \ {w} : ~InTemp(v)
  <2> SUFFICES ASSUME ~clashed
               PROVE  /\ temp \in Inode \ {registry} /\ content'[temp] = TextOf(job[w].list)
                      /\ \A i \in Inode \ {temp} : content'[i] = content[i]
                      /\ \A v \in Writer \ {w} : ~InTemp(v)
    OBVIOUS
  <2>1. InTemp(w) /\ opened[w] = temp /\ content[temp] = EmptyText /\ temp # NoInode
    BY <1>1 DEF TempKnown, InTemp
  <2>2. temp \in Inode \ {registry}
    BY <2>1 DEF FileTypeOK
  <2>3. content'[temp] = TextOf(job[w].list)
    BY <1>1, <1>2, <2>1, <2>2, WriteEmpty DEF FileTypeOK
  <2>4. \A i \in Inode \ {temp} : content'[i] = content[i]
    BY <1>1, <2>1 DEF FileTypeOK
  <2>5. \A v \in Writer \ {w} : ~InTemp(v)
    BY <2>1 DEF OneInTemp
  <2>6. QED
    BY <2>2, <2>3, <2>4, <2>5
<1>8. OneInTemp'
  BY <1>1, <1>6 DEF OneInTemp
<1>9. TempKnown'
  <2> SUFFICES ASSUME NEW v \in Writer
               PROVE  /\ writing'[v] # "open" => opened'[v] = NoInode
                      /\ ~clashed' /\ InTemp(v)' => temp' # NoInode
                      /\ ~clashed' /\ writing'[v] = "open" =>
                            opened'[v] = temp' /\ content'[temp'] = EmptyText
                      /\ ~clashed' /\ writing'[v] = "written" =>
                            content'[temp'] = TextOf(job'[v].list)
    BY DEF TempKnown
  <2>1. CASE v = w
    BY <1>1, <1>5, <1>7, <2>1, DiskAssumption
  <2>2. CASE v # w
    BY <1>1, <1>4, <1>7, <2>2 DEF TempKnown, InTemp
  <2>3. QED
    BY <2>1, <2>2
<1>10. OneBusy' /\ EditKnown'
  <2>1. \A v \in Writer : writing'[v] # "idle" => writing[v] # "idle"
    BY <1>1, <1>4
  <2>2. QED
    BY <1>1, <2>1 DEF OneBusy, EditKnown
<1>11. WholeUnlessClash'
  BY <1>1, <1>7 DEF WholeUnlessClash, Readable, FileTypeOK
<1>12. EditsKept'
  BY <1>1, <1>7 DEF EditsKept, OneBusy, Listed, FileTypeOK
<1>13. QED
  BY <1>3, <1>8, <1>9, <1>10, <1>11, <1>12

\* What is renamed is, without a clash, the whole text of the writer itself.
LEMMA ReplaceInv ==
    ASSUME FileInv, NEW w \in Writer, Replace(w)
    PROVE  FileInv'
<1> USE DEF FileInv
<1>1. /\ writing[w] = "written" /\ temp # NoInode
      /\ registry' = temp /\ temp' = NoInode /\ content' = Dropped(registry)
      /\ writing' = [writing EXCEPT ![w] = "idle"] /\ job' = [job EXCEPT ![w] = NoEdit]
      /\ meant' = IF job[w].op = "add" THEN meant \cup job[w].of ELSE meant \ job[w].of
      /\ UNCHANGED <<opened, overlapped, clashed>>
  BY DEF Replace
<1>2. temp \in Inode /\ temp # registry
  BY <1>1 DEF FileTypeOK
<1>3. content'[temp] = content[temp]
  BY <1>1, <1>2 DEF Dropped
<1>4. FileTypeOK'
  BY <1>1, <1>2, DiskAssumption DEF FileTypeOK, Dropped, EmptyText, NoEdit, EditOp
<1>5. \A v \in Writer \ {w} : writing'[v] = writing[v] /\ job'[v] = job[v]
  BY <1>1 DEF FileTypeOK
<1>6. writing'[w] = "idle"
  BY <1>1 DEF FileTypeOK
<1>7. ~clashed => \A v \in Writer : ~InTemp(v)'
  BY <1>1, <1>5, <1>6 DEF OneInTemp, InTemp
<1>8. OneInTemp' /\ TempKnown'
  BY <1>1, <1>5, <1>6, <1>7 DEF OneInTemp, TempKnown, InTemp
<1>9. OneBusy'
  BY <1>1, <1>5, <1>6 DEF OneBusy
<1>10. EditKnown'
  BY <1>1, <1>5, <1>6 DEF EditKnown, OneBusy
<1>11. ~clashed => content'[temp] = TextOf(job[w].list) /\ job[w].list \in SUBSET Module
  BY <1>1, <1>3 DEF TempKnown, FileTypeOK
<1>12. WholeUnlessClash'
  BY <1>1, <1>11, WriteEmpty DEF WholeUnlessClash, Readable
<1>13. EditsKept'
  BY <1>1, <1>2, <1>11, DiskAssumption DEF EditsKept, EditKnown, OneBusy, Listed, TextOf
<1>14. QED
  BY <1>4, <1>8, <1>9, <1>10, <1>12, <1>13

\* Writers that stop half-way, for whatever reason, leave the disk as it is.
LEMMA GiveUpInv ==
    ASSUME FileInv, NEW ws, GiveUp(ws)
    PROVE  FileInv'
<1> USE DEF FileInv, onDisk
<1>1. /\ UNCHANGED <<content, registry, temp, meant, overlapped, clashed>>
      /\ \A w \in Writer : \/ writing'[w] = "idle" /\ opened'[w] = NoInode
                           \/ writing'[w] = writing[w] /\ job'[w] = job[w] /\ opened'[w] = opened[w]
  BY DEF GiveUp
<1>2. FileTypeOK'
  BY DEF GiveUp, FileTypeOK, NoEdit, EditOp
<1>3. OneInTemp' /\ TempKnown'
  BY <1>1 DEF OneInTemp, TempKnown, InTemp
<1>4. OneBusy' /\ EditKnown'
  BY <1>1 DEF OneBusy, EditKnown
<1>5. WholeUnlessClash' /\ EditsKept'
  BY <1>1 DEF WholeUnlessClash, EditsKept, Readable, Listed
<1>6. QED
  BY <1>2, <1>3, <1>4, <1>5

LEMMA FileKept == FileInv /\ [FileNext]_registryVars => FileInv'
<1> SUFFICES ASSUME FileInv, [FileNext]_registryVars
             PROVE  FileInv'
  OBVIOUS
<1>1. CASE \E w \in Writer, op \in EditOp, m \in Module : ReadList(w, op, m)
  BY <1>1, ReadListInv
<1>2. CASE \E w \in Writer : OpenTemp(w)
  BY <1>2, OpenTempInv
<1>3. CASE \E w \in Writer : WriteTemp(w)
  BY <1>3, WriteTempInv
<1>4. CASE \E w \in Writer : Replace(w)
  BY <1>4, ReplaceInv
<1>5. CASE (\E w \in Writer : MissTemp(w) \/ FailWrite(w)) \/ (\E p \in Process : Die(p))
  BY <1>5, GiveUpInv DEF MissTemp, FailWrite, Die
<1>6. CASE UNCHANGED registryVars
  BY <1>6 DEF registryVars, onDisk, writerVars, FileInv, FileTypeOK, OneInTemp, TempKnown,
     OneBusy, EditKnown, WholeUnlessClash, EditsKept, Readable, Listed, InTemp
<1>7. QED
  BY <1>1, <1>2, <1>3, <1>4, <1>5, <1>6 DEF FileNext

-----------------------------------------------------------------------------
(* The theorems *)

\* The invariant holds in every state: who is in the temporary file and what is
\* in it is known as long as the writers keep out of each other's way.
THEOREM RegistryInductive == FileSpec => []FileInv
BY FileStart, FileKept, PTL DEF FileSpec

\* As long as no two writers of registry.json have used its temporary file at
\* once, the file can be read, whoever has crashed, failed or left the
\* temporary file behind.
THEOREM WholeWithoutClash == FileSpec => []WholeUnlessClash
<1>1. FileInv => WholeUnlessClash
  BY DEF FileInv
<1>2. QED
  BY <1>1, RegistryInductive, PTL

\* As long as no writer has read the list while another one was between its
\* read and its replace, registry.json lists what the completed edits meant.
THEOREM EditsAreKept == FileSpec => []EditsKept
<1>1. FileInv => EditsKept
  BY DEF FileInv
<1>2. QED
  BY <1>1, RegistryInductive, PTL

-----------------------------------------------------------------------------
(* registry.json as one list, replaced in one step *)

\* What the file and the writers are to AtomicRegistry.
OnFile == IF Readable THEN Listed ELSE Garbled
InHand == [w \in Writer |-> IF writing[w] = "idle" THEN Atomic!Nothing
                            ELSE Atomic!Holding(job[w].list)]

\* The actions of AtomicRegistry, of this list.
LEMMA AtomicActions ==
    ASSUME NEW w, NEW m, NEW ws
    PROVE  /\ Atomic!Read(w, m) <=>
                 /\ InHand[w] = Atomic!Nothing
                 /\ \E ms \in {OnFile \cup {m}, OnFile \ {m}} :
                       ms # OnFile /\ InHand' = [InHand EXCEPT ![w] = Atomic!Holding(ms)]
                 /\ OnFile' = OnFile
           /\ Atomic!Replace(w) <=>
                 /\ InHand[w] # Atomic!Nothing /\ OnFile' = InHand[w].list
                 /\ InHand' = [InHand EXCEPT ![w] = Atomic!Nothing]
           /\ Atomic!Abandon(ws) <=>
                 /\ InHand' = [v \in Writer |-> IF v \in ws THEN Atomic!Nothing ELSE InHand[v]]
                 /\ OnFile' = OnFile
<1> USE DEF OnFile, InHand, Atomic!Nothing, Atomic!Holding
<1>1. Atomic!Read(w, m) <=>
         /\ InHand[w] = Atomic!Nothing
         /\ \E ms \in {OnFile \cup {m}, OnFile \ {m}} :
               ms # OnFile /\ InHand' = [InHand EXCEPT ![w] = Atomic!Holding(ms)]
         /\ OnFile' = OnFile
  BY Zenon DEF Atomic!Read
<1>2. Atomic!Replace(w) <=>
         /\ InHand[w] # Atomic!Nothing /\ OnFile' = InHand[w].list
         /\ InHand' = [InHand EXCEPT ![w] = Atomic!Nothing]
  BY Zenon DEF Atomic!Replace
<1>3. Atomic!Abandon(ws) <=>
         /\ InHand' = [v \in Writer |-> IF v \in ws THEN Atomic!Nothing ELSE InHand[v]]
         /\ OnFile' = OnFile
  BY Zenon DEF Atomic!Abandon
<1>4. QED
  BY <1>1, <1>2, <1>3

\* The steps of AtomicRegistry: anything once the writers have clashed, and one
\* of its actions, or none, before.
LEMMA AtomicSteps ==
    /\ clashed' => [Atomic!Next]_Atomic!vars
    /\ ~clashed /\ clashed' = clashed =>
          /\ \A w \in Writer, m \in Module : Atomic!Read(w, m) => [Atomic!Next]_Atomic!vars
          /\ \A w \in Writer : Atomic!Replace(w) => [Atomic!Next]_Atomic!vars
          /\ \A ws \in SUBSET Writer : Atomic!Abandon(ws) => [Atomic!Next]_Atomic!vars
          /\ OnFile' = OnFile /\ InHand' = InHand => [Atomic!Next]_Atomic!vars
<1>1. clashed' => [Atomic!Next]_Atomic!vars
  BY Zenon DEF Atomic!Next
<1>2. ASSUME ~clashed, clashed' = clashed,
             \/ \E w \in Writer, m \in Module : Atomic!Read(w, m)
             \/ \E w \in Writer : Atomic!Replace(w)
             \/ \E ws \in SUBSET Writer : Atomic!Abandon(ws)
      PROVE  Atomic!Next
  BY <1>2, Zenon DEF Atomic!Next
<1>3. ASSUME ~clashed, clashed' = clashed, OnFile' = OnFile, InHand' = InHand
      PROVE  UNCHANGED Atomic!vars
  BY <1>3, Zenon DEF Atomic!vars, OnFile, InHand, Atomic!Nothing, Atomic!Holding
<1>4. QED
  BY <1>1, <1>2, <1>3

LEMMA AtomicInit == FileInit => Atomic!Init
<1> SUFFICES ASSUME FileInit
             PROVE  Atomic!Init
  OBVIOUS
<1>1. OnFile = {} /\ clashed = FALSE
  BY DEF FileInit, OnFile, Readable, Listed
<1>2. InHand = [w \in Writer |-> Atomic!Nothing]
  BY DEF FileInit, InHand
<1>3. QED
  BY <1>1, <1>2, Zenon DEF Atomic!Init, OnFile, InHand, Atomic!Nothing, Atomic!Holding

\* What a writer holds while it is at work, and while it is not.
LEMMA InHandOf ==
    ASSUME NEW w \in Writer
    PROVE  /\ writing[w] = "idle" => InHand[w] = Atomic!Nothing
           /\ writing[w] # "idle" => /\ InHand[w] = Atomic!Holding(job[w].list)
                                     /\ InHand[w] # Atomic!Nothing
                                     /\ InHand[w].list = job[w].list
BY DEF InHand, Atomic!Nothing, Atomic!Holding

\* A writer that takes up an edit reads the list.
LEMMA ReadListAtomic ==
    ASSUME FileInv, ~clashed, NEW w \in Writer, NEW op \in EditOp, NEW m \in Module,
           ReadList(w, op, m)
    PROVE  Atomic!Read(w, m)
<1>1. /\ writing[w] = "idle" /\ Readable /\ (op = "add" <=> m \notin Listed)
      /\ writing' = [writing EXCEPT ![w] = "ready"]
      /\ job' = [job EXCEPT ![w] = [op |-> op, of |-> {m}, list |-> AfterEdit(op, m, Listed)]]
      /\ UNCHANGED <<content, registry>>
  BY DEF ReadList, onDisk
<1>2. OnFile = Listed /\ OnFile' = OnFile
  BY <1>1 DEF OnFile, Readable, Listed
<1>3. PICK ms : ms = AfterEdit(op, m, Listed)
  OBVIOUS
<1>4. ms \in {OnFile \cup {m}, OnFile \ {m}} /\ ms # OnFile
  BY <1>1, <1>2, <1>3 DEF AfterEdit
<1>5. /\ writing'[w] = "ready" /\ job'[w].list = ms
      /\ \A v \in Writer \ {w} : writing'[v] = writing[v] /\ job'[v] = job[v]
  BY <1>1, <1>3 DEF FileInv, FileTypeOK
<1>6. InHand' = [InHand EXCEPT ![w] = Atomic!Holding(ms)]
  BY <1>5 DEF InHand
<1>7. InHand[w] = Atomic!Nothing
  BY <1>1, InHandOf
<1>8. QED
  BY <1>2, <1>4, <1>6, <1>7, AtomicActions

\* What a writer does in the temporary file is not seen in registry.json.
LEMMA TempUnseen ==
    ASSUME FileInv, FileInv', ~clashed, NEW w \in Writer, OpenTemp(w) \/ WriteTemp(w)
    PROVE  OnFile' = OnFile /\ InHand' = InHand
<1>1. /\ writing[w] \in {"ready", "open"} /\ UNCHANGED <<registry, job>>
      /\ \E stage \in {"open", "written"} : writing' = [writing EXCEPT ![w] = stage]
  BY DEF OpenTemp, WriteTemp
<1>2. InHand' = InHand
  BY <1>1 DEF InHand, FileInv, FileTypeOK
<1>3. registry # NoInode => content'[registry] = content[registry]
  <2>1. CASE OpenTemp(w)
    <3>1. temp' # registry \/ registry = NoInode
      BY <1>1 DEF FileInv, FileTypeOK
    <3>2. content' = [content EXCEPT ![temp'] = EmptyText]
      BY <2>1 DEF OpenTemp, Truncated
    <3>3. QED
      BY <3>1, <3>2 DEF FileInv, FileTypeOK
  <2>2. CASE WriteTemp(w)
    <3>1. writing[w] = "open" /\ content' = [content EXCEPT ![opened[w]] = Over(@, job[w].list)]
      BY <2>2 DEF WriteTemp
    <3>2. opened[w] = temp /\ (temp = registry => registry = NoInode)
      BY <3>1 DEF FileInv, FileTypeOK, TempKnown
    <3>3. QED
      BY <3>1, <3>2 DEF FileInv, FileTypeOK
  <2>3. QED
    BY <2>1, <2>2
<1>4. OnFile' = OnFile
  BY <1>1, <1>3 DEF OnFile, Readable, Listed
<1>5. QED
  BY <1>2, <1>4

\* What is renamed is the list that its writer has made.
LEMMA ReplaceAtomic ==
    ASSUME FileInv, FileInv', ~clashed, NEW w \in Writer, Replace(w)
    PROVE  Atomic!Replace(w)
<1>1. /\ writing[w] = "written" /\ temp # NoInode
      /\ registry' = temp /\ temp' = NoInode /\ content' = Dropped(registry)
      /\ writing' = [writing EXCEPT ![w] = "idle"] /\ job' = [job EXCEPT ![w] = NoEdit]
      /\ clashed' = clashed
  BY DEF Replace
<1>2. content[temp] = TextOf(job[w].list)
  BY <1>1 DEF FileInv, TempKnown
<1>3. content'[temp] = content[temp] /\ temp \in Inode
  BY <1>1 DEF FileInv, FileTypeOK, Dropped
<1>4. Readable'
  BY <1>1 DEF FileInv, WholeUnlessClash
<1>5. OnFile' = job[w].list
  BY <1>1, <1>2, <1>3, <1>4 DEF OnFile, Listed, TextOf
<1>6. /\ writing'[w] = "idle"
      /\ \A v \in Writer \ {w} : writing'[v] = writing[v] /\ job'[v] = job[v]
  BY <1>1 DEF FileInv, FileTypeOK
<1>7. InHand' = [InHand EXCEPT ![w] = Atomic!Nothing]
  BY <1>6 DEF InHand
<1>8. InHand[w] # Atomic!Nothing /\ InHand[w].list = job[w].list
  BY <1>1, InHandOf
<1>9. QED
  BY <1>5, <1>7, <1>8, AtomicActions

\* Writers that fail or die abandon their lists.
LEMMA GiveUpAtomic ==
    ASSUME NEW ws, GiveUp(ws)
    PROVE  Atomic!Abandon(ws)
<1>1. OnFile' = OnFile
  BY DEF GiveUp, onDisk, OnFile, Readable, Listed
<1>2. \A v \in Writer : /\ writing'[v] = IF v \in ws THEN "idle" ELSE writing[v]
                        /\ v \notin ws => job'[v] = job[v]
  BY DEF GiveUp
<1>3. InHand' = [v \in Writer |-> IF v \in ws THEN Atomic!Nothing ELSE InHand[v]]
  BY <1>2 DEF InHand
<1>4. QED
  BY <1>1, <1>3, AtomicActions

LEMMA AtomicStep == FileInv /\ FileInv' /\ [FileNext]_registryVars => [Atomic!Next]_Atomic!vars
<1> SUFFICES ASSUME FileInv, FileInv', [FileNext]_registryVars, ~clashed'
             PROVE  [Atomic!Next]_Atomic!vars
  BY AtomicSteps
<1>1. ~clashed /\ clashed' = clashed
  <2>1. clashed => clashed'
    BY DEF FileNext, ReadList, OpenTemp, WriteTemp, Replace, MissTemp, FailWrite, Die, GiveUp,
       registryVars
  <2>2. clashed \in BOOLEAN /\ clashed' \in BOOLEAN
    BY DEF FileInv, FileTypeOK
  <2>3. QED
    BY <2>1, <2>2, Zenon
<1>2. CASE \E w \in Writer, op \in EditOp, m \in Module : ReadList(w, op, m)
  BY <1>1, <1>2, ReadListAtomic, AtomicSteps
<1>3. CASE \E w \in Writer : OpenTemp(w) \/ WriteTemp(w)
  BY <1>1, <1>3, TempUnseen, AtomicSteps
<1>4. CASE \E w \in Writer : Replace(w)
  BY <1>1, <1>4, ReplaceAtomic, AtomicSteps
<1>5. CASE (\E w \in Writer : MissTemp(w) \/ FailWrite(w)) \/ (\E p \in Process : Die(p))
  <2>1. \E ws \in SUBSET Writer : GiveUp(ws)
    BY <1>5, DiskAssumption DEF MissTemp, FailWrite, Die
  <2>2. QED
    BY <1>1, <2>1, GiveUpAtomic, AtomicSteps
<1>6. CASE UNCHANGED registryVars
  <2>1. OnFile' = OnFile /\ InHand' = InHand
    BY <1>6 DEF registryVars, onDisk, writerVars, OnFile, InHand, Readable, Listed
  <2>2. QED
    BY <1>1, <2>1, AtomicSteps
<1>7. QED
  BY <1>2, <1>3, <1>4, <1>5, <1>6 DEF FileNext

\* As long as no two writers are in the temporary file at once, the system calls
\* that write registry.json implement one atomic replacement of a list by one
\* that a writer has made of a list it read, for any writers, processes, modules
\* and inodes, wherever writers fail or die.
THEOREM RegistryImplemented == FileSpec => ImplementsRegistry
BY AtomicInit, AtomicStep, RegistryInductive, PTL DEF FileSpec, ImplementsRegistry, Atomic!Spec

-----------------------------------------------------------------------------
(* The event log *)

\* Elements and length of one log appended to another.
LEMMA LogConcat ==
    ASSUME NEW s \in Seq(LogLine), NEW r \in Seq(LogLine)
    PROVE  /\ s \o r \in Seq(LogLine) /\ Len(s \o r) = Len(s) + Len(r)
           /\ DOMAIN s = 1..Len(s) /\ DOMAIN r = 1..Len(r)
           /\ DOMAIN (s \o r) = 1..(Len(s) + Len(r))
           /\ Len(s) \in Nat /\ Len(r) \in Nat
           /\ \A i \in 1..Len(s) : (s \o r)[i] = s[i]
           /\ \A i \in 1..Len(r) : (s \o r)[Len(s) + i] = r[i]
OBVIOUS

\* What a line says of its record.
LEMMA LineFields ==
    /\ \A k \in 1..MaxRecords, p \in BOOLEAN : /\ Line(k, p) \in LogLine
                                               /\ Line(k, p).rec = k
    /\ \A k : Line(k, TRUE).parses /\ ~Line(k, FALSE).parses
    /\ \A e \in LogLine : e.rec \in Nat /\ (~e.parses => Line(e.rec, FALSE) = e)
BY EventAssumption DEF Line, LogLine

\* A last line that is spoilt already can be spoilt again.
LEMMA SpoiltAgain ==
    ASSUME NEW s \in Seq(LogLine), s # <<>>, ~s[Len(s)].parses
    PROVE  SubSeq(s, 1, Len(s) - 1) \o <<Line(s[Len(s)].rec, FALSE)>> = s
<1>1. Len(s) \in 1..Len(s) /\ 1 \in 1..Len(s) /\ Len(s) \in 1..Len(s)
  BY EmptySeq
<1>2. s[Len(s)] \in LogLine
  BY <1>1, ElementOfSeq
<1>3. Line(s[Len(s)].rec, FALSE) = s[Len(s)]
  BY <1>2, LineFields
<1>4. SubSeq(s, 1, Len(s)) = SubSeq(s, 1, Len(s) - 1) \o <<s[Len(s)]>>
  BY <1>1, SubSeqRecursiveSecond
<1>5. SubSeq(s, 1, Len(s)) = s
  BY SubSeqFull
<1>6. QED
  BY <1>3, <1>4, <1>5

\* An unfinished line is spoilt already, so joining a record to it changes no
\* line: the log is extended by the record's lines, or by all but the first.
LEMMA JoinExtends ==
    ASSUME EventInv, NEW new \in Seq(LogLine), new # <<>>
    PROVE  Joined(new) = lines \o IF midline /\ lines # <<>> THEN Tail(new) ELSE new
<1>1. lines \in Seq(LogLine) /\ TornAtEnd(lines, midline)
  BY DEF EventInv, EventTypeOK, LogInv
<1>2. CASE midline /\ lines # <<>>
  <2>1. SubSeq(lines, 1, Len(lines) - 1) \o <<Line(lines[Len(lines)].rec, FALSE)>> = lines
    BY <1>1, <1>2, SpoiltAgain DEF TornAtEnd
  <2>2. QED
    BY <1>2, <2>1 DEF Joined
<1>3. CASE ~(midline /\ lines # <<>>)
  BY <1>3 DEF Joined
<1>4. QED
  BY <1>2, <1>3

\* A log, or a copy of it, that is extended by lines of the next record, or by
\* none if the record is exposed.
LEMMA Extended ==
    ASSUME NEW s \in Seq(LogLine), NEW r \in Seq(LogLine), NEW t, t = s \o r,
           written \in Nat, written' = written + 1, exposed \subseteq exposed',
           InOrder(s), KeepsRecent(s),
           \A i \in DOMAIN r : r[i].rec = written + 1,
           Len(r) <= 1 \/ \A i \in DOMAIN r : ~r[i].parses,
           written + 1 \in exposed' \/ r = <<Line(written + 1, TRUE)>>
    PROVE  t \in Seq(LogLine) /\ InOrder(t)' /\ KeepsRecent(t)'
<1>1. /\ t \in Seq(LogLine) /\ Len(t) = Len(s) + Len(r)
      /\ DOMAIN s = 1..Len(s) /\ DOMAIN r = 1..Len(r) /\ DOMAIN t = 1..(Len(s) + Len(r))
      /\ Len(s) \in Nat /\ Len(r) \in Nat
      /\ \A i \in 1..Len(s) : t[i] = s[i]
      /\ \A i \in 1..Len(r) : t[Len(s) + i] = r[i]
  BY LogConcat
<1>2. ASSUME NEW i \in DOMAIN t
      PROVE  \/ i \in 1..Len(s) /\ t[i] = s[i] /\ t[i].rec <= written
             \/ i \notin 1..Len(s) /\ i - Len(s) \in DOMAIN r /\ t[i] = r[i - Len(s)]
                /\ t[i].rec = written + 1
  <2>1. CASE i \in 1..Len(s)
    BY <1>1, <2>1 DEF InOrder
  <2>2. CASE i \notin 1..Len(s)
    <3>1. i - Len(s) \in 1..Len(r) /\ Len(s) + (i - Len(s)) = i
      BY <1>1, <2>2
    <3>2. t[i] = r[i - Len(s)]
      BY <1>1, <3>1
    <3>3. QED
      BY <1>1, <2>2, <3>1, <3>2
  <2>3. QED
    BY <2>1, <2>2
<1>3. \A i \in 1..Len(s) : s[i].rec \in Nat
  BY ElementOfSeq, LineFields, Zenon
<1>4. InOrder(t)'
  <2>1. \A i \in DOMAIN t : t[i].rec <= written'
    BY <1>1, <1>2, <1>3
  <2>2. ASSUME NEW i \in DOMAIN t, NEW j \in DOMAIN t, i < j
        PROVE  \/ t[i].rec < t[j].rec
               \/ (t[i].rec = t[j].rec /\ ~t[i].parses /\ ~t[j].parses)
    <3>1. CASE i \in 1..Len(s) /\ j \in 1..Len(s)
      BY <1>1, <2>2, <3>1 DEF InOrder
    <3>2. CASE i \in 1..Len(s) /\ j \notin 1..Len(s)
      BY <1>1, <1>2, <1>3, <3>2
    <3>3. CASE i \notin 1..Len(s)
      <4>1. /\ i - Len(s) \in DOMAIN r /\ j - Len(s) \in DOMAIN r /\ j \notin 1..Len(s)
            /\ i - Len(s) # j - Len(s)
        BY <1>1, <2>2, <3>3
      <4>2. Len(r) > 1
        BY <1>1, <4>1
      <4>3. ~t[i].parses /\ ~t[j].parses /\ t[i].rec = t[j].rec
        BY <1>1, <1>2, <3>3, <4>1, <4>2
      <4>4. QED
        BY <4>3
    <3>4. QED
      BY <3>1, <3>2, <3>3
  <2>3. QED
    BY <2>1, <2>2 DEF InOrder
<1>5. KeepsRecent(t)'
  <2>1. ASSUME NEW n \in 1..written'
        PROVE  \/ ReportedIn(t, n)
               \/ n \in exposed'
               \/ Len(t) >= MaxLines /\ \A i \in DOMAIN t : t[i].rec > n
    <3>1. CASE n = written + 1
      <4>1. CASE r = <<Line(written + 1, TRUE)>>
        <5>1. Len(r) = 1 /\ r[1].parses /\ r[1].rec = n
          BY <3>1, <4>1 DEF Line
        <5>2. Len(s) + 1 \in DOMAIN t /\ t[Len(s) + 1] = r[1]
          BY <1>1, <5>1
        <5>3. QED
          BY <5>1, <5>2 DEF ReportedIn
      <4>2. QED
        BY <3>1, <4>1
    <3>2. CASE n \in 1..written
      <4>1. CASE ReportedIn(s, n)
        <5>1. PICK i \in DOMAIN s : s[i].parses /\ s[i].rec = n
          BY <4>1 DEF ReportedIn
        <5>2. i \in DOMAIN t /\ t[i] = s[i]
          BY <1>1
        <5>3. QED
          BY <5>1, <5>2 DEF ReportedIn
      <4>2. CASE n \in exposed
        BY <4>2
      <4>3. CASE Len(s) >= MaxLines /\ \A i \in DOMAIN s : s[i].rec > n
        BY <1>1, <1>2, <3>2, <4>3, EventAssumption
      <4>4. QED
        BY <3>2, <4>1, <4>2, <4>3 DEF KeepsRecent
    <3>3. QED
      BY <3>1, <3>2
  <2>2. QED
    BY <2>1 DEF KeepsRecent, ReportedIn
<1>6. QED
  BY <1>1, <1>4, <1>5

\* The last lines of a copy keep what a log keeps.
LEMMA RotationKeeps ==
    ASSUME NEW s \in Seq(LogLine), NEW mid \in BOOLEAN, Len(s) > MaxLines, LogInv(s, mid)
    PROVE  LastLines(s) \in Seq(LogLine) /\ LogInv(LastLines(s), mid)
<1> USE EventAssumption
<1> DEFINE L == Len(s)
           d == L - MaxLines
           u == LastLines(s)
<1>1. /\ L \in Nat /\ DOMAIN s = 1..L /\ d \in Nat /\ d >= 1 /\ L = d + MaxLines
      /\ \A i \in 1..L : s[i] \in LogLine
  OBVIOUS
<1>2. /\ u \in Seq(LogLine) /\ Len(u) = MaxLines /\ DOMAIN u = 1..MaxLines
      /\ \A i \in 1..MaxLines : u[i] = s[d + i]
  <2>1. u = SubSeq(s, d + 1, L)
    BY <1>1 DEF LastLines
  <2>2. d + 1 \in 1..(L + 1) /\ L \in d..L /\ (L - (d + 1)) + 1 = MaxLines
    BY <1>1
  <2>3. u \in Seq(LogLine) /\ Len(u) = MaxLines
    BY <1>1, <2>1, <2>2
  <2>4. ASSUME NEW i \in 1..MaxLines
        PROVE  u[i] = s[d + i]
    <3>1. u[i] = s[((d + 1) + i) - 1]
      BY <1>1, <2>1, <2>2
    <3>2. ((d + 1) + i) - 1 = d + i
      BY <1>1
    <3>3. QED
      BY <3>1, <3>2
  <2>5. QED
    BY <2>3, <2>4
<1> HIDE DEF d, u
<1>3. \A i \in 1..MaxLines : d + i \in DOMAIN s /\ u[i] = s[d + i]
  BY <1>1, <1>2
<1>4. InOrder(u)
  <2>1. \A i \in DOMAIN u : u[i].rec <= written
    BY <1>2, <1>3 DEF LogInv, InOrder
  <2>2. ASSUME NEW i \in DOMAIN u, NEW j \in DOMAIN u, i < j
        PROVE  \/ u[i].rec < u[j].rec
               \/ (u[i].rec = u[j].rec /\ ~u[i].parses /\ ~u[j].parses)
    <3>1. d + i < d + j
      BY <1>1, <1>2, <2>2
    <3>2. QED
      BY <1>2, <1>3, <3>1 DEF LogInv, InOrder
  <2>3. QED
    BY <2>1, <2>2 DEF InOrder
<1>5. TornAtEnd(u, mid)
  <2>1. u[Len(u)] = s[Len(s)] /\ s # <<>>
    BY <1>1, <1>2, <1>3
  <2>2. QED
    BY <2>1 DEF LogInv, TornAtEnd
<1>6. KeepsRecent(u)
  <2>1. ASSUME NEW n \in 1..written
        PROVE  \/ ReportedIn(u, n)
               \/ n \in exposed
               \/ Len(u) >= MaxLines /\ \A i \in DOMAIN u : u[i].rec > n
    <3>1. CASE ReportedIn(s, n)
      <4>1. PICK k \in DOMAIN s : s[k].parses /\ s[k].rec = n
        BY <3>1 DEF ReportedIn
      <4>2. CASE k > d
        <5>1. k - d \in 1..MaxLines /\ d + (k - d) = k
          BY <1>1, <4>2
        <5>2. u[k - d] = s[k]
          BY <1>3, <5>1
        <5>3. QED
          BY <1>2, <4>1, <5>1, <5>2 DEF ReportedIn
      <4>3. CASE k <= d
        <5>1. ASSUME NEW i \in DOMAIN u
              PROVE  u[i].rec > n
          <6>1. k < d + i /\ d + i \in DOMAIN s /\ u[i] = s[d + i]
            BY <1>1, <1>2, <1>3, <4>3
          <6>2. s[k].rec < s[d + i].rec
            BY <4>1, <6>1 DEF LogInv, InOrder
          <6>3. s[k].rec \in Nat /\ s[d + i].rec \in Nat
            BY <1>1, <6>1 DEF LogLine
          <6>4. QED
            BY <4>1, <6>1, <6>2, <6>3
        <5>2. QED
          BY <1>2, <5>1
      <4>4. QED
        BY <1>1, <4>2, <4>3
    <3>2. CASE n \in exposed
      BY <3>2
    <3>3. CASE \A i \in DOMAIN s : s[i].rec > n
      BY <1>2, <1>3, <3>3
    <3>4. QED
      BY <3>1, <3>2, <3>3 DEF LogInv, KeepsRecent
  <2>2. QED
    BY <2>1 DEF KeepsRecent
<1>7. QED
  BY <1>2, <1>4, <1>5, <1>6 DEF LogInv, u

\* The log is empty, and nobody has it open.
LEMMA LogStart == EventInit => EventInv
<1> SUFFICES ASSUME EventInit
             PROVE  EventInv
  OBVIOUS
<1> USE EventAssumption DEF EventInit, NotRotating
<1>1. EventTypeOK
  <2>1. lines \in Seq(LogLine) /\ rotation \in [on : BOOLEAN, lines : Seq(LogLine), midline : BOOLEAN]
    OBVIOUS
  <2>2. handle \in [Emitter -> Nat] /\ written \in 0..MaxRecords /\ exposed \subseteq 1..MaxRecords
    OBVIOUS
  <2>3. midline \in BOOLEAN
    BY Zenon
  <2>4. version \in Nat \ {0}
    OBVIOUS
  <2>5. QED
    BY <2>1, <2>2, <2>3, <2>4, Zenon DEF EventTypeOK
<1>2. LogInv(lines, midline)
  BY DEF LogInv, InOrder, TornAtEnd, KeepsRecent
<1>3. QED
  BY <1>1, <1>2 DEF EventInv

\* A record is written, whole or not, to the log or to a file that a rotation
\* has replaced.
LEMMA WriteInv ==
    ASSUME EventInv, NEW p \in Emitter, WriteRecord(p)
    PROVE  EventInv'
<1> USE EventAssumption
<1> DEFINE n == written + 1
           current == handle[p] = version
<1>1. /\ written \in Nat /\ n \in 1..MaxRecords /\ written' = n
      /\ lines \in Seq(LogLine) /\ rotation.lines \in Seq(LogLine)
      /\ rotation' = rotation /\ version' = version
      /\ handle' = [handle EXCEPT ![p] = 0]
  BY DEF WriteRecord, EventInv, EventTypeOK
<1>2. PICK shape \in {"whole", "split", "torn"} :
         LET new == CASE shape = "whole" -> <<Line(n, TRUE)>>
                      [] shape = "split" -> <<Line(n, FALSE), Line(n, FALSE)>>
                      [] shape = "torn" -> <<Line(n, FALSE)>>
         IN /\ lines' = IF current THEN Joined(new) ELSE lines
            /\ midline' = IF current THEN shape = "torn" ELSE midline
            /\ exposed' = IF shape # "whole" \/ midline \/ rotation.on \/ ~current
                          THEN exposed \cup {n} ELSE exposed
  BY DEF WriteRecord
<1>3. PICK new : new = CASE shape = "whole" -> <<Line(n, TRUE)>>
                          [] shape = "split" -> <<Line(n, FALSE), Line(n, FALSE)>>
                          [] shape = "torn" -> <<Line(n, FALSE)>>
  OBVIOUS
<1>4. /\ new \in Seq(LogLine) /\ new # <<>>
      /\ \A i \in DOMAIN new : new[i].rec = n
      /\ shape # "whole" => \A i \in DOMAIN new : ~new[i].parses
      /\ shape = "whole" => new = <<Line(n, TRUE)>>
      /\ shape = "torn" => new = <<Line(n, FALSE)>>
  <2>1. PICK w, f : w = Line(n, TRUE) /\ f = Line(n, FALSE)
    OBVIOUS
  <2>2. {w, f} \subseteq LogLine /\ w.rec = n /\ f.rec = n /\ ~f.parses
    BY <1>1, <2>1, LineFields
  <2>3. CASE shape = "whole"
    <3>1. new = <<w>>
      BY <1>3, <2>1, <2>3
    <3>2. <<w>> \in Seq(LogLine) /\ <<w>> # <<>> /\ \A i \in DOMAIN <<w>> : <<w>>[i] = w
      BY <2>2
    <3>3. QED
      BY <2>1, <2>2, <2>3, <3>1, <3>2
  <2>4. CASE shape = "split"
    <3>1. new = <<f, f>>
      BY <1>3, <2>1, <2>4
    <3>2. QED
      BY <2>2, <2>4, <3>1
  <2>6. CASE shape = "torn"
    <3>1. new = <<f>>
      BY <1>3, <2>1, <2>6
    <3>2. <<f>> \in Seq(LogLine) /\ <<f>> # <<>> /\ \A i \in DOMAIN <<f>> : <<f>>[i] = f
      BY <2>2
    <3>3. QED
      BY <2>1, <2>2, <2>6, <3>1, <3>2
  <2>7. QED
    BY <2>3, <2>4, <2>6
<1>5. /\ lines' = IF current THEN Joined(new) ELSE lines
      /\ midline' = IF current THEN shape = "torn" ELSE midline
      /\ exposed' = IF shape # "whole" \/ midline \/ rotation.on \/ ~current
                    THEN exposed \cup {n} ELSE exposed
  BY <1>2, <1>3
<1> HIDE DEF current
<1>6. exposed \subseteq exposed' /\ exposed' \subseteq 1..MaxRecords /\ midline' \in BOOLEAN
  BY <1>1, <1>5 DEF EventInv, EventTypeOK
<1>7. PICK r : r = IF ~current THEN <<>>
                   ELSE IF midline /\ lines # <<>> THEN Tail(new) ELSE new
  OBVIOUS
<1>8. lines' = lines \o r /\ r \in Seq(LogLine)
  <2>1. lines \o <<>> = lines
    BY <1>1
  <2>2. Tail(new) \in Seq(LogLine)
    BY <1>4
  <2>3. Joined(new) = lines \o IF midline /\ lines # <<>> THEN Tail(new) ELSE new
    BY <1>4, JoinExtends
  <2>4. CASE ~current
    <3>1. lines' = lines /\ r = <<>>
      BY <1>5, <1>7, <2>4, Zenon
    <3>2. <<>> \in Seq(LogLine)
      OBVIOUS
    <3>3. QED
      BY <2>1, <3>1, <3>2, Zenon
  <2>5. CASE current
    BY <1>4, <1>5, <1>7, <2>2, <2>3, <2>5
  <2>6. QED
    BY <2>4, <2>5
<1>9. /\ \A i \in DOMAIN r : r[i].rec = n
      /\ Len(r) <= 1 \/ \A i \in DOMAIN r : ~r[i].parses
      /\ n \in exposed' \/ r = <<Line(n, TRUE)>>
  <2>1. CASE r = <<>>
    <3>1. n \in exposed'
      BY <1>4, <1>5, <1>7, <2>1
    <3>2. QED
      BY <2>1, <3>1
  <2>2. CASE r = new
    <3>1. Len(<<Line(n, TRUE)>>) <= 1
      OBVIOUS
    <3>2. QED
      BY <1>4, <1>5, <2>2, <3>1
  <2>3. CASE midline /\ r = Tail(new)
    <3>1. n \in exposed'
      BY <1>5, <2>3
    <3>2. \A i \in DOMAIN r : i + 1 \in DOMAIN new /\ r[i] = new[i + 1]
      BY <1>4, <2>3
    <3>3. shape = "whole" => Len(r) <= 1
      BY <1>4, <2>3
    <3>4. QED
      BY <1>4, <3>1, <3>2, <3>3
  <2>4. QED
    BY <1>7, <2>1, <2>2, <2>3
<1>10. LogInv(lines, midline)'
  <2>1. PICK s, t : s = lines /\ t = lines'
    OBVIOUS
  <2>2. InOrder(s) /\ KeepsRecent(s)
    BY <2>1 DEF EventInv, LogInv, InOrder, KeepsRecent, ReportedIn
  <2>3. t \in Seq(LogLine) /\ InOrder(t)' /\ KeepsRecent(t)'
    BY <1>1, <1>6, <1>8, <1>9, <2>1, <2>2, Extended
  <2>4. TornAtEnd(lines, midline)'
    <3>1. CASE ~current
      <4>1. lines' = lines /\ midline' = midline
        BY <1>5, <3>1
      <4>2. QED
        BY <4>1 DEF EventInv, LogInv, TornAtEnd
    <3>2. CASE current /\ shape # "torn"
      <4>1. midline' = FALSE
        BY <1>5, <3>2
      <4>2. QED
        BY <4>1 DEF TornAtEnd
    <3>3. CASE current /\ shape = "torn" /\ midline /\ lines # <<>>
      <4>1. r = <<>>
        BY <1>4, <1>7, <3>3
      <4>2. lines' = lines
        BY <1>1, <1>8, <4>1
      <4>3. QED
        BY <3>3, <4>2 DEF EventInv, LogInv, TornAtEnd
    <3>4. CASE current /\ shape = "torn" /\ ~(midline /\ lines # <<>>)
      <4>1. r = <<Line(n, FALSE)>>
        BY <1>4, <1>7, <3>4
      <4>2. Len(r) = 1 /\ r[1] = Line(n, FALSE)
        BY <4>1
      <4>3. Len(lines') = Len(lines) + 1 /\ lines'[Len(lines) + 1] = r[1]
        <5>1. Len(lines \o r) = Len(lines) + Len(r)
          BY <1>1, <1>8, LogConcat
        <5>2. (lines \o r)[Len(lines) + 1] = r[1]
          <6>1. \A i \in 1..Len(r) : (lines \o r)[Len(lines) + i] = r[i]
            BY <1>1, <1>8, LogConcat, Zenon
          <6>2. 1 \in 1..Len(r)
            BY <4>2
          <6>3. QED
            BY <6>1, <6>2, Zenon
        <5>3. QED
          BY <1>8, <4>2, <5>1, <5>2
      <4>4. ~lines'[Len(lines')].parses
        BY <4>2, <4>3 DEF Line
      <4>5. QED
        BY <4>4 DEF TornAtEnd
    <3>5. QED
      BY <3>1, <3>2, <3>3, <3>4
  <2>5. QED
    BY <2>1, <2>3, <2>4 DEF LogInv, InOrder, KeepsRecent, ReportedIn
<1>11. rotation.on => /\ Len(rotation.lines) > MaxLines
                      /\ LogInv(rotation.lines, rotation.midline)'
  <2> SUFFICES ASSUME rotation.on
               PROVE  /\ Len(rotation.lines) > MaxLines
                      /\ LogInv(rotation.lines, rotation.midline)'
    OBVIOUS
  <2>1. PICK s : s = rotation.lines
    OBVIOUS
  <2>2. InOrder(s) /\ KeepsRecent(s) /\ TornAtEnd(rotation.lines, rotation.midline)
    BY <2>1 DEF EventInv, LogInv, InOrder, KeepsRecent, ReportedIn
  <2>3. /\ s = s \o <<>> /\ <<>> \in Seq(LogLine) /\ s \in Seq(LogLine) /\ Len(<<>>) <= 1
        /\ DOMAIN <<>> = {}
    BY <1>1, <2>1
  <2>4. n \in exposed'
    BY <1>5
  <2>5. InOrder(s)' /\ KeepsRecent(s)'
    BY <1>1, <1>6, <2>2, <2>3, <2>4, Extended
  <2>6. QED
    BY <1>1, <2>1, <2>2, <2>5 DEF EventInv, LogInv, InOrder, KeepsRecent, ReportedIn, TornAtEnd
<1>12. EventTypeOK'
  <2>1. lines' \in Seq(LogLine)
    BY <1>1, <1>8, LogConcat
  <2>2. {midline', decodes'} \subseteq BOOLEAN
    <3>1. decodes' = decodes \/ decodes' = FALSE
      BY DEF WriteRecord
    <3>2. QED
      BY <1>6, <3>1, Zenon DEF EventInv, EventTypeOK
  <2>3. QED
    BY <1>1, <1>6, <2>1, <2>2 DEF EventInv, EventTypeOK
<1>13. QED
  BY <1>1, <1>10, <1>11, <1>12 DEF EventInv

\* The file is opened or rotated.
LEMMA RotateInv ==
    ASSUME EventInv, BeginRotate \/ EndRotate \/ FailRotate \/ \E p \in Emitter : OpenLog(p)
    PROVE  EventInv'
<1> USE EventAssumption
<1>1. CASE \E p \in Emitter : OpenLog(p)
  <2>1. PICK p \in Emitter : OpenLog(p)
    BY <1>1
  <2>2. EventTypeOK'
    BY <2>1 DEF EventInv, EventTypeOK, OpenLog
  <2>3. QED
    BY <2>1, <2>2 DEF OpenLog, EventInv, LogInv, InOrder, KeepsRecent, ReportedIn, TornAtEnd
<1>2. CASE BeginRotate
  <2>1. EventTypeOK'
    BY <1>2 DEF EventInv, EventTypeOK, BeginRotate
  <2>2. /\ lines' = lines /\ midline' = midline /\ written' = written /\ exposed' = exposed
        /\ rotation'.lines = lines /\ rotation'.midline = midline /\ Len(lines) > MaxLines
    BY <1>2 DEF BeginRotate
  <2>3. QED
    BY <2>1, <2>2 DEF EventInv, LogInv, InOrder, KeepsRecent, ReportedIn, TornAtEnd
<1>3. CASE EndRotate
  <2>1. PICK s, mid : s = rotation.lines /\ mid = rotation.midline
    OBVIOUS
  <2>2. s \in Seq(LogLine) /\ mid \in BOOLEAN /\ Len(s) > MaxLines /\ LogInv(s, mid)
    BY <1>3, <2>1
       DEF EventInv, EventTypeOK, EndRotate, LogInv, InOrder, KeepsRecent, ReportedIn, TornAtEnd
  <2>3. LastLines(s) \in Seq(LogLine) /\ LogInv(LastLines(s), mid)
    BY <2>2, RotationKeeps
  <2>4. /\ lines' = LastLines(s) /\ midline' = mid /\ written' = written /\ exposed' = exposed
        /\ rotation' = NotRotating
    BY <1>3, <2>1 DEF EndRotate
  <2>5. EventTypeOK'
    BY <1>3, <2>2, <2>3, <2>4 DEF EventInv, EventTypeOK, EndRotate, NotRotating
  <2>6. LogInv(lines, midline)'
    BY <2>3, <2>4 DEF LogInv, InOrder, KeepsRecent, ReportedIn, TornAtEnd
  <2>7. QED
    BY <2>4, <2>5, <2>6 DEF EventInv, NotRotating
<1>4. CASE FailRotate
  <2>1. EventTypeOK'
    BY <1>4 DEF EventInv, EventTypeOK, FailRotate, NotRotating
  <2>2. QED
    BY <1>4, <2>1
       DEF FailRotate, NotRotating, EventInv, LogInv, InOrder, KeepsRecent, ReportedIn, TornAtEnd
<1>5. QED
  BY <1>1, <1>2, <1>3, <1>4

\* Every step of the processes that log keeps the invariant.
LEMMA LogKept == EventInv /\ [EventNext]_eventVars => EventInv'
<1>1. ASSUME EventInv, EventNext
      PROVE  EventInv'
  BY <1>1, WriteInv, RotateInv DEF EventNext
<1>2. ASSUME EventInv, UNCHANGED eventVars
      PROVE  EventInv'
  BY <1>2 DEF eventVars, EventInv, EventTypeOK, LogInv, InOrder, KeepsRecent, ReportedIn, TornAtEnd
<1>3. QED
  BY <1>1, <1>2

\* The log, and the copy a rotation works on, are in order and keep what is
\* recent, whatever tears, splits or overtakes a record.
THEOREM LogInductive == EventSpec => []EventInv
<1>1. QED
  BY LogStart, LogKept, PTL DEF EventSpec

\* tail reports records in the order they were written, none twice, for any
\* number of processes, records and kept lines.
THEOREM TailIsInOrder == EventSpec => []TailInOrder
<1>1. EventInv => TailInOrder
  BY DEF EventInv, LogInv, InOrder, TailInOrder
<1>2. QED
  BY <1>1, LogInductive, PTL

\* What was written undisturbed stays in the log, whatever is written around it,
\* until it is older than the last MaxLines lines, and is reported as long as the
\* log can be decoded.
THEOREM RecentIsReported == EventSpec => []RecentReported
<1>1. EventInv => RecentReported
  BY DEF EventInv, LogInv, KeepsRecent, RecentReported, RotatedAway
<1>2. QED
  BY <1>1, LogInductive, PTL
=============================================================================
