--------------------------- MODULE AtomicRegistry ---------------------------
(***************************************************************************)
(* What registry.json promises to those who share it without a lock: it is *)
(* replaced as a whole and in one step, by the list that a writer has made *)
(* out of the one it read.  That one may be out of date by then; half a    *)
(* list, or a mixture of two, is never there.                              *)
(*                                                                         *)
(* These are the reads and writes ModuleLifecycle is made of.  RegistryFile *)
(* implements them with a temporary file, until two writers clash in it.   *)
(***************************************************************************)
CONSTANTS Module,
          Writer  \* what reads and writes the registry

VARIABLES list,   \* the modules that have an entry
          held,   \* per writer, the list that it is going to put in place
          spoiled \* two writers have clashed: nothing is promised any more

vars == <<list, held, spoiled>>

Nothing == [busy |-> FALSE, list |-> {}]
Holding(ms) == [busy |-> TRUE, list |-> ms]

Init == list = {} /\ held = [w \in Writer |-> Nothing] /\ spoiled = FALSE

\* The writer reads the list, and adds or removes an entry.
Read(w, m) == /\ held[w] = Nothing
              /\ \E ms \in {list \cup {m}, list \ {m}} :
                    ms # list /\ held' = [held EXCEPT ![w] = Holding(ms)]
              /\ UNCHANGED list
Replace(w) == /\ held[w] # Nothing
              /\ list' = held[w].list
              /\ held' = [held EXCEPT ![w] = Nothing]
\* Writers fail, or die together.
Abandon(ws) == /\ held' = [w \in Writer |-> IF w \in ws THEN Nothing ELSE held[w]]
               /\ UNCHANGED list

Next == \/ spoiled'
        \/ /\ ~spoiled /\ UNCHANGED spoiled
           /\ \/ \E w \in Writer : Replace(w) \/ \E m \in Module : Read(w, m)
              \/ \E ws \in SUBSET Writer : Abandon(ws)

Spec == Init /\ [][Next]_vars
=============================================================================
