---------------------------- MODULE MCServices -----------------------------
(***************************************************************************)
(* The services beside the installer and the turns share no state: a       *)
(* behaviour picks one of them (focus) and runs it; the others rest in one *)
(* of their initial states.                                                *)
(***************************************************************************)
EXTENDS BridgeConfig, LanguageCache, EventLog, AutoCommit, EmbeddingIndex, ReplyStream,
        RegistryFile, ChatClient

VARIABLE focus
langSide == <<bridgeVars, langVars>>
logSide == <<eventVars, registryVars>>
knowledge == <<commitVars, searchVars>>
turn == <<replyVars, chatVars>>
vars == <<langSide, logSide, knowledge, turn, focus>>

\* Block lengths that touch every branch of chunk_markdown at its limit.
MCTexts == {<<>>, <<2, 1>>, <<1, 2, 7>>}
MCSamples == {<<a, b>> : a \in {1, 4}, b \in {1, 3, 5, 6}} \cup {<<5, 1, 11>>, <<3, 3, 1>>}

Service == {"bridge", "language", "events", "registry", "commit", "search", "reply", "chat"}
Init == /\ focus \in Service
        /\ BridgeInit /\ (focus # "bridge" => entry = Absent /\ dirs = Dir)
        /\ LangInit /\ (focus # "language" =>
                          ~enabled /\ setting = [i \in LangUser |-> "fr"])
        /\ EventInit /\ FileInit /\ CommitInit
        /\ SearchInit /\ (focus # "search" => text = <<>>)
        /\ ReplyInit /\ (focus # "reply" => ~greeting)
        /\ ChatInit

InBridge == focus = "bridge" /\ BridgeNext
            /\ UNCHANGED <<langVars, logSide, knowledge, turn, focus>>
InLanguage == focus = "language" /\ LangNext
              /\ UNCHANGED <<bridgeVars, logSide, knowledge, turn, focus>>
InEvents == focus = "events" /\ EventNext
            /\ UNCHANGED <<langSide, registryVars, knowledge, turn, focus>>
\* Bound: no edit begins after a clash, when nothing is promised any more.
InRegistry == focus = "registry" /\ FileNext
              /\ (clashed => \A w \in Writer : writing'[w] = "ready" => writing[w] = "ready")
              /\ UNCHANGED <<langSide, eventVars, knowledge, turn, focus>>
InCommit == focus = "commit" /\ CommitNext
            /\ UNCHANGED <<langSide, logSide, searchVars, turn, focus>>
InSearch == focus = "search" /\ SearchNext
            /\ UNCHANGED <<langSide, logSide, commitVars, turn, focus>>
InReply == focus = "reply" /\ ReplyNext
           /\ UNCHANGED <<langSide, logSide, knowledge, chatVars, focus>>
InChat == focus = "chat" /\ ChatNext
          /\ UNCHANGED <<langSide, logSide, knowledge, replyVars, focus>>

Next == \/ InBridge \/ InLanguage \/ InEvents \/ InRegistry
        \/ InCommit \/ InSearch \/ InReply \/ InChat

\* CommitFairness, SearchFairness and ChatFairness, each when it is the focus.
Fairness ==
    /\ WF_commitVars(focus = "commit" /\ Call(Loop))
    /\ WF_commitVars(focus = "commit" /\ OrphanEnds)
    /\ \A c \in Committer : SF_commitVars(focus = "commit" /\ CommitStep(c))
    /\ \A i \in Indexer : /\ WF_searchVars(focus = "search" /\ BeginIndex(i))
                          /\ SF_searchVars(focus = "search" /\ EndIndex(i))
    /\ \A m \in Turn : /\ WF_chatVars(focus = "chat" /\ Network(m))
                       /\ WF_chatVars(focus = "chat" /\ Browser(m))
Spec == Init /\ [][Next]_vars /\ Fairness

\* What each service keeps true: its types, and the invariants the proofs rest on.
ServicesInv == /\ BridgeInv /\ LangInv /\ EventInv /\ FileInv
               /\ CommitInv /\ SearchInv /\ ReplyInv /\ ChatInv
=============================================================================
