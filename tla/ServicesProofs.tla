--------------------------- MODULE ServicesProofs ---------------------------
(***************************************************************************)
(* Proofs about MCServices, the services that share no state: that each of *)
(* its behaviours is one of each service, so that what is proved of the    *)
(* services holds where TLC checks them together.                          *)
(***************************************************************************)
EXTENDS MCServices, SettingsProofs, SharedFileProofs, KnowledgeProofs, AnswerProofs

\* Every service is in one of its initial states.
LEMMA ServicesStart == Init =>
    /\ BridgeInit /\ LangInit /\ EventInit /\ FileInit
    /\ CommitInit /\ SearchInit /\ ReplyInit /\ ChatInit
BY Zenon DEF Init

\* A step of one service leaves the others alone.
LEMMA ServicesStep == [Next]_vars =>
    /\ [BridgeNext]_bridgeVars /\ [LangNext]_langVars
    /\ [EventNext]_eventVars /\ [FileNext]_registryVars
    /\ [CommitNext]_commitVars /\ [SearchNext]_searchVars
    /\ [ReplyNext]_replyVars /\ [ChatNext]_chatVars
<1> SUFFICES ASSUME [Next]_vars
             PROVE  /\ [BridgeNext]_bridgeVars /\ [LangNext]_langVars
                    /\ [EventNext]_eventVars /\ [FileNext]_registryVars
                    /\ [CommitNext]_commitVars /\ [SearchNext]_searchVars
                    /\ [ReplyNext]_replyVars /\ [ChatNext]_chatVars
  OBVIOUS
<1> USE DEF langSide, logSide, knowledge, turn
<1>1. CASE InBridge
  BY <1>1 DEF InBridge
<1>2. CASE InLanguage
  BY <1>2 DEF InLanguage
<1>3. CASE InEvents
  BY <1>3 DEF InEvents
<1>4. CASE InRegistry
  BY <1>4 DEF InRegistry
<1>5. CASE InCommit
  BY <1>5 DEF InCommit
<1>6. CASE InSearch
  BY <1>6 DEF InSearch
<1>7. CASE InReply
  BY <1>7 DEF InReply
<1>8. CASE InChat
  BY <1>8 DEF InChat
<1>9. CASE UNCHANGED vars
  BY <1>9 DEF vars
<1>10. QED
  BY <1>1, <1>2, <1>3, <1>4, <1>5, <1>6, <1>7, <1>8, <1>9 DEF Next

\* Each service behaves as it would alone, up to the fairness of those that have
\* one.
THEOREM ServicesUndisturbed == Spec =>
    /\ BridgeSpec /\ LangSpec /\ EventSpec /\ FileSpec /\ ReplySpec
    /\ CommitInit /\ [][CommitNext]_commitVars
    /\ SearchInit /\ [][SearchNext]_searchVars
    /\ ChatInit /\ [][ChatNext]_chatVars
BY ServicesStart, ServicesStep, PTL
   DEF Spec, BridgeSpec, LangSpec, EventSpec, FileSpec, ReplySpec

\* The inductive invariants of all services hold together, in every state of
\* each of them: of the token's sources, the language cache, the event log, the
\* writers of registry.json, the commits, the search index, the answer that is
\* shown and the chat client.
THEOREM ServicesHold == Spec => []ServicesInv
<1>1. Init => ServicesInv
  BY ServicesStart, BridgeStart, LangStart, LogStart, FileStart, CommitStart, SearchStart,
     ReplyStart, ChatStart DEF ServicesInv
<1>2. ServicesInv /\ [Next]_vars => ServicesInv'
  BY ServicesStep, BridgeKept, LangKept, LogKept, FileKept, CommitKept, SearchKept,
     ReplyKept, ChatKept DEF ServicesInv
<1>3. QED
  BY <1>1, <1>2, PTL DEF Spec
=============================================================================
