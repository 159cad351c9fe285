--------------------------- MODULE SettingsProofs ---------------------------
(***************************************************************************)
(* Proofs about BridgeConfig and LanguageCache, the two services that keep *)
(* a setting in several places: for any tokens, and for any users, times   *)
(* and bound on the changes.                                               *)
(***************************************************************************)
EXTENDS BridgeConfig, LanguageCache, TLAPS

-----------------------------------------------------------------------------
(* The token of the bridge *)

\* An entry of registry.json is told from the absence of one by its name.
LEMMA Records ==
    /\ Absent.name = "none" /\ Absent.token = NoToken /\ Absent.runtime = FALSE
    /\ Absent.dir = "telegram-bridge"
    /\ \A e \in Entry : /\ e.name \in Dir /\ e.token \in MaybeToken
                        /\ e.runtime \in BOOLEAN /\ e.dir \in Dir
                        /\ e # Absent
BY DEF Absent, Entry, Dir

\* Whatever is installed before the first boot.
LEMMA BridgeStart == BridgeInit => BridgeInv
<1> SUFFICES ASSUME BridgeInit
             PROVE  BridgeInv
  OBVIOUS
<1> USE Records DEF BridgeInit
<1>1. entry = Absent \/ (entry \in Entry /\ entry.name = "bridge" /\ entry.dir = "bridge")
  BY DEF Entry, Dir
<1>2. BridgeTypeOK
  BY <1>1 DEF BridgeTypeOK, MaybeToken, Dir
<1>3. EntryShape
  BY <1>1 DEF EntryShape, Found
<1>4. BootMigrates /\ PollingKnown
  BY DEF BootMigrates, PollingKnown
<1>5. TokensGiven
  BY <1>1 DEF TokensGiven, Found, Dir
<1>6. QED
  BY <1>2, <1>3, <1>4, <1>5 DEF BridgeInv

\* A boot, step by step, and the end of a process.
LEMMA BootInv ==
    ASSUME BridgeInv, StartBoot \/ MigrateRename \/ SeedToken \/ BeginStart \/ FinishStart \/ Halt
    PROVE  BridgeInv'
<1> USE Records DEF BridgeInv, disk, process
<1>1. CASE StartBoot
  BY <1>1 DEF StartBoot, BridgeTypeOK, EntryShape, BootMigrates, PollingKnown, TokensGiven, Found
<1>2. CASE MigrateRename
  <2> USE <1>2 DEF MigrateRename
  <2>1. CASE entry.name = "bridge"
    <3>1. /\ entry' = Renamed(entry) /\ entry \in Entry
      BY <2>1 DEF BridgeTypeOK
    <3>2. /\ entry' \in Entry /\ entry'.name = "telegram-bridge" /\ entry'.runtime = TRUE
          /\ entry'.token = entry.token /\ entry'.dir = entry.dir
      BY <3>1 DEF Renamed, Entry, Dir
    <3>3. starting = NoToken /\ polling = NoToken /\ purging = FALSE
      BY <2>1 DEF PollingKnown, Found, BridgeTypeOK
    <3>4. BridgeTypeOK'
      BY <3>2 DEF BridgeTypeOK
    <3>5. EntryShape' /\ BootMigrates' /\ PollingKnown'
      BY <3>2, <3>3 DEF EntryShape, BootMigrates, PollingKnown, Found
    <3>6. TokensGiven'
      BY <2>1, <3>2 DEF TokensGiven, EntryShape, Found
    <3>7. QED
      BY <3>4, <3>5, <3>6
  <2>2. CASE entry.name # "bridge"
    BY <2>2 DEF BridgeTypeOK, EntryShape, BootMigrates, PollingKnown, TokensGiven, Found
  <2>3. QED
    BY <2>1, <2>2
<1>3. CASE SeedToken
  <2> USE <1>3 DEF SeedToken
  <2>1. /\ entry' = entry /\ starting' = starting /\ polling' = polling /\ purging' = purging
        /\ torn' = torn /\ orphaned' = orphaned
    OBVIOUS
  <2>2. boot = "seed" /\ boot' \in {"load", "down"} /\ purging = FALSE
    BY DEF PollingKnown, BridgeTypeOK
  <2>3. starting = NoToken /\ polling = NoToken
    BY <2>2 DEF PollingKnown
  <2>4. EntryShape' /\ BootMigrates' /\ PollingKnown'
    BY <2>1, <2>2, <2>3 DEF EntryShape, BootMigrates, PollingKnown, Found
  <2>5. CASE UNCHANGED <<configFile, given>>
    BY <2>1, <2>2, <2>4, <2>5 DEF BridgeTypeOK, TokensGiven, Found
  <2>6. CASE /\ NeedsSeed /\ configFile' = [configFile EXCEPT ![entry.dir] = env]
             /\ given' = given \cup {env}
    <3>1. Found /\ env \in Token /\ entry.dir \in Dir /\ entry.name = "telegram-bridge"
      BY <2>6 DEF NeedsSeed, BridgeTypeOK, MaybeToken, Found
    <3>2. BridgeTypeOK'
      BY <2>2, <2>6, <3>1 DEF BridgeTypeOK, MaybeToken
    <3>3. configFile'[entry.dir] = env
      BY <2>6, <3>1 DEF BridgeTypeOK
    <3>4. TokensGiven'
      BY <2>1, <2>6, <3>1, <3>3 DEF TokensGiven, Found
    <3>5. QED
      BY <2>4, <3>2, <3>4
  <2>7. QED
    BY <2>5, <2>6
<1>4. CASE BeginStart
  <2> USE <1>4 DEF BeginStart
  <2>1. /\ boot' = "up" /\ entry' = entry /\ configFile' = configFile /\ polling' = polling
        /\ purging' = purging /\ torn' = torn /\ orphaned' = orphaned /\ given' = given
    OBVIOUS
  <2>2. polling = NoToken /\ purging = FALSE
    BY DEF PollingKnown, BridgeTypeOK
  <2>3. starting' = NoToken \/ (Found /\ starting' = LoadedToken)
    OBVIOUS
  <2>4. Found => LoadedToken \in MaybeToken
    <3>1. Found => entry \in Entry
      BY DEF Found, BridgeTypeOK
    <3>2. Found => configFile[entry.dir] \in MaybeToken /\ entry.token \in MaybeToken
      BY <3>1, Records DEF Entry, BridgeTypeOK
    <3>3. QED
      BY <3>2 DEF LoadedToken
  <2>5. BridgeTypeOK'
    BY <2>1, <2>3, <2>4 DEF BridgeTypeOK, MaybeToken
  <2>6. EntryShape' /\ BootMigrates' /\ PollingKnown'
    BY <2>1, <2>2, <2>3 DEF EntryShape, BootMigrates, PollingKnown, Found
  <2>7. TokensGiven'
    BY <2>1, <2>2, <2>3 DEF TokensGiven, LoadedToken, Found
  <2>8. QED
    BY <2>5, <2>6, <2>7
<1>5. CASE FinishStart
  <2> USE <1>5 DEF FinishStart, Serves
  <2>1. BridgeTypeOK'
    BY DEF BridgeTypeOK, MaybeToken
  <2>2. EntryShape' /\ BootMigrates' /\ PollingKnown' /\ TokensGiven'
    BY DEF EntryShape, BootMigrates, PollingKnown, TokensGiven, Found
  <2>3. QED
    BY <2>1, <2>2
<1>6. CASE Halt
  <2>1. BridgeTypeOK'
    BY <1>6 DEF Halt, BridgeTypeOK, MaybeToken
  <2>2. EntryShape' /\ BootMigrates' /\ PollingKnown' /\ TokensGiven'
    BY <1>6 DEF Halt, EntryShape, BootMigrates, PollingKnown, TokensGiven, Found
  <2>3. QED
    BY <2>1, <2>2
<1>7. QED
  BY <1>1, <1>2, <1>3, <1>4, <1>5, <1>6

\* An install finds no token left behind.
LEMMA InstallInv ==
    ASSUME BridgeInv, NEW t \in MaybeToken, InstallBridge(t)
    PROVE  BridgeInv'
<1> USE Records DEF BridgeInv, InstallBridge, process, Serves
<1>1. /\ entry' \in Entry /\ entry'.name = "telegram-bridge" /\ entry'.token = t
      /\ entry'.runtime = TRUE /\ entry'.dir = "telegram-bridge"
  BY DEF Entry, Dir
<1>2. orphaned \/ (starting = NoToken /\ polling = NoToken)
  BY DEF PollingKnown
<1>3. BridgeTypeOK'
  BY <1>1 DEF BridgeTypeOK, MaybeToken
<1>4. EntryShape' /\ BootMigrates' /\ PollingKnown'
  BY <1>1, <1>2 DEF EntryShape, BootMigrates, PollingKnown, Found
<1>5. TokensGiven'
  BY <1>1, <1>2 DEF TokensGiven, Found
<1>6. QED
  BY <1>3, <1>4, <1>5

\* The removal of the entry, and of the files after it.
LEMMA UninstallInv ==
    ASSUME BridgeInv, RemoveBridge \/ PurgeConfig
    PROVE  BridgeInv'
<1> USE Records DEF BridgeInv, Serves
<1>1. CASE RemoveBridge
  <2>1. BridgeTypeOK'
    BY <1>1 DEF RemoveBridge, BridgeTypeOK, MaybeToken
  <2>2. EntryShape' /\ BootMigrates' /\ PollingKnown' /\ TokensGiven'
    BY <1>1 DEF RemoveBridge, EntryShape, BootMigrates, PollingKnown, TokensGiven, Found
  <2>3. QED
    BY <2>1, <2>2
<1>2. CASE PurgeConfig
  <2>1. /\ entry = Absent /\ entry' = Absent
        /\ orphaned \/ (starting = NoToken /\ polling = NoToken)
    BY <1>2 DEF PurgeConfig, PollingKnown, Found
  <2>2. configFile' \in [Dir -> MaybeToken] /\ configFile'["telegram-bridge"] = NoToken
    BY <1>2 DEF PurgeConfig, PurgedConfig, BridgeTypeOK, Dir, MaybeToken
  <2>3. BridgeTypeOK'
    BY <1>2, <2>2 DEF PurgeConfig, BridgeTypeOK
  <2>4. EntryShape' /\ BootMigrates' /\ PollingKnown' /\ TokensGiven'
    BY <1>2, <2>1, <2>2
       DEF PurgeConfig, EntryShape, BootMigrates, PollingKnown, TokensGiven, Found
  <2>5. QED
    BY <2>3, <2>4
<1>3. QED
  BY <1>1, <1>2

\* A write of a token into the entry that is there makes it one of this
\* installation.
LEMMA TokenWritten ==
    ASSUME BridgeInv, NEW t \in MaybeToken, Found, Serves,
           entry' = [entry EXCEPT !.token = t],
           given' = given \cup ({t} \ {NoToken}),
           UNCHANGED <<configFile, dirs, env, boot, starting, polling, purging, torn, orphaned>>,
           saved' \in MaybeToken, pending' \in MaybeToken, reloaded' \in BOOLEAN
    PROVE  BridgeInv'
<1> USE Records DEF BridgeInv
<1>1. entry \in Entry
  BY DEF Found, BridgeTypeOK
<1>2. /\ entry' \in Entry /\ entry'.name = entry.name /\ entry'.token = t
      /\ entry'.runtime = entry.runtime /\ entry'.dir = entry.dir
  BY <1>1 DEF Entry
<1>3. BridgeTypeOK'
  BY <1>2 DEF BridgeTypeOK, MaybeToken
<1>4. EntryShape' /\ BootMigrates' /\ PollingKnown'
  BY <1>2 DEF EntryShape, BootMigrates, PollingKnown, Found, Serves
<1>5. TokensGiven'
  BY <1>2 DEF TokensGiven, Found
<1>6. QED
  BY <1>3, <1>4, <1>5

\* set_token and save_config
LEMMA ConfigureInv ==
    ASSUME BridgeInv,
           \/ FinishToken
           \/ \E t \in MaybeToken : ReplaceConfig(t)
           \/ \E t \in Token : RequestToken(t)
    PROVE  BridgeInv'
<1>1. CASE FinishToken
  <2> USE <1>1 DEF FinishToken
  <2>1. NoToken \in MaybeToken /\ pending \in MaybeToken /\ saved \in MaybeToken
        /\ reloaded \in BOOLEAN
    BY DEF BridgeInv, BridgeTypeOK, MaybeToken
  <2>2. CASE /\ Found /\ entry' = [entry EXCEPT !.token = pending]
             /\ given' = given \cup {pending} /\ saved' = pending /\ reloaded' = FALSE
    <3>1. given' = given \cup ({pending} \ {NoToken})
      BY <2>2
    <3>2. QED
      BY <2>1, <2>2, <3>1, TokenWritten
  <2>3. CASE UNCHANGED <<entry, given>> /\ saved' \in MaybeToken /\ reloaded' = reloaded
    BY <2>1, <2>3 DEF BridgeInv, BridgeTypeOK, EntryShape, BootMigrates, PollingKnown,
                      TokensGiven, Found
  <2>4. QED
    BY <2>1, <2>2, <2>3
<1>2. ASSUME NEW t \in MaybeToken, ReplaceConfig(t)
      PROVE  BridgeInv'
  <2>1. NoToken \in MaybeToken /\ pending \in MaybeToken /\ reloaded \in BOOLEAN
    BY DEF BridgeInv, BridgeTypeOK, MaybeToken
  <2>2. QED
    BY <1>2, <2>1, TokenWritten DEF ReplaceConfig, process
<1>3. ASSUME NEW t \in Token, RequestToken(t)
      PROVE  BridgeInv'
  BY <1>3 DEF RequestToken, disk, BridgeInv, BridgeTypeOK, MaybeToken, EntryShape,
              BootMigrates, PollingKnown, TokensGiven, Found
<1>4. QED
  BY <1>1, <1>2, <1>3

\* Every step of a boot, a crash and the dashboard keeps the invariant.
LEMMA BridgeKept == BridgeInv /\ [BridgeNext]_bridgeVars => BridgeInv'
<1>1. ASSUME BridgeInv, BridgeNext
      PROVE  BridgeInv'
  BY <1>1, BootInv, InstallInv, UninstallInv, ConfigureInv DEF BridgeNext
<1>2. ASSUME BridgeInv, UNCHANGED bridgeVars
      PROVE  BridgeInv'
  BY <1>2 DEF bridgeVars, disk, process, BridgeInv, BridgeTypeOK, EntryShape, BootMigrates,
              PollingKnown, TokensGiven, Found
<1>3. QED
  BY <1>1, <1>2

-----------------------------------------------------------------------------
(* The theorems *)

\* What is known of the entry, the files and the running bridge, whichever boot
\* is cut short, and whatever the dashboard does to a token in between.
THEOREM BridgeInductive == BridgeSpec => []BridgeInv
<1>1. QED
  BY BridgeStart, BridgeKept, PTL DEF BridgeSpec

\* The places read at a boot hold no token but those of this installation, also
\* while a start awaits Telegram, and what an uninstall leaves cannot reach a
\* later install; nor can the bridge poll with another one, unless the uninstall
\* was served in the middle of its start.
THEOREM TokensStayWithInstall == BridgeSpec => []TokensOfThisBridge
<1>1. BridgeInv => TokensOfThisBridge
  BY DEF BridgeInv, TokensGiven, TokensOfThisBridge, LoadedToken
<1>2. QED
  BY <1>1, BridgeInductive, PTL

\* A bridge of the old name is found and can be started before requests are
\* served, wherever earlier boots have crashed.
THEOREM MigrationComesFirst == BridgeSpec => []MigratedBeforeServing
<1>1. BridgeInv => MigratedBeforeServing
  BY DEF BridgeInv, EntryShape, BootMigrates, MigratedBeforeServing
<1>2. QED
  BY <1>1, BridgeInductive, PTL

-----------------------------------------------------------------------------
(* The language *)

\* What a user's language may be, and what stands for nothing.
LEMMA Values ==
    /\ \A tag : FromBcp47(tag) \in Lang
    /\ {"none", "failed"} \cap Tag = {} /\ "fr" \in Tag
    /\ NoEntry.age = 0 /\ NoEntry.lang = "none" /\ NoEntry \notin [lang : Lang, age : Age]
    /\ NoFetch.seen = "none" /\ NoAnswer.lang = "none" /\ NoAnswer.source = "none"
BY DEF FromBcp47, Lang, Tag, NoEntry, NoFetch, NoAnswer

\* Ages grow up to Old and stay there.
LEMMA Ages ==
    /\ Old \in Nat /\ FetchTime < Old /\ Ttl < Old /\ 0 \in Age /\ Old \in Age
    /\ \A a \in Age : Older(a) \in Age /\ Older(a) >= a /\ Older(a) <= a + 1
                      /\ (a < Old => Older(a) = a + 1)
                      /\ (a >= Old => Older(a) = Old)
BY LangAssumption DEF Old, Age, Older

\* Nothing is cached or requested at the start.
LEMMA LangStart == LangInit => LangInv
<1> SUFFICES ASSUME LangInit
             PROVE  LangInv
  OBVIOUS
<1> USE Values, Ages, LangAssumption DEF LangInit
<1>1. LangTypeOK
  BY DEF LangTypeOK, Blocked
<1>2. BustsOfChanges /\ SeenIsFresh /\ AgesKnown /\ BustedIsFresh
  BY DEF BustsOfChanges, SeenIsFresh, AgesKnown, BustedIsFresh, Seen, Blocked
<1>3. QED
  BY <1>1, <1>2 DEF LangInv

\* A request to voidnet that has just been sent.
LEMMA RequestShape ==
    ASSUME NEW i \in LangUser, NEW tag \in Tag
    PROVE  LET request == [NoFetch EXCEPT !.user = i, !.locale = tag] IN
           /\ request \in [user : LangUser, locale : Tag, seen : Tag \cup {"none", "failed"},
                           age : 0..FetchTime]
           /\ request.seen = "none"
<1> DEFINE Request == [user : LangUser \cup {"none"}, locale : Tag,
                       seen : Tag \cup {"none", "failed"}, age : 0..FetchTime]
<1>1. NoFetch \in Request /\ NoFetch.seen = "none"
  BY LangAssumption DEF NoFetch, Tag
<1>2. QED
  BY <1>1

\* get_user_lang begins, voidnet reads the setting, and the answer arrives.
LEMMA RequestInv ==
    ASSUME LangInv, NEW i \in LangUser, NEW tag \in Tag, GetUserLang(i, tag)
    PROVE  LangInv'
<1> USE Values, LangAssumption DEF LangInv, GetUserLang
<1>1. /\ enabled' = enabled /\ setting' = setting /\ changes' = changes
      /\ sinceChange' = sinceChange /\ busts' = busts /\ taken' = taken /\ cache' = cache
  OBVIOUS
<1>2. \/ fetch' = fetch /\ ~Blocked
      \/ fetch' = [NoFetch EXCEPT !.user = i, !.locale = tag]
  OBVIOUS
<1>3. \/ fetch' = NoFetch
      \/ /\ fetch' \in [user : LangUser, locale : Tag, seen : Tag \cup {"none", "failed"},
                        age : 0..FetchTime]
         /\ fetch'.seen = "none"
  <2>1. ~Blocked => fetch = NoFetch
    BY DEF Blocked
  <2>2. QED
    BY <1>2, <2>1, RequestShape, LangAssumption
<1>4. answer'.lang \in Lang \cup {"none"}
  <2>1. Hit(i) => cache[i].lang \in Lang
    BY DEF Hit, LangTypeOK
  <2>2. QED
    BY <2>1 DEF Answered, Lang
<1>5. LangTypeOK'
  BY <1>1, <1>3, <1>4 DEF LangTypeOK, Blocked
<1>6. ~Seen'
  BY <1>3 DEF Seen, Blocked
<1>7. BustsOfChanges' /\ SeenIsFresh' /\ AgesKnown' /\ BustedIsFresh'
  BY <1>1, <1>6 DEF BustsOfChanges, SeenIsFresh, AgesKnown, BustedIsFresh
<1>8. QED
  BY <1>5, <1>7

LEMMA ReadInv ==
    ASSUME LangInv, VoidnetReads
    PROVE  LangInv'
<1> USE Values, LangAssumption DEF LangInv, VoidnetReads
<1>1. /\ enabled' = enabled /\ setting' = setting /\ changes' = changes
      /\ sinceChange' = sinceChange /\ busts' = busts /\ taken' = taken /\ cache' = cache
      /\ answer' = answer
  OBVIOUS
<1>2. /\ fetch \in [user : LangUser, locale : Tag, seen : Tag \cup {"none", "failed"},
                    age : 0..FetchTime]
      /\ setting[fetch.user] \in Tag
  BY DEF LangTypeOK
<1>3. PICK s \in {setting[fetch.user], "failed"} : fetch' = [fetch EXCEPT !.seen = s]
  OBVIOUS
<1>4. /\ fetch' \in [user : LangUser, locale : Tag, seen : Tag \cup {"none", "failed"},
                     age : 0..FetchTime]
      /\ fetch'.user = fetch.user /\ fetch'.seen = s
  BY <1>2, <1>3
<1>5. LangTypeOK'
  BY <1>1, <1>4 DEF LangTypeOK
<1>6. Seen' => fetch'.seen = setting'[fetch'.user]
  BY <1>1, <1>3, <1>4 DEF Seen
<1>7. BustsOfChanges' /\ SeenIsFresh' /\ AgesKnown' /\ BustedIsFresh'
  BY <1>1, <1>6 DEF BustsOfChanges, SeenIsFresh, AgesKnown, BustedIsFresh
<1>8. QED
  BY <1>5, <1>7

LEMMA AnswerInv ==
    ASSUME LangInv, FetchEnds
    PROVE  LangInv'
<1> USE Values, Ages, LangAssumption DEF LangInv, FetchEnds
<1>1. /\ enabled' = enabled /\ setting' = setting /\ changes' = changes
      /\ sinceChange' = sinceChange /\ busts' = busts /\ taken' = taken
      /\ fetch' = NoFetch /\ ~Seen'
  BY DEF Seen, Blocked
<1>2. /\ fetch \in [user : LangUser, locale : Tag, seen : Tag \cup {"none", "failed"},
                    age : 0..FetchTime]
  BY DEF LangTypeOK
<1>3. CASE fetch.seen = "failed"
  <2>1. cache' = cache /\ answer'.lang \in Lang
    BY <1>3 DEF Answered
  <2>2. LangTypeOK'
    BY <1>1, <2>1 DEF LangTypeOK, Blocked
  <2>3. BustsOfChanges' /\ SeenIsFresh' /\ AgesKnown' /\ BustedIsFresh'
    BY <1>1, <2>1 DEF BustsOfChanges, SeenIsFresh, AgesKnown, BustedIsFresh
  <2>4. QED
    BY <2>2, <2>3
<1>4. CASE fetch.seen # "failed"
  <2>1. PICK u \in LangUser : u = fetch.user
    BY <1>2
  <2>2. PICK l \in Lang : l = FromBcp47(fetch.seen)
    OBVIOUS
  <2>3. /\ cache' = [cache EXCEPT ![u] = [lang |-> l, age |-> 0]] /\ answer'.lang = l
        /\ Seen
    BY <1>2, <1>4, <2>1, <2>2 DEF Answered, Seen
  <2>4. /\ cache'[u] = [lang |-> l, age |-> 0] /\ cache'[u].lang = l /\ cache'[u].age = 0
        /\ \A i \in LangUser \ {u} : cache'[i] = cache[i]
        /\ cache' \in [LangUser -> {NoEntry} \cup [lang : Lang, age : Age]]
    BY <2>3 DEF LangTypeOK
  <2>5. LangTypeOK'
    BY <1>1, <2>3, <2>4 DEF LangTypeOK, Blocked
  <2>6. BustsOfChanges' /\ SeenIsFresh'
    BY <1>1 DEF BustsOfChanges, SeenIsFresh
  <2>7. BustedIsFresh'
    <3>1. taken[u] = changes[u] => l = FromBcp47(setting[u])
      BY <2>1, <2>2, <2>3 DEF SeenIsFresh
    <3>2. QED
      BY <1>1, <2>4, <3>1 DEF BustedIsFresh
  <2>8. AgesKnown'
    <3>1. l = FromBcp47(setting[u]) \/ sinceChange[u] <= 0 + FetchTime
      <4>1. sinceChange[u] \in Nat /\ fetch.age \in 0..FetchTime
        BY <1>2 DEF LangTypeOK, Age
      <4>2. fetch.seen = setting[u] \/ sinceChange[u] <= fetch.age
        BY <2>1, <2>3 DEF AgesKnown
      <4>3. QED
        BY <2>2, <4>1, <4>2
    <3>2. QED
      BY <1>1, <2>4, <3>1 DEF AgesKnown
  <2>9. QED
    BY <2>5, <2>6, <2>7, <2>8
<1>5. QED
  BY <1>3, <1>4

\* A change is not evicted yet, and its age is less than anything read before.
LEMMA ChangeInv ==
    ASSUME LangInv, NEW i \in LangUser, NEW tag \in Tag, ChangeSetting(i, tag)
    PROVE  LangInv'
<1> USE Values, Ages, LangAssumption DEF LangInv, ChangeSetting
<1>1. /\ enabled' = enabled /\ taken' = taken /\ cache' = cache /\ fetch' = fetch
      /\ answer' = answer
      /\ setting'[i] = tag /\ sinceChange'[i] = 0
      /\ changes[i] \in Nat /\ changes'[i] = changes[i] + 1 /\ taken[i] \in Nat
      /\ \A j \in LangUser \ {i} : /\ setting'[j] = setting[j] /\ changes'[j] = changes[j]
                                   /\ sinceChange'[j] = sinceChange[j]
  BY DEF LangTypeOK
<1>2. Seen => fetch.user \in LangUser /\ fetch.age \in Nat
  BY DEF LangTypeOK, Seen
<1>3. LangTypeOK'
  <2>1. changes[i] + 1 \in 1..MaxChanges
    BY DEF LangTypeOK
  <2>2. [user |-> i, nr |-> changes[i] + 1, age |-> 0]
           \in [user : LangUser, nr : 1..MaxChanges, age : Age]
    BY <2>1
  <2>3. QED
    BY <1>1, <2>1, <2>2 DEF LangTypeOK, Blocked
<1>4. taken'[i] # changes'[i]
  BY <1>1 DEF BustsOfChanges
<1>5. BustsOfChanges'
  <2>1. ASSUME NEW b \in busts
        PROVE  b.nr <= changes'[b.user]
    <3>1. b.user \in LangUser /\ b.nr \in Nat /\ changes[b.user] \in Nat /\ b.nr <= changes[b.user]
      BY DEF LangTypeOK, BustsOfChanges
    <3>2. QED
      BY <1>1, <3>1
  <2>2. \A j \in LangUser : taken[j] <= changes'[j]
    BY <1>1 DEF BustsOfChanges
  <2>3. QED
    BY <1>1, <2>1, <2>2 DEF BustsOfChanges
<1>6. SeenIsFresh'
  BY <1>1, <1>2, <1>4 DEF SeenIsFresh, Seen, Blocked
<1>7. BustedIsFresh'
  BY <1>1, <1>4 DEF BustedIsFresh
<1>8. AgesKnown'
  <2>1. Seen' => fetch'.seen = setting'[fetch'.user] \/ sinceChange'[fetch'.user] <= fetch'.age
    BY <1>1, <1>2 DEF AgesKnown, Seen, Blocked
  <2>2. ASSUME NEW j \in LangUser, cache'[j] # NoEntry
        PROVE  \/ cache'[j].lang = FromBcp47(setting'[j])
               \/ sinceChange'[j] <= cache'[j].age + FetchTime
    <3>1. cache[j].age \in Nat
      BY <1>1, <2>2 DEF LangTypeOK, Age
    <3>2. QED
      BY <1>1, <2>2, <3>1 DEF AgesKnown
  <2>3. QED
    BY <2>1, <2>2 DEF AgesKnown
<1>9. QED
  BY <1>3, <1>5, <1>6, <1>7, <1>8

\* An eviction is carried out, or lost.
LEMMA EvictInv ==
    ASSUME LangInv, NEW b \in busts, LangBust(b) \/ LoseBust(b)
    PROVE  LangInv'
<1> USE Values, LangAssumption DEF LangInv
<1>1. b.user \in LangUser /\ b.nr \in 1..MaxChanges /\ b.nr <= changes[b.user]
  BY DEF LangTypeOK, BustsOfChanges
<1>2. /\ enabled' = enabled /\ setting' = setting /\ changes' = changes
      /\ sinceChange' = sinceChange /\ fetch' = fetch /\ answer' = answer
      /\ busts' \subseteq busts
  BY DEF LangBust, LoseBust
<1>3. CASE LangBust(b)
  <2> USE <1>3 DEF LangBust, ServesBust
  <2>1. /\ cache'[b.user] = NoEntry /\ \A i \in LangUser \ {b.user} : cache'[i] = cache[i]
        /\ cache' \in [LangUser -> {NoEntry} \cup [lang : Lang, age : Age]]
    BY <1>1 DEF LangTypeOK
  <2>2. /\ taken'[b.user] \in {b.nr, taken[b.user]}
        /\ \A i \in LangUser \ {b.user} : taken'[i] = taken[i]
        /\ taken' \in [LangUser -> 0..MaxChanges]
    BY <1>1 DEF LangTypeOK
  <2>3. LangTypeOK'
    BY <1>2, <2>1, <2>2 DEF LangTypeOK, Blocked
  <2>4. BustsOfChanges'
    BY <1>1, <1>2, <2>2 DEF BustsOfChanges
  <2>5. ~Seen'
    BY <1>2 DEF Seen, Blocked
  <2>6. SeenIsFresh' /\ AgesKnown' /\ BustedIsFresh'
    BY <1>2, <2>1, <2>2, <2>5 DEF SeenIsFresh, AgesKnown, BustedIsFresh
  <2>7. QED
    BY <2>3, <2>4, <2>6
<1>4. CASE LoseBust(b)
  <2>1. cache' = cache /\ taken' = taken
    BY <1>4 DEF LoseBust
  <2>2. LangTypeOK'
    BY <1>2, <2>1 DEF LangTypeOK, Blocked
  <2>3. BustsOfChanges' /\ SeenIsFresh' /\ AgesKnown' /\ BustedIsFresh'
    BY <1>2, <2>1 DEF BustsOfChanges, SeenIsFresh, AgesKnown, BustedIsFresh, Seen, Blocked
  <2>4. QED
    BY <2>2, <2>3
<1>5. QED
  BY <1>3, <1>4

\* Everything ages together.
LEMMA TickInv ==
    ASSUME LangInv, Tick
    PROVE  LangInv'
<1> USE Values, Ages, LangAssumption DEF LangInv, Tick
<1>1. /\ enabled' = enabled /\ setting' = setting /\ changes' = changes /\ taken' = taken
      /\ answer' = answer
      /\ \A i \in LangUser : sinceChange[i] \in Age /\ sinceChange'[i] = Older(sinceChange[i])
  BY DEF LangTypeOK
<1>2. \/ ~Blocked /\ fetch' = NoFetch
      \/ /\ Blocked
         /\ fetch \in [user : LangUser, locale : Tag, seen : Tag \cup {"none", "failed"},
                       age : 0..FetchTime]
         /\ fetch' \in [user : LangUser, locale : Tag, seen : Tag \cup {"none", "failed"},
                       age : 0..FetchTime]
         /\ fetch'.user = fetch.user /\ fetch'.seen = fetch.seen /\ fetch'.age = fetch.age + 1
  <2>1. CASE Blocked
    <3>1. /\ fetch \in [user : LangUser, locale : Tag, seen : Tag \cup {"none", "failed"},
                        age : 0..FetchTime]
          /\ fetch.age + 1 \in 0..FetchTime
      BY <2>1 DEF LangTypeOK
    <3>2. fetch' = [fetch EXCEPT !.age = fetch.age + 1]
      BY <2>1
    <3>3. QED
      BY <2>1, <3>1, <3>2
  <2>2. QED
    BY <2>1 DEF Blocked
<1>3. Seen' => Seen /\ fetch'.user = fetch.user /\ fetch'.seen = fetch.seen
               /\ fetch.user \in LangUser /\ fetch.age \in Nat /\ fetch'.age = fetch.age + 1
               /\ fetch.age < FetchTime
  BY <1>2 DEF Seen, Blocked
<1>4. \A i \in LangUser :
         \/ cache[i] = NoEntry /\ cache'[i] = NoEntry
         \/ /\ cache[i] # NoEntry /\ cache[i].age \in Age /\ cache'[i] # NoEntry
            /\ cache'[i].lang = cache[i].lang /\ cache'[i].age = Older(cache[i].age)
            /\ cache'[i] \in [lang : Lang, age : Age]
  <2>1. ASSUME NEW i \in LangUser, cache[i] # NoEntry
        PROVE  /\ cache[i].age \in Age /\ cache'[i] # NoEntry
               /\ cache'[i].lang = cache[i].lang /\ cache'[i].age = Older(cache[i].age)
               /\ cache'[i] \in [lang : Lang, age : Age]
    <3>1. cache[i] \in [lang : Lang, age : Age]
      BY <2>1 DEF LangTypeOK
    <3>2. cache'[i] = [cache[i] EXCEPT !.age = Older(cache[i].age)]
      BY <2>1
    <3>3. QED
      BY <3>1, <3>2
  <2>2. QED
    BY <2>1
<1>5. \A b \in busts' : \E d \in busts : /\ b.user = d.user /\ b.nr = d.nr
                                         /\ b \in [user : LangUser, nr : 1..MaxChanges, age : Age]
  <2>1. ASSUME NEW d \in busts
        PROVE  /\ [d EXCEPT !.age = Older(d.age)] \in [user : LangUser, nr : 1..MaxChanges, age : Age]
               /\ [d EXCEPT !.age = Older(d.age)].user = d.user
               /\ [d EXCEPT !.age = Older(d.age)].nr = d.nr
    <3>1. d \in [user : LangUser, nr : 1..MaxChanges, age : Age]
      BY DEF LangTypeOK
    <3>2. QED
      BY <3>1
  <2>2. QED
    BY <2>1
<1>6. LangTypeOK'
  <2>1. sinceChange' \in [LangUser -> Age]
    BY <1>1
  <2>2. cache' \in [LangUser -> {NoEntry} \cup [lang : Lang, age : Age]]
    BY <1>4
  <2>3. QED
    BY <1>1, <1>2, <1>5, <2>1, <2>2 DEF LangTypeOK, Blocked
<1>7. BustsOfChanges'
  BY <1>1, <1>5 DEF BustsOfChanges
<1>8. SeenIsFresh'
  BY <1>1, <1>3 DEF SeenIsFresh
<1>9. BustedIsFresh'
  BY <1>1, <1>4 DEF BustedIsFresh
<1>10. AgesKnown'
  <2>1. Seen' => fetch'.seen = setting'[fetch'.user] \/ sinceChange'[fetch'.user] <= fetch'.age
    <3>1. ASSUME Seen', sinceChange[fetch.user] <= fetch.age
          PROVE  sinceChange'[fetch'.user] <= fetch'.age
      <4>1. PICK s \in Age : s = sinceChange[fetch.user] /\ sinceChange'[fetch'.user] = Older(s)
        BY <1>1, <1>3, <3>1
      <4>2. Older(s) <= s + 1 /\ Older(s) \in Age /\ s <= fetch.age
        BY <3>1, <4>1
      <4>3. QED
        BY <1>3, <3>1, <4>1, <4>2 DEF Age
    <3>2. QED
      BY <1>1, <1>3, <3>1 DEF AgesKnown
  <2>2. ASSUME NEW i \in LangUser, cache'[i] # NoEntry
        PROVE  \/ cache'[i].lang = FromBcp47(setting'[i])
               \/ sinceChange'[i] <= cache'[i].age + FetchTime
    <3>1. /\ cache[i] # NoEntry /\ cache'[i].lang = cache[i].lang
          /\ cache'[i].age = Older(cache[i].age) /\ sinceChange'[i] = Older(sinceChange[i])
      BY <1>1, <1>4, <2>2
    <3>2. PICK a \in Age, s \in Age : a = cache[i].age /\ s = sinceChange[i]
      BY <1>1, <1>4, <2>2
    <3>3. s <= a + FetchTime => Older(s) <= Older(a) + FetchTime
      BY DEF Age, Older
    <3>4. QED
      BY <1>1, <3>1, <3>2, <3>3 DEF AgesKnown
  <2>3. QED
    BY <2>1, <2>2 DEF AgesKnown
<1>11. QED
  BY <1>6, <1>7, <1>8, <1>9, <1>10

\* A restart forgets the cache and the request.
LEMMA RestartInv ==
    ASSUME LangInv, LangRestart
    PROVE  LangInv'
<1> USE Values, LangAssumption DEF LangInv, LangRestart
<1>1. LangTypeOK'
  BY DEF LangTypeOK, Blocked
<1>2. BustsOfChanges' /\ SeenIsFresh' /\ AgesKnown' /\ BustedIsFresh'
  BY DEF BustsOfChanges, SeenIsFresh, AgesKnown, BustedIsFresh, Seen, Blocked
<1>3. QED
  BY <1>1, <1>2

\* Every step of the bot, of voidnet and of time keeps the invariant.
LEMMA LangKept == LangInv /\ [LangNext]_langVars => LangInv'
<1>1. ASSUME LangInv, LangNext
      PROVE  LangInv'
  BY <1>1, RequestInv, ReadInv, AnswerInv, ChangeInv, EvictInv, TickInv, RestartInv DEF LangNext
<1>2. ASSUME LangInv, UNCHANGED langVars
      PROVE  LangInv'
  BY <1>2 DEF langVars, LangInv, LangTypeOK, BustsOfChanges, SeenIsFresh, AgesKnown,
              BustedIsFresh, Seen, Blocked
<1>3. QED
  BY <1>1, <1>2

-----------------------------------------------------------------------------
(* The theorems *)

\* How old what the bot knows of a language is, whatever becomes of requests
\* and evictions.
THEOREM LangInductive == LangSpec => []LangInv
<1>1. QED
  BY LangStart, LangKept, PTL DEF LangSpec

\* After the eviction of the last change no older language is in the cache, or
\* can get there any more.
THEOREM EvictedStaysFresh == LangSpec => []BustedIsFresh
<1>1. LangInv => BustedIsFresh
  BY DEF LangInv
<1>2. QED
  BY <1>1, LangInductive, PTL

\* Without any eviction an old language is answered at most for the time to
\* live and the time of a request after the change, for any two such times.
THEOREM StalenessIsBounded == LangSpec => StaleBounded
<1>1. LangInv /\ [LangNext]_langVars =>
         [answer' # answer /\ answer'.source \in {"voidnet", "cache"} =>
             \/ answer'.lang = FromBcp47(setting[answer'.user])
             \/ sinceChange[answer'.user] <= Ttl + FetchTime]_langVars
  <2> SUFFICES ASSUME LangInv, LangNext, answer' # answer,
                      answer'.source \in {"voidnet", "cache"}
               PROVE  \/ answer'.lang = FromBcp47(setting[answer'.user])
                      \/ sinceChange[answer'.user] <= Ttl + FetchTime
    OBVIOUS
  <2> USE Values, LangAssumption DEF LangInv
  <2>1. ASSUME NEW i \in LangUser, NEW tag \in Tag, GetUserLang(i, tag)
        PROVE  \/ answer'.lang = FromBcp47(setting[answer'.user])
               \/ sinceChange[answer'.user] <= Ttl + FetchTime
    <3>1. Hit(i) /\ answer' = Answered(i, cache[i].lang, "cache")
      BY <2>1 DEF GetUserLang, Answered
    <3>2. answer'.user = i /\ answer'.lang = cache[i].lang
      BY <3>1 DEF Answered
    <3>3. /\ cache[i] # NoEntry /\ cache[i].age \in Nat /\ cache[i].age <= Ttl
          /\ sinceChange[i] \in Nat
      BY <3>1 DEF Hit, LangTypeOK, Age
    <3>4. QED
      BY <3>2, <3>3 DEF AgesKnown
  <2>2. ASSUME FetchEnds
        PROVE  \/ answer'.lang = FromBcp47(setting[answer'.user])
               \/ sinceChange[answer'.user] <= Ttl + FetchTime
    <3>1. fetch.seen # "failed" /\ answer' = Answered(fetch.user, FromBcp47(fetch.seen), "voidnet")
      BY <2>2 DEF FetchEnds, Answered
    <3>2. answer'.user = fetch.user /\ answer'.lang = FromBcp47(fetch.seen)
      BY <3>1 DEF Answered
    <3>3. Seen /\ fetch.age \in 0..FetchTime /\ sinceChange[fetch.user] \in Nat
      BY <2>2, <3>1 DEF FetchEnds, Seen, LangTypeOK, Age
    <3>4. QED
      BY <3>2, <3>3 DEF AgesKnown
  <2>3. QED
    BY <2>1, <2>2 DEF LangNext, VoidnetReads, Tick, LangRestart, ChangeSetting, LangBust, LoseBust
<1>2. QED
  BY <1>1, LangInductive, PTL DEF LangSpec, StaleBounded
=============================================================================
