---------------------------- MODULE LanguageCache ----------------------------
(***************************************************************************)
(* The language of a user, as the bot sees it: get_user_lang in            *)
(* bot/lang.py with its cache, the signed request to voidnet behind it,    *)
(* and the route with which voidnet evicts an entry after the user changed *)
(* the setting (bot/engine/lang_bust.py).  Evictions may be lost, repeated *)
(* or late.  get_user_lang is synchronous: while it waits for voidnet the  *)
(* event loop serves nothing.                                              *)
(*                                                                         *)
(* Times are ages in ticks, counted up to Old.                             *)
(***************************************************************************)
EXTENDS Naturals, FiniteSets

CONSTANTS
    LangUser,   \* user ids
    Ttl,        \* age up to which an entry is used (60 s)
    Skew,       \* age up to which a signed eviction is accepted (60 s)
    FetchTime,  \* how long a request to voidnet may take (timeouts of 2 s and 5 s)
    MaxChanges  \* bound: changes of a user's setting

ASSUME LangAssumption == /\ Ttl \in Nat /\ Skew \in Nat
                         /\ FetchTime \in Nat /\ MaxChanges \in Nat

VARIABLES
    enabled,    \* the feature flag of this process
    setting,    \* voidnet: the language tag of each user
    changes,    \* voidnet: how often it was changed
    sinceChange,\* history: age of the last change
    busts,      \* evictions on their way
    taken,      \* history: number of the last change whose eviction was carried out
    cache,      \* _CACHE
    fetch,      \* the call of get_user_lang that waits for voidnet
    answer      \* what get_user_lang returned last, NoAnswer in between

langVars == <<enabled, setting, changes, sinceChange, busts, taken, cache, fetch, answer>>

Old == Ttl + FetchTime + 1
Age == 0..Old
Older(a) == IF a < Old THEN a + 1 ELSE Old

Lang == {"en", "ru"}
Tag == {"en-GB", "ru-RU", "fr"}        \* what voidnet or Telegram may name
FaultPassTag(tag) == tag
FromBcp47(tag) == IF tag = "ru-RU" THEN "ru" ELSE "en"

NoEntry == [lang |-> "none", age |-> 0]
NoFetch == [user |-> "none", locale |-> "fr", seen |-> "none", age |-> 0]
NoAnswer == [user |-> "none", lang |-> "none", source |-> "none"]
Answered(i, l, from) == [user |-> i, lang |-> l, source |-> from]

Blocked == fetch # NoFetch
FaultIgnoreAge(i) == cache[i] # NoEntry
Hit(i) == cache[i] # NoEntry /\ cache[i].age <= Ttl

-----------------------------------------------------------------------------
\* get_user_lang: the flag, the cache, or voidnet.
GetUserLang(i, locale) ==
    /\ ~Blocked
    /\ \/ ~enabled /\ answer' = Answered(i, "en", "flag") /\ UNCHANGED fetch
       \/ enabled /\ Hit(i) /\ answer' = Answered(i, cache[i].lang, "cache")
          /\ UNCHANGED fetch
       \/ enabled /\ ~Hit(i) /\ answer' = NoAnswer
          /\ fetch' = [NoFetch EXCEPT !.user = i, !.locale = locale]
    /\ UNCHANGED <<enabled, setting, changes, sinceChange, busts, taken, cache>>

\* Voidnet reads the setting, or the request fails in one of many ways.
VoidnetReads == /\ Blocked /\ fetch.seen = "none"
                /\ fetch' \in {[fetch EXCEPT !.seen = s] : s \in {setting[fetch.user], "failed"}}
                /\ UNCHANGED <<enabled, setting, changes, sinceChange, busts, taken, cache, answer>>

\* Its answer is cached; the fallback to Telegram's locale is not.
FetchEnds ==
    /\ Blocked /\ fetch.seen # "none" /\ fetch' = NoFetch
    /\ IF fetch.seen = "failed"
       THEN /\ answer' = Answered(fetch.user, FromBcp47(fetch.locale), "locale")
            /\ UNCHANGED cache
       ELSE LET l == FromBcp47(fetch.seen) IN
            /\ answer' = Answered(fetch.user, l, "voidnet")
            /\ cache' = [cache EXCEPT ![fetch.user] = [lang |-> l, age |-> 0]]
    /\ UNCHANGED <<enabled, setting, changes, sinceChange, busts, taken>>

\* The user changes the setting, and voidnet sends the eviction.
ChangeSetting(i, tag) ==
    /\ changes[i] < MaxChanges /\ tag # setting[i]
    /\ setting' = [setting EXCEPT ![i] = tag]
    /\ changes' = [changes EXCEPT ![i] = @ + 1]
    /\ sinceChange' = [sinceChange EXCEPT ![i] = 0]
    /\ busts' = busts \cup {[user |-> i, nr |-> changes[i] + 1, age |-> 0]}
    /\ UNCHANGED <<enabled, taken, cache, fetch, answer>>

\* lang_bust: refused with the flag off or the signature too old.
FaultServeBlocked == enabled
ServesBust == enabled /\ ~Blocked
Accepted(b) == b.age <= Skew
LangBust(b) ==
    /\ ServesBust /\ Accepted(b)
    /\ cache' = [cache EXCEPT ![b.user] = NoEntry]
    /\ taken' = [taken EXCEPT ![b.user] = IF b.nr > @ THEN b.nr ELSE @]
    /\ busts' \in {busts, busts \ {b}}   \* repeated, or not
    /\ UNCHANGED <<enabled, setting, changes, sinceChange, fetch, answer>>

\* Lost, or refused.
LoseBust(b) == /\ busts' = busts \ {b}
               /\ UNCHANGED <<enabled, setting, changes, sinceChange, taken, cache, fetch, answer>>

Tick == /\ Blocked => fetch.age < FetchTime
        /\ fetch' = IF Blocked THEN [fetch EXCEPT !.age = @ + 1] ELSE fetch
        /\ sinceChange' = [i \in LangUser |-> Older(sinceChange[i])]
        /\ busts' = {[b EXCEPT !.age = Older(@)] : b \in busts}
        /\ cache' = [i \in LangUser |-> IF cache[i] = NoEntry THEN NoEntry
                                        ELSE [cache[i] EXCEPT !.age = Older(@)]]
        /\ UNCHANGED <<enabled, setting, changes, taken, answer>>

\* The cache lives in the process.
LangRestart == /\ enabled' \in BOOLEAN
               /\ cache' = [i \in LangUser |-> NoEntry] /\ fetch' = NoFetch
               /\ answer' = NoAnswer
               /\ UNCHANGED <<setting, changes, sinceChange, busts, taken>>

LangInit == /\ enabled \in BOOLEAN /\ setting \in [LangUser -> Tag]
            /\ changes = [i \in LangUser |-> 0] /\ sinceChange = [i \in LangUser |-> Old]
            /\ busts = {} /\ taken = [i \in LangUser |-> 0]
            /\ cache = [i \in LangUser |-> NoEntry]
            /\ fetch = NoFetch /\ answer = NoAnswer

LangNext == \/ VoidnetReads \/ FetchEnds \/ Tick \/ LangRestart
            \/ \E i \in LangUser, tag \in Tag : GetUserLang(i, tag) \/ ChangeSetting(i, tag)
            \/ \E b \in busts : LangBust(b) \/ LoseBust(b)

LangSpec == LangInit /\ [][LangNext]_langVars

-----------------------------------------------------------------------------
LangTypeOK ==
    /\ enabled \in BOOLEAN /\ setting \in [LangUser -> Tag]
    /\ changes \in [LangUser -> 0..MaxChanges] /\ taken \in [LangUser -> 0..MaxChanges]
    /\ sinceChange \in [LangUser -> Age]
    /\ busts \subseteq [user : LangUser, nr : 1..MaxChanges, age : Age]
    /\ cache \in [LangUser -> {NoEntry} \cup [lang : Lang, age : Age]]
    /\ answer.lang \in Lang \cup {"none"}
    /\ Blocked => fetch \in [user : LangUser, locale : Tag, seen : Tag \cup {"none", "failed"},
                             age : 0..FetchTime]

\* Once the eviction of the last change is carried out, no older language is in
\* the cache, and none can come back: not from a request that voidnet answered
\* before the change, and not from a late or repeated eviction.
BustedIsFresh == \A i \in LangUser :
    taken[i] = changes[i] /\ cache[i] # NoEntry => cache[i].lang = FromBcp47(setting[i])

\* An answer that is not the user's language is a fallback, or the language
\* changed a moment ago: a lost eviction costs at most the time to live, and the
\* time of a request.
StaleBounded == [][
    answer' # answer /\ answer'.source \in {"voidnet", "cache"} =>
        \/ answer'.lang = FromBcp47(setting[answer'.user])
        \/ sinceChange[answer'.user] <= Ttl + FetchTime]_langVars

-----------------------------------------------------------------------------
(* The inductive invariant behind both *)

Seen == Blocked /\ fetch.seen \in Tag   \* voidnet has answered

\* No eviction is about a change that was not made.
BustsOfChanges == /\ \A i \in LangUser : taken[i] <= changes[i]
                  /\ \A b \in busts : b.nr <= changes[b.user]

\* While a request waits no eviction is taken, so what voidnet answered before
\* the last change is not counted as evicted.
SeenIsFresh == Seen /\ taken[fetch.user] = changes[fetch.user] => fetch.seen = setting[fetch.user]

\* What was read before the last change is older than it: by its age in the
\* cache, and the request before that.
AgesKnown ==
    /\ Seen => \/ fetch.seen = setting[fetch.user]
               \/ sinceChange[fetch.user] <= fetch.age
    /\ \A i \in LangUser : cache[i] # NoEntry =>
          \/ cache[i].lang = FromBcp47(setting[i])
          \/ sinceChange[i] <= cache[i].age + FetchTime

LangInv == LangTypeOK /\ BustsOfChanges /\ SeenIsFresh /\ AgesKnown /\ BustedIsFresh
=============================================================================
