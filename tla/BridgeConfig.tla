---------------------------- MODULE BridgeConfig ----------------------------
(***************************************************************************)
(* Where the token of the Telegram bot comes from.  Three places hold one: *)
(* the environment, the entry of telegram-bridge in registry.json, which   *)
(* the dashboard writes (set_token in bot/engine/bridge_rpc.py), and       *)
(* config.json in the module's directory, which the boot writes once from  *)
(* the environment (_seed_telegram_bridge_token in bot/main.py) and the    *)
(* supervisor reads first.  An installation from before the module was     *)
(* renamed is migrated at boot (bot/modules/registry.py).                  *)
(*                                                                         *)
(* A boot is synchronous up to the start of the bridge; a crash may hit    *)
(* between any two of its writes.  The start reads the entry and the token *)
(* and then awaits Telegram, and requests are served from then on: an      *)
(* uninstall that comes before the end of the start has no handle to stop, *)
(* and the bridge outlives it.                                             *)
(***************************************************************************)
EXTENDS Naturals

CONSTANTS Token,  \* bot tokens
          NoToken

VARIABLES
    entry,      \* the entry in registry.json
    configFile, \* the token in config.json, per module directory
    dirs,       \* the module directories that exist
    env,        \* TELEGRAM_BOT_TOKEN of this boot
    boot,       \* how far the process is
    starting,   \* the token of an on_start that awaits Telegram
    polling,    \* the token the bridge polls with
    pending,    \* the token of a set_token request that awaits Telegram
    purging     \* an uninstall between its two removals

VARIABLES       \* history, for the properties only
    given,      \* tokens that the operator gave to this installation
    saved,      \* the token set_token reported last as saved
    reloaded,   \* the bridge was loaded since then
    torn,       \* a crash hit while purging
    orphaned    \* the bridge was uninstalled while it was being started

disk == <<entry, configFile, dirs>>
process == <<env, boot, starting, polling, pending, purging>>
bridgeVars == <<disk, process, given, saved, reloaded, torn, orphaned>>

MaybeToken == Token \cup {NoToken}
Dir == {"bridge", "telegram-bridge"}   \* modules/<name>
Absent == [name |-> "none", token |-> NoToken, runtime |-> FALSE, dir |-> "telegram-bridge"]
Entry == [name : Dir, token : MaybeToken, runtime : BOOLEAN, dir : Dir]

\* get_entry looks for the new name.
Found == entry.name = "telegram-bridge"
\* The loop runs requests from the first await of a start on, but none while an
\* uninstall is between its two removals.
Serves == boot = "up" /\ ~purging

-----------------------------------------------------------------------------
(* Boot.  A definition named Fault... is the next one with a bug seeded.    *)

StartBoot == /\ boot = "down" /\ boot' = "migrate" /\ env' \in MaybeToken
             /\ UNCHANGED <<disk, starting, polling, pending, purging, given, saved, reloaded,
                            torn, orphaned>>

\* The directory keeps its old name: the repository ships the new one.
FaultRenameOnly(e) == [e EXCEPT !.name = "telegram-bridge"]
Renamed(e) == [e EXCEPT !.name = "telegram-bridge", !.runtime = TRUE]
MigrateRename == /\ boot = "migrate" /\ boot' = "seed"
                 /\ entry' = IF entry.name = "bridge" THEN Renamed(entry) ELSE entry
                 /\ UNCHANGED <<configFile, dirs, env, starting, polling, pending, purging,
                                given, saved, reloaded, torn, orphaned>>

NeedsSeed == Found /\ configFile[entry.dir] = NoToken /\ env # NoToken

\* The environment's token goes to config.json; without the directory the write
\* fails, and the boot with it.
SeedToken == /\ boot = "seed"
             /\ \/ ~NeedsSeed /\ boot' = "load" /\ UNCHANGED <<configFile, given>>
                \/ NeedsSeed /\ entry.dir \in dirs /\ boot' = "load"
                   /\ configFile' = [configFile EXCEPT ![entry.dir] = env]
                   /\ given' = given \cup {env}
                \/ NeedsSeed /\ entry.dir \notin dirs /\ boot' = "down"
                   /\ UNCHANGED <<configFile, given>>
             /\ UNCHANGED <<entry, dirs, env, starting, polling, pending, purging, saved,
                            reloaded, torn, orphaned>>

\* config.json is used if it is there, and the entry otherwise.
LoadedToken == IF configFile[entry.dir] # NoToken THEN configFile[entry.dir] ELSE entry.token

\* on_start raises at once without a token; with one it goes on to await Telegram.
BeginStart == /\ boot = "load" /\ boot' = "up" /\ reloaded' = TRUE
              /\ starting' = IF Found /\ entry.runtime THEN LoadedToken ELSE NoToken
              /\ UNCHANGED <<disk, env, polling, pending, purging, given, saved, torn, orphaned>>
\* Telegram does not accept the token or cannot be reached, or the bridge polls.
\* Neither the entry nor the files are looked at again.
FinishStart == /\ Serves /\ starting # NoToken /\ starting' = NoToken
               /\ polling' \in {starting, NoToken}
               /\ UNCHANGED <<disk, env, boot, pending, purging, given, saved, reloaded, torn,
                              orphaned>>

\* The process ends, in order or not.
Halt == /\ boot # "down" /\ boot' = "down"
        /\ starting' = NoToken /\ polling' = NoToken /\ pending' = NoToken /\ purging' = FALSE
        /\ torn' = (torn \/ purging) /\ orphaned' = FALSE
        /\ UNCHANGED <<disk, env, given, saved, reloaded>>

-----------------------------------------------------------------------------
(* The dashboard *)

InstallBridge(t) == /\ Serves /\ ~Found
                    /\ entry' = [name |-> "telegram-bridge", token |-> t,
                                 runtime |-> TRUE, dir |-> "telegram-bridge"]
                    /\ given' = {t} \ {NoToken}
                    /\ UNCHANGED <<configFile, dirs, process, saved, reloaded, torn, orphaned>>

\* on_stop, if the supervisor has a handle, and the entry goes; then the files.
\* There is no handle before the end of a start, which goes on.
RemoveBridge == /\ Serves /\ Found
                /\ entry' = Absent /\ polling' = NoToken /\ purging' = TRUE
                /\ saved' = NoToken /\ orphaned' = (starting # NoToken)
                /\ UNCHANGED <<configFile, dirs, env, boot, starting, pending, given, reloaded,
                               torn>>
FaultKeepConfig == configFile
PurgedConfig == [configFile EXCEPT !["telegram-bridge"] = NoToken]
PurgeConfig == /\ purging /\ purging' = FALSE
               /\ configFile' = PurgedConfig
               /\ given' = {}
               /\ UNCHANGED <<entry, dirs, env, boot, starting, polling, pending, saved, reloaded,
                              torn, orphaned>>

\* set_token: the bridge is installed, and Telegram is asked about the token.
RequestToken(t) == /\ Serves /\ Found /\ pending = NoToken /\ pending' = t
                   /\ UNCHANGED <<disk, env, boot, starting, polling, purging, given, saved,
                                  reloaded, torn, orphaned>>
\* It is refused, or written to whatever entry there is now; without one
\* registry.json is written as it was, and the answer is ok as well.
FinishToken ==
    /\ Serves /\ pending # NoToken /\ pending' = NoToken
    /\ \/ UNCHANGED <<entry, given, saved, reloaded>>
       \/ Found /\ entry' = [entry EXCEPT !.token = pending]
          /\ given' = given \cup {pending} /\ saved' = pending /\ reloaded' = FALSE
       \/ ~Found /\ saved' = NoToken /\ UNCHANGED <<entry, given, reloaded>>
    /\ UNCHANGED <<configFile, dirs, env, boot, starting, polling, purging, torn, orphaned>>

\* save_config replaces the entry's configuration as a whole.
ReplaceConfig(t) == /\ Serves /\ Found
                    /\ entry' = [entry EXCEPT !.token = t]
                    /\ given' = given \cup ({t} \ {NoToken}) /\ saved' = NoToken
                    /\ UNCHANGED <<configFile, dirs, process, reloaded, torn, orphaned>>

-----------------------------------------------------------------------------
\* Before the first boot: nothing is installed, or a bridge of the old name.
BridgeInit ==
    /\ entry \in {Absent} \cup [name : {"bridge"}, token : MaybeToken,
                                runtime : BOOLEAN, dir : {"bridge"}]
    /\ configFile = [d \in Dir |-> NoToken]
    /\ dirs \in {Dir, {"telegram-bridge"}}
    /\ env = NoToken /\ boot = "down"
    /\ starting = NoToken /\ polling = NoToken /\ pending = NoToken /\ purging = FALSE
    /\ given = {entry.token} \ {NoToken} /\ saved = NoToken
    /\ reloaded = FALSE /\ torn = FALSE /\ orphaned = FALSE

BridgeNext == \/ StartBoot \/ MigrateRename \/ SeedToken \/ BeginStart \/ FinishStart \/ Halt
              \/ RemoveBridge \/ PurgeConfig \/ FinishToken
              \/ \E t \in MaybeToken : InstallBridge(t) \/ ReplaceConfig(t)
              \/ \E t \in Token : RequestToken(t)

BridgeSpec == BridgeInit /\ [][BridgeNext]_bridgeVars

-----------------------------------------------------------------------------
(* Properties *)

BridgeTypeOK ==
    /\ entry \in Entry \cup {Absent} /\ configFile \in [Dir -> MaybeToken]
    /\ dirs \subseteq Dir /\ env \in MaybeToken
    /\ boot \in {"down", "migrate", "seed", "load", "up"}
    /\ {starting, polling, pending, saved} \subseteq MaybeToken
    /\ {purging, reloaded, torn, orphaned} \subseteq BOOLEAN /\ given \subseteq Token

\* Whatever is requested while a start awaits Telegram, the places read at the
\* next boot hold no token but those of this installation: an uninstall leaves
\* nothing behind for a later install, unless a crash tears it.  The bridge polls
\* with such a token too, unless it was uninstalled while it was being started.
TokensOfThisBridge == ~torn /\ ~purging =>
    /\ orphaned \/ {starting, polling} \subseteq given \cup {NoToken}
    /\ Found => LoadedToken \in given \cup {NoToken}
    /\ ~Found => configFile["telegram-bridge"] = NoToken

\* However often a boot is cut short, a bridge installed under the old name is
\* found under the new one, and can be started, before requests are served.
MigratedBeforeServing == boot \in {"load", "up"} =>
    entry.name # "bridge" /\ (Found => entry.runtime)

\* "Validate + persist a new bot token to registry.  Reload required to take
\* effect" (bridge_rpc.py:166): after a reload, the bridge polls with the token
\* saved last.
SavedTokenRuns == reloaded /\ saved # NoToken /\ polling # NoToken => polling = saved

-----------------------------------------------------------------------------
(* The inductive invariant behind the first two *)

\* A bridge of the old name has its old directory, and was never started; one
\* of the new name can be, whatever its directory.
EntryShape ==
    /\ entry.name = "none" => entry = Absent
    /\ entry.name = "bridge" => entry.dir = "bridge"
    /\ Found => entry.runtime
BootMigrates == boot \in {"seed", "load", "up"} => entry.name # "bridge"

\* Only a process that is up starts a bridge or polls, one after the other, and
\* only a bridge that is found, or was while it was being started; the files are
\* purged when the entry is gone.
PollingKnown ==
    /\ starting # NoToken => polling = NoToken
    /\ {starting, polling} # {NoToken} => boot = "up" /\ (Found \/ orphaned)
    /\ purging => boot = "up" /\ entry = Absent

\* Not only the token the bridge would load, but each one it could fall back to
\* was given to this installation; before the migration no file holds any.
TokensGiven == ~torn /\ ~purging =>
    /\ entry.token \in given \cup {NoToken}
    /\ orphaned \/ {starting, polling} \subseteq given \cup {NoToken}
    /\ Found => configFile[entry.dir] \in given \cup {NoToken}
    /\ ~Found => configFile["telegram-bridge"] = NoToken
    /\ entry.name = "bridge" => configFile["bridge"] = NoToken

BridgeInv == BridgeTypeOK /\ EntryShape /\ BootMigrates /\ PollingKnown /\ TokensGiven
=============================================================================
