---------------------------- MODULE BridgeClaim ----------------------------
(***************************************************************************)
(* Who owns the Telegram bot: the claim state machine in state.json of the *)
(* module telegram-bridge.  Its writers are the bridge RPCs of the engine  *)
(* (bot/engine/bridge_rpc.py), the handlers of incoming Telegram updates   *)
(* (_claim_handler, _owner_gate and _claim_proactive_greet in              *)
(* bot/bridge/telegram.py), the boot-time seed (_seed_owner_from_env in    *)
(* bot/main.py) and the purge at the end of lifecycle.uninstall.           *)
(*                                                                         *)
(* All of them run on one event loop.  The Telegram library hands updates  *)
(* to the handlers one by one, in order; while a handler awaits Telegram   *)
(* or Claude, requests are served.  A crash may hit between any two writes.*)
(***************************************************************************)
EXTENDS Naturals, Sequences

CONSTANTS
    User,        \* Telegram users
    NoUser,      \* no owner
    EnvOwners,   \* what TELEGRAM_OWNER_ID may be at a boot, NoUser if not set
    AttemptCap,  \* attempts per pairing code (5 in the code)
    MaxCodes,    \* bound: pairing codes generated
    MaxInbox     \* bound: updates fetched and not yet processed

ASSUME UserAssumption == NoUser \notin User /\ EnvOwners \subseteq User \cup {NoUser}
ASSUME BoundAssumption == AttemptCap \in Nat \ {0} /\ MaxCodes \in Nat /\ MaxInbox \in Nat

VARIABLES
    installed, \* registry.json has an entry for telegram-bridge
    file,      \* its state.json
    phase,     \* the engine process
    bridge,    \* the Telegram application: on_start and on_stop
    inbox,     \* its queue of fetched updates
    update,    \* the update being processed
    stage,     \* how far its processing is
    toggle,    \* a toggle request between its check and its write
    removal,   \* lifecycle.uninstall, in the middle of a call
    issued,    \* pairing codes generated so far; the last one is number issued
    lapsed     \* the time to live of the last code is over

VARIABLES      \* history, for the properties only
    tried,     \* wrong candidates compared with the last code
    seeded,    \* the owner has been seeded from the environment
    torn       \* a crash hit between an uninstall's two removals

process == <<bridge, inbox, update, stage>>
clock == <<issued, lapsed>>
history == <<tried, seeded, torn>>
vars == <<installed, file, phase, process, toggle, removal, clock, history>>

-----------------------------------------------------------------------------
(* Values *)

\* state.json.  A missing key reads as the value it has in NoFile; a code is
\* known by its number, and 0 stands for a cleared hash, salt and expiry.  The
\* attempts are only told apart up to the cap.
StateFile == [status : {"none", "unclaimed", "pending", "claimed"},
              owner : User \cup {NoUser}, code : 0..MaxCodes,
              attempts : 0..AttemptCap, greeted : BOOLEAN, enabled : BOOLEAN]
NoFile == [status |-> "none", owner |-> NoUser, code |-> 0,
           attempts |-> 0, greeted |-> FALSE, enabled |-> FALSE]

\* A message is six digits that are code n, six other digits, or no code.
Chat == 0
Wrong == MaxCodes + 1
Update == [from : User \cup {NoUser}, digits : 0..(MaxCodes + 1)]
NoUpdate == [from |-> NoUser, digits |-> Chat]

Claimed == file.status = "claimed"

\* The event loop is between two callbacks.
LoopFree == phase # "down" /\ stage # "verify" /\ removal # "purge"
Serving == LoopFree /\ installed

-----------------------------------------------------------------------------
(* The operator: bridge_rpc.  A definition named Fault... is the definition *)
(* after it with a bug seeded, used to show that the properties can fail.   *)

Pending(n) == [NoFile EXCEPT !.status = "pending", !.code = n]

\* claim_code and regen_code: generate_pairing_code replaces the whole file.
GenerateCode ==
    /\ Serving
    /\ issued < MaxCodes
    /\ issued' = issued + 1 /\ lapsed' = FALSE
    /\ file' = Pending(issued + 1)
    /\ tried' = 0
    /\ UNCHANGED <<installed, phase, process, toggle, removal, seeded, torn>>

\* revoke_code pops two keys that nothing writes, and gives the status a default.
RevokeCode ==
    /\ Serving
    /\ file' = [file EXCEPT !.status = IF @ = "none" THEN "unclaimed" ELSE @]
    /\ UNCHANGED <<installed, phase, process, toggle, removal, clock, history>>

\* toggle_bridge finds the module, awaits the request's body, and only then
\* reads and writes the file.  set_policy does the same with another key.
ToggleRequest ==
    /\ Serving
    /\ ~toggle
    /\ toggle' = TRUE
    /\ UNCHANGED <<installed, file, phase, process, removal, clock, history>>

ToggleWrite ==
    /\ LoopFree
    /\ toggle
    /\ \E enabled \in BOOLEAN : file' = [file EXCEPT !.enabled = enabled]
    /\ toggle' = FALSE
    /\ UNCHANGED <<installed, phase, process, removal, clock, history>>

-----------------------------------------------------------------------------
(* Telegram: the updates *)

\* Start at the next update: _claim_handler up to its first write, or, for an
\* update that it leaves alone, _owner_gate.
FaultAdmitUnclaimed(u) == file.owner = NoUser \/ file.owner = u.from
Admitted(u) == Claimed /\ (file.owner = NoUser \/ file.owner = u.from)

FaultForgetAttempt == file
CountAttempt == [file EXCEPT !.attempts = IF @ < AttemptCap THEN @ + 1 ELSE @]

TakeUpdate ==
    /\ LoopFree
    /\ stage = "idle" /\ inbox # <<>>
    /\ inbox' = Tail(inbox)
    /\ LET u == Head(inbox) IN
         \/ /\ u.digits # Chat /\ file.status = "pending"
            /\ file' = CountAttempt
            /\ stage' = "verify" /\ update' = u
         \/ /\ ~(u.digits # Chat /\ file.status = "pending")
            /\ stage' = IF Admitted(u) THEN "turn" ELSE "idle"
            /\ update' = IF Admitted(u) THEN u ELSE NoUpdate
            /\ UNCHANGED file
    /\ UNCHANGED <<installed, phase, bridge, toggle, removal, clock, history>>

\* verify_pairing_code, up to its comparison
FaultNoExpiry == file.attempts < AttemptCap
FaultCapLate == file.attempts <= AttemptCap /\ ~lapsed
Comparable == file.attempts < AttemptCap /\ ~lapsed

\* The rest of _claim_handler up to its first await.
AcceptCode ==
    /\ stage = "verify"
    /\ Comparable /\ update.digits = file.code
    /\ file' = [file EXCEPT !.status = "claimed", !.owner = update.from, !.code = 0,
                            !.attempts = 0, !.greeted = FALSE]
    /\ stage' = "greet"
    /\ UNCHANGED <<installed, phase, bridge, inbox, update, toggle, removal, clock, history>>

Exhausted == file.attempts >= AttemptCap

RejectCode ==
    /\ stage = "verify"
    /\ ~(Comparable /\ update.digits = file.code)
    /\ file' = IF Exhausted
               THEN [file EXCEPT !.status = "unclaimed", !.code = 0, !.attempts = 0]
               ELSE file
    /\ stage' = "gate"
    /\ tried' = IF Comparable THEN tried + 1 ELSE tried
    /\ UNCHANGED <<installed, phase, bridge, inbox, update, toggle, removal, clock,
                   seeded, torn>>

\* After the reply to a wrong code the update goes on to _owner_gate.
GateAfterReply ==
    /\ LoopFree
    /\ stage = "gate"
    /\ stage' = IF Admitted(update) THEN "turn" ELSE "idle"
    /\ update' = IF Admitted(update) THEN update ELSE NoUpdate
    /\ UNCHANGED <<installed, file, phase, bridge, inbox, toggle, removal, clock, history>>

\* A turn or a greeting ends.  The greeting reads the file again, and writes it.
EndTurn ==
    /\ LoopFree
    /\ stage = "turn"
    /\ stage' = "idle" /\ update' = NoUpdate
    /\ UNCHANGED <<installed, file, phase, bridge, inbox, toggle, removal, clock, history>>

EndGreeting ==
    /\ LoopFree
    /\ stage = "greet"
    /\ file' = [file EXCEPT !.greeted = TRUE]
    /\ stage' = "idle" /\ update' = NoUpdate
    /\ UNCHANGED <<installed, phase, bridge, inbox, toggle, removal, clock, history>>

\* Anybody may send anything, a code once it exists.
FaultFetchAlways == bridge \in {"polling", "draining"}
Fetching == bridge = "polling"

Send(from, digits) ==
    /\ Fetching
    /\ Len(inbox) < MaxInbox
    /\ digits <= issued \/ digits = Wrong
    /\ inbox' = Append(inbox, [from |-> from, digits |-> digits])
    /\ UNCHANGED <<installed, file, phase, bridge, update, stage, toggle, removal,
                   clock, history>>

Expire ==
    /\ issued > 0 /\ ~lapsed
    /\ lapsed' = TRUE
    /\ UNCHANGED <<installed, file, phase, process, toggle, removal, issued, history>>

-----------------------------------------------------------------------------
(* Install, uninstall, boot and shutdown, as far as they concern state.json *)

Install ==
    /\ LoopFree
    /\ ~installed
    /\ installed' = TRUE
    /\ UNCHANGED <<file, phase, process, toggle, removal, clock, history>>

\* uninstall awaits on_stop if the bridge runs: no more updates are fetched.
BeginUninstall ==
    /\ Serving
    /\ removal = "none"
    /\ removal' = "stopping"
    /\ bridge' = IF bridge = "polling" THEN "draining" ELSE bridge
    /\ UNCHANGED <<installed, file, phase, inbox, update, stage, toggle, clock, history>>

\* on_stop returns when the fetched updates are processed.
Drained ==
    /\ LoopFree
    /\ bridge = "draining" /\ inbox = <<>> /\ stage = "idle"
    /\ bridge' = "off"
    /\ UNCHANGED <<installed, file, phase, inbox, update, stage, toggle, removal,
                   clock, history>>

\* Of two overlapping calls of on_stop only one waits: the other one's errors
\* are swallowed.  After on_stop comes uninstall.sh, which may fail.
RemoveEntry ==
    /\ LoopFree
    /\ removal = "stopping"
    /\ bridge = "off" \/ phase = "stopping"
    /\ \/ installed' = FALSE /\ removal' = "purge"
       \/ removal' = "none" /\ UNCHANGED installed
    /\ UNCHANGED <<file, phase, process, toggle, clock, history>>

FaultNoPurge == file
Purged == NoFile

PurgeState ==
    /\ removal = "purge"
    /\ removal' = "none"
    /\ file' = Purged
    /\ torn' = FALSE
    /\ UNCHANGED <<installed, phase, process, toggle, clock, tried, seeded>>

\* _seed_owner_from_env, then on_start of the bridge, which may raise.
MustSeed(env) ==
    /\ env # NoUser
    /\ installed
    /\ ~(Claimed /\ file.owner # NoUser)

Boot(env) ==
    /\ phase = "down"
    /\ phase' = "up"
    /\ file' = IF MustSeed(env)
               THEN [file EXCEPT !.status = "claimed", !.owner = env]
               ELSE file
    /\ seeded' = (seeded \/ MustSeed(env))
    /\ bridge' \in IF installed THEN {"polling", "off"} ELSE {"off"}
    /\ UNCHANGED <<installed, inbox, update, stage, toggle, removal, clock, tried, torn>>

BeginShutdown ==
    /\ LoopFree
    /\ phase = "up"
    /\ phase' = "stopping"
    /\ bridge' = IF bridge = "polling" THEN "draining" ELSE bridge
    /\ UNCHANGED <<installed, file, inbox, update, stage, toggle, removal, clock, history>>

StopProcess ==
    /\ phase' = "down" /\ bridge' = "off"
    /\ inbox' = <<>> /\ stage' = "idle" /\ update' = NoUpdate
    /\ toggle' = FALSE /\ removal' = "none"
    /\ UNCHANGED <<installed, file, clock, tried, seeded>>

Exit ==
    /\ LoopFree
    /\ phase = "stopping"
    /\ bridge = "off" \/ removal = "stopping"
    /\ StopProcess
    /\ UNCHANGED torn

Crash ==
    /\ phase # "down"
    /\ StopProcess
    /\ torn' = (torn \/ removal = "purge")

-----------------------------------------------------------------------------
(* Specification *)

Init ==
    /\ installed = FALSE /\ file = NoFile /\ phase = "down" /\ bridge = "off"
    /\ inbox = <<>> /\ update = NoUpdate /\ stage = "idle"
    /\ toggle = FALSE /\ removal = "none"
    /\ issued = 0 /\ lapsed = FALSE
    /\ tried = 0 /\ seeded = FALSE /\ torn = FALSE

Operator == GenerateCode \/ RevokeCode \/ ToggleRequest \/ ToggleWrite
Handler ==
    \/ TakeUpdate \/ AcceptCode \/ RejectCode \/ GateAfterReply
    \/ EndTurn \/ EndGreeting
Lifecycle ==
    \/ Install \/ BeginUninstall \/ Drained \/ RemoveEntry \/ PurgeState
    \/ \E env \in EnvOwners : Boot(env)
    \/ BeginShutdown \/ Exit \/ Crash

Next ==
    \/ Operator
    \/ Handler
    \/ \E from \in User, digits \in 0..(MaxCodes + 1) : Send(from, digits)
    \/ Expire
    \/ Lifecycle

Spec == Init /\ [][Next]_vars

\* The loop is not starved; Telegram and Claude answer or fail.
Fairness ==
    /\ WF_vars(Handler) /\ WF_vars(Drained) /\ WF_vars(RemoveEntry) /\ WF_vars(PurgeState)

FairSpec == Spec /\ Fairness

-----------------------------------------------------------------------------
(* Properties *)

\* Every variable keeps its type.
TypeOK ==
    /\ installed \in BOOLEAN /\ file \in StateFile
    /\ phase \in {"down", "up", "stopping"}
    /\ bridge \in {"off", "polling", "draining"}
    /\ inbox \in Seq(Update) /\ update \in Update
    /\ stage \in {"idle", "verify", "gate", "turn", "greet"}
    /\ toggle \in BOOLEAN
    /\ removal \in {"none", "stopping", "purge"}
    /\ issued \in 0..MaxCodes /\ lapsed \in BOOLEAN
    /\ tried \in Nat /\ seeded \in BOOLEAN /\ torn \in BOOLEAN

\* The bot gets an owner only from the environment at boot, or from the user
\* who sent the last code that was generated, while it was valid: whatever was
\* in the queue, in a greeting or in a request before has no say.
OwnerProven ==
    [][file'.status = "claimed" /\ <<file'.status, file'.owner>> # <<file.status, file.owner>> =>
         \/ phase = "down" /\ file'.owner \in EnvOwners
         \/ /\ stage = "verify" /\ update.from = file'.owner
            /\ update.digits = issued /\ ~lapsed]_vars

\* No code is compared with more than the allowed number of wrong candidates,
\* whatever crashes and restarts come between the attempts.
GuessesBounded == tried < AttemptCap

\* Only the owner's messages are answered by Claude, although _owner_gate lets
\* everybody pass when the bot is claimed and no owner is on record.
TurnsForOwner ==
    [][stage # "turn" /\ stage' = "turn" => Claimed /\ update'.from = file.owner]_vars

\* An uninstalled bridge has no owner and no open code, also when a request or
\* a greeting was under way.  The exception is a crash between the removal of
\* the entry and the purge.
UninstalledOwnerless ==
    ~installed /\ removal = "none" /\ ~torn =>
        file.status \notin {"pending", "claimed"} /\ file.owner = NoUser

\* An uninstall that waits for on_stop comes to an end: polling stops first, so
\* the updates to drain do not grow.
UninstallEnds == removal = "stopping" ~> removal = "none"

\* main.py, line 115: after the seed the variable is ignored on all boots.  A
\* regenerated code takes the owner away, and the next boot seeds him again.
SeededOnce == [][seeded => phase # "down" \/ file'.owner = file.owner]_vars

-----------------------------------------------------------------------------
(* The inductive invariant behind the safety properties *)

\* The synchronous stretches of code exclude each other and end with the process.
LoopInv ==
    /\ stage = "verify" => file.status = "pending" /\ removal # "purge"
    /\ phase = "down" => stage = "idle" /\ removal = "none"
    /\ removal = "stopping" => installed
    /\ removal = "purge" => ~installed

\* The file knows no code but the last one.
CodeInv ==
    /\ file.code \in {0, issued}
    /\ stage = "verify" => update.digits # Chat

\* Every comparison was counted in the file before it was made.
AttemptInv ==
    /\ tried < AttemptCap
    /\ file.status = "pending" =>
          /\ tried <= file.attempts
          /\ stage = "verify" => tried < file.attempts

ClaimInv == TypeOK /\ LoopInv /\ CodeInv /\ AttemptInv /\ UninstalledOwnerless

\* A claimed bot has an owner on record: every update names its sender, who
\* becomes the owner, and a seed names one as well.
OwnerInv ==
    /\ Claimed => file.owner # NoUser
    /\ stage = "verify" => update.from # NoUser
    /\ \A i \in DOMAIN inbox : inbox[i].from # NoUser

IInv == ClaimInv /\ OwnerInv

=============================================================================
