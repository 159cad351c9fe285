------------------------- MODULE BridgeClaimProofs -------------------------
(***************************************************************************)
(* Proofs about BridgeClaim, for any users, any values of the environment  *)
(* variable, any attempt cap and any bounds.                               *)
(***************************************************************************)
EXTENDS BridgeClaim, TLAPS

\* What the handlers write is a state file.
LEMMA FileTypes ==
    ASSUME TypeOK
    PROVE  /\ NoFile \in StateFile /\ NoUpdate \in Update
           /\ \A n \in 0..MaxCodes : Pending(n) \in StateFile
           /\ CountAttempt \in StateFile
           /\ \A e \in BOOLEAN : [file EXCEPT !.enabled = e] \in StateFile
           /\ [file EXCEPT !.greeted = TRUE] \in StateFile
           /\ [file EXCEPT !.status = "unclaimed", !.code = 0, !.attempts = 0] \in StateFile
           /\ \A u \in User \cup {NoUser} :
                 [file EXCEPT !.status = "claimed", !.owner = u] \in StateFile
<1> USE DEF StateFile, TypeOK
<1>1. NoFile \in StateFile /\ NoUpdate \in Update
  BY BoundAssumption DEF NoFile, NoUpdate, Update, Chat
<1>2. \A n \in 0..MaxCodes : Pending(n) \in StateFile
  BY <1>1 DEF Pending
<1>3. CountAttempt \in StateFile
  BY BoundAssumption DEF CountAttempt
<1>4. 0 \in 0..MaxCodes /\ 0 \in 0..AttemptCap
  BY BoundAssumption
<1>5. \A e \in BOOLEAN : [file EXCEPT !.enabled = e] \in StateFile
  OBVIOUS
<1>6. [file EXCEPT !.greeted = TRUE] \in StateFile
  OBVIOUS
<1>7. [file EXCEPT !.status = "unclaimed", !.code = 0, !.attempts = 0] \in StateFile
  BY <1>4
<1>8. \A u \in User \cup {NoUser} :
         [file EXCEPT !.status = "claimed", !.owner = u] \in StateFile
  OBVIOUS
<1>9. QED
  BY <1>1, <1>2, <1>3, <1>5, <1>6, <1>7, <1>8

LEMMA InitInv == Init => ClaimInv
<1> SUFFICES ASSUME Init
             PROVE  ClaimInv
  OBVIOUS
<1>1. NoFile \in StateFile /\ NoUpdate \in Update /\ <<>> \in Seq(Update)
  BY BoundAssumption DEF NoFile, StateFile, NoUpdate, Update, Chat
<1>2. TypeOK
  <2>1. 0 \in 0..MaxCodes /\ 0 \in Nat
    BY BoundAssumption
  <2>2. QED
    BY <1>1, <2>1 DEF Init, TypeOK
<1>3. LoopInv /\ CodeInv /\ AttemptInv /\ UninstalledOwnerless
  BY BoundAssumption
     DEF Init, NoFile, LoopInv, CodeInv, AttemptInv, UninstalledOwnerless
<1>4. QED
  BY <1>2, <1>3 DEF ClaimInv

LEMMA OperatorInv ==
    ASSUME ClaimInv, Operator
    PROVE  ClaimInv'
<1> USE DEF ClaimInv, LoopFree, Serving, process, clock, history
<1>1. CASE GenerateCode
  <2>1. issued + 1 \in 0..MaxCodes
    BY <1>1, BoundAssumption DEF GenerateCode, TypeOK
  <2>2. /\ file'.status = "pending" /\ file'.code = issued' /\ file'.attempts = 0
        /\ file' \in StateFile
    BY <1>1, <2>1, FileTypes DEF GenerateCode, Pending, NoFile
  <2>3. TypeOK'
    BY <1>1, <2>1, <2>2 DEF GenerateCode, TypeOK
  <2>4. LoopInv' /\ CodeInv' /\ AttemptInv' /\ UninstalledOwnerless'
    BY <1>1, <2>2, BoundAssumption
       DEF GenerateCode, LoopInv, CodeInv, AttemptInv, UninstalledOwnerless
  <2>5. QED
    BY <2>3, <2>4
<1>2. CASE RevokeCode
  <2>1. /\ file' \in StateFile
        /\ file'.status \in {file.status, "unclaimed"}
        /\ file'.status = "unclaimed" => file.status \in {"none", "unclaimed"}
        /\ file'.owner = file.owner /\ file'.code = file.code
        /\ file'.attempts = file.attempts
    BY <1>2 DEF RevokeCode, TypeOK, StateFile
  <2>2. TypeOK'
    BY <1>2, <2>1 DEF RevokeCode, TypeOK
  <2>3. LoopInv' /\ CodeInv' /\ AttemptInv' /\ UninstalledOwnerless'
    BY <1>2, <2>1 DEF RevokeCode, LoopInv, CodeInv, AttemptInv, UninstalledOwnerless
  <2>4. QED
    BY <2>2, <2>3
<1>3. CASE ToggleRequest
  BY <1>3 DEF ToggleRequest, TypeOK, LoopInv, CodeInv, AttemptInv, UninstalledOwnerless
<1>4. CASE ToggleWrite
  <2>1. /\ file' \in StateFile
        /\ file'.status = file.status /\ file'.owner = file.owner
        /\ file'.code = file.code /\ file'.attempts = file.attempts
    BY <1>4, FileTypes, ZenonT(60) DEF ToggleWrite, TypeOK, StateFile
  <2>2. TypeOK'
    BY <1>4, <2>1 DEF ToggleWrite, TypeOK
  <2>3. LoopInv' /\ CodeInv' /\ AttemptInv' /\ UninstalledOwnerless'
    BY <1>4, <2>1 DEF ToggleWrite, LoopInv, CodeInv, AttemptInv, UninstalledOwnerless
  <2>4. QED
    BY <2>2, <2>3
<1>5. QED
  BY <1>1, <1>2, <1>3, <1>4 DEF Operator

LEMMA HandlerInv ==
    ASSUME ClaimInv, Handler
    PROVE  ClaimInv'
<1> USE DEF ClaimInv, LoopFree, process, clock, history
<1>1. CASE TakeUpdate
  <2>1. Head(inbox) \in Update /\ Tail(inbox) \in Seq(Update)
    BY <1>1 DEF TakeUpdate, TypeOK
  <2>2. CASE Head(inbox).digits # Chat /\ file.status = "pending"
    <3>1. /\ file' = CountAttempt /\ stage' = "verify" /\ update' = Head(inbox)
          /\ UNCHANGED <<installed, phase, removal, issued, tried, torn>>
          /\ removal # "purge" /\ phase # "down" /\ stage = "idle"
      BY <1>1, <2>2 DEF TakeUpdate
    <3>2. /\ file' \in StateFile /\ file'.status = "pending" /\ file'.code = file.code
          /\ file'.owner = file.owner /\ tried < file'.attempts
      <4>1. file' \in StateFile
        BY <3>1, FileTypes
      <4>2. /\ file'.status = "pending" /\ file'.code = file.code
            /\ file'.owner = file.owner
            /\ file'.attempts = IF file.attempts < AttemptCap THEN file.attempts + 1
                                ELSE file.attempts
        BY <2>2, <3>1 DEF CountAttempt, TypeOK, StateFile
      <4>3. tried \in Nat /\ tried <= file.attempts /\ tried < AttemptCap
        BY <2>2 DEF AttemptInv, TypeOK
      <4>4. file.attempts \in Nat
        BY BoundAssumption DEF TypeOK, StateFile
      <4>5. tried < file'.attempts
        BY <4>2, <4>3, <4>4, BoundAssumption
      <4>6. QED
        BY <4>1, <4>2, <4>5
    <3>3. TypeOK'
      BY <1>1, <2>1, <3>1, <3>2 DEF TakeUpdate, TypeOK
    <3>4. LoopInv' /\ CodeInv' /\ AttemptInv' /\ UninstalledOwnerless'
      BY <2>2, <3>1, <3>2, BoundAssumption
         DEF TypeOK, StateFile, LoopInv, CodeInv, AttemptInv, UninstalledOwnerless
    <3>5. QED
      BY <3>3, <3>4
  <2>3. CASE ~(Head(inbox).digits # Chat /\ file.status = "pending")
    <3>1. stage' \in {"turn", "idle"} /\ update' \in Update /\ file' = file
      BY <1>1, <2>1, <2>3, FileTypes DEF TakeUpdate
    <3>2. QED
      BY <1>1, <2>1, <3>1
         DEF TakeUpdate, TypeOK, LoopInv, CodeInv, AttemptInv, UninstalledOwnerless
  <2>4. QED
    BY <2>2, <2>3
<1>2. CASE AcceptCode
  <2>1. /\ file' \in StateFile /\ file'.status = "claimed" /\ file'.code = 0
        /\ file.status = "pending"
    <3>1. update.from \in User \cup {NoUser} /\ 0 \in 0..MaxCodes /\ 0 \in 0..AttemptCap
      BY BoundAssumption DEF TypeOK, Update
    <3>2. file' \in StateFile /\ file'.status = "claimed" /\ file'.code = 0
      BY <1>2, <3>1 DEF AcceptCode, TypeOK, StateFile
    <3>3. QED
      BY <1>2, <3>2 DEF AcceptCode, LoopInv
  <2>2. TypeOK'
    BY <1>2, <2>1 DEF AcceptCode, TypeOK
  <2>3. LoopInv' /\ CodeInv' /\ AttemptInv' /\ UninstalledOwnerless'
    BY <1>2, <2>1
       DEF AcceptCode, LoopInv, CodeInv, AttemptInv, UninstalledOwnerless
  <2>4. QED
    BY <2>2, <2>3
<1>3. CASE RejectCode
  <2>1. /\ stage = "verify" /\ stage' = "gate" /\ file.status = "pending"
        /\ tried < file.attempts /\ file.attempts \in 0..AttemptCap
        /\ UNCHANGED <<installed, phase, removal, issued, torn>>
    BY <1>3 DEF RejectCode, LoopInv, AttemptInv, TypeOK, StateFile
  <2>2. /\ file' \in StateFile
        /\ file'.status \in {"pending", "unclaimed"}
        /\ file'.status = "pending" => file' = file
        /\ file'.code \in {0, file.code} /\ file'.owner = file.owner
    BY <1>3, <2>1, FileTypes DEF RejectCode, TypeOK, StateFile
  <2>3. /\ tried' \in Nat /\ tried' < AttemptCap /\ tried' <= file.attempts
    BY <1>3, <2>1, BoundAssumption DEF RejectCode, Comparable, TypeOK, AttemptInv
  <2>4. TypeOK'
    BY <1>3, <2>2, <2>3 DEF RejectCode, TypeOK
  <2>5. LoopInv' /\ CodeInv' /\ AttemptInv' /\ UninstalledOwnerless'
    BY <2>1, <2>2, <2>3 DEF LoopInv, CodeInv, AttemptInv, UninstalledOwnerless
  <2>6. QED
    BY <2>4, <2>5
<1>4. CASE GateAfterReply \/ EndTurn
  <2>1. stage' \in {"turn", "idle"} /\ update' \in Update /\ file' = file
    BY <1>4, FileTypes DEF GateAfterReply, EndTurn, TypeOK
  <2>2. QED
    BY <1>4, <2>1 DEF GateAfterReply, EndTurn, TypeOK, LoopInv, CodeInv, AttemptInv,
                      UninstalledOwnerless
<1>5. CASE EndGreeting
  <2>1. /\ file' \in StateFile
        /\ file'.status = file.status /\ file'.owner = file.owner
        /\ file'.code = file.code /\ file'.attempts = file.attempts
    BY <1>5, FileTypes DEF EndGreeting, TypeOK, StateFile
  <2>2. TypeOK'
    BY <1>5, <2>1, FileTypes, ZenonT(60) DEF EndGreeting, TypeOK
  <2>3. LoopInv' /\ CodeInv' /\ AttemptInv' /\ UninstalledOwnerless'
    BY <1>5, <2>1 DEF EndGreeting, LoopInv, CodeInv, AttemptInv, UninstalledOwnerless
  <2>4. QED
    BY <2>2, <2>3
<1>6. QED
  BY <1>1, <1>2, <1>3, <1>4, <1>5 DEF Handler

LEMMA TelegramInv ==
    ASSUME ClaimInv, Expire \/ \E from \in User, digits \in 0..(MaxCodes + 1) : Send(from, digits)
    PROVE  ClaimInv'
<1> USE DEF ClaimInv, process, clock, history
<1>1. CASE Expire
  BY <1>1 DEF Expire, TypeOK, LoopInv, CodeInv, AttemptInv, UninstalledOwnerless
<1>2. CASE \E from \in User, digits \in 0..(MaxCodes + 1) : Send(from, digits)
  <2>1. PICK from \in User, digits \in 0..(MaxCodes + 1) : Send(from, digits)
    BY <1>2
  <2>2. inbox' \in Seq(Update)
    BY <2>1 DEF Send, TypeOK, Update
  <2>3. QED
    BY <2>1, <2>2 DEF Send, TypeOK, LoopInv, CodeInv, AttemptInv, UninstalledOwnerless
<1>3. QED
  BY <1>1, <1>2

LEMMA LifecycleInv ==
    ASSUME ClaimInv, Lifecycle
    PROVE  ClaimInv'
<1> USE DEF ClaimInv, LoopFree, Serving, process, clock, history
<1>1. CASE Install \/ BeginUninstall \/ Drained \/ RemoveEntry \/ BeginShutdown
  <2>1. UNCHANGED <<file, inbox, update, stage, issued, lapsed, tried, torn>>
    BY <1>1 DEF Install, BeginUninstall, Drained, RemoveEntry, BeginShutdown
  <2>2. TypeOK'
    BY <1>1, <2>1, ZenonT(60) DEF TypeOK, Install, BeginUninstall, Drained, RemoveEntry, BeginShutdown
  <2>3. LoopInv' /\ CodeInv' /\ AttemptInv' /\ UninstalledOwnerless'
    BY <1>1, <2>1 DEF LoopInv, CodeInv, AttemptInv, UninstalledOwnerless, TypeOK,
       Install, BeginUninstall, Drained, RemoveEntry, BeginShutdown
  <2>4. QED
    BY <2>2, <2>3
<1>2. CASE PurgeState
  <2>1. file' \in StateFile /\ file'.status = "none" /\ file'.owner = NoUser /\ file'.code = 0
    BY <1>2, FileTypes DEF PurgeState, Purged, NoFile
  <2>2. TypeOK'
    BY <1>2, <2>1 DEF PurgeState, TypeOK
  <2>3. LoopInv' /\ CodeInv' /\ AttemptInv' /\ UninstalledOwnerless'
    BY <1>2, <2>1 DEF PurgeState, LoopInv, CodeInv, AttemptInv, UninstalledOwnerless
  <2>4. QED
    BY <2>2, <2>3
<1>3. CASE \E env \in EnvOwners : Boot(env)
  <2>1. PICK env \in EnvOwners : Boot(env)
    BY <1>3
  <2>2. env \in User \cup {NoUser}
    BY UserAssumption
  <2>3. /\ file' \in StateFile /\ file'.code = file.code
        /\ \/ file' = file
           \/ installed /\ file'.status = "claimed"
    BY <2>1, <2>2, FileTypes, ZenonT(60) DEF Boot, MustSeed, TypeOK, StateFile
  <2>4. TypeOK'
    BY <2>1, <2>3 DEF Boot, TypeOK, MustSeed, Claimed
  <2>5. LoopInv' /\ CodeInv' /\ AttemptInv' /\ UninstalledOwnerless'
    BY <2>1, <2>3 DEF Boot, LoopInv, CodeInv, AttemptInv, UninstalledOwnerless
  <2>6. QED
    BY <2>4, <2>5
<1>4. CASE Exit \/ Crash
  <2>1. /\ StopProcess
        /\ torn' = torn \/ torn' = (torn \/ removal = "purge")
        /\ removal = "purge" => torn'
    BY <1>4 DEF Exit, Crash
  <2>2. <<>> \in Seq(Update)
    OBVIOUS
  <2>3. torn' \in BOOLEAN
    <3>1. torn \in BOOLEAN
      BY DEF TypeOK
    <3>2. QED
      BY <2>1, <3>1, Zenon
  <2>4. TypeOK'
    BY <2>1, <2>2, <2>3, FileTypes DEF StopProcess, TypeOK
  <2>5. LoopInv' /\ CodeInv' /\ AttemptInv'
    BY <2>1 DEF StopProcess, LoopInv, CodeInv, AttemptInv
  <2>6. UninstalledOwnerless'
    BY <2>1 DEF StopProcess, UninstalledOwnerless, LoopInv, TypeOK
  <2>7. QED
    BY <2>4, <2>5, <2>6
<1>5. QED
  BY <1>1, <1>2, <1>3, <1>4 DEF Lifecycle

\* What was on record before a step, or comes from the sender of an update or
\* from the environment, is the owner after it.
LEMMA OwnerStep ==
    ASSUME ClaimInv, OwnerInv, Next
    PROVE  OwnerInv'
<1> USE DEF ClaimInv, LoopFree, process, clock, history
<1>1. CASE Operator
  <2>1. stage' = stage /\ update' = update /\ inbox' = inbox
    BY <1>1 DEF Operator, GenerateCode, RevokeCode, ToggleRequest, ToggleWrite
  <2>2. Claimed' => Claimed /\ file'.owner = file.owner
    BY <1>1 DEF Operator, GenerateCode, RevokeCode, ToggleRequest, ToggleWrite, Claimed,
                Pending, NoFile, TypeOK, StateFile
  <2>3. QED
    BY <2>1, <2>2 DEF OwnerInv
<1>2. CASE TakeUpdate
  <2>1. /\ Head(inbox).from # NoUser
        /\ \A i \in DOMAIN inbox' : inbox'[i].from # NoUser
    <3>1. inbox \in Seq(Update) /\ inbox # <<>> /\ inbox' = Tail(inbox)
      BY <1>2 DEF TakeUpdate, TypeOK
    <3>2. Head(inbox) = inbox[1] /\ 1 \in DOMAIN inbox
      BY <3>1
    <3>3. \A i \in DOMAIN inbox' : i + 1 \in DOMAIN inbox /\ inbox'[i] = inbox[i + 1]
      BY <3>1
    <3>4. QED
      BY <3>2, <3>3 DEF OwnerInv
  <2>2. file'.status = file.status /\ file'.owner = file.owner
    BY <1>2 DEF TakeUpdate, CountAttempt, TypeOK, StateFile
  <2>3. stage' = "verify" => update' = Head(inbox)
    BY <1>2 DEF TakeUpdate
  <2>4. QED
    BY <2>1, <2>2, <2>3 DEF OwnerInv, Claimed
<1>3. CASE AcceptCode
  <2>1. file'.owner = update.from /\ update.from # NoUser /\ inbox' = inbox /\ stage' = "greet"
    BY <1>3 DEF AcceptCode, OwnerInv, TypeOK, StateFile
  <2>2. QED
    BY <2>1 DEF OwnerInv
<1>4. CASE RejectCode
  <2>1. file.status = "pending"
    BY <1>4 DEF RejectCode, LoopInv
  <2>2. ~Claimed' /\ inbox' = inbox /\ stage' = "gate"
    BY <1>4, <2>1 DEF RejectCode, Claimed, TypeOK, StateFile
  <2>3. QED
    BY <2>2 DEF OwnerInv
<1>5. CASE GateAfterReply \/ EndTurn \/ EndGreeting
  <2>1. /\ file'.status = file.status /\ file'.owner = file.owner
        /\ inbox' = inbox /\ stage' # "verify"
    BY <1>5 DEF GateAfterReply, EndTurn, EndGreeting, TypeOK, StateFile
  <2>2. QED
    BY <2>1 DEF OwnerInv, Claimed
<1>6. CASE Expire
  BY <1>6 DEF Expire, OwnerInv, Claimed
<1>7. CASE \E from \in User, digits \in 0..(MaxCodes + 1) : Send(from, digits)
  <2>1. PICK from \in User, digits \in 0..(MaxCodes + 1) : Send(from, digits)
    BY <1>7
  <2>2. /\ inbox' = Append(inbox, [from |-> from, digits |-> digits])
        /\ inbox \in Seq(Update) /\ from # NoUser
        /\ file' = file /\ stage' = stage /\ update' = update
    BY <2>1, UserAssumption DEF Send, TypeOK
  <2>3. \A i \in DOMAIN inbox' : inbox'[i].from # NoUser
    BY <2>2 DEF OwnerInv
  <2>4. QED
    BY <2>2, <2>3 DEF OwnerInv, Claimed
<1>8. CASE \E env \in EnvOwners : Boot(env)
  <2>1. PICK env \in EnvOwners : Boot(env)
    BY <1>8
  <2>2. Claimed' => file'.owner # NoUser
    BY <2>1 DEF Boot, MustSeed, Claimed, OwnerInv, TypeOK, StateFile
  <2>3. inbox' = inbox /\ stage' = stage /\ update' = update
    BY <2>1 DEF Boot
  <2>4. QED
    BY <2>2, <2>3 DEF OwnerInv
<1>9. CASE Install \/ BeginUninstall \/ Drained \/ RemoveEntry \/ BeginShutdown
  BY <1>9 DEF Install, BeginUninstall, Drained, RemoveEntry, BeginShutdown, OwnerInv, Claimed
<1>10. CASE PurgeState
  BY <1>10 DEF PurgeState, Purged, NoFile, OwnerInv, Claimed
<1>11. CASE Exit \/ Crash
  BY <1>11 DEF Exit, Crash, StopProcess, OwnerInv, Claimed
<1>12. QED
  BY <1>1, <1>2, <1>3, <1>4, <1>5, <1>6, <1>7, <1>8, <1>9, <1>10, <1>11
     DEF Next, Handler, Lifecycle

\* The inductive invariant: it holds at the start and every step keeps it.
THEOREM Inductive == Spec => []IInv
<1>1. IInv /\ UNCHANGED vars => IInv'
  BY DEF vars, process, clock, history, IInv, ClaimInv, TypeOK, LoopInv, CodeInv, AttemptInv,
         UninstalledOwnerless, OwnerInv, Claimed
<1>2. IInv /\ [Next]_vars => IInv'
  BY <1>1, OperatorInv, HandlerInv, TelegramInv, LifecycleInv, OwnerStep DEF Next, IInv
<1>3. Init => IInv
  <2>1. Init => OwnerInv
    BY DEF Init, OwnerInv, Claimed, NoFile
  <2>2. QED
    BY <2>1, InitInv DEF IInv
<1>4. QED
  BY <1>2, <1>3, PTL DEF Spec

\* Every variable keeps its type.
THEOREM TypeCorrect == Spec => []TypeOK
<1>1. IInv => TypeOK
  BY DEF IInv, ClaimInv
<1>2. QED
  BY <1>1, Inductive, PTL

\* A code is compared with fewer than AttemptCap wrong candidates, however
\* often the process crashes between the write of the attempt and its check.
THEOREM GuessesAreBounded == Spec => []GuessesBounded
<1>1. IInv => GuessesBounded
  BY DEF IInv, ClaimInv, AttemptInv, GuessesBounded
<1>2. QED
  BY <1>1, Inductive, PTL

\* An uninstall revokes the owner and the open code, and no request, handler or
\* boot brings them back.
THEOREM UninstallRevokes == Spec => []UninstalledOwnerless
<1>1. IInv => UninstalledOwnerless
  BY DEF IInv, ClaimInv
<1>2. QED
  BY <1>1, Inductive, PTL

\* Ownership comes from the environment at boot or from the last code alone.
THEOREM OwnershipIsProven == Spec => OwnerProven
<1> DEFINE Step == file'.status = "claimed"
                     /\ <<file'.status, file'.owner>> # <<file.status, file.owner>> =>
                         \/ phase = "down" /\ file'.owner \in EnvOwners
                         \/ /\ stage = "verify" /\ update.from = file'.owner
                            /\ update.digits = issued /\ ~lapsed
<1>1. IInv /\ [Next]_vars => [Step]_vars
  <2> SUFFICES ASSUME IInv, Next, file'.status = "claimed",
                      <<file'.status, file'.owner>> # <<file.status, file.owner>>
               PROVE  \/ phase = "down" /\ file'.owner \in EnvOwners
                      \/ /\ stage = "verify" /\ update.from = file'.owner
                         /\ update.digits = issued /\ ~lapsed
    OBVIOUS
  <2> USE DEF IInv, ClaimInv, TypeOK, StateFile, process, clock, history
  <2>1. CASE Operator
    BY <2>1 DEF Operator, GenerateCode, Pending, NoFile, RevokeCode, ToggleRequest, ToggleWrite
  <2>2. CASE AcceptCode
    BY <2>2 DEF AcceptCode, Comparable, CodeInv, Chat
  <2>3. CASE TakeUpdate \/ RejectCode \/ GateAfterReply \/ EndTurn \/ EndGreeting
    BY <2>3 DEF TakeUpdate, CountAttempt, RejectCode, GateAfterReply, EndTurn, EndGreeting
  <2>4. CASE Expire \/ \E from \in User, digits \in 0..(MaxCodes + 1) : Send(from, digits)
    BY <2>4 DEF Expire, Send
  <2>5. CASE \E env \in EnvOwners : Boot(env)
    BY <2>5 DEF Boot
  <2>6. CASE Install \/ BeginUninstall \/ Drained \/ RemoveEntry \/ PurgeState
                \/ BeginShutdown \/ Exit \/ Crash
    BY <2>6 DEF Install, BeginUninstall, Drained, RemoveEntry, PurgeState, Purged, NoFile,
                BeginShutdown, Exit, Crash, StopProcess
  <2>7. QED
    BY <2>1, <2>2, <2>3, <2>4, <2>5, <2>6 DEF Next, Handler, Lifecycle
<1>2. QED
  BY <1>1, Inductive, PTL DEF Spec, OwnerProven

\* Only the owner's messages start a turn: _owner_gate would let everybody pass
\* if no owner were on record, and the invariant shows that there is one.
THEOREM OnlyOwnerIsAnswered == Spec => TurnsForOwner
<1>1. IInv /\ [Next]_vars =>
         [stage # "turn" /\ stage' = "turn" => Claimed /\ update'.from = file.owner]_vars
  <2> SUFFICES ASSUME IInv, Next, stage # "turn", stage' = "turn"
               PROVE  Claimed /\ update'.from = file.owner
    OBVIOUS
  <2> USE DEF IInv, OwnerInv, process, clock, history
  <2>1. TakeUpdate \/ GateAfterReply
    BY DEF Next, Operator, Handler, Lifecycle, GenerateCode, RevokeCode, ToggleRequest, ToggleWrite,
           AcceptCode, RejectCode, EndTurn, EndGreeting, Expire, Send, Boot, Install,
           BeginUninstall, Drained, RemoveEntry, PurgeState, BeginShutdown, Exit, Crash, StopProcess
  <2>2. CASE TakeUpdate
    BY <2>2 DEF TakeUpdate, Admitted
  <2>3. CASE GateAfterReply
    BY <2>3 DEF GateAfterReply, Admitted
  <2>4. QED
    BY <2>1, <2>2, <2>3
<1>2. QED
  BY <1>1, Inductive, PTL DEF Spec, TurnsForOwner
=============================================================================
