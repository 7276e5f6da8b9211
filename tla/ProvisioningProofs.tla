------------------------- MODULE ProvisioningProofs -------------------------
(***************************************************************************)
(* Proofs about Provisioning, for every set of keys in every order, every  *)
(* set of values and requests, and every combination of faults.            *)
(***************************************************************************)
EXTENDS Provisioning, TLAPS

(* The defaults are a configuration, and so is what is loaded or merged.    *)
LEMMA LoadIsConfig ==
  ASSUME TypeOK
  PROVE  Load \in Config
<1>1. Defaults \in Config
  BY ProvisioningAssumption DEF Defaults, Config
<1>2. ASSUME Complete PROVE stored \in Config
  BY <1>2 DEF Complete, TypeOK, Config
<1> QED BY <1>1, <1>2 DEF Load

LEMMA MergeIsConfig ==
  ASSUME NEW c \in Config, NEW r \in Requests
  PROVE  Merge(c, r) \in Config
<1>1. \A f \in DOMAIN r : r[f] \in Val
  BY ProvisioningAssumption
<1> QED BY <1>1 DEF Merge, Config

(* Every key is written at some index of the save order.                    *)
LEMMA FieldHasIndex ==
  ASSUME NEW f \in Field
  PROVE  \E i \in 1 .. Len(SaveOrder) : SaveOrder[i] = f
  BY DEF Field

LEMMA LenIsNat == Len(SaveOrder) \in Nat \ {0} /\ 1 \in 1 .. Len(SaveOrder)
  BY ProvisioningAssumption

LEMMA InitSaveInv == Init => SaveInv
<1> SUFFICES ASSUME Init PROVE SaveInv
  OBVIOUS
<1>1. 0 \in 0 .. MaxTimers
  BY ProvisioningAssumption
<1>2. TypeOK
  BY <1>1, LenIsNat DEF Init, TypeOK
<1> QED
  BY <1>2 DEF Init, SaveInv, SavedIsStored, Posting

(* A restart, however it comes about, forgets the request that was being    *)
(* served; with the flash untouched what was saved still is.                *)
LEMMA StopKeeps ==
  ASSUME SaveInv, NEW how \in {"off", "asleep"}, Stop(how),
         stored' \in [Field -> Val \union {Absent}], flag' \in {Unset, 1},
         acked' \in Config \union {None}, ignored' \subseteq {"flag", "timer"},
         resetBy' \in {"nobody", "web", "button"},
         acked' # None => stored' = acked'
  PROVE  SaveInv'
<1>1. 0 \in 0 .. MaxTimers
  BY ProvisioningAssumption
<1>2. TypeOK'
  BY <1>1, LenIsNat DEF TypeOK, Stop
<1> QED
  BY <1>2 DEF SaveInv, SavedIsStored, Posting, Stop

LEMMA RestartKeeps == SaveInv /\ Restart => SaveInv'
<1> SUFFICES ASSUME SaveInv, Restart PROVE SaveInv'
  OBVIOUS
<1>1. /\ stored' = stored /\ flag' = flag /\ acked' = acked
      /\ ignored' = ignored /\ resetBy' = resetBy /\ Stop("off")
  BY DEF Restart, flashVars
<1> QED BY <1>1, StopKeeps DEF SaveInv, TypeOK, SavedIsStored

(* What a partial erase leaves is well typed, and nothing counts as saved.  *)
LEMMA PartialEraseType ==
  ASSUME TypeOK, PartialErase
  PROVE  /\ stored' \in [Field -> Val \union {Absent}]
         /\ flag' \in {Unset, 1}
         /\ acked' = None
         /\ ignored' = ignored /\ resetBy' = resetBy
  BY DEF TypeOK, PartialErase

(* A restart is scheduled, or the failure is noted.                         *)
LEMMA ScheduleType ==
  ASSUME TypeOK, ScheduleRestart
  PROVE  timers' \in 0 .. MaxTimers /\ ignored' \subseteq {"flag", "timer"}
<1>1. CASE timers < MaxTimers /\ timers' = timers + 1 /\ UNCHANGED ignored
  BY <1>1, ProvisioningAssumption DEF TypeOK
<1>2. CASE ignored' = ignored \union {"timer"} /\ UNCHANGED timers
  BY <1>2 DEF TypeOK
<1> QED BY <1>1, <1>2 DEF ScheduleRestart

(* A complete erase leaves nothing.                                         *)
LEMMA EraseType ==
  ASSUME TypeOK, NEW who \in {"web", "button"}, Erase(who)
  PROVE  /\ stored' \in [Field -> Val \union {Absent}]
         /\ flag' \in {Unset, 1}
         /\ acked' = None
         /\ spoiled' = TRUE /\ ignored' = ignored
         /\ resetBy' \in {"nobody", "web", "button"}
  BY DEF TypeOK, Erase

(* The keys written before the current one keep what they hold, because the *)
(* keys of the save order are distinct; after the last one all of them hold *)
(* what the request asked for.                                              *)
LEMMA SaveKeyKeeps == SaveInv /\ SaveKey => SaveInv'
<1> SUFFICES ASSUME SaveInv, SaveKey PROVE SaveInv'
  OBVIOUS
<1> DEFINE key == SaveOrder[next]
<1>1. /\ webPc = "save"
      /\ stored' = [stored EXCEPT ![key] = cfg[key]]
      /\ UNCHANGED <<mode, inUse, buttonPc, flag, cfg, timers, acked, spoiled, ignored, resetBy>>
  BY DEF SaveKey, WebAt, WebGoto, ghostVars
<1>2. \/ next < Len(SaveOrder) /\ webPc' = "save" /\ next' = next + 1
      \/ ~(next < Len(SaveOrder)) /\ webPc' = "commit" /\ next' = next
  BY DEF SaveKey, WebGoto
<1>3. acked = None /\ cfg \in Config
  BY <1>1 DEF SaveInv, Posting
<1>4. next \in 1 .. Len(SaveOrder) /\ key \in Field
  BY DEF SaveInv, TypeOK, Field
<1>5. stored' \in [Field -> Val \union {Absent}]
  BY <1>1, <1>3, <1>4 DEF SaveInv, TypeOK, Config
<1>6. ASSUME ~spoiled, NEW i \in 1 .. next
      PROVE  stored'[SaveOrder[i]] = cfg[SaveOrder[i]]
  <2>1. i \in 1 .. Len(SaveOrder) /\ SaveOrder[i] \in Field
    BY <1>4, LenIsNat DEF Field
  <2>2. CASE i = next
    BY <1>1, <1>4, <2>1, <2>2 DEF SaveInv, TypeOK
  <2>3. CASE i # next
    <3>1. i \in 1 .. next - 1
      BY <1>4, <2>3, LenIsNat
    <3>2. stored[SaveOrder[i]] = cfg[SaveOrder[i]]
      BY <1>1, <1>6, <3>1 DEF SaveInv
    <3>3. SaveOrder[i] # key
      BY <1>4, <2>1, <2>3, ProvisioningAssumption
    <3> QED BY <1>1, <2>1, <3>2, <3>3 DEF SaveInv, TypeOK
  <2> QED BY <2>2, <2>3
<1>7. CASE next < Len(SaveOrder) /\ webPc' = "save" /\ next' = next + 1
  <2>1. TypeOK'
    BY <1>1, <1>4, <1>5, <1>7, LenIsNat DEF SaveInv, TypeOK
  <2>2. next' - 1 = next
    BY <1>4, <1>7, LenIsNat
  <2> QED
    BY <1>1, <1>3, <1>6, <1>7, <2>1, <2>2 DEF SaveInv, SavedIsStored, Posting
<1>8. CASE ~(next < Len(SaveOrder)) /\ webPc' = "commit" /\ next' = next
  <2>1. TypeOK'
    BY <1>1, <1>5, <1>8 DEF SaveInv, TypeOK
  <2>2. next = Len(SaveOrder)
    BY <1>4, <1>8, LenIsNat
  <2>3. ASSUME ~spoiled PROVE stored' = cfg
    <3>1. \A f \in Field : stored'[f] = cfg[f]
      BY <1>6, <2>2, <2>3, FieldHasIndex
    <3> QED BY <1>3, <1>5, <3>1 DEF Config
  <2> QED
    BY <1>1, <1>3, <1>8, <2>1, <2>3 DEF SaveInv, SavedIsStored, Posting
<1> QED BY <1>2, <1>7, <1>8

(* The other steps of the web server task.                                  *)
LEMMA WebKeeps == SaveInv /\ Web => SaveInv'
<1> SUFFICES ASSUME SaveInv, Web PROVE SaveInv'
  OBVIOUS
<1> USE ProvisioningAssumption, LenIsNat DEF WebAt, WebGoto, flashVars, ghostVars
<1>1. ASSUME NEW r \in Requests, PostBegin(r) PROVE SaveInv'
  <2>1. cfg' = Merge(Load, r) /\ Merge(Load, r) \in Config
    BY <1>1, LoadIsConfig, MergeIsConfig DEF PostBegin, SaveInv
  <2>2. /\ next' = 1 /\ webPc' = "save" /\ acked' = None
        /\ spoiled' = FALSE /\ ignored' = {} /\ resetBy' = "nobody"
        /\ UNCHANGED <<stored, flag, timers, mode, inUse, buttonPc>>
    BY <1>1 DEF PostBegin
  <2>3. TypeOK'
    BY <2>1, <2>2 DEF SaveInv, TypeOK
  <2>4. 1 .. next' - 1 = {}
    BY <2>2
  <2> QED
    BY <2>1, <2>2, <2>3, <2>4 DEF SaveInv, SavedIsStored, Posting
<1>2. ASSUME NEW r \in Requests, PostInvalid(r) PROVE SaveInv'
  BY <1>2 DEF PostInvalid, vars, SaveInv, TypeOK, SavedIsStored, Posting
<1>3. CASE SaveFails
  BY <1>3 DEF SaveFails, SaveInv, TypeOK, SavedIsStored, Posting
<1>4. CASE SaveCommit
  BY <1>4 DEF SaveCommit, SaveInv, TypeOK, SavedIsStored, Posting
<1>5. CASE AddHistory
  BY <1>5 DEF AddHistory, SaveInv, TypeOK, SavedIsStored, Posting
<1>6. CASE SetProvisioned
  <2>1. flag' \in {Unset, 1} /\ ignored' \subseteq {"flag", "timer"}
    BY <1>6 DEF SetProvisioned, SaveInv, TypeOK
  <2>2. /\ webPc = "flag" /\ webPc' = "reply"
        /\ UNCHANGED <<stored, cfg, next, timers, acked, spoiled, resetBy, mode, inUse, buttonPc>>
    BY <1>6 DEF SetProvisioned
  <2>3. TypeOK'
    BY <2>1, <2>2 DEF SaveInv, TypeOK
  <2> QED
    BY <2>2, <2>3 DEF SaveInv, SavedIsStored, Posting
<1>7. CASE PostReply
  <2>1. /\ webPc = "reply" /\ webPc' = "idle"
        /\ acked' = IF spoiled THEN None ELSE cfg
        /\ UNCHANGED <<stored, flag, cfg, next, spoiled, resetBy, mode, inUse, buttonPc>>
    BY <1>7 DEF PostReply
  <2>2. timers' \in 0 .. MaxTimers /\ ignored' \subseteq {"flag", "timer"}
    BY <1>7, ScheduleType DEF PostReply, SaveInv
  <2>3. cfg \in Config /\ (~spoiled => stored = cfg)
    BY <2>1 DEF SaveInv, Posting
  <2>4. TypeOK'
    BY <2>1, <2>2, <2>3 DEF SaveInv, TypeOK
  <2> QED
    BY <2>1, <2>3, <2>4 DEF SaveInv, SavedIsStored, Posting
<1>8. CASE ResetErase
  <2>1. TypeOK /\ Erase("web")
    BY <1>8 DEF ResetErase, SaveInv
  <2> QED
    BY <1>8, <2>1, EraseType DEF ResetErase, SaveInv, TypeOK, SavedIsStored, Posting
<1>9. CASE ResetReply
  <2>1. timers' \in 0 .. MaxTimers /\ ignored' \subseteq {"flag", "timer"}
    BY <1>9, ScheduleType DEF ResetReply, SaveInv
  <2> QED
    <3>1. /\ webPc = "resetReply" /\ webPc' = "idle"
          /\ UNCHANGED <<stored, flag, cfg, next, acked, spoiled, resetBy, mode, inUse, buttonPc>>
      BY <1>9 DEF ResetReply
    <3>2. TypeOK'
      BY <2>1, <3>1 DEF SaveInv, TypeOK
    <3> QED
      BY <3>1, <3>2 DEF SaveInv, SavedIsStored, Posting
<1>10. CASE ResetFails
  <2>1. TypeOK
    BY DEF SaveInv
  <2> QED
    BY <1>10, <2>1, PartialEraseType
    DEF ResetFails, SaveInv, TypeOK, SavedIsStored, Posting
<1>11. CASE RestartRequest
  BY <1>11 DEF RestartRequest, SaveInv, TypeOK, SavedIsStored, Posting
<1>12. CASE WebRestart
  BY <1>12, RestartKeeps DEF WebRestart
<1>13. CASE ShutdownRequest
  BY <1>13 DEF ShutdownRequest, SaveInv, TypeOK, SavedIsStored, Posting
<1>14. CASE DeepSleep
  BY <1>14, StopKeeps DEF DeepSleep, SaveInv, TypeOK, SavedIsStored
<1> QED
  BY <1>1, <1>2, <1>3, <1>4, <1>5, <1>6, <1>7, <1>8, <1>9, <1>10, <1>11, <1>12,
     <1>13, <1>14, SaveKeyKeeps DEF Web

LEMMA StepSaveInv == SaveInv /\ [Next]_vars => SaveInv'
<1> SUFFICES ASSUME SaveInv, [Next]_vars PROVE SaveInv'
  OBVIOUS
<1>1. CASE Boot
  <2>1. TypeOK
    BY DEF SaveInv
  <2>2. inUse' \in Config /\ mode' \in {"provisioning", "repeater"}
    BY <1>1, <2>1, LoadIsConfig DEF Boot
  <2>3. UNCHANGED <<stored, flag, webPc, cfg, next, buttonPc, timers,
                    acked, spoiled, ignored, resetBy>>
    BY <1>1 DEF Boot, flashVars, taskVars, ghostVars
  <2> QED
    BY <2>2, <2>3 DEF SaveInv, TypeOK, SavedIsStored, Posting
<1>2. CASE Web
  BY <1>2, WebKeeps
<1>3. CASE TimerFires
  BY <1>3, RestartKeeps DEF TimerFires
<1>4. CASE ButtonErase
  <2>1. /\ buttonPc' = "restart"
        /\ UNCHANGED <<mode, inUse, webPc, cfg, next, timers>>
        /\ Erase("button") /\ TypeOK
    BY <1>4 DEF ButtonErase, SaveInv
  <2> QED
    BY <2>1, EraseType DEF SaveInv, TypeOK, SavedIsStored, Posting
<1>5. CASE ButtonEraseFails
  <2>1. /\ spoiled' = TRUE
        /\ UNCHANGED <<mode, inUse, webPc, cfg, next, buttonPc, timers>>
        /\ PartialErase
    BY <1>5 DEF ButtonEraseFails, taskVars
  <2>2. TypeOK
    BY DEF SaveInv
  <2> QED
    BY <2>1, <2>2, PartialEraseType DEF SaveInv, TypeOK, SavedIsStored, Posting
<1>6. CASE ButtonRestart
  BY <1>6, RestartKeeps DEF ButtonRestart
<1>7. CASE PowerFails
  BY <1>7, RestartKeeps DEF PowerFails
<1>8. CASE EraseCutOff
  <2>1. TypeOK /\ PartialErase /\ Stop("off")
    BY <1>8 DEF EraseCutOff, SaveInv
  <2> QED
    BY <2>1, PartialEraseType, StopKeeps DEF TypeOK
<1>9. CASE UNCHANGED vars
  BY <1>9 DEF vars, SaveInv, TypeOK, SavedIsStored, Posting
<1> QED
  BY <1>1, <1>2, <1>3, <1>4, <1>5, <1>6, <1>7, <1>8, <1>9 DEF Next, Button

(* The configuration in flash agrees, key by key, with the request being    *)
(* served, unless an erase came between.                                    *)
THEOREM SaveInvariant == Spec => []SaveInv
  BY InitSaveInv, StepSaveInv, PTL DEF Spec

(* What the web server reported as saved is what flash holds until the next *)
(* change is begun, whatever fails, restarts or is pressed meanwhile.       *)
THEOREM SavedStaysStored == Spec => []SavedIsStored
  BY SaveInvariant, PTL DEF SaveInv

-----------------------------------------------------------------------------

(* A factory reset by the web server is final, whatever fails or is pressed *)
(* afterwards: the task that erases cannot be in the middle of a POST.      *)
(* (One by the button is not; TLC finds the interleaving.)                  *)
THEOREM WebResetStaysFinal == Spec => []WebResetIsFinal
<1>1. Init => ResetInv
  BY DEF Init, ResetInv, WebResetIsFinal, Posting
<1>2. ResetInv /\ [Next]_vars => ResetInv'
  <2> SUFFICES ASSUME ResetInv, [Next]_vars PROVE ResetInv'
    OBVIOUS
  <2> USE DEF ResetInv, WebResetIsFinal, Posting, WebAt, WebGoto, flashVars, ghostVars
  <2>1. ASSUME Restart \/ (Stop("asleep") /\ UNCHANGED <<flashVars, acked, ignored, resetBy>>)
        PROVE  ResetInv'
    BY <2>1 DEF Restart, Stop
  <2>2. ASSUME PartialErase PROVE (flag' = flag \/ flag' # 1) /\ resetBy' = resetBy
    BY <2>2 DEF PartialErase, Unset
  <2>3. CASE Boot
    BY <2>3 DEF Boot, taskVars
  <2>4. ASSUME NEW r \in Requests, PostBegin(r) \/ PostInvalid(r) PROVE ResetInv'
    BY <2>4 DEF PostBegin, PostInvalid, vars
  <2>5. CASE SaveKey
    BY <2>5 DEF SaveKey
  <2>6. CASE SaveFails \/ SaveCommit \/ AddHistory
    BY <2>6 DEF SaveFails, SaveCommit, AddHistory
  <2>7. CASE SetProvisioned
    BY <2>7 DEF SetProvisioned
  <2>8. CASE PostReply \/ ResetReply
    BY <2>8 DEF PostReply, ResetReply
  <2>9. CASE ResetErase
    BY <2>9 DEF ResetErase, Erase, Unset
  <2>10. CASE ResetFails
    BY <2>10, <2>2 DEF ResetFails
  <2>11. CASE RestartRequest \/ ShutdownRequest
    BY <2>11 DEF RestartRequest, ShutdownRequest
  <2>12. CASE WebRestart \/ DeepSleep \/ TimerFires \/ PowerFails
    BY <2>1, <2>12 DEF WebRestart, DeepSleep, TimerFires, PowerFails
  <2>13. CASE Button
    <3>1. CASE ButtonErase
      BY <3>1 DEF ButtonErase, Erase, Unset
    <3>2. CASE ButtonEraseFails
      BY <2>2, <3>2 DEF ButtonEraseFails, taskVars
    <3>3. CASE ButtonRestart
      BY <2>1, <3>3 DEF ButtonRestart
    <3> QED BY <2>13, <3>1, <3>2, <3>3 DEF Button
  <2>14. CASE EraseCutOff
    BY <2>2, <2>14 DEF EraseCutOff, Stop
  <2>15. CASE UNCHANGED vars
    BY <2>15 DEF vars
  <2> QED
    BY <2>3, <2>4, <2>5, <2>6, <2>7, <2>8, <2>9, <2>10, <2>11, <2>12, <2>13,
       <2>14, <2>15 DEF Next, Web
<1> QED
  BY <1>1, <1>2, PTL DEF Spec, ResetInv

-----------------------------------------------------------------------------

\* What is being saved has been validated, and so has what was saved; once
\* the flag's turn has come it is set, or the failure is on record.  (While a
\* POST is served nothing counts as saved, so no later step can find the flag
\* of a saved configuration unset; that part is SaveInv's.)
AppliedInv ==
    /\ Posting => Validate(cfg)
    /\ acked # None => Validate(acked)
    /\ acked # None \/ (webPc = "reply" /\ ~spoiled) => flag = 1 \/ "flag" \in ignored

(* Erasing, in full or in part, leaves nothing that counts as saved.        *)
LEMMA EraseForgets ==
  ASSUME AppliedInv, acked' = None, UNCHANGED <<webPc, cfg>>, spoiled' \/ webPc # "reply"
  PROVE  AppliedInv'
  BY DEF AppliedInv, Posting, Validate

(* A restart, however it comes about, leaves no request being served.       *)
LEMMA StopForgets ==
  ASSUME AppliedInv, NEW how, Stop(how),
         acked' = None \/ UNCHANGED <<acked, flag, ignored>>
  PROVE  AppliedInv'
<1>1. webPc' = "idle"
  BY DEF Stop
<1> QED BY <1>1 DEF AppliedInv, Posting, Validate

LEMMA StepAppliedInv == SaveInv /\ AppliedInv /\ [Next]_vars => AppliedInv'
<1> SUFFICES ASSUME SaveInv, AppliedInv, [Next]_vars PROVE AppliedInv'
  OBVIOUS
<1> USE DEF WebAt, WebGoto, flashVars, ghostVars
<1>1. ASSUME UNCHANGED <<acked, cfg, flag, ignored, spoiled>>, Posting' => Posting, webPc' # "reply"
      PROVE  AppliedInv'
  BY <1>1 DEF AppliedInv, Validate
<1>2. CASE Boot \/ UNCHANGED vars
  BY <1>2 DEF Boot, taskVars, vars, AppliedInv, Posting, Validate
<1>3. ASSUME NEW r \in Requests, PostBegin(r) PROVE AppliedInv'
  <2>1. webPc' = "save" /\ acked' = None /\ cfg' = Merge(Load, r) /\ Validate(Merge(Load, r))
    BY <1>3 DEF PostBegin
  <2> QED BY <2>1 DEF AppliedInv, Validate
<1>4. ASSUME NEW r \in Requests, PostInvalid(r) PROVE AppliedInv'
  BY <1>4 DEF PostInvalid, vars, AppliedInv, Posting, Validate
<1>5. CASE SaveKey \/ SaveFails \/ SaveCommit \/ AddHistory \/ RestartRequest \/ ShutdownRequest
  BY <1>1, <1>5
     DEF SaveKey, SaveFails, SaveCommit, AddHistory, RestartRequest, ShutdownRequest, Posting
<1>6. CASE SetProvisioned
  <2>1. Posting /\ acked = None /\ webPc' = "reply" /\ UNCHANGED <<cfg, acked>>
        /\ (flag' = 1 \/ "flag" \in ignored')
    BY <1>6 DEF SetProvisioned, SaveInv, Posting
  <2> QED BY <2>1 DEF AppliedInv, Validate
<1>7. CASE PostReply
  <2>1. /\ webPc = "reply" /\ webPc' = "idle" /\ UNCHANGED flag
        /\ acked' = IF spoiled THEN None ELSE cfg
        /\ ignored \subseteq ignored'
    BY <1>7 DEF PostReply, ScheduleRestart
  <2> QED BY <2>1 DEF AppliedInv, Posting, Validate
<1>8. CASE ResetReply
  <2>1. webPc' = "idle" /\ UNCHANGED <<flag, cfg, acked>> /\ ignored \subseteq ignored'
    BY <1>8 DEF ResetReply, ScheduleRestart
  <2> QED BY <2>1 DEF AppliedInv, Posting, Validate
<1>9. CASE ResetErase
  BY <1>9 DEF ResetErase, Erase, AppliedInv, Posting
<1>10. CASE ResetFails
  BY <1>10 DEF ResetFails, PartialErase, AppliedInv, Posting
<1>11. CASE ButtonErase \/ ButtonEraseFails
  BY <1>11, EraseForgets DEF ButtonErase, ButtonEraseFails, Erase, PartialErase, taskVars
<1>12. CASE WebRestart \/ TimerFires \/ ButtonRestart \/ PowerFails
  BY <1>12, StopForgets DEF WebRestart, TimerFires, ButtonRestart, PowerFails, Restart
<1>13. CASE DeepSleep \/ EraseCutOff
  BY <1>13, StopForgets DEF DeepSleep, EraseCutOff, PartialErase
<1> QED
  BY <1>2, <1>3, <1>4, <1>5, <1>6, <1>7, <1>8, <1>9, <1>10, <1>11, <1>12, <1>13
     DEF Next, Web, Button

(* What was reported as saved, and not replaced or erased since, is what    *)
(* the device comes up with, as repeater unless setting the flag failed:    *)
(* wifi_config_load finds every key, and none that it refuses.              *)
THEOREM SavedComesUp == Spec => SavedIsApplied
<1>1. Init => AppliedInv
  BY DEF Init, AppliedInv, Posting
<1>2. SaveInv /\ AppliedInv => (Boot /\ acked # None =>
          inUse' = acked /\ (mode' = "repeater" \/ "flag" \in ignored))
  <2> SUFFICES ASSUME SaveInv, AppliedInv, Boot, acked # None
               PROVE  inUse' = acked /\ (mode' = "repeater" \/ "flag" \in ignored)
    OBVIOUS
  <2>1. stored = acked /\ acked \in Config
    BY DEF SaveInv, SavedIsStored, TypeOK
  <2>2. Complete
    BY <2>1, ProvisioningAssumption DEF Complete, Config
  <2>3. Load = acked
    BY <2>1, <2>2 DEF Load, AppliedInv
  <2>4. flag = 1 \/ "flag" \in ignored
    BY DEF AppliedInv
  <2> QED BY <2>3, <2>4 DEF Boot
<1> QED
  BY <1>1, <1>2, StepAppliedInv, SaveInvariant, PTL DEF Spec, SavedIsApplied

=============================================================================
