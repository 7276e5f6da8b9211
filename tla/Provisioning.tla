---------------------------- MODULE Provisioning ----------------------------
(***************************************************************************)
(* The life of the repeater's configuration: wifi_config_manager.c writes  *)
(* it to flash key by key, app_main reads it at boot and decides between   *)
(* provisioning and repeater mode, and three tasks change it while the     *)
(* firmware runs: the web server (POST /api/config, POST                   *)
(* /api/config/reset, restart, shutdown), the boot-button task, and the    *)
(* timer task, which restarts the device when an armed restart timer       *)
(* fires.  Any of them can be cut off by a restart or by a power failure.  *)
(*                                                                         *)
(* Abstracted: the value of a field is a member of Val (the string and     *)
(* length tests of wifi_config_validate are the split of Val by Bad); the  *)
(* SSID history, which no decision here reads, is one step; the dashboard  *)
(* credentials, which no code path in use writes, are left out.  NVS is    *)
(* external: a set is durable and atomic when it returns, a commit adds    *)
(* nothing, an erase of the namespace removes one key after the other but  *)
(* holds the lock of the library, so no other task sees it half done.      *)
(***************************************************************************)
EXTENDS Integers, Sequences

CONSTANTS
    SaveOrder,  \* the keys of a configuration, as wifi_config_save writes them
    Val,        \* the values of a field, valid and not
    Bad,        \* those that wifi_config_validate refuses
    Default,    \* the compile-time value of a field
    Absent,     \* the key is not in flash
    Requests,   \* bodies of POST /api/config: partial maps from Field to Val
    None,       \* no configuration
    MaxTimers,  \* bound on restart timers armed at once
    Faults      \* which of "power", "nvs", "timer", "button" happen

Field == {SaveOrder[i] : i \in 1 .. Len(SaveOrder)}
Provisioned == "provisioned"
Keys == Field \union {Provisioned}
Config == [Field -> Val]
Unset == 0  \* no value of the flag but 1 means provisioned

ASSUME ProvisioningAssumption ==
    /\ SaveOrder \in Seq(STRING) /\ Len(SaveOrder) > 0
    /\ \A i, j \in 1 .. Len(SaveOrder) : SaveOrder[i] = SaveOrder[j] => i = j
    /\ Provisioned \notin Field
    /\ Bad \subseteq Val
    /\ Default \in Val \ Bad
    /\ Absent \notin Val
    /\ None \notin Config
    /\ \A r \in Requests : DOMAIN r \subseteq Field /\ \A f \in DOMAIN r : r[f] \in Val
    /\ MaxTimers \in Nat \ {0}
    /\ Faults \subseteq {"power", "nvs", "timer", "button"}

VARIABLES
    stored,    \* NVS namespace wifi_cfg: [Field -> Val or Absent]
    flag,      \* its key "provisioned": 1, or Unset
    mode,      \* "off", "asleep", or what g_provisioning_mode says
    inUse,     \* the configuration loaded at boot
    webPc,     \* where the web server task is in its handler
    cfg,       \* the configuration local to api_config_post_handler
    next,      \* index in SaveOrder of the key to save
    buttonPc,  \* start_button_task: "watch", or "restart" after an erase
    timers,    \* armed restart timers
    acked,     \* history: configuration last reported as saved, while no
               \* request since has set out to change it
    spoiled,   \* history: the flash was erased since this POST loaded it
    ignored,   \* history: failures since the last POST began that its answer,
               \* "Saved", said nothing of: "flag" not set, no "timer"
    resetBy    \* history: who erased the flash and reported it done since the
               \* last POST began, the web server if both did

flashVars == <<stored, flag>>
taskVars == <<webPc, cfg, next, buttonPc, timers>>
ghostVars == <<acked, spoiled, ignored, resetBy>>
vars == <<stored, flag, mode, inUse, webPc, cfg, next, buttonPc, timers,
          acked, spoiled, ignored, resetBy>>

TypeOK ==
    /\ stored \in [Field -> Val \union {Absent}]
    /\ flag \in {Unset, 1}
    /\ mode \in {"off", "asleep", "provisioning", "repeater"}
    /\ inUse \in Config \union {None}
    /\ webPc \in {"idle", "save", "commit", "history", "flag", "reply",
                  "resetReply", "restart", "sleep"}
    /\ cfg \in Config \union {None}
    /\ next \in 1 .. Len(SaveOrder)
    /\ buttonPc \in {"watch", "restart"}
    /\ timers \in 0 .. MaxTimers
    /\ acked \in Config \union {None}
    /\ spoiled \in BOOLEAN
    /\ ignored \subseteq {"flag", "timer"}
    /\ resetBy \in {"nobody", "web", "button"}

-----------------------------------------------------------------------------
\* The configuration manager, as functions of what is in flash.

Defaults == [f \in Field |-> Default]

\* wifi_config_validate
Validate(c) == \A f \in Field : c[f] \notin Bad

\* wifi_config_load: one missing key, or one invalid value, and it is the
\* defaults that are loaded.
Complete == \A f \in Field : stored[f] # Absent
Load == IF Complete /\ Validate(stored) THEN stored ELSE Defaults

\* The updates of api_config_post_handler to the loaded configuration.
Merge(c, request) ==
    [f \in Field |-> IF f \in DOMAIN request THEN request[f] ELSE c[f]]

Running == mode \in {"provisioning", "repeater"}

-----------------------------------------------------------------------------
\* An erased device, before its first boot.
Init ==
    /\ stored = [f \in Field |-> Absent]
    /\ flag = Unset
    /\ mode = "off"
    /\ inUse = None
    /\ webPc = "idle" /\ cfg = None /\ next = 1
    /\ buttonPc = "watch"
    /\ timers = 0
    /\ acked = None /\ spoiled = FALSE /\ ignored = {} /\ resetBy = "nobody"

\* The memory of every task is gone, the flash and the history are not.
Stop(how) ==
    /\ mode' = how
    /\ inUse' = None
    /\ webPc' = "idle" /\ cfg' = None /\ next' = 1
    /\ buttonPc' = "watch"
    /\ timers' = 0
    /\ spoiled' = FALSE

Restart == Stop("off") /\ UNCHANGED <<flashVars, acked, ignored, resetBy>>

\* app_main up to the creation of the button task: wifi_init_repeater loads
\* the configuration and reads the flag.
Boot ==
    /\ mode \in {"off", "asleep"}
    /\ inUse' = Load
    /\ mode' = IF flag = 1 THEN "repeater" ELSE "provisioning"
    /\ UNCHANGED <<flashVars, taskVars, ghostVars>>

-----------------------------------------------------------------------------
\* The web server task.  Handlers run one at a time.

WebAt(pc) == Running /\ webPc = pc

WebGoto(pc) == webPc' = pc /\ UNCHANGED <<mode, inUse, buttonPc>>

\* Mutant: the timer is created and never started.
ScheduleNothing == UNCHANGED <<timers, ignored>>

\* schedule_restart_ms; when no timer can be created nothing is scheduled.
ScheduleRestart ==
    \/ timers < MaxTimers /\ timers' = timers + 1 /\ UNCHANGED ignored
    \/ "timer" \in Faults /\ ignored' = ignored \union {"timer"} /\ UNCHANGED timers

\* Mutant: the merged configuration is not validated.
PostBeginUnchecked(request) ==
    /\ WebAt("idle")
    /\ timers < MaxTimers
    /\ WebGoto("save")
    /\ cfg' = Merge(Load, request)
    /\ next' = 1
    /\ acked' = None
    /\ spoiled' = FALSE
    /\ ignored' = {}
    /\ resetBy' = "nobody"
    /\ UNCHANGED <<flashVars, timers>>

\* POST /api/config: load, merge, validate.
PostBegin(request) ==
    LET c == Merge(Load, request) IN
    /\ WebAt("idle")
    /\ timers < MaxTimers
    /\ Validate(c)
    /\ WebGoto("save")
    /\ cfg' = c
    /\ next' = 1
    /\ acked' = None
    /\ spoiled' = FALSE
    /\ ignored' = {}
    /\ resetBy' = "nobody"
    /\ UNCHANGED <<flashVars, timers>>

\* Refused with 400 (or sooner, when the body is too long or no JSON).
PostInvalid(request) ==
    /\ WebAt("idle")
    /\ ~Validate(Merge(Load, request))
    /\ UNCHANGED vars

\* Mutant: the last key is forgotten.
SaveKeySkipsLast ==
    /\ WebAt("save")
    /\ stored' = [stored EXCEPT ![SaveOrder[next]] = cfg[SaveOrder[next]]]
    /\ IF next + 1 < Len(SaveOrder) THEN WebGoto("save") /\ next' = next + 1
       ELSE WebGoto("commit") /\ UNCHANGED next
    /\ UNCHANGED <<flag, cfg, timers, ghostVars>>

\* wifi_config_save, one key.
SaveKey ==
    /\ WebAt("save")
    /\ stored' = [stored EXCEPT ![SaveOrder[next]] = cfg[SaveOrder[next]]]
    /\ IF next < Len(SaveOrder) THEN WebGoto("save") /\ next' = next + 1
       ELSE WebGoto("commit") /\ UNCHANGED next
    /\ UNCHANGED <<flag, cfg, timers, ghostVars>>

\* Mutant: the error is logged and the handler goes on.
SaveFailsUnnoticed ==
    /\ "nvs" \in Faults
    /\ WebAt("save") \/ WebAt("commit")
    /\ WebGoto("history")
    /\ UNCHANGED <<flashVars, cfg, next, timers, ghostVars>>

\* A set or the commit fails: 500, and what was written stays.
SaveFails ==
    /\ "nvs" \in Faults
    /\ WebAt("save") \/ WebAt("commit")
    /\ WebGoto("idle")
    /\ UNCHANGED <<flashVars, cfg, next, timers, ghostVars>>

SaveCommit ==
    /\ WebAt("commit")
    /\ WebGoto("history")
    /\ UNCHANGED <<flashVars, cfg, next, timers, ghostVars>>

\* wifi_config_add_ssid_to_history, whose result nobody looks at.
AddHistory ==
    /\ WebAt("history")
    /\ WebGoto("flag")
    /\ UNCHANGED <<flashVars, cfg, next, timers, ghostVars>>

\* wifi_config_set_provisioned(true), whose result nobody looks at either.
SetProvisioned ==
    /\ WebAt("flag")
    /\ WebGoto("reply")
    /\ \/ flag' = 1 /\ UNCHANGED ignored
       \/ "nvs" \in Faults /\ ignored' = ignored \union {"flag"} /\ UNCHANGED flag
    /\ UNCHANGED <<stored, cfg, next, timers, acked, spoiled, resetBy>>

\* "Saved. Restarting..."
PostReply ==
    /\ WebAt("reply")
    /\ WebGoto("idle")
    /\ ScheduleRestart
    /\ acked' = IF spoiled THEN None ELSE cfg
    /\ UNCHANGED <<flashVars, cfg, next, spoiled, resetBy>>

\* Mutant: only the configuration's keys are erased.
EraseKeepsFlag(who) ==
    /\ stored' = [f \in Field |-> Absent]
    /\ acked' = None
    /\ spoiled' = TRUE
    /\ resetBy' = IF resetBy = "web" THEN "web" ELSE who
    /\ UNCHANGED <<flag, ignored>>

\* wifi_config_erase, when it returns ESP_OK.
Erase(who) ==
    /\ stored' = [f \in Field |-> Absent]
    /\ flag' = Unset
    /\ acked' = None
    /\ spoiled' = TRUE
    /\ resetBy' = IF resetBy = "web" THEN "web" ELSE who
    /\ UNCHANGED ignored

\* When it returns an error, or is cut off, some of the keys are left.
PartialErase ==
    /\ \E left \in SUBSET Keys :
          /\ stored' = [f \in Field |-> IF f \in left THEN stored[f] ELSE Absent]
          /\ flag' = IF Provisioned \in left THEN flag ELSE Unset
    /\ acked' = None
    /\ UNCHANGED <<ignored, resetBy>>

\* POST /api/config/reset
ResetErase ==
    /\ WebAt("idle")
    /\ timers < MaxTimers
    /\ Erase("web")
    /\ WebGoto("resetReply")
    /\ UNCHANGED <<cfg, next, timers>>

ResetReply ==
    /\ WebAt("resetReply")
    /\ WebGoto("idle")
    /\ ScheduleRestart
    /\ UNCHANGED <<flashVars, cfg, next, acked, spoiled, resetBy>>

\* The erase fails: 500.
ResetFails ==
    /\ "nvs" \in Faults
    /\ WebAt("idle")
    /\ PartialErase
    /\ WebGoto("idle")
    /\ UNCHANGED <<cfg, next, timers, spoiled>>

\* POST /api/restart and POST /api/shutdown: both wait, then act.
RestartRequest ==
    /\ WebAt("idle")
    /\ WebGoto("restart")
    /\ UNCHANGED <<flashVars, cfg, next, timers, ghostVars>>

WebRestart == WebAt("restart") /\ Restart

ShutdownRequest ==
    /\ WebAt("idle")
    /\ WebGoto("sleep")
    /\ UNCHANGED <<flashVars, cfg, next, timers, ghostVars>>

DeepSleep ==
    /\ WebAt("sleep")
    /\ Stop("asleep")
    /\ UNCHANGED <<flashVars, acked, ignored, resetBy>>

-----------------------------------------------------------------------------
\* The other tasks, and the world.

\* restart_timer_cb
TimerFires == Running /\ timers > 0 /\ Restart

\* start_button_task sees a press of three seconds.
ButtonErase ==
    /\ "button" \in Faults
    /\ Running /\ buttonPc = "watch"
    /\ Erase("button")
    /\ buttonPc' = "restart"
    /\ UNCHANGED <<mode, inUse, webPc, cfg, next, timers>>

ButtonEraseFails ==
    /\ {"button", "nvs"} \subseteq Faults
    /\ Running /\ buttonPc = "watch"
    /\ PartialErase
    /\ spoiled' = TRUE
    /\ UNCHANGED <<mode, inUse, taskVars>>

ButtonRestart == Running /\ buttonPc = "restart" /\ Restart

PowerFails == "power" \in Faults /\ mode # "off" /\ Restart

\* A restart or a power failure in the middle of an erase.
EraseCutOff ==
    /\ \/ WebAt("idle")
       \/ "button" \in Faults /\ Running /\ buttonPc = "watch"
    /\ timers > 0 \/ "power" \in Faults
    /\ PartialErase
    /\ Stop("off")

-----------------------------------------------------------------------------

Web ==
    \/ \E r \in Requests : PostBegin(r) \/ PostInvalid(r)
    \/ SaveKey \/ SaveFails \/ SaveCommit \/ AddHistory \/ SetProvisioned \/ PostReply
    \/ ResetErase \/ ResetReply \/ ResetFails
    \/ RestartRequest \/ WebRestart \/ ShutdownRequest \/ DeepSleep

Button == ButtonErase \/ ButtonEraseFails \/ ButtonRestart

Next == Boot \/ Web \/ TimerFires \/ Button \/ PowerFails \/ EraseCutOff

Spec == Init /\ [][Next]_vars

\* A task that has begun a request goes on.
TaskStep ==
    SaveKey \/ SaveCommit \/ AddHistory \/ SetProvisioned \/ PostReply
      \/ ResetReply \/ WebRestart \/ DeepSleep

\* A device that is off is switched on or comes back from a restart (nothing
\* wakes it from deep sleep); a task that has begun a request finishes it; an
\* armed timer fires.
FairSpec ==
    /\ Spec
    /\ WF_vars(mode = "off" /\ Boot)
    /\ WF_vars(TaskStep)
    /\ WF_vars(TimerFires)
    /\ WF_vars(ButtonRestart)

-----------------------------------------------------------------------------

(* Once "Saved" is on its way to the browser, and until the next change is  *)
(* begun, all the keys in flash hold what was asked for: across failed     *)
(* writes of earlier requests, restarts, power failures, and a button held  *)
(* while the request was being served.                                      *)
SavedIsStored == acked # None => stored = acked

\* The inductive invariant behind SavedIsStored: while a POST is served
\* nothing counts as saved, and unless the flash was erased meanwhile the
\* keys written so far hold what the request asks for.
Posting == webPc \in {"save", "commit", "history", "flag", "reply"}

SaveInv ==
    /\ TypeOK
    /\ SavedIsStored
    /\ Posting => acked = None /\ cfg \in Config
    /\ webPc = "save" /\ ~spoiled =>
          \A i \in 1 .. next - 1 : stored[SaveOrder[i]] = cfg[SaveOrder[i]]
    /\ Posting /\ webPc # "save" /\ ~spoiled => stored = cfg

(* What was reported as saved is what the device comes up with, and as      *)
(* repeater unless the flag could not be set (which "Saved" hides).         *)
SavedIsApplied ==
    [][(Boot /\ acked # None) =>
           /\ inUse' = acked
           /\ mode' = "repeater" \/ "flag" \in ignored]_vars

(* wifi_config_erase clears the flag: after a factory reset that was        *)
(* reported done the device is not provisioned again by a request that was  *)
(* not made after it (wifi_config_manager.h:184, WIFI_PROVISIONING_PLAN.md).*)
ResetIsFinal == resetBy # "nobody" => flag # 1

(* The reset of the web server is: no button press, power failure, timer or *)
(* failing write brings the flag back, because the one task that could be   *)
(* in the middle of a save is the one that erases.                          *)
WebResetIsFinal == resetBy = "web" => flag # 1

\* The inductive invariant behind it.
ResetInv == WebResetIsFinal /\ (Posting => resetBy # "web")

(* A provisioned device has "real STA credentials"                          *)
(* (wifi_config_manager.h:182): in repeater mode it never runs on the       *)
(* compile-time defaults it falls back to when keys are missing.            *)
RepeaterHasRealCredentials == flag = 1 => Complete

(* A configuration reported as saved is eventually in use, unless it is     *)
(* replaced or erased first, the user puts the device to sleep, or no timer *)
(* could be created for the restart (which "Saved" hides, too).             *)
SavedTakesEffect ==
    acked # None /\ "timer" \notin ignored
        ~> (inUse = acked \/ acked = None \/ mode = "asleep")

=============================================================================
