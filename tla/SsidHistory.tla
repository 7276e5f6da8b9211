---------------------------- MODULE SsidHistory ----------------------------
(***************************************************************************)
(* wifi_config_manager.c, the history of station SSIDs: a counter and one  *)
(* key per entry in flash, rewritten key by key whenever POST /api/config  *)
(* has saved a configuration, and offered by the dashboard.                *)
(*                                                                         *)
(* One task adds, the web server's; the button's task erases the namespace *)
(* at any time; power failures and restarts (of the button, or of a timer  *)
(* armed before) cut an addition or an erase off.  NVS is external, as in  *)
(* Provisioning.                                                           *)
(***************************************************************************)
EXTENDS Integers, Sequences

CONSTANTS
    Ssid,        \* the SSIDs, none of them empty
    MaxHistory,  \* WIFI_CFG_MAX_SSID_HISTORY, not zero
    Empty,       \* the empty string
    NoKey,       \* a key that is not in flash
    NoSsid

ASSUME HistoryAssumption ==
    /\ MaxHistory \in Nat \ {0}
    /\ Empty \notin Ssid /\ NoKey \notin Ssid \union {Empty} /\ NoSsid \notin Ssid

Slot == 0 .. MaxHistory - 1

VARIABLES
    count,    \* the key hist_count, or -1 when there is none
    entry,    \* the keys hist_ssid_0 ...
    pc,       \* "idle", or what wifi_config_add_ssid_to_history writes next
    history,  \* its local list, newest first
    position, \* its loop counter
    added,    \* for the properties: the SSID whose addition was reported last,
              \* until another is begun or the flash is erased
    wiped,    \* likewise: the flash was erased during this addition
    disturbed \* likewise: something cut in on an addition or an erase, and
              \* the flash has not been erased since

listKeys == <<count, entry>>
listTask == <<pc, history, position>>
historyVars == <<count, entry, pc, history, position, added, wiped, disturbed>>

HistoryInit ==
    /\ count = -1 /\ entry = [i \in Slot |-> NoKey]
    /\ pc = "idle" /\ history = <<>> /\ position = 0
    /\ added = NoSsid /\ wiped = FALSE /\ disturbed = FALSE

-----------------------------------------------------------------------------

\* wifi_config_load_ssid_history: an entry whose key is missing is empty.
LoadHistory ==
    LET listed == IF count = -1 THEN 0 ELSE count
    IN  [i \in 1 .. listed |-> IF entry[i - 1] = NoKey THEN Empty ELSE entry[i - 1]]

\* Mutant: an SSID that is known already stays where it is, too.
MergedTwice(old, s) ==
    LET kept == IF Len(old) < MaxHistory THEN Len(old) ELSE MaxHistory - 1
    IN  <<s>> \o SubSeq(old, 1, kept)

\* The list without the new SSID, cut, with the new SSID in front.
Merged(old, s) ==
    LET others[i \in 0 .. Len(old)] ==
            IF i = 0 THEN <<>>
            ELSE IF old[i] = s THEN others[i - 1] ELSE Append(others[i - 1], old[i])
        all == others[Len(old)]
        kept == IF Len(all) < MaxHistory - 1 THEN Len(all) ELSE MaxHistory - 1
    IN  <<s>> \o SubSeq(all, 1, kept)

BeginAdd(s) ==
    /\ pc = "idle" /\ pc' = "count"
    /\ history' = Merged(LoadHistory, s)
    /\ added' = NoSsid /\ wiped' = FALSE
    /\ UNCHANGED <<listKeys, position, disturbed>>

WriteCount ==
    /\ pc = "count" /\ pc' = "entries"
    /\ count' = Len(history)
    /\ position' = 0
    /\ UNCHANGED <<entry, history, added, wiped, disturbed>>

\* Mutant: stops one entry short.
WriteEntryStopsShort ==
    /\ pc = "entries"
    /\ entry' = [entry EXCEPT ![position] = history[position + 1]]
    /\ IF position + 2 < Len(history) THEN position' = position + 1 /\ UNCHANGED pc
       ELSE pc' = "commit" /\ UNCHANGED position
    /\ UNCHANGED <<count, history, added, wiped, disturbed>>

WriteEntry ==
    /\ pc = "entries"
    /\ entry' = [entry EXCEPT ![position] = history[position + 1]]
    /\ IF position + 1 < Len(history) THEN position' = position + 1 /\ UNCHANGED pc
       ELSE pc' = "commit" /\ UNCHANGED position
    /\ UNCHANGED <<count, history, added, wiped, disturbed>>

\* ESP_OK
Commit ==
    /\ pc = "commit" /\ pc' = "idle"
    /\ added' = IF wiped THEN NoSsid ELSE Head(history)
    /\ UNCHANGED <<listKeys, history, position, wiped, disturbed>>

\* An error is returned (and ignored by the caller); what was written stays.
AddFails ==
    /\ pc # "idle" /\ pc' = "idle"
    /\ disturbed' = TRUE
    /\ UNCHANGED <<listKeys, history, position, added, wiped>>

\* wifi_config_erase, complete ...
Erased ==
    /\ count' = -1 /\ entry' = [i \in Slot |-> NoKey]
    /\ added' = NoSsid /\ wiped' = TRUE
    /\ disturbed' = (pc # "idle")

\* ... or with an error, or cut off.
ErasedPartly ==
    /\ count' \in {count, -1}
    /\ \E left \in SUBSET Slot :
          entry' = [i \in Slot |-> IF i \in left THEN entry[i] ELSE NoKey]
    /\ added' = NoSsid /\ wiped' = TRUE /\ disturbed' = TRUE

\* Between two additions by the task that adds, POST /api/config/reset, and at
\* any time by start_button_task.
EraseHistory == Erased /\ UNCHANGED listTask

EraseHistoryFails == ErasedPartly /\ UNCHANGED listTask

\* The local variables are gone.
Reset == pc' = "idle" /\ history' = <<>> /\ position' = 0

EraseHistoryCutOff == ErasedPartly /\ Reset

RestartDevice ==
    /\ Reset
    /\ disturbed' = (disturbed \/ pc # "idle")
    /\ UNCHANGED <<listKeys, added, wiped>>

HistoryNext ==
    \/ \E s \in Ssid : BeginAdd(s)
    \/ WriteCount \/ WriteEntry \/ Commit \/ AddFails
    \/ EraseHistory \/ EraseHistoryFails \/ EraseHistoryCutOff \/ RestartDevice

HistorySpec == HistoryInit /\ [][HistoryNext]_historyVars

-----------------------------------------------------------------------------

(* An addition that was reported as done leaves its SSID first, and once,   *)
(* whatever earlier additions that failed or were cut off have left behind, *)
(* and through every restart.                                               *)
AddedIsFirst ==
    added # NoSsid => /\ count > 0
                      /\ \A i \in 1 .. count : LoadHistory[i] = added <=> i = 1

(* The keys in flash are the list of the SSIDs used last, from the first    *)
(* boot or an erase on until something cuts in on an addition or an erase.  *)
(* An addition takes effect when it begins, for the task that adds is the   *)
(* one that reads.  What happens afterwards AddedIsFirst says.              *)
Recent == INSTANCE RecentSsids WITH
    recent <- IF disturbed THEN <<>> ELSE IF pc = "idle" THEN LoadHistory ELSE history
ImplementsRecent == Recent!Spec

=============================================================================
