------------------------------ MODULE MCStorage ------------------------------
(* What wifi_config_manager.c keeps in flash: the configuration and the     *)
(* flag (Provisioning, see MCProvisioning), where adding to the history of  *)
(* SSIDs is one step, and the history key by key (SsidHistory), with four   *)
(* SSIDs and three entries: one SSID more than fits, and enough to reorder  *)
(* what does.  A behaviour is one of only one of them.                      *)
EXTENDS MCProvisioning, SsidHistory

VARIABLE lists  \* is this about the history?

mcVars == <<lists, vars, historyVars>>

MCInit == lists \in BOOLEAN /\ Init /\ HistoryInit

Configures(A) == ~lists /\ A /\ UNCHANGED <<lists, historyVars>>
Lists == lists /\ HistoryNext /\ UNCHANGED <<lists, vars>>

\* With the fairness of Provisioning
MCSpec ==
    /\ MCInit /\ [][Configures(Next) \/ Lists]_mcVars
    /\ WF_mcVars(Configures(mode = "off" /\ Boot))
    /\ WF_mcVars(Configures(TaskStep))
    /\ WF_mcVars(Configures(TimerFires))
    /\ WF_mcVars(Configures(ButtonRestart))

=============================================================================
