--------------------------- MODULE MCProvisioning ---------------------------
(* Provisioning with two user-chosen values a and b beside the default d,   *)
(* one invalid value x, and three request bodies: all fields, only the STA  *)
(* credentials, and an invalid one.  Runs with every fault use three of the *)
(* five keys, because each interrupted erase leaves any subset of them.     *)
EXTENDS Provisioning, TLC

AllKeys == <<"sta_ssid", "sta_pass", "ap_ssid", "ap_pass", "ap_max_conn">>
ThreeKeys == <<"sta_ssid", "sta_pass", "ap_ssid">>

MCVal == {"d", "a", "b", "x"}
MCBad == {"x"}
MCRequests == {
    [f \in Field |-> "a"],
    [f \in {"sta_ssid", "sta_pass"} |-> "b"],
    [f \in {"sta_ssid", "sta_pass"} |-> IF f = "sta_pass" THEN "x" ELSE "a"] }

=============================================================================
