------------------------------ MODULE MCWifiScan ------------------------------
(* Small instances of the WiFi scan driver. *)
EXTENDS WifiScan
=============================================================================
