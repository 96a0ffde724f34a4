---------------------------- MODULE NetManagerMC ----------------------------
(***************************************************************************)
(* The durations of main/net_manager.c scaled down, in their order: a      *)
(* probe is more often than a check, the 4G is called more often than the  *)
(* WiFi without Internet is given up, the longest waits are the restarts.  *)
(***************************************************************************)
EXTENDS NetManager

MCWait ==
    [check |-> 2, probe |-> 1, pause |-> 2, hold |-> 3,
     cell |-> 1, cellMax |-> 2, wifi |-> 2, wifiFast |-> 1, boot |-> 1, window |-> 2,
     back |-> 2, reset |-> 2, silent |-> 1, idle |-> 3, idleMax |-> 6,
     gateway |-> 1, radio |-> 2, radioMax |-> 4, ap |-> 2]
=============================================================================
