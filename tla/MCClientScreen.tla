---------------------------- MODULE MCClientScreen ----------------------------
(***************************************************************************)
(* Small instances of ClientScreen for TLC.  With three versions of one    *)
(* asset, a request that is cut short can leave a version that the last    *)
(* page uses on the list, for the next request to delete.                  *)
(***************************************************************************)
EXTENDS ClientScreen

AllFaults == {"http", "outside", "offline", "daemon", "reboot"}
=============================================================================
