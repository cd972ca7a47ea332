--------------------------- MODULE MCSteamCallbacks ---------------------------
(***************************************************************************)
(* Two types of results, four results and two callbacks, for TLC.        *)
(***************************************************************************)
EXTENDS SteamCallbacks
===============================================================================
