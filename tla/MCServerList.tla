---------------------------- MODULE MCServerList -----------------------------
(***************************************************************************)
(* Four servers, two of them in the stored list, and masters, one of which *)
(* names a server twice; two of them fit into the slots.                   *)
(***************************************************************************)
EXTENDS ServerList

MCPackets == {<<"c", "d">>, <<"b", "b">>}
MCStored == <<"a", "b">>
===============================================================================
