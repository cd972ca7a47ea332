------------------------------ MODULE ServerList ------------------------------
(***************************************************************************)
(* The server browser (steam_api/PatchMW2ServerList.cpp): two masters are  *)
(* asked for addresses, the servers that may be on display are asked for   *)
(* their info through a few ping slots, and those that answer are put into *)
(* a display list sorted by ping.                                          *)
(*                                                                         *)
(* Answers are UDP packets: late, lost, in any order.  Whether 500 ms are  *)
(* over is open in each frame.  Source 0 stands for a stored list, the     *)
(* history or the favorites, source 1 for the servers of the masters.      *)
(***************************************************************************)
EXTENDS Integers, Sequences, SequencesExt, FiniteSetsExt

CONSTANTS
  Addresses,
  Filtered,     \* those the filters of the browser keep out
  StoredList,   \* as ServerStorage has it
  Packets,      \* what a master may answer
  Latencies,
  MaxGlobal,    \* MAX_GLOBAL_SERVERS
  MaxStoredServers,    \* MAX_HISTORY_SERVERS or MAX_FAVORITE_SERVERS
  MaxSlots,     \* MAX_PINGREQUESTS
  MaxRefreshes  \* bound on the refreshes

None == ""

\* How long a stored list is, is not looked at when it is loaded: that it fits
\* its array is ServerStorage's to keep (WellKept there)
ASSUME ServerListAssumption ==
  /\ None \notin Addresses /\ Filtered \subseteq Addresses
  /\ StoredList \in Seq(Addresses) /\ Len(StoredList) <= MaxStoredServers /\ MaxStoredServers <= MaxGlobal
  /\ Packets \subseteq Seq(Addresses) /\ Latencies \subseteq Nat \ {0}
  /\ {MaxGlobal, MaxStoredServers, MaxSlots, MaxRefreshes} \subseteq Nat \ {0}

VARIABLES
  servers,           \* of both sources
  waiting,           \* numglobalservers = -1
  overflow,          \* globalServerAddresses
  visible,           \* the flags of the source on display
  cl_pinglist,
  pingUpdateSource, source,  \* the list pings are for; ui_netSource
  displayServers,    \* indexes
  refreshActive,
  masters, asked,    \* answers of masters, and to getinfo, in flight
  refreshes, late, full, repeated, overrun  \* history

lists == <<servers, waiting, overflow, visible>>
net   == <<masters, asked>>
browserVars == <<lists, cl_pinglist, pingUpdateSource, source, displayServers, refreshActive, net,
                 refreshes, late, full, repeated, overrun>>

Slots == 1..MaxSlots
Slot(adr, time, info) == [adr |-> adr, time |-> time, info |-> info]
Server(adr, ping, info) == [adr |-> adr, ping |-> ping, info |-> info]
AllVisible == [i \in 1..MaxGlobal |-> TRUE]

\* Mutant: a server that replaces another keeps its ping.
KeepsPing(adr) == Server(adr, 1, None)

\* (mod, version, hardcore and rgameType stay those of the server that was there
\* before; nothing shows them until this one answers, which sets them)
CL_InitServerInfo(adr) == Server(adr, -1, None)

BrowserInit ==
  /\ servers = [s \in {0, 1} |-> <<>>] /\ waiting = FALSE /\ overflow = <<>>
  /\ visible = AllVisible
  /\ cl_pinglist = [j \in Slots |-> Slot(None, 0, None)]
  /\ pingUpdateSource = 0 /\ source = 1
  /\ displayServers = <<>> /\ refreshActive = FALSE
  /\ masters = 0 /\ asked = {}
  /\ refreshes = 0 /\ late = FALSE /\ full = FALSE /\ repeated = FALSE /\ overrun = FALSE

Has(list, adr) == \E i \in DOMAIN list : list[i].adr = adr

\* CL_SetServerInfoByAddress
Informed(list, adr, info, ping) ==
  [i \in DOMAIN list |-> IF list[i].adr = adr THEN Server(adr, ping, info) ELSE list[i]]

-------------------------------------------------------------------------------
(* The display list.  A state of it is [display, visible, overrun].          *)

\* Mutant: a larger one goes in front.
PositionBefore(list, display, i) ==
  LET Place[n \in 0..Len(display)] ==
        [o \in 0..(Len(display) - n) |->
           IF n = 0 THEN o
           ELSE LET mid   == n \div 2
                    other == list[display[o + mid + 1]].ping
                IN  CASE list[i].ping = other -> o + mid
                      [] list[i].ping > other -> IF mid = 0 THEN o ELSE Place[n - mid][o + mid]
                      [] OTHER                -> IF mid = 0 THEN o ELSE Place[n - mid][o]]
  IN  Place[Len(display)][0]

\* UI_BinaryServerInsertion, by ping: the place among n from the offset o on
Position(list, display, i) ==
  LET Place[n \in 0..Len(display)] ==
        [o \in 0..(Len(display) - n) |->
           IF n = 0 THEN o
           ELSE LET mid   == n \div 2
                    other == list[display[o + mid + 1]].ping
                IN  CASE list[i].ping = other -> o + mid
                      [] list[i].ping > other -> IF mid = 0 THEN o + 1 ELSE Place[n - mid][o + mid]
                      [] OTHER                -> IF mid = 0 THEN o ELSE Place[n - mid][o]]
  IN  Place[Len(display)][0]

View(display, flags, over) == [display |-> display, visible |-> flags, overrun |-> over]

\* UI_InsertServerIntoDisplayList.  The others are moved up from one place past
\* the last, which is past the array when it gets full: numDisplayServers is
\* there, and becomes the index of some server
Inserted(display, position, i) ==
  LET longer == InsertAt(display, position + 1, i)
  IN  IF Len(longer) < MaxGlobal THEN {longer} ELSE {SubSeq(longer, 1, n) : n \in 0..(MaxGlobal - 1)}

Shown(list, st, i) ==
  IF ~st.visible[i] \/ list[i].ping <= 0 THEN {st}
  ELSE LET flags == [st.visible EXCEPT ![i] = FALSE]
       IN  IF list[i].adr \in Filtered THEN {View(st.display, flags, st.overrun)}
           ELSE {View(display, flags, st.overrun \/ Len(st.display) + 1 >= MaxGlobal) :
                   display \in Inserted(st.display, Position(list, st.display, i), i)}

\* UI_BuildServerDisplayList, the results it may have
Built(list, none, st) ==
  LET Until[i \in 0..Len(list)] == IF i = 0 THEN {st} ELSE UNION {Shown(list, upto, i) : upto \in Until[i - 1]}
  IN  IF none THEN {View(<<>>, st.visible, FALSE)} ELSE Until[Len(list)]

Displays(st) == displayServers' = st.display /\ visible' = st.visible /\ overrun' = st.overrun
Cleared == View(<<>>, AllVisible, FALSE)
Rebuilt(list, none) == \E st \in Built(list, none, Cleared) : Displays(st)

\* the masters' servers, whichever are on display
LAN_ResetPings == [servers EXCEPT ![1] = [i \in DOMAIN @ |-> Server(@[i].adr, -1, @[i].info)]]

\* ServerList_LoadStoredList
Loaded == [i \in DOMAIN StoredList |-> CL_InitServerInfo(StoredList[i])]

\* UI_StartServerRefresh(true), for a new source or the same, with
\* CL_GlobalServers_f or ServerList_LoadStoredList
StartServerRefresh(s) ==
  /\ refreshes < MaxRefreshes /\ refreshes' = refreshes + 1
  /\ source' = s /\ refreshActive' = TRUE /\ late' = FALSE
  /\ IF s = 1
     THEN /\ servers' = [servers EXCEPT ![1] = <<>>]
          /\ waiting' = TRUE /\ pingUpdateSource' = 0
          /\ masters' = masters + 2 /\ full' = FALSE /\ repeated' = FALSE
     ELSE /\ servers' = [LAN_ResetPings EXCEPT ![0] = Loaded]
          /\ UNCHANGED <<waiting, pingUpdateSource, masters, full, repeated>>
  /\ Displays(Cleared)
  /\ UNCHANGED <<overflow, cl_pinglist, asked>>

RefreshFilter ==
  /\ refreshes < MaxRefreshes /\ refreshes' = refreshes + 1
  /\ refreshActive' = TRUE /\ late' = FALSE
  /\ servers' = LAN_ResetPings
  /\ Rebuilt(servers'[source], source = 1 /\ waiting)
  /\ UNCHANGED <<waiting, overflow, cl_pinglist, pingUpdateSource, source, net, full, repeated>>

\* asks nobody
UpdateFilter ==
  /\ Rebuilt(servers[source], source = 1 /\ waiting)
  /\ UNCHANGED <<servers, waiting, overflow, cl_pinglist, pingUpdateSource, source, refreshActive, net,
                 refreshes, late, full, repeated>>

-------------------------------------------------------------------------------
(* CL_UpdateVisiblePings_f.                                                  *)

Used(slots) == {j \in Slots : slots[j].adr # None}
Free(slots) == Slots \ Used(slots)

OnList(slots, adr) == \E j \in Slots : slots[j].adr = adr

\* The loop over the servers: a state of it is
At(list, slots, extra, stop) == [list |-> list, slots |-> slots, extra |-> extra, stop |-> stop]

Visit(st, i) ==
  LET server == st.list[i]
      free   == Free(st.slots)
  IN  IF st.stop \/ ~visible[i] THEN st
      ELSE CASE server.ping = -1 /\ free = {} -> At(st.list, st.slots, st.extra, TRUE)
             [] server.ping = -1 /\ free # {} /\ ~OnList(st.slots, server.adr) ->
                  At(st.list, [st.slots EXCEPT ![Min(free)] = Slot(server.adr, 0, @.info)], st.extra, FALSE)
             [] server.ping = 0 /\ source = 1 /\ st.extra # <<>> ->
                  At([st.list EXCEPT ![i] = CL_InitServerInfo(Last(st.extra))], st.slots, Front(st.extra), FALSE)
             [] OTHER -> st

\* the state it ends in, as a set of one
Visited ==
  LET Until[i \in 0..Len(servers[source])] ==
        IF i = 0 THEN {At(servers[source], cl_pinglist, overflow, Free(cl_pinglist) = {})}
        ELSE {Visit(st, i) : st \in Until[i - 1]}
  IN  Until[Len(servers[source])]

\* CL_GetPing of every slot: what it knows goes to the list, also while it waits
Pinged(list, slots) ==
  [i \in DOMAIN list |->
     LET of == {j \in Slots : slots[j].adr = list[i].adr}
     IN  IF of = {} THEN list[i] ELSE Server(list[i].adr, slots[Max(of)].time, slots[Max(of)].info)]

\* Mutant: a slot whose time is over is kept.
AnsweredOnly(slot, over) == slot.time # 0

Done(slot, over) == slot.time # 0 \/ over

\* Mutant: the last servers of a refresh are not got.
BuildsInTime(build, ends) == build

Builds(build, ends) == build \/ ends

\* UI_DoServerRefresh, with the slots whose 500 ms are over, and whether it is
\* time to build the display
Frame(over, build) ==
  /\ refreshActive
  /\ \E st \in Visited : \E list \in {Pinged(st.list, st.slots)} :
       LET none == source = 1 /\ waiting
           more == Used(st.slots) # {}
       IN/\ servers' = [servers EXCEPT ![source] = list]
         /\ overflow' = st.extra
         /\ cl_pinglist' = [j \in Slots |-> IF Done(st.slots[j], j \in over)
                                            THEN Slot(None, 0, st.slots[j].info) ELSE st.slots[j]]
         /\ asked' = asked \cup {st.slots[j].adr : j \in Used(st.slots) \ Used(cl_pinglist)}
         /\ refreshActive' = (more \/ none)
         /\ IF Builds(build, ~refreshActive')
            THEN \E shown \in Built(list, none, View(displayServers, visible, overrun)) : Displays(shown)
            ELSE UNCHANGED <<displayServers, visible, overrun>>
  /\ pingUpdateSource' = source
  /\ UNCHANGED <<waiting, source, masters, refreshes, late, full, repeated>>

-------------------------------------------------------------------------------
(* Packets.                                                                  *)

\* CL_ServerInfoPacket
ServerInfoPacket(adr, time) ==
  /\ adr \in asked
  /\ asked' = asked \ {adr}
  /\ LET of == {j \in Slots : cl_pinglist[j].adr = adr /\ cl_pinglist[j].time = 0}
     IN  IF of = {} THEN UNCHANGED <<cl_pinglist, servers>>
         ELSE /\ cl_pinglist' = [cl_pinglist EXCEPT ![Min(of)] = Slot(adr, time, adr)]
              /\ servers' = [servers EXCEPT ![pingUpdateSource] = Informed(@, adr, adr, time)]
  /\ UNCHANGED <<waiting, overflow, visible, pingUpdateSource, source, displayServers, refreshActive,
                 masters, refreshes, late, full, repeated, overrun>>

\* an address, or a master's answer, that is lost
Lost ==
  /\ \/ \E adr \in asked : asked' = asked \ {adr} /\ UNCHANGED masters
     \/ masters > 0 /\ masters' = masters - 1 /\ UNCHANGED asked
  /\ UNCHANGED <<lists, cl_pinglist, pingUpdateSource, source, displayServers, refreshActive,
                 refreshes, late, full, repeated, overrun>>

\* Mutant: every address is new.
AnyIsNew(adr) == TRUE

\* looked for among those that were there before the packet
IsNew(adr) == ~Has(servers[1], adr)

\* the addresses at some places of a packet, in their order
Those(packet, places) ==
  [k \in 1..Cardinality(places) |->
     packet[CHOOSE i \in places : Cardinality({j \in places : j <= i}) = k]]

\* CL_ServersResponsePacket: what does not fit goes to the overflow, which is
\* looked at once for the packet
ServersResponsePacket(packet) ==
  /\ masters > 0 /\ masters' = masters - 1
  /\ waiting' = FALSE
  /\ LET room  == MaxGlobal - Len(servers[1])
         fresh == {i \in DOMAIN packet : IsNew(packet[i])}
         \* the address with which the list was full: all that follow are left
         taken == {i \in fresh : Cardinality({j \in fresh : j <= i}) <= room}
         rest  == IF Cardinality(fresh) < room THEN {} ELSE {i \in DOMAIN packet : \A j \in taken : j < i}
         extra == IF waiting THEN <<>> ELSE overflow
         added == Those(packet, taken)
     IN  /\ servers' = [servers EXCEPT ![1] = @ \o [k \in DOMAIN added |-> CL_InitServerInfo(added[k])]]
         /\ overflow' = IF Len(extra) < MaxGlobal THEN extra \o Those(packet, rest) ELSE extra
         /\ late' = (late \/ (~refreshActive /\ added # <<>>))
         /\ full' = (full \/ rest # {})
         /\ repeated' = (repeated \/ ~IsInjective(added))
  /\ UNCHANGED <<visible, cl_pinglist, pingUpdateSource, source, displayServers, refreshActive, asked,
                 refreshes, overrun>>

BrowserNext ==
  \/ \E s \in {0, 1} : StartServerRefresh(s)
  \/ RefreshFilter
  \/ UpdateFilter
  \/ \E over \in SUBSET Slots, build \in BOOLEAN : Frame(over, build)
  \/ \E adr \in Addresses, time \in Latencies : ServerInfoPacket(adr, time)
  \/ \E packet \in Packets : ServersResponsePacket(packet)
  \/ Lost

BrowserSpec == BrowserInit /\ [][BrowserNext]_browserVars

\* Frames go on, and so does the time of the slots.
FairBrowserSpec == BrowserSpec /\ WF_browserVars(Frame(Slots, TRUE))

-------------------------------------------------------------------------------
\* No server of the masters is listed twice, although both masters know it and
\* answers of earlier requests come late, nor asked through two slots at once;
\* but one out of the overflow may be on the list already (full), and one that a
\* packet names twice is listed twice (repeated).
NotTwice ==
  /\ full \/ repeated \/ \A i, j \in DOMAIN servers[1] : servers[1][i].adr = servers[1][j].adr => i = j
  /\ \A j, k \in Used(cl_pinglist) : cl_pinglist[j].adr = cl_pinglist[k].adr => j = k

\* What is on display under a server's address came from it, whichever servers
\* its slot was used for before and whichever list was on display when it came.
\* (A server out of the overflow may be one that is on display already.)
InfoIsOwn ==
  full \/ \A k \in DOMAIN displayServers :
            LET server == servers[source][displayServers[k]] IN server.ping > 0 /\ server.info = server.adr

\* The display is sorted, however servers answer in turn.
Sorted ==
  full \/ \A k, l \in DOMAIN displayServers :
            k < l => servers[source][displayServers[k]].ping <= servers[source][displayServers[l]].ping

\* When a refresh is over every server has been asked, and those that answered
\* and pass the filters are on display; but for servers a master sent
\* too late, and for those that come out of the overflow, and unless so many
\* were on display that their number was overwritten (overrun).
AllAsked ==
  refreshes > 0 /\ ~refreshActive /\ ~late /\ ~full =>
    \A i \in DOMAIN servers[source] :
      /\ servers[source][i].ping # -1
      /\ servers[source][i].ping > 0 /\ servers[source][i].adr \notin Filtered =>
           overrun \/ Contains(displayServers, i)

\* A refresh comes to its end, however many servers share the slots, if a master
\* answers.
RefreshEnds == []<>(~refreshActive \/ waiting)
===============================================================================
