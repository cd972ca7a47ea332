------------------------------ MODULE EntityPool ------------------------------
(***************************************************************************)
(* The InfinityScript runtime's picture of the players: the pool of Entity *)
(* objects (Classes/Entity.cs) and a script's list of Players              *)
(* (Classes/BaseScript.cs), as the game's notifications and calls come in  *)
(* between frames and the frame of SHManager works them off.               *)
(*                                                                         *)
(* A disconnect reaches the scripts' lists at once but the pool only with  *)
(* the next frame, a connect reaches both with the next frame.  Objects    *)
(* and players of a slot are numbered in the order they came.              *)
(***************************************************************************)
EXTENDS Integers, Sequences, FiniteSets, SequencesExt

CONSTANTS
  Slots,      \* the entity numbers of clients, below 18
  MaxJoins,   \* bound on the players of one slot
  MaxMade,    \* bound on the objects of one slot
  MaxLevels   \* bound on the levels played

ASSUME EntityPoolAssumption ==
  IsFiniteSet(Slots) /\ MaxJoins \in Nat /\ MaxMade \in Nat /\ MaxLevels \in Nat

VARIABLES
  present,  \* a player is in the slot
  begun,    \* he has entered the level
  joins,    \* players the slot has had: the present one is the last
  pool,     \* _entities: the object of each slot, 0 for none
  made,     \* objects made for the slot
  parting,  \* objects with a "disconnect" among their pending notifications
  pending,  \* the script's _pendingNotifys
  batch,    \* what is left of its local snapshot `notifys`
  players,  \* the script's Players
  hooks,    \* handlers scripts have put on objects: in which level, for which player
  level,    \* levels begun
  pc,       \* where RunFrame is
  hasty     \* a slot was left and taken between two frames (history)

clients == <<present, begun, joins>>
pooled  == <<pool, made>>
script  == <<pending, batch, players, hooks>>
poolVars == <<clients, pooled, parting, script, level, pc, hasty>>

MessageTypes == {"connecting", "connected"}

PoolInit ==
  /\ present = [s \in Slots |-> FALSE] /\ begun = present /\ joins = [s \in Slots |-> 0]
  /\ pool = [s \in Slots |-> 0] /\ made = [s \in Slots |-> 0]
  /\ parting = {}
  /\ pending = <<>> /\ batch = <<>> /\ players = <<>> /\ hooks = {}
  /\ level = 1 /\ pc = "game" /\ hasty = FALSE

-------------------------------------------------------------------------------
(* public static Entity GetEntity(int entRef)                                *)

Entity(s) == [slot |-> s, nr |-> IF pool[s] # 0 THEN pool[s] ELSE made[s] + 1]

\* Mutant: a new object is not put into the pool.
GetEntityUnpooled(s) ==
  /\ Entity(s).nr <= MaxMade
  /\ made' = [made EXCEPT ![s] = IF pool[s] # 0 THEN @ ELSE @ + 1]
  /\ UNCHANGED pool

GetEntity(s) ==
  /\ Entity(s).nr <= MaxMade
  /\ pool' = [pool EXCEPT ![s] = Entity(s).nr]
  /\ made' = [made EXCEPT ![s] = IF pool[s] # 0 THEN @ ELSE @ + 1]

-------------------------------------------------------------------------------
(* The game, between frames or from inside a handler.                        *)

Notify(type, s, n) == [type |-> type, entity |-> Entity(s), player |-> n]

Coming == pending \o batch
Awaited(type, s) == \E k \in DOMAIN Coming : Coming[k].type = type /\ Coming[k].entity.slot = s

\* level notify("connecting", self)
PlayerConnect(s) ==
  /\ pc = "game"
  /\ ~present[s] /\ joins[s] < MaxJoins
  /\ present' = [present EXCEPT ![s] = TRUE]
  /\ joins' = [joins EXCEPT ![s] = @ + 1]
  /\ GetEntity(s)
  /\ pending' = Append(pending, Notify("connecting", s, joins[s] + 1))
  /\ hasty' = (hasty \/ Entity(s) \in parting)
  /\ UNCHANGED <<begun, parting, batch, players, hooks, level, pc>>

\* level notify("connected", self)
Begin(s) ==
  /\ pc = "game"
  /\ present[s] /\ ~begun[s]
  /\ begun' = [begun EXCEPT ![s] = TRUE]
  /\ GetEntity(s)
  /\ pending' = Append(pending, Notify("connected", s, joins[s]))
  /\ UNCHANGED <<present, joins, parting, batch, players, hooks, level, pc, hasty>>

\* Mutant: the scripts override OnPlayerDisconnect and forget the base.
OnPlayerDisconnectOverridden(s) == UNCHANGED players

\* Players.Remove: the first object that Equals, which compares entity numbers
OnPlayerDisconnect(s) ==
  LET k == SelectInSeq(players, LAMBDA e : e.slot = s)
  IN  players' = IF k = 0 THEN players ELSE RemoveAt(players, k)

\* self notify("disconnect"), and CallType.PlayerDisconnect; a kick from
\* inside a handler too
PlayerDisconnect(s) ==
  /\ present[s]
  /\ present' = [present EXCEPT ![s] = FALSE]
  /\ begun' = [begun EXCEPT ![s] = FALSE]
  /\ GetEntity(s)
  /\ parting' = parting \cup {Entity(s)}
  /\ OnPlayerDisconnect(s)
  /\ hasty' = (hasty \/ \E type \in MessageTypes : Awaited(type, s))
  /\ UNCHANGED <<joins, pending, batch, hooks, level, pc>>

\* chat, client commands, damage, or a script that looks entities up by
\* number, of free slots too
Call(s) ==
  /\ pool[s] = 0
  /\ GetEntity(s)
  /\ UNCHANGED <<clients, parting, script, level, pc, hasty>>

\* InitializeLevel: new scripts, the same entities; all players connect again
InitializeLevel ==
  /\ pc = "game" /\ level < MaxLevels
  /\ level' = level + 1
  /\ begun' = [s \in Slots |-> FALSE]
  /\ \A s \in Slots : present[s] => Entity(s).nr <= MaxMade
  /\ pool' = [s \in Slots |-> IF present[s] THEN Entity(s).nr ELSE pool[s]]
  /\ made' = [s \in Slots |-> IF present[s] /\ pool[s] = 0 THEN made[s] + 1 ELSE made[s]]
  /\ pending' = LET here == SetToSeq({s \in Slots : present[s]})
                IN  [k \in DOMAIN here |-> Notify("connecting", here[k], joins[here[k]])]
  /\ players' = <<>>
  /\ UNCHANGED <<present, joins, parting, batch, hooks, pc, hasty>>

-------------------------------------------------------------------------------
(* public static void RunFrame()                                             *)

\* Mutant: the entity's own disconnect handler is never registered.
RunEntitiesKeeping ==
  /\ pc = "game"
  /\ pc' = "entities"
  /\ parting' = {}
  /\ UNCHANGED <<clients, pooled, script, level, hasty>>

\* Entity.RunAll: the handler of "disconnect" takes the object from the pool
RunEntities ==
  /\ pc = "game"
  /\ pc' = "entities"
  /\ pool' = [s \in Slots |-> IF Entity(s) \in parting THEN 0 ELSE pool[s]]
  /\ parting' = {}
  /\ UNCHANGED <<clients, made, script, level, hasty>>

RunScripts ==
  /\ pc = "entities"
  /\ pc' = "scripts"
  /\ batch' = pending
  /\ pending' = <<>>
  /\ UNCHANGED <<clients, pooled, parting, players, hooks, level, hasty>>

\* OnNotify("connecting", ...) of every BaseScript
Connecting(e) == Append(players, e)

\* OnNotify("connected", ...): scripts put their handlers on the player here
Dispatch ==
  /\ pc = "scripts" /\ batch # <<>>
  /\ LET n == Head(batch)
     IN  IF n.type = "connecting"
         THEN /\ players' = Connecting(n.entity)
              /\ UNCHANGED hooks
         ELSE /\ hooks' = hooks \cup {[entity |-> n.entity, player |-> n.player, level |-> level]}
              /\ UNCHANGED players
  /\ batch' = Tail(batch)
  /\ UNCHANGED <<clients, pooled, parting, pending, level, pc, hasty>>

FrameEnds ==
  /\ pc = "scripts" /\ batch = <<>>
  /\ pc' = "game"
  /\ UNCHANGED <<clients, pooled, parting, script, level, hasty>>

PoolNext ==
  \/ \E s \in Slots : PlayerConnect(s) \/ Begin(s) \/ PlayerDisconnect(s) \/ Call(s)
  \/ InitializeLevel
  \/ RunEntities \/ RunScripts \/ Dispatch \/ FrameEnds

PoolSpec == PoolInit /\ [][PoolNext]_poolVars

-------------------------------------------------------------------------------
Object == [slot : Slots, nr : Nat \ {0}]
Message == [type : MessageTypes, entity : Object, player : Nat]

PoolTypeOK ==
  /\ present \in [Slots -> BOOLEAN] /\ begun \in [Slots -> BOOLEAN] /\ joins \in [Slots -> Nat]
  /\ pool \in [Slots -> Nat] /\ made \in [Slots -> Nat]
  /\ parting \subseteq Object
  /\ pending \in Seq(Message) /\ batch \in Seq(Message) /\ players \in Seq(Object)
  /\ hooks \subseteq [entity : Object, player : Nat, level : Nat]
  /\ level \in Nat /\ pc \in {"game", "entities", "scripts"} /\ hasty \in BOOLEAN

Listed == {players[k].slot : k \in DOMAIN players}

\* A script's Players are the players of the game, each once, as far as their
\* connecting has been handed out: although players are added with the next
\* frame and removed at once, by number, as long as nobody leaves with his
\* connect still pending.
PlayersMatch ==
  ~hasty =>
    /\ \A i, j \in DOMAIN players : players[i].slot = players[j].slot => i = j
    /\ Listed = {s \in Slots : present[s] /\ ~Awaited("connecting", s)}

\* Whoever entered this level is heard by the script's handlers while he stays:
\* the ones it put on his object when it heard of him are on the object that
\* GetEntity finds for his notifications now.
HandlersHear ==
  ~hasty =>
    \A s \in Slots : begun[s] /\ ~Awaited("connected", s)
      => [entity |-> [slot |-> s, nr |-> pool[s]], player |-> joins[s], level |-> level] \in hooks

\* Handlers put on a player never hear the next one in his slot.
NoStrangers ==
  ~hasty =>
    \A h \in hooks : LET s == h.entity.slot IN
      present[s] /\ pool[s] = h.entity.nr => h.player = joins[s]
===============================================================================
