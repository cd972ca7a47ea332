# fourdeltaone in TLA+

A verification development of fourdeltaone (IW4M), a client and server mod of
Modern Warfare 2: TLA+ modules for the parts of the program that keep state of
their own, TLC runs on small instances of them, and proofs for the properties
that can be had for every size.

Contents: [the system](#the-system), [inventory](#inventory), [plan](#plan),
[models](#the-models), [runs](#runs), [fairness](#fairness), [proofs](#proofs),
[what is only checked](#what-is-only-model-checked),
[observations](#observations), [what is not modelled](#what-is-not-modelled).

## The system

Three programs of its own and a fourth that they patch:

- `steam_api`, a C++ DLL that takes the place of Steam in the game, answers its
  Steam calls, and patches the engine at fixed addresses;
- `InfinityScript`, a C# runtime for server scripts which the DLL hosts;
- `warfare2`, a bootstrapper that updates the installation and loads the game;
- the engine, and the NP library (friends, storage, authentication): not in the
  repository. Both are modelled from how the code here uses them.

Nearly everything runs on the game's frame loop. Services answer through
callbacks that are run from a frame (`NP_RunFrame`), the engine calls the scripts
from wherever it is, and scripts call the engine back. So the concurrency of this
system is mostly re-entrancy, requests in flight, and messages between frames;
real threads meet in one place, the script string table, which has a lock.

## Inventory

State, operations, what they interact with, what is hard, what makes them right.
"Model" names the module or the plan.

| Component | State | Operations | Hard | Right when | Model |
|---|---|---|---|---|---|
| Notifications and timers (`Notifiable.cs`) | handler lists, pending queue, timers, clock of the last pass | `OnNotify`, `HandleNotify`, `ProcessNotifications`, `ProcessTimers`, `OnInterval`, `AfterDelay` | callbacks re-enter every operation; exceptions inside and outside the `try` | every handler hears everything once and in order, timers run neither early nor twice nor never | `Notifiable` |
| Entity pool and player lists (`Entity.cs`, `BaseScript.cs`, `SHManager.cs`) | pool by number, `Players`, handlers on objects | `GetEntity`, connect, disconnect, frame, new level | lists change at once on leaving and a frame later on joining; objects outlive players by a frame | scripts' players are the game's; handlers stay with their player | `EntityPool` |
| Script string table (`PatchMW2StringList.cpp`) | slots, counts, user masks, hash map, lowest free slot | `SL_*`, `Scr_SetString` | threads; four places outside the lock | an id means one string while held; counts count; the free slot is free | `StringList` |
| Stored server lists (`ServerStorage.cpp`) | a list in memory, a file at the service, requests in flight | add, remove, retrieve, write | retries racing answers, failed and lost calls, restarts | nothing is lost, twice or too long | `ServerStorage` |
| Player votes (`PatchMW2Voting.cpp`) | running vote, ballots, carried-over votes, limits | call, cast, finalize, disconnect, new game | slots change hands under votes made by slot number | what is counted are opinions on the person voted on; everybody is held to his own calls; a vote ends | `Voting` |
| Joining, protocol versions (`PatchMW2PartyBypass.cpp`, `PatchMW2Legacy.cpp`) | challenge, start time, protocol override, connection | `connect`, join answer, timeout, `reconnect` | late, lost and repeated answers, a second connect, an address that does not resolve | the client ends up where and how the last connect said, and nowhere once it gave up | `Join` |
| Client downloads (`PatchMW2DownloadCL.cpp`, `PatchMW2DownloadSV.cpp`, `HTTPService.cpp`) | request, the server's list, queue, the one current download, transfers, files | request, list, dequeue, open, transfer, finish, complete | failed transfers, a second list, leaving in between | what is put in place is what the server answered; no file is touched; it ends | `Download` |
| Updater and bootstrap (`warfare2/`) | the executable and its old copy, files, temporary files, `caches.xml` | replace the executable, fetch manifests, check, download, record | crashes at any step, two instances, releases meanwhile | an executable is left; what is recorded is there | `Updater` |
| Steam API emulation (`SteamBase.cpp` and those that post results) | results, handlers, iterators into both | `ReturnCall`, `RegisterCallback`, `RunCallbacks` | handlers post and register while both vectors are iterated | every result is handed out once, in order, to all who listen | `SteamCallbacks`, `Mailbox` |
| Server browser (`PatchMW2ServerList.cpp`) | server lists, overflow, ping slots, display list | refresh, frame, answers of masters and servers, filters | answers late and in any order, full lists, a change of the list on display | listed once, with its own info, sorted; all are asked; a refresh ends | `ServerList` |
| Getstatus and its rate limits (`PatchMW2Status.cpp`) | buckets, hash chains | a request | a full table, buckets that change hands, a clock that turns negative | nobody is answered too often, nor refused too long; chains find every bucket | `RateLimit`, `BucketChains` |
| Dedicated server (`PatchMW2Dedicated.cpp`) | heartbeat times, resolved masters, rotation | heartbeat, `SV_MapRotate_f` | a failure in the middle of a loop | each is a loop within one call | no |
| Pre-authentication (`PatchMW2PreAuthenticate.cpp`, `Auth.cpp`) | the engine's challenges | request, answer | the answer comes after the connect | what fills and admits a slot is the engine's | no |
| Playlist manager, avatars, demo recording, remote console, presence | a list, buffers, address lists | draw, fetch, record, print | little | see `PROJECT.json` | no |
| Everything else | none of its own, or the engine's | | | | see [below](#what-is-not-modelled) |

Who calls whom: the engine's notifications come to `SHManager`, which finds the
`Entity` in the pool, queues the notification on the entity and on every script
(both are a `Notifiable`), and once per frame runs entities, then scripts. Script
ids that cross from the engine come from the string table. The server browser
shows the stored lists and adds to the history on joining. A vote ends with an
engine command that comes back as a disconnect, which reaches the vote's own
tables and the scripts' player lists.

The hazards of each part, at their lines, are listed in `PROJECT.json` under
"hazards" with the properties that watch them. Where the code does go wrong, no
property watches: a history variable named in the note stands for the case, and
the properties that it excuses say what holds without it.

## Plan

In the order of what the program depends on; all of it is done.

1. `Notifiable`: everything a script does goes through it.
2. `StringList` and `StringListOwners`: the one part with threads.
3. `ServerStorage`: messages and restarts.
4. `Voting`, `EntityPool`: slots that change hands.
5. `Join`, and `Download` which extends it: a client between servers.
6. `Updater`: crashes, and instances that share a disk.
7. `SteamCallbacks`, an implementation of `Mailbox`.
8. `ServerList`.
9. `RateLimit`, and `BucketChains` which implements it over hash chains.

Compositions: `Download` runs on `Join`'s connection; `BucketChains` on
`RateLimit`'s table; `StringListOwners` sums who relies on `StringList`.
Refinements: `SteamCallbacks` of `Mailbox`, `BucketChains` of `RateLimit`; both are
checked and proved.

What could come next: `Download` with several clients of a server, and `Voting` with
`EntityPool` (a kick from a vote).

## The models

Conventions: a history variable, one that the code does not have, is marked so
where it is declared. A mutant (an operator whose comment begins `Mutant:`)
changes the definition after it the way a slip in the code would; for every
property of a passing run there is one that the property catches. Bounds are
constants named `Max...`.

### Notifiable

One object: an `Entity` (`TimersFirst = FALSE`) or a `BaseScript`, whose frame
runs notifications and timers in the other order. `pc` says where the C# code
is; the states `notified`, `handler` and `timer` are inside a callback, and from
them the script may register handlers, subscribe, raise notifications, add
timers, return or throw. `batch` and `tbatch` are the local arrays that
`ProcessNotifications` and `ProcessTimers` copy; `pos` and `version` are the
list enumerator with its version check, which throws outside the `try` when a
handler for the same type was added. `AbortPass` is what `RunAll` makes of an
exception that gets there. Parameters of a notification are left out; a
notification is its place in `queued`.

### StringList, StringListOwners

One step is one critical section. Steps of their own are what the code does outside:
reading `iter->second` after `LeaveCriticalSection` (`ReadBack`), the lookup of the
lower-case string, the three parts of `Scr_SetString` and of `SL_AddUser`. A string is a
model value with its lower case. `ReadBack` may return any slot number once the bucket
was moved by another thread's insert (the map rebuilds) and is otherwise what the code
finds. `SL_AddUser` goes on with the pointer it read first, so that what it masks may be
another string's data by then (`Masks`). A string too long for `SL_ConvertToLowercase`
comes back as it is, with nothing counted for who asked (`ConvertLong`); the constant
`Long` says which strings are. Slots below `slFirstFree` are not searched, as in the
code. `owns`, `field` and the locals say who relies on a reference; `StringListOwners`
sums them.

### ServerStorage

One list; the program has two of them that differ in their bound. The service
is a connection that answers in order, fails or loses calls. `EnsureSafe...` asks
whenever two seconds passed without an answer, which is to the model at any time
while `retrieved` is false. `Restart` forgets memory and requests. The history
variables `blind`, `mixed`, `unsaved` record that the code did what its list does
not survive: an edit of a list never read, an answer appended to another, a write
gone wrong. Server names are left out.

### Voting

Persons are numbered so that a slot and its player can be told apart. Times are in
votes' lengths (45 s). `Cleared` keeps the loop of `Vote_OnDisconnect` as it is, one
past the end, with the choice of what lies behind the last table: votes, of which one
may be taken for none (`Behind`). What each person called himself is kept beside the
code's counters (`calls`, `called`), from his connect until he leaves; one who
reconnects is a new person. `Passes` keeps the division of floats, which is infinite
without a no.

### EntityPool

The pool, one script's `Players` and the handlers ("hooks") it puts on objects
when a player enters. Objects and players of a slot are numbered in the order
they came, so that `[slot, nr]` is one object and `joins[s]` one person. Between
frames the engine connects, begins (`connected`), disconnects or looks up a
player, or starts a level; a frame is `RunEntities` (a disconnect takes its
object out of the pool), `RunScripts` (the script takes its pending
notifications), `Dispatch` once per notification, `FrameEnds`. `PlayerDisconnect` and
`Call` may come at any moment, since handlers kick players and look entities up.
A disconnect that an aborted pass drops (see `LossNeedsDisturbance`) is not
in this model.

### Join

The state of a connect: the challenge, whether a join is under way, the protocol
override, and where the client is connected. A round trip (the query and its
answer, as one) stays in `queries` until it is answered; it may be answered twice
or never. Challenges are the clock's milliseconds; they are numbered in the order
they were drawn, and a connect may draw the one before it again while that join
is still under way (`hurried`). The five seconds of `CL_ConnectFrame` may be over
at any moment. `reconnect` asks an address that nothing in this code sets
(`Unset`), of which no answer comes.

### Download

Extends `Join`; its steps are the frames of `DL_Process`, the messages between
client and server, and Join's own. A transfer is an easy handle in the multi
handle with its result, of which the message has not been read; `current` is
`currentDownload`, whose handle is 0 until it is opened. `Finish` takes whichever
message comes first for the current one's, as the code does, and `crashed` is what
happens when a further one is there. `leaked` files stay open, so that renaming them
fails. `Transfer` is the answer of the server's HTTP service: to a client of the server
the file, or the page of error 404 (`refused`) when it runs other packs by then; to others
the page of error 403. libcurl takes both pages for success. Or it is an error of libcurl's,
or nothing: no timeout is set. A failed transfer leaves the record behind, and every
later frame goes through it again (`FinishAgain`). The client has the same slot on a
server each time it comes. That `fclose` writes the last of a file is assumed here; every
other write that fails makes libcurl fail.

### Updater

An instance is a record of where it is and what it holds; one instance stands for the
chain of processes that replacing the executable starts. Every file operation is a step,
and an instance may end at each (`Exit`): by its errors, which all exit, by its player,
or with the machine. An executable that runs cannot be deleted but can be moved, which
decides what `Deleted` and `MoveAway` do. A temporary file may be open in two instances,
which mixes what they write (`Garbage`). The download queue is kept as the places in
`files` still to be fetched, the least first. What the disk took of a file is not looked
at, when it is decompressed or closed: a transfer that succeeds may leave a part
(`Transferred`, `short`), and the write of `caches.xml` an empty file, or one cut short,
of which a reader makes anything (`Readings`). Files of no size, for which nothing is
requested, and the resumed, segmented transfer of `Download.cpp` and the installer are
left out.

### SteamCallbacks, Mailbox

`RunCallbacks` is taken apart where it runs the game's code: `Deliver` takes up the
next result, its own handler (`result`) and each callback of its type (`callback`)
run, and meanwhile the game may post and register. `capacity` and `stale` say when
a vector has moved under its iterator; what is read then is open, as is the
comparison with the end, which may end the pass or run into freed memory
(`crashed`). `Mailbox` is what is promised: everything once, in order; its one
exception is what this code makes of a post that does not fit. The mapping takes
what the pass has not begun for `pending`.

### ServerList

Source 0 is a stored list, source 1 what the masters send. A ping slot is [address,
time, info], free when it has no address. A frame (`Frame`) walks the servers that may
be on display (`Visit`): one not asked yet is given a free slot, one with ping 0 is
replaced from the overflow. Then it copies what the slots know to the list (`Pinged`),
gives up the slots that were answered or whose time is over, and builds the display if
it is time or nobody is asked any more; `Built` is the binary insertion by ping. The
entry that fills the display overwrites its length, which lies behind the array, with an
index: any number of the entries may be left then (`Inserted`, `overrun`). Latency
stands for the ping, the set `Filtered` for the filters. A stored list is loaded without
a look at its length (`Loaded`): that it fits into the 50 or 512 places of its array is
an assumption, `Len(StoredList) <= MaxStoredServers`, which `WellKept` of
`ServerStorage` supports as far as no answer was appended to another. Sorting by other
columns and the display of a row are left out.

### RateLimit, BucketChains

A bucket is [address, lastTime, burst]; `Signed` is the 32-bit clock, with `Half`
for 2^31 (the constants of the run have 32). `RateLimit` looks the bucket of an
address up in the table; `BucketChains` finds it through the hash chains of the
code and relinks it, and refines `RateLimit`. `sent` remembers when one address was
answered.


## Runs

| Run | Instance | Properties | What it shows |
|---|---|---|---|
| `notifiable` | 2 types, 3 notifications, 2 handlers a type; or 2 timers of any kind, 3 ticks | `Delivered` `LossNeedsDisturbance` `InOrder` `EventuallyDrained` `NoDueTimerLeft` `IntervalSpacing` | who hears what, in which order; losses have one cause; no timer is overlooked, or run too soon after its last run |
| `strings` | 2 strings, one too long to convert, 2 threads, 2 users, 3 slots, 2 references in all | `TableMatches` `FirstFreeIsFree` `CountedUnlessBorrowed` `KeepsMeaning` | the table's parts agree; references and meanings keep |
| `server_list` | 3 servers, limit 2, 2 sessions, a retrieval and 2 writes in flight, 1 loss | `WellKept` `StoredAsExpected` `EventuallyRetrieved` | what the list and the file hold when every edit follows a retrieval |
| `votes` | 3 slots, 3 persons, one vote's length, 1 call each | `FairCount` `HeldToOwnCalls` `VotesEnd` | opinions counted are of and on the right persons; everybody is held to his own calls, over slot changes and new games; a vote ends |
| `entity_pool` | 2 slots, 2 players and 4 objects each, 2 levels | `PlayersMatch` `HandlersHear` `NoStrangers` | scripts know the game's players |
| `client` | 2 servers, 3 files, 2 protocols, 2 connects, 2 gamestates | `JoinsAsAsked` `NoLateJoin` `PlacedIsAnswer` `KeepsFiles` `NoMixup` `DownloadEnds` `Listed` | whom answers connect to, what downloads leave behind |
| `updater` | 2 instances, 1 cache of 1 file, 2 releases of the executable | `ExeKept` `Settles` | an executable is left after any crash; instances settle |
| `content` | 2 instances, 1 cache of 2 files, 2 releases of it | `RecordedIsThere` | what the record says is on the disk after any crash |
| `steam` | 4 results of 2 types, 2 callbacks | `AllHear` `InOrderOnce` `Answered` | the result queue is a mailbox |
| `browser` | 4 servers, room for 4, 2 slots, 2 latencies, 2 masters, 2 refreshes | `NotTwice` `InfoIsOwn` `Sorted` `AllAsked` | what is listed, asked and shown |
| `browser_ends` | 4 servers, room for 2, 2 slots, 2 masters, 2 refreshes | `RefreshEnds` | a refresh ends |
| `rate_limit` | 3 addresses, 2 buckets, 2 hashes, 10 ticks | `RateKept` `PatientIsHeard` `FindsAll` | answers neither too often nor too seldom |

`FindsAll` is `RateLimit`'s specification and `InOrderOnce` that of `Mailbox`: these
two are the refinements.

Why these bounds are enough for what is asked:

- `notifiable`: two types let a handler add one for the type being dispatched and
  for another; three notifications put one in the batch being run, one behind
  it and one raised meanwhile; two handlers give a first and a last. This is
  explored in full while there is no timer and the clock stands (`Untimed`); timers and
  clock with at most one notification and one handler of a type (`Quiet`), since the two
  passes share nothing but the script's callbacks. Delays 0 and 2 and intervals -1, 0 and 2
  over three ticks have every order of due and not due; with two timers one is added,
  removed or run while the other is ahead of it or behind it. The passes come in one
  order (`TimersFirst`); the theorems are of either.
- `strings`: the interesting races need two threads on one string and a second
  string to take the freed slot; `Lower` makes the second reachable from the first, and
  the second is too long to be converted itself.
  Three slots keep the table from being full, which `TableMatches` and
  `FirstFreeIsFree` do not survive (see the observations).
  Steps are explored from states with at most two references in all (`Explored`)
  and in which no borrowed reference or wrong id excuses the properties; threads and users
  are symmetric.
- `server_list`: a limit of two with three servers needs an eviction; two sessions
  and two writes have a write cut off by a restart and one overtaken.
- `votes`: three slots are the least in which the vote's caller, another voter
  and the target differ, and in which the slot next to the leaver's is not also
  the first. Three persons fill the three slots, or two of them and then one
  slot a second time; a new game ends a vote early, so that several votes fit and
  carry over, and lets a person call again who had called the one vote he may. Two types
  of vote, other limits and delays between calls are not in the run: the theorems
  `HeldToTheirOwn` and `OnlyOpinionsCount` hold for them too.
- `entity_pool`: two slots let one be used while the other changes hands; four
  objects for two players leave room for those made by look-ups.
- `client`: two connects have one overtake the other; of three required files
  the first and last are fetched and the middle one is there under its name only;
  two gamestates bring a second list into a download, or one after a failure. One
  server has no mods, which is where an HTTP error for the other comes from.
- `updater`, `content`: two instances have every pair of steps interleaved, and a second
  release comes at any step of the first update; with two files one can be in
  place when the update is cut off before the other. The two runs divide the work, since
  the executable and the content share nothing but the instances.
- `steam`: a vector grows at the second, third and fourth entry from nothing, so
  four results move it within a pass and leave room in another; two callbacks are
  a first and a last of a type, or two types.
- `browser`: the two slots are shared by four servers; the second refresh comes while
  answers to the first are under way; one master's packet names a server twice.
  Three entries of two pings take the binary search past its first comparison, and
  a fourth, of the server listed twice, fills the display.
- `browser_ends`: with room for two, packets of two masters need the overflow.
- `rate_limit`: with bursts of two and periods of two ticks a bucket fills, leaks
  and expires within ten; one of the starts has the clock turn negative on the way.
  Of three addresses two share a hash, and two buckets for three have one
  change hands.

`CHECK_DEADLOCK FALSE` stands where a bound stops the model or the program does:
clocks, persons, posts, refreshes and connects run out; a null pointer kills a
thread of the string table, a crash the game. The server list, the
notifications and the pool's frames always can go on.

## Fairness

- `Notifiable`: the frame loop and returns of callbacks. The game
  runs `RunFrame` for ever and a callback that never returned would stop the game
  itself. No fairness is asked of what scripts choose to do.
- `ServerStorage`: `EnsureSafeRetrieval` is called from every frame, `NP_RunFrame`
  hands out every answer that has come, and the service works through what has
  reached it. A lost call is possible a bounded number of times; without that bound
  the retrieval may fail for ever, and it should.
- `Voting`: time passes and `Vote_OnFrame` is called from each server frame.
- `Download`: the client's frames call `DL_Process` and read snapshots, the server
  executes reliable commands and sends snapshots. A transfer need not end, as the
  code sets no timeout: `DownloadEnds` asks that again and again none is running.
  Nothing is asked of the player or of the network's answers to a connect.
- `Updater`: an instance goes on; nobody has to start one. No timeout is set here either:
  `Settles` assumes that a transfer ends, well or not, and says nothing of one that
  stalls for ever.
- `SteamCallbacks`: the game calls `SteamAPI_RunCallbacks` every frame, its handlers
  return, and the service answers for a ticket.
- `ServerList`: frames go on and with them the 500 ms of a slot; no server and
  no master has to answer, `RefreshEnds` names the one answer it needs.
- Nothing is asked of the string table, the entity pool and the rate limit, which
  have only safety properties.

## Proofs

All for every value of the constants, checked by TLAPS, in a module
`..._proofs` beside the one they are about.

`Notifiable_proofs`, from `ConstantsAssumption`:

- `TypeCorrect`. Not inductive by itself: removing a timer needs to know that
  it is on the list, once, which `TimerOrder` says.
- `NothingMissed` (`Delivered`), `LossExplained` (`LossNeedsDisturbance`),
  `HeardInOrder` (`InOrder`). The inductive invariant `IInv` adds `QueueOrder`
  (what was heard precedes the batch, which precedes the queue), `Coverage` (the
  enumerator spans every handler there was when the notification came, and those
  up to its position have heard it) and `Blame` (a failed version check means a
  disturbance). The step of each is a lemma of its own, with a case for every
  action that can disturb it.
- `DelayedOnce` (an `AfterDelay` runs at most once), `IntervalsKept`
  (`IntervalSpacing`) from `Rearmed`: a timer still on the list has not run, or is
  rearmed a full interval after its last run. `NoneOverlooked` (`NoDueTimerLeft`)
  from `Passed`: what the pass has behind it is not due, has just run, or is new.

`StringList_proofs`, from `StringListAssumption`:

- `TypeCorrect`, `UsedIsCounted`. The count's type needs that it is positive
  wherever a reference is taken away: `UsedCounted`; and the locals need `CallForm`,
  which says what a call in progress holds at each `pc`.
- `TableConsistent` (`TableMatches`) and `LowestSlotFree` (`FirstFreeIsFree`)
  assume `Roomy`, more slots than strings. The code has 65534 slots and does not
  bound the strings; without the assumption the second is false. They are proved
  together: a new string keeps the map one-to-one because the first free slot is
  free, and there is a next free slot by the pigeonhole principle, because the map
  is one-to-one.
- `ReferencesCounted` (`CountedUnlessBorrowed`) and `IdsKeepTheirMeaning`
  (`KeepsMeaning`), also under `Roomy`, and until somebody relies on a reference that
  nobody counted (`borrowed`) or was handed a wrong id (`misled`). Who relies on a slot
  are the sets `InCalls`, `InFields` and `Held` of `StringListOwners`; `CountInv` says
  that the count of each slot covers them, and a step's effect on the sum is that one
  element is put into or taken out of one of the sets. A slot somebody relies on is then
  used, and a used slot never changes its string.

`ServerLists_proofs`, on the stored lists from `ServerStorageAssumption`:
`StorageTypeCorrect`; `ListWellKept` (`WellKept`), whose invariant `AllKept` says the
same of every list there is, the ones in requests and answers included;
`NothingForgotten` (`StoredAsExpected`), from `Agreed`: a session that has the list has
what the player expects, one that has not gets nothing but that in an answer, and the
last write under way, or the file if there is none, is the list he expects.

And on the browser, from `ServerListAssumption`, which has stored lists within their
arrays: `BrowserTypeCorrect`, `NothingListedTwice` (`NotTwice`), `InfoComesFromServer`
(`InfoIsOwn`), `DisplayIsSorted` (`Sorted`) and `EverybodyAsked` (`AllAsked`). The
inductive invariant is `BrowserInv`. Whatever happened, no two slots ask one address,
and a slot that was answered says so (`SlotsTrue`). While nothing came out of the
overflow (`Calm`), no server is listed twice but in one packet (`repeated`), entries of
one address are equal (`Alike`), a server with a ping has it from itself
(`Informative`), a slot that asks it has the same (`Agree`), and what is on display is
in order (`Displayed`); the last would not survive an answer that changes a displayed
ping, and by `Agree` there is none. Pings go to the list on display, or that list has no
pings yet. When a refresh is over no slot is used (`Over`): so the last pass over the
servers found none that was still to be asked.

The list, the display and the packets are walked by loops, and a place is found by
binary search, all of them recursive functions. Induction is out of reach, so a lemma
shows that the function exists (`SearchEnds`, `ShowingEnds`, `VisitingEnds`), and
another what it computes by the least argument at which it would not (`UpTo`, which the
theorem on well-founded relations gives for sets of numbers). `SearchFits` is the binary
search: if the list is sorted, no entry before the place found is larger and none after
it is smaller; `BuiltIs` the display, as far as its length was not overwritten,
`VisitedFrom` the pass over the servers, and `RankIs` that the addresses taken from a
packet are numbered without a gap.

`Players_proofs`, from `VotingAssumption` and `EntityPoolAssumption`, on votes:
`VotingTypeCorrect`;
`HeldToTheirOwn` (`HeldToOwnCalls`), from `HeldInv`: a person is in one slot, and neither a
free slot nor a person still to come has called anything (`NobodysCalls`);
`OnlyOpinionsCount` (`FairCount`), from `FairInv`: nobody is in two
slots (`OneSlotEach`), every entry of the table of yes votes is an opinion of the
person in the one slot on the person in the other (`OpinionsHeld`), and the target
is still in his slot (`SubjectThere`). The clearing loop that goes too far only
takes votes away, which is why it does no harm here.

And on the scripts' view of the players: `PoolTypeCorrect`; `PlayersAreTheGames`
(`PlayersMatch`), `HandlersStayHeard` (`HandlersHear`) and `NoHandlerHearsStrangers`
(`NoStrangers`). The invariant `PoolInv` relates what has been decided to what is still
on its way. An object in the pool was made (`ObjectsMade`). Unless somebody was
`hasty`, a message still to come is about whoever is in the slot and names his
object, and none comes twice (`MessagesFresh`); whoever is there has an object in the
pool, which no player who leaves with the frame takes along (`ObjectsKept`); and hooks
on the object of a slot are for its player, or the object goes with the next frame
(`HooksFit`).

`Download_proofs`, from `JoinAssumption` and `DownloadAssumption`:

- `JoinTypeCorrect`, `ClientJoinsAsAsked` (`JoinsAsAsked`) and `NoJoinAfterGivingUp`
  (`NoLateJoin`), from `JoinInv`: the challenge is the last one drawn (`Latest`),
  only the server last asked was sent it (`OneAsked`), and once the join is over no
  answer with it is in flight (`NoneLeft`). Of the steps of `Download`, `StepsOfJoin`
  says what they are to the connection, so that the rest speaks of five kinds only.
- `PlacesWholeAnswers` (`PlacedIsAnswer`) and `OneRecordIsEnough` (`NoMixup`), from
  `PlaceInv`: at most the current file's transfer is in the multi handle
  (`OneTransfer`), which a failed one leaves (`FailedStays`); until he leaves the client is
  on the server it fetches from (`AtHost`), so that the page of an error is received
  for a refused file only (`NoPages`).
- `PlayersFilesStay` (`KeepsFiles`): no step changes a file that is there, unless the server
  refuses it. From
  `ListsOK`: whatever is asked for, listed, queued or being fetched is a file that was
  missing (`Fetchable`), and no file was left open. It rests on what the loop over the
  required files selects, `MissingAreMissing`. Since induction is out of reach, the
  lemmas on the loop (`Loop`, `LoopEnds`, `LoopSelects`) first show that its recursive
  function exists and then exclude a least index at which it would go wrong.

`Updater_proofs`, from `UpdaterAssumption`:

- `ExecutableKept` (`ExeKept`). `ExeKept` alone
  is not inductive: that moving the executable away leaves a good old one rests on
  there having been a good one since it was opened (`ExeThere`), and that on nobody
  else replacing it (`Alone`). `StepsOfExe` reduces every step to what it does to the
  executable and to one instance.
- `RecordIsTrue` (`RecordedIsThere`) assumes `OwnFiles`, that no file is in two caches.
  It speaks of the files that the disk took whole (all but `short`). Files are opened by
  their name alone, so that two caches with the same file would overwrite each other's.
  Unless two instances updated at once, the invariant `UpdateInv` says of the one that
  updates (`Plan`): it touches only files of caches that the record does not call up to
  date (`Behind`); the temporary file it writes is its own and of one release, no older
  than the one it will record (`Fetches`); and each file of a cache it will record is in
  place or still to be fetched (`WillBeThere`).

`SteamCallbacks_proofs`, from `SteamAssumption`: `CallbacksTypeCorrect`;
`HandedOutInOrder` (`InOrderOnce`), the refinement, step by step: a post is a
`Post`, taking up a result a `Deliver`, the end of a pass over a vector that moved a
`Lose`, everything else stutters; `EveryCallbackHears` (`AllHear`), from `OwedAhead`:
callbacks still owed a result are ahead of the iterator and within its reach.

`RateLimit_proofs`, from `RateLimitAssumption`: `RateTypeCorrect`, `RateIsKept`
(`RateKept`), which bounds any window of one or two answers more than the burst and says
nothing of longer ones, and `PatienceIsRewarded` (`PatientIsHeard`). In the
invariant `IInv` an address has one bucket (`OneEach`); a bucket's time is one of
this run, so that the signed difference is the real one (`InTime`); a bucket holds
every answer of its address that has not leaked, and no bucket means that all have
(`AllHeld`); a full bucket's address was answered since it last leaked (`FullSince`). The
assumption `Duration < Half` is that the server is up for less than 24.9 days; within
them the clock may turn negative at any point.

Of `BucketChains`, in the same module: `ChainsFindAll` (`FindsAll`), that the hash
chains implement `RateLimit`'s table, and `ChainsKeepTheRate`, what follows of the rate.
A walk through a chain is described by the sets closed under it (`Follow`): a bucket
is found if it is in every such set. The invariant (`WellLinked`) says that neighbours
have one hash and name each other, that the first is the head, and that every bucket in
use is found from the head of its hash (`Passed`). Unlinking a bucket and linking one in
front (`TakeOut`, `PutIn`) keep the last part because a set closed under the new links
is, but for that bucket, closed under the old ones.

## What is only model-checked

- Liveness (`EventuallyDrained`, `EventuallyRetrieved`, `VotesEnd`, `DownloadEnds`,
  `Listed`, `Settles`, `Answered`, `RefreshEnds`), which is out of the prover's reach.

## Observations

Met while modelling: places where the code does less than one would expect of it.
The properties exclude those they do not survive by name (the variable in
parentheses).

Scripts:

- `AfterDelay` on an object that has not been ticked yet counts from zero
  (`Entity.cs:470`).
- A full string table hands out a slot in use (`PatchMW2StringList.cpp:116`, the
  theorems' `Roomy`); the iterator of the map is read after the lock was given back
  (`:148`, `:96`, `misled`); `SL_ShutdownSystem` leaves the user's bit set, so that
  a second shutdown gives back a reference that is gone (`:322`, `borrowed`), and
  freeing the strings of one user alone is commented out (`:326`). A string too long for
  `SL_ConvertToLowercase` is returned without counting its user (`:307`, `borrowed`).
- A player who connects and leaves between two frames stays in `Players` for the
  rest of the level, and one who takes a slot in the frame its player left loses
  his handlers with the old object (`hasty`).
- Handlers put on a player's object by scripts of an earlier level keep running:
  `ClearScripts` drops the scripts, nothing drops what they registered.

Stored lists and votes:

- An edit made before the answer overwrites the stored list, although the comment
  at `ServerStorage.cpp:18` has lists retrieved first (`:250`, `blind`).
- `DeserializeListFromNPCB` appends without a look at `maxEntries` or at what
  is there, so a list edited before its retrieval can hold a server twice and
  outgrow its limit (`mixed`). A list of more than 512 entries is rejected
  whole by the next session (`:65`).
- `Vote_OnDisconnect` writes one element past both tables. In `votedForKick`
  it clears a vote of the next slot, in `votedForBan` what the linker put there.
- A vote removes whoever is in the slot when it ends (`PatchMW2Voting.cpp:390`). One
  on a slot with nobody in it is accepted, and yes votes cast then wait for
  whoever comes (`phantom`).

Joining and downloads:

- The challenge is the clock's millisecond: the second of two connects within it
  accepts the first one's answer (`hurried`). A connect that fails to resolve its
  address changes the protocol of the join under way (`misdialled`). The challenge
  stays set after an answer, which when repeated connects again (`duplicated`).
- `reconnect` joins `currentLobbyTarget`, which nothing assigns
  (`PatchMW2PartyBypass.cpp:160`), and `connectNoParty` is registered with
  `CL_Connect_f` (`:171`).
- A download goes on after its server was left, when the page of error 403 is a
  successful transfer and is put in place as a mod (`left`). A second list takes the
  record from under the first, whose transfer's message is then taken for the
  wrong file's or finds no record at all (`replaced`, `crashed`).
- A file the server does not have any more is answered with the page of error 404, which
  is put in place all the same (`refused`). Downloads have no timeout.
- A failed transfer leaves `isDownloading` and the current record as they were: each
  frame closes its file once more (`PatchMW2DownloadCL.cpp:408`, `failed`, `crashed`). A
  file with the server's name and another checksum is never fetched, although the
  comment at `PatchMW2DownloadCL.cpp:148` thinks of it. The list goes out in one
  snapshot only (`PatchMW2DownloadSV.cpp:99`, `lost`), and the names are kept for
  whoever has the slot next.

Updater:

- `caches.xml` is emptied when it is opened; a crash between that and the write
  makes every later start fail on it. The versions of all caches are recorded, the
  unwanted ones included. What comes of `info.xml` is not looked at: a part of it
  passes (`cut`), nothing at all is a null pointer. Files are not checked again once
  they are fetched, and their URL has no version; that the disk is full goes unnoticed
  (`Download.cpp:176`, `short`; `Updater.cpp:369`).
- Two instances that update at once mix their temporary files (`together`), and one
  that starts while another replaces the executable can leave none (`rivals`).

Browser and status:

- A server that waits for its slot when the list changes has ping 0 and is replaced
  by one from the overflow, which the comment only intends for servers lost or too
  far; one that is in the list already may come out of the overflow, and a server
  replaced in the last frame is never asked (`full`). Servers in a packet are
  compared with those before the packet only (`:683`), the bound of the overflow
  is looked at once per packet (`:707`).
- The display's entries are moved up from one past the last (`:1267`): the entry that
  fills `displayServers` overwrites `numDisplayServers` (`overrun`). Stored lists are
  copied without a look at the length of their array (`:761`).
- A refresh without an answer from any master does not end (`waiting`).
- A bucket last used at a negative time is never reclaimed: `lastTime > 0`. After
  24.9 days a full table refuses every new address.

Elsewhere: a master that does not resolve ends the heartbeat loop before those
behind it (`PatchMW2Dedicated.cpp:1071`), and a rotation without a further `map`
has `strlen` read a null pointer (`:932`).

## What is not modelled

- The engine's own state and the patches to it (`PatchMW2*.cpp` other than those
  named, `Hooking.cpp`, assembly stubs): what they do is defined by code that is not
  in the repository. For the same reason pre-authentication, whose states are
  the engine's table of challenges.
- Marshalling of script parameters, name tables, logging (InfinityScript's call
  interface); the web front end, which serves one request at a time; the playlist
  manager, which draws a list and takes it from the front.
- The dedicated server's heartbeat and map rotation: each is one loop within a
  call, and the observation above is all there is to say about it.
- Avatars, demo recording, remote console, presence: fetching, growing and printing
  of buffers, without a state that several steps could spoil.
- Converters of assets and the table of hidden assets, renderer wrappers and
  shaders; NUI, which is compiled out.
- Vendored code: `dependencies` (most of the repository by size), `packages`,
  sqlite-net, the loader, cipher and hash in `warfare2`.
- Within modelled parts: the resumed transfer and the installer of `warfare2`;
  sorting of the browser by other columns; the Steam interfaces that return
  constants or forward to the NP library.
