------------------------------- MODULE Download -------------------------------
(***************************************************************************)
(* Fetching the mods a server runs before playing on it: the client's      *)
(* request, the server's list in a snapshot and the transfers over HTTP    *)
(* (steam_api/PatchMW2DownloadCL.cpp and PatchMW2DownloadSV.cpp), for a    *)
(* client that joins and leaves servers as in Join.                        *)
(*                                                                         *)
(* The client is always given the same slot of a server.  A file stands    *)
(* for a mod's iwd that both sides are willing to transfer: not one of the *)
(* game's own, not named _svr_.  The server answers over HTTP              *)
(* (steam_api/HTTPService.cpp): a transfer ends with the file, with the    *)
(* page of an HTTP error, or with an error of libcurl's, which is given no *)
(* timeout, so that it may also never end.                                 *)
(***************************************************************************)
EXTENDS Join, Sequences, SequencesExt

CONSTANTS
  Files,
  Required,      \* the files each server refers to, in its order
  Disks,         \* what of them the player may have to begin with
  MaxGamestates  \* bound on the gamestates received

None == [file |-> "", handle |-> 0]
Kept == {"none", "server's", "other"}

ASSUME DownloadAssumption ==
  /\ Required \in [Servers -> Seq(Files)] /\ MaxGamestates \in Nat
  /\ Disks \subseteq [Files -> Kept]

VARIABLES
  disk,          \* per file: none, the server's, another of the name, an HTTP page, torn
  playing,       \* CL_DownloadsComplete has been called
  request,       \* the reliable command "download", until the server executes it
  names,         \* clientDL[our slot].downloadNames of every server
  inbox,         \* lists in snapshots on their way to the client
  isDownloading, queue, host,  \* the list being fetched, and from which server
  current,       \* currentDownload: its file and handle, 0 before it has one
  transfers,     \* easy handles in the multi handle whose message was not read
  leaked,        \* temporary files whose handle was dropped without closing it
  crashed,       \* how the process ended: by a second message, by a stale file
  gamestates, left, replaced, refused, lost, failed  \* history

game     == <<disk, playing, request, names, inbox>>
dls      == <<isDownloading, queue, host, current, transfers, leaked>>
history  == <<gamestates, left, replaced, refused, lost, failed>>
vars     == <<join, game, dls, crashed, history>>

Init ==
  /\ JoinInit
  /\ disk \in Disks /\ playing = FALSE
  /\ request = <<>> /\ names = [s \in Servers |-> <<>>] /\ inbox = <<>>
  /\ isDownloading = FALSE /\ queue = <<>> /\ host = Unset
  /\ current = None /\ transfers = {} /\ leaked = {}
  /\ crashed = "no" /\ gamestates = 0 /\ left = FALSE /\ replaced = FALSE
  /\ refused = {} /\ lost = FALSE /\ failed = FALSE

Connected(s) == conn.server = s

Running == crashed = "no"

\* the channel to the server is gone, or a new one begun; downloads go on
Channel(fetching) ==
  /\ playing' = FALSE /\ request' = <<>> /\ inbox' = <<>>
  /\ lost' = (lost \/ request # <<>> \/ inbox # <<>> \/ \E s \in Servers : Connected(s) /\ names[s] # <<>>)
  /\ left' = (left \/ fetching)

Fetching == isDownloading /\ ~failed

\* the player's disconnect, and Com_Error(ERR_DROP) when a download fails
Drop(fetching) ==
  /\ conn' = Nowhere
  /\ UNCHANGED <<asking, protocol, queries, joins, misdialled, duplicated>>
  /\ Channel(fetching)

Joining ==
  /\ \/ /\ \/ ConnectFrame
           \/ \E s \in Servers, p \in Protocols : Connect(s, p)
           \/ \E p \in Protocols : ConnectUnresolved(p)
        /\ UNCHANGED <<playing, request, inbox, left, lost>>
     \/ \E q \in queries, full, again \in BOOLEAN :
          /\ JoinResponse(q, full, again)
          /\ IF Accepts(q) /\ ~full THEN Channel(Fetching) ELSE UNCHANGED <<playing, request, inbox, left, lost>>
  /\ UNCHANGED <<disk, names, dls, crashed, gamestates, replaced, refused, failed>>

Leave ==
  /\ conn # Nowhere
  /\ Drop(Fetching)
  /\ UNCHANGED <<disk, names, dls, crashed, gamestates, replaced, refused, failed>>

-------------------------------------------------------------------------------
(* The lists.                                                                *)

\* Mutant: a file of the same name does not count.
MissingUnnamed(s) == SelectSeq(Required[s], LAMBDA f : disk[f] # "server's")

\* FS_CompareWithServerFiles: a file whose name is taken is not asked for
Missing(s) ==
  LET wanted == Required[s]
      needed[i \in 0..Len(wanted)] ==
        IF i = 0 THEN <<>>
        ELSE IF disk[wanted[i]] = "none" THEN Append(needed[i - 1], wanted[i])
        ELSE needed[i - 1]
  IN  needed[Len(wanted)]

\* CL_InitDownloads, from CL_ParseGamestate: on joining and for every new map
InitDownloads ==
  /\ conn # Nowhere /\ gamestates < MaxGamestates
  /\ gamestates' = gamestates + 1
  /\ LET missing == Missing(conn.server)
     IN  /\ request' = IF missing # <<>> THEN missing ELSE request
         /\ playing' = (missing = <<>>)
  /\ UNCHANGED <<join, disk, names, inbox, dls, crashed, left, replaced, refused, lost, failed>>

\* Mutant: the names go to another client's slot.
SendDownloadsElsewhere(s) ==
  /\ Connected(s) /\ request # <<>>
  /\ request' = <<>>
  /\ UNCHANGED <<join, disk, playing, names, inbox, dls, crashed, history>>

\* SV_SendDownloads_f
SendDownloads(s) ==
  /\ Connected(s) /\ request # <<>>
  /\ names' = [names EXCEPT ![s] = request]
  /\ request' = <<>>
  /\ UNCHANGED <<join, disk, playing, inbox, dls, crashed, history>>

\* SV_WriteDownloadToClient: in one snapshot, which may be lost
WriteDownload(s) ==
  /\ Connected(s) /\ names[s] # <<>>
  /\ names' = [names EXCEPT ![s] = <<>>]
  /\ \/ inbox' = Append(inbox, names[s]) /\ UNCHANGED lost
     \/ lost' = TRUE /\ UNCHANGED inbox
  /\ UNCHANGED <<join, disk, playing, request, dls, crashed, gamestates, left, replaced, refused, failed>>

\* CL_ParseDownload and CL_InitDownloadQueue: the download under way is
\* forgotten, its transfer stays in the multi handle and its file open
ParseDownload ==
  /\ inbox # <<>>
  /\ queue' = Head(inbox) /\ inbox' = Tail(inbox)
  /\ isDownloading' = TRUE /\ host' = conn.server
  /\ current' = None
  /\ leaked' = IF current.handle # 0 /\ ~failed THEN leaked \cup {current.file} ELSE leaked
  /\ replaced' = (replaced \/ Fetching)
  /\ failed' = FALSE
  /\ UNCHANGED <<join, disk, playing, request, names, transfers, crashed, gamestates, left, refused, lost>>

-------------------------------------------------------------------------------
(* DL_Process, once a frame.                                                 *)

\* DL_Shutdown: curl_multi_cleanup
Shutdown ==
  /\ ~isDownloading /\ transfers # {}
  /\ transfers' = {}
  /\ UNCHANGED <<join, game, isDownloading, queue, host, current, leaked, crashed, history>>

\* Mutant: what is under way is not waited for.
FreeToDequeueAlways == isDownloading /\ queue # <<>>

FreeToDequeue == isDownloading /\ queue # <<>> /\ current = None

\* DL_DequeueDownload
Dequeue ==
  /\ FreeToDequeue
  /\ current' = [file |-> Head(queue), handle |-> 0]
  /\ queue' = Tail(queue)
  /\ UNCHANGED <<join, game, isDownloading, host, transfers, leaked, crashed, history>>

\* DL_ProcessDownload, the first time: a file that cannot be opened drops the
\* client
OpenFile ==
  /\ isDownloading /\ current # None /\ current.handle = 0
  /\ \/ /\ current' = [current EXCEPT !.handle = Cardinality(transfers) + 1]
        /\ transfers' = transfers \cup {[handle |-> current'.handle, file |-> current.file, host |-> host, result |-> ""]}
        /\ UNCHANGED <<join, isDownloading, playing, request, inbox, left, lost, failed>>
     \/ /\ isDownloading' = FALSE /\ failed' = TRUE
        /\ Drop(FALSE)
        /\ UNCHANGED <<current, transfers>>
  /\ UNCHANGED <<disk, names, queue, host, leaked, crashed, gamestates, replaced, refused>>

\* FS_GetFileForDownload: the file, unless the server runs other packs by now;
\* HTTPService_NotFound answers with a page then
GetFileForDownload == {"server's", "page"}

\* HTTPService_HandleDownloadRequest: those who are no clients of the server
\* get the page of HTTPService_Forbidden
HandleDownloadRequest(t) == IF Connected(t.host) THEN GetFileForDownload ELSE {"page"}

\* The page of an error is a successful transfer for libcurl all the same.
Transfer(t) ==
  /\ isDownloading /\ current.handle # 0 /\ t \in transfers /\ t.result = ""
  /\ \E r \in HandleDownloadRequest(t) \cup {"error"} :
       /\ transfers' = (transfers \ {t}) \cup {[t EXCEPT !.result = r]}
       /\ refused' = IF r = "page" /\ Connected(t.host) THEN refused \cup {t.file} ELSE refused
  /\ UNCHANGED <<join, game, isDownloading, queue, host, current, leaked, crashed,
                 gamestates, left, replaced, lost, failed>>

Own(t) == t.handle = current.handle

\* what the temporary file is once nothing runs any more: rename fails while
\* another handle has it open
Written ==
  LET own == CHOOSE t \in transfers : Own(t)
  IN  IF current.file \in leaked THEN "none"
      ELSE IF own.result = "error" THEN "torn" ELSE own.result

\* Mutant: the file is put in place whatever the transfer's result.
SucceededAlways(t) == TRUE

Succeeded(t) == t.result # "error"

\* Every transfer in the multi handle has ended
NoneRunning == \A u \in transfers : u.result # ""

\* DL_ProcessDownload, when no transfer runs: the first message of any
\* transfer is taken for the current one's.  A further message finds
\* currentDownload NULL; Com_Error leaves before it is read.
Finish(t) ==
  /\ isDownloading /\ current.handle # 0 /\ ~failed
  /\ t \in transfers /\ NoneRunning
  /\ \E rest \in {transfers \ {t}, {u \in transfers \ {t} : ~Own(u)}} :
       /\ transfers' = rest
       /\ crashed' = IF Succeeded(t) /\ rest # {} THEN "mixup" ELSE "no"
  /\ IF Succeeded(t)
     THEN /\ disk' = [disk EXCEPT ![current.file] = Written]
          /\ current' = None
          /\ UNCHANGED <<join, playing, request, inbox, left, lost, failed>>
     ELSE /\ failed' = TRUE
          /\ Drop(FALSE)
          /\ UNCHANGED <<disk, current>>
  /\ UNCHANGED <<names, isDownloading, queue, host, leaked, gamestates, replaced, refused>>

\* DL_ProcessDownload in every frame after that, until a new list comes: the
\* file is closed once more, which may end the process or do nothing, and a
\* message of another transfer finds the freed handle.
FinishAgain ==
  /\ isDownloading /\ current.handle # 0 /\ failed /\ NoneRunning
  /\ crashed' = IF transfers = {} THEN "stale" ELSE "mixup"
  /\ UNCHANGED <<join, game, dls, history>>

\* Mutant: nobody resets isDownloading.
CompleteStays ==
  /\ isDownloading /\ current = None /\ queue = <<>>
  /\ Reconnect /\ Channel(FALSE)
  /\ UNCHANGED <<disk, names, dls, crashed, gamestates, replaced, refused, failed>>

\* DL_Process with nothing left: CL_DownloadsComplete, and reconnect
Complete ==
  /\ isDownloading /\ current = None /\ queue = <<>>
  /\ isDownloading' = FALSE /\ host' = Unset
  /\ Reconnect /\ Channel(FALSE)
  /\ UNCHANGED <<disk, names, queue, current, transfers, leaked, crashed, gamestates, replaced, refused, failed>>

Next ==
  /\ Running
  /\ \/ Joining \/ Leave
     \/ InitDownloads \/ ParseDownload
     \/ \E s \in Servers : SendDownloads(s) \/ WriteDownload(s)
     \/ Shutdown \/ Dequeue \/ OpenFile \/ FinishAgain \/ Complete
     \/ \E t \in transfers : Transfer(t) \/ Finish(t)

Spec == Init /\ [][Next]_vars

\* Frames go on, a server executes commands and sends snapshots.  Nothing makes
\* a transfer end.
FairSpec ==
  /\ Spec
  /\ WF_vars(ParseDownload) /\ WF_vars(Dequeue) /\ WF_vars(OpenFile) /\ WF_vars(Complete)
  /\ WF_vars(\E s \in Servers : SendDownloads(s)) /\ WF_vars(\E s \in Servers : WriteDownload(s))
  /\ WF_vars(\E t \in transfers : Finish(t))

-------------------------------------------------------------------------------
\* What a download puts in place came whole from the server it was asked of,
\* over failed transfers and the joins after them: never the torn file of a
\* failed one, and the page of an HTTP error only for a file that server
\* refused its client, or once the client left a server before the list was
\* done; unless a list was sent before the last one was done.
PlacedIsAnswer ==
  ~replaced => \A f \in Files :
    disk[f] \notin Kept => disk[f] = "page" /\ (left \/ f \in refused)

\* No file the player has is touched by a download, not even one that only has
\* the name of the server's, under the same conditions: a list sent twice can
\* put the page of an error over a file the first one brought.
KeepsFiles ==
  [][~left' /\ ~replaced' =>
       \A f \in Files : disk[f] # "none" => disk'[f] = disk[f] \/ f \in refused']_vars

\* The one static download record is enough: no message of a transfer finds it
\* in use by another, as long as no list comes before the last one is done.
NoMixup == crashed = "mixup" => replaced

\* A download comes to its end, unless a transfer never does: the files are
\* there, or one failed and the client is told.
DownloadEnds ==
  []<>NoneRunning => (isDownloading ~> ~isDownloading \/ failed \/ ~Running)

\* A client that asked is sent a list, unless the one snapshot it is in is lost
\* or the connection given up: nobody asks again.
Listed == request # <<>> ~> isDownloading \/ lost \/ ~Running
===============================================================================
