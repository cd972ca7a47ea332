------------------------------- MODULE Updater -------------------------------
(***************************************************************************)
(* warfare2: replacing the running executable by a newer one               *)
(* (Bootstrap.cpp), then bringing the content up to date (Updater.cpp,     *)
(* Download.cpp), then the game.  The player may start it twice, and any   *)
(* instance may end at any moment: by an error, all of which end the       *)
(* process, by the player, or with the machine.  What it leaves is on disk.*)
(*                                                                         *)
(* Releases are numbered, and a release changes every file of its cache.   *)
(* A name in the URL of a file carries no version, so what comes is what   *)
(* the server has by then.  One instance stands for the chain of processes *)
(* that an update of the executable starts.                                *)
(***************************************************************************)
EXTENDS Integers, Sequences, Functions, FiniteSetsExt

CONSTANTS
  Procs,
  Caches,      \* those DoBootstrap asks for
  Files,
  Manifest,    \* the files of each cache, in the order of info.xml
  MaxRelease,  \* bound on the releases of a cache
  MaxExe       \* bound on the releases of the executable

Missing == -1
Garbage == 0  \* an empty file, a part of one, or a mixture

ASSUME UpdaterAssumption ==
  Manifest \in [Caches -> Seq(Files)] /\ MaxRelease \in Nat \ {0} /\ MaxExe \in Nat \ {0}

VARIABLES
  release, exeRelease,  \* what the server has
  exe, old,             \* Warfare2.exe and Warfare2.exe.old
  disk, tmp,            \* the files, and the .tmp each is fetched into
  versions,             \* caches.xml
  proc,                 \* the instances
  cut, short, together, rivals \* history

server  == <<release, exeRelease>>
program == <<exe, old>>
content == <<disk, tmp, versions>>
history == <<cut, short, together, rivals>>
vars    == <<server, program, content, proc, history>>

\* at: where it is; own, image: the version that runs, and from which file;
\* want: the versions of caches.xml; needs: caches whose manifest is to come;
\* files: those of the manifests; queue: the places in files of those still to
\* be fetched; gets: what comes of the one being fetched, a release or Garbage
Idle == [at |-> "off", own |-> 0, image |-> "none", want |-> [c \in Caches |-> 0],
         needs |-> {}, files |-> <<>>, queue |-> {}, gets |-> 0]

NoTmp == [opener |-> {}, open |-> {}, releases |-> {}]

Init ==
  /\ release = [c \in Caches |-> 1] /\ exeRelease = 1
  /\ exe = 1 /\ old = Missing
  /\ disk = [f \in Files |-> Missing] /\ tmp = [f \in Files |-> NoTmp]
  /\ versions = [is |-> "none", of |-> [c \in Caches |-> 0]]
  /\ proc = [p \in Procs |-> Idle]
  /\ cut = FALSE /\ short = {} /\ together = FALSE /\ rivals = FALSE

At(p, places) == proc[p].at \in places
Goes(p, place) == proc' = [proc EXCEPT ![p].at = place]
Holds(image) == \E q \in Procs : proc[q].image = image
Replacing == {"replace", "delete", "move", "copy", "clean"}
Updating == {"manifests", "check", "download", "transfer", "erased", "write"}
Others(p) == {q \in Procs \ {p} : ~At(q, {"off"})}

Valid(program_file) == program_file > Garbage

Publish ==
  /\ \/ /\ exeRelease < MaxExe /\ exeRelease' = exeRelease + 1 /\ UNCHANGED release
     \/ /\ \E c \in Caches : release[c] < MaxRelease /\ release' = [release EXCEPT ![c] = @ + 1]
        /\ UNCHANGED exeRelease
  /\ UNCHANGED <<program, content, proc, history>>

Launch(p) ==
  /\ At(p, {"off"}) /\ Valid(exe)
  /\ proc' = [proc EXCEPT ![p] = [Idle EXCEPT !.at = "bootstrap", !.own = exe, !.image = "exe"]]
  /\ rivals' = (rivals \/ \E q \in Procs : At(q, Replacing))
  /\ UNCHANGED <<server, program, content, cut, short, together>>

\* the system closes what the process had open
Exit(p) ==
  /\ ~At(p, {"off"})
  /\ proc' = [proc EXCEPT ![p] = Idle]
  /\ tmp' = [f \in Files |-> [tmp[f] EXCEPT !.open = @ \ {p}]]
  /\ UNCHANGED <<server, program, disk, versions, history>>

-------------------------------------------------------------------------------
(* The executable.                                                           *)

\* Mutant: the same version will do.
IsNewerOrSame(version, than) == version >= than

IsNewer(version, than) == version > than

\* Bootstrap_DoBootstrap
DoBootstrap(p) ==
  /\ At(p, {"bootstrap"})
  /\ Goes(p, IF IsNewer(exeRelease, proc[p].own) THEN "fetch" ELSE "update")
  /\ UNCHANGED <<server, program, content, history>>

\* Bootstrap_UpdateEXE: the new program is run where it was downloaded to
UpdateEXE(p) ==
  /\ At(p, {"fetch"})
  /\ proc' = [proc EXCEPT ![p].at = "replace", ![p].own = exeRelease, ![p].image = "temp"]
  /\ rivals' = (rivals \/ Others(p) # {})
  /\ UNCHANGED <<server, program, content, cut, short, together>>

(* Bootstrap_ReplaceExecutable, in its five steps                            *)

\* waits while an instance runs from the file, and creates one if there is none
Opened(p) ==
  /\ At(p, {"replace"}) /\ ~Holds("exe")
  /\ exe' = IF exe = Missing THEN Garbage ELSE exe
  /\ Goes(p, "delete")
  /\ UNCHANGED <<server, old, content, history>>

Deleted == IF Holds("old") THEN old ELSE Missing

DeleteOld(p) ==
  /\ At(p, {"delete"})
  /\ old' = Deleted
  /\ Goes(p, "move")
  /\ UNCHANGED <<server, exe, content, history>>

\* Mutant: the executable is deleted, not moved.
MoveNowhere(p) ==
  /\ At(p, {"move"}) /\ exe # Missing /\ old = Missing
  /\ exe' = Missing
  /\ Goes(p, "copy")
  /\ UNCHANGED <<server, old, content, history>>

\* an instance may have been started from it since
MoveAway(p) ==
  /\ At(p, {"move"}) /\ exe # Missing /\ old = Missing
  /\ old' = exe /\ exe' = Missing
  /\ proc' = [q \in Procs |-> IF q = p THEN [proc[q] EXCEPT !.at = "copy"]
                              ELSE IF proc[q].image = "exe" THEN [proc[q] EXCEPT !.image = "old"]
                              ELSE proc[q]]
  /\ UNCHANGED <<server, content, history>>

Copy(p) ==
  /\ At(p, {"copy"}) /\ exe = Missing
  /\ exe' = proc[p].own
  /\ Goes(p, "clean")
  /\ UNCHANGED <<server, old, content, history>>

\* and the new executable is started
Clean(p) ==
  /\ At(p, {"clean"}) /\ Valid(exe)
  /\ old' = Deleted
  /\ proc' = [proc EXCEPT ![p] = [Idle EXCEPT !.at = "bootstrap", !.own = exe, !.image = "exe"]]
  /\ UNCHANGED <<server, exe, content, history>>

-------------------------------------------------------------------------------
(* The content: Updater_RunUpdate.                                           *)

\* GetCache's version of a cache that is not in the file is 0
Outdated == {c \in Caches : versions.is = "none" \/ versions.of[c] # release[c]}

\* what a file that was cut says of a cache is anything: Parse leaves a version
\* that is not there uninitialized
Readings == IF versions.is = "cut" THEN SUBSET Caches ELSE {Outdated}

\* caches.xml from the server and from the disk, where it must not be empty
FetchCaches(p) ==
  /\ At(p, {"update"}) /\ versions.is # "empty"
  /\ \E outdated \in Readings :
       /\ IF outdated = {} THEN Goes(p, "game")
          ELSE proc' = [proc EXCEPT ![p].want = release, ![p].needs = outdated, ![p].at = "manifests"]
       /\ together' = (together \/ (outdated # {} /\ \E q \in Others(p) : At(q, Updating)))
  /\ cut' = (cut \/ versions.is = "cut")
  /\ UNCHANGED <<server, program, content, short, rivals>>

\* the first files of info.xml, of the release it is for
Entries(c, n) == [i \in 1..n |-> [cache |-> c, name |-> Manifest[c][i], hash |-> release[c]]]

\* info.xml, of which only a part may come: its result is not looked at
FetchManifest(p) ==
  /\ At(p, {"manifests"})
  /\ \E c \in proc[p].needs : \E n \in 0..Len(Manifest[c]) :
       /\ proc' = [proc EXCEPT ![p].needs = @ \ {c},
                               ![p].files = @ \o Entries(c, n),
                               ![p].at = IF proc[p].needs = {c} THEN "check" ELSE @]
       /\ cut' = (cut \/ n < Len(Manifest[c]))
  /\ UNCHANGED <<server, program, content, short, together, rivals>>

\* Mutant: a file that is there need not be fetched.
HasNot(file) == disk[file.name] = Missing

FileOutdated(file) == disk[file.name] # file.hash

\* all files before the first is fetched
Check(p) ==
  /\ At(p, {"check"})
  /\ proc' = [proc EXCEPT ![p].at = "download",
                          ![p].queue = {i \in DOMAIN proc[p].files : FileOutdated(proc[p].files[i])}]
  /\ UNCHANGED <<server, program, content, history>>

\* the first that is left
First(p) == Min(proc[p].queue)
Entry(p) == proc[p].files[First(p)]
File(p) == Entry(p).name

\* What comes of a file.  The range asked for is as long as the manifest says,
\* so only a part may come of another release
Brings(entry) ==
  {release[entry.cache]} \cup (IF release[entry.cache] = entry.hash THEN {} ELSE {Garbage})

\* DL_ProcessDownload opens the temporary file from its start, others may have
\* it open as well
Open(p) ==
  /\ At(p, {"download"}) /\ proc[p].queue # {}
  /\ LET f == File(p)
     IN  \E got \in Brings(Entry(p)) :
           /\ tmp' = [tmp EXCEPT ![f] = [opener |-> {p}, open |-> @.open \cup {p},
                                         releases |-> {got} \cup {proc[q].gets : q \in @.open}]]
           /\ proc' = [proc EXCEPT ![p].at = "transfer", ![p].gets = got]
  /\ UNCHANGED <<server, program, disk, versions, history>>

\* the transfer is done, and the file is closed; whether the disk took all that
\* was decompressed or still to be written is not looked at.  The old file goes
\* first
Transferred(p) ==
  /\ At(p, {"transfer"})
  /\ \E whole \in BOOLEAN :
       /\ proc' = [proc EXCEPT ![p].at = "erased", ![p].gets = IF whole THEN @ ELSE Garbage]
       /\ short' = IF whole THEN short ELSE short \cup {File(p)}
  /\ tmp' = [tmp EXCEPT ![File(p)].open = @ \ {p}]
  /\ disk' = [disk EXCEPT ![File(p)] = Missing]
  /\ UNCHANGED <<server, program, versions, cut, together, rivals>>

Movable(f) == tmp[f].opener # {} /\ tmp[f].open = {}

Place(p) ==
  /\ At(p, {"erased"}) /\ Movable(File(p))
  /\ LET f == File(p)
     IN  /\ disk' = [disk EXCEPT ![f] = IF tmp[f].opener = {p} /\ tmp[f].releases = {proc[p].gets}
                                        THEN proc[p].gets ELSE Garbage]
         /\ tmp' = [tmp EXCEPT ![f] = NoTmp]
         /\ proc' = [proc EXCEPT ![p].at = "download", ![p].queue = @ \ {First(p)}, ![p].gets = 0]
  /\ UNCHANGED <<server, program, versions, history>>

\* the transfer fails, or the file cannot be moved: the temporary file is
\* deleted, if nobody has it open, and the process ends
Fails(p) ==
  /\ At(p, {"transfer", "erased"})
  /\ LET f == File(p)
     IN  tmp' = [tmp EXCEPT ![f] = IF tmp[f].open \subseteq {p} THEN NoTmp ELSE [tmp[f] EXCEPT !.open = @ \ {p}]]
  /\ proc' = [proc EXCEPT ![p] = Idle]
  /\ UNCHANGED <<server, program, disk, versions, history>>

Done(p) ==
  proc' = [proc EXCEPT ![p].at = "game", ![p].want = Idle.want, ![p].files = <<>>, ![p].queue = {}]

\* everything is there: caches.xml is opened, which empties it ...
Record(p) ==
  /\ At(p, {"download"}) /\ proc[p].queue = {}
  /\ versions' = [versions EXCEPT !.is = "empty"]
  /\ Goes(p, "write")
  /\ UNCHANGED <<server, program, disk, tmp, history>>

\* ... unless it cannot be ...
NotRecorded(p) ==
  /\ At(p, {"download"}) /\ proc[p].queue = {}
  /\ Done(p)
  /\ UNCHANGED <<server, program, content, history>>

\* ... and written, whether the disk takes all of it or not
Write(p) ==
  /\ At(p, {"write"})
  /\ versions' \in {versions, [versions EXCEPT !.is = "cut"], [is |-> "written", of |-> proc[p].want]}
  /\ Done(p)
  /\ UNCHANGED <<server, program, disk, tmp, history>>

\* what a process cannot do, it ends on
Broken(p) ==
  \/ At(p, {"move"}) /\ (exe = Missing \/ old # Missing)
  \/ At(p, {"copy"}) /\ exe # Missing
  \/ At(p, {"clean"}) /\ ~Valid(exe)
  \/ At(p, {"update"}) /\ versions.is \in {"empty", "cut"}

Step(p) ==
  \/ DoBootstrap(p) \/ UpdateEXE(p)
  \/ Opened(p) \/ DeleteOld(p) \/ MoveAway(p) \/ Copy(p) \/ Clean(p)
  \/ FetchCaches(p) \/ FetchManifest(p) \/ Check(p)
  \/ Open(p) \/ Transferred(p) \/ Place(p) \/ Fails(p)
  \/ Record(p) \/ NotRecorded(p) \/ Write(p)
  \/ Broken(p) /\ Exit(p)

Next == Publish \/ \E p \in Procs : Launch(p) \/ Step(p) \/ Exit(p)

Spec == Init /\ [][Next]_vars

\* An instance goes on until it ends; nobody has to start one.
FairSpec == Spec /\ \A p \in Procs : WF_vars(Step(p))

-------------------------------------------------------------------------------
\* A cache that caches.xml says is up to date, so that no update will ever look
\* at its files again, has all files of that release, wherever earlier updates
\* ended and whatever was released meanwhile: but for files the disk did not
\* take whole (short), and unless a manifest or caches.xml was read in part
\* (cut), or two instances updated at once (together).
RecordedIsThere ==
  cut \/ together \/ versions.is # "written" \/
    \A c \in Caches : versions.of[c] = release[c] =>
      \A f \in Range(Manifest[c]) \ short : disk[f] = release[c]

\* However often replacing the executable is cut off, there is an old one or a
\* new one, if no other instance runs meanwhile.
ExeKept == rivals \/ Valid(exe) \/ Valid(old)

\* An instance gets to the game or ends; it does not go on updating itself, and
\* waits for nothing but others to leave the executable alone.
Settles ==
  \A p \in Procs : ~At(p, {"off"}) ~> At(p, {"off", "game"}) \/ (At(p, {"replace"}) /\ Holds("exe"))
===============================================================================
