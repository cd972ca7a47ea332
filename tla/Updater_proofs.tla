---------------------------- MODULE Updater_proofs ----------------------------
(***************************************************************************)
(* Proofs about Updater, for any number of instances, caches, files and    *)
(* releases: however often replacing the executable is cut off, one that   *)
(* runs is left; and what caches.xml says is up to date is there.          *)
(*                                                                         *)
(* ExeKept alone is not inductive: that MoveAway moves a good executable   *)
(* rests on there having been one since it was opened, and that on no      *)
(* other instance touching it, which is what rivals records.               *)
(*                                                                         *)
(* Nor is RecordedIsThere: it rests on what the instance that updates will *)
(* have done by the time it records (Plan), and that on its touching only  *)
(* files of caches that are not recorded as up to date.                    *)
(***************************************************************************)
EXTENDS Updater, SequenceTheorems, FiniteSetTheorems, TLAPS

\* what an instance is, as far as the executable goes
ProcOK ==
  /\ proc = [p \in Procs |-> proc[p]]
  /\ \A p \in Procs : {"at", "own"} \subseteq DOMAIN proc[p]

NumbersOK ==
  /\ exeRelease \in Nat \ {0} /\ exe \in Int /\ old \in Int
  /\ \A p \in Procs : At(p, {"off"}) \/ proc[p].own \in Nat \ {0}

\* who replaces the executable is the only instance
Alone == \A p \in Procs : At(p, Replacing) => Others(p) = {}

\* while an instance runs the executable is good, or moved away and not copied
ExeThere == \A p \in Procs : At(p, {"off"}) \/ (IF At(p, {"copy"}) THEN Valid(old) ELSE Valid(exe))

ExeInv == ProcOK /\ NumbersOK /\ (rivals \/ (Alone /\ ExeThere)) /\ ExeKept

\* one instance goes to a place, and is now of a version
Moves(p, place, version) ==
  /\ ProcOK'
  /\ \A q \in Procs :
       /\ proc'[q].at = IF q = p THEN place ELSE proc[q].at
       /\ proc'[q].own = IF q = p THEN version ELSE proc[q].own

\* the steps of an instance that leave the executable alone
Proceeds(p) ==
  \E place \in {"fetch", "update", "game"} \cup Updating :
    Moves(p, place, proc[p].own) /\ ~At(p, {"off"} \cup Replacing)

\* what the steps of Updater do to the executable and to who may replace it
ExeStep(p) ==
  \/ /\ Proceeds(p) /\ UNCHANGED <<exeRelease, exe, old, rivals>>
  \/ /\ Moves(p, "off", 0) /\ UNCHANGED <<exeRelease, exe, old, rivals>>
  \/ /\ At(p, {"off"}) /\ Valid(exe) /\ Moves(p, "bootstrap", exe)
     /\ rivals' = (rivals \/ \E q \in Procs : At(q, Replacing))
     /\ UNCHANGED <<exeRelease, exe, old>>
  \/ /\ At(p, {"fetch"}) /\ Moves(p, "replace", exeRelease)
     /\ rivals' = (rivals \/ Others(p) # {})
     /\ UNCHANGED <<exeRelease, exe, old>>
  \/ /\ At(p, {"replace"}) /\ Moves(p, "delete", proc[p].own)
     /\ exe' = IF exe = Missing THEN Garbage ELSE exe
     /\ UNCHANGED <<exeRelease, old, rivals>>
  \/ /\ At(p, {"delete"}) /\ Moves(p, "move", proc[p].own)
     /\ old' \in {old, Missing}
     /\ UNCHANGED <<exeRelease, exe, rivals>>
  \/ /\ At(p, {"move"}) /\ Moves(p, "copy", proc[p].own)
     /\ old' = exe /\ exe' = Missing
     /\ UNCHANGED <<exeRelease, rivals>>
  \/ /\ At(p, {"copy"}) /\ Moves(p, "clean", proc[p].own)
     /\ exe' = proc[p].own
     /\ UNCHANGED <<exeRelease, old, rivals>>
  \/ /\ At(p, {"clean"}) /\ Valid(exe) /\ Moves(p, "bootstrap", exe)
     /\ old' \in {old, Missing}
     /\ UNCHANGED <<exeRelease, exe, rivals>>

-------------------------------------------------------------------------------

\* Exits and the starts of programs make an instance anew.
LEMMA MadeAnew ==
  ASSUME ProcOK, NEW p \in Procs, NEW place, NEW version, NEW image,
         proc' = [proc EXCEPT ![p] = [Idle EXCEPT !.at = place, !.own = version, !.image = image]]
  PROVE  Moves(p, place, version)
  BY DEF ProcOK, Moves, Idle

\* Every step of an instance is a step as above.
LEMMA StepsOfExe ==
  ASSUME ProcOK, NEW p \in Procs, Launch(p) \/ Step(p) \/ Exit(p)
  PROVE  ExeStep(p)
<1>1. ASSUME Exit(p) PROVE ExeStep(p)
  <2>1. Moves(p, "off", 0)
    BY <1>1 DEF Exit, ProcOK, Moves, Idle
  <2> QED
    BY <1>1, <2>1 DEF Exit, ExeStep, server, program, history
<1>2. CASE Launch(p)
  <2>1. Moves(p, "bootstrap", exe)
    BY <1>2, MadeAnew DEF Launch
  <2> QED
    BY <1>2, <2>1 DEF Launch, ExeStep, server, program
<1>3. ASSUME NEW place \in {"fetch", "update", "game"} \cup Updating, Goes(p, place),
             ~At(p, {"off"} \cup Replacing), UNCHANGED <<exeRelease, exe, old, rivals>>
      PROVE  ExeStep(p)
  <2>1. Moves(p, place, proc[p].own)
    BY <1>3 DEF Goes, ProcOK, Moves
  <2> QED
    BY <1>3, <2>1 DEF ExeStep, Proceeds
<1>4. CASE DoBootstrap(p)
  BY <1>3, <1>4 DEF DoBootstrap, At, Replacing, server, program, history
<1>5. CASE UpdateEXE(p)
  <2>1. Moves(p, "replace", exeRelease)
    BY <1>5 DEF UpdateEXE, ProcOK, Moves
  <2> QED
    BY <1>5, <2>1 DEF UpdateEXE, ExeStep, server, program
<1>6. CASE Opened(p)
  <2>1. Moves(p, "delete", proc[p].own)
    BY <1>6 DEF Opened, Goes, ProcOK, Moves
  <2> QED
    BY <1>6, <2>1 DEF Opened, ExeStep, server, history
<1>7. CASE DeleteOld(p)
  <2>1. Moves(p, "move", proc[p].own)
    BY <1>7 DEF DeleteOld, Goes, ProcOK, Moves
  <2> QED
    BY <1>7, <2>1 DEF DeleteOld, Deleted, ExeStep, server, history
<1>8. CASE MoveAway(p)
  <2>1. Moves(p, "copy", proc[p].own)
    BY <1>8 DEF MoveAway, ProcOK, Moves
  <2> QED
    BY <1>8, <2>1 DEF MoveAway, ExeStep, server, history
<1>9. CASE Copy(p)
  <2>1. Moves(p, "clean", proc[p].own)
    BY <1>9 DEF Copy, Goes, ProcOK, Moves
  <2> QED
    BY <1>9, <2>1 DEF Copy, ExeStep, server, history
<1>10. CASE Clean(p)
  <2>1. Moves(p, "bootstrap", exe)
    BY <1>10, MadeAnew DEF Clean
  <2> QED
    BY <1>10, <2>1 DEF Clean, Deleted, ExeStep, server, history
<1>11. CASE FetchCaches(p)
  <2>0. PICK outdated \in Readings :
          IF outdated = {} THEN Goes(p, "game")
          ELSE proc' = [proc EXCEPT ![p].want = release, ![p].needs = outdated, ![p].at = "manifests"]
    BY <1>11 DEF FetchCaches
  <2>1. \E place \in {"game", "manifests"} : Moves(p, place, proc[p].own)
    BY <2>0 DEF Goes, ProcOK, Moves
  <2> QED
    BY <1>11, <2>1 DEF FetchCaches, ExeStep, Proceeds, Updating, At, Replacing, server, program
<1>12. CASE FetchManifest(p)
  <2>0. PICK c \in proc[p].needs :
          \E n \in 0..Len(Manifest[c]) :
            proc' = [proc EXCEPT ![p].needs = @ \ {c},
                                 ![p].files = @ \o Entries(c, n),
                                 ![p].at = IF proc[p].needs = {c} THEN "check" ELSE @]
    BY <1>12 DEF FetchManifest
  <2>1. \E place \in {"check", proc[p].at} : Moves(p, place, proc[p].own)
    <3>1. PICK n \in 0..Len(Manifest[c]) :
            proc' = [proc EXCEPT ![p].needs = @ \ {c},
                                 ![p].files = @ \o Entries(c, n),
                                 ![p].at = IF proc[p].needs = {c} THEN "check" ELSE @]
      BY <2>0
    <3> DEFINE place == IF proc[p].needs = {c} THEN "check" ELSE proc[p].at
               needs == proc[p].needs \ {c}
               files == proc[p].files \o Entries(c, n)
    <3>2. proc' = [proc EXCEPT ![p].needs = needs, ![p].files = files, ![p].at = place]
      BY <3>1, Zenon
    <3>3. place \in {"check", proc[p].at}
      OBVIOUS
    <3> HIDE DEF place, needs, files
    <3>4. Moves(p, place, proc[p].own)
      BY <3>2 DEF ProcOK, Moves
    <3> QED
      BY <3>3, <3>4
  <2> QED
    BY <1>12, <2>1 DEF FetchManifest, ExeStep, Proceeds, Updating, At, Replacing, server, program
<1>13. CASE Check(p)
  <2>1. Moves(p, "download", proc[p].own)
    BY <1>13 DEF Check, ProcOK, Moves
  <2> QED
    BY <1>13, <2>1 DEF Check, ExeStep, Proceeds, Updating, At, Replacing, server, program, history
<1>14. CASE Open(p)
  <2>1. PICK got \in Brings(Entry(p)) : proc' = [proc EXCEPT ![p].at = "transfer", ![p].gets = got]
    BY <1>14 DEF Open
  <2>2. Moves(p, "transfer", proc[p].own)
    BY <2>1 DEF ProcOK, Moves
  <2> QED
    BY <1>14, <2>2 DEF Open, ExeStep, Proceeds, Updating, At, Replacing, server, program, history
<1>15. CASE Transferred(p)
  <2>1. PICK whole \in BOOLEAN :
          proc' = [proc EXCEPT ![p].at = "erased", ![p].gets = IF whole THEN @ ELSE Garbage]
    BY <1>15 DEF Transferred
  <2>2. Moves(p, "erased", proc[p].own)
    BY <2>1 DEF ProcOK, Moves
  <2> QED
    BY <1>15, <2>2 DEF Transferred, ExeStep, Proceeds, Updating, At, Replacing, server, program
<1>16. CASE Place(p)
  <2>1. Moves(p, "download", proc[p].own)
    BY <1>16 DEF Place, ProcOK, Moves
  <2> QED
    BY <1>16, <2>1 DEF Place, ExeStep, Proceeds, Updating, At, Replacing, server, program, history
<1>17. CASE Record(p)
  BY <1>3, <1>17 DEF Record, At, Updating, Replacing, server, program, history
<1>18. CASE Write(p)
  <2>1. Moves(p, "game", proc[p].own)
    BY <1>18 DEF Write, Done, ProcOK, Moves
  <2> QED
    BY <1>18, <2>1 DEF Write, ExeStep, Proceeds, Updating, At, Replacing, server, program, history
<1>19. CASE NotRecorded(p)
  <2>1. Moves(p, "game", proc[p].own)
    BY <1>19 DEF NotRecorded, Done, ProcOK, Moves
  <2> QED
    BY <1>19, <2>1 DEF NotRecorded, ExeStep, Proceeds, Updating, At, Replacing, server, program, history
<1>20. CASE Fails(p)
  <2>1. Moves(p, "off", 0)
    BY <1>20 DEF Fails, ProcOK, Moves, Idle
  <2> QED
    BY <1>20, <2>1 DEF Fails, ExeStep, server, program, history
<1> QED
  BY <1>1, <1>2, <1>4, <1>5, <1>6, <1>7, <1>8, <1>9, <1>10, <1>11, <1>12, <1>13, <1>14,
     <1>15, <1>16, <1>17, <1>18, <1>19, <1>20 DEF Step

-------------------------------------------------------------------------------

\* No instance runs to begin with, and there is an executable.
LEMMA ExeInitInv ==
  ASSUME Init
  PROVE  ExeInv
<1>1. ProcOK
  BY DEF Init, ProcOK, Idle
<1>2. \A p \in Procs : proc[p].at = "off"
  BY DEF Init, Idle
<1>3. NumbersOK
  BY <1>2, SMT DEF Init, NumbersOK, At, Missing
<1>4. Alone /\ ExeThere
  BY <1>2 DEF Alone, ExeThere, At, Replacing
<1>5. ExeKept
  BY DEF Init, ExeKept, Valid, Garbage
<1> QED
  BY <1>1, <1>3, <1>4, <1>5 DEF ExeInv

\* The numbers keep their types, whoever moves.
LEMMA NumbersKept ==
  ASSUME ExeInv, NEW p \in Procs, ExeStep(p)
  PROVE  NumbersOK'
<1>1. NumbersOK
  BY DEF ExeInv
<1>2. exeRelease' = exeRelease /\ exe' \in Int /\ old' \in Int
  BY <1>1 DEF ExeStep, NumbersOK, Missing, Garbage, At
<1>3. \E place, version :
        /\ Moves(p, place, version)
        /\ place = "off" \/ version \in Nat \ {0}
  BY <1>1 DEF ExeStep, Proceeds, NumbersOK, Valid, Garbage, At, Replacing
<1>4. \A q \in Procs : At(q, {"off"})' \/ proc'[q].own \in Nat \ {0}
  BY <1>1, <1>3 DEF NumbersOK, Moves, At
<1> QED
  BY <1>1, <1>2, <1>4 DEF NumbersOK

\* Who is alone stays alone until rivals says otherwise, and keeps an
\* executable meanwhile.
LEMMA ExeStepInv ==
  ASSUME ExeInv, NEW p \in Procs, ExeStep(p)
  PROVE  ExeInv'
<1>0. ProcOK /\ NumbersOK /\ NumbersOK'
  BY NumbersKept DEF ExeInv
<1>1. ProcOK'
  BY DEF ExeStep, Proceeds, Moves
<1>2. rivals => rivals'
  BY DEF ExeStep
<1> SUFFICES ASSUME ~rivals', ~rivals
             PROVE  Alone' /\ ExeThere' /\ ExeKept'
  BY <1>0, <1>1, <1>2 DEF ExeInv, ExeKept
<1>3. Alone /\ ExeThere /\ (Valid(exe) \/ Valid(old))
  BY DEF ExeInv, ExeKept
<1>4. ASSUME NEW place, NEW version, Moves(p, place, version), At(p, Replacing) \/ Others(p) = {},
             IF place = "copy" THEN Valid(old') ELSE Valid(exe')
      PROVE  Alone' /\ ExeThere' /\ ExeKept'
  <2>1. \A q \in Procs \ {p} : proc[q].at = "off" /\ proc'[q].at = "off"
    BY <1>3, <1>4 DEF Alone, Others, At, Moves
  <2>2. proc'[p].at = place
    BY <1>4 DEF Moves
  <2>3. Others(p)' = {}
    BY <2>1 DEF Others, At
  <2>4. Alone'
    BY <2>1, <2>3 DEF Alone, At, Replacing
  <2>5. ExeThere' /\ ExeKept'
    BY <1>4, <2>1, <2>2 DEF ExeThere, ExeKept, At
  <2> QED
    BY <2>4, <2>5
<1>5. ASSUME NEW place, NEW version, Moves(p, place, version), place \notin Replacing,
             place = "off" \/ ((At(p, {"off"}) => \A q \in Procs : ~At(q, Replacing)) /\ Valid(exe)),
             UNCHANGED <<exe, old>>
      PROVE  Alone' /\ ExeThere' /\ ExeKept'
  <2>1. \A q \in Procs \ {p} : proc'[q].at = proc[q].at
    BY <1>5 DEF Moves
  <2>2. proc'[p].at = place /\ place # "copy"
    BY <1>5 DEF Moves, Replacing
  <2>3. ASSUME NEW q \in Procs, At(q, Replacing)' PROVE Others(q)' = {}
    <3>1. q # p /\ At(q, Replacing)
      BY <1>5, <2>1, <2>2, <2>3 DEF At
    <3>2. Others(q) = {}
      BY <1>3, <3>1 DEF Alone
    <3>3. At(p, {"off"})
      BY <3>1, <3>2 DEF Others
    <3>4. place = "off"
      BY <1>5, <3>1, <3>3
    <3> QED
      BY <2>1, <2>2, <3>2, <3>4 DEF Others, At
  <2>4. Alone'
    BY <2>3 DEF Alone
  <2>5. ExeThere' /\ ExeKept'
    BY <1>3, <1>5, <2>1, <2>2 DEF ExeThere, ExeKept, At, Valid
  <2> QED
    BY <2>4, <2>5
<1>6. CASE /\ Proceeds(p) /\ UNCHANGED <<exeRelease, exe, old, rivals>>
  <2>1. Valid(exe)
    BY <1>3, <1>6 DEF Proceeds, ExeThere, At, Replacing
  <2> QED
    BY <1>5, <1>6, <2>1 DEF Proceeds, At, Replacing, Updating
<1>7. CASE /\ Moves(p, "off", 0) /\ UNCHANGED <<exeRelease, exe, old, rivals>>
  BY <1>5, <1>7 DEF Replacing
<1>8. CASE /\ At(p, {"off"}) /\ Valid(exe) /\ Moves(p, "bootstrap", exe)
           /\ rivals' = (rivals \/ \E q \in Procs : At(q, Replacing))
           /\ UNCHANGED <<exeRelease, exe, old>>
  BY <1>5, <1>8 DEF Replacing
<1>9. CASE /\ At(p, {"fetch"}) /\ Moves(p, "replace", exeRelease)
           /\ rivals' = (rivals \/ Others(p) # {})
           /\ UNCHANGED <<exeRelease, exe, old>>
  <2>1. Others(p) = {} /\ Valid(exe')
    BY <1>3, <1>9 DEF ExeThere, At, Valid
  <2> QED
    BY <1>4, <1>9, <2>1
<1>10. CASE /\ At(p, {"replace"}) /\ Moves(p, "delete", proc[p].own)
            /\ exe' = IF exe = Missing THEN Garbage ELSE exe
            /\ UNCHANGED <<exeRelease, old, rivals>>
  <2>1. Valid(exe')
    BY <1>3, <1>10 DEF ExeThere, At, Valid, Missing, Garbage
  <2> QED
    BY <1>4, <1>10, <2>1 DEF At, Replacing
<1>11. CASE /\ At(p, {"delete"}) /\ Moves(p, "move", proc[p].own)
            /\ old' \in {old, Missing}
            /\ UNCHANGED <<exeRelease, exe, rivals>>
  <2>1. Valid(exe')
    BY <1>3, <1>11 DEF ExeThere, At, Valid
  <2> QED
    BY <1>4, <1>11, <2>1 DEF At, Replacing
<1>12. CASE /\ At(p, {"move"}) /\ Moves(p, "copy", proc[p].own)
            /\ old' = exe /\ exe' = Missing
            /\ UNCHANGED <<exeRelease, rivals>>
  <2>1. Valid(old')
    BY <1>3, <1>12 DEF ExeThere, At, Valid
  <2> QED
    BY <1>4, <1>12, <2>1 DEF At, Replacing
<1>13. CASE /\ At(p, {"copy"}) /\ Moves(p, "clean", proc[p].own)
            /\ exe' = proc[p].own
            /\ UNCHANGED <<exeRelease, old, rivals>>
  <2>1. Valid(exe')
    BY <1>0, <1>13 DEF NumbersOK, At, Valid, Garbage
  <2> QED
    BY <1>4, <1>13, <2>1 DEF At, Replacing
<1>14. CASE /\ At(p, {"clean"}) /\ Valid(exe) /\ Moves(p, "bootstrap", exe)
            /\ old' \in {old, Missing}
            /\ UNCHANGED <<exeRelease, exe, rivals>>
  <2>1. Valid(exe')
    BY <1>14 DEF Valid
  <2> QED
    BY <1>4, <1>14, <2>1 DEF At, Replacing
<1> QED
  BY <1>6, <1>7, <1>8, <1>9, <1>10, <1>11, <1>12, <1>13, <1>14 DEF ExeStep

\* Nor does a release, which is made on the server.
LEMMA PublishInv ==
  ASSUME ExeInv, Publish
  PROVE  ExeInv'
<1>1. UNCHANGED <<exe, old, proc, rivals>>
  BY DEF Publish, program, history
<1>2. exeRelease' \in {exeRelease, exeRelease + 1}
  BY DEF Publish
<1>3. NumbersOK'
  BY <1>1, <1>2 DEF ExeInv, NumbersOK, At
<1>4. ProcOK' /\ (rivals \/ (Alone /\ ExeThere))' /\ ExeKept'
  BY <1>1 DEF ExeInv, ProcOK, Alone, ExeThere, ExeKept, At, Others, Valid
<1> QED
  BY <1>3, <1>4 DEF ExeInv

LEMMA ExeInvariant == Spec => []ExeInv
<1>1. Init => ExeInv
  BY ExeInitInv
<1>2. ExeInv /\ [Next]_vars => ExeInv'
  <2> SUFFICES ASSUME ExeInv, [Next]_vars PROVE ExeInv'
    OBVIOUS
  <2>1. CASE Publish
    BY <2>1, PublishInv
  <2>2. ASSUME NEW p \in Procs, Launch(p) \/ Step(p) \/ Exit(p) PROVE ExeInv'
    <3>1. ExeStep(p)
      BY <2>2, StepsOfExe DEF ExeInv
    <3> QED
      BY <3>1, ExeStepInv
  <2>3. CASE UNCHANGED vars
    BY <2>3 DEF vars, server, program, history, ExeInv, ProcOK, NumbersOK, Alone, ExeThere, ExeKept,
                At, Others, Valid
  <2> QED
    BY <2>1, <2>2, <2>3 DEF Next
<1> QED
  BY <1>1, <1>2, PTL DEF Spec

\* Bootstrap_ReplaceExecutable leaves a program that runs, the old or the new
\* one, at whichever step it is cut off and however often it is tried again,
\* as long as no other instance runs meanwhile.
THEOREM ExecutableKept == Spec => []ExeKept
<1>1. ExeInv => ExeKept
  BY DEF ExeInv
<1> QED
  BY <1>1, ExeInvariant, PTL

-------------------------------------------------------------------------------
(* The content.                                                              *)

\* a file is in one cache, whose release says which content it has
OwnFiles == \A c, d \in Caches : Range(Manifest[c]) \cap Range(Manifest[d]) # {} => c = d

FileEntries == [cache : Caches, name : Files, hash : Nat]

Fields == {"at", "want", "needs", "files", "queue", "gets"}

\* what an instance is, and what it has of an update
InstanceOK(p) ==
  /\ Fields \subseteq DOMAIN proc[p]
  /\ proc[p].want \in [Caches -> Nat] /\ \A c \in Caches : proc[p].want[c] <= release[c]
  /\ proc[p].needs \subseteq Caches
  /\ proc[p].files \in Seq(FileEntries) /\ proc[p].queue \subseteq DOMAIN proc[p].files
  /\ proc[p].gets \in Nat
  /\ At(p, Updating) \/ proc[p].files = <<>>

InstancesOK == proc = [p \in Procs |-> proc[p]] /\ \A p \in Procs : InstanceOK(p)

TmpOK == tmp = [f \in Files |-> tmp[f]] /\ \A f \in Files : {"opener", "open", "releases"} \subseteq DOMAIN tmp[f]

\* what is on disk and at the server; what is recorded has been released
ContentOK ==
  /\ release \in [Caches -> Nat] /\ disk \in [Files -> Int]
  /\ versions \in [is : {"none", "empty", "cut", "written"}, of : [Caches -> Nat]]
  /\ \A c \in Caches : versions.of[c] <= release[c]
  /\ cut \in BOOLEAN /\ together \in BOOLEAN

\* caches.xml does not say that the cache is up to date
Behind(c) == versions.is # "written" \/ versions.of[c] < release[c]

\* the files an instance will look at, or has found to be others
Left(p) == IF At(p, {"manifests", "check"}) THEN Range(proc[p].files)
           ELSE {proc[p].files[i] : i \in proc[p].queue}

\* what an instance is about to record will be there: it has the manifest to
\* come, or each file that is not in place is still to be fetched
WillBeThere(p, c) ==
  \/ c \in proc[p].needs
  \/ \A f \in Range(Manifest[c]) \ short : disk[f] = release[c] \/ \E e \in Left(p) : e.cache = c /\ e.name = f

\* it fetches a file into a temporary file of its own, of a release no older
\* than what it will record; or not the whole file, if there is a newer release
\* or the disk did not take it
Fetches(p) ==
  LET cache == Entry(p).cache
  IN  /\ proc[p].queue # {}
      /\ \/ proc[p].gets = Garbage /\ (proc[p].want[cache] # release[cache] \/ File(p) \in short)
         \/ /\ proc[p].want[cache] <= proc[p].gets /\ proc[p].gets <= release[cache]
            /\ tmp[File(p)].opener = {p} /\ tmp[File(p)].releases = {proc[p].gets}

\* it only touches files of caches that are not recorded as up to date
Plan(p) ==
  /\ \A c \in proc[p].needs : At(p, {"manifests"}) /\ Behind(c)
  /\ \A e \in Range(proc[p].files) :
       /\ e.name \in Range(Manifest[e.cache]) /\ Behind(e.cache)
       /\ proc[p].want[e.cache] <= e.hash /\ e.hash <= release[e.cache]
  /\ At(p, {"transfer", "erased"}) => Fetches(p)
  /\ At(p, {"write"}) => versions.is = "empty" /\ proc[p].queue = {}
  /\ ~cut => \A c \in Caches : proc[p].want[c] = release[c] => WillBeThere(p, c)

\* temporary files are open only where they are written
OpenOnce == \A f \in Files : \A q \in tmp[f].open : q \in Procs /\ At(q, {"transfer"}) /\ File(q) = f

OneUpdates == \A p, q \in Procs : At(p, Updating) /\ At(q, Updating) => p = q

Orderly == OneUpdates /\ OpenOnce /\ \A p \in Procs : At(p, Updating) => Plan(p)

UpdateInv == InstancesOK /\ TmpOK /\ ContentOK /\ (together \/ (Orderly /\ RecordedIsThere))

-------------------------------------------------------------------------------

\* what an instance has is what it had
Same(p) ==
  /\ proc'[p].want = proc[p].want /\ proc'[p].needs = proc[p].needs /\ proc'[p].files = proc[p].files
  /\ proc'[p].queue = proc[p].queue /\ proc'[p].gets = proc[p].gets

\* ... or it has nothing any more
Anew(p) ==
  /\ proc'[p].want = Idle.want /\ proc'[p].needs = {} /\ proc'[p].files = <<>>
  /\ proc'[p].queue = {} /\ proc'[p].gets = 0

OthersSame(p) ==
  /\ proc' = [q \in Procs |-> proc'[q]] /\ \A q \in Procs : Fields \subseteq DOMAIN proc'[q]
  /\ \A q \in Procs \ {p} : proc'[q].at = proc[q].at /\ Same(q)

Contents == <<release, versions, disk, short, together>>

\* the steps that have nothing to do with the content, and the end of an instance
Quiet(p) ==
  /\ OthersSame(p) /\ ~At(p, Updating)' /\ (Anew(p) \/ (~At(p, Updating) /\ Same(p)))
  /\ UNCHANGED Contents /\ cut' \in {cut, TRUE} /\ TmpOK'
  /\ \A f \in Files : /\ \/ At(p, Updating)
                         \/ tmp'[f].opener = tmp[f].opener /\ tmp'[f].releases = tmp[f].releases
                      /\ tmp'[f].open \subseteq tmp[f].open
                      /\ At(p, {"transfer"}) /\ f = File(p) => p \notin tmp'[f].open

\* Some caches are found out of date.
FindsOutdated(p, outdated) ==
  /\ At(p, {"update"}) /\ versions.is # "empty" /\ outdated # {}
  /\ versions.is = "cut" \/ outdated = Outdated
  /\ outdated \subseteq Caches
  /\ proc' = [proc EXCEPT ![p].want = release, ![p].needs = outdated, ![p].at = "manifests"]
  /\ together' = (together \/ \E q \in Others(p) : At(q, Updating))
  /\ cut' = (cut \/ versions.is = "cut")
  /\ UNCHANGED <<release, versions, disk, tmp, short>>

ContentStep(p) ==
  \/ Quiet(p)
  \/ \E outdated : FindsOutdated(p, outdated)
  \/ FetchManifest(p) \/ Check(p) \/ Open(p) \/ Transferred(p) \/ Place(p) \/ Record(p) \/ NotRecorded(p) \/ Write(p)

\* Every step of an instance is a step as above.
LEMMA StepsOfContent ==
  ASSUME InstancesOK, TmpOK, ContentOK, NEW p \in Procs, Launch(p) \/ Step(p) \/ Exit(p)
  PROVE  ContentStep(p)
<1>0. /\ proc = [q \in Procs |-> proc[q]] /\ \A q \in Procs : Fields \subseteq DOMAIN proc[q]
      /\ tmp = [f \in Files |-> tmp[f]] /\ \A f \in Files : {"opener", "open", "releases"} \subseteq DOMAIN tmp[f]
  BY DEF InstancesOK, InstanceOK, TmpOK
<1>1. ASSUME Exit(p) PROVE Quiet(p)
  <2>1. OthersSame(p) /\ ~At(p, Updating)' /\ Anew(p)
    BY <1>0, <1>1 DEF Exit, Idle, OthersSame, Same, Anew, Fields, At, Updating
  <2>2. TmpOK' /\ \A f \in Files : /\ tmp'[f].opener = tmp[f].opener /\ tmp'[f].releases = tmp[f].releases
                                   /\ tmp'[f].open = tmp[f].open \ {p}
    BY <1>0, <1>1 DEF Exit, TmpOK
  <2> QED BY <1>1, <2>1, <2>2 DEF Exit, Quiet, Contents, server, history
<1>2. ASSUME OthersSame(p), ~At(p, Updating)', ~At(p, Updating), Same(p) \/ Anew(p),
             UNCHANGED <<release, versions, disk, tmp, short, together>>, cut' \in {cut, TRUE}
      PROVE  ContentStep(p)
  BY <1>0, <1>2 DEF Quiet, Contents, TmpOK, At, Updating, ContentStep
<1>3. ASSUME NEW place, Goes(p, place), place \notin Updating
      PROVE  OthersSame(p) /\ ~At(p, Updating)' /\ Same(p)
  BY <1>0, <1>3 DEF Goes, OthersSame, Same, Fields, At
<1>4. CASE Launch(p)
  <2>1. OthersSame(p) /\ ~At(p, Updating)' /\ ~At(p, Updating) /\ Anew(p)
    BY <1>0, <1>4 DEF Launch, Idle, OthersSame, Same, Anew, Fields, At, Updating
  <2> QED BY <1>2, <1>4, <2>1 DEF Launch, server, content
<1>5. CASE DoBootstrap(p)
  <2>1. OthersSame(p) /\ ~At(p, Updating)' /\ ~At(p, Updating) /\ Same(p)
    BY <1>3, <1>5 DEF DoBootstrap, At, Updating
  <2> QED BY <1>2, <1>5, <2>1 DEF DoBootstrap, server, content, history
<1>6. CASE UpdateEXE(p)
  <2>1. OthersSame(p) /\ ~At(p, Updating)' /\ ~At(p, Updating) /\ Same(p)
    BY <1>0, <1>6 DEF UpdateEXE, OthersSame, Same, Fields, At, Updating
  <2> QED BY <1>2, <1>6, <2>1 DEF UpdateEXE, server, content
<1>7. CASE Opened(p)
  <2>1. OthersSame(p) /\ ~At(p, Updating)' /\ ~At(p, Updating) /\ Same(p)
    BY <1>3, <1>7 DEF Opened, At, Updating
  <2> QED BY <1>2, <1>7, <2>1 DEF Opened, server, content, history
<1>8. CASE DeleteOld(p)
  <2>1. OthersSame(p) /\ ~At(p, Updating)' /\ ~At(p, Updating) /\ Same(p)
    BY <1>3, <1>8 DEF DeleteOld, At, Updating
  <2> QED BY <1>2, <1>8, <2>1 DEF DeleteOld, server, content, history
<1>9. CASE MoveAway(p)
  <2>1. OthersSame(p) /\ ~At(p, Updating)' /\ ~At(p, Updating) /\ Same(p)
    BY <1>0, <1>9 DEF MoveAway, OthersSame, Same, Fields, At, Updating
  <2> QED BY <1>2, <1>9, <2>1 DEF MoveAway, server, content, history
<1>10. CASE Copy(p)
  <2>1. OthersSame(p) /\ ~At(p, Updating)' /\ ~At(p, Updating) /\ Same(p)
    BY <1>3, <1>10 DEF Copy, At, Updating
  <2> QED BY <1>2, <1>10, <2>1 DEF Copy, server, content, history
<1>11. CASE Clean(p)
  <2>1. OthersSame(p) /\ ~At(p, Updating)' /\ ~At(p, Updating) /\ Anew(p)
    BY <1>0, <1>11 DEF Clean, Idle, OthersSame, Same, Anew, Fields, At, Updating
  <2> QED BY <1>2, <1>11, <2>1 DEF Clean, server, content, history
<1>12. CASE FetchCaches(p)
  <2>1. PICK outdated \in Readings :
          /\ IF outdated = {} THEN Goes(p, "game")
             ELSE proc' = [proc EXCEPT ![p].want = release, ![p].needs = outdated, ![p].at = "manifests"]
          /\ together' = (together \/ (outdated # {} /\ \E q \in Others(p) : At(q, Updating)))
    BY <1>12 DEF FetchCaches
  <2>2. /\ UNCHANGED <<release, versions, disk, tmp, short>> /\ cut' = (cut \/ versions.is = "cut")
        /\ At(p, {"update"}) /\ versions.is # "empty"
    BY <1>12 DEF FetchCaches, server, content
  <2>3. CASE outdated = {}
    <3>1. OthersSame(p) /\ ~At(p, Updating)' /\ ~At(p, Updating) /\ Same(p)
      BY <1>3, <2>1, <2>2, <2>3 DEF At, Updating
    <3>2. together' = together
      <4>1. together' = (together \/ FALSE)
        BY <2>1, <2>3
      <4> QED BY <4>1 DEF ContentOK
    <3>3. cut' \in {cut, TRUE}
      BY <2>2 DEF ContentOK
    <3> QED BY <1>2, <2>2, <3>1, <3>2, <3>3
  <2>4. CASE outdated # {}
    <3>1. (versions.is = "cut" \/ outdated = Outdated) /\ outdated \subseteq Caches
      BY DEF Readings, Outdated
    <3>2. together' = (together \/ \E q \in Others(p) : At(q, Updating))
      BY <2>1, <2>4
    <3>3. FindsOutdated(p, outdated)
      BY <2>1, <2>2, <2>4, <3>1, <3>2 DEF FindsOutdated
    <3> QED BY <3>3 DEF ContentStep
  <2> QED BY <2>3, <2>4
<1>13. CASE Broken(p) /\ Exit(p)
  BY <1>1, <1>13 DEF ContentStep
<1>14. CASE Fails(p)
  <2> DEFINE f == File(p)
  <2>1. OthersSame(p) /\ ~At(p, Updating)' /\ Anew(p) /\ At(p, Updating)
    BY <1>0, <1>14 DEF Fails, Idle, OthersSame, Same, Anew, Fields, At, Updating
  <2> DEFINE new == IF tmp[f].open \subseteq {p} THEN NoTmp ELSE [tmp[f] EXCEPT !.open = @ \ {p}]
  <2>2. tmp' = [tmp EXCEPT ![f] = new]
    BY <1>14 DEF Fails
  <2>3. ASSUME NEW g \in Files
        PROVE  /\ {"opener", "open", "releases"} \subseteq DOMAIN tmp'[g]
               /\ tmp'[g].open \subseteq tmp[g].open
               /\ g = f => p \notin tmp'[g].open
    <3>1. CASE g = f /\ tmp[f].open \subseteq {p}
      <4>1. tmp'[g] = NoTmp
        BY <1>0, <2>2, <3>1 DEF TmpOK
      <4> QED BY <4>1 DEF NoTmp
    <3>2. CASE g = f /\ ~(tmp[f].open \subseteq {p})
      <4>1. tmp'[f] = [tmp[f] EXCEPT !.open = @ \ {p}]
        <5>1. tmp'[f] = new
          <6> HIDE DEF new
          <6> QED BY <1>0, <2>2, <3>2 DEF TmpOK
        <5> QED BY <3>2, <5>1
      <4>2. {"opener", "open", "releases"} \subseteq DOMAIN tmp[f]
        BY <1>0, <3>2 DEF TmpOK
      <4>3. DOMAIN tmp'[f] = DOMAIN tmp[f] /\ tmp'[f].open = tmp[f].open \ {p}
        BY <4>1, <4>2
      <4> QED BY <3>2, <4>2, <4>3
    <3>3. CASE g # f
      <4>1. tmp'[g] = tmp[g]
        BY <1>0, <2>2, <3>3 DEF TmpOK
      <4> QED BY <1>0, <3>3, <4>1 DEF TmpOK
    <3> QED BY <3>1, <3>2, <3>3
  <2>4. TmpOK'
    BY <1>0, <2>2, <2>3 DEF TmpOK
  <2> QED BY <1>14, <2>1, <2>3, <2>4 DEF Fails, Quiet, Contents, server, history, ContentStep
<1> QED
  BY <1>1, <1>4, <1>5, <1>6, <1>7, <1>8, <1>9, <1>10, <1>11, <1>12, <1>13, <1>14 DEF Step, ContentStep

-------------------------------------------------------------------------------

\* To begin with there is nothing, and no instance.
LEMMA UpdateInitInv ==
  ASSUME Init
  PROVE  UpdateInv
<1>1. \A p \in Procs : proc[p] = Idle
  BY DEF Init
<1>2. InstancesOK
  <2>1. <<>> \in Seq(FileEntries)
    OBVIOUS
  <2>2. ASSUME NEW p \in Procs PROVE InstanceOK(p)
    <3>1. /\ Fields \subseteq DOMAIN proc[p] /\ proc[p].at = "off" /\ proc[p].want = [c \in Caches |-> 0]
          /\ proc[p].needs = {} /\ proc[p].files = <<>> /\ proc[p].queue = {} /\ proc[p].gets = 0
      BY <1>1 DEF Idle, Fields
    <3>2. \A c \in Caches : release[c] = 1
      BY DEF Init
    <3>3. proc[p].want \in [Caches -> Nat] /\ \A c \in Caches : proc[p].want[c] <= release[c]
      BY <3>1, <3>2
    <3> QED BY <2>1, <3>1, <3>3 DEF InstanceOK
  <2>3. proc = [p \in Procs |-> proc[p]]
    BY DEF Init
  <2> QED BY <2>2, <2>3 DEF InstancesOK
<1>3. TmpOK
  BY DEF Init, TmpOK, NoTmp
<1>4. ContentOK
  <2>1. release = [c \in Caches |-> 1] /\ versions.of = [c \in Caches |-> 0] /\ versions.is = "none"
    BY DEF Init
  <2>2. \A c \in Caches : versions.of[c] <= release[c]
    BY <2>1
  <2>3. versions \in [is : {"none", "empty", "cut", "written"}, of : [Caches -> Nat]]
    BY DEF Init
  <2>4. disk \in [Files -> Int]
    BY DEF Init, Missing
  <2>5. release \in [Caches -> Nat] /\ cut \in BOOLEAN /\ together \in BOOLEAN
    BY DEF Init
  <2> QED BY <2>1, <2>2, <2>3, <2>4, <2>5 DEF ContentOK
<1>5. \A p \in Procs : ~At(p, Updating)
  BY <1>1 DEF Idle, At, Updating
<1>6. OpenOnce
  BY DEF Init, OpenOnce, NoTmp
<1>7. Orderly
  BY <1>5, <1>6 DEF Orderly, OneUpdates
<1>8. RecordedIsThere
  BY DEF Init, RecordedIsThere
<1> QED BY <1>2, <1>3, <1>4, <1>7, <1>8 DEF UpdateInv

\* The first of what is left is one of what is left.
LEMMA FirstIsLeft ==
  ASSUME InstancesOK, NEW p \in Procs, proc[p].queue # {}
  PROVE  /\ First(p) \in proc[p].queue /\ First(p) \in DOMAIN proc[p].files
         /\ Entry(p) \in FileEntries /\ Entry(p) \in Range(proc[p].files)
<1> DEFINE I == proc[p].queue
<1>1. proc[p].files \in Seq(FileEntries) /\ I \subseteq DOMAIN proc[p].files
  BY DEF InstancesOK, InstanceOK
<1>2. I \subseteq Nat
  BY <1>1
<1>3. PICK x \in I : \A y \in I : ~(<<y, x>> \in OpToRel(<, Nat))
  <2>1. IsWellFoundedOn(OpToRel(<, Nat), Nat)
    BY NatLessThanWellFounded
  <2>2. I # {}
    OBVIOUS
  <2> HIDE DEF I
  <2> QED BY <1>2, <2>1, <2>2, WFMin, Zenon
<1>4. ASSUME NEW y \in I PROVE x <= y
  <2>1. x \in Nat /\ y \in Nat /\ ~(y < x)
    BY <1>2, <1>3 DEF OpToRel
  <2> QED BY <2>1
<1>5. Min(I) \in I
  BY <1>3, <1>4 DEF Min
<1> QED BY <1>1, <1>5 DEF First, Entry, Range

\* An instance that does not change is what it was.
LEMMA InstanceStays ==
  ASSUME InstancesOK, ContentOK, NEW q \in Procs, Fields \subseteq DOMAIN proc'[q], proc'[q].at = proc[q].at, Same(q),
         \A c \in Caches : release'[c] \in Nat /\ release[c] <= release'[c]
  PROVE  InstanceOK(q)'
<1>1. InstanceOK(q)
  BY DEF InstancesOK
<1>2. \A c \in Caches : proc'[q].want[c] <= release'[c]
  BY <1>1 DEF InstanceOK, ContentOK, Same
<1> QED BY <1>1, <1>2 DEF InstanceOK, Same, At

\* Instances are what they should be when the one that changes is.
LEMMA InstancesStay ==
  ASSUME InstancesOK, ContentOK, NEW p \in Procs, OthersSame(p), release' = release, InstanceOK(p)'
  PROVE  InstancesOK'
<1>1. \A c \in Caches : release'[c] \in Nat /\ release[c] <= release'[c]
  BY DEF ContentOK
<1>2. ASSUME NEW q \in Procs \ {p} PROVE InstanceOK(q)'
  BY <1>1, <1>2, InstanceStays DEF OthersSame
<1> QED BY <1>2 DEF InstancesOK, OthersSame

\* A plan stands as long as nothing it is about changes.
LEMMA PlanStays ==
  ASSUME InstancesOK, NEW q \in Procs, Plan(q), proc'[q].at = proc[q].at, Same(q), UNCHANGED Contents, cut => cut',
         \A f \in Files : tmp'[f].opener = tmp[f].opener /\ tmp'[f].releases = tmp[f].releases
  PROVE  Plan(q)'
<1>1. Entry(q)' = Entry(q) /\ Left(q)' = Left(q)
  BY DEF Entry, First, Left, At, Same
<1>2. \A c \in Caches : WillBeThere(q, c)' <=> WillBeThere(q, c)
  BY <1>1 DEF WillBeThere, Same, Contents
<1>3. Fetches(q) => Fetches(q)'
  <2> SUFFICES ASSUME Fetches(q) PROVE Fetches(q)'
    OBVIOUS
  <2>1. File(q) \in Files
    BY FirstIsLeft DEF Fetches, File, FileEntries
  <2> QED BY <1>1, <2>1 DEF Fetches, File, Same, Contents
<1>4. \A c : Behind(c)' <=> Behind(c)
  BY DEF Behind, Contents
<1> QED BY <1>2, <1>3, <1>4 DEF Plan, At, Same, Contents

\* While one instance updates alone, it is its plan that matters.
LEMMA OrderlyAlone ==
  ASSUME NEW p \in Procs, OthersSame(p), \A q \in Procs \ {p} : ~At(q, Updating),
         OpenOnce', At(p, Updating)' => Plan(p)'
  PROVE  Orderly'
<1>1. \A q \in Procs \ {p} : ~At(q, Updating)'
  BY DEF OthersSame, At
<1> QED BY <1>1 DEF Orderly, OneUpdates

\* ... and nothing is open when it writes nothing.
LEMMA NothingOpen ==
  ASSUME OpenOnce, NEW p \in Procs, \A q \in Procs \ {p} : ~At(q, Updating), ~At(p, {"transfer"})
  PROVE  \A f \in Files : tmp[f].open = {}
  BY DEF OpenOnce, At, Updating

\* Nothing happens to the content.
LEMMA QuietInv ==
  ASSUME UpdateInv, NEW p \in Procs, Quiet(p)
  PROVE  UpdateInv'
<1>0. InstancesOK /\ TmpOK /\ ContentOK
  BY DEF UpdateInv
<1>1. /\ OthersSame(p) /\ UNCHANGED Contents /\ TmpOK' /\ ~At(p, Updating)'
      /\ cut' \in {cut, TRUE} /\ (cut => cut')
  <2>1. OthersSame(p) /\ UNCHANGED Contents /\ TmpOK' /\ ~At(p, Updating)' /\ cut' \in {cut, TRUE}
    BY DEF Quiet
  <2>2. cut => cut'
    BY <2>1, Zenon
  <2> QED BY <2>1, <2>2
<1>2. InstancesOK'
  <2>1. InstanceOK(p)
    BY <1>0 DEF InstancesOK
  <2>2. Fields \subseteq DOMAIN proc'[p] /\ release' = release
    BY <1>1 DEF OthersSame, Contents
  <2>3. CASE Anew(p)
    <3>1. proc'[p].want \in [Caches -> Nat] /\ \A c \in Caches : proc'[p].want[c] = 0
      BY <2>3 DEF Anew, Idle
    <3>2. <<>> \in Seq(FileEntries)
      OBVIOUS
    <3>3. \A c \in Caches : proc'[p].want[c] <= release'[c]
      BY <1>0, <2>2, <3>1 DEF ContentOK
    <3>4. proc'[p].files = <<>> /\ proc'[p].queue = {} /\ proc'[p].needs = {} /\ proc'[p].gets = 0
      BY <2>3 DEF Anew
    <3>5. InstanceOK(p)'
      BY <2>2, <3>1, <3>2, <3>3, <3>4 DEF InstanceOK
    <3> QED BY <1>0, <1>1, <2>2, <3>5, InstancesStay
  <2>4. CASE ~At(p, Updating) /\ Same(p)
    <3>1. InstanceOK(p)'
      BY <2>1, <2>2, <2>4 DEF InstanceOK, Same, At
    <3> QED BY <1>0, <1>1, <2>2, <3>1, InstancesStay
  <2> QED BY <2>3, <2>4 DEF Quiet
<1>3. ContentOK'
  BY <1>0, <1>1 DEF ContentOK, Contents
<1>4. CASE together
  BY <1>1, <1>2, <1>3, <1>4 DEF UpdateInv, Contents
<1>5. CASE Orderly /\ RecordedIsThere
  <2>1. RecordedIsThere'
    BY <1>1, <1>5 DEF RecordedIsThere, Contents
  <2>2. OneUpdates'
    BY <1>1, <1>5 DEF Orderly, OneUpdates, OthersSame, At
  <2>3. ASSUME NEW f \in Files, NEW q \in tmp'[f].open
        PROVE  q \in Procs /\ At(q, {"transfer"})' /\ File(q)' = f
    <3>1. q \in Procs /\ At(q, {"transfer"}) /\ File(q) = f
      BY <1>5, <2>3 DEF Quiet, Orderly, OpenOnce
    <3>2. q # p
      BY <2>3, <3>1, Zenon DEF Quiet
    <3>3. proc'[q].at = proc[q].at /\ Same(q)
      BY <1>1, <3>1, <3>2 DEF OthersSame
    <3> QED BY <3>1, <3>3 DEF At, File, Entry, First, Same
  <2>4. ASSUME NEW q \in Procs, At(q, Updating)' PROVE Plan(q)'
    <3>1. q # p
      BY <1>1, <2>4
    <3>2. proc'[q].at = proc[q].at /\ Same(q)
      BY <1>1, <3>1 DEF OthersSame
    <3>3. Plan(q)
      BY <1>5, <2>4, <3>2 DEF Orderly, At
    <3>4. \A f \in Files : tmp'[f].opener = tmp[f].opener /\ tmp'[f].releases = tmp[f].releases
      <4>1. ~At(p, Updating)
        BY <1>5, <2>4, <3>1, <3>2 DEF Orderly, OneUpdates, At
      <4> QED BY <4>1 DEF Quiet
    <3> QED BY <1>0, <1>1, <3>2, <3>3, <3>4, PlanStays
  <2>5. Orderly'
    BY <2>2, <2>3, <2>4 DEF Orderly, OpenOnce
  <2> QED BY <1>1, <1>2, <1>3, <2>1, <2>5 DEF UpdateInv
<1> QED BY <1>4, <1>5 DEF UpdateInv

\* A release leaves nothing up to date that is of its cache.
LEMMA ReleaseInv ==
  ASSUME UpdateInv, Publish
  PROVE  UpdateInv'
<1>0. InstancesOK /\ TmpOK /\ ContentOK
  BY DEF UpdateInv
<1>1. UNCHANGED <<disk, tmp, versions, proc, cut, short, together>>
  BY DEF Publish, content, history
<1>2. release' \in [Caches -> Nat] /\ \A c \in Caches : release[c] <= release'[c]
  <2>1. CASE release' = release
    BY <1>0, <2>1 DEF ContentOK
  <2>2. CASE \E c \in Caches : release' = [release EXCEPT ![c] = @ + 1]
    <3>1. PICK d \in Caches : release' = [release EXCEPT ![d] = @ + 1]
      BY <2>2
    <3>2. \A c \in Caches : release[c] \in Nat /\ release'[c] = IF c = d THEN release[c] + 1 ELSE release[c]
      BY <1>0, <3>1 DEF ContentOK
    <3>3. \A c \in Caches : release'[c] \in Nat /\ release[c] <= release'[c]
      BY <3>2
    <3>4. release' \in [Caches -> Nat]
      BY <1>0, <3>1, <3>3 DEF ContentOK
    <3> QED BY <3>3, <3>4
  <2> QED BY <2>1, <2>2 DEF Publish
<1>3. \A c \in Caches : release[c] \in Nat /\ release'[c] \in Nat /\ release[c] <= release'[c]
  BY <1>0, <1>2 DEF ContentOK
<1>4. InstancesOK'
  <2>1. ASSUME NEW q \in Procs PROVE InstanceOK(q)'
    <3>1. Fields \subseteq DOMAIN proc'[q] /\ proc'[q].at = proc[q].at /\ Same(q)
      BY <1>0, <1>1 DEF InstancesOK, InstanceOK, Same
    <3> QED BY <1>0, <1>3, <3>1, InstanceStays
  <2> QED BY <1>0, <1>1, <2>1 DEF InstancesOK
<1>5. TmpOK'
  BY <1>0, <1>1 DEF TmpOK
<1>6. ContentOK'
  <2>1. \A c \in Caches : versions.of[c] \in Nat
    BY <1>0 DEF ContentOK
  <2>2. \A c \in Caches : versions.of[c] <= release'[c]
    BY <1>0, <1>3, <2>1 DEF ContentOK
  <2> QED BY <1>0, <1>1, <1>2, <2>2 DEF ContentOK
<1>7. CASE together
  BY <1>1, <1>4, <1>5, <1>6, <1>7 DEF UpdateInv
<1>8. CASE Orderly /\ RecordedIsThere
  <2>1. \A c \in Caches : versions.of[c] = release'[c] => release'[c] = release[c]
    <3>1. \A c \in Caches : versions.of[c] \in Nat /\ versions.of[c] <= release[c]
      BY <1>0 DEF ContentOK
    <3> QED BY <1>3, <3>1
  <2>2. RecordedIsThere'
    BY <1>1, <1>8, <2>1 DEF RecordedIsThere
  <2>3. \A c \in Caches : Behind(c) => Behind(c)'
    <3>1. \A c \in Caches : versions.of[c] \in Nat
      BY <1>0 DEF ContentOK
    <3> QED BY <1>1, <1>3, <3>1 DEF Behind
  <2>4. ASSUME NEW q \in Procs, At(q, Updating)' PROVE Plan(q)'
    <3>1. Plan(q) /\ InstanceOK(q)
      BY <1>0, <1>1, <1>8, <2>4 DEF Orderly, InstancesOK, At
    <3>2. \A c \in Caches : proc[q].want[c] \in Nat /\ proc[q].want[c] <= release[c]
      BY <3>1 DEF InstanceOK
    <3>3. \A e \in Range(proc[q].files) : e \in FileEntries
      BY <3>1 DEF InstanceOK, Range
    <3>4. \A c \in proc'[q].needs : At(q, {"manifests"})' /\ Behind(c)'
      BY <1>1, <2>3, <3>1 DEF Plan, At, InstanceOK
    <3>5. ASSUME NEW e \in Range(proc'[q].files)
          PROVE  /\ e.name \in Range(Manifest[e.cache]) /\ Behind(e.cache)'
                 /\ proc'[q].want[e.cache] <= e.hash /\ e.hash <= release'[e.cache]
      <4>1. e \in Range(proc[q].files) /\ e.cache \in Caches /\ e.hash \in Nat
        BY <1>1, <3>3 DEF FileEntries
      <4>2. e.name \in Range(Manifest[e.cache]) /\ Behind(e.cache) /\ proc[q].want[e.cache] <= e.hash
            /\ e.hash <= release[e.cache]
        BY <3>1, <4>1 DEF Plan
      <4>3. e.hash <= release'[e.cache]
        BY <1>3, <4>1, <4>2
      <4>4. Behind(e.cache)'
        BY <2>3, <4>1, <4>2 DEF Behind
      <4> QED BY <1>1, <4>2, <4>3, <4>4
    <3>6. At(q, {"transfer", "erased"})' => Fetches(q)'
      <4> SUFFICES ASSUME At(q, {"transfer", "erased"})' PROVE Fetches(q)'
        OBVIOUS
      <4>1. Fetches(q)
        BY <1>1, <3>1 DEF Plan, At
      <4> DEFINE cache == Entry(q).cache
      <4>2. cache \in Caches
        BY <1>0, <4>1, FirstIsLeft DEF Fetches, FileEntries
      <4>3. proc[q].gets \in Nat
        BY <3>1 DEF InstanceOK
      <4>4. proc[q].want[cache] # release[cache] => proc[q].want[cache] # release'[cache]
        BY <1>3, <3>2, <4>2
      <4>5. proc[q].gets <= release[cache] => proc[q].gets <= release'[cache]
        BY <1>3, <4>2, <4>3
      <4>6. Entry(q)' = Entry(q) /\ File(q)' = File(q)
        BY <1>1 DEF Entry, First, File
      <4> HIDE DEF cache
      <4> QED BY <1>1, <4>1, <4>4, <4>5, <4>6 DEF Fetches, cache
    <3>7. At(q, {"write"})' => versions'.is = "empty" /\ proc'[q].queue = {}
      BY <1>1, <3>1 DEF Plan, At
    <3>8. ASSUME ~cut', NEW c \in Caches, proc'[q].want[c] = release'[c] PROVE WillBeThere(q, c)'
      <4>1. release'[c] = release[c] /\ proc[q].want[c] = release[c]
        BY <1>1, <1>3, <3>2, <3>8
      <4>2. WillBeThere(q, c)
        BY <1>1, <3>1, <3>8, <4>1 DEF Plan
      <4> QED BY <1>1, <4>1, <4>2 DEF WillBeThere, Left, At
    <3> QED BY <3>4, <3>5, <3>6, <3>7, <3>8 DEF Plan
  <2>5. OneUpdates' /\ OpenOnce'
    BY <1>1, <1>8 DEF Orderly, OneUpdates, OpenOnce, At, File, Entry, First
  <2>6. Orderly'
    BY <2>4, <2>5 DEF Orderly
  <2> QED BY <1>4, <1>5, <1>6, <2>2, <2>6 DEF UpdateInv
<1> QED BY <1>7, <1>8 DEF UpdateInv

\* caches.xml from the server: what is not as recorded is to be fetched.
LEMMA FetchCachesInv ==
  ASSUME UpdateInv, NEW p \in Procs, NEW outdated, FindsOutdated(p, outdated)
  PROVE  UpdateInv'
<1>0. InstancesOK /\ TmpOK /\ ContentOK /\ InstanceOK(p)
  BY DEF UpdateInv, InstancesOK
<1>1. /\ proc' = [proc EXCEPT ![p].want = release, ![p].needs = outdated, ![p].at = "manifests"]
      /\ UNCHANGED <<release, versions, disk, tmp, short>>
      /\ together' = (together \/ \E q \in Others(p) : At(q, Updating))
      /\ cut' = (cut \/ versions.is = "cut")
      /\ At(p, {"update"}) /\ versions.is # "empty" /\ outdated \subseteq Caches
      /\ versions.is = "cut" \/ outdated = Outdated
  BY DEF FindsOutdated
<1>2. OthersSame(p)
  BY <1>0, <1>1 DEF InstancesOK, InstanceOK, OthersSame, Same, Fields
<1>3. /\ proc'[p].at = "manifests" /\ proc'[p].want = release /\ proc'[p].needs = outdated
      /\ proc'[p].files = proc[p].files /\ proc'[p].queue = proc[p].queue /\ proc'[p].gets = proc[p].gets
  BY <1>0, <1>1 DEF InstancesOK, InstanceOK, Fields
<1>4. proc[p].files = <<>>
  BY <1>0, <1>1 DEF InstanceOK, At, Updating
<1>5. InstanceOK(p)'
  <2>1. Fields \subseteq DOMAIN proc'[p] /\ At(p, Updating)'
    BY <1>2, <1>3 DEF OthersSame, At, Updating
  <2>2. proc'[p].want \in [Caches -> Nat] /\ \A c \in Caches : proc'[p].want[c] <= release'[c]
    <3>1. release \in [Caches -> Nat] /\ release' = release /\ \A c \in Caches : release[c] \in Nat
      BY <1>0, <1>1 DEF ContentOK
    <3>2. \A c \in Caches : release[c] <= release[c]
      BY <3>1
    <3> QED BY <1>3, <3>1, <3>2
  <2> QED BY <1>0, <1>1, <1>3, <2>1, <2>2 DEF InstanceOK
<1>6. InstancesOK' /\ TmpOK' /\ ContentOK'
  <2>1. together' \in BOOLEAN /\ cut' \in BOOLEAN
    BY <1>0, <1>1 DEF ContentOK
  <2>2. ContentOK'
    BY <1>0, <1>1, <2>1 DEF ContentOK
  <2>3. TmpOK'
    BY <1>0, <1>1 DEF TmpOK
  <2> QED BY <1>0, <1>1, <1>2, <1>5, <2>2, <2>3, InstancesStay
<1>7. CASE together'
  BY <1>6, <1>7 DEF UpdateInv
<1>8. CASE ~together'
  <2>0. Orderly /\ RecordedIsThere
    BY <1>1, <1>8 DEF UpdateInv
  <2>1. \A q \in Procs \ {p} : ~At(q, Updating)
    BY <1>1, <1>8 DEF Others, At, Updating
  <2>2. OpenOnce'
    <3>1. \A f \in Files : tmp[f].open = {}
      BY <1>1, <2>0, <2>1, NothingOpen DEF Orderly, At
    <3> QED BY <1>1, <3>1 DEF OpenOnce
  <2>3. Plan(p)'
    <3>1. ASSUME NEW c \in outdated PROVE Behind(c)'
      <4>1. CASE versions.is = "cut"
        BY <1>1, <4>1 DEF Behind
      <4>2. CASE versions.is # "cut"
        <5>1. c \in Caches /\ (versions.is = "none" \/ versions.of[c] # release[c])
          BY <1>1, <4>2 DEF Outdated
        <5>2. versions.of[c] \in Nat /\ release[c] \in Nat /\ versions.of[c] <= release[c]
          BY <1>0, <5>1 DEF ContentOK
        <5> QED BY <1>1, <5>1, <5>2 DEF Behind
      <4> QED BY <4>1, <4>2
    <3>2. Range(proc'[p].files) = {}
      BY <1>3, <1>4 DEF Range
    <3>3. \A c \in proc'[p].needs : At(p, {"manifests"})' /\ Behind(c)'
      BY <1>3, <3>1 DEF At
    <3>4. ASSUME ~cut', NEW c \in Caches PROVE WillBeThere(p, c)'
      <4>1. CASE c \in outdated
        BY <1>3, <4>1 DEF WillBeThere
      <4>2. CASE c \notin outdated
        <5>1. versions.is # "cut" /\ outdated = Outdated /\ ~cut
          BY <1>1, <3>4
        <5>2. versions.is = "written" /\ versions.of[c] = release[c]
          BY <1>0, <1>1, <4>2, <5>1 DEF Outdated, ContentOK
        <5>3. \A f \in Range(Manifest[c]) \ short : disk[f] = release[c]
          BY <1>1, <1>8, <2>0, <5>1, <5>2 DEF RecordedIsThere
        <5> QED BY <1>1, <5>3 DEF WillBeThere
      <4> QED BY <4>1, <4>2
    <3>5. ~At(p, {"transfer", "erased"})' /\ ~At(p, {"write"})'
      BY <1>3 DEF At
    <3> QED BY <3>2, <3>3, <3>4, <3>5 DEF Plan
  <2>4. Orderly'
    BY <1>2, <2>1, <2>2, <2>3, OrderlyAlone
  <2>5. RecordedIsThere'
    BY <1>1, <1>8, <2>0 DEF RecordedIsThere
  <2> QED BY <1>6, <2>4, <2>5 DEF UpdateInv
<1> QED BY <1>7, <1>8

\* The first files of a manifest are files, and all of them are when it came
\* whole.
LEMMA EntriesOf ==
  ASSUME ContentOK, NEW c \in Caches, NEW n \in 0..Len(Manifest[c])
  PROVE  /\ Entries(c, n) \in Seq(FileEntries)
         /\ \A e \in Range(Entries(c, n)) : e.cache = c /\ e.name \in Range(Manifest[c]) /\ e.hash = release[c]
         /\ n < Len(Manifest[c]) \/ \A f \in Range(Manifest[c]) : \E e \in Range(Entries(c, n)) : e.cache = c /\ e.name = f
<1>1. Manifest[c] \in Seq(Files) /\ Len(Manifest[c]) \in Nat /\ DOMAIN Manifest[c] = 1..Len(Manifest[c])
  BY UpdaterAssumption, LenProperties
<1>2. release[c] \in Nat
  BY DEF ContentOK
<1>3. n \in Nat /\ \A i \in 1..n : i \in DOMAIN Manifest[c] /\ Manifest[c][i] \in Files
  BY <1>1
<1> DEFINE E == Entries(c, n)
<1>4. DOMAIN E = 1..n /\ \A i \in 1..n : E[i] = [cache |-> c, name |-> Manifest[c][i], hash |-> release[c]]
  BY DEF Entries
<1>5. E \in Seq(FileEntries)
  <2>1. \A i \in 1..n : [cache |-> c, name |-> Manifest[c][i], hash |-> release[c]] \in FileEntries
    BY <1>2, <1>3 DEF FileEntries
  <2>2. E \in [1..n -> FileEntries]
    BY <2>1 DEF Entries
  <2> HIDE DEF E
  <2> QED BY <1>3, <2>2
<1> HIDE DEF E
<1>6. \A e \in Range(E) : e.cache = c /\ e.name \in Range(Manifest[c]) /\ e.hash = release[c]
  BY <1>3, <1>4 DEF Range
<1>7. ASSUME ~(n < Len(Manifest[c])), NEW f \in Range(Manifest[c])
      PROVE  \E e \in Range(E) : e.cache = c /\ e.name = f
  <2>1. PICK i \in 1..n : f = Manifest[c][i]
    BY <1>1, <1>3, <1>7 DEF Range
  <2>2. E[i] \in Range(E) /\ E[i].cache = c /\ E[i].name = f
    BY <1>4, <2>1 DEF Range
  <2> QED BY <2>2
<1> QED BY <1>5, <1>6, <1>7 DEF E

\* The files of one more cache are to be looked at.
LEMMA FetchManifestInv ==
  ASSUME UpdateInv, NEW p \in Procs, FetchManifest(p)
  PROVE  UpdateInv'
<1>0. InstancesOK /\ TmpOK /\ ContentOK /\ InstanceOK(p)
  BY DEF UpdateInv, InstancesOK
<1>1. PICK c \in proc[p].needs : \E n \in 0..Len(Manifest[c]) :
        /\ proc' = [proc EXCEPT ![p].needs = @ \ {c}, ![p].files = @ \o Entries(c, n),
                                ![p].at = IF proc[p].needs = {c} THEN "check" ELSE @]
        /\ cut' = (cut \/ n < Len(Manifest[c]))
  BY DEF FetchManifest
<1>2. PICK n \in 0..Len(Manifest[c]) :
        /\ proc' = [proc EXCEPT ![p].needs = @ \ {c}, ![p].files = @ \o Entries(c, n),
                                ![p].at = IF proc[p].needs = {c} THEN "check" ELSE @]
        /\ cut' = (cut \/ n < Len(Manifest[c]))
  BY <1>1
<1> DEFINE place == IF proc[p].needs = {c} THEN "check" ELSE proc[p].at
           files == proc[p].files \o Entries(c, n)
<1>3. /\ At(p, {"manifests"}) /\ UNCHANGED <<release, versions, disk, tmp, short, together>>
  BY DEF FetchManifest, server, content
<1>4. c \in Caches /\ proc[p].files \in Seq(FileEntries)
  BY <1>0 DEF InstanceOK
<1>4a. /\ Entries(c, n) \in Seq(FileEntries)
       /\ \A e \in Range(Entries(c, n)) : e.cache = c /\ e.name \in Range(Manifest[c]) /\ e.hash = release[c]
       /\ n < Len(Manifest[c]) \/ \A f \in Range(Manifest[c]) : \E e \in Range(Entries(c, n)) : e.cache = c /\ e.name = f
  <2>1. ContentOK /\ c \in Caches
    BY <1>0, <1>4
  <2> QED BY <2>1, EntriesOf
<1>5. files \in Seq(FileEntries) /\ Range(files) = Range(proc[p].files) \cup Range(Entries(c, n))
  BY <1>4, <1>4a, RangeConcatenation, ConcatProperties
<1>6. DOMAIN proc[p].files \subseteq DOMAIN files
  <2>1. Entries(c, n) \in Seq(FileEntries)
    BY <1>4a
  <2>2. Len(files) = Len(proc[p].files) + Len(Entries(c, n)) /\ Len(proc[p].files) \in Nat /\ Len(Entries(c, n)) \in Nat
    BY <1>4, <2>1, ConcatProperties, LenProperties
  <2>3. DOMAIN files = 1..Len(files) /\ DOMAIN proc[p].files = 1..Len(proc[p].files)
    BY <1>4, <1>5, LenProperties
  <2> HIDE DEF files
  <2> QED BY <2>2, <2>3
<1>7. proc' = [proc EXCEPT ![p].needs = @ \ {c}, ![p].files = files, ![p].at = place]
  BY <1>2, Zenon
<1>8. place \in {"manifests", "check"} /\ (place = "manifests" \/ proc[p].needs = {c})
  BY <1>3 DEF At
<1> HIDE DEF place, files
<1>9. OthersSame(p)
  BY <1>0, <1>7 DEF InstancesOK, InstanceOK, OthersSame, Same, Fields
<1>10. /\ proc'[p].at = place /\ proc'[p].want = proc[p].want /\ proc'[p].needs = proc[p].needs \ {c}
       /\ proc'[p].files = files /\ proc'[p].queue = proc[p].queue /\ proc'[p].gets = proc[p].gets
  BY <1>0, <1>7 DEF InstancesOK, InstanceOK, Fields
<1>11. InstanceOK(p)'
  <2>1. Fields \subseteq DOMAIN proc'[p] /\ At(p, Updating)'
    BY <1>8, <1>9, <1>10 DEF OthersSame, At, Updating
  <2> QED BY <1>0, <1>3, <1>5, <1>6, <1>10, <2>1 DEF InstanceOK
<1>12. cut' \in BOOLEAN /\ (cut => cut')
  BY <1>0, <1>2 DEF ContentOK
<1>13. InstancesOK' /\ TmpOK' /\ ContentOK'
  <2>1. TmpOK' /\ ContentOK'
    BY <1>0, <1>3, <1>12 DEF TmpOK, ContentOK
  <2> QED BY <1>0, <1>3, <1>9, <1>11, <2>1, InstancesStay
<1>14. CASE together
  BY <1>3, <1>13, <1>14 DEF UpdateInv
<1>15. CASE ~together
  <2>0. Orderly /\ RecordedIsThere
    BY <1>15 DEF UpdateInv
  <2>1. \A q \in Procs \ {p} : ~At(q, Updating)
    BY <1>3, <2>0 DEF Orderly, OneUpdates, At, Updating
  <2>2. OpenOnce'
    <3>1. \A f \in Files : tmp[f].open = {}
      BY <1>3, <2>0, <2>1, NothingOpen DEF Orderly, At
    <3> QED BY <1>3, <3>1 DEF OpenOnce
  <2>3. Plan(p)
    BY <1>3, <2>0 DEF Orderly, At, Updating
  <2>4. Plan(p)'
    <3>0. \A d : Behind(d)' <=> Behind(d)
      BY <1>3 DEF Behind
    <3>1. ASSUME NEW d \in proc'[p].needs PROVE At(p, {"manifests"})' /\ Behind(d)'
      <4>1. d \in proc[p].needs /\ d # c
        BY <1>10
      <4>2. place = "manifests"
        BY <1>8, <4>1
      <4> QED BY <1>10, <2>3, <3>0, <4>1, <4>2 DEF Plan, At
    <3>2. ASSUME NEW e \in Range(proc'[p].files)
          PROVE  /\ e.name \in Range(Manifest[e.cache]) /\ Behind(e.cache)'
                 /\ proc'[p].want[e.cache] <= e.hash /\ e.hash <= release'[e.cache]
      <4>1. CASE e \in Range(proc[p].files)
        BY <1>3, <1>10, <2>3, <3>0, <4>1 DEF Plan
      <4>2. CASE e \in Range(Entries(c, n))
        <5>1. e.cache = c /\ e.name \in Range(Manifest[c]) /\ e.hash = release[c]
          BY <4>2, <1>4a
        <5>2. Behind(c)
          BY <2>3 DEF Plan
        <5>3. proc[p].want[c] <= release[c] /\ release[c] <= release[c]
          BY <1>0, <1>4 DEF InstanceOK, ContentOK
        <5> QED BY <1>3, <1>10, <3>0, <5>1, <5>2, <5>3
      <4> QED BY <1>5, <1>10, <4>1, <4>2
    <3>3. ~At(p, {"transfer", "erased"})' /\ ~At(p, {"write"})'
      BY <1>8, <1>10 DEF At
    <3>4. ASSUME ~cut', NEW d \in Caches, proc'[p].want[d] = release'[d] PROVE WillBeThere(p, d)'
      <4>1. Left(p) = Range(proc[p].files) /\ Left(p)' = Range(files)
        BY <1>3, <1>8, <1>10 DEF Left, At
      <4>2. CASE d = c
        <5>1. ~(n < Len(Manifest[c]))
          <6>1. cut' = (cut \/ n < Len(Manifest[c]))
            BY <1>2
          <6> QED BY <3>4, <6>1, Zenon
        <5>2. n < Len(Manifest[c]) \/ \A f \in Range(Manifest[c]) : \E e \in Range(Entries(c, n)) : e.cache = c /\ e.name = f
          BY <1>4a, Zenon
        <5> QED BY <1>5, <5>1, <4>1, <4>2, <5>2 DEF WillBeThere
      <4>3. CASE d # c
        <5>1. WillBeThere(p, d)
          BY <1>3, <1>10, <1>12, <2>3, <3>4 DEF Plan
        <5> QED BY <1>3, <1>5, <1>10, <4>1, <4>3, <5>1 DEF WillBeThere
      <4> QED BY <4>2, <4>3
    <3> QED BY <3>1, <3>2, <3>3, <3>4 DEF Plan
  <2>5. Orderly'
    BY <1>9, <2>1, <2>2, <2>4, OrderlyAlone
  <2>6. RecordedIsThere'
    BY <1>3, <1>12, <2>0 DEF RecordedIsThere
  <2> QED BY <1>13, <2>5, <2>6 DEF UpdateInv
<1> QED BY <1>14, <1>15

\* What is in place need not be fetched.
LEMMA CheckInv ==
  ASSUME UpdateInv, NEW p \in Procs, Check(p)
  PROVE  UpdateInv'
<1>0. InstancesOK /\ TmpOK /\ ContentOK /\ InstanceOK(p)
  BY DEF UpdateInv, InstancesOK
<1>1. /\ proc' = [proc EXCEPT ![p].at = "download",
                              ![p].queue = {i \in DOMAIN proc[p].files : FileOutdated(proc[p].files[i])}]
      /\ UNCHANGED <<release, versions, disk, tmp, cut, short, together>> /\ At(p, {"check"})
  BY DEF Check, server, content, history
<1>2. OthersSame(p)
  BY <1>0, <1>1 DEF InstancesOK, InstanceOK, OthersSame, Same, Fields
<1>3. /\ proc'[p].at = "download" /\ proc'[p].want = proc[p].want /\ proc'[p].needs = proc[p].needs
      /\ proc'[p].files = proc[p].files /\ proc'[p].gets = proc[p].gets
      /\ proc'[p].queue = {i \in DOMAIN proc[p].files : FileOutdated(proc[p].files[i])}
  BY <1>0, <1>1 DEF InstancesOK, InstanceOK, Fields
<1>4. InstanceOK(p)'
  <2>1. Fields \subseteq DOMAIN proc'[p] /\ At(p, Updating)' /\ release' = release
    BY <1>1, <1>2, <1>3 DEF OthersSame, At, Updating
  <2> QED BY <1>0, <1>3, <2>1 DEF InstanceOK
<1>5. InstancesOK' /\ TmpOK' /\ ContentOK'
  <2>1. TmpOK' /\ ContentOK'
    BY <1>0, <1>1 DEF TmpOK, ContentOK
  <2> QED BY <1>0, <1>1, <1>2, <1>4, <2>1, InstancesStay
<1>6. CASE together
  BY <1>1, <1>5, <1>6 DEF UpdateInv
<1>7. CASE ~together
  <2>0. Orderly /\ RecordedIsThere
    BY <1>7 DEF UpdateInv
  <2>1. \A q \in Procs \ {p} : ~At(q, Updating)
    BY <1>1, <2>0 DEF Orderly, OneUpdates, At, Updating
  <2>2. OpenOnce'
    <3>1. \A f \in Files : tmp[f].open = {}
      BY <1>1, <2>0, <2>1, NothingOpen DEF Orderly, At
    <3> QED BY <1>1, <3>1 DEF OpenOnce
  <2>3. Plan(p)
    BY <1>1, <2>0 DEF Orderly, At, Updating
  <2>4. Plan(p)'
    <3>1. proc'[p].needs = {}
      BY <1>1, <1>3, <2>3 DEF Plan, At
    <3>2. \A d : Behind(d)' <=> Behind(d)
      BY <1>1 DEF Behind
    <3>3. \A e \in Range(proc'[p].files) :
            /\ e.name \in Range(Manifest[e.cache]) /\ Behind(e.cache)'
            /\ proc'[p].want[e.cache] <= e.hash /\ e.hash <= release'[e.cache]
      BY <1>1, <1>3, <2>3, <3>2 DEF Plan
    <3>4. ~At(p, {"transfer", "erased"})' /\ ~At(p, {"write"})'
      BY <1>3 DEF At
    <3>5. ASSUME ~cut', NEW c \in Caches, proc'[p].want[c] = release'[c], NEW f \in Range(Manifest[c]) \ short', disk'[f] # release'[c]
          PROVE  \E e \in Left(p)' : e.cache = c /\ e.name = f
      <4>1. WillBeThere(p, c)
        BY <1>1, <1>3, <2>3, <3>5 DEF Plan
      <4>2. PICK e \in Range(proc[p].files) : e.cache = c /\ e.name = f
        BY <1>1, <1>3, <3>1, <3>5, <4>1 DEF WillBeThere, Left, At
      <4>3. PICK i \in DOMAIN proc[p].files : e = proc[p].files[i]
        BY DEF Range
      <4>4. e.hash \in Nat /\ release[c] \in Nat /\ proc[p].want[c] <= e.hash /\ e.hash <= release[c]
        <5>1. e \in FileEntries
          BY <1>0, <4>3 DEF InstanceOK
        <5>2. proc[p].want[e.cache] <= e.hash /\ e.hash <= release[e.cache]
          BY <2>3 DEF Plan
        <5> QED BY <1>0, <4>2, <5>1, <5>2 DEF FileEntries, ContentOK
      <4>5. e.hash = release[c]
        BY <1>1, <1>3, <3>5, <4>4
      <4>6. FileOutdated(proc[p].files[i])
        BY <1>1, <3>5, <4>2, <4>3, <4>5 DEF FileOutdated
      <4>7. i \in proc'[p].queue /\ proc'[p].files[i] = e
        BY <1>3, <4>3, <4>6
      <4>8. e \in Left(p)'
        BY <1>3, <4>7 DEF Left, At
      <4> QED BY <4>2, <4>8
    <3>6. ASSUME ~cut', NEW c \in Caches, proc'[p].want[c] = release'[c] PROVE WillBeThere(p, c)'
      BY <3>5, <3>6 DEF WillBeThere
    <3> QED BY <3>1, <3>3, <3>4, <3>6 DEF Plan
  <2>5. Orderly'
    BY <1>2, <2>1, <2>2, <2>4, OrderlyAlone
  <2>6. RecordedIsThere'
    BY <1>1, <2>0 DEF RecordedIsThere
  <2> QED BY <1>5, <2>5, <2>6 DEF UpdateInv
<1> QED BY <1>6, <1>7

\* The temporary file is its own, and nothing else of the content changes.
LEMMA OpenInv ==
  ASSUME UpdateInv, NEW p \in Procs, Open(p)
  PROVE  UpdateInv'
<1>0. InstancesOK /\ TmpOK /\ ContentOK /\ InstanceOK(p)
  BY DEF UpdateInv, InstancesOK
<1> DEFINE f == File(p)
<1>1a. PICK r \in Brings(Entry(p)) :
         /\ tmp' = [tmp EXCEPT ![f] = [opener |-> {p}, open |-> @.open \cup {p},
                                       releases |-> {r} \cup {proc[q].gets : q \in @.open}]]
         /\ proc' = [proc EXCEPT ![p].at = "transfer", ![p].gets = r]
  BY DEF Open
<1>1. /\ tmp' = [tmp EXCEPT ![f] = [opener |-> {p}, open |-> @.open \cup {p},
                                    releases |-> {r} \cup {proc[q].gets : q \in @.open}]]
      /\ proc' = [proc EXCEPT ![p].at = "transfer", ![p].gets = r]
      /\ UNCHANGED <<release, versions, disk, cut, short, together>> /\ At(p, {"download"}) /\ proc[p].queue # {}
  BY <1>1a DEF Open, server, history
<1>2. Entry(p) \in FileEntries /\ Entry(p) \in Range(proc[p].files)
  BY <1>0, <1>1, FirstIsLeft
<1>3. f \in Files /\ Entry(p).cache \in Caches /\ r \in Nat
  BY <1>0, <1>2 DEF FileEntries, File, ContentOK, Brings, Garbage
<1>3a. \/ r = release[Entry(p).cache]
       \/ r = Garbage /\ release[Entry(p).cache] # Entry(p).hash
  BY DEF Brings
<1>4. OthersSame(p)
  BY <1>0, <1>1 DEF InstancesOK, InstanceOK, OthersSame, Same, Fields
<1>5. /\ proc'[p].at = "transfer" /\ proc'[p].want = proc[p].want /\ proc'[p].needs = proc[p].needs
      /\ proc'[p].files = proc[p].files /\ proc'[p].queue = proc[p].queue /\ proc'[p].gets = r
  BY <1>0, <1>1 DEF InstancesOK, InstanceOK, Fields
<1>6. Entry(p)' = Entry(p) /\ File(p)' = f
  BY <1>5 DEF Entry, First, File
<1>7. /\ tmp'[f].opener = {p} /\ tmp'[f].open = tmp[f].open \cup {p}
      /\ tmp'[f].releases = {r} \cup {proc[q].gets : q \in tmp[f].open}
      /\ \A g \in Files \ {f} : tmp'[g] = tmp[g]
  BY <1>0, <1>1, <1>3 DEF TmpOK
<1>8. TmpOK'
  <2>1. tmp' = [g \in Files |-> tmp'[g]]
    BY <1>0, <1>1 DEF TmpOK
  <2>2. {"opener", "open", "releases"} \subseteq DOMAIN tmp'[f]
    BY <1>0, <1>1, <1>3 DEF TmpOK
  <2> QED BY <1>0, <1>7, <2>1, <2>2 DEF TmpOK
<1> HIDE DEF f
<1>9. InstanceOK(p)'
  <2>1. Fields \subseteq DOMAIN proc'[p] /\ At(p, Updating)' /\ release' = release
    BY <1>1, <1>4, <1>5 DEF OthersSame, At, Updating
  <2> QED BY <1>0, <1>3, <1>5, <2>1 DEF InstanceOK
<1>10. InstancesOK' /\ ContentOK'
  <2>1. ContentOK'
    BY <1>0, <1>1 DEF ContentOK
  <2> QED BY <1>0, <1>1, <1>4, <1>9, <2>1, InstancesStay
<1>11. CASE together
  BY <1>1, <1>8, <1>10, <1>11 DEF UpdateInv
<1>12. CASE ~together
  <2>0. Orderly /\ RecordedIsThere
    BY <1>12 DEF UpdateInv
  <2>1. \A q \in Procs \ {p} : ~At(q, Updating)
    BY <1>1, <2>0 DEF Orderly, OneUpdates, At, Updating
  <2>2. \A g \in Files : tmp[g].open = {}
    BY <1>1, <2>0, <2>1, NothingOpen DEF Orderly, At
  <2>3. OpenOnce'
    <3>1. At(p, {"transfer"})'
      BY <1>5 DEF At
    <3>2. tmp'[f].open = {p} /\ \A g \in Files \ {f} : tmp'[g].open = {}
      BY <1>3, <1>7, <2>2
    <3> QED BY <1>6, <3>1, <3>2 DEF OpenOnce
  <2>4. Plan(p)
    BY <1>1, <2>0 DEF Orderly, At, Updating
  <2>5. Plan(p)'
    <3>1. proc'[p].needs = {}
      BY <1>1, <1>5, <2>4 DEF Plan, At
    <3>2. \A d : Behind(d)' <=> Behind(d)
      BY <1>1 DEF Behind
    <3>3. \A e \in Range(proc'[p].files) :
            /\ e.name \in Range(Manifest[e.cache]) /\ Behind(e.cache)'
            /\ proc'[p].want[e.cache] <= e.hash /\ e.hash <= release'[e.cache]
      BY <1>1, <1>5, <2>4, <3>2 DEF Plan
    <3>4. Fetches(p)'
      <4>1. tmp'[f].releases = {r}
        BY <1>3, <1>7, <2>2
      <4> DEFINE cache == Entry(p).cache
      <4>2. /\ proc[p].want[cache] \in Nat /\ release[cache] \in Nat
            /\ proc[p].want[cache] <= release[cache] /\ release[cache] <= release[cache]
        BY <1>0, <1>3 DEF InstanceOK, ContentOK
      <4>3. proc[p].want[cache] <= Entry(p).hash /\ Entry(p).hash <= release[cache] /\ Entry(p).hash \in Nat
        BY <1>2, <2>4 DEF Plan, FileEntries
      <4>4. \/ r = Garbage /\ proc[p].want[cache] # release[cache]
            \/ proc[p].want[cache] <= r /\ r <= release[cache]
        BY <1>3a, <4>2, <4>3
      <4> HIDE DEF cache
      <4> QED BY <1>1, <1>5, <1>6, <1>7, <4>1, <4>4 DEF Fetches, cache
    <3>5. ~At(p, {"write"})'
      BY <1>5 DEF At
    <3>6. Left(p)' = Left(p)
      BY <1>1, <1>5 DEF Left, At
    <3>7. ASSUME ~cut', NEW c \in Caches, proc'[p].want[c] = release'[c] PROVE WillBeThere(p, c)'
      <4>1. WillBeThere(p, c)
        BY <1>1, <1>5, <2>4, <3>7 DEF Plan
      <4> QED BY <1>1, <1>5, <3>6, <4>1 DEF WillBeThere
    <3> QED BY <3>1, <3>3, <3>4, <3>5, <3>7 DEF Plan
  <2>6. Orderly'
    BY <1>4, <2>1, <2>3, <2>5, OrderlyAlone
  <2>7. RecordedIsThere'
    BY <1>1, <2>0 DEF RecordedIsThere
  <2> QED BY <1>8, <1>10, <2>6, <2>7 DEF UpdateInv
<1> QED BY <1>11, <1>12

\* A file of a cache that is not recorded may change.
LEMMA RecordedStays ==
  ASSUME OwnFiles, ContentOK, RecordedIsThere, NEW d \in Caches, Behind(d), NEW f \in Range(Manifest[d]),
         \A g \in Files \ {f} : disk'[g] = disk[g],
         UNCHANGED <<release, versions, cut, together>>, short \subseteq short'
  PROVE  RecordedIsThere'
<1> SUFFICES ASSUME ~cut, ~together, versions.is = "written", NEW c \in Caches, versions.of[c] = release[c],
                    NEW g \in Range(Manifest[c]) \ short'
             PROVE  disk'[g] = release[c]
  BY DEF RecordedIsThere
<1>1. disk[g] = release[c]
  BY DEF RecordedIsThere
<1>2. c # d
  <2>1. versions.of[d] < release[d]
    BY DEF Behind
  <2>2. ~(release[d] < release[d])
    BY DEF ContentOK
  <2> QED BY <2>1, <2>2
<1>3. g # f
  BY <1>2 DEF OwnFiles
<1>4. g \in Files
  BY UpdaterAssumption DEF Range
<1> QED BY <1>1, <1>3, <1>4

\* The old file goes: it is one that is still to be placed, of a cache that is not
\* recorded.
LEMMA TransferredInv ==
  ASSUME OwnFiles, UpdateInv, NEW p \in Procs, Transferred(p)
  PROVE  UpdateInv'
<1>0. InstancesOK /\ TmpOK /\ ContentOK /\ InstanceOK(p)
  BY DEF UpdateInv, InstancesOK
<1> DEFINE f == File(p)
<1>1a. PICK whole \in BOOLEAN :
         /\ proc' = [proc EXCEPT ![p].at = "erased", ![p].gets = IF whole THEN @ ELSE Garbage]
         /\ short' = IF whole THEN short ELSE short \cup {f}
  BY DEF Transferred
<1> DEFINE got == IF whole THEN proc[p].gets ELSE Garbage
<1>1. /\ tmp' = [tmp EXCEPT ![f].open = @ \ {p}] /\ disk' = [disk EXCEPT ![f] = Missing]
      /\ proc' = [proc EXCEPT ![p].at = "erased", ![p].gets = got]
      /\ UNCHANGED <<release, versions, cut, together>> /\ At(p, {"transfer"})
  BY <1>1a DEF Transferred, server
<1>1b. /\ short \subseteq short'
       /\ got = proc[p].gets \/ (got = Garbage /\ f \in short')
       /\ got \in Nat
  BY <1>0, <1>1a DEF InstanceOK, Garbage
<1> HIDE DEF got
<1>2. OthersSame(p)
  BY <1>0, <1>1 DEF InstancesOK, InstanceOK, OthersSame, Same, Fields
<1>3. /\ proc'[p].at = "erased" /\ proc'[p].want = proc[p].want /\ proc'[p].needs = proc[p].needs
      /\ proc'[p].files = proc[p].files /\ proc'[p].queue = proc[p].queue /\ proc'[p].gets = got
  BY <1>0, <1>1 DEF InstancesOK, InstanceOK, Fields
<1>4. Entry(p)' = Entry(p) /\ File(p)' = f
  BY <1>3 DEF Entry, First, File
<1>5. /\ TmpOK'
      /\ \A g \in Files : /\ tmp'[g].opener = tmp[g].opener /\ tmp'[g].releases = tmp[g].releases
                          /\ tmp'[g].open = IF g = f THEN tmp[g].open \ {p} ELSE tmp[g].open
  BY <1>0, <1>1 DEF TmpOK
<1>6. ContentOK' /\ \A g \in Files \ {f} : disk'[g] = disk[g]
  <2>1. disk' = [disk EXCEPT ![f] = Missing] /\ Missing \in Int
    BY <1>1 DEF Missing
  <2> HIDE DEF f
  <2> QED BY <1>0, <1>1, <2>1 DEF ContentOK
<1> HIDE DEF f
<1>7. InstanceOK(p)'
  <2>1. Fields \subseteq DOMAIN proc'[p] /\ At(p, Updating)' /\ release' = release
    BY <1>1, <1>2, <1>3 DEF OthersSame, At, Updating
  <2> QED BY <1>0, <1>1b, <1>3, <2>1 DEF InstanceOK
<1>8. InstancesOK'
  BY <1>0, <1>1, <1>2, <1>7, InstancesStay
<1>9. CASE together
  BY <1>1, <1>5, <1>6, <1>8, <1>9 DEF UpdateInv
<1>10. CASE ~together
  <2>0. Orderly /\ RecordedIsThere
    BY <1>10 DEF UpdateInv
  <2>1. \A q \in Procs \ {p} : ~At(q, Updating)
    BY <1>1, <2>0 DEF Orderly, OneUpdates, At, Updating
  <2>2. Plan(p)
    BY <1>1, <2>0 DEF Orderly, At, Updating
  <2>3. Fetches(p) /\ proc[p].queue # {}
    BY <1>1, <2>2 DEF Plan, Fetches, At
  <2>4. Entry(p) \in Range(proc[p].files) /\ Entry(p) \in FileEntries /\ First(p) \in proc[p].queue
    BY <1>0, <2>3, FirstIsLeft
  <2>5. Entry(p).cache \in Caches /\ f \in Files /\ f \in Range(Manifest[Entry(p).cache]) /\ Behind(Entry(p).cache)
    BY <2>2, <2>4 DEF Plan, FileEntries, File, f
  <2>6. RecordedIsThere'
    BY <1>0, <1>1, <1>1b, <1>6, <2>0, <2>5, RecordedStays
  <2>7. OpenOnce'
    <3>1. \A g \in Files : \A q \in tmp[g].open : q = p /\ g = f
      BY <2>0, <2>1 DEF Orderly, OpenOnce, At, Updating, f
    <3>2. \A g \in Files : tmp'[g].open = {}
      BY <1>5, <3>1
    <3> QED BY <3>2 DEF OpenOnce
  <2>8. Plan(p)'
    <3>1. proc'[p].needs = {}
      BY <1>1, <1>3, <2>2 DEF Plan, At
    <3>2. \A d : Behind(d)' <=> Behind(d)
      BY <1>1 DEF Behind
    <3>3. \A e \in Range(proc'[p].files) :
            /\ e.name \in Range(Manifest[e.cache]) /\ Behind(e.cache)'
            /\ proc'[p].want[e.cache] <= e.hash /\ e.hash <= release'[e.cache]
      BY <1>1, <1>3, <2>2, <3>2 DEF Plan
    <3>4. Fetches(p)'
      BY <1>1, <1>1b, <1>3, <1>4, <1>5, <2>3, <2>5 DEF Fetches, f
    <3>5. ~At(p, {"write"})'
      BY <1>3 DEF At
    <3>6. Left(p)' = Left(p) /\ Entry(p) \in Left(p)
      BY <1>1, <1>3, <2>4 DEF Left, At, Entry
    <3>7. ASSUME ~cut', NEW c \in Caches, proc'[p].want[c] = release'[c], NEW g \in Range(Manifest[c]) \ short'
          PROVE  disk'[g] = release'[c] \/ \E e \in Left(p)' : e.cache = c /\ e.name = g
      <4>1. WillBeThere(p, c)
        BY <1>1, <1>3, <2>2, <3>7 DEF Plan
      <4>2. CASE g = f
        <5>1. Entry(p).cache = c
          BY <2>5, <3>7, <4>2 DEF OwnFiles
        <5> QED BY <3>6, <4>2, <5>1 DEF File, f
      <4>3. CASE g # f
        <5>1. g \in Files
          BY UpdaterAssumption DEF Range
        <5>2. disk[g] = release[c] \/ \E e \in Left(p) : e.cache = c /\ e.name = g
          BY <1>1b, <1>3, <3>1, <3>7, <4>1 DEF WillBeThere
        <5> QED BY <1>1, <1>6, <3>6, <4>3, <5>1, <5>2
      <4> QED BY <4>2, <4>3
    <3>8. ASSUME ~cut', NEW c \in Caches, proc'[p].want[c] = release'[c] PROVE WillBeThere(p, c)'
      BY <3>7, <3>8 DEF WillBeThere
    <3> QED BY <3>1, <3>3, <3>4, <3>5, <3>8 DEF Plan
  <2>9. Orderly'
    BY <1>2, <2>1, <2>7, <2>8, OrderlyAlone
  <2> QED BY <1>5, <1>6, <1>8, <2>6, <2>9 DEF UpdateInv
<1> QED BY <1>9, <1>10

\* What was fetched is of the release that will be recorded, or of one that makes
\* the record out of date.
LEMMA PlaceInv ==
  ASSUME OwnFiles, UpdateInv, NEW p \in Procs, Place(p)
  PROVE  UpdateInv'
<1>0. InstancesOK /\ TmpOK /\ ContentOK /\ InstanceOK(p)
  BY DEF UpdateInv, InstancesOK
<1> DEFINE f == File(p)
           comes == IF tmp[f].opener = {p} /\ tmp[f].releases = {proc[p].gets} THEN proc[p].gets ELSE Garbage
<1>1. /\ tmp' = [tmp EXCEPT ![f] = NoTmp] /\ disk' = [disk EXCEPT ![f] = comes]
      /\ proc' = [proc EXCEPT ![p].at = "download", ![p].queue = @ \ {First(p)}, ![p].gets = 0]
      /\ UNCHANGED <<release, versions, cut, short, together>> /\ At(p, {"erased"})
  BY DEF Place, server, history
<1>2. OthersSame(p)
  BY <1>0, <1>1 DEF InstancesOK, InstanceOK, OthersSame, Same, Fields
<1>3. /\ proc'[p].at = "download" /\ proc'[p].want = proc[p].want /\ proc'[p].needs = proc[p].needs
      /\ proc'[p].files = proc[p].files /\ proc'[p].queue = proc[p].queue \ {First(p)} /\ proc'[p].gets = 0
  BY <1>0, <1>1 DEF InstancesOK, InstanceOK, Fields
<1>4. TmpOK' /\ \A g \in Files : tmp'[g].open = IF g = f THEN {} ELSE tmp[g].open
  BY <1>0, <1>1 DEF TmpOK, NoTmp
<1>5. /\ ContentOK' /\ \A g \in Files \ {f} : disk'[g] = disk[g]
      /\ f \in Files => disk'[f] = comes
  <2>1. comes \in Int
    BY <1>0 DEF InstanceOK, Garbage
  <2> HIDE DEF comes
  <2> QED BY <1>0, <1>1, <2>1 DEF ContentOK
<1> HIDE DEF f
<1>6. InstanceOK(p)'
  <2>1. Fields \subseteq DOMAIN proc'[p] /\ At(p, Updating)' /\ release' = release
    BY <1>1, <1>2, <1>3 DEF OthersSame, At, Updating
  <2> QED BY <1>0, <1>3, <2>1 DEF InstanceOK
<1>7. InstancesOK'
  BY <1>0, <1>1, <1>2, <1>6, InstancesStay
<1>8. CASE together
  BY <1>1, <1>4, <1>5, <1>7, <1>8 DEF UpdateInv
<1>9. CASE ~together
  <2>0. Orderly /\ RecordedIsThere
    BY <1>9 DEF UpdateInv
  <2>1. \A q \in Procs \ {p} : ~At(q, Updating)
    BY <1>1, <2>0 DEF Orderly, OneUpdates, At, Updating
  <2>2. Plan(p)
    BY <1>1, <2>0 DEF Orderly, At, Updating
  <2>3. Fetches(p) /\ proc[p].queue # {}
    BY <1>1, <2>2 DEF Plan, Fetches, At
  <2>4. Entry(p) \in Range(proc[p].files) /\ Entry(p) \in FileEntries
    BY <1>0, <2>3, FirstIsLeft
  <2>5. Entry(p).cache \in Caches /\ f \in Files /\ f \in Range(Manifest[Entry(p).cache]) /\ Behind(Entry(p).cache)
    BY <2>2, <2>4 DEF Plan, FileEntries, File, f
  <2>6. RecordedIsThere'
    BY <1>0, <1>1, <1>5, <2>0, <2>5, RecordedStays
  <2>7. OpenOnce'
    <3>1. \A g \in Files : tmp[g].open = {}
      BY <1>1, <2>0, <2>1, NothingOpen DEF Orderly, At
    <3>2. \A g \in Files : tmp'[g].open = {}
      BY <1>4, <3>1
    <3> QED BY <3>2 DEF OpenOnce
  <2>8. Plan(p)'
    <3>1. proc'[p].needs = {}
      BY <1>1, <1>3, <2>2 DEF Plan, At
    <3>2. \A d : Behind(d)' <=> Behind(d)
      BY <1>1 DEF Behind
    <3>3. \A e \in Range(proc'[p].files) :
            /\ e.name \in Range(Manifest[e.cache]) /\ Behind(e.cache)'
            /\ proc'[p].want[e.cache] <= e.hash /\ e.hash <= release'[e.cache]
      BY <1>1, <1>3, <2>2, <3>2 DEF Plan
    <3>4. ~At(p, {"transfer", "erased"})' /\ ~At(p, {"write"})'
      BY <1>3 DEF At
    <3>5. ASSUME NEW e \in Left(p), e # Entry(p) PROVE e \in Left(p)'
      <4>1. PICK i \in proc[p].queue : e = proc[p].files[i]
        BY <1>1 DEF Left, At
      <4>2. i # First(p)
        BY <3>5, <4>1 DEF Entry
      <4> QED BY <1>3, <4>1, <4>2 DEF Left, At
    <3>6. ASSUME ~cut', NEW c \in Caches, proc'[p].want[c] = release'[c], NEW g \in Range(Manifest[c]) \ short'
          PROVE  disk'[g] = release'[c] \/ \E e \in Left(p)' : e.cache = c /\ e.name = g
      <4>1. WillBeThere(p, c)
        BY <1>1, <1>3, <2>2, <3>6 DEF Plan
      <4>2. CASE g = f
        <5>1. Entry(p).cache = c
          BY <2>5, <3>6, <4>2 DEF OwnFiles
        <5>2. proc[p].want[c] = release[c] /\ f \notin short
          BY <1>1, <1>3, <3>6, <4>2
        <5>3. /\ proc[p].want[c] <= proc[p].gets /\ proc[p].gets <= release[c]
              /\ tmp[f].opener = {p} /\ tmp[f].releases = {proc[p].gets}
          BY <2>3, <5>1, <5>2 DEF Fetches, f
        <5>4. proc[p].gets \in Nat /\ release[c] \in Nat
          BY <1>0 DEF InstanceOK, ContentOK
        <5>5. proc[p].gets = release[c] /\ comes = proc[p].gets
          BY <5>2, <5>3, <5>4
        <5>6. disk'[f] = comes
          BY <1>5, <2>5
        <5> QED BY <1>1, <4>2, <5>5, <5>6
      <4>3. CASE g # f
        <5>1. g \in Files
          BY UpdaterAssumption DEF Range
        <5>2. disk[g] = release[c] \/ \E e \in Left(p) : e.cache = c /\ e.name = g
          BY <1>1, <1>3, <3>1, <3>6, <4>1 DEF WillBeThere
        <5>3. Entry(p).name = f
          BY DEF File, f
        <5> QED BY <1>1, <1>5, <3>5, <4>3, <5>1, <5>2, <5>3
      <4> QED BY <4>2, <4>3
    <3>7. ASSUME ~cut', NEW c \in Caches, proc'[p].want[c] = release'[c] PROVE WillBeThere(p, c)'
      BY <3>6, <3>7 DEF WillBeThere
    <3> QED BY <3>1, <3>3, <3>4, <3>7 DEF Plan
  <2>9. Orderly'
    BY <1>2, <2>1, <2>7, <2>8, OrderlyAlone
  <2> QED BY <1>4, <1>5, <1>7, <2>6, <2>9 DEF UpdateInv
<1> QED BY <1>8, <1>9

\* Nothing is recorded while caches.xml is empty.
LEMMA RecordInv ==
  ASSUME UpdateInv, NEW p \in Procs, Record(p)
  PROVE  UpdateInv'
<1>0. InstancesOK /\ TmpOK /\ ContentOK /\ InstanceOK(p)
  BY DEF UpdateInv, InstancesOK
<1>1. /\ proc' = [proc EXCEPT ![p].at = "write"] /\ versions' = [versions EXCEPT !.is = "empty"]
      /\ UNCHANGED <<release, disk, tmp, cut, short, together>> /\ At(p, {"download"}) /\ proc[p].queue = {}
  BY DEF Record, Goes, server, history
<1>2. OthersSame(p)
  BY <1>0, <1>1 DEF InstancesOK, InstanceOK, OthersSame, Same, Fields
<1>3. /\ proc'[p].at = "write" /\ proc'[p].want = proc[p].want /\ proc'[p].needs = proc[p].needs
      /\ proc'[p].files = proc[p].files /\ proc'[p].queue = proc[p].queue /\ proc'[p].gets = proc[p].gets
  BY <1>0, <1>1 DEF InstancesOK, InstanceOK, Fields
<1>4. versions'.is = "empty" /\ versions'.of = versions.of
  BY <1>0, <1>1 DEF ContentOK
<1>5. TmpOK' /\ ContentOK'
  <2>1. versions' \in [is : {"none", "empty", "cut", "written"}, of : [Caches -> Nat]]
    BY <1>0, <1>1 DEF ContentOK
  <2> QED BY <1>0, <1>1, <1>4, <2>1 DEF TmpOK, ContentOK
<1>6. InstanceOK(p)'
  <2>1. Fields \subseteq DOMAIN proc'[p] /\ At(p, Updating)' /\ release' = release
    BY <1>1, <1>2, <1>3 DEF OthersSame, At, Updating
  <2> QED BY <1>0, <1>3, <2>1 DEF InstanceOK
<1>7. InstancesOK'
  BY <1>0, <1>1, <1>2, <1>6, InstancesStay
<1>8. CASE together
  BY <1>1, <1>5, <1>7, <1>8 DEF UpdateInv
<1>9. CASE ~together
  <2>0. Orderly
    BY <1>9 DEF UpdateInv
  <2>1. \A q \in Procs \ {p} : ~At(q, Updating)
    BY <1>1, <2>0 DEF Orderly, OneUpdates, At, Updating
  <2>2. Plan(p)
    BY <1>1, <2>0 DEF Orderly, At, Updating
  <2>3. OpenOnce'
    <3>1. \A g \in Files : tmp[g].open = {}
      BY <1>1, <2>0, <2>1, NothingOpen DEF Orderly, At
    <3> QED BY <1>1, <3>1 DEF OpenOnce
  <2>4. Plan(p)'
    <3>1. proc'[p].needs = {}
      BY <1>1, <1>3, <2>2 DEF Plan, At
    <3>2. \A d : Behind(d)'
      BY <1>4 DEF Behind
    <3>3. \A e \in Range(proc'[p].files) :
            /\ e.name \in Range(Manifest[e.cache]) /\ Behind(e.cache)'
            /\ proc'[p].want[e.cache] <= e.hash /\ e.hash <= release'[e.cache]
      BY <1>1, <1>3, <2>2, <3>2 DEF Plan
    <3>4. ~At(p, {"transfer", "erased"})' /\ (At(p, {"write"})' => versions'.is = "empty" /\ proc'[p].queue = {})
      BY <1>1, <1>3, <1>4 DEF At
    <3>5. Left(p)' = Left(p)
      BY <1>1, <1>3 DEF Left, At
    <3>6. ASSUME ~cut', NEW c \in Caches, proc'[p].want[c] = release'[c] PROVE WillBeThere(p, c)'
      <4>1. WillBeThere(p, c)
        BY <1>1, <1>3, <2>2, <3>6 DEF Plan
      <4> QED BY <1>1, <1>3, <3>5, <4>1 DEF WillBeThere
    <3> QED BY <3>1, <3>3, <3>4, <3>6 DEF Plan
  <2>5. Orderly'
    BY <1>2, <2>1, <2>3, <2>4, OrderlyAlone
  <2>6. RecordedIsThere'
    BY <1>4 DEF RecordedIsThere
  <2> QED BY <1>5, <1>7, <2>5, <2>6 DEF UpdateInv
<1> QED BY <1>8, <1>9

\* Nothing was left to be fetched; and where caches.xml is not written, or not
\* whole, it says nothing.
LEMMA WriteInv ==
  ASSUME UpdateInv, NEW p \in Procs, Write(p) \/ NotRecorded(p)
  PROVE  UpdateInv'
<1>0. InstancesOK /\ TmpOK /\ ContentOK /\ InstanceOK(p)
  BY DEF UpdateInv, InstancesOK
<1>1. /\ proc' = [proc EXCEPT ![p].at = "game", ![p].want = Idle.want, ![p].files = <<>>, ![p].queue = {}]
      /\ UNCHANGED <<release, disk, tmp, cut, short, together>> /\ At(p, {"write", "download"})
      /\ \/ versions' = versions
         \/ versions' = [versions EXCEPT !.is = "cut"]
         \/ At(p, {"write"}) /\ versions' = [is |-> "written", of |-> proc[p].want]
  BY DEF Write, NotRecorded, Done, At, server, content, history
<1>2. OthersSame(p)
  BY <1>0, <1>1 DEF InstancesOK, InstanceOK, OthersSame, Same, Fields
<1>3. /\ proc'[p].at = "game" /\ proc'[p].want = Idle.want /\ proc'[p].needs = proc[p].needs
      /\ proc'[p].files = <<>> /\ proc'[p].queue = {} /\ proc'[p].gets = proc[p].gets
  BY <1>0, <1>1 DEF InstancesOK, InstanceOK, Fields, Idle
<1>4. \A c \in Caches : release[c] \in Nat
  BY <1>0 DEF ContentOK
<1>5. TmpOK' /\ ContentOK'
  <2>1. proc[p].want \in [Caches -> Nat] /\ \A c \in Caches : proc[p].want[c] <= release[c]
    BY <1>0 DEF InstanceOK
  <2>2. /\ versions' \in [is : {"none", "empty", "cut", "written"}, of : [Caches -> Nat]]
        /\ versions'.of \in {versions.of, proc[p].want}
    <3>1. versions \in [is : {"none", "empty", "cut", "written"}, of : [Caches -> Nat]]
      BY <1>0 DEF ContentOK
    <3>2. CASE versions' = versions
      BY <3>1, <3>2
    <3>3. CASE versions' = [versions EXCEPT !.is = "cut"]
      BY <3>1, <3>3
    <3>4. CASE versions' = [is |-> "written", of |-> proc[p].want]
      BY <2>1, <3>4
    <3> QED BY <1>1, <3>2, <3>3, <3>4
  <2> QED BY <1>0, <1>1, <2>1, <2>2 DEF TmpOK, ContentOK
<1>6. InstanceOK(p)'
  <2>1. Fields \subseteq DOMAIN proc'[p] /\ release' = release
    BY <1>1, <1>2 DEF OthersSame
  <2>2. proc'[p].want \in [Caches -> Nat] /\ \A c \in Caches : proc'[p].want[c] = 0
    BY <1>3 DEF Idle
  <2>3. \A c \in Caches : proc'[p].want[c] <= release'[c]
    BY <1>4, <2>1, <2>2
  <2>4. <<>> \in Seq(FileEntries)
    OBVIOUS
  <2> QED BY <1>0, <1>3, <2>1, <2>2, <2>3, <2>4 DEF InstanceOK
<1>7. InstancesOK'
  BY <1>0, <1>1, <1>2, <1>6, InstancesStay
<1>8. CASE together
  BY <1>1, <1>5, <1>7, <1>8 DEF UpdateInv
<1>9. CASE ~together
  <2>0. Orderly /\ RecordedIsThere
    BY <1>9 DEF UpdateInv
  <2>1. \A q \in Procs \ {p} : ~At(q, Updating)
    BY <1>1, <2>0 DEF Orderly, OneUpdates, At, Updating
  <2>2. Plan(p)
    BY <1>1, <2>0 DEF Orderly, At, Updating
  <2>3. OpenOnce'
    <3>1. \A g \in Files : tmp[g].open = {}
      BY <1>1, <2>0, <2>1, NothingOpen DEF Orderly, At
    <3> QED BY <1>1, <3>1 DEF OpenOnce
  <2>4. Orderly'
    BY <1>2, <1>3, <2>1, <2>3, OrderlyAlone DEF At, Updating
  <2>5. ASSUME At(p, {"write"}), ~cut, NEW c \in Caches, proc[p].want[c] = release[c]
        PROVE  \A f \in Range(Manifest[c]) \ short : disk[f] = release[c]
    <3>1. proc[p].needs = {} /\ Left(p) = {}
      BY <2>2, <2>5 DEF Plan, At, Left
    <3>2. WillBeThere(p, c)
      BY <2>2, <2>5 DEF Plan
    <3> QED BY <3>1, <3>2 DEF WillBeThere
  <2>6. RecordedIsThere'
    <3>1. CASE versions' = versions
      BY <1>1, <2>0, <3>1 DEF RecordedIsThere
    <3>2. CASE versions' = [versions EXCEPT !.is = "cut"]
      <4>1. versions'.is = "cut"
        BY <1>0, <3>2 DEF ContentOK
      <4> QED BY <4>1 DEF RecordedIsThere
    <3>3. CASE At(p, {"write"}) /\ versions' = [is |-> "written", of |-> proc[p].want]
      BY <1>1, <2>5, <3>3 DEF RecordedIsThere
    <3> QED BY <1>1, <3>1, <3>2, <3>3
  <2> QED BY <1>5, <1>7, <2>4, <2>6 DEF UpdateInv
<1> QED BY <1>8, <1>9

-------------------------------------------------------------------------------

\* A cache that caches.xml says is up to date has all files of that release, if
\* no file is in two caches: for any caches, files, manifests and instances,
\* wherever updates ended; but for files the disk did not take whole, and unless
\* a manifest or caches.xml was read in part or two updated at once.
THEOREM RecordIsTrue ==
  ASSUME OwnFiles
  PROVE  Spec => []RecordedIsThere
<1>1. Init => UpdateInv
  BY UpdateInitInv
<1>2. UpdateInv /\ [Next]_vars => UpdateInv'
  <2> SUFFICES ASSUME UpdateInv, [Next]_vars PROVE UpdateInv'
    OBVIOUS
  <2>1. CASE Publish
    BY <2>1, ReleaseInv
  <2>2. ASSUME NEW p \in Procs, Launch(p) \/ Step(p) \/ Exit(p) PROVE UpdateInv'
    <3>1. ContentStep(p)
      BY <2>2, StepsOfContent DEF UpdateInv
    <3> QED BY <3>1, QuietInv, FetchCachesInv, FetchManifestInv, CheckInv, OpenInv, TransferredInv, PlaceInv,
               RecordInv, WriteInv DEF ContentStep
  <2>3. CASE UNCHANGED vars
    <3>1. UNCHANGED <<release, disk, tmp, versions, proc, cut, short, together>>
      BY <2>3 DEF vars, server, content, history
    <3>2. InstancesOK' /\ TmpOK' /\ ContentOK'
      BY <3>1 DEF UpdateInv, InstancesOK, InstanceOK, At, TmpOK, ContentOK
    <3>3. RecordedIsThere => RecordedIsThere'
      BY <3>1 DEF RecordedIsThere
    <3>4. Orderly => Orderly'
      BY <3>1 DEF Orderly, OneUpdates, OpenOnce, Plan, Fetches, WillBeThere, Left, Behind, File, Entry, First, At
    <3> QED BY <3>1, <3>2, <3>3, <3>4 DEF UpdateInv
  <2> QED BY <2>1, <2>2, <2>3 DEF Next
<1>3. UpdateInv => RecordedIsThere
  BY DEF UpdateInv, RecordedIsThere
<1> QED BY <1>1, <1>2, <1>3, PTL DEF Spec
===============================================================================
