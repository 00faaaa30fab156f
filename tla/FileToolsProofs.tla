---------------------------- MODULE FileToolsProofs ----------------------------
(***************************************************************************)
(* Proofs about the trash, archive extraction and archive creation, for    *)
(* any paths, names and archives, and any number of operations, failures   *)
(* and crashes.  Each has its own part below, which says what makes its    *)
(* invariant inductive.                                                    *)
(***************************************************************************)
EXTENDS TrashManager, ArchiveExtractor, ArchiveCreator, FiniteSetTheorems, TLAPS

-----------------------------------------------------------------------------
(* The trash: every file in it has an info, which names the path it came    *)
(* from, and no file stays set aside.                                       *)
(*                                                                          *)
(* What makes this inductive is who owns a name of the trash.  A trash      *)
(* operation between its info and its rename, and a restore between its     *)
(* rename and the removal of the info, hold a name: its info is there, its  *)
(* file is not, and so nobody else can take the name, move a file out of    *)
(* it or have it purged.  The origins need, beyond that, what lies at the   *)
(* paths, under the backup names and at the free names of Keep Both.        *)
(*                                                                          *)
(* The list of the trash is what the disk holds once nothing is under way:  *)
(* only the scan asked for last is taken, what it has read is what is there *)
(* unless a change of it is still to be heard of, and each change that is   *)
(* heard of has a scan asked for.                                           *)
Jobs == [todo : SUBSET Paths, now : Paths \cup {None}, name : Names \cup {None},
         choice : Decisions \cup {"Skip"}, dest : Paths \cup Spares \cup {None}, backed : BOOLEAN]

DiskTypeOK ==
  /\ at \in [Data -> Places] /\ info \in [Names -> Paths \cup {None}]
  /\ origin \in [Data -> Paths \cup {None}]
  /\ pc \in [Workers -> Steps] /\ failed \in [Workers -> BOOLEAN]
  /\ job \in [Workers -> Jobs]
  /\ misled \in BOOLEAN

ListTypeOK ==
  /\ entries \subseteq Rows
  /\ scans \subseteq [newest : BOOLEAN, read : BOOLEAN, rows : SUBSET Rows]
  /\ busy \in BOOLEAN /\ changed \in BOOLEAN /\ unseen \in BOOLEAN
  /\ others \in 0 .. Others

Restores == {"restore", "dropInfo", "moveBack"}
Holds(w) == pc[w] \in {"rename", "dropInfo", "moveBack"}
Moved(w) == pc[w] \in {"dropInfo", "moveBack"}

(* What a worker's request has been checked to be when it is at a step.     *)
RequestOK(w) ==
  /\ pc[w] = "inspect" => job[w].name \in Names
  /\ pc[w] = "rename" => job[w].name \in Names /\ job[w].now \in Paths
  /\ pc[w] = "protect" => job[w].dest = job[w].now
  /\ pc[w] \in Restores \cup {"protect", "unprotect", "cleanup"} =>
       /\ job[w].name \in Names /\ job[w].now \in Paths
       /\ job[w].dest \in {job[w].now} \cup Spares

(* A name that is held has an info and no file.                             *)
NameHeld(w) ==
  Holds(w) => /\ info[job[w].name] # None
              /\ \A d \in Data : at[d] # job[w].name
              /\ pc[w] = "rename" => info[job[w].name] = job[w].now

HeldApart ==
  \A v, w \in Workers : Holds(v) /\ Holds(w) /\ job[v].name = job[w].name => v = w

AsideOK(w) ==
  /\ pc[w] \in {"idle", "locate", "rename", "inspect", "protect"} => \A d \in Data : at[d] # w
  /\ pc[w] \in Restores /\ ~job[w].backed => \A d \in Data : at[d] # w
  /\ pc[w] \in {"report", "done"} => failed[w] \/ \A d \in Data : at[d] # w

FilesHaveInfo == \A d \in Data : at[d] \in Names => info[at[d]] # None

(* What a restore under way has moved, and has set aside.                   *)
OriginsOf(w) ==
  /\ Moved(w) => /\ info[job[w].name] = job[w].now
                 /\ job[w].dest \in Spares =>
                      /\ \E d \in Data : at[d] = job[w].dest
                      /\ \A d \in Data : at[d] = job[w].dest => origin[d] \in {None, job[w].now}
  /\ pc[w] \in Restores \cup {"unprotect"} =>
       \A d \in Data : at[d] = w => origin[d] \in {None, job[w].now}

OriginsKept ==
  /\ \A d \in Data : at[d] \in Names => origin[d] \in {None, info[at[d]]}
  /\ \A d \in Data : at[d] \in Paths => origin[d] \in {None, at[d]}
  /\ \A d \in Data : at[d] = Unborn => origin[d] = None
  /\ \A w \in Workers : OriginsOf(w)
  /\ \A v, w \in Workers :
       Moved(v) /\ Moved(w) /\ job[v].dest \in Spares /\ job[v].dest = job[w].dest => v = w

DiskInv ==
  /\ DiskTypeOK
  /\ \A w \in Workers : RequestOK(w) /\ NameHeld(w) /\ AsideOK(w)
  /\ HeldApart /\ FilesHaveInfo
  /\ ~misled => OriginsKept

-----------------------------------------------------------------------------
(* A step of one worker: what it leaves of the others.                      *)
LEMMA OneWorker ==
  ASSUME DiskTypeOK, NEW w \in Workers, NEW s \in Steps, NEW r \in Jobs, NEW b \in BOOLEAN,
         pc' = [pc EXCEPT ![w] = s], job' = [job EXCEPT ![w] = r],
         failed' = [failed EXCEPT ![w] = b]
  PROVE  /\ pc' \in [Workers -> Steps] /\ job' \in [Workers -> Jobs]
         /\ failed' \in [Workers -> BOOLEAN]
         /\ pc'[w] = s /\ job'[w] = r /\ failed'[w] = b
         /\ \A v \in Workers : v # w =>
              pc'[v] = pc[v] /\ job'[v] = job[v] /\ failed'[v] = failed[v]
BY DEF DiskTypeOK

LEMMA Unchanging ==
  ASSUME DiskTypeOK, NEW w \in Workers
  PROVE  /\ job[w] \in Jobs /\ failed[w] \in BOOLEAN
         /\ job = [job EXCEPT ![w] = job[w]] /\ failed = [failed EXCEPT ![w] = failed[w]]
BY DEF DiskTypeOK

(* Moving a file changes where files are at two places only.                *)
LEMMA MoveMoves ==
  ASSUME DiskTypeOK, NEW from, NEW to \in Places, Move(from, to)
  PROVE  /\ at' \in [Data -> Places]
         /\ \A d \in Data : at'[d] = IF at[d] = from THEN to ELSE at[d]
BY DEF DiskTypeOK, Move

(* A step that leaves the files alone and takes no name.                    *)
LEMMA QuietKeeps ==
  ASSUME DiskInv, NEW w \in Workers, NEW s \in Steps, NEW r \in Jobs, NEW b \in BOOLEAN,
         pc' = [pc EXCEPT ![w] = s], job' = [job EXCEPT ![w] = r],
         failed' = [failed EXCEPT ![w] = b], UNCHANGED <<disk, misled>>,
         s \notin {"rename", "dropInfo", "moveBack"},
         RequestOK(w)', AsideOK(w)',
         s \in {"restore", "unprotect"} =>
           (~misled => \A d \in Data : at[d] = w => origin[d] \in {None, r.now})
  PROVE  DiskInv'
<1>1. /\ pc' \in [Workers -> Steps] /\ job' \in [Workers -> Jobs] /\ failed' \in [Workers -> BOOLEAN]
      /\ pc'[w] = s /\ job'[w] = r
      /\ \A v \in Workers : v # w =>
           pc'[v] = pc[v] /\ job'[v] = job[v] /\ failed'[v] = failed[v]
  BY OneWorker DEF DiskInv
<1>2. UNCHANGED <<at, info, origin, misled>>
  BY DEF disk
<1>3. DiskTypeOK'
  BY <1>1, <1>2 DEF DiskInv, DiskTypeOK
<1>4. ASSUME NEW v \in Workers PROVE (RequestOK(v) /\ NameHeld(v) /\ AsideOK(v))'
  <2>1. CASE v = w
    BY <1>1, <2>1 DEF NameHeld, Holds
  <2>2. CASE v # w
    BY <1>1, <1>2, <2>2 DEF DiskInv, RequestOK, NameHeld, AsideOK, Holds
  <2>. QED
    BY <2>1, <2>2
<1>5. HeldApart'
  BY <1>1 DEF DiskInv, HeldApart, Holds
<1>6. FilesHaveInfo'
  BY <1>2 DEF DiskInv, FilesHaveInfo
<1>7. ~misled => OriginsKept'
  <2> SUFFICES ASSUME ~misled PROVE OriginsKept'
    OBVIOUS
  <2>1. ASSUME NEW v \in Workers PROVE OriginsOf(v)'
    <3>1. CASE v = w
      BY <1>1, <1>2, <3>1 DEF OriginsOf, Moved, Restores
    <3>2. CASE v # w
      BY <1>1, <1>2, <3>2 DEF DiskInv, OriginsKept, OriginsOf, Moved
    <3>. QED
      BY <3>1, <3>2
  <2>2. \A u, v \in Workers :
          (Moved(u) /\ Moved(v) /\ job[u].dest \in Spares /\ job[u].dest = job[v].dest => u = v)'
    BY <1>1 DEF DiskInv, OriginsKept, Moved
  <2>. QED
    BY <1>2, <2>1, <2>2 DEF DiskInv, OriginsKept
<1>. QED
  BY <1>2, <1>3, <1>4, <1>5, <1>6, <1>7 DEF DiskInv

(* Another worker's claims, when the places and names they are about are     *)
(* untouched.                                                                *)
LEMMA OtherKeeps ==
  ASSUME DiskInv, NEW v \in Workers, UNCHANGED <<pc[v], job[v], failed[v]>>,
         \A d \in Data : at'[d] = v => at[d] = v /\ origin'[d] \in {None, origin[d]},
         Holds(v) => /\ info'[job[v].name] = info[job[v].name]
                     /\ \A d \in Data : at'[d] = job[v].name => at[d] = job[v].name,
         Moved(v) /\ job[v].dest \in Spares /\ ~misled =>
           /\ \A d \in Data : at[d] = job[v].dest => at'[d] = job[v].dest
           /\ \A d \in Data : at'[d] = job[v].dest =>
                at[d] = job[v].dest /\ origin'[d] \in {None, origin[d]}
  PROVE  /\ RequestOK(v)' /\ NameHeld(v)' /\ AsideOK(v)'
         /\ ~misled => OriginsOf(v)'
<1>1. RequestOK(v)'
  BY DEF DiskInv, RequestOK
<1>2. NameHeld(v)'
  BY DEF DiskInv, NameHeld, Holds
<1>3. AsideOK(v)'
  BY DEF DiskInv, AsideOK
<1>4. ~misled => OriginsOf(v)'
  <2> SUFFICES ASSUME ~misled PROVE OriginsOf(v)'
    OBVIOUS
  <2>1. OriginsOf(v)
    BY DEF DiskInv, OriginsKept
  <2>2. Moved(v) => Holds(v)
    BY DEF Moved, Holds
  <2>. QED
    BY <2>1, <2>2 DEF OriginsOf, Moved
<1>. QED
  BY <1>1, <1>2, <1>3, <1>4

-----------------------------------------------------------------------------
(* The requests, and their ends.                                            *)
LEMMA BeginKeeps ==
  ASSUME DiskInv, ListTypeOK, NEW w \in Workers, trash(w) \/ restore(w) \/ Report(w), misled' = misled
  PROVE  DiskInv'
<1>1. job[w] \in Jobs /\ failed[w] \in BOOLEAN /\ failed = [failed EXCEPT ![w] = failed[w]]
  BY Unchanging DEF DiskInv
<1>2. failed' = [failed EXCEPT ![w] = failed[w]] /\ UNCHANGED <<disk, misled>>
  BY <1>1 DEF trash, restore, Begin, Report
<1>3. NoJob \in Jobs
  BY DEF NoJob, Jobs
<1>4. CASE trash(w)
  <2>1. PICK sources \in SUBSET {p \in Paths : Exists(p)} \ {{}} :
          Begin(w, [NoJob EXCEPT !.todo = sources], "locate")
    BY <1>4 DEF trash
  <2>2. PICK r : r = [NoJob EXCEPT !.todo = sources]
    OBVIOUS
  <2>3. r \in Jobs
    BY <2>2 DEF NoJob, Jobs
  <2>4. pc[w] = "idle" /\ pc' = [pc EXCEPT ![w] = "locate"] /\ job' = [job EXCEPT ![w] = r]
    BY <2>1, <2>2 DEF Begin, Goto
  <2>5. pc'[w] = "locate" /\ failed'[w] = failed[w] /\ job'[w] = r /\ at' = at
    BY <1>1, <1>2, <2>3, <2>4, OneWorker DEF DiskInv, Steps, disk
  <2>6. RequestOK(w)' /\ AsideOK(w)'
    BY <2>4, <2>5 DEF RequestOK, AsideOK, Restores, DiskInv
  <2>. QED
    BY <1>1, <1>2, <2>3, <2>4, <2>6, QuietKeeps DEF Steps
<1>5. CASE restore(w)
  <2>1. PICK e \in entries, choice \in Decisions :
          Begin(w, [NoJob EXCEPT !.name = e.name, !.now = e.path, !.choice = choice], "inspect")
    BY <1>5 DEF restore
  <2>2. PICK r : r = [NoJob EXCEPT !.name = e.name, !.now = e.path, !.choice = choice]
    OBVIOUS
  <2>3. e \in Rows
    BY DEF ListTypeOK
  <2>4. r \in Jobs /\ r.name \in Names
    BY <2>2, <2>3 DEF NoJob, Jobs, Rows
  <2>5. pc[w] = "idle" /\ pc' = [pc EXCEPT ![w] = "inspect"] /\ job' = [job EXCEPT ![w] = r]
    BY <2>1, <2>2 DEF Begin, Goto
  <2>6. pc'[w] = "inspect" /\ failed'[w] = failed[w] /\ job'[w] = r /\ at' = at
    BY <1>1, <1>2, <2>4, <2>5, OneWorker DEF DiskInv, Steps, disk
  <2>7. RequestOK(w)' /\ AsideOK(w)'
    BY <2>4, <2>5, <2>6 DEF RequestOK, AsideOK, Restores, DiskInv
  <2>. QED
    BY <1>1, <1>2, <2>4, <2>5, <2>7, QuietKeeps DEF Steps
<1>6. CASE Report(w)
  <2>1. pc[w] = "report" /\ pc' = [pc EXCEPT ![w] = "done"] /\ job' = [job EXCEPT ![w] = NoJob]
    BY <1>6 DEF Report, Goto
  <2>2. pc'[w] = "done" /\ failed'[w] = failed[w] /\ job'[w] = NoJob /\ at' = at
    BY <1>1, <1>2, <1>3, <2>1, OneWorker DEF DiskInv, Steps, disk
  <2>3. RequestOK(w)' /\ AsideOK(w)'
    BY <2>1, <2>2 DEF RequestOK, AsideOK, Restores, DiskInv
  <2>. QED
    BY <1>1, <1>2, <1>3, <2>1, <2>3, QuietKeeps DEF Steps
<1>. QED
  BY <1>4, <1>5, <1>6

(* restoreEntry's checks, and every step that fails without touching a file. *)
LEMMA FailureKeeps ==
  ASSUME DiskInv, NEW w \in Workers, NEW s \in {"report", "unprotect"}, NEW b \in BOOLEAN,
         pc' = [pc EXCEPT ![w] = s], failed' = [failed EXCEPT ![w] = b],
         UNCHANGED <<job, disk, misled>>,
         \/ /\ pc[w] \in {"locate", "inspect", "protect"} /\ s = "report"
         \/ /\ pc[w] \in Restores /\ s = AfterUndo(w)
         \/ s = "report" /\ b
  PROVE  DiskInv'
<1>1. job[w] \in Jobs /\ job = [job EXCEPT ![w] = job[w]] /\ s \in Steps
  BY Unchanging DEF DiskInv, Steps
<1>2. pc'[w] = s /\ failed'[w] = b /\ job'[w] = job[w] /\ at' = at
  BY <1>1, OneWorker DEF DiskInv, disk
<1>3. s = "unprotect" => pc[w] \in Restores
  BY DEF Restores
<1>4. RequestOK(w)'
  BY <1>2, <1>3 DEF RequestOK, DiskInv, Restores
<1>5. AsideOK(w)'
  BY <1>2, <1>3 DEF AsideOK, DiskInv, Restores, AfterUndo
<1>6. s = "unprotect" => (~misled => \A d \in Data : at[d] = w => origin[d] \in {None, job[w].now})
  BY <1>3 DEF DiskInv, OriginsKept, OriginsOf
<1>. QED
  BY <1>1, <1>4, <1>5, <1>6, QuietKeeps

LEMMA InspectKeeps ==
  ASSUME DiskInv, NEW w \in Workers, Inspect(w), misled' = misled
  PROVE  DiskInv'
<1>1. /\ job[w] \in Jobs /\ failed[w] \in BOOLEAN /\ pc[w] = "inspect"
      /\ failed' = [failed EXCEPT ![w] = failed[w]] /\ UNCHANGED <<disk, misled>>
      /\ job[w].name \in Names /\ \A d \in Data : at[d] # w
  BY Unchanging DEF DiskInv, Inspect, RequestOK, AsideOK
<1>2. CASE Goto(w, "report") /\ UNCHANGED job
  BY <1>1, <1>2, FailureKeeps DEF Goto
<1>3. CASE \E x \in Paths \cup Spares :
             /\ job' = [job EXCEPT ![w].dest = x] /\ job[w].now \in Paths
             /\ \/ Goto(w, "restore") /\ x \in {job[w].now} \cup Spares
                \/ Goto(w, "protect") /\ x = job[w].now
  <2>1. PICK x \in Paths \cup Spares :
             /\ job' = [job EXCEPT ![w].dest = x] /\ job[w].now \in Paths
             /\ \/ Goto(w, "restore") /\ x \in {job[w].now} \cup Spares
                \/ Goto(w, "protect") /\ x = job[w].now
    BY <1>3
  <2>2. PICK r : r = [job[w] EXCEPT !.dest = x]
    OBVIOUS
  <2>3. r \in Jobs /\ r.name = job[w].name /\ r.now = job[w].now /\ r.dest = x
    BY <1>1, <2>2 DEF Jobs
  <2>4. job' = [job EXCEPT ![w] = r]
    BY <2>1, <2>2 DEF DiskInv, DiskTypeOK
  <2>5. PICK s \in {"restore", "protect"} : /\ pc' = [pc EXCEPT ![w] = s]
                                            /\ x \in {job[w].now} \cup Spares
                                            /\ s = "protect" => x = job[w].now
    BY <2>1 DEF Goto
  <2>6. s \in Steps
    BY DEF Steps
  <2>7. pc'[w] = s /\ job'[w] = r /\ failed'[w] = failed[w] /\ at' = at
    BY <1>1, <2>3, <2>4, <2>5, <2>6, OneWorker DEF DiskInv, disk
  <2>8. RequestOK(w)' /\ AsideOK(w)'
    BY <1>1, <2>1, <2>3, <2>5, <2>7 DEF RequestOK, AsideOK, Restores
  <2>. QED
    BY <1>1, <2>3, <2>4, <2>5, <2>6, <2>8, QuietKeeps
<1>4. job[w].now \in Paths \cup {None}
  BY <1>1 DEF Jobs
<1>. QED
  BY <1>2, <1>3, <1>4 DEF Inspect

-----------------------------------------------------------------------------
(* A step of one worker that changes the disk: what is left to show of it.  *)
DataOrigins ==
  /\ \A d \in Data : at[d] \in Names => origin[d] \in {None, info[at[d]]}
  /\ \A d \in Data : at[d] \in Paths => origin[d] \in {None, at[d]}
  /\ \A d \in Data : at[d] = Unborn => origin[d] = None

WorkerGoes(w, s, r, b) ==
  /\ pc' = [pc EXCEPT ![w] = s] /\ job' = [job EXCEPT ![w] = r]
  /\ failed' = [failed EXCEPT ![w] = b]

DiskIsTyped ==
  /\ at' \in [Data -> Places] /\ info' \in [Names -> Paths \cup {None}]
  /\ origin' \in [Data -> Paths \cup {None}] /\ misled' \in BOOLEAN /\ (~misled' => ~misled)

(* The step of a worker to s with the request r touches nothing of v's.     *)
Untouched(v, s, r) ==
  /\ \A d \in Data : at'[d] = v => at[d] = v /\ origin'[d] \in {None, origin[d]}
  /\ Holds(v) => /\ info'[job[v].name] = info[job[v].name]
                 /\ \A d \in Data : at'[d] = job[v].name => at[d] = job[v].name
  /\ Moved(v) /\ job[v].dest \in Spares /\ ~misled =>
       /\ \A d \in Data : at[d] = job[v].dest => at'[d] = job[v].dest
       /\ \A d \in Data : at'[d] = job[v].dest =>
            at[d] = job[v].dest /\ origin'[d] \in {None, origin[d]}
  /\ s \in {"rename", "dropInfo", "moveBack"} /\ Holds(v) => job[v].name # r.name
  /\ s \in {"dropInfo", "moveBack"} /\ Moved(v) /\ job[v].dest \in Spares /\ ~misled =>
       job[v].dest # r.dest

LEMMA ChangeKeeps ==
  ASSUME DiskInv, NEW w \in Workers, NEW s \in Steps, NEW r \in Jobs, NEW b \in BOOLEAN,
         WorkerGoes(w, s, r, b), DiskIsTyped,
         RequestOK(w)', NameHeld(w)', AsideOK(w)', ~misled' => OriginsOf(w)',
         \A v \in Workers \ {w} : Untouched(v, s, r),
         FilesHaveInfo', ~misled' => DataOrigins'
  PROVE  DiskInv'
<1>1. /\ pc' \in [Workers -> Steps] /\ job' \in [Workers -> Jobs] /\ failed' \in [Workers -> BOOLEAN]
      /\ pc'[w] = s /\ job'[w] = r
      /\ \A v \in Workers : v # w =>
           pc'[v] = pc[v] /\ job'[v] = job[v] /\ failed'[v] = failed[v]
  BY OneWorker DEF DiskInv, WorkerGoes
<1>2. DiskTypeOK'
  BY <1>1 DEF DiskTypeOK, DiskIsTyped
<1>3. ASSUME NEW v \in Workers, v # w
      PROVE  RequestOK(v)' /\ NameHeld(v)' /\ AsideOK(v)' /\ (~misled => OriginsOf(v)')
  BY <1>1, <1>3, OtherKeeps DEF Untouched
<1>4. HeldApart'
  BY <1>1 DEF DiskInv, HeldApart, Holds, Untouched
<1>5. ~misled' => OriginsKept'
  <2>1. ~misled' =>
          \A u, v \in Workers : Moved(u)' /\ Moved(v)' /\ job'[u].dest \in Spares
                                /\ job'[u].dest = job'[v].dest => u = v
    BY <1>1 DEF DiskInv, OriginsKept, Moved, Untouched, DiskIsTyped
  <2>. QED
    BY <1>3, <2>1 DEF OriginsKept, DataOrigins, DiskIsTyped
<1>. QED
  BY <1>2, <1>3, <1>4, <1>5 DEF DiskInv

(* The facts about the places that the steps need.                          *)
LEMMA Apart ==
  /\ \A p \in Paths : p \notin Spares \cup Names \cup Workers \cup {Unborn, Gone, None}
  /\ \A p \in Spares : p \notin Names \cup Workers \cup {Unborn, Gone, None}
  /\ \A p \in Names : p \notin Workers \cup {Unborn, Gone, None}
  /\ \A p \in Workers : p \notin {Unborn, Gone, None}
  /\ Unborn \notin {Gone, None} /\ Gone # None
BY PlacesAssumption

LEMMA CreateInfoKeeps ==
  ASSUME DiskInv, NEW w \in Workers, createTrashInfo(w), misled' = misled
  PROVE  DiskInv'
<1>1. /\ job[w] \in Jobs /\ failed[w] \in BOOLEAN /\ pc[w] = "locate"
      /\ failed' = failed /\ failed = [failed EXCEPT ![w] = failed[w]]
      /\ UNCHANGED <<at, origin>> /\ \A d \in Data : at[d] # w
  BY Unchanging DEF DiskInv, createTrashInfo, AsideOK, disk
<1>2. CASE Goto(w, "report") /\ UNCHANGED <<disk, job>>
  BY <1>1, <1>2, FailureKeeps DEF Goto
<1>3. CASE \E p \in job[w].todo : \E n \in {m \in Names : ~Exists(m) /\ info[m] = None} :
             /\ info' = [info EXCEPT ![n] = p]
             /\ job' = [job EXCEPT ![w].now = p, ![w].name = n]
             /\ Goto(w, "rename")
  <2>1. PICK p \in job[w].todo, n \in Names :
             /\ \A d \in Data : at[d] # n
             /\ info[n] = None
             /\ info' = [info EXCEPT ![n] = p]
             /\ job' = [job EXCEPT ![w].now = p, ![w].name = n]
             /\ pc' = [pc EXCEPT ![w] = "rename"]
    BY <1>3 DEF Exists, Goto
  <2>2. PICK r : r = [job[w] EXCEPT !.now = p, !.name = n]
    OBVIOUS
  <2>3. p \in Paths /\ r \in Jobs /\ r.name = n /\ r.now = p
    BY <1>1, <2>1, <2>2 DEF Jobs
  <2>4. job' = [job EXCEPT ![w] = r]
    BY <2>1, <2>2 DEF DiskInv, DiskTypeOK
  <2>5. "rename" \in Steps
    BY DEF Steps
  <2>6. pc'[w] = "rename" /\ job'[w] = r
    BY <1>1, <2>1, <2>3, <2>4, <2>5, OneWorker DEF DiskInv
  <2>7. /\ info' \in [Names -> Paths \cup {None}] /\ info'[n] = p /\ p # None
        /\ \A m \in Names : m # n => info'[m] = info[m]
    BY <2>1, <2>3, Apart DEF DiskInv, DiskTypeOK
  <2>8. RequestOK(w)' /\ NameHeld(w)' /\ AsideOK(w)' /\ OriginsOf(w)'
    BY <1>1, <2>1, <2>3, <2>6, <2>7
       DEF RequestOK, NameHeld, AsideOK, OriginsOf, Moved, Restores
  <2>9. FilesHaveInfo'
    BY <1>1, <2>1, <2>7 DEF DiskInv, FilesHaveInfo
  <2>10. ~misled => DataOrigins'
    BY <1>1, <2>1, <2>7 DEF DiskInv, OriginsKept, DataOrigins
  <2>11. ASSUME NEW v \in Workers, Holds(v)
         PROVE  job[v].name \in Names /\ job[v].name # n
    BY <2>1, <2>11 DEF DiskInv, RequestOK, NameHeld, Holds, Restores
  <2>12. at' \in [Data -> Places] /\ origin' \in [Data -> Paths \cup {None}] /\ misled' \in BOOLEAN
    BY <1>1 DEF DiskInv, DiskTypeOK
  <2>13. DiskIsTyped
    BY <2>7, <2>12 DEF DiskIsTyped
  <2>14. ASSUME NEW v \in Workers \ {w} PROVE Untouched(v, "rename", r)
    BY <1>1, <2>3, <2>7, <2>11 DEF Untouched
  <2>15. WorkerGoes(w, "rename", r, failed[w])
    BY <1>1, <2>1, <2>4 DEF WorkerGoes
  <2>. QED
    BY <1>1, <2>3, <2>5, <2>8, <2>9, <2>10, <2>13, <2>14, <2>15, ChangeKeeps
<1>. QED
  BY <1>1, <1>2, <1>3 DEF createTrashInfo

LEMMA MoveToTrashKeeps ==
  ASSUME DiskInv, NEW w \in Workers, moveToTrash(w), misled' = misled
  PROVE  DiskInv'
<1>1. PICK n, p : n = job[w].name /\ p = job[w].now
  OBVIOUS
<1>2. /\ job[w] \in Jobs /\ failed[w] \in BOOLEAN /\ pc[w] = "rename"
      /\ failed' = failed /\ failed = [failed EXCEPT ![w] = failed[w]]
      /\ job = [job EXCEPT ![w] = job[w]]
      /\ \A d \in Data : at[d] # w
  BY Unchanging DEF DiskInv, moveToTrash, AsideOK
<1>3. /\ n \in Names /\ p \in Paths /\ info[n] = p /\ \A d \in Data : at[d] # n
  BY <1>1, <1>2 DEF DiskInv, RequestOK, NameHeld, Holds
<1>4. ASSUME NEW v \in Workers, v # w, Holds(v)
      PROVE  job[v].name \in Names /\ job[v].name # n
  BY <1>1, <1>2, <1>4 DEF DiskInv, RequestOK, HeldApart, Holds, Restores
<1>5. CASE \E rest : /\ movePath(p, n) /\ Mark(p, p) /\ UNCHANGED info
                     /\ job' = [job EXCEPT ![w].todo = rest] /\ rest = job[w].todo \ {p}
                     /\ Goto(w, IF rest = {} THEN "report" ELSE "locate")
  <2>1. PICK rest : /\ Move(p, n) /\ Mark(p, p) /\ info' = info
                    /\ job' = [job EXCEPT ![w].todo = rest] /\ rest = job[w].todo \ {p}
                    /\ Goto(w, IF rest = {} THEN "report" ELSE "locate")
    BY <1>5 DEF movePath
  <2>2. PICK r : r = [job[w] EXCEPT !.todo = rest]
    OBVIOUS
  <2>3. r \in Jobs
    BY <1>2, <2>1, <2>2 DEF Jobs
  <2>4. job' = [job EXCEPT ![w] = r]
    BY <2>1, <2>2 DEF DiskInv, DiskTypeOK
  <2>5. PICK s \in {"report", "locate"} : pc' = [pc EXCEPT ![w] = s]
    BY <2>1 DEF Goto
  <2>6. s \in Steps
    BY DEF Steps
  <2>7. pc'[w] = s /\ job'[w] = r
    BY <1>2, <2>3, <2>4, <2>5, <2>6, OneWorker DEF DiskInv
  <2>8. at' \in [Data -> Places] /\ \A d \in Data : at'[d] = IF at[d] = p THEN n ELSE at[d]
    <3>1. n \in Places
      BY <1>3 DEF Places
    <3>. QED
      BY <2>1, <3>1, MoveMoves DEF DiskInv
  <2>9. /\ origin' \in [Data -> Paths \cup {None}]
        /\ \A d \in Data : origin'[d] = IF at[d] = p THEN p ELSE origin[d]
    BY <1>3, <2>1 DEF Mark, DiskInv, DiskTypeOK
  <2>10. RequestOK(w)' /\ NameHeld(w)' /\ AsideOK(w)' /\ OriginsOf(w)'
    BY <1>2, <1>3, <2>7, <2>8, Apart
       DEF RequestOK, NameHeld, AsideOK, OriginsOf, Moved, Holds, Restores
  <2>11. FilesHaveInfo'
    BY <1>3, <2>1, <2>8, Apart DEF DiskInv, FilesHaveInfo
  <2>12. ~misled => DataOrigins'
    BY <1>3, <2>1, <2>8, <2>9, Apart DEF DiskInv, OriginsKept, DataOrigins
  <2>13. ASSUME NEW v \in Workers \ {w} PROVE Untouched(v, s, r)
    BY <1>3, <1>4, <2>1, <2>8, <2>9, Apart DEF Untouched
  <2>14. DiskIsTyped
    BY <2>1, <2>8, <2>9 DEF DiskInv, DiskTypeOK, DiskIsTyped
  <2>15. WorkerGoes(w, s, r, failed[w])
    BY <1>2, <2>4, <2>5 DEF WorkerGoes
  <2>. QED
    BY <1>2, <2>3, <2>6, <2>10, <2>11, <2>12, <2>13, <2>14, <2>15, ChangeKeeps
<1>6. CASE /\ info' \in {info, [info EXCEPT ![n] = None]}
           /\ Goto(w, "report") /\ UNCHANGED <<at, origin, job>>
  <2>1. "report" \in Steps /\ pc' = [pc EXCEPT ![w] = "report"]
    BY <1>6 DEF Steps, Goto
  <2>2. pc'[w] = "report" /\ job'[w] = job[w]
    BY <1>2, <1>6, <2>1, OneWorker DEF DiskInv
  <2>3. info' \in [Names -> Paths \cup {None}] /\ \A m \in Names : m # n => info'[m] = info[m]
    BY <1>3, <1>6 DEF DiskInv, DiskTypeOK
  <2>4. RequestOK(w)' /\ NameHeld(w)' /\ AsideOK(w)' /\ OriginsOf(w)'
    BY <1>2, <1>6, <2>2 DEF RequestOK, NameHeld, AsideOK, OriginsOf, Moved, Holds, Restores
  <2>5. FilesHaveInfo'
    BY <1>3, <1>6, <2>3 DEF DiskInv, FilesHaveInfo
  <2>6. ~misled => DataOrigins'
    BY <1>3, <1>6, <2>3 DEF DiskInv, OriginsKept, DataOrigins
  <2>7. DiskIsTyped
    BY <1>6, <2>3 DEF DiskInv, DiskTypeOK, DiskIsTyped
  <2>8. ASSUME NEW v \in Workers \ {w} PROVE Untouched(v, "report", job[w])
    BY <1>4, <1>6, <2>3 DEF Untouched
  <2>9. WorkerGoes(w, "report", job[w], failed[w])
    BY <1>2, <1>6, <2>1 DEF WorkerGoes
  <2>. QED
    BY <1>2, <2>1, <2>4, <2>5, <2>6, <2>7, <2>8, <2>9, ChangeKeeps
<1>. QED
  BY <1>1, <1>5, <1>6 DEF moveToTrash

-----------------------------------------------------------------------------
(* The steps of a restore.                                                  *)
LEMMA HeldNames ==
  ASSUME DiskInv, NEW v \in Workers, Holds(v)
  PROVE  job[v].name \in Names
BY DEF DiskInv, RequestOK, Holds, Restores

(* A step that moves the files of one place and leaves infos and origins.   *)
LEMMA MoveKeeps ==
  ASSUME DiskInv, NEW from, NEW to \in Places, Move(from, to), UNCHANGED <<info, origin>>,
         misled' \in BOOLEAN, ~misled' => ~misled
  PROVE  /\ \A d \in Data : at'[d] = IF at[d] = from THEN to ELSE at[d]
         /\ DiskIsTyped
BY MoveMoves DEF DiskInv, DiskTypeOK, DiskIsTyped

LEMMA ProtectKeeps ==
  ASSUME DiskInv, NEW w \in Workers, Protect(w), misled' = misled
  PROVE  DiskInv'
<1>1. PICK p : p = job[w].now
  OBVIOUS
<1>2. /\ job[w] \in Jobs /\ failed[w] \in BOOLEAN /\ pc[w] = "protect"
      /\ failed' = [failed EXCEPT ![w] = failed[w]]
      /\ UNCHANGED <<info, origin>> /\ \A d \in Data : at[d] # w
      /\ p \in Paths /\ job[w].dest = p /\ job[w].name \in Names
  BY <1>1, Unchanging DEF DiskInv, Protect, RequestOK, AsideOK
<1>3. CASE Goto(w, "report") /\ UNCHANGED <<at, job>>
  BY <1>2, <1>3, FailureKeeps DEF Goto, disk
<1>4. CASE Move(p, w) /\ job' = [job EXCEPT ![w].backed = TRUE] /\ Goto(w, "restore")
  <2>1. PICK r : r = [job[w] EXCEPT !.backed = TRUE]
    OBVIOUS
  <2>2. r \in Jobs /\ r.backed = TRUE /\ r.now = p /\ r.dest = p /\ r.name = job[w].name
    BY <1>1, <1>2, <2>1 DEF Jobs
  <2>3. job' = [job EXCEPT ![w] = r]
    BY <1>4, <2>1 DEF DiskInv, DiskTypeOK
  <2>4. "restore" \in Steps /\ WorkerGoes(w, "restore", r, failed[w])
    BY <1>2, <1>4, <2>3 DEF Steps, WorkerGoes, Goto
  <2>5. pc'[w] = "restore" /\ job'[w] = r
    BY <1>2, <2>2, <2>4, OneWorker DEF DiskInv, WorkerGoes
  <2>6. DiskIsTyped /\ \A d \in Data : at'[d] = IF at[d] = p THEN w ELSE at[d]
    <3>1. w \in Places /\ misled' \in BOOLEAN
      BY DEF Places, DiskInv, DiskTypeOK
    <3>. QED
      BY <1>2, <1>4, <3>1, MoveKeeps
  <2>7. RequestOK(w)' /\ NameHeld(w)' /\ AsideOK(w)' /\ FilesHaveInfo'
    BY <1>2, <2>2, <2>5, <2>6, Apart
       DEF RequestOK, NameHeld, AsideOK, Holds, Restores, DiskInv, FilesHaveInfo
  <2>8. ~misled => OriginsOf(w)' /\ DataOrigins'
    BY <1>2, <2>2, <2>5, <2>6, Apart
       DEF DiskInv, OriginsKept, OriginsOf, DataOrigins, Moved, Restores
  <2>9. ASSUME NEW v \in Workers \ {w} PROVE Untouched(v, "restore", r)
    BY <1>2, <2>6, HeldNames, Apart DEF Untouched
  <2>. QED
    BY <1>2, <2>2, <2>4, <2>6, <2>7, <2>8, <2>9, ChangeKeeps
<1>. QED
  BY <1>2, <1>3, <1>4 DEF Protect, movePath

LEMMA RestoreKeeps ==
  ASSUME DiskInv, NEW w \in Workers, Restore(w)
  PROVE  DiskInv'
<1>1. PICK p, n, x : p = job[w].now /\ n = job[w].name /\ x = job[w].dest
  OBVIOUS
<1>2. /\ job[w] \in Jobs /\ failed[w] \in BOOLEAN /\ pc[w] = "restore"
      /\ failed' = [failed EXCEPT ![w] = failed[w]] /\ job' = [job EXCEPT ![w] = job[w]]
      /\ UNCHANGED <<info, origin, job>>
      /\ p \in Paths /\ n \in Names /\ x \in {p} \cup Spares
  BY <1>1, Unchanging DEF DiskInv, Restore, RequestOK, Restores
<1>3. CASE Goto(w, AfterUndo(w)) /\ UNCHANGED <<at, misled>>
  BY <1>2, <1>3, FailureKeeps DEF Goto, disk, AfterUndo, Restores
<1>4. CASE /\ movePath(n, x) /\ misled' = (misled \/ info[n] # p)
           /\ Goto(w, "dropInfo")
  <2>1. /\ \E d \in Data : at[d] = n
        /\ \A d \in Data : at[d] # x
        /\ Move(n, x)
    BY <1>4 DEF movePath, CanMove, Exists
  <2>2. misled' \in BOOLEAN /\ (~misled' => ~misled /\ info[n] = p) /\ info[n] # None
    BY <1>2, <1>4, <2>1 DEF DiskInv, DiskTypeOK, FilesHaveInfo
  <2>3. "dropInfo" \in Steps /\ WorkerGoes(w, "dropInfo", job[w], failed[w])
    BY <1>2, <1>4 DEF Steps, WorkerGoes, Goto
  <2>4. pc'[w] = "dropInfo" /\ job'[w] = job[w]
    BY <1>2, <2>3, OneWorker DEF DiskInv, WorkerGoes
  <2>5. DiskIsTyped /\ \A d \in Data : at'[d] = IF at[d] = n THEN x ELSE at[d]
    <3>1. x \in Places
      BY <1>2 DEF Places
    <3>. QED
      BY <1>2, <2>1, <2>2, <3>1, MoveKeeps
  <2>6. RequestOK(w)' /\ NameHeld(w)' /\ FilesHaveInfo'
    BY <1>1, <1>2, <2>2, <2>4, <2>5, Apart
       DEF RequestOK, NameHeld, Holds, Restores, DiskInv, FilesHaveInfo
  <2>7. AsideOK(w)'
    BY <1>1, <1>2, <2>4, <2>5, Apart DEF AsideOK, Restores, DiskInv
  <2>8. ~misled' => DataOrigins'
    BY <1>2, <2>2, <2>5, Apart DEF DiskInv, OriginsKept, DataOrigins
  <2>9. ~misled' => OriginsOf(w)'
    <3> SUFFICES ASSUME ~misled' PROVE OriginsOf(w)'
      OBVIOUS
    <3>1. \A d \in Data : at'[d] = x => at[d] = n /\ origin[d] \in {None, p}
      BY <1>2, <2>1, <2>2, <2>5 DEF DiskInv, OriginsKept
    <3>2. \A d \in Data : at'[d] = w => origin[d] \in {None, p}
      BY <1>1, <1>2, <2>2, <2>5, Apart DEF DiskInv, OriginsKept, OriginsOf, Restores
    <3>3. \E d \in Data : at'[d] = x
      BY <2>1, <2>5
    <3>. QED
      BY <1>1, <1>2, <2>2, <2>4, <3>1, <3>2, <3>3 DEF OriginsOf
  <2>10. ASSUME NEW v \in Workers \ {w} PROVE Untouched(v, "dropInfo", job[w])
    <3>1. Holds(v) => job[v].name \in Names /\ job[v].name # n
      BY <2>1, HeldNames DEF DiskInv, NameHeld
    <3>2. Moved(v) /\ job[v].dest \in Spares /\ ~misled => job[v].dest # x
      BY <2>1 DEF DiskInv, OriginsKept, OriginsOf
    <3>. QED
      BY <1>1, <1>2, <2>5, <3>1, <3>2, Apart DEF Untouched
  <2>. QED
    BY <1>2, <2>3, <2>5, <2>6, <2>7, <2>8, <2>9, <2>10, ChangeKeeps
<1>. QED
  BY <1>1, <1>2, <1>3, <1>4 DEF Restore

LEMMA DropInfoKeeps ==
  ASSUME DiskInv, NEW w \in Workers, DropInfo(w), misled' = misled
  PROVE  DiskInv'
<1>1. PICK p, n, x : p = job[w].now /\ n = job[w].name /\ x = job[w].dest
  OBVIOUS
<1>2. /\ job[w] \in Jobs /\ failed[w] \in BOOLEAN /\ pc[w] = "dropInfo"
      /\ failed' = [failed EXCEPT ![w] = failed[w]] /\ job' = [job EXCEPT ![w] = job[w]]
      /\ UNCHANGED <<at, job>>
      /\ p \in Paths /\ n \in Names /\ x \in {p} \cup Spares
      /\ info[n] # None /\ \A d \in Data : at[d] # n
  BY <1>1, Unchanging DEF DiskInv, DropInfo, RequestOK, NameHeld, Holds, Restores
<1>3. ASSUME NEW v \in Workers, v # w, Holds(v)
      PROVE  job[v].name \in Names /\ job[v].name # n
  BY <1>1, <1>2, <1>3, HeldNames DEF DiskInv, HeldApart, Holds
<1>4. CASE /\ info' = [info EXCEPT ![n] = None] /\ Mark(x, None)
           /\ Goto(w, IF job[w].backed THEN "cleanup" ELSE "report")
  <2>1. PICK s \in {"cleanup", "report"} : /\ pc' = [pc EXCEPT ![w] = s]
                                           /\ s = "report" => ~job[w].backed
    BY <1>4 DEF Goto
  <2>2. s \in Steps /\ WorkerGoes(w, s, job[w], failed[w])
    BY <1>2, <2>1 DEF Steps, WorkerGoes
  <2>3. pc'[w] = s /\ job'[w] = job[w]
    BY <1>2, <2>2, OneWorker DEF DiskInv, WorkerGoes
  <2>4. /\ \A m \in Names : m # n => info'[m] = info[m]
        /\ \A d \in Data : origin'[d] \in {None, origin[d]}
        /\ DiskIsTyped
    BY <1>2, <1>4 DEF Mark, DiskIsTyped, DiskInv, DiskTypeOK
  <2>5. RequestOK(w)' /\ NameHeld(w)' /\ AsideOK(w)' /\ OriginsOf(w)'
    BY <1>1, <1>2, <2>1, <2>3
       DEF RequestOK, NameHeld, AsideOK, OriginsOf, Moved, Holds, Restores, DiskInv
  <2>6. FilesHaveInfo'
    BY <1>2, <2>4 DEF DiskInv, FilesHaveInfo
  <2>7. ~misled => DataOrigins'
    BY <1>2, <2>4 DEF DiskInv, OriginsKept, DataOrigins
  <2>8. ASSUME NEW v \in Workers \ {w} PROVE Untouched(v, s, job[w])
    BY <1>2, <1>3, <2>4 DEF Untouched
  <2>. QED
    BY <1>2, <2>2, <2>4, <2>5, <2>6, <2>7, <2>8, ChangeKeeps
<1>5. CASE Goto(w, "moveBack") /\ UNCHANGED <<info, origin>>
  <2>1. "moveBack" \in Steps /\ WorkerGoes(w, "moveBack", job[w], failed[w])
    BY <1>2, <1>5 DEF Steps, WorkerGoes, Goto
  <2>2. pc'[w] = "moveBack" /\ job'[w] = job[w]
    BY <1>2, <2>1, OneWorker DEF DiskInv, WorkerGoes
  <2>3. DiskIsTyped
    BY <1>2, <1>5 DEF DiskIsTyped, DiskInv, DiskTypeOK
  <2>4. RequestOK(w)' /\ NameHeld(w)' /\ AsideOK(w)' /\ (~misled => OriginsOf(w)')
    BY <1>1, <1>2, <1>5, <2>2
       DEF RequestOK, NameHeld, AsideOK, OriginsKept, OriginsOf, Moved, Holds, Restores, DiskInv
  <2>5. FilesHaveInfo' /\ (~misled => DataOrigins')
    BY <1>2, <1>5 DEF DiskInv, FilesHaveInfo, OriginsKept, DataOrigins
  <2>6. ASSUME NEW v \in Workers \ {w} PROVE Untouched(v, "moveBack", job[w])
    <3>1. Moved(v) /\ job[v].dest \in Spares /\ ~misled => job[v].dest # x
      BY <1>1, <1>2 DEF DiskInv, OriginsKept, Moved
    <3>. QED
      BY <1>1, <1>2, <1>3, <1>5, <3>1 DEF Untouched
  <2>. QED
    BY <1>2, <2>1, <2>3, <2>4, <2>5, <2>6, ChangeKeeps
<1>. QED
  BY <1>1, <1>4, <1>5 DEF DropInfo

LEMMA MoveBackKeeps ==
  ASSUME DiskInv, NEW w \in Workers, MoveBack(w), misled' = misled
  PROVE  DiskInv'
<1>1. PICK p, n, x : p = job[w].now /\ n = job[w].name /\ x = job[w].dest
  OBVIOUS
<1>2. /\ job[w] \in Jobs /\ failed[w] \in BOOLEAN /\ pc[w] = "moveBack"
      /\ job' = [job EXCEPT ![w] = job[w]]
      /\ UNCHANGED <<info, origin, job>>
      /\ p \in Paths /\ n \in Names /\ x \in {p} \cup Spares
      /\ info[n] # None /\ \A d \in Data : at[d] # n
  BY <1>1, Unchanging DEF DiskInv, MoveBack, RequestOK, NameHeld, Holds, Restores
<1>3. ASSUME NEW v \in Workers, v # w, Holds(v)
      PROVE  job[v].name \in Names /\ job[v].name # n
  BY <1>1, <1>2, <1>3, HeldNames DEF DiskInv, HeldApart, Holds
<1>4. CASE movePath(x, n) /\ Goto(w, AfterUndo(w)) /\ UNCHANGED failed
  <2>1. PICK s \in {"unprotect", "report"} : /\ pc' = [pc EXCEPT ![w] = s]
                                             /\ s = "report" => ~job[w].backed
    BY <1>4 DEF Goto, AfterUndo
  <2>2. s \in Steps /\ WorkerGoes(w, s, job[w], failed[w])
    BY <1>2, <1>4, <2>1, Unchanging DEF Steps, WorkerGoes, DiskInv
  <2>3. pc'[w] = s /\ job'[w] = job[w]
    BY <1>2, <2>2, OneWorker DEF DiskInv, WorkerGoes
  <2>4. DiskIsTyped /\ \A d \in Data : at'[d] = IF at[d] = x THEN n ELSE at[d]
    <3>1. n \in Places /\ Move(x, n) /\ misled' \in BOOLEAN
      BY <1>2, <1>4 DEF Places, movePath, DiskInv, DiskTypeOK
    <3>. QED
      BY <1>2, <3>1, MoveKeeps
  <2>5. RequestOK(w)' /\ NameHeld(w)' /\ AsideOK(w)' /\ FilesHaveInfo'
    BY <1>1, <1>2, <2>1, <2>3, <2>4, Apart
       DEF RequestOK, NameHeld, AsideOK, Holds, Restores, DiskInv, FilesHaveInfo
  <2>6. ~misled => OriginsOf(w)'
    BY <1>1, <1>2, <2>1, <2>3, <2>4, Apart DEF DiskInv, OriginsKept, OriginsOf, Moved, Restores
  <2>7. ~misled => DataOrigins'
    <3>1. ASSUME ~misled, NEW d \in Data, at[d] = x PROVE origin[d] \in {None, info[n]}
      BY <1>1, <1>2, <3>1 DEF DiskInv, OriginsKept, OriginsOf, Moved
    <3>. QED
      BY <1>2, <2>4, <3>1, Apart DEF DiskInv, OriginsKept, DataOrigins
  <2>8. ASSUME NEW v \in Workers \ {w} PROVE Untouched(v, s, job[w])
    <3>1. Moved(v) /\ job[v].dest \in Spares /\ ~misled => job[v].dest # x
      BY <1>1, <1>2 DEF DiskInv, OriginsKept, Moved
    <3>. QED
      BY <1>2, <1>3, <2>1, <2>4, <3>1, Apart DEF Untouched
  <2>. QED
    BY <1>2, <2>2, <2>4, <2>5, <2>6, <2>7, <2>8, ChangeKeeps
<1>5. CASE Goto(w, "report") /\ failed' = [failed EXCEPT ![w] = TRUE] /\ UNCHANGED at
  BY <1>2, <1>5, FailureKeeps DEF Goto, disk
<1>. QED
  BY <1>1, <1>4, <1>5 DEF MoveBack

LEMMA UnprotectKeeps ==
  ASSUME DiskInv, NEW w \in Workers, Unprotect(w) \/ CleanUp(w), misled' = misled
  PROVE  DiskInv'
<1>1. PICK p : p = job[w].now
  OBVIOUS
<1>2. /\ job[w] \in Jobs /\ failed[w] \in BOOLEAN /\ pc[w] \in {"unprotect", "cleanup"}
      /\ job' = [job EXCEPT ![w] = job[w]] /\ p \in Paths
      /\ UNCHANGED <<info, origin, job>> /\ pc' = [pc EXCEPT ![w] = "report"]
  BY <1>1, Unchanging DEF DiskInv, Unprotect, CleanUp, RequestOK, Restores, Goto
<1>3. CASE failed' = [failed EXCEPT ![w] = TRUE] /\ UNCHANGED at
  BY <1>2, <1>3, FailureKeeps DEF disk
<1>4. CASE \E x \in {p, Gone} : /\ Move(w, x) /\ UNCHANGED failed
                                /\ x = p => pc[w] = "unprotect"
  <2>1. PICK x \in {p, Gone} : Move(w, x) /\ UNCHANGED failed /\ (x = p => pc[w] = "unprotect")
    BY <1>4
  <2>2. "report" \in Steps /\ WorkerGoes(w, "report", job[w], failed[w])
    BY <1>2, <2>1, Unchanging DEF Steps, WorkerGoes, DiskInv
  <2>3. pc'[w] = "report" /\ job'[w] = job[w]
    BY <1>2, <2>2, OneWorker DEF DiskInv, WorkerGoes
  <2>4. DiskIsTyped /\ \A d \in Data : at'[d] = IF at[d] = w THEN x ELSE at[d]
    <3>1. x \in Places /\ misled' \in BOOLEAN
      BY <1>2 DEF Places, DiskInv, DiskTypeOK
    <3>. QED
      BY <1>2, <2>1, <3>1, MoveKeeps
  <2>5. RequestOK(w)' /\ NameHeld(w)' /\ AsideOK(w)' /\ OriginsOf(w)' /\ FilesHaveInfo'
    BY <1>2, <2>3, <2>4, Apart
       DEF RequestOK, NameHeld, AsideOK, OriginsOf, Moved, Holds, Restores, DiskInv, FilesHaveInfo
  <2>6. ~misled => DataOrigins'
    <3>1. ASSUME ~misled, NEW d \in Data, at[d] = w, x = p PROVE origin[d] \in {None, x}
      BY <1>1, <2>1, <3>1 DEF DiskInv, OriginsKept, OriginsOf
    <3>. QED
      BY <1>2, <2>4, <3>1, Apart DEF DiskInv, OriginsKept, DataOrigins
  <2>7. ASSUME NEW v \in Workers \ {w} PROVE Untouched(v, "report", job[w])
    BY <1>2, <2>4, HeldNames, Apart DEF Untouched
  <2>. QED
    BY <1>2, <2>2, <2>4, <2>5, <2>6, <2>7, ChangeKeeps
<1>. QED
  BY <1>1, <1>2, <1>3, <1>4, Apart DEF Unprotect, CleanUp, movePath

-----------------------------------------------------------------------------
(* What other programs do, crashes, and the list.                           *)
LEMMA OutsideKeeps ==
  ASSUME DiskInv, UNCHANGED work, misled' = misled, DiskIsTyped,
         \A v \in Workers : Untouched(v, "report", NoJob),
         FilesHaveInfo', ~misled => DataOrigins'
  PROVE  DiskInv'
<1>1. job' = job /\ pc' = pc /\ failed' = failed
  BY DEF work
<1>2. ASSUME NEW v \in Workers
      PROVE  RequestOK(v)' /\ NameHeld(v)' /\ AsideOK(v)' /\ (~misled => OriginsOf(v)')
  BY <1>1, OtherKeeps DEF Untouched
<1>3. DiskTypeOK' /\ HeldApart'
  BY <1>1 DEF DiskInv, DiskTypeOK, DiskIsTyped, HeldApart, Holds
<1>4. ~misled => OriginsKept'
  BY <1>1, <1>2 DEF DiskInv, OriginsKept, DataOrigins, Moved
<1>. QED
  BY <1>2, <1>3, <1>4 DEF DiskInv

LEMMA CreateKeeps ==
  ASSUME DiskInv, Create, misled' = misled
  PROVE  DiskInv'
<1>1. PICK c \in Data, p \in Paths : at[c] = Unborn /\ at' = [at EXCEPT ![c] = p]
  BY DEF Create
<1>2. UNCHANGED <<info, origin>> /\ UNCHANGED work
  BY DEF Create
<1>3. /\ at' \in [Data -> Places]
      /\ \A d \in Data : at'[d] = IF d = c THEN p ELSE at[d]
  BY <1>1 DEF DiskInv, DiskTypeOK, Places
<1>4. DiskIsTyped
  BY <1>2, <1>3 DEF DiskIsTyped, DiskInv, DiskTypeOK
<1>5. \A v \in Workers : Untouched(v, "report", NoJob)
  BY <1>1, <1>2, <1>3, HeldNames, Apart DEF Untouched
<1>6. FilesHaveInfo' /\ (~misled => DataOrigins')
  BY <1>1, <1>2, <1>3, Apart DEF DiskInv, FilesHaveInfo, OriginsKept, DataOrigins
<1>. QED
  BY <1>2, <1>4, <1>5, <1>6, OutsideKeeps

LEMMA PurgeKeeps ==
  ASSUME DiskInv, Purge, misled' = misled
  PROVE  DiskInv'
<1>1. PICK n \in Names : Exists(n) /\ Move(n, Gone) /\ info' = [info EXCEPT ![n] = None]
  BY DEF Purge
<1>2. UNCHANGED origin /\ UNCHANGED work
  BY DEF Purge
<1>3. at' \in [Data -> Places] /\ \A d \in Data : at'[d] = IF at[d] = n THEN Gone ELSE at[d]
  <2>1. Gone \in Places
    BY DEF Places
  <2>. QED
    BY <1>1, <2>1, MoveMoves DEF DiskInv
<1>4. /\ info' \in [Names -> Paths \cup {None}]
      /\ \A m \in Names : m # n => info'[m] = info[m]
  BY <1>1 DEF DiskInv, DiskTypeOK
<1>5. DiskIsTyped
  BY <1>2, <1>3, <1>4 DEF DiskIsTyped, DiskInv, DiskTypeOK
<1>6. ASSUME NEW v \in Workers PROVE Untouched(v, "report", NoJob)
  <2>1. Holds(v) => job[v].name \in Names /\ job[v].name # n
    BY <1>1, HeldNames DEF DiskInv, NameHeld, Exists
  <2>. QED
    BY <1>2, <1>3, <1>4, <2>1, Apart DEF Untouched
<1>7. FilesHaveInfo' /\ (~misled => DataOrigins')
  BY <1>2, <1>3, <1>4, Apart DEF DiskInv, FilesHaveInfo, OriginsKept, DataOrigins
<1>. QED
  BY <1>2, <1>5, <1>6, <1>7, OutsideKeeps

LEMMA CrashKeeps ==
  ASSUME DiskInv, Crash, misled' = misled
  PROVE  DiskInv'
<1>1. UNCHANGED <<at, info, origin, job, failed, misled>>
  BY DEF Crash, disk
<1>2. pc' = [w \in Workers |-> IF pc[w] \in {"idle", "done"} THEN pc[w] ELSE "dead"]
  BY DEF Crash
<1>3. \A w \in Workers : pc'[w] \in {pc[w], "dead"} /\ pc'[w] \in {"idle", "done", "dead"}
  BY <1>2
<1>4. DiskTypeOK'
  BY <1>1, <1>2 DEF DiskInv, DiskTypeOK, Steps
<1>5. \A w \in Workers : RequestOK(w)' /\ NameHeld(w)' /\ AsideOK(w)' /\ OriginsOf(w)'
  BY <1>1, <1>3
     DEF DiskInv, RequestOK, NameHeld, AsideOK, OriginsOf, Moved, Holds, Restores
<1>6. HeldApart' /\ FilesHaveInfo'
  BY <1>1, <1>3 DEF DiskInv, HeldApart, FilesHaveInfo, Holds
<1>7. ~misled => OriginsKept'
  BY <1>1, <1>3, <1>5 DEF DiskInv, OriginsKept, Moved
<1>. QED
  BY <1>1, <1>4, <1>5, <1>6, <1>7 DEF DiskInv

LEMMA UntouchedDisk ==
  ASSUME DiskInv, UNCHANGED <<disk, work, misled>>
  PROVE  DiskInv'
<1>1. UNCHANGED <<at, info, origin, job, pc, failed, misled>>
  BY DEF disk, work
<1>2. DiskTypeOK' /\ HeldApart' /\ FilesHaveInfo'
  BY <1>1 DEF DiskInv, DiskTypeOK, HeldApart, FilesHaveInfo, Holds
<1>3. \A w \in Workers : RequestOK(w)' /\ NameHeld(w)' /\ AsideOK(w)'
  BY <1>1 DEF DiskInv, RequestOK, NameHeld, AsideOK, Holds
<1>4. ~misled => OriginsKept'
  BY <1>1 DEF DiskInv, OriginsKept, OriginsOf, Moved
<1>. QED
  BY <1>1, <1>2, <1>3, <1>4 DEF DiskInv

LEMMA NextKeepsDisk ==
  ASSUME DiskInv, ListTypeOK, [Next]_vars
  PROVE  DiskInv'
<1>1. CASE \E w \in Workers : Restore(w)
  BY <1>1, RestoreKeeps
<1>2. CASE UNCHANGED vars
  BY <1>2, UntouchedDisk DEF vars
<1>3. CASE misled' = misled /\ \E s \in scans : Scan(s) \/ Publish(s)
  BY <1>3, UntouchedDisk DEF Scan, Publish
<1>4. CASE misled' = misled /\ DebounceFires
  BY <1>4, UntouchedDisk DEF DebounceFires
<1>5. CASE misled' = misled /\ (Create \/ Purge \/ Crash)
  BY <1>5, CreateKeeps, PurgeKeeps, CrashKeeps
<1>6. ASSUME misled' = misled, NEW w \in Workers,
             \/ trash(w) \/ restore(w) \/ Report(w)
             \/ createTrashInfo(w) \/ moveToTrash(w)
             \/ Inspect(w) \/ Protect(w) \/ DropInfo(w) \/ MoveBack(w)
             \/ Unprotect(w) \/ CleanUp(w)
      PROVE  DiskInv'
  BY <1>6, BeginKeeps, CreateInfoKeeps, MoveToTrashKeeps, InspectKeeps, ProtectKeeps,
     DropInfoKeeps, MoveBackKeeps, UnprotectKeeps
<1>. QED
  BY <1>1, <1>2, <1>3, <1>4, <1>5, <1>6 DEF Next

-----------------------------------------------------------------------------
(* The list shows rows, whatever it is late to show.                        *)
LEMMA RefreshedList ==
  ASSUME ListTypeOK, refresh, changed' \in BOOLEAN, others' \in 0 .. Others
  PROVE  ListTypeOK'
<1>1. ASSUME NEW x \in scans
      PROVE  [x EXCEPT !.newest = FALSE] \in [newest : BOOLEAN, read : BOOLEAN, rows : SUBSET Rows]
  BY DEF ListTypeOK
<1>2. [newest |-> TRUE, read |-> FALSE, rows |-> {}]
        \in [newest : BOOLEAN, read : BOOLEAN, rows : SUBSET Rows]
  OBVIOUS
<1>3. Outdated \subseteq [newest : BOOLEAN, read : BOOLEAN, rows : SUBSET Rows]
  BY <1>1 DEF Outdated
<1>4. scans' \subseteq [newest : BOOLEAN, read : BOOLEAN, rows : SUBSET Rows]
  BY <1>2, <1>3 DEF refresh
<1>5. entries' \subseteq Rows /\ busy' \in BOOLEAN /\ unseen' \in BOOLEAN
      /\ changed' \in BOOLEAN /\ others' \in 0 .. Others
  BY DEF refresh, ListTypeOK
<1>. QED
  BY <1>4, <1>5 DEF ListTypeOK

LEMMA NextKeepsList ==
  ASSUME DiskInv, ListTypeOK, [Next]_vars
  PROVE  ListTypeOK'
<1>1. CASE UNCHANGED vars
  BY <1>1 DEF vars, list, ListTypeOK
<1>2. ASSUME NEW s \in scans, Scan(s) PROVE ListTypeOK'
  <2>1. scanTrash \subseteq Rows
    BY DEF scanTrash, Rows, DiskInv, DiskTypeOK
  <2>2. [s EXCEPT !.read = TRUE, !.rows = scanTrash]
          \in [newest : BOOLEAN, read : BOOLEAN, rows : SUBSET Rows]
    BY <2>1 DEF ListTypeOK
  <2>. QED
    BY <1>2, <2>2 DEF Scan, ListTypeOK
<1>3. ASSUME NEW s \in scans, Publish(s) PROVE ListTypeOK'
  BY <1>3 DEF Publish, ListTypeOK
<1>4. CASE DebounceFires
  BY <1>4, RefreshedList DEF DebounceFires, ListTypeOK
<1>5. CASE Create \/ Purge \/ Crash
  <2>1. others' \in 0 .. Others
    BY <1>5, TrashAssumption DEF Create, Purge, Crash, FromOutside, ListTypeOK
  <2>2. /\ entries' \in {entries, {}} /\ busy' \in {busy, TRUE}
        /\ changed' \in {changed, TRUE, FALSE} /\ unseen' \in {unseen, FALSE}
        /\ scans' \in {scans, {[newest |-> TRUE, read |-> FALSE, rows |-> {}]}}
    BY <1>5 DEF Create, Purge, Crash, list
  <2>3. [newest |-> TRUE, read |-> FALSE, rows |-> {}]
          \in [newest : BOOLEAN, read : BOOLEAN, rows : SUBSET Rows]
    OBVIOUS
  <2>4. scans' \subseteq [newest : BOOLEAN, read : BOOLEAN, rows : SUBSET Rows]
    BY <2>2, <2>3 DEF ListTypeOK
  <2>. QED
    BY <2>1, <2>2, <2>4 DEF ListTypeOK
<1>6. ASSUME NEW w \in Workers, trash(w) \/ restore(w)
      PROVE  ListTypeOK'
  BY <1>6 DEF trash, restore, Begin, ListTypeOK
<1>7. ASSUME NEW w \in Workers, Report(w)
      PROVE  ListTypeOK'
  BY <1>7, RefreshedList DEF Report, ListTypeOK
<1>8. ASSUME NEW w \in Workers,
             \/ createTrashInfo(w) \/ moveToTrash(w)
             \/ Inspect(w) \/ Protect(w) \/ Restore(w) \/ DropInfo(w) \/ MoveBack(w)
             \/ Unprotect(w) \/ CleanUp(w)
      PROVE  ListTypeOK'
  <2>1. Keep /\ changed' \in {changed, TRUE}
    BY <1>8 DEF createTrashInfo, moveToTrash, Inspect, Protect, Restore, DropInfo, MoveBack,
                Unprotect, CleanUp, Quiet, Noticed
  <2>. QED
    BY <2>1 DEF Keep, ListTypeOK
<1>. QED
  BY <1>1, <1>2, <1>3, <1>4, <1>5, <1>6, <1>7, <1>8 DEF Next

-----------------------------------------------------------------------------
LEMMA InitDisk == Init => DiskInv /\ ListTypeOK
<1> SUFFICES ASSUME Init PROVE DiskInv /\ ListTypeOK
  OBVIOUS
<1>1. PICK p \in Paths, q \in Paths, n \in Names, c \in Data, d \in Data :
        /\ c # d
        /\ \/ /\ p # q /\ at = [x \in Data |-> CASE x = c -> p [] x = d -> q [] OTHER -> Unborn]
              /\ info = [m \in Names |-> None] /\ origin = [x \in Data |-> None]
           \/ /\ at = [x \in Data |-> CASE x = c -> p [] x = d -> n [] OTHER -> Unborn]
              /\ info = [m \in Names |-> IF m = n THEN q ELSE None]
              /\ origin = [x \in Data |-> IF x = d THEN q ELSE None]
  BY DEF Init
<1>2. /\ at \in [Data -> Paths \cup Names \cup {Unborn}]
      /\ info \in [Names -> Paths \cup {None}] /\ origin \in [Data -> Paths \cup {None}]
  BY <1>1
<1>3. FilesHaveInfo /\ DataOrigins
  BY <1>1, Apart DEF FilesHaveInfo, DataOrigins
<1>4. NoJob \in Jobs
  BY DEF NoJob, Jobs
<1>5. DiskTypeOK
  BY <1>2, <1>4 DEF Init, StartUp, DiskTypeOK, Places, Steps
<1>6. \A w \in Workers : pc[w] = "idle" /\ \A x \in Data : at[x] # w
  BY <1>2, Apart DEF Init, StartUp
<1>7. \A w \in Workers : RequestOK(w) /\ NameHeld(w) /\ AsideOK(w) /\ OriginsOf(w)
  BY <1>6 DEF RequestOK, NameHeld, AsideOK, OriginsOf, Holds, Moved, Restores
<1>8. HeldApart /\ OriginsKept
  BY <1>3, <1>6, <1>7 DEF HeldApart, OriginsKept, DataOrigins, Holds, Moved
<1>9. ListTypeOK
  <2>1. [newest |-> TRUE, read |-> FALSE, rows |-> {}]
          \in [newest : BOOLEAN, read : BOOLEAN, rows : SUBSET Rows]
    OBVIOUS
  <2>2. 0 \in 0 .. Others
    BY TrashAssumption
  <2>. QED
    BY <2>1, <2>2 DEF Init, StartUp, ListTypeOK
<1>. QED
  BY <1>3, <1>5, <1>7, <1>8, <1>9 DEF DiskInv

LEMMA DiskInvariance == Spec => [](DiskInv /\ ListTypeOK)
<1>1. DiskInv /\ ListTypeOK /\ [Next]_vars => (DiskInv /\ ListTypeOK)'
  BY NextKeepsDisk, NextKeepsList
<1>. QED
  BY InitDisk, <1>1, PTL DEF Spec

(* Whatever operations run at the same time, fail, are interrupted or meet   *)
(* files that other programs make or purge: every file in the trash has an   *)
(* info which, unless a restore acted on an outdated row, names the path it  *)
(* was trashed from, and a file a restore set aside stays hidden only while  *)
(* that restore works or when putting it back or removing it has failed.     *)
THEOREM TrashLosesNothing == Spec => []TrashLosesNoFile
<1>1. ASSUME DiskInv, ListTypeOK PROVE TrashLosesNoFile
  <2>1. TrashTypeOK
    BY <1>1 DEF DiskInv, DiskTypeOK, ListTypeOK, TrashTypeOK, Jobs
  <2>2. TrashedFilesKnowTheirOrigin
    BY <1>1 DEF DiskInv, FilesHaveInfo, OriginsKept, TrashedFilesKnowTheirOrigin
  <2>3. NoFileStaysSetAside
    BY <1>1 DEF DiskInv, AsideOK, NoFileStaysSetAside, Running, Exists
  <2>. QED
    BY <2>1, <2>2, <2>3 DEF TrashLosesNoFile
<1>. QED
  BY DiskInvariance, <1>1, PTL

-----------------------------------------------------------------------------
(* Rows that show the trash as it is, unless the list will be read again:   *)
(* the watcher will report a change, or did and was not listened to.        *)
Fresh(rows) == changed \/ unseen \/ rows = scanTrash

Ended == {"idle", "done", "dead"}

(* The newest scan will be shown; without one, what is shown is fresh.      *)
ListIsFresh ==
  /\ \A s, t \in scans : s.newest /\ t.newest => s = t
  /\ \A s \in scans : s.newest /\ s.read => Fresh(s.rows)
  /\ (\A s \in scans : ~s.newest) => Fresh(entries) /\ (busy => \E w \in Workers : pc[w] \notin Ended)

LEMMA SameTrash ==
  ASSUME info' = info, \A n \in Names, d \in Data : at'[d] = n <=> at[d] = n
  PROVE  scanTrash' = scanTrash
<1>1. \A n \in Names : Exists(n)' <=> Exists(n)
  BY DEF Exists
<1>2. {m \in Names : Exists(m)'} = {m \in Names : Exists(m)}
  BY <1>1
<1>. QED
  BY <1>2 DEF scanTrash

LEMMA NewestUnread ==
  ASSUME NEW old, \A s \in old : ~s.newest,
         scans' = old \cup {[newest |-> TRUE, read |-> FALSE, rows |-> {}]}
  PROVE  ListIsFresh'
<1> DEFINE new == [newest |-> TRUE, read |-> FALSE, rows |-> {}]
<1>1. new.newest /\ ~new.read
  OBVIOUS
<1> HIDE DEF new
<1>2. new \in scans' /\ \A s \in scans' : s.newest => s = new
  BY DEF new
<1>. QED
  BY <1>1, <1>2 DEF ListIsFresh

LEMMA RefreshKeepsFresh ==
  ASSUME ListTypeOK, refresh
  PROVE  ListIsFresh'
<1>1. \A s \in scans : [s EXCEPT !.newest = FALSE].newest = FALSE
  BY DEF ListTypeOK
<1>2. \A s \in Outdated : ~s.newest
  BY <1>1 DEF Outdated
<1>. QED
  BY <1>2, NewestUnread DEF refresh

(* A step that tells nobody and one that the watcher sees.                  *)
LEMMA QuietKeepsFresh ==
  ASSUME ListIsFresh, UNCHANGED <<entries, scans, changed, unseen>>, scanTrash' = scanTrash,
         busy' => \/ busy /\ \A w \in Workers : pc[w] \notin Ended => pc'[w] \notin Ended
                  \/ \E w \in Workers : pc'[w] \notin Ended
  PROVE  ListIsFresh'
<1>1. \A rows : Fresh(rows)' = Fresh(rows)
  BY DEF Fresh
<1>. QED
  BY <1>1 DEF ListIsFresh

LEMMA NoticedKeepsFresh ==
  ASSUME ListIsFresh, changed' = TRUE, UNCHANGED <<entries, busy, scans>>,
         \A w \in Workers : pc[w] \notin Ended => pc'[w] \notin Ended
  PROVE  ListIsFresh'
<1>1. \A rows : Fresh(rows)'
  BY DEF Fresh
<1>. QED
  BY <1>1 DEF ListIsFresh

LEMMA ScanKeepsFresh ==
  ASSUME ListTypeOK, ListIsFresh, NEW s \in scans, Scan(s)
  PROVE  ListIsFresh'
<1> DEFINE new == [s EXCEPT !.read = TRUE, !.rows = scanTrash]
<1>1. /\ scans' = (scans \ {s}) \cup {new} /\ UNCHANGED <<entries, busy, changed, unseen>>
      /\ UNCHANGED <<disk, work>>
  BY DEF Scan
<1>2. new.newest = s.newest /\ new.rows = scanTrash
  BY DEF ListTypeOK
<1>3. scanTrash' = scanTrash
  BY <1>1, SameTrash DEF disk
<1>4. \A rows : Fresh(rows)' = Fresh(rows)
  BY <1>1, <1>3 DEF Fresh
<1>5. Fresh(new.rows)
  BY <1>2 DEF Fresh
<1> HIDE DEF new
<1>6. \A x, y \in scans' : x.newest /\ y.newest => x = y
  BY <1>1, <1>2 DEF ListIsFresh
<1>7. \A x \in scans' : x.newest /\ x.read => Fresh(x.rows)'
  BY <1>1, <1>2, <1>4, <1>5 DEF ListIsFresh
<1>8. (\A x \in scans' : ~x.newest) => \A x \in scans : ~x.newest
  BY <1>1, <1>2
<1>. QED
  BY <1>1, <1>4, <1>6, <1>7, <1>8 DEF ListIsFresh, work

LEMMA PublishKeepsFresh ==
  ASSUME ListTypeOK, ListIsFresh, NEW s \in scans, Publish(s)
  PROVE  ListIsFresh'
<1>1. s.read /\ scans' = scans \ {s} /\ UNCHANGED <<disk, work>>
  BY DEF Publish
<1>2. scanTrash' = scanTrash
  BY <1>1, SameTrash DEF disk
<1>3. \A x, y \in scans' : x.newest /\ y.newest => x = y
  BY <1>1 DEF ListIsFresh
<1>4. CASE s.newest
  <2>1. /\ entries' = s.rows /\ busy' = FALSE /\ changed' \in {changed, FALSE}
        /\ unseen' = (unseen \/ (changed' # changed /\ s.rows # scanTrash))
    BY <1>4 DEF Publish
  <2>2. Fresh(s.rows)
    BY <1>1, <1>4 DEF ListIsFresh
  <2>3. changed \in BOOLEAN /\ unseen \in BOOLEAN
    BY DEF ListTypeOK
  <2>4. Fresh(entries)'
    BY <1>2, <2>1, <2>2, <2>3 DEF Fresh
  <2>5. \A x \in scans' : ~x.newest
    BY <1>1, <1>4 DEF ListIsFresh
  <2>. QED
    BY <1>3, <2>1, <2>4, <2>5 DEF ListIsFresh
<1>5. CASE ~s.newest
  <2>1. UNCHANGED <<entries, busy, changed, unseen>>
    BY <1>5 DEF Publish
  <2>2. \A rows : Fresh(rows)' = Fresh(rows)
    BY <1>2, <2>1 DEF Fresh
  <2>3. \A x \in scans : x.newest => x \in scans'
    BY <1>1, <1>5
  <2>. QED
    BY <1>1, <1>3, <2>1, <2>2, <2>3 DEF ListIsFresh, work
<1>. QED
  BY <1>4, <1>5

(* A worker's step is of the names the list is about, or the watcher sees it.*)
LEMMA WorkerKeepsFresh ==
  ASSUME DiskInv, ListTypeOK, ListIsFresh, NEW w \in Workers,
         \/ createTrashInfo(w) \/ moveToTrash(w)
         \/ Inspect(w) \/ Protect(w) \/ Restore(w) \/ DropInfo(w) \/ MoveBack(w)
         \/ Unprotect(w) \/ CleanUp(w)
  PROVE  ListIsFresh'
<1>1. Keep
  BY DEF createTrashInfo, moveToTrash, Inspect, Protect, Restore, DropInfo, MoveBack,
         Unprotect, CleanUp, Quiet, Noticed
<1>2. \E s \in Steps \ Ended : Goto(w, s)
  BY DEF createTrashInfo, moveToTrash, Inspect, Protect, Restore, DropInfo, MoveBack,
         Unprotect, CleanUp, Steps, Ended, AfterUndo
<1>3. \A v \in Workers : pc[v] \notin Ended => pc'[v] \notin Ended
  BY <1>2 DEF Goto, DiskInv, DiskTypeOK
<1>4. CASE changed' = TRUE
  BY <1>1, <1>3, <1>4, NoticedKeepsFresh DEF Keep
<1>5. CASE UNCHANGED changed /\ UNCHANGED <<at, info>>
  <2>1. scanTrash' = scanTrash
    BY <1>5, SameTrash
  <2>. QED
    BY <1>1, <1>3, <1>5, <2>1, QuietKeepsFresh DEF Keep
<1>6. CASE /\ UNCHANGED changed /\ info' = info
           /\ \E from, to \in Paths \cup Spares \cup Workers \cup {Gone} : Move(from, to)
  <2>1. \A n \in Names, d \in Data : at'[d] = n <=> at[d] = n
    BY <1>6, Apart DEF Move
  <2>2. scanTrash' = scanTrash
    BY <1>6, <2>1, SameTrash
  <2>. QED
    BY <1>1, <1>3, <1>6, <2>2, QuietKeepsFresh DEF Keep
<1>7. CASE Protect(w)
  <2>1. job[w].dest \in Paths \cup Spares
    BY <1>7 DEF Protect, DiskInv, RequestOK
  <2>. QED
    BY <1>5, <1>6, <1>7, <2>1 DEF Protect, Quiet, movePath
<1>8. CASE Unprotect(w)
  <2>1. job[w].now \in Paths
    BY <1>8 DEF Unprotect, DiskInv, RequestOK
  <2>. QED
    BY <1>5, <1>6, <1>8, <2>1 DEF Unprotect, Quiet, movePath
<1>9. CASE CleanUp(w)
  BY <1>5, <1>6, <1>9 DEF CleanUp, Quiet
<1>10. CASE createTrashInfo(w) \/ moveToTrash(w) \/ Inspect(w) \/ Restore(w) \/ DropInfo(w) \/ MoveBack(w)
  BY <1>4, <1>5, <1>10 DEF createTrashInfo, moveToTrash, Inspect, Restore, DropInfo, MoveBack,
     Quiet, Noticed, disk
<1>. QED
  BY <1>7, <1>8, <1>9, <1>10

LEMMA NextKeepsFresh ==
  ASSUME DiskInv, ListTypeOK, ListIsFresh, [Next]_vars
  PROVE  ListIsFresh'
<1>1. CASE UNCHANGED vars
  <2>1. scanTrash' = scanTrash
    BY <1>1, SameTrash DEF vars, disk
  <2>. QED
    BY <1>1, <2>1, QuietKeepsFresh DEF vars, list, work
<1>2. CASE \E s \in scans : Scan(s) \/ Publish(s)
  BY <1>2, ScanKeepsFresh, PublishKeepsFresh
<1>3. CASE DebounceFires
  BY <1>3, RefreshKeepsFresh DEF DebounceFires
<1>4. CASE Create
  <2>1. \A n \in Names, d \in Data : at'[d] = n <=> at[d] = n
    BY <1>4, Apart DEF Create, DiskInv, DiskTypeOK
  <2>2. scanTrash' = scanTrash
    BY <1>4, <2>1, SameTrash DEF Create
  <2>. QED
    BY <1>4, <2>2, QuietKeepsFresh DEF Create, list, work
<1>5. CASE Purge
  BY <1>5, NoticedKeepsFresh DEF Purge, work
<1>6. CASE Crash
  <2> DEFINE old == {}
  <2>1. scans' = old \cup {[newest |-> TRUE, read |-> FALSE, rows |-> {}]} /\ \A s \in old : ~s.newest
    BY <1>6 DEF Crash
  <2> HIDE DEF old
  <2>. QED
    BY <2>1, NewestUnread
<1>7. ASSUME NEW w \in Workers, trash(w) \/ restore(w)
      PROVE  ListIsFresh'
  <2>1. /\ UNCHANGED <<disk, entries, scans, changed, unseen>>
        /\ \E s \in {"locate", "inspect"} : pc' = [pc EXCEPT ![w] = s]
    BY <1>7 DEF trash, restore, Begin, Goto
  <2>2. scanTrash' = scanTrash
    BY <2>1, SameTrash DEF disk
  <2>3. pc'[w] \notin Ended
    BY <2>1 DEF Ended, DiskInv, DiskTypeOK
  <2>. QED
    BY <2>1, <2>2, <2>3, QuietKeepsFresh
<1>8. ASSUME NEW w \in Workers, Report(w)
      PROVE  ListIsFresh'
  BY <1>8, RefreshKeepsFresh DEF Report
<1>9. ASSUME NEW w \in Workers,
             \/ createTrashInfo(w) \/ moveToTrash(w)
             \/ Inspect(w) \/ Protect(w) \/ Restore(w) \/ DropInfo(w) \/ MoveBack(w)
             \/ Unprotect(w) \/ CleanUp(w)
      PROVE  ListIsFresh'
  BY <1>9, WorkerKeepsFresh
<1>. QED
  BY <1>1, <1>2, <1>3, <1>4, <1>5, <1>6, <1>7, <1>8, <1>9 DEF Next

(* However scans overtake one another, operations end in between and other   *)
(* programs act: when nothing is under way and nothing is still to be        *)
(* reported, the list is the trash, and it does not claim to be working      *)
(* (refresh's generation, the watcher and the refresh after each operation). *)
THEOREM SettledListIsTrue == Spec => []SettledTrashListIsTrue
<1>1. Init => ListIsFresh
  <2> SUFFICES ASSUME Init PROVE ListIsFresh
    OBVIOUS
  <2>1. scans = {[newest |-> TRUE, read |-> FALSE, rows |-> {}]}
    BY DEF Init, StartUp
  <2>. QED
    BY <2>1 DEF ListIsFresh
<1>2. DiskInv /\ ListTypeOK /\ ListIsFresh /\ [Next]_vars => ListIsFresh'
  BY NextKeepsFresh
<1>3. ListIsFresh => SettledTrashListIsTrue
  BY DEF ListIsFresh, SettledTrashListIsTrue, Fresh, Ended
<1>. QED
  BY <1>1, <1>2, <1>3, DiskInvariance, PTL DEF Spec

-----------------------------------------------------------------------------
(* Archive creation: an archive that gets its name holds everything the     *)
(* selection held, but what others changed meanwhile.                       *)
(*                                                                          *)
(* What has been looked at accounts for what is below it: an entry that is  *)
(* written has each of its children written or still to come, unless the    *)
(* child was not there, others changed one of the two, or the entry is a     *)
(* directory whose listing has failed.  When the archive is published        *)
(* nothing is to come any more.  Only directories among the    *)
(* sources are listed, and the archive is made in none of them, so that its *)
(* temporary is never an entry of it.                                       *)
(* Is p still to be written?                                                *)
Ahead(p) == \E i \in DOMAIN todo : todo[i] = p

CreateShape ==
  /\ kind \in [Items -> {"none", "file", "dir", "link", "special"}]
  /\ \A p \in Items : Len(p) = 2 => /\ kind[p] \in {"none", "file", "link"}
                                    /\ kind[p] # "none" => kind[Above(p)] = "dir"
  /\ request \in [sources : Seq(Items), where : Items \cup {<<>>}]
  /\ todo \in Seq(Items) /\ written \subseteq Items
  /\ step \in {"check", "write", "list", "publish", "unlink", "discard", "end"}

(* What a step may rely on from the steps before it.                        *)
CreateStages ==
  /\ step = "check" => temp = "none" /\ written = {}
  /\ step \in {"check", "write", "list", "publish"} => final # "ours"
  /\ step = "unlink" => final = "ours"
  /\ step \in {"check", "publish", "unlink"} \/ final = "ours" => todo = <<>>
  /\ step = "discard" => result \in {"Failed", "Cancelled"} /\ (final = "ours" => leftover)
  /\ step = "end" => /\ result = "Success" => final = "ours" /\ temp = "none"
                     /\ result # "Success" => leftover \/ (final # "ours" /\ temp = "none")
  /\ Temporary \in changes => final = "theirs"

(* What has been looked at is written, unless it was not there, others      *)
(* changed it or it could not be listed; what has not is still to come.     *)
Accounted(p) ==
  /\ p \in written \/ Ahead(p)
  /\ p \in written /\ ~(step = "list" /\ p = Head(todo)) =>
       \/ p \in unread
       \/ \A c \in AllChildren(p) :
            c \in written \/ Ahead(c) \/ kind[c] = "none" \/ {p, c} \cap changes # {}

Going == step \in {"write", "list", "publish", "unlink"} \/ final = "ours"

AllAccounted ==
  Going => \A i \in DOMAIN request.sources : Accounted(request.sources[i])

(* Only the sources are listed, and none of them is where the archive goes. *)
OnlySourcesAreListed ==
  /\ \A p \in Items : Ahead(p) /\ Len(p) = 1 => \E i \in DOMAIN request.sources : request.sources[i] = p
  /\ step \in {"write", "list"} =>
       \A i \in DOMAIN request.sources :
         request.sources[i] = request.where => kind[request.where] # "dir"
  /\ step = "list" => /\ todo # <<>> /\ Head(todo) \in written /\ Len(Head(todo)) = 1
                      /\ kind[Head(todo)] = "dir" \/ Head(todo) \in changes

CreateInv == CreateShape /\ CreateStages /\ AllAccounted /\ OnlySourcesAreListed

LEMMA ItemFacts ==
  ASSUME NEW p \in Items
  PROVE  /\ p \in Seq(ItemNames) /\ Len(p) \in {1, 2} /\ DOMAIN p = 1 .. Len(p) /\ p # Temporary
         /\ Len(p) = 2 => Above(p) \in Items /\ Len(Above(p)) = 1 /\ Above(p) = <<p[1]>>
<1>1. PICK n \in 1 .. 2 : p \in [1 .. n -> ItemNames]
  BY DEF Items
<1>2. p \in Seq(ItemNames) /\ Len(p) = n
  BY <1>1
<1>3. DOMAIN Temporary = {} /\ 1 \in DOMAIN p
  BY <1>1 DEF Temporary
<1>4. ASSUME Len(p) = 2 PROVE Above(p) \in Items /\ Len(Above(p)) = 1 /\ Above(p) = <<p[1]>>
  <2>1. Above(p) = SubSeq(p, 1, 1) /\ p[1] \in ItemNames
    BY <1>1, <1>2, <1>4 DEF Above
  <2>2. SubSeq(p, 1, 1) \in [1 .. 1 -> ItemNames] /\ Len(SubSeq(p, 1, 1)) = 1 /\ SubSeq(p, 1, 1) = <<p[1]>>
    <3>1. SubSeq(p, 1, 1) \in Seq(ItemNames) /\ Len(SubSeq(p, 1, 1)) = 1 /\ SubSeq(p, 1, 1)[1] = p[1]
      BY <1>2, <1>4
    <3>2. ASSUME NEW s \in Seq(ItemNames), Len(s) = 1
          PROVE  s \in [1 .. 1 -> ItemNames] /\ s = <<s[1]>>
      <4>1. s \in [1 .. Len(s) -> ItemNames]
        OBVIOUS
      <4>. QED
        BY <3>2, <4>1
    <3>. QED
      BY <3>1, <3>2
  <2>. QED
    BY <2>1, <2>2 DEF Items
<1>. QED
  BY <1>1, <1>2, <1>3, <1>4

(* A directory has one child for each name.                                 *)
LEMMA ChildrenAreFew ==
  ASSUME NEW d PROVE IsFiniteSet(AllChildren(d))
<1> DEFINE S == AllChildren(d)  f == [p \in S |-> p[2]]
<1>1. \A p \in S : p \in Items /\ Len(p) = 2 /\ Above(p) = d
  BY DEF AllChildren
<1> HIDE DEF S
<1>2. \A p \in S : p[2] \in ItemNames /\ p = <<p[1], p[2]>> /\ <<p[1]>> = d
  <2> SUFFICES ASSUME NEW p \in S PROVE p[2] \in ItemNames /\ p = <<p[1], p[2]>> /\ <<p[1]>> = d
    OBVIOUS
  <2>1. p \in Seq(ItemNames) /\ Len(p) = 2 /\ Above(p) = <<p[1]>>
    BY <1>1, ItemFacts
  <2>. QED
    BY <1>1, <2>1
<1>3. \A p, q \in S : f[p] = f[q] => p = q
  <2> SUFFICES ASSUME NEW p \in S, NEW q \in S, f[p] = f[q] PROVE p = q
    OBVIOUS
  <2>1. p[2] = q[2] /\ <<p[1]>> = <<q[1]>>
    BY <1>2
  <2>2. p[1] = q[1]
    BY <2>1
  <2>. QED
    BY <1>2, <2>1, <2>2
<1>4. f \in [S -> ItemNames] /\ DOMAIN f = S
  BY <1>2
<1> HIDE DEF f
<1>5. f \in Injection(S, ItemNames)
  BY <1>3, <1>4 DEF Injection, IsInjective
<1>. QED
  BY <1>5, FS_Injection, CreateAssumption DEF S

(* A listing names what is there, in some order.                            *)
LEMMA ListingFacts ==
  ASSUME NEW S, IsFiniteSet(S)
  PROVE  SetToSeq(S) \in Seq(S) /\ \A x \in S : \E i \in DOMAIN SetToSeq(S) : SetToSeq(S)[i] = x
<1> DEFINE n == Cardinality(S)  s == SetToSeq(S)
<1>1. n \in Nat /\ ExistsBijection(1 .. n, S)
  BY FS_CardinalityType
<1>2. \E f \in [1 .. n -> S] : IsInjective(f)
  BY <1>1 DEF ExistsBijection, Bijection, Injection
<1>3. s \in [1 .. n -> S] /\ IsInjective(s)
  BY <1>2 DEF SetToSeq
<1> HIDE DEF n, s
<1>4. IsFiniteSet(1 .. n) /\ Cardinality(1 .. n) = n
  BY <1>1, FS_Interval
<1>5. s \in Injection(1 .. n, S)
  BY <1>3 DEF Injection
<1>6. s \in Surjection(1 .. n, S)
  BY <1>4, <1>5, FS_Injection DEF n
<1>7. \A x \in S : \E i \in 1 .. n : s[i] = x
  BY <1>6 DEF Surjection
<1>. QED
  BY <1>1, <1>3, <1>7 DEF s

CreateSteps == {"check", "write", "list", "publish", "unlink", "discard", "end"}

(* A step that writes and reads nothing.                                    *)
LEMMA NothingRead ==
  ASSUME CreateInv, UNCHANGED <<kind, request, changes, unread, todo, written>>, step' \in CreateSteps,
         step' = "list" => step = "list", step' = "write" => step = "write",
         step = "list" => step' = "list", Going' => Going
  PROVE  CreateShape' /\ AllAccounted' /\ OnlySourcesAreListed'
<1>1. CreateShape'
  BY DEF CreateInv, CreateShape, CreateSteps
<1>2. \A p : Ahead(p)' <=> Ahead(p)
  BY DEF Ahead
<1>3. \A p : Accounted(p) => Accounted(p)'
  BY <1>2 DEF Accounted
<1>4. AllAccounted'
  BY <1>3 DEF CreateInv, AllAccounted
<1>5. OnlySourcesAreListed'
  BY <1>2 DEF CreateInv, OnlySourcesAreListed
<1>. QED
  BY <1>1, <1>4, <1>5

LEMMA CreateInitInv == CreateInit => CreateInv
<1> SUFFICES ASSUME CreateInit PROVE CreateInv
  OBVIOUS
<1>1. \A p : ~Ahead(p)
  BY DEF CreateInit, Ahead
<1>2. CreateShape
  BY CreateAssumption DEF CreateInit, CreateShape
<1>3. CreateStages
  BY DEF CreateInit, CreateStages
<1>4. AllAccounted /\ OnlySourcesAreListed
  BY <1>1 DEF CreateInit, AllAccounted, Going, OnlySourcesAreListed
<1>. QED
  BY <1>2, <1>3, <1>4 DEF CreateInv

LEMMA CheckKeeps == ASSUME CreateInv, Check PROVE CreateInv'
<1>1. /\ step = "check" /\ CreateShape /\ CreateStages /\ OnlySourcesAreListed
      /\ UNCHANGED <<kind, request, changes, unread, final, written, leftover, stop>>
      /\ final # "ours" /\ temp = "none" /\ todo = <<>> /\ written = {}
  BY DEF CreateInv, CreateStages, Check, requestVars
<1>2. CASE step' = "end" /\ result' \in {"Failed", "Cancelled"} /\ UNCHANGED <<temp, todo>>
  <2>1. CreateStages'
    BY <1>1, <1>2 DEF CreateStages
  <2>2. ~Going'
    BY <1>1, <1>2 DEF Going
  <2>. QED
    BY <1>1, <1>2, <2>1, <2>2, NothingRead DEF CreateInv, CreateSteps
<1>3. CASE ~Refused /\ temp' = "open" /\ todo' = request.sources /\ GoTo("write")
  <2>1. step' = "write" /\ result' = result
    BY <1>3 DEF GoTo
  <2>2. request.sources \in Seq(Items)
    BY <1>1 DEF CreateShape
  <2>3. CreateShape'
    BY <1>1, <1>3, <2>1, <2>2 DEF CreateShape
  <2>4. CreateStages'
    BY <1>1, <2>1 DEF CreateStages
  <2>5. \A p : Ahead(p)' <=> \E i \in DOMAIN request.sources : request.sources[i] = p
    BY <1>3 DEF Ahead
  <2>6. \A i \in DOMAIN request.sources :
          request.sources[i] = request.where => kind[request.where] # "dir"
    BY <1>3 DEF Refused, destinationInsideDirectorySource
  <2>7. OnlySourcesAreListed'
    BY <1>1, <2>1, <2>5, <2>6 DEF OnlySourcesAreListed
  <2>8. AllAccounted'
    BY <1>1, <2>1, <2>5 DEF AllAccounted, Accounted
  <2>. QED
    BY <2>3, <2>4, <2>7, <2>8 DEF CreateInv
<1>. QED
  BY <1>1, <1>2, <1>3 DEF Check, End, GoTo

LEMMA WritePathKeeps == ASSUME CreateInv, WritePath PROVE CreateInv'
<1>1. /\ step = "write" /\ CreateShape /\ CreateStages /\ AllAccounted /\ OnlySourcesAreListed
      /\ UNCHANGED <<kind, request, changes, unread, final, temp, leftover, stop>>
      /\ final # "ours"
  BY DEF CreateInv, CreateStages, WritePath, requestVars
<1>2. CASE todo = <<>> /\ GoTo("publish") /\ UNCHANGED <<todo, written>>
  <2>1. step' = "publish" /\ result' = result
    BY <1>2 DEF GoTo
  <2>2. CreateStages'
    BY <1>1, <1>2, <2>1 DEF CreateStages
  <2>3. Going' => Going
    BY <1>1 DEF Going
  <2>. QED
    BY <1>1, <1>2, <2>1, <2>2, <2>3, NothingRead DEF CreateInv, CreateSteps
<1>3. CASE step' = "discard" /\ result' \in {"Failed", "Cancelled"} /\ UNCHANGED <<todo, written>>
  <2>1. CreateStages'
    BY <1>1, <1>3 DEF CreateStages
  <2>2. Going' => Going
    BY <1>1 DEF Going
  <2>. QED
    BY <1>1, <1>3, <2>1, <2>2, NothingRead DEF CreateInv, CreateSteps
<1> DEFINE p == Head(todo)
<1>4. todo # <<>> => /\ p \in Items /\ Tail(todo) \in Seq(Items) /\ Ahead(p)
                     /\ \A q : Ahead(q) <=> q = p \/ \E i \in DOMAIN Tail(todo) : Tail(todo)[i] = q
  <2> SUFFICES ASSUME todo # <<>>
               PROVE  /\ p \in Items /\ Tail(todo) \in Seq(Items) /\ Ahead(p)
                      /\ \A q : Ahead(q) <=> q = p \/ \E i \in DOMAIN Tail(todo) : Tail(todo)[i] = q
    OBVIOUS
  <2>1. todo \in Seq(Items)
    BY <1>1 DEF CreateShape
  <2>2. p = todo[1] /\ Len(todo) \in Nat /\ Len(todo) >= 1 /\ DOMAIN todo = 1 .. Len(todo)
    BY <2>1
  <2>3. /\ Tail(todo) \in Seq(Items) /\ DOMAIN Tail(todo) = 1 .. Len(todo) - 1
        /\ \A i \in 1 .. Len(todo) - 1 : Tail(todo)[i] = todo[i + 1]
    BY <2>1, <2>2
  <2>4. p \in Items /\ Ahead(p)
    BY <2>1, <2>2 DEF Ahead
  <2>5. ASSUME NEW q, NEW i \in DOMAIN Tail(todo), Tail(todo)[i] = q PROVE Ahead(q)
    <3>1. i + 1 \in DOMAIN todo /\ todo[i + 1] = q
      BY <2>2, <2>3, <2>5
    <3>. QED
      BY <3>1 DEF Ahead
  <2>6. ASSUME NEW q, Ahead(q), q # p PROVE \E i \in DOMAIN Tail(todo) : Tail(todo)[i] = q
    <3>1. PICK i \in 1 .. Len(todo) : todo[i] = q
      BY <2>2, <2>6 DEF Ahead
    <3>2. i - 1 \in DOMAIN Tail(todo) /\ Tail(todo)[i - 1] = q
      BY <2>2, <2>3, <2>6, <3>1
    <3>. QED
      BY <3>2
  <2>. QED
    BY <2>3, <2>4, <2>5, <2>6
<1>5. CASE /\ todo # <<>> /\ kind[p] \in {"file", "link"}
           /\ written' = written \cup {p} /\ todo' = Tail(todo) /\ GoTo("write")
  <2>1. step' = "write" /\ result' = result /\ p \in Items
    BY <1>4, <1>5 DEF GoTo
  <2>2. CreateShape'
    BY <1>1, <1>4, <1>5, <2>1 DEF CreateShape
  <2>3. CreateStages'
    BY <1>1, <2>1 DEF CreateStages
  <2>4. \A q : (q \in written \/ Ahead(q)) <=> (q \in written \/ Ahead(q))'
    BY <1>4, <1>5 DEF Ahead
  <2>5. \A c \in AllChildren(p) : kind[c] = "none"
    <3> SUFFICES ASSUME NEW c \in AllChildren(p) PROVE kind[c] = "none"
      OBVIOUS
    <3>1. c \in Items /\ Len(c) = 2 /\ Above(c) = p
      BY DEF AllChildren
    <3>. QED
      BY <1>1, <1>5, <3>1 DEF CreateShape
  <2>6. ASSUME NEW q, Accounted(q) PROVE Accounted(q)'
    <3>1. CASE q = p
      BY <1>1, <1>5, <2>1, <2>5, <3>1 DEF Accounted
    <3>2. CASE q # p
      BY <1>1, <1>5, <2>1, <2>4, <2>6, <3>2 DEF Accounted
    <3>. QED
      BY <3>1, <3>2
  <2>7. AllAccounted'
    BY <1>1, <2>6 DEF AllAccounted, Going
  <2>8. \A q : Ahead(q)' => Ahead(q)
    BY <1>4, <1>5 DEF Ahead
  <2>9. OnlySourcesAreListed'
    BY <1>1, <2>1, <2>8 DEF OnlySourcesAreListed
  <2>. QED
    BY <2>2, <2>3, <2>7, <2>9 DEF CreateInv
<1>6. CASE /\ todo # <<>> /\ kind[p] = "dir"
           /\ written' = written \cup {p} /\ GoTo("list") /\ UNCHANGED todo
  <2>1. step' = "list" /\ result' = result /\ p \in Items /\ Len(p) = 1
    <3>1. p \in Items /\ Len(p) \in {1, 2}
      BY <1>4, <1>6, ItemFacts
    <3>. QED
      BY <1>1, <1>6, <3>1 DEF GoTo, CreateShape
  <2>2. CreateShape'
    BY <1>1, <1>4, <1>6, <2>1 DEF CreateShape
  <2>3. CreateStages'
    BY <1>1, <2>1 DEF CreateStages
  <2>4. \A q : Ahead(q)' <=> Ahead(q)
    BY <1>6 DEF Ahead
  <2>5. ASSUME NEW q, Accounted(q) PROVE Accounted(q)'
    <3>1. CASE q = p
      BY <1>1, <1>6, <2>1, <2>4, <2>5, <3>1 DEF Accounted
    <3>2. CASE q # p
      BY <1>1, <1>6, <2>1, <2>4, <2>5, <3>2 DEF Accounted
    <3>. QED
      BY <3>1, <3>2
  <2>6. AllAccounted'
    BY <1>1, <2>5 DEF AllAccounted, Going
  <2>7. OnlySourcesAreListed'
    BY <1>1, <1>6, <2>1, <2>4 DEF OnlySourcesAreListed
  <2>. QED
    BY <2>2, <2>3, <2>6, <2>7 DEF CreateInv
<1>7. todo # <<>> => Kind(p) = kind[p]
  BY <1>4, ItemFacts DEF Kind
<1>. QED
  BY <1>2, <1>3, <1>5, <1>6, <1>7 DEF WritePath

LEMMA ListDirectoryKeeps == ASSUME CreateInv, ListDirectory PROVE CreateInv'
<1> DEFINE d == Head(todo)
           here == {p \in AllChildren(d) : kind[p] # "none"}
                   \cup (IF request.where = d THEN {Temporary} ELSE {})
           listing == IF kind[d] = "dir" THEN SetToSeq(here) ELSE <<>>
<1>0. PICK found : /\ todo' = found \o Tail(todo)
                   /\ \/ found = listing /\ UNCHANGED unread
                      \/ found = <<>> /\ unread' = unread \cup {d}
  <2>1. CASE todo' = Tail(todo) /\ unread' = unread \cup {d}
    <3>1. todo \in Seq(Items) /\ todo # <<>>
      BY DEF CreateInv, CreateShape, OnlySourcesAreListed, ListDirectory
    <3>2. <<>> \o Tail(todo) = Tail(todo)
      BY <3>1
    <3>. QED
      BY <2>1, <3>2
  <2>2. CASE todo' = listing \o Tail(todo) /\ UNCHANGED unread
    BY <2>2
  <2>. QED
    BY <2>1, <2>2 DEF ListDirectory
<1>1. /\ step = "list" /\ CreateShape /\ CreateStages /\ AllAccounted /\ OnlySourcesAreListed
      /\ UNCHANGED <<kind, request, changes, final, temp, leftover, stop, written, result>>
      /\ final # "ours" /\ step' = "write" /\ todo' = found \o Tail(todo)
      /\ unread \subseteq unread'
  BY <1>0 DEF CreateInv, CreateStages, ListDirectory, requestVars, GoTo
<1>2. /\ todo # <<>> /\ d \in written /\ Len(d) = 1 /\ d \in Items
      /\ kind[d] = "dir" \/ d \in changes
  BY <1>1 DEF OnlySourcesAreListed, CreateShape
<1>3. /\ todo \in Seq(Items) /\ Len(todo) \in Nat \ {0} /\ d = todo[1] /\ DOMAIN todo = 1 .. Len(todo)
      /\ Tail(todo) \in Seq(Items) /\ Len(Tail(todo)) = Len(todo) - 1
      /\ \A i \in 1 .. Len(todo) - 1 : Tail(todo)[i] = todo[i + 1]
  BY <1>1, <1>2 DEF CreateShape
<1>4. kind[d] = "dir" => here = {p \in AllChildren(d) : kind[p] # "none"}
  <2> SUFFICES ASSUME kind[d] = "dir" PROVE request.where # d
    OBVIOUS
  <2>1. Ahead(d)
    BY <1>3 DEF Ahead
  <2>. QED
    BY <1>1, <1>2, <2>1 DEF OnlySourcesAreListed
<1>5. /\ found \in Seq(Items) /\ \A i \in DOMAIN found : found[i] \in AllChildren(d)
      /\ \/ d \in unread' \/ kind[d] # "dir"
         \/ \A c \in AllChildren(d) : kind[c] = "none" \/ \E i \in DOMAIN found : found[i] = c
  <2>0. CASE found = <<>> /\ unread' = unread \cup {d}
    BY <2>0
  <2>1. CASE kind[d] = "dir" /\ found = listing
    <3> DEFINE S == {p \in AllChildren(d) : kind[p] # "none"}
    <3>1. S \subseteq AllChildren(d) /\ S \subseteq Items /\ \A c \in AllChildren(d) : kind[c] # "none" => c \in S
      BY DEF AllChildren
    <3>2. IsFiniteSet(S)
      BY <3>1, ChildrenAreFew, FS_Subset
    <3>3. found = SetToSeq(S)
      BY <1>4, <2>1
    <3> HIDE DEF S
    <3>4. found \in Seq(S) /\ \A x \in S : \E i \in DOMAIN found : found[i] = x
      BY <3>2, <3>3, ListingFacts
    <3>5. \A i \in DOMAIN found : found[i] \in S
      BY <3>4
    <3>. QED
      BY <3>1, <3>4, <3>5
  <2>2. CASE kind[d] # "dir" /\ found = listing
    BY <2>2
  <2>. QED
    BY <1>0, <2>0, <2>1, <2>2
<1> HIDE DEF here, listing
<1>6. /\ todo' \in Seq(Items) /\ Len(todo') = Len(found) + Len(todo) - 1 /\ DOMAIN todo' = 1 .. Len(todo')
      /\ Len(found) \in Nat /\ DOMAIN found = 1 .. Len(found)
      /\ \A i \in 1 .. Len(found) : todo'[i] = found[i]
      /\ \A i \in 2 .. Len(todo) : todo'[Len(found) + i - 1] = todo[i]
  <2>1. /\ Len(found) \in Nat /\ DOMAIN found = 1 .. Len(found) /\ found \o Tail(todo) \in Seq(Items)
        /\ Len(found \o Tail(todo)) = Len(found) + Len(Tail(todo))
        /\ DOMAIN (found \o Tail(todo)) = 1 .. Len(found \o Tail(todo))
    BY <1>3, <1>5
  <2>2. \A i \in 1 .. Len(found) : (found \o Tail(todo))[i] = found[i]
    BY <1>3, <1>5, <2>1
  <2>3. \A i \in 1 .. Len(Tail(todo)) : (found \o Tail(todo))[Len(found) + i] = Tail(todo)[i]
    BY <1>3, <1>5, <2>1
  <2>4. \A i \in 2 .. Len(todo) : (found \o Tail(todo))[Len(found) + i - 1] = todo[i]
    <3> SUFFICES ASSUME NEW i \in 2 .. Len(todo) PROVE (found \o Tail(todo))[Len(found) + i - 1] = todo[i]
      OBVIOUS
    <3>1. i - 1 \in 1 .. Len(Tail(todo)) /\ Len(found) + (i - 1) = Len(found) + i - 1
          /\ (i - 1) + 1 = i /\ i - 1 \in 1 .. Len(todo) - 1
      BY <1>3, <2>1
    <3>2. Tail(todo)[i - 1] = todo[(i - 1) + 1]
      BY <1>3, <3>1
    <3>. QED
      BY <2>3, <3>1, <3>2
  <2>. QED
    BY <1>1, <1>3, <2>1, <2>2, <2>4
<1>7. \A p : Ahead(p) => p = d \/ Ahead(p)'
  <2> SUFFICES ASSUME NEW p, Ahead(p), p # d PROVE Ahead(p)'
    OBVIOUS
  <2>1. PICK i \in 1 .. Len(todo) : todo[i] = p
    BY <1>3 DEF Ahead
  <2>2. i \in 2 .. Len(todo)
    BY <1>3, <2>1
  <2>3. Len(found) + i - 1 \in DOMAIN todo' /\ todo'[Len(found) + i - 1] = p
    BY <1>3, <1>6, <2>1, <2>2
  <2>. QED
    BY <2>3 DEF Ahead
<1>8. \A p : (\E i \in DOMAIN found : found[i] = p) => Ahead(p)'
  <2> SUFFICES ASSUME NEW p, NEW i \in 1 .. Len(found), found[i] = p PROVE Ahead(p)'
    BY <1>6
  <2>1. i \in DOMAIN todo' /\ todo'[i] = p
    BY <1>3, <1>6
  <2>. QED
    BY <2>1 DEF Ahead
<1>9. \A p : Ahead(p)' => Ahead(p) \/ p \in AllChildren(d)
  <2> SUFFICES ASSUME NEW p, Ahead(p)' PROVE Ahead(p) \/ p \in AllChildren(d)
    OBVIOUS
  <2>1. PICK i \in 1 .. Len(todo') : todo'[i] = p
    BY <1>6 DEF Ahead
  <2>2. CASE i <= Len(found)
    BY <1>5, <1>6, <2>1, <2>2
  <2>3. CASE i > Len(found)
    <3> DEFINE j == i - Len(found) + 1
    <3>1. j \in 2 .. Len(todo) /\ Len(found) + j - 1 = i
      BY <1>3, <1>6, <2>3
    <3> HIDE DEF j
    <3>2. todo'[Len(found) + j - 1] = todo[j]
      BY <1>6, <3>1
    <3>3. j \in DOMAIN todo /\ todo[j] = p
      BY <1>3, <2>1, <3>1, <3>2
    <3>. QED
      BY <3>3 DEF Ahead
  <2>. QED
    BY <1>6, <2>2, <2>3
<1>10. CreateShape'
  BY <1>1, <1>6 DEF CreateShape
<1>11. CreateStages'
  BY <1>1 DEF CreateStages
<1>12. ASSUME NEW q, Accounted(q) PROVE Accounted(q)'
  <2>1. q \in written' \/ Ahead(q)'
    BY <1>1, <1>2, <1>7, <1>12 DEF Accounted
  <2>2. ASSUME q \in written, q \notin unread', NEW c \in AllChildren(q)
        PROVE  c \in written \/ Ahead(c)' \/ kind[c] = "none" \/ {q, c} \cap changes # {}
    <3>1. CASE q = d
      BY <1>2, <1>5, <1>8, <2>2, <3>1
    <3>2. CASE q # d
      BY <1>1, <1>2, <1>7, <1>12, <2>2, <3>2 DEF Accounted
    <3>. QED
      BY <3>1, <3>2
  <2>. QED
    BY <1>1, <2>1, <2>2 DEF Accounted
<1>13. AllAccounted'
  BY <1>1, <1>12 DEF AllAccounted, Going
<1>14. OnlySourcesAreListed'
  <2>1. \A p \in AllChildren(d) : Len(p) = 2
    BY DEF AllChildren
  <2>2. ASSUME NEW p \in Items, Ahead(p)', Len(p) = 1
        PROVE  \E i \in DOMAIN request.sources : request.sources[i] = p
    <3>1. Ahead(p)
      BY <1>9, <2>1, <2>2
    <3>. QED
      BY <1>1, <2>2, <3>1 DEF OnlySourcesAreListed
  <2>. QED
    BY <1>1, <2>2 DEF OnlySourcesAreListed
<1>. QED
  BY <1>10, <1>11, <1>13, <1>14 DEF CreateInv

LEMMA CloseKeeps == ASSUME CreateInv, Close PROVE CreateInv'
<1>1. /\ step = "publish" /\ step' \in {"publish", "discard"} /\ CreateStages
      /\ step' = "discard" => result' \in {"Failed", "Cancelled"}
      /\ UNCHANGED <<kind, request, changes, unread, final, todo, written, leftover>>
  BY DEF CreateInv, Close, requestVars, GoTo
<1>2. CreateStages'
  BY <1>1 DEF CreateStages
<1>3. Going
  BY <1>1 DEF Going
<1>. QED
  BY <1>1, <1>2, <1>3, NothingRead DEF CreateInv, CreateSteps

LEMMA PublishArchiveKeeps == ASSUME CreateInv, PublishArchive PROVE CreateInv'
<1>1. /\ step = "publish" /\ step' \in {"end", "unlink", "discard"} /\ CreateStages
      /\ UNCHANGED <<kind, request, changes, unread, todo, written, leftover>>
  BY DEF CreateInv, PublishArchive, requestVars, GoTo, End
<1>2. final = "none" => Temporary \notin changes
  BY <1>1 DEF CreateStages
<1>3. CreateStages'
  BY <1>1, <1>2 DEF CreateStages, PublishArchive, GoTo, End
<1>4. Going
  BY <1>1 DEF Going
<1>. QED
  BY <1>1, <1>3, <1>4, NothingRead DEF CreateInv, CreateSteps

LEMMA UnlinkKeeps == ASSUME CreateInv, Unlink PROVE CreateInv'
<1>1. /\ step = "unlink" /\ step' \in {"end", "discard"} /\ CreateStages
      /\ UNCHANGED <<kind, request, changes, unread, todo, written>>
  BY DEF CreateInv, Unlink, requestVars, End
<1>2. final = "ours" /\ Temporary \notin changes
  BY <1>1 DEF CreateStages
<1>3. CreateStages'
  BY <1>1, <1>2 DEF CreateStages, Unlink, End
<1>4. Going
  BY <1>1 DEF Going
<1>. QED
  BY <1>1, <1>3, <1>4, NothingRead DEF CreateInv, CreateSteps

LEMMA DiscardKeeps == ASSUME CreateInv, Discard PROVE CreateInv'
<1>1. /\ step = "discard" /\ step' = "end" /\ CreateStages
      /\ UNCHANGED <<kind, request, changes, unread, todo, written, final, result>>
  BY DEF CreateInv, Discard, requestVars
<1>2. CreateStages'
  BY <1>1 DEF CreateStages, Discard
<1>3. Going' => Going
  BY <1>1 DEF Going
<1>. QED
  BY <1>1, <1>2, <1>3, NothingRead DEF CreateInv, CreateSteps

LEMMA CancelCreationKeeps == ASSUME CreateInv, CancelCreation PROVE CreateInv'
<1>1. /\ CreateStages /\ CreateShape
      /\ UNCHANGED <<kind, final, temp, request, todo, written, step, result, leftover, changes,
                   unread>>
  BY DEF CreateInv, CancelCreation
<1>2. CreateStages'
  BY <1>1 DEF CreateStages
<1>3. (Going' => Going) /\ step' \in CreateSteps
  BY <1>1 DEF Going, CreateShape, CreateSteps
<1>. QED
  BY <1>1, <1>2, <1>3, NothingRead DEF CreateInv

LEMMA ChangeItemKeeps == ASSUME CreateInv, Change PROVE CreateInv'
<1>1. /\ step # "end" /\ CreateShape /\ CreateStages /\ AllAccounted /\ OnlySourcesAreListed
      /\ UNCHANGED <<temp, request, todo, written, step, result, stop, leftover>>
      /\ changes \subseteq changes' /\ UNCHANGED unread
  BY DEF CreateInv, Change
<1>2. CASE final = "none" /\ final' = "theirs" /\ changes' = changes \cup {Temporary} /\ UNCHANGED kind
  <2>1. CreateShape' /\ CreateStages'
    BY <1>1, <1>2 DEF CreateShape, CreateStages
  <2>2. \A q : Ahead(q)' <=> Ahead(q)
    BY <1>1 DEF Ahead
  <2>3. \A q : Accounted(q) => Accounted(q)'
    BY <1>1, <1>2, <2>2 DEF Accounted
  <2>4. AllAccounted' /\ OnlySourcesAreListed'
    BY <1>1, <1>2, <2>2, <2>3 DEF AllAccounted, OnlySourcesAreListed, Going
  <2>. QED
    BY <2>1, <2>4 DEF CreateInv
<1>3. ASSUME NEW p \in Items, NEW to \in {"none", "file", "link"},
             Len(p) = 2 => kind[Above(p)] = "dir",
             \A c \in AllChildren(p) : kind[c] = "none",
             kind' = [kind EXCEPT ![p] = to], changes' = changes \cup {p}, UNCHANGED final
      PROVE  CreateInv'
  <2>1. p # Temporary /\ Len(p) \in {1, 2}
    BY ItemFacts
  <2>2. \A q \in Items : kind'[q] = IF q = p THEN to ELSE kind[q]
    BY <1>1, <1>3 DEF CreateShape
  <2>3. \A q \in Items : Len(q) = 2 => /\ kind'[q] \in {"none", "file", "link"}
                                       /\ kind'[q] # "none" => kind'[Above(q)] = "dir"
    <3> SUFFICES ASSUME NEW q \in Items, Len(q) = 2
                 PROVE  /\ kind'[q] \in {"none", "file", "link"}
                        /\ kind'[q] # "none" => kind'[Above(q)] = "dir"
      OBVIOUS
    <3>1. Above(q) \in Items /\ Len(Above(q)) = 1 /\ q # Above(q)
      BY ItemFacts
    <3>2. kind[q] \in {"none", "file", "link"} /\ (kind[q] # "none" => kind[Above(q)] = "dir")
      BY <1>1 DEF CreateShape
    <3>3. CASE q = p
      BY <1>3, <2>2, <3>1, <3>3
    <3>4. CASE q # p /\ Above(q) = p
      BY <1>3, <2>2, <3>4 DEF AllChildren
    <3>5. CASE q # p /\ Above(q) # p
      BY <2>2, <3>1, <3>2, <3>5
    <3>. QED
      BY <3>3, <3>4, <3>5
  <2>4. CreateShape'
    <3>1. kind' \in [Items -> {"none", "file", "dir", "link", "special"}]
      BY <1>1, <1>3 DEF CreateShape
    <3>. QED
      BY <1>1, <2>3, <3>1 DEF CreateShape
  <2>5. CreateStages'
    BY <1>1, <1>3, <2>1 DEF CreateStages
  <2>6. \A q : Ahead(q)' <=> Ahead(q)
    BY <1>1 DEF Ahead
  <2>7. ASSUME NEW q, Accounted(q) PROVE Accounted(q)'
    <3>1. ASSUME q \in written, q \notin unread, ~(step = "list" /\ q = Head(todo)),
                 NEW c \in AllChildren(q)
          PROVE  c \in written \/ Ahead(c)' \/ kind'[c] = "none" \/ {q, c} \cap changes' # {}
      <4>1. c \in Items
        BY DEF AllChildren
      <4>2. CASE c = p
        BY <1>3, <4>2
      <4>3. CASE c # p
        BY <1>1, <2>2, <2>6, <2>7, <3>1, <4>1, <4>3 DEF Accounted
      <4>. QED
        BY <4>2, <4>3
    <3>. QED
      BY <1>1, <2>6, <2>7, <3>1 DEF Accounted
  <2>8. AllAccounted'
    BY <1>1, <1>3, <2>7 DEF AllAccounted, Going
  <2>9. OnlySourcesAreListed'
    <3>1. \A i \in DOMAIN request.sources : request.sources[i] \in Items
      BY <1>1 DEF CreateShape
    <3>2. \A q \in Items : kind'[q] = "dir" => kind[q] = "dir"
      BY <2>2
    <3>3. step = "list" => Head(todo) \in Items
      BY <1>1 DEF OnlySourcesAreListed, CreateShape
    <3>4. step = "list" => kind'[Head(todo)] = "dir" \/ Head(todo) \in changes'
      BY <1>1, <1>3, <2>2, <3>3 DEF OnlySourcesAreListed
    <3>. QED
      BY <1>1, <2>6, <3>1, <3>2, <3>4 DEF OnlySourcesAreListed
  <2>. QED
    BY <2>4, <2>5, <2>8, <2>9 DEF CreateInv
<1>. QED
  BY <1>2, <1>3 DEF Change

LEMMA CreateNextKeeps == CreateInv /\ [CreateNext]_createVars => CreateInv'
<1> SUFFICES ASSUME CreateInv, [CreateNext]_createVars PROVE CreateInv'
  OBVIOUS
<1>1. CASE UNCHANGED createVars
  <2>1. CreateShape' /\ CreateStages'
    BY <1>1 DEF createVars, CreateInv, CreateShape, CreateStages
  <2>2. step' \in CreateSteps /\ (Going' => Going)
    BY <1>1 DEF createVars, CreateInv, CreateShape, CreateSteps, Going
  <2>. QED
    BY <1>1, <2>1, <2>2, NothingRead DEF createVars, CreateInv
<1>. QED
  BY <1>1, CheckKeeps, WritePathKeeps, ListDirectoryKeeps, CloseKeeps, PublishArchiveKeeps,
     UnlinkKeeps, DiscardKeeps, CancelCreationKeeps, ChangeItemKeeps DEF CreateNext

LEMMA WholeFromInvariant == CreateInv => PublishedArchiveIsWhole
<1> SUFFICES ASSUME CreateInv PROVE PublishedArchiveIsWhole
  OBVIOUS
<1>1. Temporary \notin written
  BY ItemFacts DEF CreateInv, CreateShape
<1>2. ASSUME final = "ours", NEW i \in DOMAIN request.sources
      PROVE  /\ request.sources[i] \in written
             /\ \/ request.sources[i] \in unread
                \/ \A c \in AllChildren(request.sources[i]) :
                     c \in written \/ kind[c] = "none" \/ {request.sources[i], c} \cap changes # {}
  <2>1. todo = <<>> /\ step # "list"
    BY <1>2 DEF CreateInv, CreateStages
  <2>2. \A p : ~Ahead(p)
    BY <2>1 DEF Ahead
  <2>3. Accounted(request.sources[i])
    BY <1>2 DEF CreateInv, AllAccounted, Going
  <2>. QED
    BY <2>1, <2>2, <2>3 DEF Accounted
<1>. QED
  BY <1>1, <1>2 DEF CreateInv, CreateStages, PublishedArchiveIsWhole, Missing

(* ArchiveCreator: an archive under its name holds everything selected and  *)
(* below it that others have left alone, except what is below a directory   *)
(* that could not be listed, which create takes to be empty (unread); one   *)
(* that was not completed leaves nothing, and nothing of other programs is  *)
(* replaced.                                                                *)
THEOREM PublishedArchivesAreWhole == CreateSpec => []PublishedArchiveIsWhole
<1>1. CreateSpec => []CreateInv
  BY CreateInitInv, CreateNextKeeps, PTL DEF CreateSpec
<1>. QED
  BY <1>1, WholeFromInvariant, PTL

-----------------------------------------------------------------------------
(* Archive extraction: a failed or cancelled extraction leaves nothing of   *)
(* its own but directories others have put things into, a completed one has *)
(* made every entry whole, and no link of it points above the root.         *)
(*                                                                          *)
(* What is the extraction's own is what it has recorded, once each, parents *)
(* before what they hold; so a rollback, which goes from the last record to *)
(* the first, meets a directory after everything of its own in it.          *)
(*                                                                          *)
(* A link is safe because the walk of its target never goes below depth     *)
(* zero: the depth after n components is the directory's, plus the names,   *)
(* less the "..", that are among the first n, and that is counted with the  *)
(* ranks of the module Ranks.                                               *)

LEMMA UpToIsFinite ==
    ASSUME NEW n \in Nat, NEW S \in SUBSET (1..n), NEW i \in Nat
    PROVE  IsFiniteSet(S) /\ IsFiniteSet({j \in S : j <= i})
<1>1. IsFiniteSet(1..n)
  BY FS_Interval
<1>2. IsFiniteSet(S)
  BY <1>1, FS_Subset
<1>3. {j \in S : j <= i} \in SUBSET S
  BY Zenon
<1> QED
  BY <1>2, <1>3, FS_Subset

LEMMA RankType ==
    ASSUME NEW n \in Nat, NEW S \in SUBSET (1..n), NEW i \in Nat
    PROVE  RankIn(S, i) \in 0..Cardinality(S) /\ Cardinality(S) \in 0..n
<1> DEFINE A == {j \in S : j <= i}
<1>1. IsFiniteSet(1..n) /\ Cardinality(1..n) = n
  BY FS_Interval
<1>2. IsFiniteSet(S) /\ Cardinality(S) <= n /\ Cardinality(S) \in Nat
  BY <1>1, FS_Subset, FS_CardinalityType
<1>3. A \in SUBSET S
  BY Zenon
<1>4. Cardinality(A) = RankIn(S, i)
  BY DEF RankIn
<1> HIDE DEF A
<1>5. Cardinality(A) \in Nat /\ Cardinality(A) <= Cardinality(S)
  BY <1>2, <1>3, FS_Subset, FS_CardinalityType
<1> QED
  BY <1>2, <1>4, <1>5

LEMMA RankIncreases ==
    ASSUME NEW n \in Nat, NEW S \in SUBSET (1..n), NEW i \in S, NEW j \in S, i < j
    PROVE  RankIn(S, i) < RankIn(S, j)
<1> DEFINE A == {l \in S : l <= i}  B == {l \in S : l <= j}
<1>0. i \in Nat /\ j \in Nat /\ \A l \in S : l \in Nat
  OBVIOUS
<1>1. A \in SUBSET B
  <2>1. ASSUME NEW l \in A PROVE l \in B
    BY <1>0, <2>1
  <2> QED  BY <2>1
<1>2. j \in B /\ j \notin A
  BY <1>0
<1>3. IsFiniteSet(A) /\ IsFiniteSet(B)
  BY <1>0, UpToIsFinite, Zenon
<1>4. RankIn(S, i) = Cardinality(A) /\ RankIn(S, j) = Cardinality(B)
  BY DEF RankIn
<1> HIDE DEF A, B
<1>5. Cardinality(A) \in Nat /\ Cardinality(B) \in Nat
  BY <1>3, FS_CardinalityType
<1>6. Cardinality(A) <= Cardinality(B) /\ Cardinality(A) # Cardinality(B)
  BY <1>1, <1>2, <1>3, FS_Subset
<1> QED
  BY <1>4, <1>5, <1>6

LEMMA RankIsPositive ==
    ASSUME NEW n \in Nat, NEW S \in SUBSET (1..n), NEW i \in 1..n, NEW j \in S, j <= i
    PROVE  RankIn(S, i) \in 1..Cardinality(S)
<1> DEFINE B == {l \in S : l <= i}
<1>0. i \in Nat
  OBVIOUS
<1>1. IsFiniteSet(B)
  BY <1>0, UpToIsFinite, Zenon
<1>2. B # {}
  OBVIOUS
<1>3. Cardinality(B) # 0 
  <2> HIDE DEF B
  <2> QED  BY <1>1, <1>2, FS_EmptySet
<1>4. RankIn(S, i) \in 0..Cardinality(S) /\ Cardinality(S) \in Nat
  BY <1>0, RankType
<1> QED
  BY <1>3, <1>4 DEF RankIn

(* Every rank is that of one index.                                         *)
LEMMA KthIsThere ==
    ASSUME NEW n \in Nat, NEW S \in SUBSET (1..n), NEW k \in 1..Cardinality(S)
    PROVE  KthOf(S, k) \in S /\ RankIn(S, KthOf(S, k)) = k
<1> DEFINE f == [i \in S |-> RankIn(S, i)]
<1>1. IsFiniteSet(S) /\ Cardinality(S) \in Nat
  <2> 0 \in Nat
    OBVIOUS
  <2> QED  BY UpToIsFinite, FS_CardinalityType
<1>2. IsFiniteSet(1..Cardinality(S)) /\ Cardinality(1..Cardinality(S)) = Cardinality(S)
  BY <1>1, FS_Interval
<1>3. f \in [S -> 1..Cardinality(S)]
  <2>1. ASSUME NEW i \in S PROVE RankIn(S, i) \in 1..Cardinality(S)
    BY RankIsPositive
  <2> QED  BY <2>1
<1>4. \A i, j \in S : f[i] = f[j] => i = j
  <2> TAKE i \in S
  <2> TAKE j \in S
  <2>0. i \in Nat /\ j \in Nat
    OBVIOUS
  <2>1. f[i] = RankIn(S, i) /\ f[j] = RankIn(S, j) /\ RankIn(S, i) \in Nat /\ RankIn(S, j) \in Nat
    BY <2>0, RankType
  <2>2. i < j => RankIn(S, i) < RankIn(S, j)
    BY RankIncreases
  <2>3. j < i => RankIn(S, j) < RankIn(S, i)
    BY RankIncreases
  <2> QED  BY <2>0, <2>1, <2>2, <2>3
<1>5. f \in Injection(S, 1..Cardinality(S))
  <2> HIDE DEF f
  <2> QED  BY <1>3, <1>4 DEF Injection, IsInjective
<1>6. f \in Surjection(S, 1..Cardinality(S))
  <2> HIDE DEF f
  <2> QED  BY <1>2, <1>5, FS_Injection
<1>7. PICK i \in S : f[i] = k
  <2> HIDE DEF f
  <2> QED  BY <1>6 DEF Surjection
<1>8. RankIn(S, i) = k
  BY <1>7
<1> QED
  BY <1>8 DEF KthOf

LEMMA KthOfRank ==
    ASSUME NEW n \in Nat, NEW S \in SUBSET (1..n), NEW i \in S
    PROVE  KthOf(S, RankIn(S, i)) = i
<1> DEFINE k == RankIn(S, i)  j == KthOf(S, k)
<1>1. k \in 1..Cardinality(S)
  BY RankIsPositive
<1>2. j \in S /\ RankIn(S, j) = k
  BY <1>1, KthIsThere
<1> HIDE DEF j
<1>3. i \in Nat /\ j \in Nat
  BY <1>2
<1>4. RankIn(S, i) \in Nat /\ RankIn(S, j) = RankIn(S, i)
  BY <1>2, <1>3, RankType
<1>5. i < j => RankIn(S, i) < RankIn(S, j)
  BY <1>2, RankIncreases
<1>6. j < i => RankIn(S, j) < RankIn(S, i)
  BY <1>2, RankIncreases
<1>7. j = i
  BY <1>3, <1>4, <1>5, <1>6
<1> QED
  BY <1>7 DEF j


LEMMA RankOfZero ==
  ASSUME NEW n \in Nat, NEW S \in SUBSET (1 .. n)
  PROVE  RankIn(S, 0) = 0
<1>1. {j \in S : j <= 0} = {}
  <2>1. \A j \in S : j \in Nat /\ ~(j <= 0)
    OBVIOUS
  <2>. QED
    BY <2>1
<1>. QED
  BY <1>1, FS_EmptySet DEF RankIn

(* The rank goes up by one at the members of the set.                       *)
LEMMA RankStep ==
  ASSUME NEW n \in Nat, NEW S \in SUBSET (1 .. n), NEW i \in 1 .. n
  PROVE  /\ i \in S => RankIn(S, i) = RankIn(S, i - 1) + 1
         /\ i \notin S => RankIn(S, i) = RankIn(S, i - 1)
<1> DEFINE A == {j \in S : j <= i - 1}  B == {j \in S : j <= i}
<1>1. i \in Nat /\ i - 1 \in Nat /\ \A j \in S : j \in Nat
  OBVIOUS
<1>2. IsFiniteSet(A)
  BY <1>1, UpToIsFinite, Zenon
<1>. \A j \in S : j <= i <=> j <= i - 1 \/ j = i
  BY <1>1
<1>3. i \in S => B = A \cup {i}
  OBVIOUS
<1>4. i \notin S => B = A
  OBVIOUS
<1>5. i \notin A
  BY <1>1
<1>6. RankIn(S, i - 1) = Cardinality(A) /\ RankIn(S, i) = Cardinality(B)
  BY DEF RankIn
<1> HIDE DEF A, B
<1>7. Cardinality(A \cup {i}) = Cardinality(A) + 1
  BY <1>2, <1>5, FS_AddElement
<1>. QED
  BY <1>3, <1>4, <1>6, <1>7

LEMMA SmallestIsThere ==
  ASSUME NEW n \in Nat, NEW S \in SUBSET (1 .. n), S # {}
  PROVE  \E i \in S : \A j \in S : i <= j
<1>1. IsFiniteSet(S) /\ Cardinality(S) \in Nat
  <2>1. 0 \in Nat
    OBVIOUS
  <2>. QED
    BY <2>1, UpToIsFinite, FS_CardinalityType
<1>2. Cardinality(S) # 0
  BY <1>1, FS_EmptySet
<1>3. 1 \in 1 .. Cardinality(S)
  BY <1>1, <1>2
<1>4. PICK i \in S : RankIn(S, i) = 1
  BY <1>3, KthIsThere
<1>5. ASSUME NEW j \in S PROVE i <= j
  <2>1. i \in Nat /\ j \in 1 .. n /\ j <= j
    OBVIOUS
  <2>2. RankIn(S, j) \in 1 .. Cardinality(S)
    BY <2>1, RankIsPositive
  <2>3. j < i => RankIn(S, j) < RankIn(S, i)
    BY RankIncreases
  <2>. QED
    BY <1>4, <2>1, <2>2, <2>3
<1>. QED
  BY <1>5

(* Where the components of a target are among some, by their index.         *)
At(parts, some) == {k \in DOMAIN parts : parts[k] \in some}

(* The depth after n components: those that go down, less those that go up. *)
LEMMA WalkCounts ==
  ASSUME NEW from \in Nat, NEW parts \in Seq(Components), NEW n \in 0 .. Len(parts)
  PROVE  Walk(from, parts)[n]
           = from + RankIn(At(parts, EntryNames), n) - RankIn(At(parts, {".."}), n)
<1> DEFINE D == At(parts, EntryNames)  U == At(parts, {".."})
           f == [i \in 0 .. Len(parts) |-> from + RankIn(D, i) - RankIn(U, i)]
           w == Walk(from, parts)
<1>1. Len(parts) \in Nat /\ DOMAIN parts = 1 .. Len(parts)
  OBVIOUS
<1>2. D \in SUBSET (1 .. Len(parts)) /\ U \in SUBSET (1 .. Len(parts))
  BY <1>1 DEF At
<1>3. \A i \in 1 .. Len(parts) : /\ i \in D <=> parts[i] \in EntryNames
                                 /\ i \in U <=> parts[i] = ".."
                                 /\ parts[i] \in EntryNames \cup {".", ".."}
  BY <1>1 DEF At, Components
<1> HIDE DEF D, U
<1>4. \A i \in 0 .. Len(parts) : RankIn(D, i) \in Nat /\ RankIn(U, i) \in Nat
  <2> SUFFICES ASSUME NEW i \in 0 .. Len(parts), NEW S \in {D, U} PROVE RankIn(S, i) \in Nat
    OBVIOUS
  <2>1. i \in Nat /\ S \in SUBSET (1 .. Len(parts))
    BY <1>1, <1>2
  <2>2. RankIn(S, i) \in 0 .. Cardinality(S) /\ Cardinality(S) \in 0 .. Len(parts)
    BY <1>1, <2>1, RankType
  <2>. QED
    BY <2>2
<1>5. ASSUME NEW i \in 1 .. Len(parts)
      PROVE  from + RankIn(D, i) - RankIn(U, i)
               = After(from + RankIn(D, i - 1) - RankIn(U, i - 1), parts[i])
  <2>1. i - 1 \in 0 .. Len(parts) /\ i \in 0 .. Len(parts)
    BY <1>1
  <2>2. /\ RankIn(D, i - 1) \in Nat /\ RankIn(U, i - 1) \in Nat
        /\ RankIn(D, i) \in Nat /\ RankIn(U, i) \in Nat
    BY <1>4, <2>1
  <2>3. /\ i \in D => RankIn(D, i) = RankIn(D, i - 1) + 1
        /\ i \notin D => RankIn(D, i) = RankIn(D, i - 1)
        /\ i \in U => RankIn(U, i) = RankIn(U, i - 1) + 1
        /\ i \notin U => RankIn(U, i) = RankIn(U, i - 1)
    BY <1>1, <1>2, RankStep
  <2> DEFINE before == from + RankIn(D, i - 1) - RankIn(U, i - 1)
  <2>4. CASE parts[i] = "."
    <3>1. i \notin D /\ i \notin U
      BY <1>3, <2>4, ExtractAssumption
    <3>2. After(before, parts[i]) = before
      BY <2>4 DEF After
    <3>. QED
      BY <2>2, <2>3, <3>1, <3>2
  <2>5. CASE parts[i] = ".."
    <3>1. i \notin D /\ i \in U
      BY <1>3, <2>5, ExtractAssumption
    <3>2. After(before, parts[i]) = before - 1
      BY <2>5 DEF After
    <3>. QED
      BY <2>2, <2>3, <3>1, <3>2
  <2>6. CASE parts[i] \in EntryNames
    <3>1. i \in D /\ i \notin U /\ parts[i] \notin {".", ".."}
      BY <1>3, <2>6, ExtractAssumption
    <3>2. After(before, parts[i]) = before + 1
      BY <3>1 DEF After
    <3>. QED
      BY <2>2, <2>3, <3>1, <3>2
  <2>. QED
    BY <1>3, <2>4, <2>5, <2>6
<1>6. RankIn(D, 0) = 0 /\ RankIn(U, 0) = 0
  BY <1>1, <1>2, RankOfZero
<1>7. f = [i \in 0 .. Len(parts) |-> IF i = 0 THEN from ELSE After(f[i - 1], parts[i])]
  <2>1. ASSUME NEW i \in 0 .. Len(parts)
        PROVE  f[i] = IF i = 0 THEN from ELSE After(f[i - 1], parts[i])
    <3>1. CASE i = 0
      BY <1>1, <1>6, <3>1
    <3>2. CASE i # 0
      <4>1. i \in 1 .. Len(parts) /\ i - 1 \in 0 .. Len(parts)
        BY <1>1, <3>2
      <4>2. f[i] = from + RankIn(D, i) - RankIn(U, i) /\ f[i - 1] = from + RankIn(D, i - 1) - RankIn(U, i - 1)
        BY <4>1
      <4>. QED
        BY <1>5, <3>2, <4>1, <4>2
    <3>. QED
      BY <3>1, <3>2
  <2>2. f = [i \in 0 .. Len(parts) |-> f[i]]
    OBVIOUS
  <2> HIDE DEF f
  <2>. QED
    BY <2>1, <2>2
<1>8. w = [i \in 0 .. Len(parts) |-> IF i = 0 THEN from ELSE After(w[i - 1], parts[i])]
  <2> HIDE DEF f
  <2>. QED
    BY <1>7, Zenon DEF Walk
<1> HIDE DEF w
<1> DEFINE Bad == {i \in 1 .. Len(parts) : w[i] # f[i]}
<1>9. w[0] = f[0]
  BY <1>1, <1>6, <1>8
<1>10. Bad = {}
  <2> SUFFICES ASSUME Bad # {} PROVE FALSE
    OBVIOUS
  <2>1. PICK i \in Bad : \A j \in Bad : i <= j
    BY <1>1, SmallestIsThere
  <2>2. i \in 1 .. Len(parts) /\ i \in 0 .. Len(parts) /\ i # 0 /\ i - 1 \in 0 .. Len(parts) /\ w[i] # f[i]
    BY <1>1
  <2>3. w[i - 1] = f[i - 1]
    <3>1. CASE i = 1
      BY <1>9, <3>1
    <3>2. CASE i # 1
      <4>1. i - 1 \in 1 .. Len(parts) /\ ~(i <= i - 1)
        BY <1>1, <2>2, <3>2
      <4>. QED
        BY <2>1, <4>1
    <3>. QED
      BY <3>1, <3>2
  <2> HIDE DEF f
  <2>4. w[i] = After(w[i - 1], parts[i])
    BY <1>8, <2>2
  <2>5. f[i] = After(f[i - 1], parts[i])
    BY <1>7, <2>2
  <2>. QED
    BY <2>2, <2>3, <2>4, <2>5
<1>11. w[n] = f[n]
  <2> HIDE DEF f
  <2>. QED
    BY <1>1, <1>9, <1>10
<1>. QED
  BY <1>11 DEF w, D, U

(* What stays when the dots are left out: its values, and how many of some  *)
(* there are up to each place.                                              *)
LEMMA DotsAreLeftOut ==
  ASSUME NEW parts \in Seq(Components)
  PROVE  /\ WithoutDots(parts) \in Seq(Components \ {"."}) /\ Len(WithoutDots(parts)) <= Len(parts)
         /\ ".." \notin Range(parts) => WithoutDots(parts) \in Seq(EntryNames)
         /\ \A n \in 1 .. Len(WithoutDots(parts)) : \E m \in 1 .. Len(parts) :
              \A some \in SUBSET (Components \ {"."}) :
                RankIn(At(WithoutDots(parts), some), n) = RankIn(At(parts, some), m)
<1> DEFINE kept == {i \in DOMAIN parts : parts[i] \notin {"."}}
           c == Cardinality(kept)
           path == [k \in 1 .. c |-> parts[KthOf(kept, k)]]
<1>1. Len(parts) \in Nat /\ DOMAIN parts = 1 .. Len(parts) /\ kept \in SUBSET (1 .. Len(parts))
  OBVIOUS
<1>2. WithoutDots(parts) = path
  BY DEF WithoutDots, Without
<1>3. \A i \in 1 .. Len(parts) : i \in kept <=> parts[i] \in Components \ {"."}
  BY <1>1
<1> HIDE DEF kept
<1>4. c \in 0 .. Len(parts)
  <2>1. 0 \in Nat
    OBVIOUS
  <2>. QED
    BY <1>1, <2>1, RankType
<1>5. \A k \in 1 .. c : KthOf(kept, k) \in kept /\ RankIn(kept, KthOf(kept, k)) = k
  BY <1>1, KthIsThere
<1>6. \A i \in kept : RankIn(kept, i) \in 1 .. c /\ KthOf(kept, RankIn(kept, i)) = i
  <2> SUFFICES ASSUME NEW i \in kept PROVE RankIn(kept, i) \in 1 .. c /\ KthOf(kept, RankIn(kept, i)) = i
    OBVIOUS
  <2>1. i \in 1 .. Len(parts) /\ i <= i
    BY <1>1
  <2>. QED
    BY <1>1, <2>1, RankIsPositive, KthOfRank
<1> HIDE DEF c
<1>7. \A k \in 1 .. c : path[k] \in Components \ {"."}
  BY <1>1, <1>3, <1>5
<1>8. path \in Seq(Components \ {"."}) /\ Len(path) = c /\ DOMAIN path = 1 .. c
  BY <1>4, <1>7
<1>9. ASSUME ".." \notin Range(parts) PROVE path \in Seq(EntryNames)
  <2>1. \A k \in 1 .. c : path[k] \in EntryNames
    <3> SUFFICES ASSUME NEW k \in 1 .. c PROVE path[k] \in EntryNames
      OBVIOUS
    <3>1. KthOf(kept, k) \in DOMAIN parts
      BY <1>1, <1>5
    <3>2. path[k] # ".."
      BY <1>9, <3>1 DEF Range
    <3>. QED
      BY <1>7, <3>2 DEF Components
  <2>. QED
    BY <1>4, <2>1
<1>10. ASSUME NEW n \in 1 .. c PROVE \E m \in 1 .. Len(parts) :
              \A some \in SUBSET (Components \ {"."}) :
                RankIn(At(path, some), n) = RankIn(At(parts, some), m)
  <2> DEFINE m == KthOf(kept, n)
  <2>1. m \in kept /\ m \in 1 .. Len(parts) /\ RankIn(kept, m) = n /\ n \in Nat
    <3>1. n \in Nat
      BY <1>4
    <3>2. m \in kept /\ RankIn(kept, m) = n
      BY <1>5
    <3> HIDE DEF m
    <3>. QED
      BY <1>1, <3>1, <3>2
  <2> HIDE DEF m
  <2>2. ASSUME NEW some \in SUBSET (Components \ {"."})
        PROVE  RankIn(At(path, some), n) = RankIn(At(parts, some), m)
    <3> DEFINE A == {k \in At(path, some) : k <= n}  B == {j \in At(parts, some) : j <= m}
               f == [k \in A |-> KthOf(kept, k)]
    <3>1. \A k : k \in A <=> k \in 1 .. c /\ path[k] \in some /\ k <= n
      BY <1>8 DEF At
    <3>2. \A j : j \in B <=> j \in kept /\ parts[j] \in some /\ j <= m
      BY <1>1, <1>3 DEF At
    <3>3. \A k \in 1 .. c : path[k] = parts[KthOf(kept, k)]
      OBVIOUS
    <3>4. IsFiniteSet(A)
      <4>1. At(path, some) \in SUBSET (1 .. c)
        BY <1>8 DEF At
      <4>2. c \in Nat
        BY <1>4
      <4>. QED
        BY <2>1, <4>1, <4>2, UpToIsFinite
    <3> HIDE DEF A, B, path
    <3>5. \A i, j \in kept : RankIn(kept, i) <= RankIn(kept, j) => i <= j
      <4> SUFFICES ASSUME NEW i \in kept, NEW j \in kept, RankIn(kept, i) <= RankIn(kept, j) PROVE i <= j
        OBVIOUS
      <4>1. RankIn(kept, i) \in 1 .. c /\ RankIn(kept, j) \in 1 .. c /\ i \in Nat /\ j \in Nat
        BY <1>1, <1>6
      <4>2. j < i => RankIn(kept, j) < RankIn(kept, i)
        BY <1>1, RankIncreases
      <4>. QED
        BY <1>4, <4>1, <4>2
    <3>6. \A i, j \in kept : i <= j => RankIn(kept, i) <= RankIn(kept, j)
      <4> SUFFICES ASSUME NEW i \in kept, NEW j \in kept, i <= j PROVE RankIn(kept, i) <= RankIn(kept, j)
        OBVIOUS
      <4>1. RankIn(kept, i) \in 1 .. c /\ RankIn(kept, j) \in 1 .. c /\ i \in Nat /\ j \in Nat
        BY <1>1, <1>6
      <4>2. i < j => RankIn(kept, i) < RankIn(kept, j)
        BY <1>1, RankIncreases
      <4>. QED
        BY <1>4, <4>1, <4>2
    <3>7. f \in [A -> B] /\ DOMAIN f = A
      <4> SUFFICES ASSUME NEW k \in A PROVE KthOf(kept, k) \in B
        OBVIOUS
      <4>1. k \in 1 .. c /\ path[k] \in some /\ k <= n
        BY <3>1
      <4>2. KthOf(kept, k) \in kept /\ RankIn(kept, KthOf(kept, k)) = k /\ parts[KthOf(kept, k)] \in some
        BY <1>5, <3>3, <4>1
      <4>3. KthOf(kept, k) <= m
        BY <2>1, <3>5, <4>1, <4>2
      <4>. QED
        BY <3>2, <4>2, <4>3
    <3>8. \A k, l \in A : f[k] = f[l] => k = l
      <4> SUFFICES ASSUME NEW k \in A, NEW l \in A, f[k] = f[l] PROVE k = l
        OBVIOUS
      <4>1. KthOf(kept, k) = KthOf(kept, l) /\ k \in 1 .. c /\ l \in 1 .. c
        BY <3>1
      <4>. QED
        BY <1>5, <4>1
    <3>9. \A j \in B : \E k \in A : f[k] = j
      <4> SUFFICES ASSUME NEW j \in B PROVE \E k \in A : f[k] = j
        OBVIOUS
      <4>1. j \in kept /\ parts[j] \in some /\ j <= m
        BY <3>2
      <4>2. RankIn(kept, j) \in 1 .. c /\ KthOf(kept, RankIn(kept, j)) = j /\ RankIn(kept, j) <= n
        BY <1>6, <2>1, <3>6, <4>1
      <4>3. RankIn(kept, j) \in A
        BY <3>1, <3>3, <4>1, <4>2
      <4>. QED
        BY <4>2, <4>3
    <3> HIDE DEF f
    <3>10. f \in Bijection(A, B)
      BY <3>7, <3>8, <3>9 DEF Bijection, Injection, Surjection, IsInjective
    <3>11. Cardinality(B) = Cardinality(A)
      BY <3>4, <3>10, FS_Bijection DEF ExistsBijection
    <3>. QED
      BY <3>11 DEF RankIn, A, B
  <2>. QED
    BY <2>1, <2>2
<1> HIDE DEF path
<1>. QED
  BY <1>2, <1>4, <1>8, <1>9, <1>10

LEMMA SlotFacts ==
  ASSUME NEW p \in Slots
  PROVE  /\ p \in Seq(EntryNames) /\ Len(p) \in {1, 2} /\ p # <<>>
         /\ Len(Parent(p)) = Len(p) - 1 /\ Parent(p) # p
         /\ Len(p) = 1 => Parent(p) = <<>>
         /\ Len(p) = 2 => Parent(p) \in Slots /\ Len(Parent(p)) = 1 /\ Parent(p) # <<>>
<1>1. PICK n \in 1 .. 2 : p \in [1 .. n -> EntryNames]
  BY DEF Slots
<1>2. p \in Seq(EntryNames) /\ Len(p) = n /\ p # <<>>
  BY <1>1
<1>3. /\ Parent(p) \in Seq(EntryNames) /\ Len(Parent(p)) = n - 1
  BY <1>1, <1>2 DEF Parent
<1>4. ASSUME NEW s \in Seq(EntryNames), Len(s) = 1
      PROVE  s \in [1 .. 1 -> EntryNames] /\ s # <<>>
  <2>1. s \in [1 .. Len(s) -> EntryNames]
    OBVIOUS
  <2>. QED
    BY <1>4, <2>1
<1>5. n = 2 => Parent(p) \in Slots /\ Parent(p) # <<>>
  <2> SUFFICES ASSUME n = 2 PROVE Parent(p) \in Slots /\ Parent(p) # <<>>
    OBVIOUS
  <2>1. Parent(p) \in [1 .. 1 -> EntryNames] /\ Parent(p) # <<>>
    BY <1>3, <1>4
  <2>. QED
    BY <2>1 DEF Slots
<1>6. n = 1 => Parent(p) = <<>>
  BY <1>3
<1>. QED
  BY <1>1, <1>2, <1>3, <1>5, <1>6

LEMMA SlotsAreShort ==
  ASSUME NEW p \in Seq(EntryNames), p # <<>>, Len(p) <= 2
  PROVE  p \in Slots
<1>1. Len(p) \in Nat /\ p \in [1 .. Len(p) -> EntryNames]
  OBVIOUS
<1>2. Len(p) # 0
  OBVIOUS
<1>3. Len(p) \in 1 .. 2
  BY <1>1, <1>2
<1>. QED
  BY <1>1, <1>3 DEF Slots

(* What the guard lets through is a path below the root.                    *)
LEMMA SafePaths ==
  ASSUME NEW raw \in RawPaths, validateArchiveRootRelativePath(raw).safe,
         Len(validateArchiveRootRelativePath(raw).path) <= 2
  PROVE  validateArchiveRootRelativePath(raw).path \in Slots
<1>1. /\ ".." \notin Range(raw.parts) /\ WithoutDots(raw.parts) # <<>>
      /\ validateArchiveRootRelativePath(raw).path = WithoutDots(raw.parts)
  BY DEF validateArchiveRootRelativePath, Rejected, accepted, hasTraversalComponent
<1>2. raw.parts \in Seq(Components)
  BY DEF RawPaths
<1>3. WithoutDots(raw.parts) \in Seq(EntryNames)
  BY <1>1, <1>2, DotsAreLeftOut
<1>. QED
  BY <1>1, <1>3, SlotsAreShort

StaysBelow(p, to) ==
  \A n \in 0 .. Len(to) :
    Cardinality({k \in 1 .. n : to[k] = ".."})
      <= Len(Parent(p)) + Cardinality({k \in 1 .. n : to[k] \notin {".", ".."}})

LEMMA CountsAreRanks ==
  ASSUME NEW to \in Seq(Components), NEW n \in 0 .. Len(to)
  PROVE  /\ Cardinality({k \in 1 .. n : to[k] = ".."}) = RankIn(At(to, {".."}), n)
         /\ Cardinality({k \in 1 .. n : to[k] \notin {".", ".."}}) = RankIn(At(to, EntryNames), n)
<1>1. Len(to) \in Nat /\ DOMAIN to = 1 .. Len(to) /\ \A k \in 1 .. Len(to) : to[k] \in EntryNames \cup {".", ".."}
  BY DEF Components
<1>2. \A k : k \in 1 .. n <=> k \in 1 .. Len(to) /\ k <= n
  BY <1>1
<1>3. \A k \in 1 .. Len(to) : to[k] \in EntryNames <=> to[k] \notin {".", ".."}
  BY <1>1, ExtractAssumption
<1>4. {k \in 1 .. n : to[k] = ".."} = {j \in At(to, {".."}) : j <= n}
  BY <1>1, <1>2 DEF At
<1>5. {k \in 1 .. n : to[k] \notin {".", ".."}} = {j \in At(to, EntryNames) : j <= n}
  BY <1>1, <1>2, <1>3 DEF At
<1>. QED
  BY <1>4, <1>5 DEF RankIn

(* What the guard lets a link point at is below the root at every step.     *)
LEMMA SafeTargets ==
  ASSUME NEW p \in Slots, NEW raw \in RawPaths, validateSymlinkTarget(p, raw).safe
  PROVE  /\ validateSymlinkTarget(p, raw).path \in Seq(Components)
         /\ StaysBelow(p, validateSymlinkTarget(p, raw).path)
<1> DEFINE parts == raw.parts  path == WithoutDots(parts)  from == Len(p) - 1
<1>1. /\ StaysInside(from, parts)
      /\ validateSymlinkTarget(p, raw).path = IF path = <<>> THEN <<".">> ELSE path
  BY DEF validateSymlinkTarget, Rejected, accepted
<1>2. parts \in Seq(Components) /\ Len(p) \in {1, 2} /\ from \in Nat /\ Len(Parent(p)) = from
  <2>1. Len(p) \in {1, 2} /\ Len(Parent(p)) = Len(p) - 1
    BY SlotFacts
  <2>2. raw.parts \in Seq(Components)
    BY DEF RawPaths
  <2>. QED
    BY <2>1, <2>2
<1> HIDE DEF parts, path, from
<1>3. /\ path \in Seq(Components \ {"."}) /\ path \in Seq(Components) /\ Len(path) <= Len(parts)
      /\ \A n \in 1 .. Len(path) : \E m \in 1 .. Len(parts) :
           \A some \in SUBSET (Components \ {"."}) :
             RankIn(At(path, some), n) = RankIn(At(parts, some), m)
  <2>1. path \in Seq(Components \ {"."})
    BY <1>2, DotsAreLeftOut DEF path
  <2>2. path \in Seq(Components)
    BY <2>1
  <2>. QED
    BY <1>2, <2>1, <2>2, DotsAreLeftOut DEF path
<1>4. EntryNames \in SUBSET (Components \ {"."}) /\ {".."} \in SUBSET (Components \ {"."})
  BY ExtractAssumption DEF Components
<1>5. StaysBelow(p, path)
  <2> SUFFICES ASSUME NEW n \in 0 .. Len(path)
               PROVE  RankIn(At(path, {".."}), n) <= from + RankIn(At(path, EntryNames), n)
    BY <1>2, <1>3, CountsAreRanks DEF StaysBelow
  <2>0. Len(path) \in Nat /\ Len(parts) \in Nat /\ DOMAIN path = 1 .. Len(path) /\ DOMAIN parts = 1 .. Len(parts)
    BY <1>2, <1>3
  <2>1. CASE n = 0
    <3>1. At(path, {".."}) \in SUBSET (1 .. Len(path)) /\ At(path, EntryNames) \in SUBSET (1 .. Len(path))
      BY <2>0 DEF At
    <3>2. RankIn(At(path, {".."}), 0) = 0 /\ RankIn(At(path, EntryNames), 0) = 0
      BY <2>0, <3>1, RankOfZero
    <3>. QED
      BY <1>2, <2>1, <3>2
  <2>2. CASE n # 0
    <3>1. n \in 1 .. Len(path)
      BY <2>0, <2>2
    <3>2. PICK m \in 1 .. Len(parts) : \A some \in SUBSET (Components \ {"."}) :
             RankIn(At(path, some), n) = RankIn(At(parts, some), m)
      BY <1>3, <3>1
    <3>3. m \in 0 .. Len(parts)
      BY <2>0
    <3>4. /\ RankIn(At(path, {".."}), n) = RankIn(At(parts, {".."}), m)
          /\ RankIn(At(path, EntryNames), n) = RankIn(At(parts, EntryNames), m)
      BY <1>4, <3>2
    <3>5. Walk(from, parts)[m] >= 0
      BY <1>1, <3>3 DEF StaysInside
    <3>6. Walk(from, parts)[m] = from + RankIn(At(parts, EntryNames), m) - RankIn(At(parts, {".."}), m)
      BY <1>2, <3>3, WalkCounts
    <3>7. RankIn(At(parts, EntryNames), m) \in Int /\ RankIn(At(parts, {".."}), m) \in Int
      <4>1. At(parts, {".."}) \in SUBSET (1 .. Len(parts)) /\ At(parts, EntryNames) \in SUBSET (1 .. Len(parts)) /\ m \in Nat
        BY <2>0 DEF At
      <4>2. /\ RankIn(At(parts, EntryNames), m) \in 0 .. Cardinality(At(parts, EntryNames))
            /\ RankIn(At(parts, {".."}), m) \in 0 .. Cardinality(At(parts, {".."}))
        BY <2>0, <4>1, RankType
      <4>. QED
        BY <4>2
    <3>. QED
      BY <1>2, <3>4, <3>5, <3>6, <3>7
  <2>. QED
    BY <2>1, <2>2
<1>6. StaysBelow(p, <<".">>) /\ <<".">> \in Seq(Components)
  <2>1. <<".">> \in Seq(Components) /\ Len(<<".">>) = 1
    BY DEF Components
  <2>2. ASSUME NEW n \in 0 .. 1
        PROVE  /\ Cardinality({k \in 1 .. n : <<".">>[k] = ".."}) = 0
               /\ Cardinality({k \in 1 .. n : <<".">>[k] \notin {".", ".."}}) = 0
    <3>1. \A k \in 1 .. n : <<".">>[k] = "."
      OBVIOUS
    <3>2. {k \in 1 .. n : <<".">>[k] = ".."} = {} /\ {k \in 1 .. n : <<".">>[k] \notin {".", ".."}} = {}
      BY <3>1
    <3>. QED
      BY <3>2, FS_EmptySet
  <2>3. \A n \in 0 .. Len(<<".">>) : n \in 0 .. 1
    BY <2>1
  <2>4. 0 <= Len(Parent(p)) + 0
    BY <1>2
  <2>. QED
    BY <2>1, <2>2, <2>3, <2>4 DEF StaysBelow
<1>. QED
  BY <1>1, <1>3, <1>5, <1>6

Nodes == [kind : {"none", "dir", "file", "link"}, mine : BOOLEAN, of : Nat, whole : BOOLEAN,
          to : Seq(Components)]

ExtractShape == ExtractTypeOK /\ archive \in Seq(Entries) /\ tree \in [Slots -> Nodes]

(* What is below the root, and whose it is.                                 *)
Owned ==
  /\ \A p \in Slots : tree[p].mine => tree[p].kind # "none"
  /\ \A p \in Slots : tree[p].kind # "none" => IsDir(Parent(p))
  /\ \A p \in Slots : p \in theirs <=> tree[p].kind # "none" /\ ~tree[p].mine

(* What was created is recorded, parents first; what a rollback has left is *)
(* a directory with something of others in it.                              *)
Recorded ==
  /\ \A i \in DOMAIN created : tree[created[i]].mine
  /\ \A i, j \in DOMAIN created : created[i] = created[j] => i = j
  /\ \A i, j \in DOMAIN created : Parent(created[i]) = created[j] => j < i
  /\ \A p \in Slots : tree[p].mine =>
       \/ \E i \in DOMAIN created : created[i] = p
       \/ stage \in {"rollback", "end"} /\ \E q \in theirs : Parent(q) = p

DiskFacts == Owned /\ Recorded /\ LinksStayBelowTheRoot

Valid(i) == validateArchiveRootRelativePath(archive[i].path).safe /\ Where(i) \in Slots

Busy == stage \notin {"rollback", "end"}

(* What a step may rely on from the steps before it.                        *)
ExtractStages ==
  /\ Busy => status = "none"
  /\ stage = "rollback" => status \in {"Failed", "Cancelled"}
  /\ stage = "end" => /\ status \in {"Success", "Failed", "Cancelled"}
                      /\ status # "Success" => created = <<>>
                      /\ status = "Success" => pending = {}
  /\ stage \in {"parent", "leaf", "data"} =>
       /\ next \in 1 .. Len(archive) /\ Valid(next) /\ Entry.kind \in {"dir", "file", "link"}
       /\ Entry.kind = "link" => validateSymlinkTarget(Where(next), Entry.to).safe
  /\ stage \in {"leaf", "link"} => IsDir(Parent(Where(next)))
  /\ stage = "data" => /\ Entry.kind = "file"
                       /\ tree[Where(next)] = Own("file", next, FALSE, <<>>)
  /\ stage \in {"linkParent", "link"} => next \in Ready

(* An entry that has been dealt with is there, or is a hard link for later. *)
Extracted(i) ==
  /\ Valid(i)
  /\ \/ archive[i].kind = "dir" /\ tree[Where(i)].kind = "dir"
     \/ archive[i].kind = "file" /\ tree[Where(i)] = Own("file", i, TRUE, <<>>)
     \/ archive[i].kind = "link" /\ tree[Where(i)].kind = "link" /\ tree[Where(i)].of = i
     \/ archive[i].kind = "hard" /\ i \in pending
     \/ archive[i].kind = "hard" /\ Target(i) \in regular /\ tree[Where(i)] = tree[Target(i)]

RegularsAreWhole ==
  \A p \in regular : tree[p].kind = "file" /\ tree[p].mine /\ tree[p].whole

ExtractProgress ==
  /\ \A i \in pending : archive[i].kind = "hard"
  /\ Busy \/ status = "Success" => RegularsAreWhole
  /\ stage \in {"header", "parent", "leaf", "data"} => \A i \in 1 .. next - 1 : Extracted(i)
  /\ stage \in {"links", "linkParent", "link"} \/ status = "Success" =>
       \A i \in 1 .. Len(archive) : Extracted(i)

ExtractInv == ExtractShape /\ DiskFacts /\ ExtractStages /\ ExtractProgress

LEMMA ExtractInitInv == ExtractInit => ExtractInv
<1> SUFFICES ASSUME ExtractInit PROVE ExtractInv
  OBVIOUS
<1>1. archive \in Seq(Entries) /\ Len(archive) \in Nat
  BY ExtractAssumption DEF ExtractInit
<1>2. Nothing \in Nodes
  BY DEF Nothing, Nodes
<1>3. ExtractShape
  <2>1. tree \in [Slots -> Nodes] /\ DOMAIN tree = Slots
    BY <1>2 DEF ExtractInit
  <2>2. next \in 1 .. Len(archive) + 1 /\ created \in Seq(Slots)
    BY <1>1 DEF ExtractInit
  <2>. QED
    BY <1>1, <2>1, <2>2 DEF ExtractInit, ExtractShape, ExtractTypeOK
<1>4. \A p \in Slots : tree[p].kind = "none" /\ ~tree[p].mine
  BY DEF ExtractInit, Nothing
<1>5. DiskFacts
  BY <1>4 DEF DiskFacts, Owned, Recorded, LinksStayBelowTheRoot, ExtractInit
<1>6. ExtractStages
  BY DEF ExtractStages, ExtractInit, Busy
<1>7. ExtractProgress
  BY DEF ExtractProgress, RegularsAreWhole, ExtractInit
<1>. QED
  BY <1>3, <1>5, <1>6, <1>7 DEF ExtractInv

LEMMA EntryFacts ==
  ASSUME ExtractShape, NEW i \in 1 .. Len(archive)
  PROVE  archive[i] \in Entries /\ archive[i].path \in RawPaths /\ archive[i].to \in RawPaths
<1>1. archive[i] \in Entries
  BY DEF ExtractShape
<1>. QED
  BY <1>1 DEF Entries

(* A step that leaves the disk alone.                                       *)
LEMMA DiskAlone ==
  ASSUME DiskFacts, UNCHANGED <<tree, created, theirs>>,
         stage \in {"rollback", "end"} => stage' \in {"rollback", "end"}
  PROVE  DiskFacts'
<1>1. Owned' /\ LinksStayBelowTheRoot'
  BY DEF DiskFacts, Owned, IsDir, LinksStayBelowTheRoot
<1>2. Recorded'
  BY DEF DiskFacts, Recorded
<1>. QED
  BY <1>1, <1>2 DEF DiskFacts

LEMMA AppendFacts ==
  ASSUME NEW s \in Seq(Slots), NEW p \in Slots
  PROVE  /\ Append(s, p) \in Seq(Slots) /\ Len(s) \in Nat /\ DOMAIN s = 1 .. Len(s)
         /\ DOMAIN Append(s, p) = 1 .. Len(s) + 1 /\ Append(s, p)[Len(s) + 1] = p
         /\ \A i \in 1 .. Len(s) : Append(s, p)[i] = s[i] /\ s[i] \in Slots
OBVIOUS

(* A new file, link or directory is recorded with what it is.               *)
LEMMA MakeKeeps ==
  ASSUME ExtractShape, DiskFacts, Busy, NEW p \in Slots, tree[p].kind = "none", IsDir(Parent(p)),
         NEW node \in Nodes, node.mine, node.kind # "none", node.kind = "link" => StaysBelow(p, node.to),
         tree' = [tree EXCEPT ![p] = node], created' = Append(created, p), UNCHANGED theirs
  PROVE  /\ DiskFacts' /\ tree' \in [Slots -> Nodes] /\ created' \in Seq(Slots)
         /\ tree'[p] = node /\ \A q \in Slots : q # p => tree'[q] = tree[q]
<1>1. /\ tree \in [Slots -> Nodes] /\ created \in Seq(Slots)
  BY DEF ExtractShape, ExtractTypeOK
<1>2. tree' \in [Slots -> Nodes] /\ tree'[p] = node /\ \A q \in Slots : q # p => tree'[q] = tree[q]
  BY <1>1
<1>3. \A q \in Slots : IsDir(Parent(q)) => IsDir(Parent(q))'
  <2> SUFFICES ASSUME NEW q \in Slots, IsDir(Parent(q)) PROVE IsDir(Parent(q))'
    OBVIOUS
  <2>1. CASE Parent(q) = <<>>
    BY <2>1 DEF IsDir
  <2>2. CASE Parent(q) # <<>>
    <3>1. Parent(q) \in Slots
      BY <2>2, SlotFacts
    <3>. QED
      BY <1>2, <2>2, <3>1 DEF IsDir
  <2>. QED
    BY <2>1, <2>2
<1>4. Owned'
  BY <1>2, <1>3 DEF DiskFacts, Owned
<1>5. LinksStayBelowTheRoot'
  BY <1>2 DEF DiskFacts, LinksStayBelowTheRoot, StaysBelow
<1>6. Recorded'
  <2> DEFINE n == Len(created)
  <2>1. /\ n \in Nat /\ DOMAIN created = 1 .. n /\ DOMAIN created' = 1 .. n + 1 /\ created'[n + 1] = p
        /\ \A i \in 1 .. n : created'[i] = created[i] /\ created[i] \in Slots
    BY <1>1, AppendFacts
  <2> HIDE DEF n
  <2>2. \A i \in 1 .. n : created[i] # p /\ tree[created[i]].mine
    BY <2>1 DEF DiskFacts, Owned, Recorded
  <2>3. \A i \in 1 .. n + 1 : tree'[created'[i]].mine
    BY <1>2, <2>1, <2>2
  <2>4. \A i, j \in 1 .. n + 1 : created'[i] = created'[j] => i = j
    BY <2>1, <2>2 DEF DiskFacts, Recorded
  <2>5. \A i \in 1 .. n : Parent(created[i]) # p
    <3> SUFFICES ASSUME NEW i \in 1 .. n, Parent(created[i]) = p PROVE FALSE
      OBVIOUS
    <3>1. created[i] \in Slots /\ IsDir(Parent(created[i])) /\ p # <<>>
      BY <2>1, <2>2, SlotFacts DEF DiskFacts, Owned
    <3>. QED
      BY <3>1 DEF IsDir
  <2>6. Parent(p) # p
    BY SlotFacts
  <2>7. ASSUME NEW i \in 1 .. n + 1, NEW j \in 1 .. n + 1, Parent(created'[i]) = created'[j] PROVE j < i
    <3>1. CASE j = n + 1
      BY <2>1, <2>5, <2>6, <2>7, <3>1
    <3>2. CASE j # n + 1 /\ i = n + 1
      BY <2>1, <3>2
    <3>3. CASE j # n + 1 /\ i # n + 1
      <4>1. i \in 1 .. n /\ j \in 1 .. n
        BY <2>1, <3>3
      <4>. QED
        BY <2>1, <2>7, <4>1 DEF DiskFacts, Recorded
    <3>. QED
      BY <3>1, <3>2, <3>3
  <2>8. ASSUME NEW q \in Slots, tree'[q].mine PROVE \E i \in 1 .. n + 1 : created'[i] = q
    <3>1. CASE q = p
      BY <2>1, <3>1
    <3>2. CASE q # p
      <4>1. PICK i \in 1 .. n : created[i] = q
        BY <1>2, <2>1, <2>8, <3>2 DEF DiskFacts, Recorded, Busy
      <4>2. i \in 1 .. n + 1 /\ created'[i] = q
        BY <2>1, <4>1
      <4>. QED
        BY <4>2
    <3>. QED
      BY <3>1, <3>2
  <2>. QED
    BY <2>1, <2>3, <2>4, <2>7, <2>8 DEF Recorded
<1>. QED
  BY <1>1, <1>2, <1>4, <1>5, <1>6, AppendFacts DEF DiskFacts

(* What was there stays as it is, but for the file that is being written.   *)
Stays ==
  \A p \in Slots : tree[p].kind # "none" /\ ~(stage = "data" /\ p = Where(next)) => tree'[p] = tree[p]

LEMMA ExtractedStays ==
  ASSUME ExtractInv, RegularsAreWhole, NEW i \in 1 .. Len(archive), Extracted(i), Stays, UNCHANGED archive,
         regular \subseteq regular', i \in pending => i \in pending'
  PROVE  Extracted(i)'
<1>1. /\ Where(i) \in Slots /\ Where(i)' = Where(i) /\ Target(i)' = Target(i) /\ Valid(i)'
  BY DEF Extracted, Valid, Where, Target
<1>2. stage = "data" => /\ Where(next) \in Slots
                        /\ tree[Where(next)].kind = "file" /\ ~tree[Where(next)].whole
  BY DEF ExtractInv, ExtractStages, Own, Valid, Entry
<1>3. CASE archive[i].kind = "dir" /\ tree[Where(i)].kind = "dir"
  BY <1>1, <1>2, <1>3 DEF Extracted, Stays
<1>4. CASE archive[i].kind = "file" /\ tree[Where(i)] = Own("file", i, TRUE, <<>>)
  <2>1. tree[Where(i)].kind # "none" /\ tree[Where(i)].whole
    BY <1>4 DEF Own
  <2>2. tree'[Where(i)] = tree[Where(i)]
    BY <1>1, <1>2, <2>1 DEF Stays
  <2>. QED
    BY <1>1, <1>4, <2>2 DEF Extracted, Own
<1>5. CASE archive[i].kind = "link" /\ tree[Where(i)].kind = "link" /\ tree[Where(i)].of = i
  BY <1>1, <1>2, <1>5 DEF Extracted, Stays
<1>6. CASE archive[i].kind = "hard" /\ i \in pending
  BY <1>1, <1>6 DEF Extracted
<1>7. CASE archive[i].kind = "hard" /\ Target(i) \in regular /\ tree[Where(i)] = tree[Target(i)]
  <2>1. Target(i) \in Slots /\ tree[Target(i)].kind = "file" /\ tree[Target(i)].whole
    BY <1>7 DEF RegularsAreWhole, ExtractInv, ExtractShape, ExtractTypeOK
  <2>2. tree'[Target(i)] = tree[Target(i)] /\ tree'[Where(i)] = tree[Where(i)]
    BY <1>1, <1>2, <1>7, <2>1 DEF Stays
  <2>. QED
    BY <1>1, <1>7, <2>2 DEF Extracted
<1>. QED
  BY <1>3, <1>4, <1>5, <1>6, <1>7 DEF Extracted

(* What counts as extracted so far is still so.                             *)
LEMMA ProgressStays ==
  ASSUME ExtractInv, Busy, Stays, UNCHANGED <<archive, regular>>, pending \subseteq pending'
  PROVE  /\ RegularsAreWhole'
         /\ \A i \in 1 .. Len(archive) : Extracted(i) => Extracted(i)'
<1>1. RegularsAreWhole
  BY DEF ExtractInv, ExtractProgress
<1>2. stage = "data" => tree[Where(next)].kind = "file" /\ ~tree[Where(next)].whole
  BY DEF ExtractInv, ExtractStages, Own
<1>3. regular \subseteq Slots
  BY DEF ExtractInv, ExtractShape, ExtractTypeOK
<1>4. RegularsAreWhole'
  BY <1>1, <1>2, <1>3 DEF RegularsAreWhole, Stays
<1>5. \A i \in 1 .. Len(archive) : Extracted(i) => Extracted(i)'
  BY <1>1, ExtractedStays
<1>. QED
  BY <1>4, <1>5

LEMMA AbortKeeps ==
  ASSUME ExtractInv, Busy, stage' = "rollback", status' \in {"Failed", "Cancelled"},
         UNCHANGED <<archive, tree, created, regular, pending, next, theirs, cancel>>
  PROVE  ExtractInv'
<1>1. ExtractShape'
  BY DEF ExtractInv, ExtractShape, ExtractTypeOK
<1>2. DiskFacts'
  BY DiskAlone DEF ExtractInv, Busy
<1>3. ExtractStages'
  BY DEF ExtractStages, Busy
<1>4. ExtractProgress'
  BY DEF ExtractInv, ExtractProgress, Busy
<1>. QED
  BY <1>1, <1>2, <1>3, <1>4 DEF ExtractInv

LEMMA ReadHeaderKeeps == ASSUME ExtractInv, ReadHeader PROVE ExtractInv'
<1>1. /\ stage = "header" /\ Busy /\ UNCHANGED <<archive, cancel, theirs, tree, created, regular>>
      /\ ExtractShape /\ DiskFacts /\ ExtractStages /\ ExtractProgress
      /\ next \in 1 .. Len(archive) + 1 /\ Len(archive) \in Nat /\ pending \subseteq 1 .. Len(archive)
  BY DEF ReadHeader, Fixed, Still, Disk, Book, Busy, ExtractInv, ExtractShape, ExtractTypeOK
<1>2. CASE (\E how \in {"Failed", "Cancelled"} : Abort(how)) /\ Still
  BY <1>1, <1>2, AbortKeeps DEF Abort, Still, Disk, Book
<1>3. Stays /\ RegularsAreWhole
  BY <1>1 DEF Stays, ExtractProgress
<1>4. DiskFacts'
  BY <1>1, DiskAlone
<1>5. CASE next > Len(archive) /\ Go("links") /\ Still
  <2>1. stage' = "links" /\ UNCHANGED <<status, pending, next>> /\ status = "none"
    BY <1>1, <1>5 DEF Go, Still, Book, ExtractStages
  <2>2. ExtractShape'
    BY <1>1, <2>1 DEF ExtractShape, ExtractTypeOK
  <2>3. ExtractStages'
    BY <2>1 DEF ExtractStages, Busy
  <2>4. \A i \in 1 .. Len(archive) : Extracted(i)
    BY <1>1, <1>5 DEF ExtractProgress
  <2>5. RegularsAreWhole' /\ \A i \in 1 .. Len(archive) : Extracted(i)'
    BY <1>1, <1>3, <2>1, <2>4, ProgressStays
  <2>6. ExtractProgress'
    BY <1>1, <2>1, <2>5 DEF ExtractProgress
  <2>. QED
    BY <1>4, <2>2, <2>3, <2>6 DEF ExtractInv
<1>6. ASSUME next <= Len(archive), validateArchiveRootRelativePath(Entry.path).safe, Len(Where(next)) <= 2
      PROVE  Valid(next)
  <2>1. next \in 1 .. Len(archive) /\ Entry.path = archive[next].path
    BY <1>1, <1>6 DEF Entry
  <2>2. archive[next].path \in RawPaths
    BY <1>1, <2>1, EntryFacts
  <2>. QED
    BY <1>6, <2>1, <2>2, SafePaths DEF Where, Valid
<1>7. CASE /\ next <= Len(archive) /\ Valid(next) /\ Entry.kind = "hard"
           /\ pending' = pending \cup {next} /\ next' = next + 1 /\ Go("header")
  <2>1. stage' = "header" /\ UNCHANGED status /\ status = "none" /\ next \in 1 .. Len(archive)
        /\ next' \in 1 .. Len(archive) + 1 /\ archive[next].kind = "hard"
    BY <1>1, <1>7 DEF Go, ExtractStages, Entry
  <2>2. ExtractShape'
    BY <1>1, <1>7, <2>1 DEF ExtractShape, ExtractTypeOK
  <2>3. ExtractStages'
    BY <2>1 DEF ExtractStages, Busy
  <2>4. RegularsAreWhole' /\ \A i \in 1 .. Len(archive) : Extracted(i) => Extracted(i)'
    BY <1>1, <1>3, <1>7, ProgressStays
  <2>5. ASSUME NEW i \in 1 .. next PROVE Extracted(i)'
    <3>1. CASE i = next
      <4>1. Valid(i) /\ Valid(i)' /\ archive'[i].kind = "hard" /\ i \in pending'
        BY <1>1, <1>7, <2>1, <3>1 DEF Valid, Where
      <4>. QED
        BY <4>1 DEF Extracted
    <3>2. CASE i # next
      <4>1. i \in 1 .. next - 1 /\ i \in 1 .. Len(archive)
        BY <1>1, <3>2
      <4>. QED
        BY <1>1, <2>4, <4>1 DEF ExtractProgress
    <3>. QED
      BY <3>1, <3>2
  <2>6. next' - 1 = next
    BY <1>1, <1>7
  <2>7. ExtractProgress'
    BY <1>1, <1>7, <2>1, <2>4, <2>5, <2>6 DEF ExtractProgress
  <2>. QED
    BY <1>4, <2>2, <2>3, <2>7 DEF ExtractInv
<1>8. CASE /\ next <= Len(archive) /\ Valid(next) /\ Entry.kind \in {"dir", "file", "link"}
           /\ Entry.kind = "link" => validateSymlinkTarget(Where(next), Entry.to).safe
           /\ Go("parent") /\ Still
  <2>1. /\ stage' = "parent" /\ UNCHANGED <<status, pending, next, archive>> /\ status = "none"
        /\ next \in 1 .. Len(archive)
    BY <1>1, <1>8 DEF Go, Still, Book, ExtractStages
  <2>2. ExtractShape'
    BY <1>1, <2>1 DEF ExtractShape, ExtractTypeOK
  <2>3. Valid(next)' /\ Entry' = Entry /\ Where(next)' = Where(next)
    BY <1>8, <2>1 DEF Valid, Where, Entry
  <2>4. ExtractStages'
    BY <1>8, <2>1, <2>3 DEF ExtractStages, Busy
  <2>5. RegularsAreWhole' /\ \A i \in 1 .. Len(archive) : Extracted(i) => Extracted(i)'
    BY <1>1, <1>3, <2>1, ProgressStays
  <2>6. ExtractProgress'
    BY <1>1, <2>1, <2>5 DEF ExtractProgress
  <2>. QED
    BY <1>4, <2>2, <2>4, <2>6 DEF ExtractInv
<1>. QED
  BY <1>1, <1>2, <1>5, <1>6, <1>7, <1>8 DEF ReadHeader

(* The directory above is there afterwards, made or found.                  *)
LEMMA ParentIsOpened ==
  ASSUME ExtractInv, Busy, stage # "data", Valid(next), NEW then, openParentDirectory(Where(next), then),
         UNCHANGED <<theirs, archive, next>>, then \notin {"rollback", "end"}
  PROVE  \/ Abort("Failed") /\ UNCHANGED <<tree, created>>
         \/ /\ Go(then) /\ DiskFacts' /\ Stays /\ IsDir(Parent(Where(next)))'
            /\ tree' \in [Slots -> Nodes] /\ created' \in Seq(Slots)
<1>0. PICK d : d = Parent(Where(next)) /\ d = Parent(Where(next))'
  BY DEF Parent, Where
<1>1. /\ ExtractShape /\ DiskFacts /\ Where(next) \in Slots
      /\ tree \in [Slots -> Nodes] /\ created \in Seq(Slots)
      /\ next \in 1 .. Len(archive) + 1 /\ Len(archive) \in Nat
  BY DEF ExtractInv, ExtractShape, ExtractTypeOK, Valid
<1>2. CASE IsDir(d) /\ Go(then) /\ UNCHANGED Disk
  <2>1. DiskFacts'
    BY <1>1, <1>2, DiskAlone DEF Disk, Busy
  <2>2. IsDir(Parent(Where(next)))'
    BY <1>0, <1>2 DEF Disk, IsDir
  <2>. QED
    BY <1>1, <1>2, <2>1, <2>2 DEF Disk, Stays
<1>3. CASE /\ d # <<>> /\ tree[d].kind = "none"
           /\ tree' = [tree EXCEPT ![d] = Own("dir", next, TRUE, <<>>)]
           /\ created' = Append(created, d) /\ Go(then)
  <2> DEFINE node == Own("dir", next, TRUE, <<>>)
  <2>1. node \in Nodes /\ node.mine /\ node.kind = "dir"
    BY <1>1 DEF Own, Nodes
  <2>2. d \in Slots /\ IsDir(Parent(d))
    <3>1. d \in Slots /\ Len(d) = 1
      <4>1. PICK p \in Slots : d = Parent(p)
        BY <1>0, <1>1
      <4>. QED
        BY <1>3, <4>1, SlotFacts
    <3>2. Parent(d) = <<>>
      BY <3>1, SlotFacts
    <3>. QED
      BY <3>1, <3>2 DEF IsDir
  <2> HIDE DEF node
  <2>3. /\ DiskFacts' /\ tree' \in [Slots -> Nodes] /\ created' \in Seq(Slots)
        /\ tree'[d] = node /\ \A q \in Slots : q # d => tree'[q] = tree[q]
    BY <1>1, <1>3, <2>1, <2>2, MakeKeeps DEF node
  <2>4. Stays
    BY <1>3, <2>3 DEF Stays
  <2>5. IsDir(Parent(Where(next)))'
    BY <1>0, <2>1, <2>3 DEF IsDir
  <2>. QED
    BY <1>3, <2>3, <2>4, <2>5
<1>. QED
  BY <1>0, <1>2, <1>3 DEF openParentDirectory, Disk

LEMMA OpenParentKeeps == ASSUME ExtractInv, OpenParent PROVE ExtractInv'
<1>1. /\ stage = "parent" /\ Busy /\ UNCHANGED <<archive, cancel, theirs, regular, pending, next>>
      /\ ExtractShape /\ ExtractStages /\ ExtractProgress /\ Valid(next) /\ next \in 1 .. Len(archive)
      /\ openParentDirectory(Where(next), "leaf")
  BY DEF OpenParent, Fixed, Book, Busy, ExtractInv, ExtractStages
<1>2. CASE Abort("Failed") /\ UNCHANGED <<tree, created>>
  BY <1>1, <1>2, AbortKeeps DEF Abort
<1>3. CASE /\ Go("leaf") /\ DiskFacts' /\ Stays /\ IsDir(Parent(Where(next)))'
           /\ tree' \in [Slots -> Nodes] /\ created' \in Seq(Slots)
  <2>1. stage' = "leaf" /\ UNCHANGED status /\ status = "none"
    BY <1>1, <1>3 DEF Go, ExtractStages
  <2>2. ExtractShape'
    BY <1>1, <1>3, <2>1 DEF ExtractShape, ExtractTypeOK
  <2>3. Valid(next)' /\ Entry' = Entry /\ Where(next)' = Where(next)
    BY <1>1 DEF Valid, Where, Entry
  <2>4. /\ Entry.kind \in {"dir", "file", "link"}
        /\ Entry.kind = "link" => validateSymlinkTarget(Where(next), Entry.to).safe
    BY <1>1 DEF ExtractStages
  <2>5. ExtractStages'
    BY <1>1, <1>3, <2>1, <2>3, <2>4 DEF ExtractStages, Busy
  <2>6. RegularsAreWhole' /\ \A i \in 1 .. Len(archive) : Extracted(i) => Extracted(i)'
    BY <1>1, <1>3, ProgressStays
  <2>7. ExtractProgress'
    BY <1>1, <2>1, <2>6 DEF ExtractProgress
  <2>. QED
    BY <1>3, <2>2, <2>5, <2>7 DEF ExtractInv
<1>4. stage # "data" /\ "leaf" \notin {"rollback", "end"}
  BY <1>1
<1>. QED
  BY <1>1, <1>2, <1>3, <1>4, ParentIsOpened

LEMMA OpenLinkParentKeeps == ASSUME ExtractInv, OpenLinkParent PROVE ExtractInv'
<1>1. /\ stage = "linkParent" /\ Busy /\ UNCHANGED <<archive, cancel, theirs, regular, pending, next>>
      /\ ExtractShape /\ ExtractStages /\ ExtractProgress /\ next \in Ready /\ pending \subseteq 1 .. Len(archive)
      /\ openParentDirectory(Where(next), "link")
  BY DEF OpenLinkParent, Fixed, Book, Busy, ExtractInv, ExtractStages, ExtractShape, ExtractTypeOK
<1>2. Valid(next)
  BY <1>1 DEF ExtractProgress, Extracted, Ready
<1>3. CASE Abort("Failed") /\ UNCHANGED <<tree, created>>
  BY <1>1, <1>3, AbortKeeps DEF Abort
<1>4. CASE /\ Go("link") /\ DiskFacts' /\ Stays /\ IsDir(Parent(Where(next)))'
           /\ tree' \in [Slots -> Nodes] /\ created' \in Seq(Slots)
  <2>1. stage' = "link" /\ UNCHANGED status /\ status = "none"
    BY <1>1, <1>4 DEF Go, ExtractStages
  <2>2. ExtractShape'
    BY <1>1, <1>4, <2>1 DEF ExtractShape, ExtractTypeOK
  <2>3. Ready' = Ready
    BY <1>1 DEF Ready, Target
  <2>4. ExtractStages'
    BY <1>1, <1>4, <2>1, <2>3 DEF ExtractStages, Busy
  <2>5. RegularsAreWhole' /\ \A i \in 1 .. Len(archive) : Extracted(i) => Extracted(i)'
    BY <1>1, <1>4, ProgressStays
  <2>6. ExtractProgress'
    BY <1>1, <2>1, <2>5 DEF ExtractProgress
  <2>. QED
    BY <1>4, <2>2, <2>4, <2>6 DEF ExtractInv
<1>5. stage # "data" /\ "link" \notin {"rollback", "end"}
  BY <1>1
<1>. QED
  BY <1>1, <1>2, <1>3, <1>4, <1>5, ParentIsOpened

LEMMA CreateLeafKeeps == ASSUME ExtractInv, CreateLeaf PROVE ExtractInv'
<1>0. PICK p : p = Where(next)
  OBVIOUS
<1>1. /\ stage = "leaf" /\ Busy /\ UNCHANGED <<archive, cancel, theirs, regular, pending>>
      /\ ExtractShape /\ DiskFacts /\ ExtractStages /\ ExtractProgress
      /\ Valid(next) /\ p \in Slots /\ IsDir(Parent(p)) /\ next \in 1 .. Len(archive)
      /\ Len(archive) \in Nat /\ Entry = archive[next] /\ tree \in [Slots -> Nodes]
  BY <1>0 DEF CreateLeaf, Fixed, Book, Busy, ExtractInv, ExtractStages, ExtractShape, Valid, Entry
<1>2. CASE Abort("Failed") /\ UNCHANGED <<Disk, next>>
  BY <1>1, <1>2, AbortKeeps DEF Abort, Disk
<1>3. ASSUME NEW node \in Nodes, node.mine, node.kind # "none", node.kind = "link" => StaysBelow(p, node.to),
             Make(p, node)
      PROVE  /\ DiskFacts' /\ tree' \in [Slots -> Nodes] /\ created' \in Seq(Slots) /\ tree'[p] = node /\ Stays
  <2>1. /\ tree[p].kind = "none"
        /\ DiskFacts' /\ tree' \in [Slots -> Nodes] /\ created' \in Seq(Slots)
        /\ tree'[p] = node /\ \A q \in Slots : q # p => tree'[q] = tree[q]
    BY <1>1, <1>3, MakeKeeps DEF Make
  <2>. QED
    BY <2>1 DEF Stays
(* The entry is there, and the next header is read.                         *)
<1>4. ASSUME DiskFacts', tree' \in [Slots -> Nodes], created' \in Seq(Slots), Stays,
             Go("header"), next' = next + 1,
             \/ Entry.kind = "dir" /\ tree'[p].kind = "dir"
             \/ Entry.kind = "link" /\ tree'[p].kind = "link" /\ tree'[p].of = next
      PROVE  ExtractInv'
  <2>1. stage' = "header" /\ UNCHANGED status /\ status = "none" /\ next' \in 1 .. Len(archive) + 1
    BY <1>1, <1>4 DEF Go, ExtractStages
  <2>2. ExtractShape'
    BY <1>1, <1>4, <2>1 DEF ExtractShape, ExtractTypeOK
  <2>3. ExtractStages'
    BY <2>1 DEF ExtractStages, Busy
  <2>4. RegularsAreWhole' /\ \A i \in 1 .. Len(archive) : Extracted(i) => Extracted(i)'
    BY <1>1, <1>4, ProgressStays
  <2>5. ASSUME NEW i \in 1 .. next PROVE Extracted(i)'
    <3>1. CASE i = next
      <4>1. Valid(i)' /\ Where(i)' = p /\ archive'[i] = Entry
        BY <1>0, <1>1, <3>1 DEF Valid, Where
      <4>. QED
        BY <1>4, <3>1, <4>1 DEF Extracted
    <3>2. CASE i # next
      <4>1. i \in 1 .. next - 1 /\ i \in 1 .. Len(archive)
        BY <1>1, <3>2
      <4>. QED
        BY <1>1, <2>4, <4>1 DEF ExtractProgress
    <3>. QED
      BY <3>1, <3>2
  <2>6. next' - 1 = next
    BY <1>1, <1>4
  <2>7. ExtractProgress'
    BY <1>1, <2>1, <2>4, <2>5, <2>6 DEF ExtractProgress
  <2>. QED
    BY <1>4, <2>2, <2>3, <2>7 DEF ExtractInv
<1>5. CASE /\ Entry.kind = "dir" /\ Go("header") /\ next' = next + 1
           /\ Make(p, Own("dir", next, TRUE, <<>>)) \/ (tree[p].kind = "dir" /\ UNCHANGED Disk)
  <2>1. CASE Make(p, Own("dir", next, TRUE, <<>>))
    <3> DEFINE node == Own("dir", next, TRUE, <<>>)
    <3>1. node \in Nodes /\ node.mine /\ node.kind = "dir"
      BY <1>1 DEF Own, Nodes
    <3> HIDE DEF node
    <3>2. /\ DiskFacts' /\ tree' \in [Slots -> Nodes] /\ created' \in Seq(Slots)
          /\ tree'[p] = node /\ Stays
      BY <1>3, <2>1, <3>1 DEF node
    <3>. QED
      BY <1>4, <1>5, <3>1, <3>2
  <2>2. CASE tree[p].kind = "dir" /\ UNCHANGED Disk
    <3>1. DiskFacts' /\ Stays /\ created' \in Seq(Slots)
      BY <1>1, <2>2, DiskAlone DEF Disk, Busy, Stays, ExtractShape, ExtractTypeOK
    <3>. QED
      BY <1>1, <1>4, <1>5, <2>2, <3>1 DEF Disk
  <2>. QED
    BY <1>5, <2>1, <2>2
<1>6. CASE /\ Entry.kind = "link" /\ Go("header") /\ next' = next + 1
           /\ Make(p, Own("link", next, TRUE, validateSymlinkTarget(p, Entry.to).path))
  <2> DEFINE to == validateSymlinkTarget(p, Entry.to).path  node == Own("link", next, TRUE, to)
  <2>1. to \in Seq(Components) /\ StaysBelow(p, to)
    <3>1. Entry.to \in RawPaths /\ validateSymlinkTarget(p, Entry.to).safe
      BY <1>0, <1>1, <1>6, EntryFacts DEF ExtractStages
    <3>. QED
      BY <1>1, <3>1, SafeTargets
  <2> HIDE DEF to
  <2>2. node \in Nodes /\ node.mine /\ node.kind = "link" /\ node.of = next /\ StaysBelow(p, node.to)
    BY <1>1, <2>1 DEF Own, Nodes
  <2> HIDE DEF node
  <2>3. /\ DiskFacts' /\ tree' \in [Slots -> Nodes] /\ created' \in Seq(Slots)
        /\ tree'[p] = node /\ Stays
    BY <1>3, <1>6, <2>2 DEF node, to
  <2>. QED
    BY <1>4, <1>6, <2>2, <2>3
<1>7. CASE /\ Entry.kind = "file" /\ Make(p, Own("file", next, FALSE, <<>>))
           /\ Go("data") /\ UNCHANGED next
  <2> DEFINE node == Own("file", next, FALSE, <<>>)
  <2>1. node \in Nodes /\ node.mine /\ node.kind = "file"
    BY <1>1 DEF Own, Nodes
  <2> HIDE DEF node
  <2>2. /\ DiskFacts' /\ tree' \in [Slots -> Nodes] /\ created' \in Seq(Slots)
        /\ tree'[p] = node /\ Stays
    BY <1>3, <1>7, <2>1 DEF node
  <2>3. stage' = "data" /\ UNCHANGED status /\ status = "none"
    BY <1>1, <1>7 DEF Go, ExtractStages
  <2>4. ExtractShape'
    BY <1>1, <1>7, <2>2, <2>3 DEF ExtractShape, ExtractTypeOK
  <2>5. Valid(next)' /\ Entry' = Entry /\ Where(next)' = p /\ node' = node
    BY <1>0, <1>1, <1>7 DEF Valid, Where, Entry, node
  <2>6. ExtractStages'
    BY <1>1, <1>7, <2>2, <2>3, <2>5 DEF ExtractStages, Busy, node
  <2>7. RegularsAreWhole' /\ \A i \in 1 .. Len(archive) : Extracted(i) => Extracted(i)'
    BY <1>1, <2>2, ProgressStays
  <2>8. ExtractProgress'
    BY <1>1, <1>7, <2>3, <2>7 DEF ExtractProgress
  <2>. QED
    BY <2>2, <2>4, <2>6, <2>8 DEF ExtractInv
<1>. QED
  BY <1>0, <1>2, <1>5, <1>6, <1>7 DEF CreateLeaf

LEMMA SameNode ==
  ASSUME NEW a \in Nodes, NEW b \in Nodes, a.kind = b.kind, a.mine = b.mine, a.of = b.of,
         a.whole = b.whole, a.to = b.to
  PROVE  a = b
BY DEF Nodes

LEMMA DataCompleted ==
  ASSUME NEW i \in Nat
  PROVE  [Own("file", i, FALSE, <<>>) EXCEPT !.whole = TRUE] = Own("file", i, TRUE, <<>>)
<1> DEFINE a == Own("file", i, FALSE, <<>>)  b == Own("file", i, TRUE, <<>>)  e == [a EXCEPT !.whole = TRUE]
<1>1. /\ a \in Nodes /\ b \in Nodes
      /\ a.kind = b.kind /\ a.mine = b.mine /\ a.of = b.of /\ a.to = b.to /\ b.whole = TRUE
  BY DEF Own, Nodes
<1> HIDE DEF a, b
<1>2. /\ e \in Nodes
      /\ e.kind = a.kind /\ e.mine = a.mine /\ e.of = a.of /\ e.to = a.to /\ e.whole = TRUE
  BY <1>1 DEF Nodes
<1> HIDE DEF e
<1>3. e = b
  BY <1>1, <1>2, SameNode
<1>. QED
  BY <1>3 DEF e, a, b

LEMMA WriteDataKeeps == ASSUME ExtractInv, WriteData PROVE ExtractInv'
<1>0. PICK p : p = Where(next)
  OBVIOUS
<1>1. /\ stage = "data" /\ Busy /\ UNCHANGED <<archive, cancel, theirs>>
      /\ ExtractShape /\ DiskFacts /\ ExtractStages /\ ExtractProgress
      /\ Valid(next) /\ p \in Slots /\ next \in 1 .. Len(archive) /\ Len(archive) \in Nat
      /\ archive[next].kind = "file" /\ tree[p] = Own("file", next, FALSE, <<>>)
      /\ tree \in [Slots -> Nodes]
  BY <1>0 DEF WriteData, Fixed, Busy, ExtractInv, ExtractStages, ExtractShape, Valid, Entry
<1>2. CASE (\E how \in {"Failed", "Cancelled"} : Abort(how)) /\ Still
  BY <1>1, <1>2, AbortKeeps DEF Abort, Still, Disk, Book
<1>3. CASE /\ tree' = [tree EXCEPT ![p].whole = TRUE] /\ regular' = regular \cup {p}
           /\ next' = next + 1 /\ Go("header") /\ UNCHANGED <<created, pending>>
  <2>1. stage' = "header" /\ UNCHANGED status /\ status = "none" /\ next' \in 1 .. Len(archive) + 1
    BY <1>1, <1>3 DEF Go, ExtractStages
  <2>2. [tree[p] EXCEPT !.whole = TRUE] = Own("file", next, TRUE, <<>>)
    <3>1. next \in Nat
      BY <1>1
    <3>2. [Own("file", next, FALSE, <<>>) EXCEPT !.whole = TRUE] = Own("file", next, TRUE, <<>>)
      BY <3>1, DataCompleted
    <3>. QED
      BY <1>1, <3>2, Zenon
  <2>3. tree' = [tree EXCEPT ![p] = Own("file", next, TRUE, <<>>)]
    BY <1>3, <2>2
  <2>4. Own("file", next, TRUE, <<>>) \in Nodes
    BY <1>1 DEF Own, Nodes
  <2>5. /\ tree' \in [Slots -> Nodes] /\ \A q \in Slots : q # p => tree'[q] = tree[q]
        /\ tree'[p] = Own("file", next, TRUE, <<>>)
    BY <1>1, <2>3, <2>4
  <2>6. \A q \in Slots : tree'[q].kind = tree[q].kind /\ tree'[q].mine = tree[q].mine /\ tree'[q].to = tree[q].to
    <3>1. /\ tree'[p].kind = tree[p].kind /\ tree'[p].mine = tree[p].mine /\ tree'[p].to = tree[p].to
      BY <1>1, <2>5 DEF Own
    <3>. QED
      BY <2>5, <3>1
  <2>7. Stays
    BY <1>0, <1>1, <2>5 DEF Stays
  <2>8. ExtractShape'
    BY <1>1, <1>3, <2>1, <2>5 DEF ExtractShape, ExtractTypeOK
  <2>9. DiskFacts'
    <3>1. \A q \in Slots : IsDir(Parent(q)) => IsDir(Parent(q))'
      <4> SUFFICES ASSUME NEW q \in Slots, IsDir(Parent(q)) PROVE IsDir(Parent(q))'
        OBVIOUS
      <4>1. Parent(q) = <<>> \/ Parent(q) \in Slots
        BY SlotFacts
      <4>. QED
        BY <2>6, <4>1 DEF IsDir
    <3>0. UNCHANGED theirs
      BY <1>1
    <3>2. Owned'
      <4>1. Owned
        BY <1>1 DEF DiskFacts
      <4>. QED
        BY <2>6, <3>0, <3>1, <4>1 DEF Owned
    <3>3. LinksStayBelowTheRoot'
      <4>1. LinksStayBelowTheRoot
        BY <1>1 DEF DiskFacts
      <4>. QED
        BY <2>6, <4>1 DEF LinksStayBelowTheRoot
    <3>4. \A i \in DOMAIN created : created[i] \in Slots
      BY <1>1 DEF ExtractShape, ExtractTypeOK
    <3>5. Recorded'
      <4>1. /\ Recorded /\ UNCHANGED created
            /\ stage \notin {"rollback", "end"} /\ stage' \notin {"rollback", "end"}
        BY <1>1, <1>3, <2>1 DEF DiskFacts
      <4>. QED
        BY <2>6, <3>0, <3>4, <4>1 DEF Recorded
    <3>. QED
      BY <3>2, <3>3, <3>5 DEF DiskFacts
  <2>10. ExtractStages'
    BY <2>1 DEF ExtractStages, Busy
  <2>11. RegularsAreWhole /\ RegularsAreWhole'
    <3>1. RegularsAreWhole /\ regular \subseteq Slots
      BY <1>1 DEF ExtractProgress, ExtractShape, ExtractTypeOK
    <3>. QED
      BY <1>3, <2>5, <3>1 DEF RegularsAreWhole, Own
  <2>12. ASSUME NEW i \in 1 .. next PROVE Extracted(i)'
    <3>1. CASE i = next
      <4>1. Valid(i)' /\ Where(i)' = p /\ archive'[i] = archive[i] /\ archive[i].kind = "file"
        BY <1>0, <1>1, <3>1 DEF Valid, Where
      <4>. QED
        BY <2>5, <3>1, <4>1 DEF Extracted, Own
    <3>2. CASE i # next
      <4>1. i \in 1 .. next - 1 /\ i \in 1 .. Len(archive)
        BY <1>1, <3>2
      <4>2. Extracted(i)
        BY <1>1, <4>1 DEF ExtractProgress
      <4>3. regular \subseteq regular' /\ pending' = pending
        BY <1>3
      <4>. QED
        BY <1>1, <2>7, <2>11, <4>1, <4>2, <4>3, ExtractedStays
    <3>. QED
      BY <3>1, <3>2
  <2>13. next' - 1 = next
    BY <1>1, <1>3
  <2>14. ExtractProgress'
    BY <1>1, <1>3, <2>1, <2>11, <2>12, <2>13 DEF ExtractProgress
  <2>. QED
    BY <2>8, <2>9, <2>10, <2>14 DEF ExtractInv
<1>. QED
  BY <1>0, <1>2, <1>3 DEF WriteData

LEMMA MakeLinksKeeps == ASSUME ExtractInv, MakeLinks PROVE ExtractInv'
<1>1. /\ stage = "links" /\ Busy /\ UNCHANGED <<archive, cancel, theirs, tree, created, regular, pending>>
      /\ ExtractShape /\ DiskFacts /\ ExtractStages /\ ExtractProgress
      /\ pending \subseteq 1 .. Len(archive) /\ Len(archive) \in Nat
  BY DEF MakeLinks, Fixed, Still, Disk, Book, Busy, ExtractInv, ExtractShape, ExtractTypeOK
<1>2. CASE (\E how \in {"Failed", "Cancelled"} : Abort(how)) /\ Still
  BY <1>1, <1>2, AbortKeeps DEF Abort, Still, Disk, Book
<1>3. Stays
  BY <1>1 DEF Stays
<1>4. RegularsAreWhole' /\ \A i \in 1 .. Len(archive) : Extracted(i)'
  <2>1. \A i \in 1 .. Len(archive) : Extracted(i)
    BY <1>1 DEF ExtractProgress
  <2>. QED
    BY <1>1, <1>3, <2>1, ProgressStays
<1>5. CASE pending = {} /\ stage' = "end" /\ status' = "Success" /\ Still
  <2>1. ExtractShape'
    BY <1>1, <1>5 DEF ExtractShape, ExtractTypeOK, Still
  <2>2. DiskFacts'
    BY <1>1, <1>5, DiskAlone DEF Busy
  <2>3. ExtractStages'
    BY <1>1, <1>5 DEF ExtractStages, Busy
  <2>4. ExtractProgress'
    BY <1>1, <1>4, <1>5 DEF ExtractProgress
  <2>. QED
    BY <2>1, <2>2, <2>3, <2>4 DEF ExtractInv
<1>6. CASE next' \in Ready /\ Go("linkParent")
  <2>1. stage' = "linkParent" /\ UNCHANGED status /\ status = "none" /\ next' \in pending
    BY <1>1, <1>6 DEF Go, ExtractStages, Ready
  <2>2. ExtractShape'
    BY <1>1, <2>1 DEF ExtractShape, ExtractTypeOK
  <2>3. DiskFacts'
    BY <1>1, <2>1, DiskAlone DEF Busy
  <2>4. Ready' = Ready
    BY <1>1 DEF Ready, Target
  <2>5. ExtractStages'
    BY <1>6, <2>1, <2>4 DEF ExtractStages, Busy
  <2>6. ExtractProgress'
    BY <1>1, <1>4, <2>1 DEF ExtractProgress
  <2>. QED
    BY <2>2, <2>3, <2>5, <2>6 DEF ExtractInv
<1>. QED
  BY <1>2, <1>5, <1>6 DEF MakeLinks

LEMMA createHardlinkEntryKeeps == ASSUME ExtractInv, createHardlinkEntry PROVE ExtractInv'
<1>0. PICK p, t : p = Where(next) /\ t = Target(next)
  OBVIOUS
<1>1. /\ stage = "link" /\ Busy /\ UNCHANGED <<archive, cancel, theirs, next>>
      /\ ExtractShape /\ DiskFacts /\ ExtractStages /\ ExtractProgress
      /\ next \in pending /\ t \in regular /\ IsDir(Parent(p))
      /\ pending \subseteq 1 .. Len(archive) /\ Len(archive) \in Nat /\ regular \subseteq Slots
      /\ tree \in [Slots -> Nodes]
  BY <1>0 DEF createHardlinkEntry, Fixed, Busy, ExtractInv, ExtractStages, ExtractShape, ExtractTypeOK, Ready
<1>2. /\ Valid(next) /\ p \in Slots /\ archive[next].kind = "hard" /\ RegularsAreWhole
      /\ \A i \in 1 .. Len(archive) : Extracted(i)
  BY <1>0, <1>1 DEF ExtractProgress, Extracted, Valid
<1>3. CASE Abort("Failed") /\ UNCHANGED <<Disk, Book>>
  BY <1>1, <1>3, AbortKeeps DEF Abort, Disk, Book
<1>4. CASE /\ Make(p, tree[t]) /\ pending' = pending \ {next} /\ regular' = regular \cup {p} /\ Go("links")
  <2>1. /\ t \in Slots /\ tree[t] \in Nodes /\ tree[t].kind = "file" /\ tree[t].mine /\ tree[t].whole
    BY <1>1, <1>2 DEF RegularsAreWhole
  <2>2. /\ tree[p].kind = "none" /\ p # t
        /\ DiskFacts' /\ tree' \in [Slots -> Nodes] /\ created' \in Seq(Slots)
        /\ tree'[p] = tree[t] /\ \A q \in Slots : q # p => tree'[q] = tree[q]
    BY <1>1, <1>2, <1>4, <2>1, MakeKeeps DEF Make
  <2>3. Stays
    BY <2>2 DEF Stays
  <2>4. stage' = "links" /\ UNCHANGED status /\ status = "none"
    BY <1>1, <1>4 DEF Go, ExtractStages
  <2>5. ExtractShape'
    BY <1>1, <1>2, <1>4, <2>2, <2>4 DEF ExtractShape, ExtractTypeOK
  <2>6. ExtractStages'
    BY <2>4 DEF ExtractStages, Busy
  <2>7. RegularsAreWhole'
    BY <1>1, <1>2, <1>4, <2>1, <2>2 DEF RegularsAreWhole
  <2>8. ASSUME NEW i \in 1 .. Len(archive) PROVE Extracted(i)'
    <3>1. CASE i = next
      <4>1. Valid(i)' /\ Where(i)' = p /\ Target(i)' = t /\ archive'[i].kind = "hard"
        BY <1>0, <1>1, <1>2, <3>1 DEF Valid, Where, Target
      <4>2. t \in regular' /\ tree'[p] = tree'[t]
        BY <1>1, <1>4, <2>1, <2>2
      <4>. QED
        BY <4>1, <4>2 DEF Extracted
    <3>2. CASE i # next
      <4>1. Extracted(i) /\ regular \subseteq regular' /\ (i \in pending => i \in pending')
        BY <1>2, <1>4, <3>2
      <4>. QED
        BY <1>1, <1>2, <2>3, <4>1, ExtractedStays
    <3>. QED
      BY <3>1, <3>2
  <2>9. ExtractProgress'
    BY <1>1, <1>4, <2>4, <2>7, <2>8 DEF ExtractProgress
  <2>. QED
    BY <2>2, <2>5, <2>6, <2>9 DEF ExtractInv
<1>. QED
  BY <1>0, <1>3, <1>4 DEF createHardlinkEntry

LEMMA FrontFacts ==
  ASSUME NEW s \in Seq(Slots), s # <<>>
  PROVE  /\ Front(s) \in Seq(Slots) /\ Last(s) \in Slots /\ Len(s) \in Nat /\ Len(s) >= 1
         /\ DOMAIN s = 1 .. Len(s) /\ Last(s) = s[Len(s)] /\ DOMAIN Front(s) = 1 .. Len(s) - 1
         /\ \A i \in 1 .. Len(s) - 1 : Front(s)[i] = s[i]
BY DEF Front, Last

(* What is below a directory goes before it; so what keeps it there is not  *)
(* of this extraction.                                                      *)
LEMMA RollbackOneKeeps == ASSUME ExtractInv, RollbackOne PROVE ExtractInv'
<1>1. /\ stage = "rollback" /\ UNCHANGED <<archive, cancel, theirs, regular, pending, next, status>>
      /\ ExtractShape /\ DiskFacts /\ ExtractStages /\ ExtractProgress
      /\ tree \in [Slots -> Nodes] /\ created \in Seq(Slots) /\ status \in {"Failed", "Cancelled"}
      /\ theirs \subseteq Slots
  BY DEF RollbackOne, Fixed, Book, ExtractInv, ExtractStages, ExtractShape, ExtractTypeOK
<1>2. ASSUME stage' \in {"rollback", "end"} PROVE ExtractProgress'
  BY <1>1, <1>2 DEF ExtractProgress, Busy
<1>3. CASE created = <<>> /\ stage' = "end" /\ UNCHANGED Disk
  <2>1. ExtractShape'
    BY <1>1, <1>3 DEF ExtractShape, ExtractTypeOK, Disk
  <2>2. DiskFacts'
    BY <1>1, <1>3, DiskAlone DEF Disk
  <2>3. ExtractStages'
    BY <1>1, <1>3 DEF ExtractStages, Busy, Disk
  <2>. QED
    BY <1>2, <1>3, <2>1, <2>2, <2>3 DEF ExtractInv
<1>4. ASSUME created # <<>>, created' = Front(created), UNCHANGED stage,
             NEW p, p = Last(created),
             tree' = IF tree[p].kind = "dir" /\ \E q \in Slots : Parent(q) = p /\ tree[q].kind # "none"
                     THEN tree ELSE [tree EXCEPT ![p] = Nothing]
      PROVE  ExtractInv'
  <2> DEFINE n == Len(created)
  <2>1. /\ n \in Nat /\ n >= 1 /\ DOMAIN created = 1 .. n /\ p = created[n] /\ p \in Slots
        /\ created' \in Seq(Slots) /\ DOMAIN created' = 1 .. n - 1
        /\ \A i \in 1 .. n - 1 : created'[i] = created[i]
    BY <1>1, <1>4, FrontFacts
  <2> HIDE DEF n
  <2>2. \A i \in 1 .. n : created[i] \in Slots
    BY <1>1, <2>1
  <2>3. /\ \A i \in 1 .. n : tree[created[i]].mine
        /\ \A i, j \in 1 .. n : created[i] = created[j] => i = j
        /\ \A i, j \in 1 .. n : Parent(created[i]) = created[j] => j < i
        /\ \A q \in Slots : tree[q].mine =>
             (\E i \in 1 .. n : created[i] = q) \/ \E r \in theirs : Parent(r) = q
    BY <1>1, <2>1 DEF DiskFacts, Recorded
  <2>4. ASSUME NEW q \in Slots, tree[q].mine, q # p
        PROVE  (\E i \in 1 .. n - 1 : created[i] = q) \/ \E r \in theirs : Parent(r) = q
    <3>1. CASE \E i \in 1 .. n : created[i] = q
      <4>1. PICK i \in 1 .. n : created[i] = q
        BY <3>1
      <4>2. i \in 1 .. n - 1
        BY <2>1, <2>4, <4>1
      <4>. QED
        BY <4>1, <4>2
    <3>. QED
      BY <2>3, <2>4, <3>1
  <2>5. CASE tree[p].kind = "dir" /\ \E q \in Slots : Parent(q) = p /\ tree[q].kind # "none"
    <3>1. tree' = tree
      BY <1>4, <2>5
    <3>2. PICK q \in Slots : Parent(q) = p /\ tree[q].kind # "none"
      BY <2>5
    <3>3. q \in theirs
      <4> SUFFICES ASSUME q \notin theirs PROVE FALSE
        OBVIOUS
      <4>1. tree[q].mine
        BY <1>1, <3>2 DEF DiskFacts, Owned
      <4>2. ASSUME NEW i \in 1 .. n, created[i] = q PROVE FALSE
        BY <2>1, <2>3, <3>2, <4>2
      <4>3. ASSUME NEW r \in theirs, Parent(r) = q PROVE FALSE
        <5>1. r \in Slots /\ q # <<>> /\ p # <<>>
          BY <1>1, <2>1, SlotFacts
        <5>2. Len(q) = 1 /\ Len(q) = 2
          BY <3>2, <4>3, <5>1, SlotFacts
        <5>. QED
          BY <5>2
      <4>. QED
        BY <2>3, <4>1, <4>2, <4>3
    <3>4. Recorded'
      BY <1>1, <1>4, <2>1, <2>3, <2>4, <3>1, <3>2, <3>3 DEF Recorded
    <3>5. Owned' /\ LinksStayBelowTheRoot'
      BY <1>1, <3>1 DEF DiskFacts, Owned, IsDir, LinksStayBelowTheRoot
    <3>6. ExtractShape' /\ ExtractStages'
      BY <1>1, <1>4, <2>1, <3>1 DEF ExtractShape, ExtractTypeOK, ExtractStages, Busy
    <3>. QED
      BY <1>1, <1>2, <1>4, <3>4, <3>5, <3>6 DEF ExtractInv, DiskFacts
  <2>6. CASE /\ ~(tree[p].kind = "dir" /\ \E q \in Slots : Parent(q) = p /\ tree[q].kind # "none")
    <3>1. /\ tree' = [tree EXCEPT ![p] = Nothing] /\ Nothing \in Nodes
          /\ Nothing.kind = "none" /\ Nothing.mine = FALSE
      BY <1>4, <2>6 DEF Nothing, Nodes
    <3>2. /\ tree' \in [Slots -> Nodes] /\ tree'[p].kind = "none" /\ tree'[p].mine = FALSE
          /\ \A q \in Slots : q # p => tree'[q] = tree[q]
      BY <1>1, <2>1, <3>1
    <3>3. \A q \in Slots : tree[q].kind # "none" => Parent(q) # p
      <4> SUFFICES ASSUME NEW q \in Slots, tree[q].kind # "none", Parent(q) = p PROVE FALSE
        OBVIOUS
      <4>1. IsDir(p) /\ p # <<>>
        BY <1>1, <2>1, SlotFacts DEF DiskFacts, Owned
      <4>. QED
        BY <2>6, <4>1 DEF IsDir
    <3>4. Owned'
      <4>1. p \notin theirs
        BY <1>1, <2>1, <2>3 DEF DiskFacts, Owned
      <4>2. \A q \in Slots : tree'[q].kind # "none" => IsDir(Parent(q))'
        <5> SUFFICES ASSUME NEW q \in Slots, tree'[q].kind # "none" PROVE IsDir(Parent(q))'
          OBVIOUS
        <5>1. tree[q].kind # "none" /\ IsDir(Parent(q)) /\ Parent(q) # p
          BY <1>1, <3>2, <3>3 DEF DiskFacts, Owned
        <5>2. Parent(q) = <<>> \/ Parent(q) \in Slots
          BY SlotFacts
        <5>. QED
          BY <3>2, <5>1, <5>2 DEF IsDir
      <4>. QED
        BY <1>1, <3>2, <4>1, <4>2 DEF DiskFacts, Owned
    <3>5. Recorded'
      <4>1. \A i \in 1 .. n - 1 : created[i] # p /\ i \in 1 .. n
        BY <2>1, <2>3
      <4>2. \A i \in 1 .. n - 1 : tree'[created'[i]].mine
        BY <2>1, <2>2, <2>3, <3>2, <4>1
      <4>3. \A q \in Slots : tree'[q].mine =>
              (\E i \in 1 .. n - 1 : created'[i] = q) \/ \E r \in theirs : Parent(r) = q
        BY <2>1, <2>4, <3>2
      <4>4. /\ \A i, j \in 1 .. n - 1 : created'[i] = created'[j] => i = j
            /\ \A i, j \in 1 .. n - 1 : Parent(created'[i]) = created'[j] => j < i
        BY <2>1, <2>3, <4>1
      <4>. QED
        BY <1>1, <1>4, <2>1, <4>2, <4>3, <4>4 DEF Recorded
    <3>6. LinksStayBelowTheRoot'
      BY <1>1, <3>2 DEF DiskFacts, LinksStayBelowTheRoot
    <3>7. ExtractShape' /\ ExtractStages'
      BY <1>1, <1>4, <2>1, <3>2 DEF ExtractShape, ExtractTypeOK, ExtractStages, Busy
    <3>. QED
      BY <1>1, <1>2, <1>4, <3>4, <3>5, <3>6, <3>7 DEF ExtractInv, DiskFacts
  <2>. QED
    BY <2>5, <2>6
<1>. QED
  BY <1>3, <1>4 DEF RollbackOne

LEMMA RequestCancelKeeps == ASSUME ExtractInv, RequestCancel PROVE ExtractInv'
<1>1. /\ UNCHANGED <<archive, tree, created, regular, pending, next, stage, status, theirs>> /\ cancel' = TRUE
      /\ ExtractShape /\ DiskFacts /\ ExtractStages /\ ExtractProgress
  BY DEF RequestCancel, Disk, Book, ExtractInv
<1>2. ExtractShape'
  BY <1>1 DEF ExtractShape, ExtractTypeOK
<1>3. DiskFacts'
  BY <1>1, DiskAlone
<1>4. \A i : (Valid(i) => Valid(i)') /\ Where(i)' = Where(i) /\ Target(i)' = Target(i)
  BY <1>1 DEF Valid, Where, Target
<1>5. ExtractStages'
  <2>1. Entry' = Entry /\ Ready' = Ready /\ Valid(next)' = Valid(next) /\ Where(next)' = Where(next)
    BY <1>1 DEF Entry, Ready, Target, Valid, Where
  <2>2. IsDir(Parent(Where(next)))' = IsDir(Parent(Where(next)))
    BY <1>1, <2>1 DEF IsDir, Parent
  <2>. QED
    BY <1>1, <2>1, <2>2 DEF ExtractStages, Busy
<1>6. ExtractProgress'
  <2>1. \A i : Extracted(i) => Extracted(i)'
    BY <1>1, <1>4 DEF Extracted
  <2>. QED
    BY <1>1, <2>1 DEF ExtractProgress, Busy, RegularsAreWhole
<1>. QED
  BY <1>2, <1>3, <1>5, <1>6 DEF ExtractInv

LEMMA OtherProgramKeeps == ASSUME ExtractInv, OtherProgram PROVE ExtractInv'
<1>1. /\ UNCHANGED <<archive, created, regular, pending, next, stage, cancel, status>> /\ stage # "end"
      /\ ExtractShape /\ DiskFacts /\ ExtractStages /\ ExtractProgress
      /\ tree \in [Slots -> Nodes] /\ created \in Seq(Slots) /\ theirs \subseteq Slots
  BY DEF OtherProgram, Book, ExtractInv, ExtractShape, ExtractTypeOK
<1>2. PICK p \in Slots, k \in {"file", "dir"} :
        /\ tree[p].kind = "none" /\ IsDir(Parent(p))
        /\ tree' = [tree EXCEPT ![p] = Foreign(k)] /\ theirs' = theirs \cup {p}
  BY DEF OtherProgram
<1>3. Foreign(k) \in Nodes /\ Foreign(k).kind = k /\ Foreign(k).mine = FALSE
  <2> DEFINE node == Nothing
  <2>1. node \in Nodes /\ node.mine = FALSE
    BY DEF Nothing, Nodes
  <2> HIDE DEF node
  <2>2. /\ [node EXCEPT !.kind = k] \in Nodes
        /\ [node EXCEPT !.kind = k].kind = k /\ [node EXCEPT !.kind = k].mine = FALSE
    BY <2>1 DEF Nodes
  <2>. QED
    BY <2>2 DEF Foreign, node
<1>4. /\ tree' \in [Slots -> Nodes] /\ tree'[p] = Foreign(k)
      /\ \A q \in Slots : q # p => tree'[q] = tree[q]
  BY <1>1, <1>2, <1>3
<1>5. \A q \in Slots : IsDir(Parent(q)) => IsDir(Parent(q))'
  <2> SUFFICES ASSUME NEW q \in Slots, IsDir(Parent(q)) PROVE IsDir(Parent(q))'
    OBVIOUS
  <2>1. Parent(q) = <<>> \/ Parent(q) \in Slots
    BY SlotFacts
  <2>. QED
    BY <1>2, <1>4, <2>1 DEF IsDir
<1>6. ExtractShape'
  BY <1>1, <1>2, <1>4 DEF ExtractShape, ExtractTypeOK
<1>7. DiskFacts'
  <2>1. Owned'
    BY <1>1, <1>2, <1>3, <1>4, <1>5 DEF DiskFacts, Owned
  <2>2. \A i \in DOMAIN created : created[i] \in Slots /\ created[i] # p
    BY <1>1, <1>2 DEF DiskFacts, Owned, Recorded
  <2>3. Recorded'
    <3>1. Recorded /\ UNCHANGED <<created, stage>>
      BY <1>1 DEF DiskFacts
    <3>2. \A i \in DOMAIN created : created'[i] = created[i] /\ tree'[created[i]] = tree[created[i]]
      BY <1>4, <2>2, <3>1
    <3>3. \A i \in DOMAIN created' : tree'[created'[i]].mine
      BY <3>1, <3>2 DEF Recorded
    <3>4. \A q \in Slots : tree'[q].mine => q # p /\ tree[q].mine
      BY <1>3, <1>4
    <3>5. theirs \subseteq theirs'
      BY <1>2
    <3>. QED
      BY <3>1, <3>3, <3>4, <3>5 DEF Recorded
  <2>4. LinksStayBelowTheRoot'
    <3>1. LinksStayBelowTheRoot
      BY <1>1 DEF DiskFacts
    <3>2. \A q \in Slots : tree'[q].kind = "link" => tree'[q] = tree[q]
      BY <1>3, <1>4
    <3>. QED
      BY <3>1, <3>2 DEF LinksStayBelowTheRoot
  <2>. QED
    BY <2>1, <2>3, <2>4 DEF DiskFacts
<1>8. \A i : Valid(i)' = Valid(i) /\ Where(i)' = Where(i) /\ Target(i)' = Target(i)
  BY <1>1 DEF Valid, Where, Target
<1>9. ExtractStages'
  <2>1. Entry' = Entry /\ Ready' = Ready /\ Valid(next)' = Valid(next) /\ Where(next)' = Where(next)
    BY <1>1 DEF Entry, Ready, Target, Valid, Where
  <2>2. stage \in {"leaf", "link"} => IsDir(Parent(Where(next)))'
    <3>1. ASSUME stage \in {"leaf", "link"} PROVE Where(next) \in Slots
      <4>1. CASE stage = "leaf"
        BY <1>1, <4>1 DEF ExtractStages, Valid
      <4>2. CASE stage = "link"
        BY <1>1, <4>2 DEF ExtractStages, ExtractProgress, Extracted, Valid, Ready, ExtractShape, ExtractTypeOK
      <4>. QED
        BY <3>1, <4>1, <4>2
    <3>2. ASSUME NEW q \in Slots, q = Where(next), q = Where(next)', IsDir(Parent(q))
          PROVE  IsDir(Parent(Where(next)))'
      <4>1. IsDir(Parent(q))' /\ Parent(Where(next))' = Parent(q)
        BY <1>5, <3>2 DEF Parent
      <4>. QED
        BY <4>1 DEF IsDir
    <3>. QED
      BY <1>1, <2>1, <3>1, <3>2 DEF ExtractStages
  <2>3. stage = "data" => tree'[Where(next)] = tree[Where(next)]
    <3> SUFFICES ASSUME stage = "data" PROVE tree'[Where(next)] = tree[Where(next)]
      OBVIOUS
    <3>1. PICK q \in Slots : q = Where(next)
      BY <1>1 DEF ExtractStages, Valid
    <3>2. tree[q] = Own("file", next, FALSE, <<>>)
      BY <1>1, <3>1 DEF ExtractStages
    <3>3. q # p
      BY <1>2, <3>2 DEF Own
    <3>. QED
      BY <1>4, <3>1, <3>3
  <2>. QED
    BY <1>1, <2>1, <2>2, <2>3 DEF ExtractStages, Busy
<1>10. ExtractProgress'
  <2>1. CASE stage = "rollback"
    <3>1. status # "Success"
      BY <1>1, <2>1 DEF ExtractStages
    <3>. QED
      BY <1>1, <2>1, <3>1 DEF ExtractProgress, Busy
  <2>2. CASE Busy
    <3>1. Stays
      BY <1>2, <1>4 DEF Stays
    <3>2. RegularsAreWhole' /\ \A i \in 1 .. Len(archive) : Extracted(i) => Extracted(i)'
      BY <1>1, <2>2, <3>1, ProgressStays
    <3>3. status = "none"
      BY <1>1, <2>2 DEF ExtractStages
    <3>4. \A i \in 1 .. next - 1 : i \in 1 .. Len(archive)
      BY <1>1 DEF ExtractShape, ExtractTypeOK
    <3>. QED
      BY <1>1, <3>2, <3>3, <3>4 DEF ExtractProgress
  <2>. QED
    BY <1>1, <2>1, <2>2 DEF Busy
<1>. QED
  BY <1>6, <1>7, <1>9, <1>10 DEF ExtractInv

LEMMA ExtractNextKeeps == ExtractInv /\ [ExtractNext]_extractVars => ExtractInv'
<1> SUFFICES ASSUME ExtractInv, [ExtractNext]_extractVars PROVE ExtractInv'
  OBVIOUS
<1>1. CASE UNCHANGED extractVars
  <2>1. DiskFacts' /\ ExtractShape'
    BY <1>1, DiskAlone DEF ExtractInv, extractVars, ExtractShape, ExtractTypeOK
  <2>2. \A i : Valid(i)' = Valid(i) /\ Where(i)' = Where(i) /\ Target(i)' = Target(i)
    BY <1>1 DEF Valid, Where, Target, extractVars
  <2>3. Entry' = Entry /\ Ready' = Ready /\ Valid(next)' = Valid(next) /\ Where(next)' = Where(next)
        /\ IsDir(Parent(Where(next)))' = IsDir(Parent(Where(next)))
    BY <1>1 DEF Entry, Ready, Target, Valid, Where, extractVars, IsDir, Parent
  <2>4. ExtractStages'
    BY <1>1, <2>3 DEF ExtractInv, ExtractStages, extractVars, Busy
  <2>5. \A i : Extracted(i) => Extracted(i)'
    BY <1>1, <2>2 DEF Extracted, extractVars
  <2>6. ExtractProgress'
    BY <1>1, <2>5 DEF ExtractInv, ExtractProgress, extractVars, Busy, RegularsAreWhole
  <2>. QED
    BY <2>1, <2>4, <2>6 DEF ExtractInv
<1>. QED
  BY <1>1, ReadHeaderKeeps, OpenParentKeeps, CreateLeafKeeps, WriteDataKeeps, MakeLinksKeeps,
     OpenLinkParentKeeps, createHardlinkEntryKeeps, RollbackOneKeeps, RequestCancelKeeps,
     OtherProgramKeeps DEF ExtractNext

LEMMA AllOrNothingFromInvariant == ExtractInv => ExtractionIsAllOrNothing
<1> SUFFICES ASSUME ExtractInv PROVE ExtractionIsAllOrNothing
  OBVIOUS
<1>1. ExtractTypeOK
  BY DEF ExtractInv, ExtractShape
<1>2. RollbackIsExact
  <2>1. \A p \in theirs : tree[p].kind # "none" /\ ~tree[p].mine
    BY <1>1 DEF ExtractInv, DiskFacts, Owned, ExtractTypeOK
  <2>2. ASSUME stage = "end", status # "Success", NEW p \in Slots, tree[p].mine
        PROVE  \E q \in theirs : Parent(q) = p
    BY <2>2 DEF ExtractInv, ExtractStages, DiskFacts, Recorded
  <2>. QED
    BY <2>1, <2>2 DEF RollbackIsExact
<1>3. CompletedExtractionIsWhole
  <2> SUFFICES ASSUME status = "Success", NEW i \in 1 .. Len(archive)
               PROVE  LET node == tree[Where(i)] IN
                      CASE archive[i].kind = "dir"  -> node.kind = "dir"
                        [] archive[i].kind = "file" -> node.kind = "file" /\ node.whole /\ node.of = i
                        [] archive[i].kind = "link" -> node.kind = "link" /\ node.of = i
                        [] archive[i].kind = "hard" -> node.kind = "file" /\ node.mine
                                                       /\ node = tree[Target(i)] /\ node.whole
    BY DEF CompletedExtractionIsWhole
  <2>1. stage = "end" /\ pending = {} /\ Extracted(i) /\ RegularsAreWhole
    BY DEF ExtractInv, ExtractStages, ExtractProgress, Busy
  <2>2. CASE archive[i].kind = "dir"
    BY <2>1, <2>2 DEF Extracted
  <2>3. CASE archive[i].kind = "file"
    BY <2>1, <2>3 DEF Extracted, Own
  <2>4. CASE archive[i].kind = "link"
    BY <2>1, <2>4 DEF Extracted
  <2>5. CASE archive[i].kind = "hard"
    BY <2>1, <2>5 DEF Extracted, RegularsAreWhole
  <2>. QED
    BY <2>1, <2>2, <2>3, <2>4, <2>5 DEF Extracted
<1>. QED
  BY <1>1, <1>2, <1>3 DEF ExtractionIsAllOrNothing

(* ArchiveExtractor: a completed extraction holds every entry of the        *)
(* archive; one that failed or was cancelled leaves nothing it created, nor *)
(* takes what other programs made.                                          *)
THEOREM ExtractionsAreAllOrNothing == ExtractSpec => []ExtractionIsAllOrNothing
<1>1. ExtractSpec => []ExtractInv
  BY ExtractInitInv, ExtractNextKeeps, PTL DEF ExtractSpec
<1>. QED
  BY <1>1, AllOrNothingFromInvariant, PTL

(* ArchivePathGuard: no link of an archive, however its target winds, leads *)
(* out of the directory it is extracted in.                                 *)
THEOREM ExtractedLinksStayBelow == ExtractSpec => []LinksStayBelowTheRoot
<1>1. ExtractSpec => []ExtractInv
  BY ExtractInitInv, ExtractNextKeeps, PTL DEF ExtractSpec
<1>2. ExtractInv => LinksStayBelowTheRoot
  BY DEF ExtractInv, DiskFacts
<1>. QED
  BY <1>1, <1>2, PTL

=============================================================================
