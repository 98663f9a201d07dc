-------------------------- MODULE SelfUpdateProofs --------------------------
(***************************************************************************)
(* The update of the server's binary, for any tags, hosts, requests,       *)
(* publications and crashes: what is in place can be started unless a swap *)
(* of it was cut or could not be undone, and is never older than what runs.*)
(***************************************************************************)
EXTENDS SelfUpdate, TLAPS

\* What the locals of a task hold at each step.
Sound(q) ==
    /\ q.at # "idle" => applying /\ process.up
    /\ q.at \notin {"idle", "check", "resolve"} =>
         q.tag \in Tag /\ Rank[q.tag] > Rank[process.tag]
    /\ q.at \notin {"idle", "check", "resolve", "binary"} =>
         q.file \in File /\ q.file.tag = q.tag
    /\ q.at \notin {"idle", "check", "resolve", "binary", "checksums", "verify"} => q.file.whole
    /\ q.at \in {"backup", "open", "copy", "chmod", "rollback", "restart"} =>
         q.tag \in host.starts
    /\ q.at \in {"open", "copy", "chmod", "rollback"} => q.path < MaxBackup
    /\ q.at = "chmod" => disk[q.path] = q.file

OneAtATime ==
    \A t, u \in Task : task[t].at # "idle" /\ task[u].at # "idle" => t = u

\* t is replacing the installed binary.
SwapsInstalled(t) == Swapping(t) /\ task[t].path = 0

\* While it is, the first backup can be started.
InstalledOrBackup ==
    torn \/ IF \E t \in Task : SwapsInstalled(t) THEN Starts(disk[1]) ELSE Starts(disk[0])

BackupNotOlder ==
    (\E t \in Task : SwapsInstalled(t)) /\ Starts(disk[1])
        => Rank[disk[1].tag] >= Rank[process.tag]

UpdateInv ==
    /\ TypeOK
    /\ \A t \in Task : Sound(task[t])
    /\ OneAtATime
    /\ InstalledOrBackup
    /\ NeverBack
    /\ BackupNotOlder

-----------------------------------------------------------------------------
LEMMA IdleIsSound == Idle \in Locals /\ Idle.at = "idle" /\ Sound(Idle) /\ Sound(Idle)'
BY SelfUpdateAssumption DEF Idle, Locals, Step, Sound, Path, SelfUpdateAssumption

\* The initial state satisfies the invariant.
THEOREM UpdateInit == Init => UpdateInv
<1> SUFFICES ASSUME Init PROVE UpdateInv
  OBVIOUS
<1> USE SelfUpdateAssumption, IdleIsSound DEF SelfUpdateAssumption, HostAssumption
<1>1. PICK v \in host.starts :
        /\ disk = [p \in Path |-> IF p = 0 THEN [tag |-> v, whole |-> TRUE] ELSE NoFile]
        /\ process = [up |-> TRUE, tag |-> v, image |-> 0]
        /\ published = v
  BY DEF Init
<1>2. v \in Tag /\ 0 \in Path
  BY DEF Init, Path
<1>3. /\ disk[0] = [tag |-> v, whole |-> TRUE]
      /\ [tag |-> v, whole |-> TRUE] \in File
  BY <1>1, <1>2 DEF File
<1>4. /\ disk[0] \in File /\ disk[0] # NoFile
      /\ disk[0].tag = v /\ disk[0].whole /\ Rank[v] \in Nat
  <2>1. disk[0] \in File /\ disk[0] # NoFile
    BY <1>3, NoFileIsNone
  <2>2. disk[0].tag = v /\ disk[0].whole
    BY <1>3
  <2>3. Rank[v] \in Nat
    BY <1>2
  <2> QED
    BY <2>1, <2>2, <2>3
<1> DEFINE f == [tag |-> v, whole |-> TRUE]
<1> HIDE DEF f
<1>8. TypeOK
  <2>1. disk \in [Path -> File \cup {NoFile}]
    <3>1. disk = [p \in Path |-> IF p = 0 THEN f ELSE NoFile] /\ f \in File
      BY <1>1, <1>3 DEF f
    <3> QED
      BY <3>1
  <2>2. process \in [up : BOOLEAN, tag : Tag, image : Path]
    BY <1>1, <1>2
  <2>3. task \in [Task -> Locals] /\ refused = {} /\ torn = FALSE /\ applying = FALSE
    BY DEF Init
  <2>4. publishes \in 0 .. MaxPublish /\ crashes \in 0 .. MaxCrashes
    BY DEF Init
  <2>5. host \in Host /\ published \in Tag
    BY <1>1, <1>2 DEF Init
  <2> QED
    BY <2>1, <2>2, <2>3, <2>4, <2>5 DEF TypeOK
<1>5. /\ \A t \in Task : task[t] = Idle
      /\ \A t \in Task : Sound(task[t])
  BY DEF Init
<1>6. OneAtATime /\ BackupNotOlder
  BY <1>5 DEF OneAtATime, BackupNotOlder, SwapsInstalled, Swapping
<1>7. InstalledOrBackup /\ NeverBack
  BY <1>1, <1>4, <1>5 DEF InstalledOrBackup, NeverBack, Starts, SwapsInstalled, Swapping
<1> QED
  BY <1>8, <1>5, <1>6, <1>7 DEF UpdateInv

-----------------------------------------------------------------------------
(* Tasks.                                                                  *)

LEMMA Fields ==
    ASSUME TypeOK, NEW t \in Task
    PROVE  /\ task[t] \in Locals /\ task[t].at \in Step /\ task[t].tag \in Tag \cup {NoFile}
           /\ task[t].file \in File \cup {NoFile} /\ task[t].path \in Path
BY DEF TypeOK, Locals

\* t goes on at another step.
LEMMA Stepped ==
    ASSUME TypeOK, NEW t \in Task, NEW s \in Step
    PROVE  \E q \in Locals :
             /\ q = [task[t] EXCEPT !.at = s]
             /\ q.at = s /\ q.tag = task[t].tag /\ q.file = task[t].file
             /\ q.path = task[t].path
<1> DEFINE q == [task[t] EXCEPT !.at = s]
<1>1. /\ q \in Locals /\ q.at = s /\ q.tag = task[t].tag /\ q.file = task[t].file
      /\ q.path = task[t].path
  BY Fields DEF Locals
<1> QED
  BY <1>1

\* What is known of the tasks after a step of t: it is the only one.
LEMMA OnlyTask ==
    ASSUME UpdateInv, NEW t \in Task, \A u \in Task \ {t} : task[u].at = "idle",
           NEW q \in Locals, task' = [task EXCEPT ![t] = q], Sound(q)'
    PROVE  /\ task' \in [Task -> Locals] /\ task'[t] = q
           /\ \A u \in Task : Sound(task[u])'
           /\ OneAtATime'
           /\ (\E u \in Task : SwapsInstalled(u)')
                <=> q.at \in {"open", "copy", "chmod", "rollback"} /\ q.path = 0
<1>1. /\ task' \in [Task -> Locals] /\ task'[t] = q
      /\ \A u \in Task \ {t} : task'[u] = task[u] /\ task'[u].at = "idle"
  BY DEF UpdateInv, TypeOK
<1>2. ASSUME NEW u \in Task PROVE Sound(task[u])'
  <2>1. CASE u = t
    <3>1. task[u]' = q
      BY <1>1, <2>1
    <3> QED
      BY <3>1 DEF Sound
  <2>2. CASE u # t
    <3>1. task[u]'.at = "idle"
      BY <1>1, <2>2
    <3> QED
      BY <3>1 DEF Sound
  <2> QED
    BY <2>1, <2>2
<1>3. OneAtATime'
  BY <1>1 DEF OneAtATime
<1>4. \A u \in Task : SwapsInstalled(u)' <=> u = t /\ q.at \in {"open", "copy", "chmod", "rollback"} /\ q.path = 0
  BY <1>1 DEF SwapsInstalled, Swapping
<1> QED
  BY <1>1, <1>2, <1>3, <1>4

LEMMA OthersAreIdle ==
    ASSUME UpdateInv, NEW t \in Task, task[t].at # "idle"
    PROVE  /\ \A u \in Task \ {t} : task[u].at = "idle"
           /\ (\E u \in Task : SwapsInstalled(u)) <=> SwapsInstalled(t)
BY DEF UpdateInv, OneAtATime, SwapsInstalled, Swapping

\* A step of t that changes neither the files nor the process, nor whether the
\* installed binary is being replaced.
LEMMA QuietStep ==
    ASSUME UpdateInv, NEW t \in Task, task[t].at # "idle",
           NEW q \in Locals, task' = [task EXCEPT ![t] = q], Sound(q)', TypeOK',
           UNCHANGED <<host, disk, process, torn>>,
           SwapsInstalled(t) <=> q.at \in {"open", "copy", "chmod", "rollback"} /\ q.path = 0
    PROVE  UpdateInv'
<1>1. /\ \A u \in Task : Sound(task[u])'
      /\ OneAtATime'
      /\ (\E u \in Task : SwapsInstalled(u)') <=> \E u \in Task : SwapsInstalled(u)
  BY OthersAreIdle, OnlyTask
<1>2. Starts(disk[0])' = Starts(disk[0]) /\ Starts(disk[1])' = Starts(disk[1])
  BY DEF Starts
<1>3. InstalledOrBackup'
  BY <1>1, <1>2 DEF UpdateInv, InstalledOrBackup
<1>4. NeverBack' /\ BackupNotOlder'
  BY <1>1, <1>2 DEF UpdateInv, NeverBack, BackupNotOlder
<1> QED
  BY <1>1, <1>3, <1>4 DEF UpdateInv

LEMMA GoKeeps ==
    ASSUME UpdateInv, NEW t \in Task, task[t].at # "idle", NEW q \in Locals, Go(t, q), Sound(q),
           UNCHANGED <<host, published, disk, process, torn, publishes, crashes>>,
           refused' \subseteq Tag,
           SwapsInstalled(t) <=> q.at \in {"open", "copy", "chmod", "rollback"} /\ q.path = 0
    PROVE  UpdateInv'
<1>1. task' = [task EXCEPT ![t] = q] /\ UNCHANGED applying
  BY DEF Go
<1>2. Sound(q)'
  BY <1>1 DEF Sound
<1>3. TypeOK'
  BY <1>1 DEF UpdateInv, TypeOK
<1> QED
  BY <1>1, <1>2, <1>3, QuietStep

LEMMA EndKeeps ==
    ASSUME UpdateInv, NEW t \in Task, task[t].at # "idle", End(t), ~Swapping(t),
           UNCHANGED <<host, published, disk, process, torn, publishes, crashes>>,
           refused' \subseteq Tag
    PROVE  UpdateInv'
<1>1. task' = [task EXCEPT ![t] = Idle] /\ applying' = FALSE
  BY DEF End
<1>2. TypeOK'
  BY <1>1, IdleIsSound DEF UpdateInv, TypeOK
<1>3. ~SwapsInstalled(t) /\ Idle.at \notin {"open", "copy", "chmod", "rollback"}
  BY IdleIsSound DEF SwapsInstalled
<1> QED
  BY ONLY UpdateInv, task[t].at # "idle", <1>1, <1>2, <1>3, IdleIsSound, QuietStep,
          UNCHANGED <<host, published, disk, process, torn, publishes, crashes>>

-----------------------------------------------------------------------------
(* The actions.                                                            *)

LEMMA BeginKeeps ==
    ASSUME UpdateInv, NEW t \in Task, Begin(t)
    PROVE  UpdateInv'
<1>1. \A u \in Task : task[u].at = "idle"
  BY DEF UpdateInv, Begin, Sound
<1>2. PICK q \in Locals : q = [task[t] EXCEPT !.at = "check"] /\ q.at = "check"
  BY Stepped DEF UpdateInv, Step
<1>3. task' = [task EXCEPT ![t] = q] /\ process.up /\ applying' = TRUE
  BY <1>2 DEF Begin
<1>4. UNCHANGED <<host, published, disk, process, history, publishes, crashes>>
  BY DEF Begin
<1>5. Sound(q)'
  BY <1>2, <1>3, <1>4 DEF Sound
<1>6. TypeOK'
  BY <1>2, <1>3, <1>4 DEF UpdateInv, TypeOK, history
<1>7. /\ \A u \in Task : Sound(task[u])'
      /\ OneAtATime'
      /\ ~\E u \in Task : SwapsInstalled(u)'
      /\ ~\E u \in Task : SwapsInstalled(u)
  <2>1. ~\E u \in Task : SwapsInstalled(u)
    BY <1>1 DEF SwapsInstalled, Swapping
  <2> QED
    BY <1>1, <1>2, <1>3, <1>5, <2>1, OnlyTask
<1>8. Starts(disk[0])' = Starts(disk[0])
  BY <1>4 DEF Starts
<1> QED
  BY <1>4, <1>6, <1>7, <1>8
  DEF UpdateInv, InstalledOrBackup, NeverBack, BackupNotOlder, history

LEMMA RequestKeeps ==
    ASSUME UpdateInv, NEW t \in Task,
           \/ CheckLatest(t) \/ Resolve(t) \/ DownloadBinary(t) \/ DownloadChecksums(t)
           \/ VerifySHA256(t) \/ ProbeBinary(t)
    PROVE  UpdateInv'
<1>1. /\ TypeOK /\ Sound(task[t])
      /\ task[t].at \in {"check", "resolve", "binary", "checksums", "verify", "probe"}
      /\ ~Swapping(t) /\ ~SwapsInstalled(t)
      /\ UNCHANGED <<host, published, disk, process, torn, publishes, crashes>>
  BY DEF UpdateInv, CheckLatest, Resolve, DownloadBinary, DownloadChecksums, VerifySHA256,
         ProbeBinary, Swapping, SwapsInstalled, history
<1>2. refused' \subseteq Tag
  <2>1. task[t].at = "probe" => task[t].file.tag \in Tag
    BY <1>1 DEF Sound
  <2> QED
    BY <1>1, <2>1 DEF TypeOK, CheckLatest, Resolve, DownloadBinary, DownloadChecksums,
         VerifySHA256, ProbeBinary, history
<1>3. CASE End(t)
  BY <1>1, <1>2, <1>3, EndKeeps
<1>4. CASE /\ task[t].at = "check"
           /\ Goto(t, "resolve")
  <2>1. PICK q \in Locals : q = [task[t] EXCEPT !.at = "resolve"] /\ q.at = "resolve"
    BY <1>1, Stepped DEF Step
  <2>2. Go(t, q)
    BY <1>4, <2>1 DEF Goto
  <2>3. Sound(q)
    BY <1>1, <1>4, <2>1 DEF Sound
  <2> QED
    BY <1>1, <1>2, <2>1, <2>2, <2>3, GoKeeps
<1>5. CASE /\ task[t].at = "resolve" /\ Newer(published, process.tag)
           /\ Go(t, [task[t] EXCEPT !.at = "binary", !.tag = published])
  <2> DEFINE q == [task[t] EXCEPT !.at = "binary", !.tag = published]
  <2>1. q \in Locals /\ q.at = "binary" /\ q.tag = published
    BY <1>1, Fields DEF Locals, Step, TypeOK
  <2>2. Go(t, q)
    BY <1>5
  <2> HIDE DEF q
  <2>3. Sound(q)
    BY <1>1, <1>5, <2>1 DEF Sound, Newer, TypeOK
  <2> QED
    BY <1>1, <1>2, <2>1, <2>2, <2>3, GoKeeps
<1>6. ASSUME NEW b \in BOOLEAN, task[t].at = "binary",
             Go(t, [task[t] EXCEPT !.at = "checksums",
                                   !.file = [tag |-> task[t].tag, whole |-> b]])
      PROVE  UpdateInv'
  <2> DEFINE f == [tag |-> task[t].tag, whole |-> b]
             q == [task[t] EXCEPT !.at = "checksums", !.file = f]
  <2>1. f \in File /\ f.tag = task[t].tag
    BY <1>1, <1>6 DEF File, Sound
  <2> HIDE DEF f
  <2>2. q \in Locals /\ q.at = "checksums" /\ q.tag = task[t].tag /\ q.file = f
    BY <1>1, <2>1, Fields DEF Locals, Step
  <2>3. Go(t, q)
    BY <1>6 DEF f
  <2> HIDE DEF q
  <2>4. Sound(q)
    BY <1>1, <1>6, <2>1, <2>2 DEF Sound
  <2> QED
    BY <1>1, <1>2, <2>2, <2>3, <2>4, GoKeeps
<1>7. ASSUME NEW s \in {"verify", "probe", "backup"}, Goto(t, s),
             \/ s = "verify" /\ task[t].at = "checksums"
             \/ s = "probe" /\ task[t].at = "verify" /\ task[t].file.whole
             \/ s = "backup" /\ task[t].at = "probe" /\ task[t].file.tag \in host.starts
      PROVE  UpdateInv'
  <2>1. PICK q \in Locals :
          /\ q = [task[t] EXCEPT !.at = s]
          /\ q.at = s /\ q.tag = task[t].tag /\ q.file = task[t].file
    <3>1. s \in Step
      BY <1>7 DEF Step
    <3> QED
      BY <1>1, <3>1, Stepped
  <2>2. Go(t, q)
    BY <1>7, <2>1 DEF Goto
  <2>3. Sound(q)
    BY <1>1, <1>7, <2>1 DEF Sound
  <2>4. q.at \notin {"open", "copy", "chmod", "rollback"}
    BY <2>1
  <2> QED
    BY <1>1, <1>2, <2>1, <2>2, <2>3, <2>4, GoKeeps
<1> QED
  BY <1>3, <1>4, <1>5, <1>6, <1>7
  DEF CheckLatest, Resolve, DownloadBinary, DownloadChecksums, VerifySHA256, ProbeBinary

\* A step of a swap: t goes on with q, and the process stays what it is but for
\* the place of its image.
LEMMA SwapStep ==
    ASSUME UpdateInv, NEW t \in Task, task[t].at # "idle",
           NEW q \in Locals, task' = [task EXCEPT ![t] = q], Sound(q)', TypeOK',
           UNCHANGED host, process'.tag = process.tag, process'.up = process.up,
           LET swaps == q.at \in {"open", "copy", "chmod", "rollback"} /\ q.path = 0 IN
           /\ torn' \/ IF swaps THEN Starts(disk[1])' ELSE Starts(disk[0])'
           /\ Starts(disk[0])' => Rank[disk[0].tag]' >= Rank[process.tag]
           /\ swaps /\ Starts(disk[1])' => Rank[disk[1].tag]' >= Rank[process.tag]
    PROVE  UpdateInv'
<1>1. /\ \A u \in Task : Sound(task[u])'
      /\ OneAtATime'
      /\ (\E u \in Task : SwapsInstalled(u)')
           <=> q.at \in {"open", "copy", "chmod", "rollback"} /\ q.path = 0
  BY OthersAreIdle, OnlyTask
<1>2. InstalledOrBackup'
  BY <1>1 DEF InstalledOrBackup
<1>3. NeverBack' /\ BackupNotOlder'
  BY <1>1 DEF NeverBack, BackupNotOlder
<1> QED
  BY <1>1, <1>2, <1>3 DEF UpdateInv

\* What holds while t is at a step of the swap, or before or after it.
LEMMA AtStep ==
    ASSUME UpdateInv, NEW t \in Task, task[t].at # "idle"
    PROVE  /\ TypeOK /\ Sound(task[t]) /\ process.up
           /\ torn \/ IF SwapsInstalled(t) THEN Starts(disk[1]) ELSE Starts(disk[0])
           /\ Starts(disk[0]) => Rank[disk[0].tag] >= Rank[process.tag]
           /\ SwapsInstalled(t) /\ Starts(disk[1]) => Rank[disk[1].tag] >= Rank[process.tag]
<1>1. TypeOK /\ Sound(task[t]) /\ process.up
  BY DEF UpdateInv, Sound
<1> QED
  BY <1>1, OthersAreIdle DEF UpdateInv, InstalledOrBackup, NeverBack, BackupNotOlder

\* Where files of Moved are.
LEMMA MovedFiles ==
    ASSUME TypeOK, NEW p \in Path, NEW q \in Path, p # q
    PROVE  /\ Moved(p, q) \in [Path -> File \cup {NoFile}]
           /\ Moved(p, q)[q] = disk[p] /\ Moved(p, q)[p] = NoFile
           /\ \A x \in Path \ {p, q} : Moved(p, q)[x] = disk[x]
BY DEF TypeOK, Moved

LEMMA ImageMoves ==
    ASSUME TypeOK, NEW p \in Path, NEW q \in Path
    PROVE  /\ ImageAfter(p, q) \in [up : BOOLEAN, tag : Tag, image : Path]
           /\ ImageAfter(p, q).tag = process.tag /\ ImageAfter(p, q).up = process.up
BY DEF TypeOK, ImageAfter

LEMMA BackupKeeps ==
    ASSUME UpdateInv, NEW t \in Task, Backup(t)
    PROVE  UpdateInv'
<1> USE SelfUpdateAssumption DEF SelfUpdateAssumption
<1> DEFINE p == Executable
<1>1. /\ task[t].at = "backup" /\ ~Swapping(t) /\ ~SwapsInstalled(t)
      /\ UNCHANGED <<host, published, torn, refused, publishes, crashes>>
  BY DEF Backup, Swapping, SwapsInstalled, history
<1>2. /\ TypeOK /\ Sound(task[t]) /\ process.up
      /\ torn \/ Starts(disk[0])
      /\ Starts(disk[0]) => Rank[disk[0].tag] >= Rank[process.tag]
  BY <1>1, AtStep
<1>3. p \in Path
  BY <1>2 DEF Executable, TypeOK, Path
<1>4. CASE End(t) /\ UNCHANGED <<disk, process>>
  BY <1>1, <1>2, <1>4, EndKeeps DEF TypeOK
<1>5. CASE /\ p < MaxBackup
           /\ disk' = Moved(p, p + 1) /\ process' = ImageAfter(p, p + 1)
           /\ Go(t, [task[t] EXCEPT !.at = "open", !.path = p])
  <2> HIDE DEF p
  <2>1. p + 1 \in Path /\ p # p + 1 /\ 0 \in Path /\ 1 \in Path
    BY <1>3, <1>5 DEF Path
  <2>2. PICK k \in Path : k = p
    BY <1>3
  <2>10. PICK q \in Locals :
          /\ q = [task[t] EXCEPT !.at = "open", !.path = p]
          /\ q.at = "open" /\ q.path = k
          /\ q.tag = task[t].tag /\ q.file = task[t].file
    <3> DEFINE l == [task[t] EXCEPT !.at = "open", !.path = p]
    <3>1. /\ l \in Locals /\ l.at = "open" /\ l.path = k
          /\ l.tag = task[t].tag /\ l.file = task[t].file
      BY <1>2, <2>2, Fields DEF Locals, Step
    <3> QED
      BY <3>1
  <2>3. task' = [task EXCEPT ![t] = q] /\ UNCHANGED applying
    BY <1>5, <2>10 DEF Go
  <2>4. /\ disk' \in [Path -> File \cup {NoFile}]
        /\ disk'[p + 1] = disk[p] /\ disk'[p] = NoFile
        /\ \A x \in Path \ {p, p + 1} : disk'[x] = disk[x]
        /\ process' \in [up : BOOLEAN, tag : Tag, image : Path]
        /\ process'.tag = process.tag /\ process'.up = process.up
    <3>1. /\ Moved(p, p + 1) \in [Path -> File \cup {NoFile}]
          /\ Moved(p, p + 1)[p + 1] = disk[p] /\ Moved(p, p + 1)[p] = NoFile
          /\ \A x \in Path \ {p, p + 1} : Moved(p, p + 1)[x] = disk[x]
      BY ONLY <1>2, <1>3, <2>1, MovedFiles
    <3>2. /\ ImageAfter(p, p + 1) \in [up : BOOLEAN, tag : Tag, image : Path]
          /\ ImageAfter(p, p + 1).tag = process.tag /\ ImageAfter(p, p + 1).up = process.up
      BY ONLY <1>2, <1>3, <2>1, ImageMoves
    <3> QED
      BY <1>5, <3>1, <3>2
  <2>5. TypeOK'
    BY <1>1, <1>2, <2>3, <2>4 DEF TypeOK
  <2>6. Sound(q)'
    BY <1>1, <1>2, <1>5, <2>2, <2>10, <2>3, <2>4 DEF Sound
  <2>7. CASE p = 0
    <3>1. disk'[1] = disk[0] /\ ~Starts(disk[0])'
      BY <2>4, <2>7 DEF Starts
    <3>2. Starts(disk[1])' = Starts(disk[0])
      BY <1>1, <3>1 DEF Starts
    <3> QED
      BY <1>1, <1>2, <2>2, <2>10, <2>3, <2>4, <2>5, <2>6, <2>7, <3>1, <3>2, SwapStep
  <2>8. CASE p # 0
    <3>1. disk'[0] = disk[0]
      BY <1>3, <2>1, <2>4, <2>8 DEF Path
    <3>2. Starts(disk[0])' = Starts(disk[0])
      BY <1>1, <3>1 DEF Starts
    <3> QED
      BY <1>1, <1>2, <2>2, <2>10, <2>3, <2>4, <2>5, <2>6, <2>8, <3>1, <3>2, SwapStep
  <2> QED
    BY <2>7, <2>8
<1> QED
  BY <1>4, <1>5 DEF Backup

\* A step of the swap that writes the file f in the place it replaces, or none,
\* and goes to step s.
LEMMA WriteKeeps ==
    ASSUME UpdateInv, NEW t \in Task, task[t].at \in {"open", "copy", "chmod"},
           NEW s \in {"copy", "chmod", "rollback"}, Goto(t, s),
           NEW f \in File \cup {NoFile}, disk' = [disk EXCEPT ![task[t].path] = f],
           UNCHANGED <<host, published, process, history, publishes, crashes>>,
           s = "chmod" => f = task[t].file,
           f = NoFile \/ ~f.whole \/ f = task[t].file \/ f = disk[task[t].path]
    PROVE  UpdateInv'
<1> USE SelfUpdateAssumption DEF SelfUpdateAssumption
<1> DEFINE p == task[t].path
<1>1. /\ TypeOK /\ Sound(task[t]) /\ process.up /\ Swapping(t)
      /\ SwapsInstalled(t) <=> p = 0
      /\ torn \/ IF p = 0 THEN Starts(disk[1]) ELSE Starts(disk[0])
      /\ Starts(disk[0]) => Rank[disk[0].tag] >= Rank[process.tag]
      /\ p = 0 /\ Starts(disk[1]) => Rank[disk[1].tag] >= Rank[process.tag]
  BY AtStep DEF SwapsInstalled, Swapping
<1>2. PICK q \in Locals :
        /\ q = [task[t] EXCEPT !.at = s]
        /\ q.at = s /\ q.path = p /\ q.tag = task[t].tag /\ q.file = task[t].file
  <2>1. s \in Step
    BY DEF Step
  <2> QED
    BY <1>1, <2>1, Stepped
<1>3. task' = [task EXCEPT ![t] = q] /\ UNCHANGED applying
  BY <1>2 DEF Goto, Go
<1>4. /\ p \in Path /\ 0 \in Path /\ 1 \in Path
      /\ task[t].tag \in Tag /\ Rank[task[t].tag] > Rank[process.tag]
      /\ task[t].file \in File /\ task[t].file.tag = task[t].tag
  BY <1>1, Fields DEF Sound, Path
<1>5. /\ disk' \in [Path -> File \cup {NoFile}] /\ disk'[p] = f
      /\ \A x \in Path \ {p} : disk'[x] = disk[x]
  BY <1>1, <1>4 DEF TypeOK
<1> HIDE DEF p
<1>6. TypeOK'
  BY <1>1, <1>2, <1>3, <1>5 DEF TypeOK, history
<1>7. Sound(q)'
  BY <1>1, <1>2, <1>3, <1>5 DEF Sound, Swapping, p
<1>8. CASE p = 0
  <2>1. disk'[1] = disk[1] /\ disk'[0] = f
    BY <1>4, <1>5, <1>8
  <2>2. Starts(disk[1])' = Starts(disk[1])
    BY <2>1 DEF Starts
  <2>3. Starts(disk[0])' => Rank[disk[0].tag]' >= Rank[process.tag]
    <3> SUFFICES ASSUME Starts(disk[0])' PROVE Rank[f.tag] >= Rank[process.tag]
      BY <2>1
    <3>1. f # NoFile /\ f.whole /\ f.tag \in host.starts
      BY <2>1 DEF Starts
    <3>2. CASE f = task[t].file
      BY <1>1, <1>4, <3>2 DEF TypeOK
    <3>3. CASE f = disk[0]
      BY <1>1, <3>1, <3>3 DEF Starts
    <3> QED
      BY <1>8, <3>1, <3>2, <3>3 DEF p
  <2> QED
    BY <1>1, <1>2, <1>3, <1>6, <1>7, <1>8, <2>1, <2>2, <2>3, SwapStep, Zenon DEF history, Swapping
<1>9. CASE p # 0
  <2>1. disk'[0] = disk[0]
    BY <1>4, <1>5, <1>9
  <2>2. Starts(disk[0])' = Starts(disk[0])
    BY <2>1 DEF Starts
  <2> QED
    BY <1>1, <1>2, <1>3, <1>6, <1>7, <1>9, <2>1, <2>2, SwapStep DEF history, Swapping
<1> QED
  BY <1>8, <1>9

LEMMA CopyKeeps ==
    ASSUME UpdateInv, NEW t \in Task, OpenCopy(t) \/ Copy(t)
    PROVE  UpdateInv'
<1> DEFINE p == task[t].path
           torso == [tag |-> task[t].tag, whole |-> FALSE]
<1>1. /\ TypeOK /\ Sound(task[t]) /\ task[t].at \in {"open", "copy"}
      /\ UNCHANGED <<host, published, process, history, publishes, crashes>>
  BY DEF UpdateInv, OpenCopy, Copy
<1>2. p \in Path /\ disk[p] \in File \cup {NoFile} /\ disk = [disk EXCEPT ![p] = disk[p]]
  BY <1>1, Fields DEF TypeOK
<1>3. torso \in File /\ task[t].file \in File
  BY <1>1 DEF Sound, File
<1>4. CASE UNCHANGED disk /\ Goto(t, "rollback")
  BY <1>1, <1>2, <1>4, WriteKeeps
<1>5. CASE disk' = [disk EXCEPT ![p] = torso] /\ Goto(t, "copy")
  BY <1>1, <1>3, <1>5, WriteKeeps
<1>6. CASE disk' = [disk EXCEPT ![p] = task[t].file] /\ Goto(t, "chmod")
  BY <1>1, <1>3, <1>6, WriteKeeps
<1> QED
  BY <1>4, <1>5, <1>6 DEF OpenCopy, Copy

LEMMA ChmodKeeps ==
    ASSUME UpdateInv, NEW t \in Task, Chmod(t)
    PROVE  UpdateInv'
<1> USE SelfUpdateAssumption DEF SelfUpdateAssumption
<1>1. /\ task[t].at = "chmod"
      /\ UNCHANGED <<host, published, process, history, publishes, crashes>>
  BY DEF Chmod
<1>2. CASE Goto(t, "rollback") /\ disk' = [disk EXCEPT ![task[t].path] = NoFile]
  BY <1>1, <1>2, WriteKeeps
<1>3. CASE Goto(t, "restart") /\ UNCHANGED disk
  <2> DEFINE p == task[t].path
  <2>1. /\ TypeOK /\ Sound(task[t]) /\ process.up
        /\ SwapsInstalled(t) <=> p = 0
        /\ torn \/ IF p = 0 THEN Starts(disk[1]) ELSE Starts(disk[0])
        /\ Starts(disk[0]) => Rank[disk[0].tag] >= Rank[process.tag]
    BY <1>1, AtStep DEF SwapsInstalled, Swapping
  <2>2. PICK q \in Locals :
          /\ q = [task[t] EXCEPT !.at = "restart"]
          /\ q.at = "restart" /\ q.tag = task[t].tag /\ q.file = task[t].file
    BY <2>1, Stepped DEF Step
  <2>3. task' = [task EXCEPT ![t] = q] /\ UNCHANGED applying
    BY <1>3, <2>2 DEF Goto, Go
  <2>4. p = 0 => Starts(disk[0])
    BY <1>1, <2>1, NoFileIsNone DEF Sound, Starts
  <2>5. Starts(disk[0])' = Starts(disk[0])
    BY <1>1, <1>3 DEF Starts
  <2>6. Sound(q)'
    BY <1>1, <1>3, <2>1, <2>2, <2>3 DEF Sound
  <2>7. TypeOK'
    BY <1>1, <1>3, <2>1, <2>2, <2>3 DEF TypeOK, history
  <2> QED
    BY <1>1, <1>3, <2>1, <2>2, <2>3, <2>4, <2>5, <2>6, <2>7, SwapStep DEF history
<1> QED
  BY <1>2, <1>3 DEF Chmod

LEMMA RollbackKeeps ==
    ASSUME UpdateInv, NEW t \in Task, Rollback(t)
    PROVE  UpdateInv'
<1> USE SelfUpdateAssumption DEF SelfUpdateAssumption
<1> DEFINE p == task[t].path
<1>1. /\ task[t].at = "rollback"
      /\ UNCHANGED <<host, published, refused, publishes, crashes>>
      /\ applying' = FALSE /\ task' = [task EXCEPT ![t] = Idle]
  BY DEF Rollback, End
<1>2. /\ TypeOK /\ Sound(task[t]) /\ process.up
      /\ SwapsInstalled(t) <=> p = 0
      /\ torn \/ IF p = 0 THEN Starts(disk[1]) ELSE Starts(disk[0])
      /\ Starts(disk[0]) => Rank[disk[0].tag] >= Rank[process.tag]
      /\ p = 0 /\ Starts(disk[1]) => Rank[disk[1].tag] >= Rank[process.tag]
  BY <1>1, AtStep DEF SwapsInstalled, Swapping
<1>3. p \in Path /\ p + 1 \in Path /\ 0 \in Path /\ 1 \in Path /\ p # p + 1
  BY <1>1, <1>2, Fields DEF Sound, Path
<1>4. CASE disk' = Moved(p + 1, p) /\ process' = ImageAfter(p + 1, p) /\ UNCHANGED torn
  <2> HIDE DEF p
  <2>1. /\ disk' \in [Path -> File \cup {NoFile}]
        /\ disk'[p] = disk[p + 1]
        /\ \A x \in Path \ {p, p + 1} : disk'[x] = disk[x]
        /\ process' \in [up : BOOLEAN, tag : Tag, image : Path]
        /\ process'.tag = process.tag /\ process'.up = process.up
    <3>1. /\ Moved(p + 1, p) \in [Path -> File \cup {NoFile}]
          /\ Moved(p + 1, p)[p] = disk[p + 1]
          /\ \A x \in Path \ {p, p + 1} : Moved(p + 1, p)[x] = disk[x]
      BY ONLY <1>2, <1>3, MovedFiles
    <3>2. /\ ImageAfter(p + 1, p) \in [up : BOOLEAN, tag : Tag, image : Path]
          /\ ImageAfter(p + 1, p).tag = process.tag /\ ImageAfter(p + 1, p).up = process.up
      BY ONLY <1>2, <1>3, ImageMoves
    <3> QED
      BY <1>4, <3>1, <3>2
  <2>2. TypeOK'
    BY <1>1, <1>2, <1>4, <2>1, IdleIsSound DEF TypeOK
  <2>3. Starts(disk[0])' = IF p = 0 THEN Starts(disk[1]) ELSE Starts(disk[0])
    <3>1. disk'[0] = IF p = 0 THEN disk[1] ELSE disk[0]
      BY <1>3, <2>1 DEF Path
    <3> QED
      BY <1>1, <3>1 DEF Starts
  <2>4. Starts(disk[0])' => Rank[disk[0].tag]' >= Rank[process.tag]
    BY <1>2, <1>3, <2>1, <2>3 DEF Path
  <2> QED
    BY <1>1, <1>2, <1>4, <2>1, <2>2, <2>3, <2>4, IdleIsSound, SwapStep
<1>5. CASE torn' = (torn \/ p = 0) /\ UNCHANGED <<disk, process>>
  <2>1. TypeOK'
    BY <1>1, <1>2, <1>5, IdleIsSound DEF TypeOK
  <2>2. Starts(disk[0])' = Starts(disk[0])
    BY <1>1, <1>5 DEF Starts
  <2> QED
    BY <1>1, <1>2, <1>5, <2>1, <2>2, IdleIsSound, SwapStep
<1> QED
  BY <1>4, <1>5 DEF Rollback

\* The end of the process, whatever it was doing, and what comes after it.
LEMMA DeathKeeps ==
    ASSUME UpdateInv, Dies, UNCHANGED <<host, published, disk, refused, publishes>>,
           crashes' \in 0 .. MaxCrashes,
           process' = Started \/ process' = [process EXCEPT !.up = FALSE]
    PROVE  UpdateInv'
<1> USE SelfUpdateAssumption DEF SelfUpdateAssumption
<1>1. \A t \in Task : task'[t] = Idle
  BY DEF Dies
<1>2. 0 \in Path
  BY DEF Path
<1>3. \/ process' = [process EXCEPT !.up = FALSE]
      \/ Starts(disk[0]) /\ process' = [up |-> TRUE, tag |-> disk[0].tag, image |-> 0]
  BY DEF Started
<1>4. Starts(disk[0]) => disk[0] \in File
  BY <1>2 DEF UpdateInv, TypeOK, Starts
<1>5. process' \in [up : BOOLEAN, tag : Tag, image : Path]
  <2>1. CASE process' = [process EXCEPT !.up = FALSE]
    BY <2>1 DEF UpdateInv, TypeOK
  <2>2. CASE Starts(disk[0]) /\ process' = [up |-> TRUE, tag |-> disk[0].tag, image |-> 0]
    <3>1. disk[0].tag \in Tag
      BY <1>4, <2>2 DEF File
    <3> QED
      BY <1>2, <2>2, <3>1
  <2> QED
    BY <1>3, <2>1, <2>2
<1>6. TypeOK'
  BY <1>5, IdleIsSound DEF UpdateInv, TypeOK, Dies
<1>7. OneAtATime' /\ (\A t \in Task : Sound(task[t])') /\ ~(\E t \in Task : SwapsInstalled(t)')
  BY <1>1, IdleIsSound DEF OneAtATime, SwapsInstalled, Swapping, Sound
<1>8. Starts(disk[0])' = Starts(disk[0])
  BY DEF Starts
<1>9. InstalledOrBackup' /\ BackupNotOlder'
  BY <1>7, <1>8 DEF UpdateInv, InstalledOrBackup, BackupNotOlder, SwapsInstalled, Dies
<1>10. NeverBack'
  <2>1. CASE process' = [process EXCEPT !.up = FALSE]
    BY <2>1 DEF NeverBack, UpdateInv, TypeOK
  <2>2. CASE Starts(disk[0]) /\ process' = [up |-> TRUE, tag |-> disk[0].tag, image |-> 0]
    BY <1>4, <2>2 DEF NeverBack, File
  <2> QED
    BY <1>3, <2>1, <2>2
<1> QED
  BY <1>6, <1>7, <1>9, <1>10 DEF UpdateInv

LEMMA RestartKeeps ==
    ASSUME UpdateInv, NEW t \in Task, RestartPM2(t)
    PROVE  UpdateInv'
<1>1. task[t].at = "restart" /\ ~Swapping(t) /\ UNCHANGED <<host, published, disk, refused, publishes, crashes>>
  BY DEF RestartPM2, Swapping
<1>2. crashes \in 0 .. MaxCrashes /\ refused \subseteq Tag
  BY DEF UpdateInv, TypeOK
<1>3. CASE Dies /\ process' = Started
  BY <1>1, <1>2, <1>3, DeathKeeps
<1>4. CASE End(t) /\ UNCHANGED <<process, torn>>
  BY <1>1, <1>2, <1>4, EndKeeps
<1> QED
  BY <1>3, <1>4 DEF RestartPM2

LEMMA AroundKeeps ==
    ASSUME UpdateInv, Publish \/ Crash \/ Start
    PROVE  UpdateInv'
<1> USE SelfUpdateAssumption DEF SelfUpdateAssumption
<1>1. CASE Publish
  <2>1. Starts(disk[0])' = Starts(disk[0]) /\ Starts(disk[1])' = Starts(disk[1])
    BY <1>1 DEF Publish, Starts
  <2>2. TypeOK'
    BY <1>1 DEF UpdateInv, TypeOK, Publish, history
  <2>3. \A t \in Task : Sound(task[t])' = Sound(task[t]) /\ SwapsInstalled(t)' = SwapsInstalled(t)
    BY <1>1 DEF Publish, Sound, SwapsInstalled, Swapping
  <2> QED
    BY <1>1, <2>1, <2>2, <2>3
    DEF UpdateInv, Publish, history, OneAtATime, InstalledOrBackup, NeverBack, BackupNotOlder
<1>2. CASE Crash
  <2>1. crashes' \in 0 .. MaxCrashes
    BY <1>2 DEF Crash, UpdateInv, TypeOK
  <2> QED
    BY <1>2, <2>1, DeathKeeps DEF Crash
<1>3. CASE Start
  <2>1. \A t \in Task : task[t].at = "idle"
    BY <1>3 DEF Start, UpdateInv, Sound
  <2>2. /\ process' = [up |-> TRUE, tag |-> disk[0].tag, image |-> 0] /\ Starts(disk[0])
        /\ UNCHANGED <<host, published, disk, applying, task, history, publishes, crashes>>
    BY <1>3 DEF Start, Started
  <2>3. disk[0] \in File /\ 0 \in Path
    BY <2>2 DEF UpdateInv, TypeOK, Starts, Path
  <2>4. process' \in [up : BOOLEAN, tag : Tag, image : Path]
    BY <2>2, <2>3 DEF File
  <2>5. TypeOK'
    BY <2>2, <2>4 DEF UpdateInv, TypeOK, history
  <2>6. \A t \in Task : Sound(task[t])' /\ ~SwapsInstalled(t)' /\ ~SwapsInstalled(t)
    BY <2>1, <2>2 DEF Sound, SwapsInstalled, Swapping
  <2>7. Starts(disk[0])'
    BY <2>2 DEF Starts, history
  <2>8. NeverBack'
    BY <2>2, <2>3 DEF NeverBack, File
  <2> QED
    BY <2>1, <2>2, <2>5, <2>6, <2>7, <2>8
    DEF UpdateInv, OneAtATime, InstalledOrBackup, BackupNotOlder
<1> QED
  BY <1>1, <1>2, <1>3

-----------------------------------------------------------------------------
\* Every reachable state satisfies the invariant (updater.go, Apply).
THEOREM UpdateInvariant == Spec => []UpdateInv
<1>1. ASSUME UpdateInv, [Next]_vars PROVE UpdateInv'
  <2>1. CASE UNCHANGED vars
    <3>1. UNCHANGED <<host, published, disk, process, applying, task, torn, refused, publishes, crashes>>
      BY <2>1 DEF vars, history
    <3>2. Starts(disk[0])' = Starts(disk[0]) /\ Starts(disk[1])' = Starts(disk[1])
      BY <3>1 DEF Starts
    <3>3. \A t \in Task : Sound(task[t])' = Sound(task[t]) /\ SwapsInstalled(t)' = SwapsInstalled(t)
      BY <3>1 DEF Sound, SwapsInstalled, Swapping
    <3>4. TypeOK'
      BY <1>1, <3>1 DEF UpdateInv, TypeOK
    <3> QED
      BY <1>1, <3>1, <3>2, <3>3, <3>4
      DEF UpdateInv, OneAtATime, InstalledOrBackup, NeverBack, BackupNotOlder
  <2>2. ASSUME NEW t \in Task, Advance(t) PROVE UpdateInv'
    BY <1>1, <2>2, RequestKeeps, BackupKeeps, CopyKeeps, ChmodKeeps, RollbackKeeps, RestartKeeps
    DEF Advance
  <2> QED
    BY <1>1, <2>1, <2>2, BeginKeeps, AroundKeeps DEF Next
<1> QED
  BY <1>1, UpdateInit, PTL DEF Spec

\* Every variable keeps its type.
THEOREM UpdateTypeCorrect == Spec => []TypeOK
<1>1. UpdateInv => TypeOK
  BY DEF UpdateInv
<1> QED
  BY <1>1, UpdateInvariant, PTL

\* The binary in place starts, but while it is replaced or after a swap that
\* was cut or could not be undone (updater.go, swapBinary).
THEOREM UpdatedStartsAgain == Spec => []StartsAgain
<1>1. UpdateInv => StartsAgain
  BY DEF UpdateInv, InstalledOrBackup, StartsAgain, SwapsInstalled
<1> QED
  BY <1>1, UpdateInvariant, PTL

\* A restart never loads an older version than the one that runs.
THEOREM UpdateNeverBack == Spec => []NeverBack
<1>1. UpdateInv => NeverBack
  BY DEF UpdateInv
<1> QED
  BY <1>1, UpdateInvariant, PTL

=============================================================================
