----------------------------- MODULE SelfUpdate -----------------------------
(***************************************************************************)
(* The server's update of its own binary: POST /v1/admin/update/apply.     *)
(*                                                                         *)
(* The handler takes a flag, asks for the published version and leaves the *)
(* rest to a goroutine: ask again, download the release and its checksums, *)
(* compare, start the new binary once to see that it runs, move the old    *)
(* one aside, copy the new one to its place, and have pm2 restart the      *)
(* server.  A tag is what VERSION.md publishes.  A file is the binary of a *)
(* tag, whole or not: what a failed, cut or altered download or copy left. *)
(***************************************************************************)
EXTENDS Naturals, FiniteSets

CONSTANTS
    Tag,
    Rank,      \* Rank[t]: the place of t's X.Y.Z among versions, 0 if it has none
    Host,      \* hosts, see HostAssumption
    Task,      \* requests to apply an update
    NoFile,
    MaxBackup, \* bound: how many ".bak" a path may end in
    MaxPublish, MaxCrashes  \* bounds: new tags published, processes that die

\* runs:    files made with the default permissions can be executed
\* follows: the executable's path follows a rename of the file, and a file in
\*          use can be replaced (Unix; neither on Windows)
\* starts:  the tags whose binary starts there
HostAssumption ==
    Host \subseteq [runs : BOOLEAN, follows : BOOLEAN, starts : SUBSET Tag]

ASSUME SelfUpdateAssumption ==
    /\ HostAssumption
    /\ Rank \in [Tag -> Nat]
    /\ MaxBackup \in Nat \ {0} /\ MaxPublish \in Nat /\ MaxCrashes \in Nat

File == [tag : Tag, whole : BOOLEAN]

ASSUME NoFileIsNone == NoFile \notin Tag \cup File

\* Path n is the installed path followed by n times ".bak".
Path == 0 .. MaxBackup

VARIABLES
    host,
    published, \* the tag in VERSION.md
    disk,      \* disk[p]: the file at path p, or NoFile
    process,   \* up, the tag it runs, and the path its image is at
    applying,
    task,      \* task[t]: the next step, the tag and file it got, the path it replaces
    torn,      \* history: a swap of path 0 was cut or could not be undone
    refused,   \* history: the whole binaries that the probe turned down
    publishes, crashes

history == <<torn, refused>>
vars == <<host, published, disk, process, applying, task, history, publishes, crashes>>

Step == {"idle", "check", "resolve", "binary", "checksums", "verify", "probe",
         "backup", "open", "copy", "chmod", "rollback", "restart"}

Locals == [at : Step, tag : Tag \cup {NoFile}, file : File \cup {NoFile}, path : Path]

Idle == [at |-> "idle", tag |-> NoFile, file |-> NoFile, path |-> 0]

TypeOK ==
    /\ host \in Host /\ published \in Tag
    /\ disk \in [Path -> File \cup {NoFile}]
    /\ process \in [up : BOOLEAN, tag : Tag, image : Path]
    /\ applying \in BOOLEAN /\ task \in [Task -> Locals]
    /\ torn \in BOOLEAN /\ refused \subseteq Tag
    /\ publishes \in 0 .. MaxPublish /\ crashes \in 0 .. MaxCrashes

Init ==
    /\ host \in Host
    /\ \E v \in host.starts :
         /\ disk = [p \in Path |-> IF p = 0 THEN [tag |-> v, whole |-> TRUE] ELSE NoFile]
         /\ process = [up |-> TRUE, tag |-> v, image |-> 0]
         /\ published = v
    /\ applying = FALSE
    /\ task = [t \in Task |-> Idle]
    /\ torn = FALSE /\ refused = {}
    /\ publishes = 0 /\ crashes = 0

-----------------------------------------------------------------------------
(* The handler.                                                            *)

\* (The fault takes any other version for an update.)
NewerIfOther(new, current) == Rank[new] > 0 /\ Rank[current] > 0 /\ Rank[new] # Rank[current]

\* parseSemver, compareSemver: a version that does not parse offers nothing.
Newer(new, current) == Rank[new] > 0 /\ Rank[current] > 0 /\ Rank[new] > Rank[current]

Begin(t) ==
    /\ process.up /\ task[t].at = "idle" /\ ~applying
    /\ applying' = TRUE
    /\ task' = [task EXCEPT ![t].at = "check"]
    /\ UNCHANGED <<host, published, disk, process, history, publishes, crashes>>

\* The handler or its goroutine gives up, or is done.
End(t) ==
    /\ applying' = FALSE
    /\ task' = [task EXCEPT ![t] = Idle]

\* t goes on with new values of its locals.
Go(t, locals) == task' = [task EXCEPT ![t] = locals] /\ UNCHANGED applying

Goto(t, step) == Go(t, [task[t] EXCEPT !.at = step])

\* (The fault keeps the flag when there is nothing newer.)
CheckLatestKeepsFlag(t) ==
    /\ task[t].at = "check"
    /\ IF Newer(published, process.tag) THEN Goto(t, "resolve") ELSE Go(t, Idle)
    /\ UNCHANGED <<host, published, disk, process, history, publishes, crashes>>

\* No answer, or none that parses, ends it like a version that is not newer.
CheckLatest(t) ==
    /\ task[t].at = "check"
    /\ \/ Newer(published, process.tag) /\ Goto(t, "resolve")
       \/ End(t)
    /\ UNCHANGED <<host, published, disk, process, history, publishes, crashes>>

-----------------------------------------------------------------------------
(* The goroutine.                                                          *)

\* (The fault assigns the tag to a variable of an inner scope.)
ResolveShadowed(t) ==
    /\ task[t].at = "resolve"
    /\ IF Newer(published, process.tag) THEN Goto(t, "binary") ELSE End(t)
    /\ UNCHANGED <<host, published, disk, process, history, publishes, crashes>>

Resolve(t) ==
    /\ task[t].at = "resolve"
    /\ \/ /\ Newer(published, process.tag)
          /\ Go(t, [task[t] EXCEPT !.at = "binary", !.tag = published])
       \/ End(t)
    /\ UNCHANGED <<host, published, disk, process, history, publishes, crashes>>

DownloadBinary(t) ==
    /\ task[t].at = "binary"
    /\ \/ \E b \in BOOLEAN :
            Go(t, [task[t] EXCEPT !.at = "checksums",
                                  !.file = [tag |-> task[t].tag, whole |-> b]])
       \/ End(t)
    /\ UNCHANGED <<host, published, disk, process, history, publishes, crashes>>

\* No checksum file, or none for this platform's asset, ends it.
DownloadChecksums(t) ==
    /\ task[t].at = "checksums"
    /\ Goto(t, "verify") \/ End(t)
    /\ UNCHANGED <<host, published, disk, process, history, publishes, crashes>>

\* (The fault compares no checksum.)
VerifyNothing(t) ==
    /\ task[t].at = "verify"
    /\ Goto(t, "probe")
    /\ UNCHANGED <<host, published, disk, process, history, publishes, crashes>>

VerifySHA256(t) ==
    /\ task[t].at = "verify"
    /\ IF task[t].file.whole THEN Goto(t, "probe") ELSE End(t)
    /\ UNCHANGED <<host, published, disk, process, history, publishes, crashes>>

Starts(f) == f # NoFile /\ f.whole /\ f.tag \in host.starts

\* os.Create gave the download no execute permission.  A damaged binary may
\* start all the same.
ProbeBinary(t) ==
    LET f == task[t].file IN
    /\ task[t].at = "probe"
    /\ \/ /\ host.runs /\ f.tag \in host.starts
          /\ Goto(t, "backup")
          /\ UNCHANGED refused
       \/ /\ ~(host.runs /\ Starts(f))
          /\ End(t)
          /\ refused' = IF f.whole THEN refused \cup {f.tag} ELSE refused
    /\ UNCHANGED <<host, published, disk, process, torn, publishes, crashes>>

Executable == IF host.follows THEN process.image ELSE 0

Moved(p, q) == [disk EXCEPT ![q] = disk[p], ![p] = NoFile]

\* The image of the process moves with its file.
ImageAfter(p, q) == [process EXCEPT !.image = IF @ = p THEN q ELSE @]

Backup(t) ==
    LET p == Executable IN
    /\ task[t].at = "backup"
    /\ \/ /\ disk[p] # NoFile /\ p < MaxBackup
          /\ host.follows \/ process.image # p + 1
          /\ disk' = Moved(p, p + 1)
          /\ process' = ImageAfter(p, p + 1)
          /\ Go(t, [task[t] EXCEPT !.at = "open", !.path = p])
       \/ End(t) /\ UNCHANGED <<disk, process>>
    /\ UNCHANGED <<host, published, history, publishes, crashes>>

\* copyFile creates the file, and then fills it.
OpenCopy(t) ==
    /\ task[t].at = "open"
    /\ \/ /\ disk' = [disk EXCEPT ![task[t].path] = [tag |-> task[t].tag, whole |-> FALSE]]
          /\ Goto(t, "copy")
       \/ Goto(t, "rollback") /\ UNCHANGED disk
    /\ UNCHANGED <<host, published, process, history, publishes, crashes>>

Copy(t) ==
    /\ task[t].at = "copy"
    /\ \/ disk' = [disk EXCEPT ![task[t].path] = task[t].file] /\ Goto(t, "chmod")
       \/ Goto(t, "rollback") /\ UNCHANGED disk
    /\ UNCHANGED <<host, published, process, history, publishes, crashes>>

Chmod(t) ==
    /\ task[t].at = "chmod"
    /\ \/ Goto(t, "restart") /\ UNCHANGED disk
       \/ disk' = [disk EXCEPT ![task[t].path] = NoFile] /\ Goto(t, "rollback")
    /\ UNCHANGED <<host, published, process, history, publishes, crashes>>

\* The backup is renamed over what the copy left, or that fails as well.
Rollback(t) ==
    /\ task[t].at = "rollback"
    /\ \/ /\ disk' = Moved(task[t].path + 1, task[t].path)
          /\ process' = ImageAfter(task[t].path + 1, task[t].path)
          /\ UNCHANGED torn
       \/ /\ torn' = (torn \/ task[t].path = 0)
          /\ UNCHANGED <<disk, process>>
    /\ End(t)
    /\ UNCHANGED <<host, published, refused, publishes, crashes>>

Swapping(t) == task[t].at \in {"open", "copy", "chmod", "rollback"}

\* The process is gone, and all it was doing with it.
Dies ==
    /\ task' = [t \in Task |-> Idle]
    /\ applying' = FALSE
    /\ torn' = (torn \/ \E t \in Task : Swapping(t) /\ task[t].path = 0)

Started == IF Starts(disk[0])
           THEN [up |-> TRUE, tag |-> disk[0].tag, image |-> 0]
           ELSE [process EXCEPT !.up = FALSE]

\* A pm2 that is missing or fails is logged.
RestartPM2(t) ==
    /\ task[t].at = "restart"
    /\ \/ Dies /\ process' = Started
       \/ End(t) /\ UNCHANGED <<process, torn>>
    /\ UNCHANGED <<host, published, disk, refused, publishes, crashes>>

-----------------------------------------------------------------------------
(* Around it.                                                              *)

Publish ==
    /\ publishes < MaxPublish
    /\ publishes' = publishes + 1
    /\ published' \in Tag
    /\ UNCHANGED <<host, disk, process, applying, task, history, crashes>>

Crash ==
    /\ process.up /\ crashes < MaxCrashes
    /\ crashes' = crashes + 1
    /\ Dies
    /\ process' = [process EXCEPT !.up = FALSE]
    /\ UNCHANGED <<host, published, disk, refused, publishes>>

\* pm2, or an operator, starts what is at the installed path.
Start ==
    /\ ~process.up /\ Starts(disk[0])
    /\ process' = Started
    /\ UNCHANGED <<host, published, disk, applying, task, history, publishes, crashes>>

Advance(t) ==
    \/ CheckLatest(t) \/ Resolve(t) \/ DownloadBinary(t) \/ DownloadChecksums(t)
    \/ VerifySHA256(t) \/ ProbeBinary(t) \/ Backup(t) \/ OpenCopy(t) \/ Copy(t)
    \/ Chmod(t) \/ Rollback(t) \/ RestartPM2(t)

Next ==
    \/ \E t \in Task : Begin(t) \/ Advance(t)
    \/ Publish \/ Crash \/ Start

\* Every step of an update has a timeout, and every process runs.
Spec == Init /\ [][Next]_vars /\ \A t \in Task : WF_vars(Advance(t))

-----------------------------------------------------------------------------
(* Properties.                                                             *)

\* The server can be started again: the installed path holds a whole binary
\* that runs on this host, except while a swap is under way, and after one was
\* cut short or could not be undone.
StartsAgain ==
    torn \/ (\E t \in Task : Swapping(t) /\ task[t].path = 0) \/ Starts(disk[0])

\* An update never takes the server back: what a restart would load is no older
\* than what runs.
NeverBack ==
    process.up /\ Starts(disk[0]) => Rank[disk[0].tag] >= Rank[process.tag]

\* The flag is given back however the update ends, so a later one can be
\* requested (defer h.applying.Store(false)).
FlagReturned == applying ~> ~applying

\* What the probe is for (updater.go, Apply: "A cgo/dynamic binary built against
\* glibc fails to start on musl/Alpine"): it turns down the binaries that do
\* not start on this host, and no others.
OnlyBrokenRefused == refused \cap host.starts = {}

=============================================================================
