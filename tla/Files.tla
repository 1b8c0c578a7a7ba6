-------------------------------- MODULE Files --------------------------------
(***************************************************************************)
(* File access of the adapter (files.go): one request under the lifecycle  *)
(* lock reads, replaces, creates or deletes a name of a directory, system  *)
(* call by system call, while the processes of the sandbox change the same *)
(* directory through the same overlay. The directory itself is pinned by a *)
(* descriptor. Listing changes nothing and is left out.                    *)
(***************************************************************************)
EXTENDS Naturals, FiniteSets

CONSTANTS
  Names,       \* names the sandbox and the clients use
  Temps,       \* random names of uploads, which the sandbox leaves alone
  Inodes,
  None,
  MaxSize,     \* maxFileSize
  MaxFaults    \* bound: deaths of the adapter, and clean-up calls that fail

Sizes == 0 .. MaxSize + 1
Kinds == {"file", "dir", "symlink", "fifo"}
Nodes == [kind : Kinds, data : {"sandbox", "partial", "upload"}, size : Sizes]

ASSUME FilesAssumption ==
  /\ MaxSize \in Nat /\ MaxFaults \in Nat
  /\ Names \cap Temps = {}
  /\ None \notin Names \cup Temps \cup Inodes \cup Nodes
  /\ None \notin {"read", "write", "mkdir", "delete", "task", "temporary"}

VARIABLES
  entry,     \* the directory: names to inodes
  inode,     \* inodes that a name or a descriptor refers to
  task,      \* whether the sandbox has a task, and so a mounted overlay
  op,        \* the request: "read", "write", "mkdir", "delete" or None
  name,      \* the name it is about
  via,       \* the mount it uses: "task", "temporary" or None
  pc,        \* its next system call
  fd,        \* the inode of its descriptor
  temp,      \* the temporary name of an upload
  failed,    \* whether the request ends with an error
  changed,   \* whether an upload has replaced its name
  answer,    \* "none", "ok", "error" or "unmount", of the last request
  got,       \* bytes a read has returned
  stale,     \* temporary mounts that were left in place
  faults     \* deaths of the adapter, and clean-up calls that failed

directory == <<entry, inode>>
request == <<op, name, via, pc, fd, temp, failed, changed, answer, got>>
vars == <<directory, task, request, stale, faults>>

Init ==
  /\ entry = [n \in Names \cup Temps |-> None]
  /\ inode = [i \in Inodes |-> None]
  /\ task = FALSE
  /\ op = None /\ name = None /\ via = None /\ pc = "idle"
  /\ fd = None /\ temp = None /\ failed = FALSE /\ changed = FALSE
  /\ answer = "none" /\ got = 0
  /\ stale = 0 /\ faults = 0

\* The kernel frees an inode that neither a name nor a descriptor refers to.
Change(names, nodes, descriptor) ==
  /\ entry' = names /\ fd' = descriptor
  /\ inode' = [i \in Inodes |->
       IF i = descriptor \/ \E n \in Names \cup Temps : names[n] = i THEN nodes[i] ELSE None]

Free == {i \in Inodes : inode[i] = None}

-----------------------------------------------------------------------------
(* The sandbox, and its lifecycle.                                         *)

\* Mutant of Unlocked: file access gives the lifecycle lock up, as exec does.
UnlockedAlways == TRUE

Unlocked == pc = "idle"

\* Start and Stop mount and unmount the overlay of the task.
StartOrStop ==
  /\ Unlocked
  /\ task' = ~task
  /\ UNCHANGED <<directory, request, stale, faults>>

Sandbox(names, nodes) ==
  /\ task
  /\ Change(names, nodes, fd)
  /\ UNCHANGED <<task, op, name, via, pc, temp, failed, changed, answer, got, stale, faults>>

Make(n, i, kind) ==
  /\ entry[n] = None /\ i \in Free
  /\ Sandbox([entry EXCEPT ![n] = i],
             [inode EXCEPT ![i] = [kind |-> kind, data |-> "sandbox", size |-> 0]])

Unlink(n) == entry[n] # None /\ Sandbox([entry EXCEPT ![n] = None], inode)

Link(n, m) ==
  /\ entry[n] # None /\ entry[m] = None /\ inode[entry[n]].kind # "dir"
  /\ Sandbox([entry EXCEPT ![m] = entry[n]], inode)

Modify(n, size) ==
  /\ entry[n] # None /\ inode[entry[n]].kind = "file"
  /\ Sandbox(entry, [inode EXCEPT ![entry[n]] = [kind |-> "file", data |-> "sandbox", size |-> size]])

-----------------------------------------------------------------------------
(* A request.                                                              *)

Goto(step) ==
  /\ pc' = step
  /\ UNCHANGED <<op, name, via, temp, failed, changed, answer, got>>

Answered(result) ==
  /\ pc' = "idle" /\ op' = None /\ name' = None /\ via' = None /\ temp' = None
  /\ failed' = FALSE /\ answer' = result
  /\ UNCHANGED changed

\* Its end; a mount of its own is removed before it is answered.
Ends(result) ==
  IF via = "temporary"
  THEN /\ pc' = "unmount" /\ failed' = (result = "error") /\ temp' = None
       /\ UNCHANGED <<op, name, via, changed, answer>>
  ELSE Answered(result)

Request(kind, n) ==
  /\ pc = "idle"
  /\ pc' = "mount" /\ op' = kind /\ name' = n
  /\ answer' = "none" /\ changed' = FALSE /\ got' = 0
  /\ UNCHANGED <<directory, task, via, fd, temp, failed, stale, faults>>

FirstStep == CASE op = "read" -> "pin" [] op = "write" -> "stat" [] OTHER -> op

\* The overlay of a task is used; only without one a temporary mount is made.
Mount ==
  /\ pc = "mount"
  /\ pc' = FirstStep /\ via' = IF task THEN "task" ELSE "temporary"
  /\ UNCHANGED <<directory, task, op, name, fd, temp, failed, changed, answer, got, stale, faults>>

\* Mutant of Opened: the name is opened once more.
OpenedByName == entry[name]

\* /proc/self/fd: the inode that was inspected.
Opened == fd

\* The open of a FIFO does not return without a writer.
Blocked == pc = "open" /\ Opened # None /\ inode[Opened].kind = "fifo"

\* A request that is refused, or a call that fails before anything is changed.
Refused ==
  /\ pc \in {"mount", "pin", "inspect", "open", "fetch", "stat", "create", "mkdir", "delete"}
  /\ ~Blocked
  /\ Ends("error") /\ Change(entry, inode, None)
  /\ UNCHANGED <<task, got, stale, faults>>

\* O_PATH: the descriptor stands for the inode, whatever becomes of the name.
Pin ==
  /\ pc = "pin" /\ entry[name] # None /\ inode[entry[name]].kind # "symlink"
  /\ Change(entry, inode, entry[name]) /\ Goto("inspect")
  /\ UNCHANGED <<task, stale, faults>>

Inspect ==
  /\ pc = "inspect" /\ inode[fd].kind = "file" /\ inode[fd].size <= MaxSize
  /\ Goto("open")
  /\ UNCHANGED <<directory, task, fd, stale, faults>>

Open ==
  /\ pc = "open" /\ Opened # None /\ ~Blocked
  /\ Change(entry, inode, Opened) /\ Goto("fetch")
  /\ UNCHANGED <<task, stale, faults>>

\* Mutant of Exceeds: the size was looked at before.
ExceedsInspected == FALSE

\* One byte more than the limit is read; the file may have grown.
Exceeds == inode[fd].size > MaxSize

Fetch ==
  /\ pc = "fetch" /\ ~Exceeds
  /\ got' = inode[fd].size
  /\ Ends("ok") /\ Change(entry, inode, None)
  /\ UNCHANGED <<task, stale, faults>>

TooLarge ==
  /\ pc = "fetch" /\ Exceeds
  /\ Ends("error") /\ Change(entry, inode, None)
  /\ UNCHANGED <<task, got, stale, faults>>

-----------------------------------------------------------------------------
(* Names are created and deleted in one call.                              *)

Mkdir(i) ==
  /\ pc = "mkdir" /\ entry[name] = None /\ i \in Free
  /\ Ends("ok")
  /\ Change([entry EXCEPT ![name] = i],
            [inode EXCEPT ![i] = [kind |-> "dir", data |-> "sandbox", size |-> 0]], None)
  /\ UNCHANGED <<task, got, stale, faults>>

Delete ==
  /\ pc = "delete" /\ entry[name] # None
  /\ Ends("ok") /\ Change([entry EXCEPT ![name] = None], inode, None)
  /\ UNCHANGED <<task, got, stale, faults>>

-----------------------------------------------------------------------------
(* An upload.                                                              *)

Stat ==
  /\ pc = "stat" /\ (entry[name] # None => inode[entry[name]].kind = "file")
  /\ Goto("create")
  /\ UNCHANGED <<directory, task, fd, stale, faults>>

\* O_EXCL: a new inode under a new name.
Create(t, i) ==
  /\ pc = "create" /\ entry[t] = None /\ i \in Free
  /\ pc' = "write" /\ temp' = t
  /\ Change([entry EXCEPT ![t] = i],
            [inode EXCEPT ![i] = [kind |-> "file", data |-> "partial", size |-> 0]], i)
  /\ UNCHANGED <<task, op, name, via, failed, changed, answer, got, stale, faults>>

Write ==
  /\ pc = "write"
  /\ Change(entry, [inode EXCEPT ![fd].data = "upload"], fd) /\ Goto("sync")
  /\ UNCHANGED <<task, stale, faults>>

\* Chmod, Sync and Close.
Sync ==
  /\ pc = "sync" /\ Goto("rename")
  /\ UNCHANGED <<directory, task, fd, stale, faults>>

\* Mutant of AfterError: only the last error counts.
AfterErrorLast == IF pc = "rename" THEN "cleanup" ELSE "rename"

\* After an error the remaining calls are skipped.
AfterError == "cleanup"

\* One of them fails, the write for want of space.
UploadFails ==
  /\ pc \in {"write", "sync", "rename"}
  /\ pc' = AfterError /\ failed' = TRUE
  /\ UNCHANGED <<directory, task, op, name, via, fd, temp, changed, answer, got, stale, faults>>

\* The name is replaced, whatever it refers to by now; not if that is a directory.
Rename ==
  /\ pc = "rename" /\ (entry[name] # None => inode[entry[name]].kind # "dir")
  /\ pc' = "cleanup" /\ changed' = TRUE
  /\ Change([entry EXCEPT ![name] = entry[temp], ![temp] = None], inode, None)
  /\ UNCHANGED <<task, op, name, via, temp, failed, answer, got, stale, faults>>

\* The deferred unlinkat, which finds nothing after a rename. Its error is ignored.
Cleanup(ok) ==
  /\ pc = "cleanup"
  /\ ok \/ (entry[temp] # None /\ faults < MaxFaults)
  /\ faults' = IF ok THEN faults ELSE faults + 1
  /\ Ends(IF failed THEN "error" ELSE "ok")
  /\ Change(IF ok THEN [entry EXCEPT ![temp] = None] ELSE entry, inode, None)
  /\ UNCHANGED <<task, got, stale>>

\* The end of WithTempMount. A request that succeeded is answered with the error
\* of the unmount.
Unmount(ok) ==
  /\ pc = "unmount"
  /\ ok \/ faults < MaxFaults
  /\ faults' = IF ok THEN faults ELSE faults + 1
  /\ stale' = IF ok THEN stale ELSE stale + 1
  /\ Answered(IF failed THEN "error" ELSE IF ok THEN "ok" ELSE "unmount")
  /\ UNCHANGED <<directory, task, fd, got>>

\* A mount outlives the adapter, and nothing removes it later.
Crash ==
  /\ pc # "idle" /\ faults < MaxFaults
  /\ faults' = faults + 1
  /\ stale' = IF via = "temporary" THEN stale + 1 ELSE stale
  /\ Answered("none") /\ Change(entry, inode, None)
  /\ UNCHANGED <<task, got>>

Step ==
  \/ Mount \/ Refused \/ Pin \/ Inspect \/ Open \/ Fetch \/ TooLarge
  \/ \E i \in Inodes : Mkdir(i) \/ \E t \in Temps : Create(t, i)
  \/ Delete \/ Stat \/ Write \/ Sync \/ UploadFails \/ Rename
  \/ \E ok \in BOOLEAN : Cleanup(ok) \/ Unmount(ok)

Next ==
  \/ StartOrStop
  \/ \E n \in Names :
       \/ \E i \in Inodes, kind \in Kinds : Make(n, i, kind)
       \/ Unlink(n)
       \/ \E m \in Names : Link(n, m)
       \/ \E size \in Sizes : Modify(n, size)
       \/ \E kind \in {"read", "write", "mkdir", "delete"} : Request(kind, n)
  \/ Step
  \/ Crash

Spec == Init /\ [][Next]_vars

\* A system call that can return returns, with a result or an error.
FairSpec == Spec /\ WF_vars(Step)

-----------------------------------------------------------------------------
(* Properties.                                                             *)

\* The type of the state; a read returns no more than maxFileSize, also of a
\* file that grows after it was inspected.
TypeOK ==
  /\ entry \in [Names \cup Temps -> Inodes \cup {None}]
  /\ inode \in [Inodes -> Nodes \cup {None}]
  /\ task \in BOOLEAN
  /\ op \in {"read", "write", "mkdir", "delete", None}
  /\ name \in Names \cup {None}
  /\ via \in {"task", "temporary", None}
  /\ pc \in {"idle", "mount", "pin", "inspect", "open", "fetch", "mkdir", "delete",
             "stat", "create", "write", "sync", "rename", "cleanup", "unmount"}
  /\ fd \in Inodes \cup {None}
  /\ temp \in Temps \cup {None}
  /\ failed \in BOOLEAN /\ changed \in BOOLEAN
  /\ answer \in {"none", "ok", "error", "unmount"}
  /\ got \in 0 .. MaxSize
  /\ stale \in 0 .. MaxFaults
  /\ faults \in 0 .. MaxFaults

\* "Atomic replacement avoids following symlinks/hardlinks and leaves existing
\* contents intact when the upload is rejected or fails partway through": no
\* name of the sandbox ever refers to an incomplete upload, an error other than
\* that of the unmount means that the name was not replaced, and temporary names
\* are left only by deaths of the adapter and by calls that fail to remove them.
UploadIsAtomic ==
  /\ \A n \in Names : entry[n] # None => inode[entry[n]].data # "partial"
  /\ answer = "error" => ~changed
  /\ pc = "idle" => Cardinality({t \in Temps : entry[t] # None}) <= faults

\* "Mounting the same upper/work dirs a second time gives separate overlay
\* caches": a temporary mount is never used while a task has the overlay.
OneOverlay == via = "temporary" => ~task

\* The same of every mount: it fails once an adapter has died with its
\* temporary mount in place, or could not remove it.
MountedOnce == task => stale = 0

\* "a FIFO could otherwise hang the service": whatever the sandbox does to the
\* name between two calls, a request ends and gives the lifecycle lock back.
RequestEnds == pc # "idle" ~> pc = "idle"
=============================================================================
