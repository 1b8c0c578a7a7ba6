----------------------------- MODULE FilesProofs -----------------------------
(***************************************************************************)
(* File access for any set of names, inodes and temporary names, any limit *)
(* on sizes and any number of faults of the adapter: an upload replaces a  *)
(* name as a whole or not at all, a read stays within its limit, and a     *)
(* temporary mount is never used beside the overlay of a task.             *)
(***************************************************************************)
EXTENDS Files, FiniteSetTheorems, TLAPS

AllNames == Names \cup Temps

\* Temporary names that are in the directory.
Left == {t \in Temps : entry[t] # None}

Uploading == {"write", "sync", "rename"}
Reading == {"inspect", "open", "fetch"}

\* An inode that a name or a descriptor refers to is not freed.
Held ==
  /\ \A n \in AllNames : entry[n] # None => inode[entry[n]] # None
  /\ fd # None => inode[fd] # None

\* No other name refers to the inode of a temporary name.
Private ==
  \A t \in Temps, n \in AllNames : entry[t] # None /\ n # t => entry[n] # entry[t]

\* No name of the sandbox refers to an incomplete upload.
Whole == \A n \in Names : entry[n] # None => inode[entry[n]].data # "partial"

\* What the request has, step by step.
Control ==
  /\ pc = "idle" => name = None /\ op = None
  /\ pc # "idle" => name \in Names /\ op # None /\ answer = "none"
  /\ pc \in {"idle", "mount"} => via = None
  /\ OneOverlay
  /\ pc \in Reading \cup Uploading => fd # None
  /\ pc \notin Reading \cup Uploading \cup {"cleanup"} => fd = None
  /\ pc \notin Uploading \cup {"cleanup"} => temp = None
  /\ pc \in Uploading => temp \in Temps /\ entry[temp] = fd
  /\ pc \in {"sync", "rename"} => inode[fd].data = "upload"
  /\ pc = "cleanup" => temp \in Temps /\ (failed <=> ~changed)
  /\ pc = "unmount" /\ failed => ~changed
  /\ pc \notin {"cleanup", "unmount"} => ~failed
  /\ pc \notin {"idle", "cleanup", "unmount"} => ~changed
  /\ answer = "error" => ~changed

\* Besides the upload under way, a fault leaves at most one temporary name, and
\* at most one mount.
Counted ==
  /\ IsFiniteSet(Left)
  /\ Cardinality(Left \ {temp}) <= faults
  /\ stale <= faults

IndInv == TypeOK /\ Held /\ Private /\ Whole /\ Control /\ Counted

-----------------------------------------------------------------------------
(* The directory.                                                          *)

\* The type of the directory, and what names and descriptor refer to.
Sound(names, nodes, descriptor) ==
  /\ names \in [AllNames -> Inodes \cup {None}]
  /\ nodes \in [Inodes -> Nodes \cup {None}]
  /\ descriptor \in Inodes \cup {None}
  /\ \A n \in AllNames : names[n] # None => nodes[names[n]] # None
  /\ descriptor # None => nodes[descriptor] # None

\* What is referred to after a change is what it was meant to be.
LEMMA ChangeEnds ==
  ASSUME NEW names, NEW nodes, NEW descriptor,
         Sound(names, nodes, descriptor), Change(names, nodes, descriptor)
  PROVE  /\ entry' = names /\ fd' = descriptor
         /\ Sound(entry', inode', fd')
         /\ \A n \in AllNames : names[n] # None => inode'[names[n]] = nodes[names[n]]
         /\ descriptor # None => inode'[descriptor] = nodes[descriptor]
<1>1. entry' = names /\ fd' = descriptor
  BY DEF Change
<1>2. \A i \in Inodes : inode'[i] = IF i = descriptor \/ \E n \in AllNames : names[n] = i
                                      THEN nodes[i] ELSE None
  BY DEF Change, AllNames
<1>3. inode' \in [Inodes -> Nodes \cup {None}]
  BY DEF Change, Sound
<1>4. \A n \in AllNames : names[n] # None => inode'[names[n]] = nodes[names[n]]
  BY <1>2 DEF Sound
<1>5. descriptor # None => inode'[descriptor] = nodes[descriptor]
  BY <1>2 DEF Sound
<1> QED
  BY <1>1, <1>3, <1>4, <1>5 DEF Sound

\* The directory of the invariant is sound, with its descriptor or without.
LEMMA DirectoryIsSound ==
  ASSUME IndInv
  PROVE  Sound(entry, inode, fd) /\ Sound(entry, inode, None)
BY DEF IndInv, TypeOK, Held, Sound, AllNames

\* Types and references after a change of the directory.
LEMMA ChangeKeeps ==
  ASSUME NEW names, NEW nodes, NEW descriptor,
         Sound(names, nodes, descriptor), Change(names, nodes, descriptor)
  PROVE  /\ Held'
         /\ entry' \in [Names \cup Temps -> Inodes \cup {None}]
         /\ inode' \in [Inodes -> Nodes \cup {None}]
         /\ fd' \in Inodes \cup {None}
BY ChangeEnds DEF Sound, Held, AllNames

-----------------------------------------------------------------------------
(* The sandbox.                                                            *)

\* What the sandbox does to its names and files disturbs neither temporary
\* names nor the descriptor.
LEMMA SandboxKeeps ==
  ASSUME IndInv, NEW names, NEW nodes, Sandbox(names, nodes),
         Sound(names, nodes, fd),
         \A t \in Temps : names[t] = entry[t],
         \A t \in Temps : entry[t] # None => nodes[entry[t]] = inode[entry[t]],
         \A n \in Names : names[n] # None =>
           /\ nodes[names[n]].data # "partial"
           /\ \A t \in Temps : names[n] # entry[t]
  PROVE  IndInv'
<1> USE DEF IndInv
<1>1. Change(names, nodes, fd)
  BY DEF Sandbox
<1>2. UNCHANGED <<task, op, name, via, pc, temp, failed, changed, answer, got, stale, faults>>
  BY DEF Sandbox
<1>3. /\ entry' = names /\ fd' = fd
      /\ \A n \in AllNames : names[n] # None => inode'[names[n]] = nodes[names[n]]
  BY <1>1, ChangeEnds
<1>4. TypeOK' /\ Held'
  BY <1>1, <1>2, ChangeKeeps DEF TypeOK
<1>5. Private'
  BY <1>3 DEF Private, AllNames
<1>6. Whole'
  BY <1>3 DEF Whole, AllNames
<1>7. Control'
  <2>1. pc \in Uploading => entry'[temp] = fd /\ inode'[fd] = inode[fd]
    BY <1>3 DEF Control, AllNames, Uploading, Reading
  <2> QED
    BY <1>2, <1>3, <2>1 DEF Control, OneOverlay, Uploading, Reading
<1>8. Left' = Left
  BY <1>3 DEF Left
<1>9. Counted'
  BY <1>2, <1>8 DEF Counted
<1> QED
  BY <1>4, <1>5, <1>6, <1>7, <1>9

\* A name is made.
LEMMA MakeKeeps ==
  ASSUME IndInv, NEW n \in Names, NEW i \in Inodes, NEW k \in Kinds, Make(n, i, k)
  PROVE  IndInv'
<1> USE DEF IndInv
<1> DEFINE names == [entry EXCEPT ![n] = i]
           node == [kind |-> k, data |-> "sandbox", size |-> 0]
           nodes == [inode EXCEPT ![i] = node]
<1>1. inode[i] = None /\ Sandbox(names, nodes)
  BY DEF Make, Free
<1>2. node \in Nodes /\ node # None /\ node.data = "sandbox"
  BY FilesAssumption DEF Nodes, Sizes
<1> HIDE DEF node
<1>3. n \notin Temps
  BY FilesAssumption
<1>4. Sound(names, nodes, fd)
  BY <1>2, DirectoryIsSound DEF Sound, AllNames
<1>5. \A m \in AllNames : entry[m] # i
  BY <1>1, FilesAssumption DEF TypeOK, Held, AllNames
<1>6. \A t \in Temps : names[t] = entry[t] /\ (entry[t] # None => nodes[entry[t]] = inode[entry[t]])
  BY <1>3, <1>5 DEF TypeOK, AllNames
<1>7. ASSUME NEW m \in Names, names[m] # None
      PROVE  nodes[names[m]].data # "partial" /\ \A t \in Temps : names[m] # entry[t]
  <2>1. CASE m = n
    BY <1>2, <1>5, <2>1 DEF TypeOK, AllNames
  <2>2. CASE m # n
    BY <1>3, <1>5, <1>7, <2>2, FilesAssumption DEF TypeOK, Whole, Private, AllNames
  <2> QED
    BY <2>1, <2>2
<1> HIDE DEF names, nodes, IndInv
<1> QED
  BY <1>1, <1>4, <1>6, <1>7, SandboxKeeps

\* A name is removed.
LEMMA UnlinkKeeps ==
  ASSUME IndInv, NEW n \in Names, Unlink(n)
  PROVE  IndInv'
<1> USE DEF IndInv
<1> DEFINE names == [entry EXCEPT ![n] = None]
<1>1. Sandbox(names, inode)
  BY DEF Unlink
<1>2. Sound(names, inode, fd)
  BY DirectoryIsSound DEF Sound, AllNames
<1>3. \A t \in Temps : names[t] = entry[t]
  BY FilesAssumption DEF TypeOK
<1>4. \A m \in Names : names[m] # None =>
        inode[names[m]].data # "partial" /\ \A t \in Temps : names[m] # entry[t]
  BY FilesAssumption DEF TypeOK, Whole, Private, AllNames
<1> HIDE DEF names, IndInv
<1> QED
  BY <1>1, <1>2, <1>3, <1>4, SandboxKeeps

\* A file gets a second name.
LEMMA LinkKeeps ==
  ASSUME IndInv, NEW n \in Names, NEW m \in Names, Link(n, m)
  PROVE  IndInv'
<1> USE DEF IndInv
<1> DEFINE names == [entry EXCEPT ![m] = entry[n]]
<1>1. Sandbox(names, inode) /\ entry[n] # None
  BY DEF Link
<1>2. Sound(names, inode, fd)
  BY DirectoryIsSound DEF Sound, AllNames
<1>3. \A t \in Temps : names[t] = entry[t]
  BY FilesAssumption DEF TypeOK
<1>4. \A x \in Names : names[x] # None =>
        inode[names[x]].data # "partial" /\ \A t \in Temps : names[x] # entry[t]
  BY <1>1, FilesAssumption DEF TypeOK, Whole, Private, AllNames
<1> HIDE DEF names, IndInv
<1> QED
  BY <1>1, <1>2, <1>3, <1>4, SandboxKeeps

\* A file is written.
LEMMA ModifyKeeps ==
  ASSUME IndInv, NEW n \in Names, NEW size \in Sizes, Modify(n, size)
  PROVE  IndInv'
<1> USE DEF IndInv
<1> DEFINE node == [kind |-> "file", data |-> "sandbox", size |-> size]
           nodes == [inode EXCEPT ![entry[n]] = node]
<1>1. Sandbox(entry, nodes) /\ entry[n] # None
  BY DEF Modify
<1>2. node \in Nodes /\ node # None /\ node.data = "sandbox"
  BY FilesAssumption DEF Nodes, Kinds
<1> HIDE DEF node
<1>3. entry[n] \in Inodes
  BY <1>1 DEF TypeOK
<1>4. Sound(entry, nodes, fd)
  BY <1>2, <1>3, DirectoryIsSound DEF Sound, AllNames
<1>5. \A m \in Names, t \in Temps : entry[m] # None => entry[m] # entry[t]
  BY FilesAssumption DEF Private, AllNames
<1>6. \A t \in Temps : entry[t] # None => nodes[entry[t]] = inode[entry[t]]
  BY <1>1, <1>5 DEF TypeOK
<1>7. \A m \in Names : entry[m] # None => nodes[entry[m]].data # "partial"
  BY <1>2, <1>3 DEF TypeOK, Whole
<1> HIDE DEF nodes, IndInv
<1> QED
  BY <1>1, <1>4, <1>5, <1>6, <1>7, SandboxKeeps

-----------------------------------------------------------------------------
(* Steps of a request that leave the directory alone.                      *)

LEMMA DirectoryStays ==
  ASSUME IndInv, UNCHANGED <<directory, fd, temp, stale, faults>>
  PROVE  Held' /\ Private' /\ Whole' /\ Counted'
BY DEF IndInv, directory, Held, Private, Whole, Counted, Left

\* A task is started or stopped while no request is under way.
LEMMA StartOrStopKeeps ==
  ASSUME IndInv, StartOrStop
  PROVE  IndInv'
<1>1. TypeOK'
  BY DEF IndInv, StartOrStop, TypeOK, directory, request
<1>2. Control'
  BY FilesAssumption DEF IndInv, StartOrStop, Unlocked, Control, OneOverlay, directory, request
<1>3. Held' /\ Private' /\ Whole' /\ Counted'
  BY DirectoryStays DEF StartOrStop, request
<1> QED
  BY <1>1, <1>2, <1>3 DEF IndInv

\* A request takes the lifecycle lock.
LEMMA RequestKeeps ==
  ASSUME IndInv, NEW k \in {"read", "write", "mkdir", "delete"}, NEW n \in Names, Request(k, n)
  PROVE  IndInv'
<1>0. 0 \in 0 .. MaxSize
  BY FilesAssumption
<1>1. TypeOK'
  BY <1>0 DEF IndInv, Request, TypeOK, directory
<1>2. Control'
  BY FilesAssumption DEF IndInv, Request, Control, OneOverlay, Reading, Uploading, directory
<1>3. Held' /\ Private' /\ Whole' /\ Counted'
  BY DirectoryStays DEF Request
<1> QED
  BY <1>1, <1>2, <1>3 DEF IndInv

\* It gets the overlay of the task, or one of its own.
LEMMA MountKeeps ==
  ASSUME IndInv, Mount
  PROVE  IndInv'
<1>1. op \in {"read", "write", "mkdir", "delete"}
  BY DEF IndInv, Mount, TypeOK, Control
<1>2. pc' \in {"pin", "stat", "mkdir", "delete"}
  BY <1>1 DEF Mount, FirstStep
<1>3. TypeOK'
  BY <1>2 DEF IndInv, Mount, TypeOK, directory
<1>4. Control'
  BY <1>2 DEF IndInv, Mount, Control, OneOverlay, Reading, Uploading, directory
<1>5. Held' /\ Private' /\ Whole' /\ Counted'
  BY DirectoryStays DEF Mount
<1> QED
  BY <1>3, <1>4, <1>5 DEF IndInv

\* What was opened is looked at.
LEMMA InspectKeeps ==
  ASSUME IndInv, Inspect
  PROVE  IndInv'
<1>1. TypeOK'
  BY DEF IndInv, Inspect, Goto, TypeOK, directory
<1>2. Control'
  BY DEF IndInv, Inspect, Goto, Control, OneOverlay, Reading, Uploading, directory
<1>3. Held' /\ Private' /\ Whole' /\ Counted'
  BY DirectoryStays DEF Inspect, Goto
<1> QED
  BY <1>1, <1>2, <1>3 DEF IndInv

\* An upload looks at what it will replace.
LEMMA StatKeeps ==
  ASSUME IndInv, Stat
  PROVE  IndInv'
<1>1. TypeOK'
  BY DEF IndInv, Stat, Goto, TypeOK, directory
<1>2. Control'
  BY DEF IndInv, Stat, Goto, Control, OneOverlay, Reading, Uploading, directory
<1>3. Held' /\ Private' /\ Whole' /\ Counted'
  BY DirectoryStays DEF Stat, Goto
<1> QED
  BY <1>1, <1>2, <1>3 DEF IndInv

\* It is synchronised.
LEMMA SyncKeeps ==
  ASSUME IndInv, Sync
  PROVE  IndInv'
<1>1. TypeOK'
  BY DEF IndInv, Sync, Goto, TypeOK, directory
<1>2. Control'
  BY DEF IndInv, Sync, Goto, Control, OneOverlay, Reading, Uploading, directory
<1>3. Held' /\ Private' /\ Whole' /\ Counted'
  BY DirectoryStays DEF Sync, Goto
<1> QED
  BY <1>1, <1>2, <1>3 DEF IndInv

\* One of its calls fails.
LEMMA UploadFailsKeeps ==
  ASSUME IndInv, UploadFails
  PROVE  IndInv'
<1>1. TypeOK'
  BY DEF IndInv, UploadFails, AfterError, TypeOK, directory
<1>2. Control'
  BY DEF IndInv, UploadFails, AfterError, Control, OneOverlay, Reading, Uploading, directory
<1>3. Held' /\ Private' /\ Whole' /\ Counted'
  BY DirectoryStays DEF UploadFails
<1> QED
  BY <1>1, <1>2, <1>3 DEF IndInv

-----------------------------------------------------------------------------
(* Steps that open or write a file.                                        *)

\* The directory as it is, with another descriptor.
LEMMA DescriptorKeeps ==
  ASSUME IndInv, NEW i \in Inodes, inode[i] # None, Change(entry, inode, i),
         UNCHANGED <<temp, stale, faults>>
  PROVE  /\ Held' /\ Private' /\ Whole' /\ Counted'
         /\ entry' = entry /\ fd' = i
         /\ inode' \in [Inodes -> Nodes \cup {None}]
<1>1. Sound(entry, inode, i)
  BY DirectoryIsSound DEF Sound
<1>2. /\ Held' /\ entry' = entry /\ fd' = i
      /\ inode' \in [Inodes -> Nodes \cup {None}]
      /\ \A n \in AllNames : entry[n] # None => inode'[entry[n]] = inode[entry[n]]
  BY <1>1, ChangeEnds, ChangeKeeps
<1>3. Private' /\ Whole' /\ Counted'
  BY <1>2 DEF IndInv, Private, Whole, Counted, Left, AllNames
<1> QED
  BY <1>2, <1>3

\* A read pins the inode of its name.
LEMMA PinKeeps ==
  ASSUME IndInv, Pin
  PROVE  IndInv'
<1>1. entry[name] \in Inodes /\ inode[entry[name]] # None
  BY DEF IndInv, Pin, TypeOK, Control, Held, AllNames
<1>2. /\ Held' /\ Private' /\ Whole' /\ Counted'
      /\ entry' = entry /\ fd' = entry[name]
      /\ inode' \in [Inodes -> Nodes \cup {None}]
  BY <1>1, DescriptorKeeps DEF Pin, Goto
<1>3. TypeOK'
  BY <1>1, <1>2 DEF IndInv, Pin, Goto, TypeOK
<1>4. fd' # None
  BY <1>1, <1>2, FilesAssumption
<1>5. Control'
  BY <1>4 DEF IndInv, Pin, Goto, Control, OneOverlay, Reading, Uploading
<1> QED
  BY <1>2, <1>3, <1>5 DEF IndInv

\* It opens that inode.
LEMMA OpenKeeps ==
  ASSUME IndInv, Open
  PROVE  IndInv'
<1>1. fd \in Inodes /\ inode[fd] # None
  BY DEF IndInv, Open, Opened, TypeOK, Held
<1>2. /\ Held' /\ Private' /\ Whole' /\ Counted'
      /\ entry' = entry /\ fd' = fd
      /\ inode' \in [Inodes -> Nodes \cup {None}]
  BY <1>1, DescriptorKeeps DEF Open, Opened, Goto
<1>3. TypeOK'
  BY <1>1, <1>2 DEF IndInv, Open, Goto, TypeOK
<1>4. Control'
  BY <1>2 DEF IndInv, Open, Goto, Control, OneOverlay, Reading, Uploading
<1> QED
  BY <1>2, <1>3, <1>4 DEF IndInv

\* A new inode gets a name of its own.
LEMMA NewName ==
  ASSUME IndInv, NEW n \in AllNames, entry[n] = None, NEW i \in Free,
         NEW node \in Nodes, NEW d \in {i, None}
  PROVE  LET names == [entry EXCEPT ![n] = i]
             nodes == [inode EXCEPT ![i] = node]
         IN  /\ Sound(names, nodes, d)
             /\ \A m \in AllNames : entry[m] # i
             /\ \A t \in Temps, m \in AllNames : names[t] # None /\ m # t => names[m] # names[t]
             /\ \A m \in AllNames \ {n} :
                  names[m] = entry[m] /\ (entry[m] # None => nodes[entry[m]] = inode[entry[m]])
             /\ names[n] = i /\ nodes[i] = node
<1> DEFINE names == [entry EXCEPT ![n] = i]
           nodes == [inode EXCEPT ![i] = node]
<1>1. i \in Inodes /\ inode[i] = None /\ i # None /\ node # None
  BY FilesAssumption DEF Free
<1>2. \A m \in AllNames : entry[m] # i
  BY <1>1 DEF IndInv, Held
<1>3. \A m \in AllNames \ {n} :
        names[m] = entry[m] /\ (entry[m] # None => nodes[entry[m]] = inode[entry[m]])
  BY <1>2 DEF IndInv, TypeOK, AllNames
<1>4. names[n] = i /\ nodes[i] = node
  BY <1>1 DEF IndInv, TypeOK, AllNames
<1>5. names \in [AllNames -> Inodes \cup {None}] /\ nodes \in [Inodes -> Nodes \cup {None}]
  BY <1>1 DEF IndInv, TypeOK, AllNames
<1> HIDE DEF names, nodes
<1>6. Sound(names, nodes, d)
  BY <1>1, <1>3, <1>4, <1>5 DEF IndInv, Held, Sound
<1>7. \A t \in Temps, m \in AllNames : names[t] # None /\ m # t => names[m] # names[t]
  BY <1>2, <1>3, <1>4 DEF IndInv, Private, AllNames
<1> QED
  BY <1>2, <1>3, <1>4, <1>6, <1>7 DEF names, nodes

\* An upload gets a temporary name.
LEMMA CreateKeeps ==
  ASSUME IndInv, NEW t \in Temps, NEW i \in Inodes, Create(t, i)
  PROVE  IndInv'
<1> DEFINE node == [kind |-> "file", data |-> "partial", size |-> 0]
           names == [entry EXCEPT ![t] = i]
           nodes == [inode EXCEPT ![i] = node]
<1>1. Change(names, nodes, i) /\ entry[t] = None /\ i \in Free /\ temp = None /\ temp' = t
  BY DEF Create, IndInv, Control, Uploading
<1>2. node \in Nodes
  BY FilesAssumption DEF Nodes, Kinds, Sizes
<1> HIDE DEF node
<1>3. /\ Sound(names, nodes, i)
      /\ \A s \in Temps, m \in AllNames : names[s] # None /\ m # s => names[m] # names[s]
      /\ \A m \in AllNames \ {t} :
           names[m] = entry[m] /\ (entry[m] # None => nodes[entry[m]] = inode[entry[m]])
      /\ names[t] = i
  BY <1>1, <1>2, NewName DEF AllNames
<1> HIDE DEF names, nodes
<1>4. /\ entry' = names /\ fd' = i
      /\ \A m \in AllNames : names[m] # None => inode'[names[m]] = nodes[names[m]]
  BY <1>1, <1>3, ChangeEnds
<1>5. /\ Held'
      /\ entry' \in [Names \cup Temps -> Inodes \cup {None}]
      /\ inode' \in [Inodes -> Nodes \cup {None}]
      /\ fd' \in Inodes \cup {None}
  BY <1>1, <1>3, ChangeKeeps
<1>6. TypeOK'
  BY <1>5 DEF IndInv, Create, TypeOK
<1>7. Private'
  BY <1>3, <1>4 DEF Private
<1>8. Whole'
  <2>1. \A n \in Names : n \in AllNames \ {t}
    BY FilesAssumption DEF AllNames
  <2> QED
    BY <1>3, <1>4, <2>1 DEF IndInv, Whole, AllNames
<1>9. i # None /\ t # None
  BY FilesAssumption
<1>10. Control'
  BY <1>3, <1>4, <1>9 DEF IndInv, Create, Control, OneOverlay, Reading, Uploading
<1>11. Counted'
  <2>1. Left' \ {t} = Left
    BY <1>1, <1>3, <1>4 DEF Left, AllNames
  <2>2. Left \ {None} = Left
    BY FilesAssumption DEF Left
  <2>3. Left' = Left \cup {t}
    BY <1>3, <1>4, <1>9, <2>1 DEF Left
  <2>4. IsFiniteSet(Left')
    BY <2>3, FS_AddElement DEF IndInv, Counted
  <2> QED
    BY <1>1, <2>1, <2>2, <2>4 DEF IndInv, Create, Counted
<1> QED
  BY <1>5, <1>6, <1>7, <1>8, <1>10, <1>11 DEF IndInv

\* It is written.
LEMMA WriteKeeps ==
  ASSUME IndInv, Write
  PROVE  IndInv'
<1> DEFINE nodes == [inode EXCEPT ![fd].data = "upload"]
<1>1. /\ Change(entry, nodes, fd) /\ temp \in Temps
      /\ entry[temp] = fd /\ fd \in Inodes /\ inode[fd] \in Nodes
  BY DEF Write, IndInv, TypeOK, Control, Held, Reading, Uploading
<1>2. nodes[fd] \in Nodes /\ nodes[fd].data = "upload"
  BY <1>1 DEF IndInv, TypeOK, Nodes
<1>3. nodes \in [Inodes -> Nodes \cup {None}]
  BY <1>1, <1>2 DEF IndInv, TypeOK
<1>4. \A n \in Names : entry[n] # None => entry[n] # fd /\ nodes[entry[n]] = inode[entry[n]]
  BY <1>1, FilesAssumption DEF IndInv, TypeOK, Private, AllNames
<1>5. \A i \in Inodes : inode[i] # None => nodes[i] # None
  BY <1>1, <1>2, FilesAssumption DEF IndInv, TypeOK
<1> HIDE DEF nodes
<1>6. Sound(entry, nodes, fd)
  BY <1>3, <1>5, DirectoryIsSound DEF Sound
<1>7. /\ entry' = entry /\ fd' = fd /\ inode'[fd] = nodes[fd]
      /\ \A n \in AllNames : entry[n] # None => inode'[entry[n]] = nodes[entry[n]]
  BY <1>1, <1>6, ChangeEnds, FilesAssumption
<1>8. Held' /\ inode' \in [Inodes -> Nodes \cup {None}]
  BY <1>1, <1>6, ChangeKeeps
<1>9. TypeOK'
  BY <1>7, <1>8 DEF IndInv, Write, Goto, TypeOK
<1>10. Private' /\ Counted'
  BY <1>7 DEF IndInv, Write, Goto, Private, Counted, Left
<1>11. Whole'
  BY <1>4, <1>7 DEF IndInv, Whole, AllNames
<1>12. Control'
  BY <1>2, <1>7 DEF IndInv, Write, Goto, Control, OneOverlay, Reading, Uploading
<1> QED
  BY <1>8, <1>9, <1>10, <1>11, <1>12 DEF IndInv

\* The temporary name becomes the name.
LEMMA RenameKeeps ==
  ASSUME IndInv, Rename
  PROVE  IndInv'
<1> DEFINE names == [entry EXCEPT ![name] = entry[temp], ![temp] = None]
<1>1. /\ Change(names, inode, None) /\ temp \in Temps /\ name \in Names
      /\ entry[temp] = fd /\ fd \in Inodes /\ fd # None /\ inode[fd].data = "upload"
  BY DEF Rename, IndInv, TypeOK, Control, Reading, Uploading
<1>2. name # temp
  BY <1>1, FilesAssumption
<1>3. /\ names[name] = fd /\ names[temp] = None
      /\ \A n \in AllNames \ {name, temp} : names[n] = entry[n]
      /\ names \in [AllNames -> Inodes \cup {None}]
  BY <1>1, <1>2 DEF IndInv, TypeOK, AllNames
<1> HIDE DEF names
<1>4. Sound(names, inode, None)
  BY <1>1, <1>3, DirectoryIsSound DEF Sound, AllNames
<1>5. /\ entry' = names
      /\ \A n \in AllNames : names[n] # None => inode'[names[n]] = inode[names[n]]
  BY <1>1, <1>4, ChangeEnds
<1>6. /\ Held' /\ inode' \in [Inodes -> Nodes \cup {None}] /\ fd' = None
      /\ entry' \in [Names \cup Temps -> Inodes \cup {None}]
  BY <1>1, <1>4, ChangeKeeps, ChangeEnds
<1>7. TypeOK'
  BY <1>6 DEF IndInv, Rename, TypeOK
<1>8. Private'
  <2> SUFFICES ASSUME NEW t \in Temps, NEW n \in AllNames, names[t] # None, n # t
               PROVE  names[n] # names[t]
    BY <1>5 DEF Private
  <2>1. t # temp /\ t # name /\ names[t] = entry[t]
    BY <1>1, <1>3, FilesAssumption DEF AllNames
  <2>2. names[n] \in {entry[n], fd, None}
    BY <1>3
  <2>3. entry[n] # entry[t] /\ entry[temp] # entry[t]
    BY <2>1, <1>1 DEF IndInv, Private, AllNames
  <2> QED
    BY <1>1, <2>1, <2>2, <2>3
<1>9. Whole'
  <2>1. \A n \in Names : n # temp
    BY <1>1, FilesAssumption
  <2> QED
    BY <1>1, <1>3, <1>5, <2>1 DEF IndInv, Whole, AllNames
<1>10. Control'
  BY <1>1, <1>6 DEF IndInv, Rename, Control, OneOverlay, Reading, Uploading
<1>11. Counted'
  <2>1. \A t \in Temps : t # name
    BY <1>1, FilesAssumption
  <2>2. Left' = Left \ {temp}
    BY <1>3, <1>5, <2>1 DEF Left, AllNames
  <2>3. Left' \ {temp} = Left \ {temp}
    BY <2>2
  <2>4. IsFiniteSet(Left')
    BY <2>2, FS_Difference DEF IndInv, Counted
  <2> QED
    BY <2>3, <2>4 DEF IndInv, Rename, Counted
<1> QED
  BY <1>6, <1>7, <1>8, <1>9, <1>10, <1>11 DEF IndInv

-----------------------------------------------------------------------------
(* Steps that end a request.                                               *)

\* A request ends and leaves the directory it is given.
LEMMA AnsweredKeeps ==
  ASSUME IndInv, NEW result \in {"none", "ok", "error", "unmount"}, Answered(result),
         result = "error" => ~changed,
         NEW names, NEW nodes, Sound(names, nodes, None), Change(names, nodes, None),
         \A t \in Temps, n \in AllNames : names[t] # None /\ n # t => names[n] # names[t],
         \A n \in Names : names[n] # None => nodes[names[n]].data # "partial",
         UNCHANGED task, got' \in 0 .. MaxSize,
         faults' \in 0 .. MaxFaults, stale' \in 0 .. MaxFaults,
         Counted'
  PROVE  IndInv'
<1>1. /\ entry' = names /\ fd' = None
      /\ \A n \in AllNames : names[n] # None => inode'[names[n]] = nodes[names[n]]
  BY ChangeEnds
<1>2. /\ Held'
      /\ entry' \in [Names \cup Temps -> Inodes \cup {None}]
      /\ inode' \in [Inodes -> Nodes \cup {None}]
  BY ChangeKeeps
<1>3. TypeOK'
  BY <1>1, <1>2 DEF IndInv, TypeOK, Answered
<1>4. Private' /\ Whole'
  BY <1>1 DEF Private, Whole, AllNames
<1>5. Control'
  BY <1>1, FilesAssumption DEF IndInv, Control, OneOverlay, Answered, Reading, Uploading
<1> QED
  BY <1>2, <1>3, <1>4, <1>5 DEF IndInv

\* The same when a mount has still to be removed.
LEMMA EndsKeeps ==
  ASSUME IndInv, pc # "idle", NEW result \in {"ok", "error"}, Ends(result),
         result = "error" => ~changed,
         NEW names, NEW nodes, Sound(names, nodes, None), Change(names, nodes, None),
         \A t \in Temps, n \in AllNames : names[t] # None /\ n # t => names[n] # names[t],
         \A n \in Names : names[n] # None => nodes[names[n]].data # "partial",
         UNCHANGED task, got' \in 0 .. MaxSize,
         faults' \in 0 .. MaxFaults, stale' \in 0 .. MaxFaults,
         Counted'
  PROVE  IndInv'
<1>1. CASE via = "temporary"
  <2>0. /\ pc' = "unmount" /\ failed' = (result = "error") /\ temp' = None
        /\ UNCHANGED <<op, name, via, changed, answer>>
    BY <1>1 DEF Ends
  <2>1. /\ entry' = names /\ fd' = None
        /\ \A n \in AllNames : names[n] # None => inode'[names[n]] = nodes[names[n]]
    BY ChangeEnds
  <2>2. /\ Held'
        /\ entry' \in [Names \cup Temps -> Inodes \cup {None}]
        /\ inode' \in [Inodes -> Nodes \cup {None}]
    BY ChangeKeeps
  <2>3. TypeOK'
    BY <2>0, <2>1, <2>2 DEF IndInv, TypeOK
  <2>4. Private' /\ Whole'
    BY <2>1 DEF Private, Whole, AllNames
  <2>5. Control'
    BY <2>0, <2>1 DEF IndInv, Control, OneOverlay, Reading, Uploading
  <2> QED
    BY <2>2, <2>3, <2>4, <2>5 DEF IndInv
<1>2. CASE via # "temporary"
  BY <1>2, AnsweredKeeps DEF Ends
<1> QED
  BY <1>1, <1>2

\* The temporary name is forgotten.
LEMMA EndsTemp ==
  ASSUME NEW result, Ends(result)
  PROVE  temp' = None
BY DEF Ends, Answered

\* Counting temporary names when a request without one ends.
LEMMA CountStays ==
  ASSUME IndInv, temp = None, temp' = None,
         \A t \in Temps : entry'[t] = entry[t],
         UNCHANGED <<stale, faults>>
  PROVE  Counted'
<1>1. Left' = Left
  BY DEF Left
<1> QED
  BY <1>1 DEF IndInv, Counted

\* A request ends without having changed anything.
LEMMA EndsUnchanged ==
  ASSUME IndInv, pc \notin Uploading \cup {"cleanup"},
         pc # "idle", NEW result \in {"ok", "error"}, Ends(result), result = "error" => ~changed,
         Change(entry, inode, None), got' \in 0 .. MaxSize,
         UNCHANGED <<task, stale, faults>>
  PROVE  IndInv'
<1>1. Sound(entry, inode, None)
  BY DirectoryIsSound
<1>2. entry' = entry
  BY DEF Change
<1>3. Counted'
  BY <1>2, EndsTemp, CountStays DEF IndInv, Control
<1>4. faults' \in 0 .. MaxFaults /\ stale' \in 0 .. MaxFaults
  BY DEF IndInv, TypeOK
<1>5. /\ \A t \in Temps, n \in AllNames : entry[t] # None /\ n # t => entry[n] # entry[t]
      /\ \A n \in Names : entry[n] # None => inode[entry[n]].data # "partial"
  BY DEF IndInv, Private, Whole
<1> QED
  BY <1>1, <1>3, <1>4, <1>5, EndsKeeps

\* It is refused, or a call fails.
LEMMA RefusedKeeps ==
  ASSUME IndInv, Refused
  PROVE  IndInv'
<1>1. pc \notin Uploading \cup {"cleanup"} /\ pc # "idle" /\ ~changed /\ got' \in 0 .. MaxSize
  BY DEF IndInv, Refused, TypeOK, Control, Uploading
<1> QED
  BY <1>1, EndsUnchanged DEF Refused

\* A read returns what it read.
LEMMA FetchKeeps ==
  ASSUME IndInv, Fetch
  PROVE  IndInv'
<1>1. pc \notin Uploading \cup {"cleanup"} /\ pc # "idle" /\ fd \in Inodes /\ inode[fd] \in Nodes
  BY DEF IndInv, Fetch, TypeOK, Control, Held, Reading, Uploading
<1>2. inode[fd].size \in 0 .. MaxSize
  BY <1>1, FilesAssumption DEF Fetch, Exceeds, Nodes, Sizes
<1> QED
  BY <1>1, <1>2, EndsUnchanged DEF Fetch

\* A file that has grown is not returned.
LEMMA TooLargeKeeps ==
  ASSUME IndInv, TooLarge
  PROVE  IndInv'
<1>1. pc \notin Uploading \cup {"cleanup"} /\ pc # "idle" /\ ~changed /\ got' \in 0 .. MaxSize
  BY DEF IndInv, TooLarge, TypeOK, Control, Uploading
<1> QED
  BY <1>1, EndsUnchanged DEF TooLarge

\* A directory is made.
LEMMA MkdirKeeps ==
  ASSUME IndInv, NEW i \in Inodes, Mkdir(i)
  PROVE  IndInv'
<1> DEFINE node == [kind |-> "dir", data |-> "sandbox", size |-> 0]
           names == [entry EXCEPT ![name] = i]
           nodes == [inode EXCEPT ![i] = node]
<1>1. /\ pc # "idle" /\ name \in Names /\ entry[name] = None /\ i \in Free /\ temp = None
      /\ Change(names, nodes, None) /\ Ends("ok")
      /\ UNCHANGED <<task, got, stale, faults>>
  BY DEF Mkdir, IndInv, Control, Uploading
<1>2. node \in Nodes /\ node.data # "partial"
  BY FilesAssumption DEF Nodes, Kinds, Sizes
<1> HIDE DEF node
<1>3. /\ Sound(names, nodes, None)
      /\ \A t \in Temps, m \in AllNames : names[t] # None /\ m # t => names[m] # names[t]
      /\ \A m \in AllNames \ {name} :
           names[m] = entry[m] /\ (entry[m] # None => nodes[entry[m]] = inode[entry[m]])
      /\ names[name] = i /\ nodes[i] = node
  BY <1>1, <1>2, NewName DEF AllNames
<1> HIDE DEF names, nodes
<1>4. \A n \in Names : names[n] # None => nodes[names[n]].data # "partial"
  BY <1>2, <1>3 DEF IndInv, Whole, AllNames
<1>5. \A t \in Temps : entry'[t] = entry[t]
  BY <1>1, <1>3, FilesAssumption DEF Change, AllNames
<1>6. Counted'
  BY <1>1, <1>5, EndsTemp, CountStays
<1>7. got' \in 0 .. MaxSize /\ faults' \in 0 .. MaxFaults /\ stale' \in 0 .. MaxFaults
  BY <1>1 DEF IndInv, TypeOK
<1> QED
  BY <1>1, <1>3, <1>4, <1>6, <1>7, EndsKeeps

\* A name is removed from what refers to something.
LEMMA OneNameLess ==
  ASSUME IndInv, NEW x \in AllNames
  PROVE  LET names == [entry EXCEPT ![x] = None]
         IN  /\ Sound(names, inode, None)
             /\ \A t \in Temps, n \in AllNames : names[t] # None /\ n # t => names[n] # names[t]
             /\ \A n \in Names : names[n] # None => inode[names[n]].data # "partial"
             /\ \A n \in AllNames : names[n] = IF n = x THEN None ELSE entry[n]
<1> DEFINE names == [entry EXCEPT ![x] = None]
<1>1. /\ \A n \in AllNames : names[n] = IF n = x THEN None ELSE entry[n]
      /\ names \in [AllNames -> Inodes \cup {None}]
  BY DEF IndInv, TypeOK, AllNames
<1> HIDE DEF names
<1>2. Sound(names, inode, None)
  BY <1>1, DirectoryIsSound DEF Sound
<1>3. \A t \in Temps, n \in AllNames : names[t] # None /\ n # t => names[n] # names[t]
  BY <1>1 DEF IndInv, Private, AllNames
<1>4. \A n \in Names : names[n] # None => inode[names[n]].data # "partial"
  BY <1>1 DEF IndInv, Whole, AllNames
<1> QED
  BY <1>1, <1>2, <1>3, <1>4 DEF names

\* A name is deleted.
LEMMA DeleteKeeps ==
  ASSUME IndInv, Delete
  PROVE  IndInv'
<1> DEFINE names == [entry EXCEPT ![name] = None]
<1>1. /\ pc # "idle" /\ name \in Names /\ temp = None
      /\ Change(names, inode, None) /\ Ends("ok")
      /\ UNCHANGED <<task, got, stale, faults>>
  BY DEF Delete, IndInv, Control, Uploading
<1>2. /\ Sound(names, inode, None)
      /\ \A t \in Temps, n \in AllNames : names[t] # None /\ n # t => names[n] # names[t]
      /\ \A n \in Names : names[n] # None => inode[names[n]].data # "partial"
      /\ \A n \in AllNames : names[n] = IF n = name THEN None ELSE entry[n]
  BY <1>1, OneNameLess DEF AllNames
<1> HIDE DEF names
<1>3. \A t \in Temps : entry'[t] = entry[t]
  BY <1>1, <1>2, FilesAssumption DEF Change, AllNames
<1>4. Counted'
  BY <1>1, <1>3, EndsTemp, CountStays
<1>5. got' \in 0 .. MaxSize /\ faults' \in 0 .. MaxFaults /\ stale' \in 0 .. MaxFaults
  BY <1>1 DEF IndInv, TypeOK
<1> QED
  BY <1>1, <1>2, <1>4, <1>5, EndsKeeps

\* One temporary name more is left, and one fault more has happened.
LEMMA CountFault ==
  ASSUME IndInv, temp' = None, \A t \in Temps : entry'[t] = entry[t],
         faults' = faults + 1, stale' \in {stale, stale + 1}
  PROVE  Counted'
<1>1. Left' = Left /\ Left' \ {None} = Left
  BY FilesAssumption DEF Left
<1>2. IsFiniteSet(Left) /\ Cardinality(Left) \in Nat
  BY FS_CardinalityType DEF IndInv, Counted
<1>3. Cardinality(Left) <= Cardinality(Left \ {temp}) + 1
  BY <1>2, FS_RemoveElement
<1>4. Cardinality(Left \ {temp}) \in Nat
  BY <1>2, FS_RemoveElement, FS_CardinalityType
<1>5. Cardinality(Left) <= faults + 1
  BY <1>2, <1>3, <1>4 DEF IndInv, Counted, TypeOK
<1>6. stale' <= faults'
  BY DEF IndInv, Counted, TypeOK
<1> QED
  BY <1>1, <1>2, <1>5, <1>6 DEF Counted

\* The temporary name goes, if a rename has not taken it.
LEMMA CleanupKeeps ==
  ASSUME IndInv, NEW ok \in BOOLEAN, Cleanup(ok)
  PROVE  IndInv'
<1> DEFINE result == IF failed THEN "error" ELSE "ok"
<1>1. /\ temp \in Temps /\ pc # "idle" /\ Ends(result)
      /\ UNCHANGED <<task, got, stale>>
      /\ result \in {"ok", "error"} /\ (result = "error" => ~changed)
  BY DEF Cleanup, IndInv, Control
<1>2. temp' = None
  BY <1>1, EndsTemp
<1> HIDE DEF result
<1>3. got' \in 0 .. MaxSize /\ stale' \in 0 .. MaxFaults /\ faults' \in 0 .. MaxFaults
  BY <1>1, FilesAssumption DEF Cleanup, IndInv, TypeOK
<1>4. CASE ok
  <2> DEFINE names == [entry EXCEPT ![temp] = None]
  <2>1. Change(names, inode, None) /\ faults' = faults
    BY <1>4 DEF Cleanup
  <2>2. /\ Sound(names, inode, None)
        /\ \A t \in Temps, n \in AllNames : names[t] # None /\ n # t => names[n] # names[t]
        /\ \A n \in Names : names[n] # None => inode[names[n]].data # "partial"
        /\ \A n \in AllNames : names[n] = IF n = temp THEN None ELSE entry[n]
    BY <1>1, OneNameLess DEF AllNames
  <2> HIDE DEF names
  <2>3. Counted'
    <3>1. Left' = Left \ {temp}
      BY <1>1, <2>1, <2>2 DEF Change, Left, AllNames
    <3>2. Left' \ {None} = Left \ {temp}
      BY <3>1, FilesAssumption DEF Left
    <3>3. IsFiniteSet(Left')
      BY <3>1, FS_Difference DEF IndInv, Counted
    <3> QED
      BY <1>1, <1>2, <2>1, <3>2, <3>3 DEF IndInv, Counted
  <2> QED
    BY <1>1, <1>3, <2>1, <2>2, <2>3, EndsKeeps
<1>5. CASE ~ok
  <2>1. Change(entry, inode, None) /\ faults' = faults + 1
    BY <1>5 DEF Cleanup
  <2>2. Sound(entry, inode, None)
    BY DirectoryIsSound
  <2>3. /\ \A t \in Temps, n \in AllNames : entry[t] # None /\ n # t => entry[n] # entry[t]
        /\ \A n \in Names : entry[n] # None => inode[entry[n]].data # "partial"
    BY DEF IndInv, Private, Whole
  <2>4. Counted'
    BY <1>1, <1>2, <2>1, CountFault DEF Change
  <2> QED
    BY <1>1, <1>3, <2>1, <2>2, <2>3, <2>4, EndsKeeps
<1> QED
  BY <1>4, <1>5

\* The mount of the request goes, or stays.
LEMMA UnmountKeeps ==
  ASSUME IndInv, NEW ok \in BOOLEAN, Unmount(ok)
  PROVE  IndInv'
<1> DEFINE result == IF failed THEN "error" ELSE IF ok THEN "ok" ELSE "unmount"
<1>1. /\ Answered(result) /\ UNCHANGED <<entry, inode, task, fd, got>>
      /\ result \in {"none", "ok", "error", "unmount"} /\ (result = "error" => ~changed)
      /\ temp = None /\ temp' = None /\ fd = None
  BY DEF Unmount, Answered, IndInv, Control, Reading, Uploading, directory
<1> HIDE DEF result
<1>2. /\ faults' \in 0 .. MaxFaults
      /\ \/ faults' = faults /\ stale' = stale
         \/ faults' = faults + 1 /\ stale' = stale + 1
  BY FilesAssumption DEF Unmount, IndInv, TypeOK
<1>3. Counted'
  BY <1>1, <1>2, CountStays, CountFault
<1>4. stale' \in 0 .. MaxFaults
  BY <1>2, <1>3, FilesAssumption DEF Counted, IndInv, TypeOK
<1>5. Held' /\ Private' /\ Whole'
  BY <1>1 DEF IndInv, Held, Private, Whole
<1>6. TypeOK'
  BY <1>1, <1>2, <1>4 DEF IndInv, TypeOK, Answered
<1>7. Control'
  BY <1>1, FilesAssumption DEF IndInv, Control, OneOverlay, Answered, Reading, Uploading
<1> QED
  BY <1>3, <1>5, <1>6, <1>7 DEF IndInv

\* The adapter dies and leaves its temporary name and its mount.
LEMMA CrashKeeps ==
  ASSUME IndInv, Crash
  PROVE  IndInv'
<1>1. /\ faults' = faults + 1 /\ faults < MaxFaults
      /\ stale' \in {stale, stale + 1} /\ temp' = None
      /\ Answered("none") /\ Change(entry, inode, None)
      /\ UNCHANGED <<task, got>>
  BY DEF Crash, Answered
<1>2. stale' <= faults' /\ stale' \in 0 .. MaxFaults /\ faults' \in 0 .. MaxFaults
  BY <1>1, FilesAssumption DEF IndInv, TypeOK, Counted
<1>3. Counted'
  BY <1>1, CountFault DEF Change
<1>4. got' \in 0 .. MaxSize
  BY <1>1 DEF IndInv, TypeOK
<1>5. Sound(entry, inode, None)
  BY DirectoryIsSound
<1>6. /\ \A t \in Temps, n \in AllNames : entry[t] # None /\ n # t => entry[n] # entry[t]
      /\ \A n \in Names : entry[n] # None => inode[entry[n]].data # "partial"
  BY DEF IndInv, Private, Whole
<1> QED
  BY <1>1, <1>2, <1>3, <1>4, <1>5, <1>6, AnsweredKeeps

-----------------------------------------------------------------------------
(* Theorems.                                                               *)

\* An empty directory and no request.
LEMMA InitInv ==
  ASSUME Init
  PROVE  IndInv
<1>0. 0 \in 0 .. MaxSize /\ 0 \in 0 .. MaxFaults
  BY FilesAssumption
<1>1. TypeOK
  BY <1>0 DEF Init, TypeOK
<1>2. Left = {} /\ Left \ {temp} = {}
  BY DEF Init, Left
<1>3. Counted
  BY <1>2, FS_EmptySet DEF Init, Counted
<1>4. Held /\ Private /\ Whole
  BY DEF Init, Held, Private, Whole, AllNames
<1>5. Control
  BY FilesAssumption DEF Init, Control, OneOverlay, Reading, Uploading
<1> QED
  BY <1>1, <1>3, <1>4, <1>5 DEF IndInv

\* Every step keeps the invariant.
LEMMA NextKeeps ==
  ASSUME IndInv, [Next]_vars
  PROVE  IndInv'
<1>1. CASE UNCHANGED vars
  <2>1. TypeOK' /\ Control'
    BY <1>1 DEF IndInv, vars, directory, request, TypeOK, Control, OneOverlay
  <2>2. Held' /\ Private' /\ Whole' /\ Counted'
    BY <1>1, DirectoryStays DEF vars, request
  <2> QED
    BY <2>1, <2>2 DEF IndInv
<1>2. CASE Step
  BY <1>2, MountKeeps, RefusedKeeps, PinKeeps, InspectKeeps, OpenKeeps, FetchKeeps, TooLargeKeeps,
     MkdirKeeps, CreateKeeps, DeleteKeeps, StatKeeps, WriteKeeps, SyncKeeps, UploadFailsKeeps,
     RenameKeeps, CleanupKeeps, UnmountKeeps DEF Step
<1>3. CASE Next
  BY <1>2, <1>3, StartOrStopKeeps, MakeKeeps, UnlinkKeeps, LinkKeeps, ModifyKeeps, RequestKeeps,
     CrashKeeps DEF Next
<1> QED
  BY <1>1, <1>3

\* The invariant of file access, for any number of names, inodes and faults.
THEOREM Invariance == Spec => []IndInv
<1>1. Init => IndInv
  BY InitInv
<1>2. IndInv /\ [Next]_vars => IndInv'
  BY NextKeeps
<1> QED
  BY <1>1, <1>2, PTL DEF Spec

\* The variables keep their types, and a read never returns more than
\* maxFileSize, also of a file that grows after it was inspected (files.go).
THEOREM TypeCorrect == Spec => []TypeOK
<1>1. IndInv => TypeOK
  BY DEF IndInv
<1> QED
  BY <1>1, Invariance, PTL

\* "Atomic replacement": no name of the sandbox ever refers to an incomplete
\* upload, an error other than that of the unmount means that the name was not
\* replaced, and every temporary name that is left is owed to a fault of its own:
\* a death of the adapter, or a call that failed to remove it.
THEOREM UploadsAreAtomic == Spec => []UploadIsAtomic
<1>1. ASSUME IndInv, pc = "idle"
      PROVE  Cardinality({t \in Temps : entry[t] # None}) <= faults
  <2>1. Left \ {temp} = {t \in Temps : entry[t] # None}
    BY <1>1, FilesAssumption DEF IndInv, Control, Uploading, Left
  <2> QED
    BY <1>1, <2>1 DEF IndInv, Counted
<1>2. IndInv => UploadIsAtomic
  BY <1>1 DEF IndInv, Whole, Control, UploadIsAtomic
<1> QED
  BY <1>2, Invariance, PTL

\* A temporary mount is never used while a task has the overlay: the
\* lifecycle lock is held from the choice of the mount to the answer.
THEOREM NeverTwoOverlays == Spec => []OneOverlay
<1>1. IndInv => OneOverlay
  BY DEF IndInv, Control
<1> QED
  BY <1>1, Invariance, PTL
=============================================================================
