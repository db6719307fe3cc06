--------------------------- MODULE DirectoryWatch ---------------------------
(***************************************************************************)
(* The directory monitor, the main loop that feeds it to the server, and   *)
(* the list of files in the content directory, against a file system that  *)
(* changes under them.                                                     *)
(*                                                                         *)
(* The file system and inotify are external.  A monitored directory, Root, *)
(* holds files and other directories; one of those is an inode in Dirs     *)
(* which has a name, or was moved out of Root, or does not exist.  A       *)
(* change is made first and reported afterwards, one notification at a     *)
(* time and in the order notes.txt gives, to the watch that is on the      *)
(* inode by then.  Directories in directories are left out, and so are     *)
(* overflow and unmounting.                                                *)
(***************************************************************************)
EXTENDS Integers, SequencesExt

CONSTANTS Files,      \* the names of files, all with an extension
          DirNames,   \* the names of the directories in Root, which cannot
                      \* be at the same time those of files in Root
          Dirs,       \* the inodes of the directories but Root
          MaxOps      \* bounds the changes of the file system

ASSUME DirectoryAssumption == /\ MaxOps \in Nat /\ IsFiniteSet(Dirs)
                              /\ "root" \notin DirNames \union Dirs
                              /\ {"out", "gone"} \intersect DirNames = {}
                              /\ Files \intersect DirNames = {}

VARIABLES where,      \* where[d]: the name of d, "out" of Root or "gone"
          holds,      \* holds[d]: the files in d
          kernel,     \* kernel[d]: the watch descriptor on d, or 0
          pending,    \* notifications of the last change to be given
          queue,      \* the events that inHandle would read
          ops,        \* the number of changes made
          missed,     \* history: the files of which a change may be missed
          watches,    \* DirectoryMonitor::watches
          buffer,     \* Update: the events it has read, to be looked at
          changes,    \* what Update returns and main has yet to handle
          toWatch,    \* Update: the changes it has yet to look at for directories
          pc,         \* where main is
          entries,    \* startup: what readdir returned, to be examined
          unread,     \* startup: directories to be read
          subdirs,    \* startup: directories found, to be watched
          found,      \* startup: the paths of the files found
          listed      \* ContentDirectoryService::files, name to path

fsVars   == <<where, holds, pending, ops, missed>>
scanVars == <<entries, unread, subdirs, found>>
mainVars == <<buffer, changes, toWatch, pc, scanVars, listed>>
vars     == <<fsVars, kernel, queue, watches, mainVars>>

Root    == "root"
Inodes  == Dirs \union {Root}
DirPaths == DirNames \union {Root}
Paths   == DirPaths \X (Files \union DirNames)
Absent  == <<>>

At(d)      == IF d = Root THEN Root ELSE where[d]
Found(dir) == {d \in Inodes : At(d) = dir}

(* util::FileExists.                                                       *)
FileExists(path) == \E d \in Found(path[1]) : path[2] \in holds[d]

Init == /\ where \in [Dirs -> DirNames \union {"gone"}]
        /\ \A d, e \in Dirs : where[d] = where[e] => d = e \/ where[d] = "gone"
        /\ holds \in [Inodes -> SUBSET Files]
        /\ \A d \in Dirs : where[d] = "gone" => holds[d] = {}
        /\ \A d, e \in Inodes : d # e => holds[d] \intersect holds[e] = {}
        /\ kernel = [d \in Inodes |-> 0]
        /\ pending = <<>> /\ queue = <<>>
        /\ ops = 0 /\ missed = {}
        /\ watches = [w \in {} |-> Root]
        /\ buffer = <<>> /\ changes = <<>> /\ toWatch = <<>>
        /\ pc = "root"
        /\ entries = {} /\ unread = {} /\ subdirs = {} /\ found = {}
        /\ listed = [f \in Files |-> Absent]

-----------------------------------------------------------------------------
(* The file system.                                                        *)

Note(d, what, name) == [on |-> d, what |-> what, name |-> name]
InTree(d)           == At(d) \in DirPaths
(* The events that were not looked at.                                     *)
Events        == buffer \o queue
SelfComing(w) ==
    \E i \in 1..Len(Events) : Events[i].wd = w /\ Events[i].what = "self"

(* A change in d will be reported under the path it has.                   *)
Covered(d) == \/ d = Root
              \/ /\ InTree(d)
                 /\ kernel[d] \in DOMAIN watches
                 /\ watches[kernel[d]] = where[d]
                 /\ ~SelfComing(kernel[d])

Updating == {"reading", "watching"}

Elsewhere(d, f) == \E e \in Inodes \ {d} : f \in holds[e]

(* A file made again before main has taken its deletion out of the list,   *)
(* or made while main is starting: FilterEvents may get these wrong.       *)
Hurried(f) ==
    \/ pc \notin {"loop"} \union Updating
    \/ \E i \in 1..Len(Events) : Events[i].what = "delete" /\ Events[i].name = f
    \/ \E i \in 1..Len(changes) :
          changes[i].type = "file_delete" /\ changes[i].path[2] = f

Sure(d, f) == Covered(d) /\ f \notin holds[d] /\ ~Hurried(f)

Change(notes, files) ==
    /\ ops < MaxOps
    /\ ops' = ops + 1
    /\ pending = <<>>
    /\ pending' = notes
    /\ missed' = missed \union files
    /\ UNCHANGED <<kernel, queue, watches, mainVars>>

CreateFile(d, f) ==
    /\ At(d) # "gone" /\ f \notin holds[d]
    /\ holds' = [holds EXCEPT ![d] = @ \union {f}]
    /\ Change(<<Note(d, "create", f)>>,
              IF Sure(d, f) /\ ~Elsewhere(d, f) THEN {} ELSE {f})
    /\ UNCHANGED where

DeleteFile(d, f) ==
    /\ f \in holds[d]
    /\ holds' = [holds EXCEPT ![d] = @ \ {f}]
    /\ Change(<<Note(d, "delete", f)>>, IF Covered(d) THEN {} ELSE {f})
    /\ UNCHANGED where

(* rename() of a file, which may take the place of another one.            *)
MoveFile(d, f, e, g) ==
    /\ f \in holds[d] /\ At(e) # "gone" /\ <<d, f>> # <<e, g>>
    /\ holds' = [i \in Inodes |-> (holds[i] \ (IF i = d THEN {f} ELSE {}))
                                     \union (IF i = e THEN {g} ELSE {})]
    /\ Change(<<Note(d, "delete", f), Note(e, "create", g)>>,
              (IF Covered(d) THEN {} ELSE {f}) \union
              (IF Sure(e, g) /\ (f = g \/ ~Elsewhere(e, g)) THEN {} ELSE {g}))
    /\ UNCHANGED where

Free(n) == n = "out" \/ n \notin {where[d] : d \in Dirs}

MakeDir(d, n) ==
    /\ where[d] = "gone" /\ Free(n)
    /\ where' = [where EXCEPT ![d] = n]
    /\ Change(<<Note(Root, "mkdir", n)>>, {})
    /\ UNCHANGED holds

RemoveDir(d) ==
    /\ where[d] \in DirNames /\ holds[d] = {}
    /\ where' = [where EXCEPT ![d] = "gone"]
    /\ Change(<<Note(d, "self", "gone"), Note(Root, "rmdir", where[d])>>, {})
    /\ UNCHANGED holds

(* rename() of a directory, within Root, out of it or back.                *)
MoveDir(d, n) ==
    /\ where[d] # "gone" /\ where[d] # n /\ Free(n)
    /\ where' = [where EXCEPT ![d] = n]
    /\ Change((IF InTree(d) THEN <<Note(Root, "rmdir", where[d])>> ELSE <<>>)
                 \o (IF n = "out" THEN <<>> ELSE <<Note(Root, "mkdir", n)>>)
                 \o <<Note(d, "self", n)>>,
              holds[d])
    /\ UNCHANGED holds

FileSystem ==
    \/ \E d \in Inodes, f \in Files : CreateFile(d, f) \/ DeleteFile(d, f)
    \/ \E d, e \in Inodes, f, g \in Files : MoveFile(d, f, e, g)
    \/ \E d \in Dirs, n \in DirNames : MakeDir(d, n)
    \/ \E d \in Dirs : RemoveDir(d)
    \/ \E d \in Dirs, n \in DirNames \union {"out"} : MoveDir(d, n)

(* inotify queues the next notification, if the inode is watched.  A watch *)
(* goes with its inode.                                                    *)
Notify ==
    /\ pending # <<>>
    /\ LET n == Head(pending) IN
         /\ queue' = IF kernel[n.on] = 0 THEN queue
                     ELSE Append(queue, [wd |-> kernel[n.on],
                                         what |-> n.what, name |-> n.name])
         /\ kernel' = IF n.what = "self" /\ n.name = "gone"
                      THEN [kernel EXCEPT ![n.on] = 0] ELSE kernel
    /\ pending' = Tail(pending)
    /\ UNCHANGED <<where, holds, ops, missed, watches, mainVars>>

-----------------------------------------------------------------------------
(* The monitor.                                                            *)

(* inotify_add_watch: a watched inode keeps its descriptor, and descriptors*)
(* are not used twice.                                                     *)
Descriptor(d) == IF kernel[d] # 0 THEN kernel[d]
                 ELSE 1 + Max({kernel[e] : e \in Inodes} \union DOMAIN watches
                                \union {queue[i].wd : i \in 1..Len(queue)})

(* map::insert keeps the path of a descriptor that is there.               *)
Insert(ws, w, dir) == [v \in DOMAIN ws \union {w} |->
                         IF v \in DOMAIN ws THEN ws[v] ELSE dir]

AddDirectory(dir) ==
    \/ \E d \in Found(dir) :
          /\ kernel' = [kernel EXCEPT ![d] = Descriptor(d)]
          /\ watches' = Insert(watches, Descriptor(d), dir)
    \/ Found(dir) = {} /\ UNCHANGED <<kernel, watches>>

RemoveDirectory(ws, w) == [v \in DOMAIN ws \ {w} |-> ws[v]]

Event(type, path) == [type |-> type, path |-> path]
Type == [create |-> "file_create", delete |-> "file_delete",
         mkdir |-> "dir_create", rmdir |-> "dir_delete"]

(* Update begins with one read of all there is in the queue.               *)
Update ==
    /\ pc = "loop" /\ changes = <<>>
    /\ queue # <<>>
    /\ buffer' = queue /\ queue' = <<>>
    /\ pc' = "reading"
    /\ UNCHANGED <<fsVars, kernel, watches, changes, toWatch, scanVars, listed>>

(* A mutant: only the end of a directory invalidates its watch.            *)
InvalidateDeleted(e) ==
    /\ e.what = "self"
    /\ watches' = IF e.name = "gone" THEN RemoveDirectory(watches, e.wd) ELSE watches
    /\ UNCHANGED changes

Invalidate(e) == /\ e.what = "self"
                 /\ watches' = RemoveDirectory(watches, e.wd)
                 /\ UNCHANGED changes

Report(e) == /\ e.what # "self"
             /\ changes' = Append(changes, Event(Type[e.what], <<watches[e.wd], e.name>>))
             /\ UNCHANGED watches

(* What Update makes of one inotify event.                                 *)
ReadEvent ==
    /\ pc = "reading" /\ buffer # <<>>
    /\ LET e == Head(buffer)
       IN \/ e.wd \in DOMAIN watches /\ (Invalidate(e) \/ Report(e))
          \/ e.wd \notin DOMAIN watches /\ UNCHANGED <<watches, changes>>
    /\ buffer' = Tail(buffer)
    /\ UNCHANGED <<fsVars, kernel, queue, toWatch, pc, scanVars, listed>>

(* A mutant: the names are compared, not the paths.                        *)
OppositeByName(a, b) == /\ a.path[2] = b.path[2]
                        /\ {a.type, b.type} = {"file_create", "file_delete"}

Opposite(a, b) == /\ a.path = b.path
                  /\ {a.type, b.type} = {"file_create", "file_delete"}

After(i) == {j \in i + 1 .. Len(changes) : Opposite(changes[i], changes[j])}
Paired   == {i \in 1..Len(changes) : After(i) # {}}

(* One pass from filterstart: the first event that has an opposite goes    *)
(* with the first of those.  When there is none, new directories are next. *)
FilterEvents ==
    /\ pc = "reading" /\ buffer = <<>>
    /\ \/ /\ Paired # {}
          /\ LET i == Min(Paired)
                 j == Min(After(i))
             IN changes' = RemoveAt(RemoveAt(changes, j), i)
          /\ UNCHANGED <<toWatch, pc>>
       \/ /\ Paired = {}
          /\ toWatch' = changes
          /\ pc' = "watching"
          /\ UNCHANGED changes
    /\ UNCHANGED <<fsVars, kernel, queue, watches, buffer, scanVars, listed>>

WatchNew ==
    /\ pc = "watching" /\ toWatch # <<>>
    /\ LET e == Head(toWatch)
       IN \/ e.type = "dir_create" /\ AddDirectory(e.path[2])
          \/ e.type # "dir_create" /\ UNCHANGED <<kernel, watches>>
    /\ toWatch' = Tail(toWatch)
    /\ UNCHANGED <<fsVars, queue, buffer, changes, pc, scanVars, listed>>

UpdateReturns ==
    /\ pc = "watching" /\ toWatch = <<>>
    /\ pc' = "loop"
    /\ UNCHANGED <<fsVars, kernel, queue, watches, buffer, changes, toWatch,
                   scanVars, listed>>

-----------------------------------------------------------------------------
(* The content directory and the main loop.                                *)

(* Server::AddFile and ContentDirectoryService::AddFile; both may throw.   *)
AddFile(path) ==
    listed' = IF FileExists(path) /\ listed[path[2]] = Absent
              THEN [listed EXCEPT ![path[2]] = path] ELSE listed

(* A mutant: every file is removed.                                        *)
RemoveFileAll(name) == listed' = [f \in {} |-> Absent]

RemoveFile(name) == listed' = [listed EXCEPT ![name] = Absent]

Dispatch ==
    /\ pc = "loop" /\ changes # <<>>
    /\ LET e == Head(changes)
       IN \/ e.type = "file_create" /\ AddFile(e.path)
          \/ e.type = "file_delete" /\ RemoveFile(e.path[2])
          \/ e.type \in {"dir_create", "dir_delete"} /\ UNCHANGED listed
    /\ changes' = Tail(changes)
    /\ UNCHANGED <<fsVars, kernel, queue, watches, buffer, toWatch, pc, scanVars>>

(* Startup: main watches Root and has it searched.                         *)
StartWatch == /\ pc = "root"
              /\ AddDirectory(Root)
              /\ unread' = {Root}
              /\ pc' = "scan"
              /\ UNCHANGED <<fsVars, queue, buffer, changes, toWatch, entries, subdirs,
                             found, listed>>

(* util::GetDirectoryContents reads a directory, then looks at what is in  *)
(* it.  A directory that cannot be opened is tried again, for ever.        *)
ScanRead(dir) ==
    /\ pc = "scan" /\ entries = {} /\ dir \in unread
    /\ \/ /\ Found(dir) = {}
          /\ pc' = "hung"
          /\ UNCHANGED <<entries, unread>>
       \/ \E d \in Found(dir) :
             /\ entries' = {dir} \X (holds[d] \union
                  (IF d = Root THEN {where[e] : e \in Dirs} \intersect DirNames
                   ELSE {}))
             /\ unread' = unread \ {dir}
             /\ UNCHANGED pc
    /\ UNCHANGED <<fsVars, kernel, queue, watches, buffer, changes, toWatch, subdirs,
                   found, listed>>

(* IsDirectory throws if the entry is gone, and nothing catches it.        *)
ScanEntry(p) ==
    /\ pc = "scan" /\ p \in entries
    /\ \/ /\ p[2] \in DirNames /\ Found(p[2]) # {}
          /\ unread' = unread \union {p[2]}
          /\ subdirs' = subdirs \union {p[2]}
          /\ UNCHANGED <<pc, found>>
       \/ /\ FileExists(p)
          /\ found' = found \union {p}
          /\ UNCHANGED <<pc, unread, subdirs>>
       \/ /\ IF p[2] \in DirNames THEN Found(p[2]) = {} ELSE ~FileExists(p)
          /\ pc' = "terminated"
          /\ UNCHANGED <<unread, subdirs, found>>
    /\ entries' = entries \ {p}
    /\ UNCHANGED <<fsVars, kernel, queue, watches, buffer, changes, toWatch, listed>>

ScanWatch(dir) ==
    /\ pc = "scan" /\ entries = {} /\ unread = {} /\ dir \in subdirs
    /\ AddDirectory(dir)
    /\ subdirs' = subdirs \ {dir}
    /\ UNCHANGED <<fsVars, queue, buffer, changes, toWatch, pc, entries, unread, found,
                   listed>>

(* Server::AddFiles, in the order of the search.                           *)
AddFound(p) ==
    /\ pc = "scan" /\ entries = {} /\ unread = {} /\ subdirs = {}
    /\ p \in found
    /\ AddFile(p)
    /\ found' = found \ {p}
    /\ UNCHANGED <<fsVars, kernel, queue, watches, buffer, changes, toWatch, pc, entries,
                   unread, subdirs>>

Loop == /\ pc = "scan"
        /\ entries = {} /\ unread = {} /\ subdirs = {} /\ found = {}
        /\ pc' = "loop"
        /\ UNCHANGED <<fsVars, kernel, queue, watches, buffer, changes, toWatch, scanVars,
                       listed>>

Main == \/ StartWatch \/ Loop
        \/ \E dir \in DirPaths : ScanRead(dir) \/ ScanWatch(dir)
        \/ \E p \in Paths : ScanEntry(p) \/ AddFound(p)
        \/ Update \/ ReadEvent \/ FilterEvents \/ WatchNew \/ UpdateReturns
        \/ Dispatch

Next == FileSystem \/ Notify \/ Main

Spec == Init /\ [][Next]_vars
-----------------------------------------------------------------------------
ChangeType == [type : {Type[k] : k \in DOMAIN Type}, path : Paths]

TypeOK == /\ where \in [Dirs -> DirNames \union {"out", "gone"}]
          /\ holds \in [Inodes -> SUBSET Files]
          /\ kernel \in [Inodes -> Nat]
          /\ ops \in 0..MaxOps
          /\ missed \subseteq Files
          /\ DOMAIN watches \subseteq Nat \ {0}
          /\ \A w \in DOMAIN watches : watches[w] \in DirPaths
          /\ changes \in Seq(ChangeType) /\ toWatch \in Seq(ChangeType)
          /\ pc \in {"root", "scan", "hung", "terminated", "loop"} \union Updating
          /\ entries \subseteq Paths /\ unread \subseteq DirPaths
          /\ subdirs \subseteq DirNames /\ found \subseteq Paths
          /\ listed \in [Files -> Paths \union {Absent}]

(* The path the monitor has for a watch is the path of the directory that  *)
(* is watched, or the event that takes the watch away is on its way: after *)
(* any renaming, removal and reuse of names, no file is reported under a   *)
(* directory that is not there once the queue has been read.               *)
Leaving(w) == \/ SelfComing(w)
              \/ \E i \in 1..Len(pending) :
                    pending[i].what = "self" /\ kernel[pending[i].on] = w

WatchesFollow ==
    \A w \in DOMAIN watches :
       Leaving(w) \/ \E d \in Found(watches[w]) : kernel[d] = w

(* Once everything was read and handled, the content directory lists the   *)
(* files that are there and no others, each with the path it has: for the  *)
(* files whose changes a watch covered, which were not overwritten, have   *)
(* no namesake and were not made in a hurry, whatever startup, batches,    *)
(* filtering and late looks at the file system made of the events.         *)
Settled == /\ pc = "loop" /\ pending = <<>> /\ queue = <<>>
           /\ changes = <<>>

PathsOf(f) == {<<At(d), f>> : d \in {e \in Inodes : InTree(e) /\ f \in holds[e]}}

Lists(f) == IF PathsOf(f) = {} THEN listed[f] = Absent ELSE listed[f] \in PathsOf(f)

ListingFollows == Settled => \A f \in Files \ missed : Lists(f)

-----------------------------------------------------------------------------
(* What example.conf says of the directories: they are monitored for       *)
(* deleted or newly created files, which are added to the content          *)
(* directory.  Once everything was read, what is there is what is listed;  *)
(* the run has one file and only Root, so that nothing else can be missed. *)
FilesMonitored == Settled => \A f \in Files : Lists(f)
=============================================================================
