------------------------ MODULE DirectoryWatch_proof ------------------------
(***************************************************************************)
(* Proofs about DirectoryWatch, for every set of files, names and          *)
(* directories and any number of changes of the file system: first what    *)
(* is watched, then that what is listed is what is there (ListingFollows). *)
(***************************************************************************)
EXTENDS DirectoryWatch, NaturalSets, SequenceTheorems

(* What inotify tells: of files in any directory, of directories in Root,  *)
(* of a directory itself where it is now.                                  *)
Kinds(what, name) ==
    \/ what \in {"create", "delete"} /\ name \in Files
    \/ what \in {"mkdir", "rmdir"} /\ name \in DirNames
    \/ what = "self" /\ name \in DirNames \union {"out", "gone"}

Whats == {"create", "delete", "mkdir", "rmdir", "self"}
Names == Files \union DirNames \union {"out", "gone"}

NoteType  == {n \in [on : Inodes, what : Whats, name : Names] : Kinds(n.what, n.name)}
EventType == {e \in [wd : Nat \ {0}, what : Whats, name : Names] : Kinds(e.what, e.name)}

(* Only a change of a directory is called one of a directory.              *)
ReturnType == {c \in ChangeType : c.type = "dir_create" => c.path[2] \in DirNames}

SequencesTyped == /\ pending \in Seq(NoteType)
                  /\ queue \in Seq(EventType) /\ buffer \in Seq(EventType)
                  /\ changes \in Seq(ReturnType) /\ toWatch \in Seq(ReturnType)

FilesTyped == /\ where \in [Dirs -> DirNames \union {"out", "gone"}]
              /\ holds \in [Inodes -> SUBSET Files]
              /\ ops \in 0..MaxOps /\ missed \subseteq Files

WatchesTyped == /\ kernel \in [Inodes -> Nat]
                /\ watches \in [DOMAIN watches -> DirPaths]
                /\ DOMAIN watches \subseteq Nat \ {0}
                /\ IsFiniteSet(DOMAIN watches)

MainTyped == /\ pc \in {"root", "scan", "hung", "terminated", "loop"} \union Updating
             /\ entries \subseteq Paths /\ unread \subseteq DirPaths
             /\ subdirs \subseteq DirNames /\ found \subseteq Paths
             /\ listed \in [Files -> Paths \union {Absent}]

(* Update leaves no event in its buffer.                                   *)
BufferRead == pc # "reading" => buffer = <<>>

(* The strengthening.                                                      *)
IInv == BufferRead /\ SequencesTyped /\ FilesTyped /\ WatchesTyped /\ MainTyped /\ WatchesFollow

-----------------------------------------------------------------------------
(* What is on its way to Update.                                           *)

SelfIn(s, w)       == \E i \in 1..Len(s) : s[i].wd = w /\ s[i].what = "self"
Announced(s, k, w) == \E i \in 1..Len(s) : s[i].what = "self" /\ k[s[i].on] = w

(* The events that were not looked at are those in the buffer and those in *)
(* the queue.                                                              *)
LEMMA ComingIsIn ==
  ASSUME NEW s \in Seq(EventType), NEW t \in Seq(EventType), NEW w
  PROVE  SelfIn(s \o t, w) <=> SelfIn(s, w) \/ SelfIn(t, w)
<1>1. /\ Len(s \o t) = Len(s) + Len(t) /\ Len(s) \in Nat /\ Len(t) \in Nat
      /\ \A i \in 1..Len(s) + Len(t) :
            (s \o t)[i] = IF i <= Len(s) THEN s[i] ELSE t[i - Len(s)]
  BY ConcatProperties, LenProperties
<1>2. ASSUME SelfIn(s \o t, w) PROVE SelfIn(s, w) \/ SelfIn(t, w)
  BY <1>1, <1>2 DEF SelfIn
<1>3. ASSUME NEW i \in 1..Len(s) PROVE (s \o t)[i] = s[i] /\ i \in 1..Len(s \o t)
  BY <1>1
<1>4. ASSUME NEW i \in 1..Len(t)
      PROVE  (s \o t)[Len(s) + i] = t[i] /\ Len(s) + i \in 1..Len(s \o t)
  BY <1>1
<1>. QED
  BY <1>2, <1>3, <1>4 DEF SelfIn

LEMMA AnnouncedConcat ==
  ASSUME NEW s \in Seq(NoteType), NEW t \in Seq(NoteType), NEW k, NEW w
  PROVE  Announced(s \o t, k, w) <=> Announced(s, k, w) \/ Announced(t, k, w)
<1>1. /\ Len(s \o t) = Len(s) + Len(t) /\ Len(s) \in Nat /\ Len(t) \in Nat
      /\ \A i \in 1..Len(s) + Len(t) :
            (s \o t)[i] = IF i <= Len(s) THEN s[i] ELSE t[i - Len(s)]
  BY ConcatProperties, LenProperties
<1>2. ASSUME Announced(s \o t, k, w) PROVE Announced(s, k, w) \/ Announced(t, k, w)
  BY <1>1, <1>2 DEF Announced
<1>3. ASSUME NEW i \in 1..Len(s) PROVE (s \o t)[i] = s[i] /\ i \in 1..Len(s \o t)
  BY <1>1
<1>4. ASSUME NEW i \in 1..Len(t)
      PROVE  (s \o t)[Len(s) + i] = t[i] /\ Len(s) + i \in 1..Len(s \o t)
  BY <1>1
<1>. QED
  BY <1>2, <1>3, <1>4 DEF Announced

(* One more or one less.                                                   *)
LEMMA AppendSelf ==
  ASSUME NEW s \in Seq(EventType), NEW e \in EventType, NEW w
  PROVE  /\ Append(s, e) \in Seq(EventType)
         /\ SelfIn(Append(s, e), w) <=> SelfIn(s, w) \/ (e.wd = w /\ e.what = "self")
<1>1. /\ Append(s, e) \in Seq(EventType)
      /\ Len(Append(s, e)) = Len(s) + 1 /\ Len(s) \in Nat
      /\ \A i \in 1..Len(s) : Append(s, e)[i] = s[i]
      /\ Append(s, e)[Len(s) + 1] = e
  BY AppendProperties, LenProperties
<1>. QED
  BY <1>1 DEF SelfIn

LEMMA HeadSelf ==
  ASSUME NEW s \in Seq(EventType), s # <<>>, NEW w
  PROVE  /\ Head(s) \in EventType /\ Tail(s) \in Seq(EventType)
         /\ SelfIn(s, w) <=> \/ SelfIn(Tail(s), w)
                             \/ Head(s).wd = w /\ Head(s).what = "self"
<1>1. /\ Head(s) \in EventType /\ Tail(s) \in Seq(EventType)
      /\ Len(s) \in Nat /\ Len(Tail(s)) = Len(s) - 1 /\ Head(s) = s[1]
      /\ \A i \in 1..Len(Tail(s)) : Tail(s)[i] = s[i + 1]
  BY HeadTailProperties, LenProperties
<1>2. ASSUME NEW i \in 1..Len(s)
      PROVE  i = 1 \/ (i - 1 \in 1..Len(Tail(s)) /\ Tail(s)[i - 1] = s[i])
  BY <1>1
<1>3. ASSUME NEW i \in 1..Len(Tail(s)) PROVE i + 1 \in 1..Len(s) /\ Tail(s)[i] = s[i + 1]
  BY <1>1
<1>4. 1 \in 1..Len(s)
  BY <1>1, EmptySeq
<1>. QED
  BY <1>1, <1>2, <1>3, <1>4 DEF SelfIn

LEMMA HeadAnnounced ==
  ASSUME NEW s \in Seq(NoteType), s # <<>>, NEW k, NEW w
  PROVE  /\ Head(s) \in NoteType /\ Tail(s) \in Seq(NoteType)
         /\ Announced(s, k, w) <=> \/ Announced(Tail(s), k, w)
                                   \/ Head(s).what = "self" /\ k[Head(s).on] = w
<1>1. /\ Head(s) \in NoteType /\ Tail(s) \in Seq(NoteType)
      /\ Len(s) \in Nat /\ Len(Tail(s)) = Len(s) - 1 /\ Head(s) = s[1]
      /\ \A i \in 1..Len(Tail(s)) : Tail(s)[i] = s[i + 1]
  BY HeadTailProperties, LenProperties
<1>2. ASSUME NEW i \in 1..Len(s)
      PROVE  i = 1 \/ (i - 1 \in 1..Len(Tail(s)) /\ Tail(s)[i - 1] = s[i])
  BY <1>1
<1>3. ASSUME NEW i \in 1..Len(Tail(s)) PROVE i + 1 \in 1..Len(s) /\ Tail(s)[i] = s[i + 1]
  BY <1>1
<1>4. 1 \in 1..Len(s)
  BY <1>1, EmptySeq
<1>. QED
  BY <1>1, <1>2, <1>3, <1>4 DEF Announced

LEMMA OneAnnounced ==
  ASSUME NEW n \in NoteType, NEW k, NEW w
  PROVE  /\ <<n>> \in Seq(NoteType)
         /\ Announced(<<n>>, k, w) <=> n.what = "self" /\ k[n.on] = w
BY DEF Announced

LEMMA NothingComing ==
  ASSUME NEW w, NEW k
  PROVE  ~SelfIn(<<>>, w) /\ ~Announced(<<>>, k, w)
BY DEF SelfIn, Announced

(* A watch follows its directory, or it is about to be dropped.            *)
Follows(w) == \/ SelfIn(buffer, w) \/ SelfIn(queue, w)
              \/ Announced(pending, kernel, w)
              \/ \E d \in Found(watches[w]) : kernel[d] = w

LEMMA FollowsAll ==
  ASSUME SequencesTyped
  PROVE  WatchesFollow <=> \A w \in DOMAIN watches : Follows(w)
<1>1. \A w : SelfComing(w) <=> SelfIn(buffer, w) \/ SelfIn(queue, w)
  BY ComingIsIn DEF SequencesTyped, SelfComing, Events, SelfIn
<1>. QED
  BY <1>1 DEF WatchesFollow, Follows, Leaving, Announced

LEMMA FollowsAllNext ==
  ASSUME SequencesTyped'
  PROVE  WatchesFollow' <=> \A w \in DOMAIN watches' : Follows(w)'
<1>1. \A w : SelfComing(w)' <=> SelfIn(buffer', w) \/ SelfIn(queue', w)
  BY ComingIsIn DEF SequencesTyped, SelfComing, Events, SelfIn
<1>. QED
  BY <1>1 DEF WatchesFollow, Follows, Leaving, Announced

LEMMA InitImpliesIInv == Init => IInv
<1>. SUFFICES ASSUME Init PROVE IInv
  OBVIOUS
<1>1. SequencesTyped
  BY DEF Init, SequencesTyped
<1>2. FilesTyped /\ MainTyped
  BY DirectoryAssumption DEF Init, FilesTyped, MainTyped, Updating
<1>3. DOMAIN watches = {}
  BY DEF Init
<1>4. WatchesTyped
  BY <1>3, FS_EmptySet DEF Init, WatchesTyped
<1>5. WatchesFollow
  BY <1>3 DEF WatchesFollow
<1>6. BufferRead
  BY DEF Init, BufferRead
<1>. QED
  BY <1>1, <1>2, <1>4, <1>5, <1>6 DEF IInv

-----------------------------------------------------------------------------
(* The file system.                                                        *)

(* A change of a file is no change of a directory.                         *)
LEMMA FilesStep ==
  ASSUME IInv, NEW notes \in Seq(NoteType), NEW files \in SUBSET Files,
         Change(notes, files), UNCHANGED where, holds' \in [Inodes -> SUBSET Files]
  PROVE  IInv'
<1>1. SequencesTyped'
  BY DEF IInv, SequencesTyped, Change, mainVars
<1>2. FilesTyped'
  BY DirectoryAssumption DEF IInv, FilesTyped, Change
<1>3. WatchesTyped' /\ MainTyped'
  BY DEF IInv, WatchesTyped, MainTyped, Change, mainVars, scanVars
<1>4. \A w \in DOMAIN watches : Follows(w)
  BY FollowsAll DEF IInv
<1>5. \A w \in DOMAIN watches : Follows(w)'
  BY <1>4, NothingComing DEF Follows, Change, mainVars, Found, At
<1>6. WatchesFollow'
  BY <1>1, <1>5, FollowsAllNext DEF Change
<1>. QED
  BY <1>1, <1>2, <1>3, <1>6 DEF IInv, BufferRead, Change, mainVars

(* Only a directory that is somewhere else has its watch invalidated, and  *)
(* for that its own notification is enough.                                *)
LEMMA DirectoriesStep ==
  ASSUME IInv, NEW notes \in Seq(NoteType), NEW files \in SUBSET Files,
         NEW d \in Dirs, NEW n \in DirNames \union {"out", "gone"},
         Change(notes, files), where' = [where EXCEPT ![d] = n], UNCHANGED holds,
         where[d] = "gone" \/ \A w : kernel[d] = w => Announced(notes, kernel, w)
  PROVE  IInv'
<1>1. SequencesTyped'
  BY DEF IInv, SequencesTyped, Change, mainVars
<1>2. FilesTyped'
  BY DirectoryAssumption DEF IInv, FilesTyped, Change
<1>3. WatchesTyped' /\ MainTyped'
  BY DEF IInv, WatchesTyped, MainTyped, Change, mainVars, scanVars
<1>4. \A w \in DOMAIN watches : Follows(w)
  BY FollowsAll DEF IInv
<1>5. ASSUME NEW w \in DOMAIN watches PROVE Follows(w)'
  <2>1. CASE SelfIn(buffer, w) \/ SelfIn(queue, w)
    BY <2>1 DEF Follows, Change, mainVars
  <2>2. CASE \E e \in Found(watches[w]) : kernel[e] = w
    <3>1. PICK e \in Found(watches[w]) : kernel[e] = w
      BY <2>2
    <3>2. CASE e # d
      BY <3>1, <3>2 DEF Found, At, Follows, Change, mainVars, IInv, FilesTyped, Inodes
    <3>3. CASE e = d /\ where[d] = "gone"
      <4>1. watches[w] \in DirPaths /\ watches[w] = "gone"
        BY <3>1, <3>3, DirectoryAssumption DEF IInv, WatchesTyped, Found, At, Root
      <4>. QED
        BY <4>1, DirectoryAssumption DEF DirPaths, Root
    <3>4. CASE e = d /\ where[d] # "gone"
      BY <3>1, <3>4 DEF Follows, Change, mainVars
    <3>. QED
      BY <3>2, <3>3, <3>4
  <2>. QED
    BY <1>4, <2>1, <2>2, NothingComing DEF Follows, Change
<1>6. WatchesFollow'
  BY <1>1, <1>5, FollowsAllNext DEF Change, mainVars
<1>. QED
  BY <1>1, <1>2, <1>3, <1>6 DEF IInv, BufferRead, Change, mainVars

LEMMA CreateFileStep ==
  ASSUME IInv, NEW d \in Inodes, NEW f \in Files, CreateFile(d, f)
  PROVE  IInv'
<1>1. PICK files \in SUBSET Files : Change(<<Note(d, "create", f)>>, files)
  BY DEF CreateFile
<1>2. <<Note(d, "create", f)>> \in Seq(NoteType)
  BY OneAnnounced DEF Note, NoteType, Kinds, Whats, Names
<1>3. holds' \in [Inodes -> SUBSET Files]
  BY DEF IInv, FilesTyped, CreateFile
<1>. QED
  BY <1>1, <1>2, <1>3, FilesStep DEF CreateFile

LEMMA DeleteFileStep ==
  ASSUME IInv, NEW d \in Inodes, NEW f \in Files, DeleteFile(d, f)
  PROVE  IInv'
<1>1. PICK files \in SUBSET Files : Change(<<Note(d, "delete", f)>>, files)
  BY DEF DeleteFile
<1>2. <<Note(d, "delete", f)>> \in Seq(NoteType)
  BY OneAnnounced DEF Note, NoteType, Kinds, Whats, Names
<1>3. holds' \in [Inodes -> SUBSET Files]
  BY DEF IInv, FilesTyped, DeleteFile
<1>. QED
  BY <1>1, <1>2, <1>3, FilesStep DEF DeleteFile

LEMMA MoveFileStep ==
  ASSUME IInv, NEW d \in Inodes, NEW e \in Inodes, NEW f \in Files, NEW g \in Files,
         MoveFile(d, f, e, g)
  PROVE  IInv'
<1>. DEFINE notes == <<Note(d, "delete", f), Note(e, "create", g)>>
<1>1. PICK files \in SUBSET Files : Change(notes, files)
  BY DEF MoveFile
<1>2. Note(d, "delete", f) \in NoteType /\ Note(e, "create", g) \in NoteType
  BY DEF Note, NoteType, Kinds, Whats, Names
<1>3. notes \in Seq(NoteType)
  BY <1>2
<1>4. holds' \in [Inodes -> SUBSET Files]
  BY DEF IInv, FilesTyped, MoveFile
<1>. HIDE DEF notes
<1>. QED
  BY <1>1, <1>3, <1>4, FilesStep DEF MoveFile

LEMMA MakeDirStep ==
  ASSUME IInv, NEW d \in Dirs, NEW n \in DirNames, MakeDir(d, n)
  PROVE  IInv'
<1>1. <<Note(Root, "mkdir", n)>> \in Seq(NoteType)
  BY OneAnnounced DEF Note, NoteType, Kinds, Whats, Names, Inodes
<1>. QED
  BY <1>1, DirectoriesStep DEF MakeDir

LEMMA RemoveDirStep ==
  ASSUME IInv, NEW d \in Dirs, RemoveDir(d)
  PROVE  IInv'
<1>. DEFINE notes == <<Note(d, "self", "gone"), Note(Root, "rmdir", where[d])>>
<1>1. Note(d, "self", "gone") \in NoteType /\ Note(Root, "rmdir", where[d]) \in NoteType
  BY DEF RemoveDir, Note, NoteType, Kinds, Whats, Names, Inodes
<1>2. notes \in Seq(NoteType)
  BY <1>1
<1>3. \A w : kernel[d] = w => Announced(notes, kernel, w)
  <2>1. 1 \in 1..Len(notes) /\ notes[1] = Note(d, "self", "gone")
    OBVIOUS
  <2>. QED
    BY <2>1 DEF Announced, Note
<1>. HIDE DEF notes
<1>4. Change(notes, {})
  BY DEF RemoveDir, notes
<1>. QED
  BY <1>2, <1>3, <1>4, DirectoriesStep DEF RemoveDir

LEMMA MoveDirStep ==
  ASSUME IInv, NEW d \in Dirs, NEW n \in DirNames \union {"out"}, MoveDir(d, n)
  PROVE  IInv'
<1>. DEFINE left == IF InTree(d) THEN <<Note(Root, "rmdir", where[d])>> ELSE <<>>
            come == IF n = "out" THEN <<>> ELSE <<Note(Root, "mkdir", n)>>
            self == <<Note(d, "self", n)>>
            notes == left \o come \o self
<1>1. left \in Seq(NoteType)
  <2>1. CASE InTree(d)
    <3>1. where[d] \in DirNames
      BY <2>1, DirectoryAssumption DEF InTree, At, DirPaths, Root, IInv, FilesTyped
    <3>. QED
      BY <2>1, <3>1, OneAnnounced DEF Note, NoteType, Kinds, Whats, Names, Inodes
  <2>. QED
    BY <2>1
<1>2. come \in Seq(NoteType)
  <2>1. CASE n # "out"
    <3>1. Note(Root, "mkdir", n) \in NoteType
      BY <2>1 DEF Note, NoteType, Kinds, Whats, Names, Inodes
    <3>. QED
      BY <2>1, <3>1, OneAnnounced
  <2>. QED
    BY <2>1
<1>3. Note(d, "self", n) \in NoteType
  BY DEF Note, NoteType, Kinds, Whats, Names, Inodes
<1>4. self \in Seq(NoteType) /\ \A w : kernel[d] = w => Announced(self, kernel, w)
  BY <1>3, OneAnnounced DEF Note
<1>5. Change(notes, holds[d])
  BY DEF MoveDir
<1>. HIDE DEF left, come, self
<1>6. left \o come \in Seq(NoteType) /\ notes \in Seq(NoteType)
  BY <1>1, <1>2, <1>4, ConcatProperties
<1>7. \A w : kernel[d] = w => Announced(notes, kernel, w)
  BY <1>4, <1>6, AnnouncedConcat
<1>8. holds[d] \in SUBSET Files
  BY DEF IInv, FilesTyped, Inodes
<1>. HIDE DEF notes
<1>. QED
  BY <1>5, <1>6, <1>7, <1>8, DirectoriesStep DEF MoveDir

LEMMA FileSystemStep == IInv /\ FileSystem => IInv'
BY CreateFileStep, DeleteFileStep, MoveFileStep, MakeDirStep, RemoveDirStep, MoveDirStep
   DEF FileSystem

(* A notification becomes an event of the watch on its inode.              *)
LEMMA NotifyStep == IInv /\ Notify => IInv'
<1>. SUFFICES ASSUME IInv, Notify PROVE IInv'
  OBVIOUS
<1>. DEFINE n == Head(pending)
            e == [wd |-> kernel[n.on], what |-> n.what, name |-> n.name]
<1>1. /\ n \in NoteType /\ Tail(pending) \in Seq(NoteType)
      /\ \A w : Announced(pending, kernel, w) <=>
                   Announced(Tail(pending), kernel, w) \/ (n.what = "self" /\ kernel[n.on] = w)
  BY HeadAnnounced DEF IInv, SequencesTyped, Notify
<1>2. /\ pending' = Tail(pending)
      /\ queue' = IF kernel[n.on] = 0 THEN queue ELSE Append(queue, e)
      /\ kernel' = IF n.what = "self" /\ n.name = "gone"
                   THEN [kernel EXCEPT ![n.on] = 0] ELSE kernel
      /\ UNCHANGED <<where, holds, ops, missed, watches, mainVars>>
  BY DEF Notify
<1>3. kernel[n.on] # 0 => e \in EventType
  BY <1>1 DEF NoteType, EventType, IInv, WatchesTyped
<1>. HIDE DEF e
<1>4. queue \in Seq(EventType)
  BY DEF IInv, SequencesTyped
<1>5. /\ queue' \in Seq(EventType)
      /\ \A w : SelfIn(queue, w) => SelfIn(queue', w)
      /\ \A w : kernel[n.on] # 0 /\ e.wd = w /\ e.what = "self" => SelfIn(queue', w)
  BY <1>2, <1>3, <1>4, AppendSelf
<1>6. SequencesTyped'
  BY <1>1, <1>2, <1>5 DEF IInv, SequencesTyped, mainVars
<1>7. FilesTyped' /\ MainTyped'
  BY <1>2 DEF IInv, FilesTyped, MainTyped, mainVars, scanVars
<1>8. WatchesTyped'
  BY <1>2 DEF IInv, WatchesTyped
<1>9. \A w \in DOMAIN watches : Follows(w)
  BY FollowsAll DEF IInv
<1>10. ASSUME NEW w \in DOMAIN watches PROVE Follows(w)'
  <2>1. w # 0
    BY DEF IInv, WatchesTyped
  <2>2. n.what = "self" /\ kernel[n.on] = w => SelfIn(queue', w)
    BY <1>5, <2>1 DEF e
  <2>3. CASE SelfIn(buffer, w) \/ SelfIn(queue, w)
    BY <1>2, <1>5, <2>3 DEF Follows, mainVars
  <2>4. CASE n.what = "self" /\ kernel[n.on] = w
    BY <2>2, <2>4 DEF Follows
  <2>5. CASE ~(n.what = "self" /\ kernel[n.on] = w)
    <3>1. \A i \in Inodes : kernel[i] = w => kernel'[i] = w
      BY <1>2, <2>5 DEF IInv, WatchesTyped
    <3>2. Announced(pending, kernel, w) => Announced(pending', kernel', w)
      <4>1. \A i \in 1..Len(Tail(pending)) : Tail(pending)[i].on \in Inodes
        BY <1>1, ElementOfSeq DEF NoteType
      <4>. QED
        BY <1>1, <1>2, <2>5, <3>1, <4>1 DEF Announced
    <3>3. \A dir : Found(dir)' = Found(dir)
      BY <1>2 DEF Found, At
    <3>. QED
      BY <1>2, <1>9, <2>3, <3>1, <3>2, <3>3 DEF Follows, Found
  <2>. QED
    BY <2>4, <2>5
<1>11. WatchesFollow'
  BY <1>2, <1>6, <1>10, FollowsAllNext
<1>. QED
  BY <1>2, <1>6, <1>7, <1>8, <1>11 DEF IInv, BufferRead, mainVars

-----------------------------------------------------------------------------
(* The monitor.                                                            *)

(* The descriptors inotify knows of are finitely many.                     *)
Used == {kernel[e] : e \in Inodes} \union DOMAIN watches
          \union {queue[i].wd : i \in 1..Len(queue)}

LEMMA UsedFinite == IInv => IsFiniteSet(Used) /\ Used \in SUBSET Nat
<1>. SUFFICES ASSUME IInv PROVE IsFiniteSet(Used) /\ Used \in SUBSET Nat
  OBVIOUS
<1>1. IsFiniteSet(Inodes)
  BY DirectoryAssumption, FS_AddElement DEF Inodes
<1>2. IsFiniteSet({kernel[e] : e \in Inodes})
  BY <1>1, FiniteImage
<1>3. Len(queue) \in Nat /\ \A i \in 1..Len(queue) : queue[i].wd \in Nat
  BY LenProperties, ElementOfSeq DEF IInv, SequencesTyped, EventType
<1>4. IsFiniteSet({queue[i].wd : i \in 1..Len(queue)})
  <2>. DEFINE wd == [i \in 1..Len(queue) |-> queue[i].wd]
  <2>1. IsFiniteSet(1..Len(queue))
    BY <1>3, FS_Interval
  <2>2. {wd[i] : i \in 1..Len(queue)} = {queue[i].wd : i \in 1..Len(queue)}
    OBVIOUS
  <2>. HIDE DEF wd
  <2>. QED
    BY <2>1, <2>2, FiniteImage
<1>5. IsFiniteSet(Used)
  BY <1>2, <1>4, FS_Union DEF IInv, WatchesTyped, Used
<1>. QED
  BY <1>3, <1>5 DEF IInv, WatchesTyped, Used

(* inotify_add_watch returns a descriptor, which is a positive number; a   *)
(* new one is no other's.                                                  *)
LEMMA DescriptorTyped ==
  ASSUME IInv, NEW d \in Inodes
  PROVE  /\ Descriptor(d) \in Nat \ {0}
         /\ kernel[d] = 0 => Descriptor(d) \notin Used
<1>1. kernel[d] \in Used /\ kernel[d] \in Nat
  BY DEF IInv, WatchesTyped, Used
<1>2. Max(Used) \in Nat /\ \A w \in Used : w \in Nat /\ w <= Max(Used)
  BY <1>1, UsedFinite, GreatestNatural
<1>3. kernel[d] = 0 => Descriptor(d) = 1 + Max(Used)
  BY DEF Descriptor, Used
<1>4. kernel[d] # 0 => Descriptor(d) = kernel[d]
  BY DEF Descriptor
<1>. QED
  BY <1>1, <1>2, <1>3, <1>4

(* A new watch follows the directory it was made for; the old ones keep    *)
(* their descriptors and their paths.                                      *)
LEMMA AddDirectoryStep ==
  ASSUME IInv, NEW dir \in DirPaths, AddDirectory(dir),
         UNCHANGED <<fsVars, queue, buffer>>
  PROVE  WatchesTyped' /\ \A w \in DOMAIN watches' : Follows(w)'
<1>1. \A w \in DOMAIN watches : Follows(w)
  BY FollowsAll DEF IInv
<1>2. CASE Found(dir) = {} /\ UNCHANGED <<kernel, watches>>
  BY <1>1, <1>2 DEF IInv, WatchesTyped, Follows, fsVars, Found, At
<1>3. ASSUME NEW d \in Found(dir),
             kernel' = [kernel EXCEPT ![d] = Descriptor(d)],
             watches' = Insert(watches, Descriptor(d), dir)
      PROVE  WatchesTyped' /\ \A w \in DOMAIN watches' : Follows(w)'
  <2>. DEFINE n == Descriptor(d)
  <2>1. d \in Inodes /\ n \in Nat \ {0} /\ (kernel[d] # 0 => n = kernel[d])
    BY DescriptorTyped DEF Found, Descriptor
  <2>. HIDE DEF n
  <2>2. kernel' = [kernel EXCEPT ![d] = n]
    BY <1>3 DEF n
  <2>3. /\ DOMAIN watches' = DOMAIN watches \union {n}
        /\ \A w \in DOMAIN watches : watches'[w] = watches[w]
        /\ n \notin DOMAIN watches => watches'[n] = dir
        /\ watches' = [w \in DOMAIN watches' |-> watches'[w]]
    BY <1>3 DEF n, Insert
  <2>4. IsFiniteSet(DOMAIN watches')
    BY <2>3, FS_AddElement DEF IInv, WatchesTyped
  <2>5. WatchesTyped'
    BY <2>1, <2>2, <2>3, <2>4 DEF IInv, WatchesTyped
  <2>6. \A i \in Inodes, w \in DOMAIN watches : kernel[i] = w => kernel'[i] = w
    BY <2>1, <2>2 DEF IInv, WatchesTyped
  <2>7. \A path : Found(path)' = Found(path)
    BY DEF Found, At, fsVars
  <2>8. ASSUME NEW w \in DOMAIN watches PROVE Follows(w)'
    <3>1. Announced(pending, kernel, w) => Announced(pending', kernel', w)
      <4>1. \A i \in 1..Len(pending) : pending[i].on \in Inodes
        BY ElementOfSeq DEF IInv, SequencesTyped, NoteType
      <4>. QED
        BY <2>6, <4>1 DEF Announced, fsVars
    <3>. QED
      BY <1>1, <2>3, <2>6, <2>7, <3>1 DEF Follows, Found
  <2>9. ASSUME NEW w \in DOMAIN watches' \ DOMAIN watches PROVE Follows(w)'
    <3>1. w = n /\ watches'[w] = dir
      BY <2>3
    <3>2. d \in Found(watches[w])' /\ kernel'[d] = w
      BY <1>3, <2>1, <2>2, <3>1 DEF IInv, WatchesTyped, Found, At, fsVars
    <3>. QED
      BY <3>2 DEF Follows
  <2>. QED
    BY <2>5, <2>8, <2>9
<1>. QED
  BY <1>2, <1>3 DEF AddDirectory

(* Update begins: what was in the queue is in the buffer.                  *)
LEMMA UpdateStep == IInv /\ Update => IInv'
<1>. SUFFICES ASSUME IInv, Update PROVE IInv'
  OBVIOUS
<1>1. SequencesTyped'
  BY DEF IInv, SequencesTyped, Update, fsVars
<1>2. FilesTyped' /\ WatchesTyped' /\ MainTyped'
  BY DEF IInv, FilesTyped, WatchesTyped, MainTyped, Update, fsVars, scanVars, Updating
<1>3. \A w \in DOMAIN watches : Follows(w)
  BY FollowsAll DEF IInv
<1>4. buffer = <<>> /\ buffer' = queue
  BY DEF IInv, BufferRead, Update
<1>5. \A w \in DOMAIN watches : Follows(w)'
  BY <1>3, <1>4, NothingComing DEF Follows, Update, fsVars, Found, At
<1>6. WatchesFollow'
  BY <1>1, <1>5, FollowsAllNext DEF Update
<1>. QED
  BY <1>1, <1>2, <1>6 DEF IInv, BufferRead, Update

(* An event leaves the buffer; one of a directory itself takes its watch   *)
(* along, which nothing has to follow any more.                            *)
LEMMA ReadEventStep == IInv /\ ReadEvent => IInv'
<1>. SUFFICES ASSUME IInv, ReadEvent PROVE IInv'
  OBVIOUS
<1>. DEFINE e == Head(buffer)
<1>1. /\ e \in EventType /\ Tail(buffer) \in Seq(EventType)
      /\ \A w : SelfIn(buffer, w) <=>
                   SelfIn(Tail(buffer), w) \/ (e.wd = w /\ e.what = "self")
  BY HeadSelf DEF IInv, SequencesTyped, ReadEvent
<1>2. /\ buffer' = Tail(buffer)
      /\ \/ e.wd \in DOMAIN watches /\ (Invalidate(e) \/ Report(e))
         \/ e.wd \notin DOMAIN watches /\ UNCHANGED <<watches, changes>>
      /\ UNCHANGED <<fsVars, kernel, queue, toWatch, pc, scanVars, listed>>
  BY DEF ReadEvent
<1>3. changes' \in Seq(ReturnType)
  <2>1. CASE e.wd \in DOMAIN watches /\ Report(e)
    <3>1. watches[e.wd] \in DirPaths
      BY <2>1 DEF IInv, WatchesTyped
    <3>2. Event(Type[e.what], <<watches[e.wd], e.name>>) \in ReturnType
      BY <1>1, <2>1, <3>1 DEF Event, Type, ReturnType, ChangeType, Paths, EventType, Kinds,
                              Report, Whats
    <3>. QED
      BY <2>1, <3>2, AppendProperties DEF Report, IInv, SequencesTyped
  <2>. QED
    BY <1>2, <2>1 DEF Invalidate, IInv, SequencesTyped
<1>. HIDE DEF e
<1>4. SequencesTyped'
  BY <1>1, <1>2, <1>3 DEF IInv, SequencesTyped, fsVars
<1>5. FilesTyped' /\ MainTyped'
  BY <1>2 DEF IInv, FilesTyped, MainTyped, fsVars, scanVars
<1>6. /\ DOMAIN watches' = DOMAIN watches \ (IF e.what = "self" THEN {e.wd} ELSE {})
      /\ \A w \in DOMAIN watches' : watches'[w] = watches[w]
      /\ watches' = [w \in DOMAIN watches' |-> watches'[w]]
  BY <1>2 DEF Invalidate, Report, RemoveDirectory, IInv, WatchesTyped
<1>7. IsFiniteSet(DOMAIN watches')
  BY <1>6, FS_Subset DEF IInv, WatchesTyped
<1>8. WatchesTyped'
  BY <1>2, <1>6, <1>7 DEF IInv, WatchesTyped
<1>9. \A w \in DOMAIN watches : Follows(w)
  BY FollowsAll DEF IInv
<1>10. \A w \in DOMAIN watches' : SelfIn(buffer, w) => SelfIn(buffer', w)
  BY <1>1, <1>2, <1>6
<1>11. \A dir : Found(dir)' = Found(dir)
  BY <1>2 DEF Found, At, fsVars
<1>12. \A w \in DOMAIN watches' : Follows(w)'
  BY <1>2, <1>6, <1>9, <1>10, <1>11 DEF Follows, fsVars
<1>13. WatchesFollow'
  BY <1>4, <1>12, FollowsAllNext
<1>. QED
  BY <1>2, <1>4, <1>5, <1>8, <1>13 DEF IInv, BufferRead, ReadEvent

(* What main does without the monitor's watches and the file system.       *)
LEMMA QuietStep ==
  ASSUME IInv, UNCHANGED <<fsVars, kernel, queue, watches, buffer>>,
         changes' \in Seq(ReturnType), toWatch' \in Seq(ReturnType),
         MainTyped', BufferRead'
  PROVE  IInv'
<1>1. SequencesTyped'
  BY DEF IInv, SequencesTyped, fsVars
<1>2. FilesTyped' /\ WatchesTyped'
  BY DEF IInv, FilesTyped, WatchesTyped, fsVars
<1>3. \A w \in DOMAIN watches : Follows(w)
  BY FollowsAll DEF IInv
<1>4. \A w \in DOMAIN watches : Follows(w)'
  BY <1>3 DEF Follows, fsVars, Found, At
<1>5. WatchesFollow'
  BY <1>1, <1>4, FollowsAllNext
<1>. QED
  BY <1>1, <1>2, <1>5 DEF IInv

(* What main does with AddDirectory.                                       *)
LEMMA WatchingStep ==
  ASSUME IInv, NEW dir \in DirPaths, AddDirectory(dir),
         UNCHANGED <<fsVars, queue, buffer, changes>>,
         toWatch' \in Seq(ReturnType), MainTyped', BufferRead'
  PROVE  IInv'
<1>1. SequencesTyped'
  BY DEF IInv, SequencesTyped, fsVars
<1>2. FilesTyped'
  BY DEF IInv, FilesTyped, fsVars
<1>3. WatchesTyped' /\ WatchesFollow'
  BY <1>1, AddDirectoryStep, FollowsAllNext
<1>. QED
  BY <1>1, <1>2, <1>3 DEF IInv

(* Erasing one event leaves the others.                                    *)
LEMMA RemoveAtTyped ==
  ASSUME NEW S, NEW s \in Seq(S), NEW i \in 1..Len(s)
  PROVE  RemoveAt(s, i) \in Seq(S) /\ Len(RemoveAt(s, i)) = Len(s) - 1
<1>1. Len(s) \in Nat /\ \A k \in 1..Len(s) : s[k] \in S
  BY LenProperties, ElementOfSeq
<1>2. /\ SubSeq(s, 1, i - 1) \in Seq(S) /\ Len(SubSeq(s, 1, i - 1)) = i - 1
      /\ SubSeq(s, i + 1, Len(s)) \in Seq(S)
      /\ Len(SubSeq(s, i + 1, Len(s))) = Len(s) - i
  BY <1>1, SubSeqProperties
<1>. QED
  <2>. DEFINE s1 == SubSeq(s, 1, i - 1)
              s2 == SubSeq(s, i + 1, Len(s))
  <2>1. s1 \in Seq(S) /\ s2 \in Seq(S) /\ Len(s1) = i - 1 /\ Len(s2) = Len(s) - i
    BY <1>2
  <2>2. RemoveAt(s, i) = s1 \o s2
    BY DEF RemoveAt
  <2>. HIDE DEF s1, s2
  <2>3. s1 \o s2 \in Seq(S) /\ Len(s1 \o s2) = Len(s1) + Len(s2)
    BY <2>1, ConcatProperties
  <2>. QED
    BY <1>1, <2>1, <2>2, <2>3

LEMMA FilterEventsStep == IInv /\ FilterEvents => IInv'
<1>. SUFFICES ASSUME IInv, FilterEvents PROVE IInv'
  OBVIOUS
<1>1. changes \in Seq(ReturnType) /\ toWatch \in Seq(ReturnType) /\ Len(changes) \in Nat
  BY LenProperties DEF IInv, SequencesTyped
<1>2. changes' \in Seq(ReturnType)
  <2>1. CASE Paired # {}
    <3>. DEFINE i == Min(Paired)
                j == Min(After(i))
    <3>1. Paired \in SUBSET Nat
      BY DEF Paired
    <3>2. i \in Paired
      BY <2>1, <3>1, LeastNatural
    <3>3. i \in 1..Len(changes) /\ After(i) # {}
      BY <3>2 DEF Paired
    <3>. HIDE DEF i
    <3>4. After(i) \in SUBSET Nat
      BY <1>1, <3>3 DEF After
    <3>5. j \in After(i)
      BY <3>3, <3>4, LeastNatural
    <3>6. j \in 1..Len(changes) /\ i < j
      BY <1>1, <3>3, <3>5 DEF After
    <3>. HIDE DEF j
    <3>7. /\ RemoveAt(changes, j) \in Seq(ReturnType)
          /\ i \in 1..Len(RemoveAt(changes, j))
      BY <1>1, <3>3, <3>6, RemoveAtTyped
    <3>8. changes' = RemoveAt(RemoveAt(changes, j), i)
      BY <2>1 DEF FilterEvents, i, j
    <3>. QED
      BY <3>7, <3>8, RemoveAtTyped
  <2>. QED
    BY <1>1, <2>1 DEF FilterEvents
<1>3. toWatch' \in Seq(ReturnType) /\ BufferRead'
  BY <1>1 DEF FilterEvents, BufferRead
<1>4. MainTyped'
  BY DEF IInv, MainTyped, FilterEvents, scanVars, Updating
<1>. QED
  BY <1>2, <1>3, <1>4, QuietStep DEF FilterEvents

LEMMA WatchNewStep == IInv /\ WatchNew => IInv'
<1>. SUFFICES ASSUME IInv, WatchNew PROVE IInv'
  OBVIOUS
<1>1. Head(toWatch) \in ReturnType /\ toWatch' \in Seq(ReturnType)
  BY HeadTailProperties DEF IInv, SequencesTyped, WatchNew
<1>2. changes' \in Seq(ReturnType)
  BY DEF IInv, SequencesTyped, WatchNew
<1>3. MainTyped' /\ BufferRead'
  BY DEF IInv, MainTyped, BufferRead, WatchNew, scanVars
<1>4. CASE Head(toWatch).type = "dir_create" /\ AddDirectory(Head(toWatch).path[2])
  <2>1. Head(toWatch).path[2] \in DirPaths
    BY <1>1, <1>4 DEF ReturnType, DirPaths
  <2>. QED
    BY <1>1, <1>3, <1>4, <2>1, WatchingStep DEF WatchNew
<1>5. CASE UNCHANGED <<kernel, watches>>
  BY <1>1, <1>2, <1>3, <1>5, QuietStep DEF WatchNew
<1>. QED
  BY <1>4, <1>5 DEF WatchNew

LEMMA UpdateReturnsStep == IInv /\ UpdateReturns => IInv'
<1>. SUFFICES ASSUME IInv, UpdateReturns PROVE IInv'
  OBVIOUS
<1>1. MainTyped' /\ BufferRead'
  BY DEF IInv, MainTyped, BufferRead, UpdateReturns, scanVars
<1>. QED
  BY <1>1, QuietStep DEF UpdateReturns, IInv, SequencesTyped

-----------------------------------------------------------------------------
(* The content directory and the main loop.                                *)

LEMMA AddFileTyped ==
  ASSUME IInv, NEW path \in Paths, AddFile(path)
  PROVE  listed' \in [Files -> Paths \union {Absent}]
BY DEF IInv, MainTyped, AddFile

LEMMA DispatchStep == IInv /\ Dispatch => IInv'
<1>. SUFFICES ASSUME IInv, Dispatch PROVE IInv'
  OBVIOUS
<1>1. Head(changes) \in ReturnType /\ changes' \in Seq(ReturnType)
  BY HeadTailProperties DEF IInv, SequencesTyped, Dispatch
<1>2. toWatch' \in Seq(ReturnType) /\ BufferRead'
  BY DEF IInv, SequencesTyped, BufferRead, Dispatch
<1>3. Head(changes).path \in Paths
  BY <1>1 DEF ReturnType, ChangeType
<1>4. listed \in [Files -> Paths \union {Absent}]
  BY DEF IInv, MainTyped
<1>5. listed' \in [Files -> Paths \union {Absent}]
  <2>1. CASE Head(changes).type = "file_create" /\ AddFile(Head(changes).path)
    BY <1>3, <2>1, AddFileTyped
  <2>2. CASE RemoveFile(Head(changes).path[2])
    BY <1>4, <2>2 DEF RemoveFile
  <2>3. CASE UNCHANGED listed
    BY <1>4, <2>3
  <2>. QED
    BY <2>1, <2>2, <2>3 DEF Dispatch
<1>6. MainTyped'
  BY <1>5 DEF IInv, MainTyped, Dispatch, scanVars
<1>. QED
  BY <1>1, <1>2, <1>6, QuietStep DEF Dispatch

LEMMA StartWatchStep == IInv /\ StartWatch => IInv'
<1>. SUFFICES ASSUME IInv, StartWatch PROVE IInv'
  OBVIOUS
<1>1. MainTyped' /\ BufferRead'
  BY DEF IInv, MainTyped, BufferRead, StartWatch, DirPaths
<1>. QED
  BY <1>1, WatchingStep DEF StartWatch, IInv, SequencesTyped, DirPaths

LEMMA ScanReadStep ==
  ASSUME IInv, NEW dir \in DirPaths, ScanRead(dir)
  PROVE  IInv'
<1>1. entries' \subseteq Paths
  <2>1. ASSUME NEW d \in Found(dir)
        PROVE  {dir} \X (holds[d] \union
                  (IF d = Root THEN {where[e] : e \in Dirs} \intersect DirNames ELSE {}))
               \subseteq Paths
    <3>1. holds[d] \subseteq Files
      BY DEF IInv, FilesTyped, Found
    <3>. QED
      BY <3>1 DEF Paths
  <2>. QED
    BY <2>1 DEF ScanRead, IInv, MainTyped
<1>2. MainTyped' /\ BufferRead'
  BY <1>1 DEF IInv, MainTyped, BufferRead, ScanRead
<1>. QED
  BY <1>2, QuietStep DEF ScanRead, IInv, SequencesTyped

LEMMA ScanEntryStep ==
  ASSUME IInv, NEW p \in Paths, ScanEntry(p)
  PROVE  IInv'
<1>1. MainTyped' /\ BufferRead'
  BY DEF IInv, MainTyped, BufferRead, ScanEntry, DirPaths
<1>. QED
  BY <1>1, QuietStep DEF ScanEntry, IInv, SequencesTyped

LEMMA ScanWatchStep ==
  ASSUME IInv, NEW dir \in DirPaths, ScanWatch(dir)
  PROVE  IInv'
<1>1. MainTyped' /\ BufferRead'
  BY DEF IInv, MainTyped, BufferRead, ScanWatch
<1>. QED
  BY <1>1, WatchingStep DEF ScanWatch, IInv, SequencesTyped

LEMMA AddFoundStep ==
  ASSUME IInv, NEW p \in Paths, AddFound(p)
  PROVE  IInv'
<1>1. listed' \in [Files -> Paths \union {Absent}]
  BY AddFileTyped DEF AddFound
<1>2. MainTyped' /\ BufferRead'
  BY <1>1 DEF IInv, MainTyped, BufferRead, AddFound
<1>. QED
  BY <1>2, QuietStep DEF AddFound, IInv, SequencesTyped

LEMMA LoopStep == IInv /\ Loop => IInv'
<1>. SUFFICES ASSUME IInv, Loop PROVE IInv'
  OBVIOUS
<1>1. MainTyped' /\ BufferRead'
  BY DEF IInv, MainTyped, BufferRead, Loop, scanVars
<1>. QED
  BY <1>1, QuietStep DEF Loop, IInv, SequencesTyped

LEMMA NextKeepsIInv == IInv /\ [Next]_vars => IInv'
<1>. SUFFICES ASSUME IInv, [Next]_vars PROVE IInv'
  OBVIOUS
<1>1. CASE FileSystem
  BY <1>1, FileSystemStep
<1>2. CASE Notify
  BY <1>2, NotifyStep
<1>3. CASE Main
  BY <1>3, UpdateStep, ReadEventStep, FilterEventsStep, WatchNewStep, UpdateReturnsStep,
     DispatchStep, StartWatchStep, ScanReadStep, ScanEntryStep, ScanWatchStep, AddFoundStep,
     LoopStep DEF Main
<1>4. CASE UNCHANGED vars
  <2>1. MainTyped' /\ BufferRead'
    BY <1>4 DEF vars, mainVars, scanVars, IInv, MainTyped, BufferRead
  <2>. QED
    BY <1>4, <2>1, QuietStep DEF vars, mainVars, IInv, SequencesTyped
<1>. QED
  BY <1>1, <1>2, <1>3, <1>4 DEF Next

-----------------------------------------------------------------------------
(* What the file system, inotify, the monitor and main keep true together: *)
(* notifications and changes are about directories and files of Root, a    *)
(* watch has the path of its directory or is about to be dropped, and      *)
(* Update leaves nothing unread.                                           *)
THEOREM DirectoryInvariant == Spec => []IInv
BY InitImpliesIInv, NextKeepsIInv, PTL DEF Spec

(* The variables of the monitor and of main have their types: descriptors  *)
(* are positive, only directories under Root are watched, and what Update  *)
(* returns are paths of files and directories there.                       *)
THEOREM DirectoryTypes == Spec => []TypeOK
<1>1. ReturnType \subseteq ChangeType
  BY DEF ReturnType
<1>2. Seq(ReturnType) \subseteq Seq(ChangeType)
  BY <1>1, SeqMonotonic
<1>3. IInv => TypeOK
  BY <1>2 DEF IInv, SequencesTyped, FilesTyped, WatchesTyped, MainTyped, TypeOK
<1>. QED
  BY <1>3, DirectoryInvariant, PTL

(* DirectoryMonitor::watches has the path of every watched directory, or   *)
(* the event that erases the watch is on its way.                          *)
THEOREM WatchesFollowDirectories == Spec => []WatchesFollow
<1>1. IInv => WatchesFollow
  BY DEF IInv
<1>. QED
  BY <1>1, DirectoryInvariant, PTL
-----------------------------------------------------------------------------
(* What is listed.                                                         *)
(*                                                                         *)
(* A creation or deletion of a file is on its way from the file system to  *)
(* the list through four queues, which together are one line.  The line    *)
(* tells the truth about a file if, together with the list, it leads to    *)
(* what is there, whatever becomes of it on the way: two changes that      *)
(* cancel out, a look at the file system that comes late.                  *)

(* What a line of changes says of one file: P are its positions in L, l is *)
(* what is listed, and paths are those the file has when all was handled.  *)

Created(L, i) == L[i].type = "file_create"
Deleted(L, i) == L[i].type = "file_delete"

Earliest(P, i)    == i \in P /\ \A k \in P : i <= k
Latest(P, i)      == i \in P /\ \A k \in P : k <= i
Adjacent(P, i, j) == i \in P /\ j \in P /\ i < j /\ \A k \in P : k <= i \/ j <= k

(* Creations and deletions alternate, and what is created is what is       *)
(* deleted next, but nothing is created where it was deleted before.       *)
Alternates(P, L) ==
    /\ \A i \in P : Created(L, i) \/ Deleted(L, i)
    /\ \A i, j \in P : Adjacent(P, i, j) /\ Created(L, i) =>
                          Deleted(L, j) /\ L[j].path = L[i].path
    /\ \A i, j \in P : Adjacent(P, i, j) /\ Deleted(L, i) => Created(L, j)
    /\ \A i, j \in P : i < j /\ Deleted(L, i) /\ Created(L, j) => L[i].path # L[j].path

Begins(P, L, l)   == \A i \in P : Earliest(P, i) /\ Created(L, i) => l = Absent
Leads(P, L, paths) ==
    \A i \in P : Latest(P, i) => IF Created(L, i) THEN L[i].path \in paths ELSE paths = {}

Tells(P, L, l, paths) == Alternates(P, L) /\ Begins(P, L, l) /\ Leads(P, L, paths)

(* The positions may be numbered anew.                                     *)
LEMMA Renumber ==
  ASSUME NEW P \in SUBSET Nat, NEW Q \in SUBSET Nat, NEW g \in [Q -> P],
         \A i \in P : \E k \in Q : g[k] = i,
         \A k, m \in Q : k < m => g[k] < g[m],
         NEW L, NEW M, \A k \in Q : M[k] = L[g[k]],
         NEW l, NEW paths, Tells(P, L, l, paths)
  PROVE  Tells(Q, M, l, paths)
<1>1. \A k, m \in Q : (k < m <=> g[k] < g[m]) /\ (k <= m <=> g[k] <= g[m])
  <2>1. \A k \in Q : k \in Nat /\ g[k] \in Nat
    OBVIOUS
  <2>. QED
    BY <2>1
<1>2. \A k, m \in Q : Adjacent(Q, k, m) => Adjacent(P, g[k], g[m])
  BY <1>1 DEF Adjacent
<1>3. \A k \in Q : (Earliest(Q, k) => Earliest(P, g[k])) /\ (Latest(Q, k) => Latest(P, g[k]))
  BY <1>1 DEF Earliest, Latest
<1>4. \A k \in Q : g[k] \in P /\ (Created(M, k) <=> Created(L, g[k]))
                   /\ (Deleted(M, k) <=> Deleted(L, g[k])) /\ M[k].path = L[g[k]].path
  BY DEF Created, Deleted
<1>5. Alternates(Q, M)
  <2>1. \A i \in Q : Created(M, i) \/ Deleted(M, i)
    BY <1>1, <1>2, <1>4 DEF Tells, Alternates
  <2>2. ASSUME NEW i \in Q, NEW j \in Q, Adjacent(Q, i, j), Created(M, i)
        PROVE  Deleted(M, j) /\ M[j].path = M[i].path
    <3>1. Adjacent(P, g[i], g[j]) /\ Created(L, g[i]) /\ g[i] \in P /\ g[j] \in P
      BY <2>2, <1>2, <1>4
    <3>2. Deleted(L, g[j]) /\ L[g[j]].path = L[g[i]].path
      BY <3>1 DEF Tells, Alternates
    <3>. QED
      BY <3>2, <1>4
  <2>3. ASSUME NEW i \in Q, NEW j \in Q, Adjacent(Q, i, j), Deleted(M, i)
        PROVE  Created(M, j)
    BY <2>3, <1>1, <1>2, <1>4 DEF Tells, Alternates
  <2>4. ASSUME NEW i \in Q, NEW j \in Q, i < j, Deleted(M, i), Created(M, j)
        PROVE  M[i].path # M[j].path
    <3>1. g[i] < g[j] /\ Deleted(L, g[i]) /\ Created(L, g[j]) /\ g[i] \in P /\ g[j] \in P
      BY <2>4, <1>1, <1>4
    <3>2. L[g[i]].path # L[g[j]].path
      BY <3>1 DEF Tells, Alternates
    <3>. QED
      BY <3>2, <1>4
  <2>. QED
    BY <2>1, <2>2, <2>3, <2>4 DEF Alternates
<1>6. Begins(Q, M, l) /\ Leads(Q, M, paths)
  BY <1>3, <1>4 DEF Tells, Begins, Leads
<1>. QED
  BY <1>5, <1>6 DEF Tells

(* The first change is handled: after a creation the list has a path,      *)
(* after a deletion it has none.                                           *)
LEMMA WithoutFirst ==
  ASSUME NEW P \in SUBSET Nat, NEW L, NEW l, NEW m, NEW paths, Tells(P, L, l, paths),
         NEW i \in P, Earliest(P, i), Deleted(L, i) => m = Absent
  PROVE  Tells(P \ {i}, L, m, paths)
<1>. DEFINE Q == P \ {i}
<1>0. \A k \in P : k \in Nat /\ (k # i => i < k)
  <2>1. \A k \in P : k \in Nat /\ i <= k
    BY DEF Earliest
  <2>. QED
    BY <2>1
<1>1. \A j, k \in Q : Adjacent(Q, j, k) => Adjacent(P, j, k)
  BY <1>0 DEF Adjacent
<1>2. \A j \in Q : Latest(Q, j) => Latest(P, j)
  BY <1>0 DEF Latest
<1>3. \A j \in Q : Earliest(Q, j) => Adjacent(P, i, j)
  BY <1>0 DEF Earliest, Adjacent
<1>4. Alternates(Q, L)
  BY <1>1 DEF Tells, Alternates
<1>5. Leads(Q, L, paths)
  BY <1>2 DEF Tells, Leads
<1>6. Begins(Q, L, m)
  BY <1>3 DEF Tells, Alternates, Begins, Created, Deleted
<1>. QED
  BY <1>4, <1>5, <1>6 DEF Tells

(* A creation and the deletion after it cancel out.                        *)
LEMMA WithoutPair ==
  ASSUME NEW P \in SUBSET Nat, NEW L, NEW l, NEW paths, Tells(P, L, l, paths),
         NEW i, NEW j, Adjacent(P, i, j), Created(L, i)
  PROVE  /\ Tells(P \ {i, j}, L, l, paths)
         /\ P = {i, j} => l = Absent /\ paths = {}
<1>. DEFINE Q == P \ {i, j}
<1>0. /\ i \in P /\ j \in P /\ i < j /\ i \in Nat /\ j \in Nat
      /\ \A k \in Q : k \in P /\ k \in Nat /\ (k < i \/ j < k)
      /\ \A k \in P : k = i \/ k = j \/ k \in Q
  <2>1. i \in P /\ j \in P /\ i < j /\ \A k \in P : k \in Nat /\ (k <= i \/ j <= k)
    BY DEF Adjacent
  <2>. QED
    BY <2>1
<1>. HIDE DEF Q
<1>1. Deleted(L, j) /\ ~Deleted(L, i) /\ ~Created(L, j)
  BY <1>0 DEF Tells, Alternates, Created, Deleted
<1>2. ASSUME NEW x \in Q, NEW y \in Q, Adjacent(Q, x, y)
      PROVE  Adjacent(P, x, y) \/ (Adjacent(P, x, i) /\ Adjacent(P, j, y))
  <2>1. x < y /\ \A k \in Q : k <= x \/ y <= k
    BY <1>2 DEF Adjacent
  <2>2. CASE x < i /\ j < y
    <3>1. \A k \in P : k \in Nat /\ (k <= x \/ i <= k) /\ (k <= j \/ y <= k)
      BY <1>0, <2>1, <2>2
    <3>. QED
      BY <1>0, <2>2, <3>1 DEF Adjacent
  <2>3. CASE ~(x < i /\ j < y)
    BY <1>0, <2>1, <2>3 DEF Adjacent
  <2>. QED
    BY <2>2, <2>3
<1>3. ASSUME NEW x \in Q, Earliest(Q, x)
      PROVE  Earliest(P, x) \/ (Earliest(P, i) /\ Adjacent(P, j, x))
  BY <1>0, <1>3 DEF Earliest, Adjacent
<1>4. ASSUME NEW x \in Q, Latest(Q, x)
      PROVE  Latest(P, x) \/ (Latest(P, j) /\ Adjacent(P, x, i))
  BY <1>0, <1>4 DEF Latest, Adjacent
<1>5. \A x \in Q : Adjacent(P, x, i) => Deleted(L, x) /\ ~Created(L, x)
  BY <1>0, <1>1 DEF Tells, Alternates, Created, Deleted
<1>6. \A y \in Q : Adjacent(P, j, y) => Created(L, y) /\ ~Deleted(L, y)
  BY <1>0, <1>1 DEF Tells, Alternates, Created, Deleted
<1>7. Alternates(Q, L)
  BY <1>0, <1>2, <1>5, <1>6 DEF Tells, Alternates
<1>8. Begins(Q, L, l)
  BY <1>0, <1>3 DEF Tells, Begins
<1>9. Leads(Q, L, paths)
  BY <1>0, <1>1, <1>4, <1>5 DEF Tells, Leads
<1>10. P = {i, j} => l = Absent /\ paths = {}
  <2>1. P = {i, j} => Earliest(P, i) /\ Latest(P, j)
    BY <1>0 DEF Earliest, Latest
  <2>. QED
    BY <1>0, <1>1, <2>1 DEF Tells, Begins, Leads
<1>. QED
  BY <1>7, <1>8, <1>9, <1>10 DEF Tells, Q

(* The file is deleted where it is.                                        *)
LEMMA WithDeletion ==
  ASSUME NEW P \in SUBSET Nat, NEW L, NEW l, NEW paths, Tells(P, L, l, paths),
         NEW n \in Nat, \A k \in P : k < n, Deleted(L, n), paths = {L[n].path}
  PROVE  Tells(P \union {n}, L, l, {})
<1>. DEFINE Q == P \union {n}
<1>0. n \in Q /\ \A k \in P : k \in Nat /\ k < n /\ k \in Q
  OBVIOUS
<1>1. \A i, j \in P : Adjacent(Q, i, j) => Adjacent(P, i, j)
  BY DEF Adjacent
<1>2. \A i \in P : Adjacent(Q, i, n) => Latest(P, i)
  BY <1>0 DEF Adjacent, Latest
<1>3. (\A i \in Q : ~Adjacent(Q, n, i)) /\ (\A i \in P : ~Latest(Q, i))
  BY <1>0 DEF Adjacent, Latest
<1>4. \A i \in P : Earliest(Q, i) => Earliest(P, i)
  BY DEF Earliest
<1>5. ~Created(L, n)
  BY DEF Created, Deleted
<1>6. \A i \in P : Latest(P, i) => Created(L, i) /\ ~Deleted(L, i) /\ L[i].path = L[n].path
  BY DEF Tells, Alternates, Leads, Created, Deleted
<1>7. \A i \in Q : i \in P \/ i = n
  OBVIOUS
<1>. HIDE DEF Q
<1>8. \A i \in P : ~(n < i) /\ ~(n < n)
  BY <1>0
<1>9. Alternates(Q, L)
  <2>1. \A i \in Q : Created(L, i) \/ Deleted(L, i)
    BY <1>1, <1>2, <1>3, <1>5, <1>6, <1>7, <1>8 DEF Tells, Alternates
  <2>2. ASSUME NEW i \in Q, NEW j \in Q, Adjacent(Q, i, j), Created(L, i)
        PROVE  Deleted(L, j) /\ L[j].path = L[i].path
    <3>1. i \in P
      BY <2>2, <1>3, <1>7
    <3>2. CASE j = n
      BY <2>2, <3>1, <3>2, <1>2, <1>6
    <3>3. CASE j \in P
      BY <2>2, <3>1, <3>3, <1>1 DEF Tells, Alternates
    <3>. QED
      BY <3>2, <3>3, <1>7
  <2>3. ASSUME NEW i \in Q, NEW j \in Q, Adjacent(Q, i, j), Deleted(L, i)
        PROVE  Created(L, j)
    <3>1. i \in P
      BY <2>3, <1>3, <1>7
    <3>2. CASE j = n
      BY <2>3, <3>1, <3>2, <1>2, <1>6
    <3>3. CASE j \in P
      BY <2>3, <3>1, <3>3, <1>1 DEF Tells, Alternates
    <3>. QED
      BY <3>2, <3>3, <1>7
  <2>4. ASSUME NEW i \in Q, NEW j \in Q, i < j, Deleted(L, i), Created(L, j)
        PROVE  L[i].path # L[j].path
    <3>1. i \in P /\ j \in P
      BY <2>4, <1>5, <1>7, <1>8
    <3>. QED
      BY <2>4, <3>1 DEF Tells, Alternates
  <2>. QED
    BY <2>1, <2>2, <2>3, <2>4 DEF Alternates
<1>10. Begins(Q, L, l)
  BY <1>4, <1>5, <1>7 DEF Tells, Begins
<1>11. Leads(Q, L, {})
  BY <1>3, <1>5, <1>7 DEF Leads
<1>. QED
  BY <1>9, <1>10, <1>11 DEF Tells, Q

(* The file is created, where it was not deleted.                          *)
LEMMA WithCreation ==
  ASSUME NEW P \in SUBSET Nat, NEW L, NEW l, NEW paths, Tells(P, L, l, {}),
         NEW n \in Nat, \A k \in P : k < n, Created(L, n), L[n].path \in paths,
         \A k \in P : Deleted(L, k) => L[k].path # L[n].path,
         P = {} => l = Absent
  PROVE  Tells(P \union {n}, L, l, paths)
<1>. DEFINE Q == P \union {n}
<1>0. n \in Q /\ \A k \in P : k \in Nat /\ k < n /\ k \in Q
  OBVIOUS
<1>1. \A i, j \in P : Adjacent(Q, i, j) => Adjacent(P, i, j)
  BY DEF Adjacent
<1>2. \A i \in P : Adjacent(Q, i, n) => Latest(P, i)
  BY <1>0 DEF Adjacent, Latest
<1>3. (\A i \in Q : ~Adjacent(Q, n, i)) /\ (\A i \in P : ~Latest(Q, i))
  BY <1>0 DEF Adjacent, Latest
<1>4. \A i \in P : Earliest(Q, i) => Earliest(P, i)
  BY DEF Earliest
<1>5. ~Deleted(L, n)
  BY DEF Created, Deleted
<1>6. \A i \in P : Latest(P, i) => Deleted(L, i) /\ ~Created(L, i)
  BY DEF Tells, Alternates, Leads, Created, Deleted
<1>7. \A i \in Q : i \in P \/ i = n
  OBVIOUS
<1>8. Earliest(Q, n) => P = {}
  BY <1>0 DEF Earliest
<1>. HIDE DEF Q
<1>9. \A i \in P : ~(n < i) /\ ~(n < n)
  BY <1>0
<1>10. Alternates(Q, L)
  <2>1. \A i \in Q : Created(L, i) \/ Deleted(L, i)
    BY <1>1, <1>2, <1>3, <1>5, <1>6, <1>7, <1>9 DEF Tells, Alternates
  <2>2. ASSUME NEW i \in Q, NEW j \in Q, Adjacent(Q, i, j), Created(L, i)
        PROVE  Deleted(L, j) /\ L[j].path = L[i].path
    <3>1. i \in P
      BY <2>2, <1>3, <1>7
    <3>2. CASE j = n
      BY <2>2, <3>1, <3>2, <1>2, <1>6
    <3>3. CASE j \in P
      BY <2>2, <3>1, <3>3, <1>1 DEF Tells, Alternates
    <3>. QED
      BY <3>2, <3>3, <1>7
  <2>3. ASSUME NEW i \in Q, NEW j \in Q, Adjacent(Q, i, j), Deleted(L, i)
        PROVE  Created(L, j)
    BY <2>3, <1>1, <1>2, <1>3, <1>5, <1>6, <1>7, <1>9 DEF Tells, Alternates
  <2>4. ASSUME NEW i \in Q, NEW j \in Q, i < j, Deleted(L, i), Created(L, j)
        PROVE  L[i].path # L[j].path
    BY <2>4, <1>1, <1>2, <1>3, <1>5, <1>6, <1>7, <1>9 DEF Tells, Alternates
  <2>. QED
    BY <2>1, <2>2, <2>3, <2>4 DEF Alternates
<1>11. Begins(Q, L, l)
  BY <1>4, <1>7, <1>8 DEF Tells, Begins
<1>12. Leads(Q, L, paths)
  BY <1>3, <1>7 DEF Leads
<1>. QED
  BY <1>10, <1>11, <1>12 DEF Tells, Q

-----------------------------------------------------------------------------
(* Lines and what is cut from them or put at their end.                    *)

About(c, f)  == c.type \in {"file_create", "file_delete"} /\ c.path[2] = f
Tokens(L, f) == {i \in 1..Len(L) : About(L[i], f)}

LEMMA TokensTyped ==
  ASSUME NEW L, Len(L) \in Nat, NEW f
  PROVE  /\ Tokens(L, f) \in SUBSET Nat
         /\ \A i \in Tokens(L, f) : Created(L, i) \/ Deleted(L, i)
BY DEF Tokens, About, Created, Deleted

(* Two lines that say the same of f.                                       *)
LEMMA SameLine ==
  ASSUME NEW L, NEW M, Len(L) \in Nat, Len(M) = Len(L), NEW f,
         \A i \in 1..Len(L) : About(L[i], f) \/ About(M[i], f) => M[i] = L[i],
         NEW l, NEW paths
  PROVE  /\ Tokens(M, f) = Tokens(L, f)
         /\ Tells(Tokens(L, f), L, l, paths) => Tells(Tokens(M, f), M, l, paths)
<1>. DEFINE P == Tokens(L, f)
            g == [i \in P |-> i]
<1>1. Tokens(M, f) = P
  BY DEF Tokens
<1>2. \A i \in P : M[i] = L[g[i]] /\ g[i] = i
  BY DEF Tokens
<1>3. P \in SUBSET Nat /\ g \in [P -> P]
  BY TokensTyped
<1>. HIDE DEF P, g
<1>4. /\ \A i \in P : \E k \in P : g[k] = i
      /\ \A k, m \in P : k < m => g[k] < g[m]
      /\ \A k \in P : M[k] = L[g[k]]
  BY <1>2
<1>5. Tells(P, L, l, paths) => Tells(P, M, l, paths)
  BY <1>3, <1>4, Renumber
<1>. QED
  BY <1>1, <1>5 DEF P

(* Position c is left out.                                                 *)
Up(k, c) == IF k < c THEN k ELSE k + 1

Cut(L, M, c) == /\ Len(M) = Len(L) - 1
                /\ \A k \in 1..Len(M) : M[k] = L[Up(k, c)]

LEMMA UpCovers ==
  ASSUME NEW n \in Nat, NEW c \in 1..n
  PROVE  /\ \A k \in 1..(n - 1) : Up(k, c) \in 1..n /\ Up(k, c) # c
         /\ \A k, m \in 1..(n - 1) : k < m => Up(k, c) < Up(m, c)
         /\ \A i \in 1..n : i # c => \E k \in 1..(n - 1) : Up(k, c) = i
<1>1. \A i \in 1..n : i < c => i \in 1..(n - 1) /\ Up(i, c) = i
  BY DEF Up
<1>2. \A i \in 1..n : c < i => i - 1 \in 1..(n - 1) /\ Up(i - 1, c) = i
  BY DEF Up
<1>3. \A i \in 1..n : i # c => \E k \in 1..(n - 1) : Up(k, c) = i
  BY <1>1, <1>2
<1>4. \A k, m \in 1..(n - 1) : k < m => Up(k, c) < Up(m, c)
  BY DEF Up
<1>5. \A k \in 1..(n - 1) : Up(k, c) \in 1..n /\ Up(k, c) # c
  BY DEF Up
<1>. QED
  BY <1>3, <1>4, <1>5

(* Nothing is said of the file.                                           *)
Silent(P) == P = {}

(* The positions that those in P get.                                      *)
Kept(P, n, c) == {k \in 1..n : Up(k, c) \in P}

Keeps(L, M, P, n, c) == \A k \in 1..n : Up(k, c) \in P => M[k] = L[Up(k, c)]

LEMMA CutLine ==
  ASSUME NEW L, NEW M, NEW n \in Nat, NEW m \in Nat, m = n - 1, NEW c \in 1..n,
         NEW P, P \subseteq 1..n, c \notin P,
         Keeps(L, M, P, m, c),
         NEW l, NEW paths
  PROVE  /\ Tells(P, L, l, paths) => Tells(Kept(P, m, c), M, l, paths)
         /\ Silent(Kept(P, m, c)) <=> Silent(P)
<1>. DEFINE Q == Kept(P, m, c)
            g == [k \in Q |-> Up(k, c)]
<1>0. /\ \A k, h \in 1..(n - 1) : k < h => Up(k, c) < Up(h, c)
      /\ \A i \in 1..n : i # c => \E k \in 1..(n - 1) : Up(k, c) = i
  BY UpCovers
<1>1. /\ \A k, h \in 1..m : k < h => Up(k, c) < Up(h, c)
      /\ \A i \in 1..n : i # c => \E k \in 1..m : Up(k, c) = i
  BY <1>0
<1>2. P \in SUBSET Nat /\ Q \in SUBSET Nat /\ g \in [Q -> P]
  BY DEF Kept
<1>3. \A k \in Q : k \in 1..m /\ g[k] = Up(k, c) /\ g[k] \in P
  BY DEF Kept
<1>4. \A i \in P : \E k \in Q : Up(k, c) = i
  BY <1>1 DEF Kept
<1>5. \A k \in Q : M[k] = L[g[k]]
  BY DEF Kept, Keeps
<1>. HIDE DEF Q, g
<1>6. \A i \in P : \E k \in Q : g[k] = i
  BY <1>3, <1>4
<1>7. \A k, h \in Q : k < h => g[k] < g[h]
  BY <1>1, <1>3
<1>8. Tells(P, L, l, paths) => Tells(Q, M, l, paths)
  BY <1>2, <1>5, <1>6, <1>7, Renumber
<1>9. Silent(Q) <=> Silent(P)
  BY <1>3, <1>4 DEF Silent
<1>. QED
  BY <1>8, <1>9 DEF Q

(* What is left out is not about f.                                        *)
LEMMA CutOther ==
  ASSUME NEW L, NEW M, Len(L) \in Nat, NEW c \in 1..Len(L), Len(M) = Len(L) - 1,
         NEW f, ~About(L[c], f),
         \A k \in 1..Len(M) : About(M[k], f) \/ About(L[Up(k, c)], f) => M[k] = L[Up(k, c)],
         NEW l, NEW paths
  PROVE  /\ Tells(Tokens(L, f), L, l, paths) => Tells(Tokens(M, f), M, l, paths)
         /\ Silent(Tokens(M, f)) <=> Silent(Tokens(L, f))
<1>. DEFINE n == Len(L)
            m == Len(M)
            P == Tokens(L, f)
<1>0. n \in Nat /\ m \in Nat /\ m = n - 1 /\ c \in 1..n /\ Len(M) = m
  OBVIOUS
<1>2. P \in SUBSET (1..n) /\ c \notin P
  BY DEF Tokens
<1>3. Keeps(L, M, P, m, c)
  BY DEF Tokens, Keeps
<1>. HIDE DEF n, m
<1>1. \A k \in 1..m : Up(k, c) \in 1..n
  BY <1>0, UpCovers
<1>. USE DEF n, m
<1>4. Tokens(M, f) = Kept(P, m, c)
  BY <1>0, <1>1 DEF Tokens, Kept
<1>5. \A k \in Tokens(M, f) : Up(k, c) \in Tokens(L, f) /\ M[k] = L[Up(k, c)]
  BY <1>1 DEF Tokens
<1>. HIDE DEF n, m, P
<1>6. /\ Tells(P, L, l, paths) => Tells(Kept(P, m, c), M, l, paths)
      /\ Silent(Kept(P, m, c)) <=> Silent(P)
  BY ONLY <1>0, <1>2, <1>3, CutLine
<1>. QED
  BY <1>4, <1>5, <1>6 DEF P

(* The first of the line is the first about f, and is handled.             *)
LEMMA CutFirst ==
  ASSUME NEW L, NEW M, Len(L) \in Nat, 1 \in 1..Len(L), Len(M) = Len(L) - 1,
         NEW f, About(L[1], f), \A k \in 1..Len(M) : M[k] = L[k + 1],
         NEW l, NEW m, NEW paths, Tells(Tokens(L, f), L, l, paths),
         Deleted(L, 1) => m = Absent
  PROVE  /\ Tells(Tokens(M, f), M, m, paths)
         /\ Silent(Tokens(M, f)) => Latest(Tokens(L, f), 1)
<1>. DEFINE n == Len(L)
            h == Len(M)
            P == Tokens(L, f) \ {1}
<1>0. n \in Nat /\ h \in Nat /\ h = n - 1 /\ 1 \in 1..n /\ Len(M) = h
  OBVIOUS
<1>1. Tokens(L, f) \in SUBSET Nat /\ 1 \in Tokens(L, f) /\ Earliest(Tokens(L, f), 1)
  BY DEF Tokens, Earliest
<1>2. Tells(P, L, m, paths)
  BY <1>1, WithoutFirst
<1>3. P \in SUBSET (1..n) /\ 1 \notin P
  BY DEF Tokens
<1>4. \A k \in 1..h : Up(k, 1) = k + 1 /\ k + 1 \in 1..Len(L) /\ k + 1 # 1
  BY DEF Up
<1>5. Tokens(M, f) = Kept(P, h, 1)
  BY <1>0, <1>4 DEF Tokens, Kept
<1>6. Keeps(L, M, P, h, 1)
  BY <1>0, <1>4 DEF Keeps
<1>7. Silent(P) => Latest(Tokens(L, f), 1)
  BY <1>1 DEF Latest, Silent
<1>. HIDE DEF n, h, P
<1>8. /\ Tells(P, L, m, paths) => Tells(Kept(P, h, 1), M, m, paths)
      /\ Silent(Kept(P, h, 1)) <=> Silent(P)
  BY ONLY <1>0, <1>3, <1>6, CutLine
<1>. QED
  BY <1>2, <1>5, <1>7, <1>8

(* One of the line and one after it are left out, none about f.            *)
LEMMA CutPairOther ==
  ASSUME NEW L, NEW K, NEW M, Len(L) \in Nat, NEW i \in Nat, NEW j \in 1..Len(L), 0 < i, i < j,
         Cut(L, K, j), Cut(K, M, i), NEW f, ~About(L[i], f), ~About(L[j], f),
         NEW l, NEW paths
  PROVE  /\ Tells(Tokens(L, f), L, l, paths) => Tells(Tokens(M, f), M, l, paths)
         /\ Silent(Tokens(M, f)) <=> Silent(Tokens(L, f))
<1>1. Len(K) = Len(L) - 1 /\ Len(K) \in Nat /\ Len(M) = Len(K) - 1 /\ i \in 1..Len(K)
  BY DEF Cut
<1>2. K[i] = L[i]
  BY <1>1 DEF Cut, Up
<1>3. /\ \A k \in 1..Len(K) : K[k] = L[Up(k, j)]
      /\ \A k \in 1..Len(M) : M[k] = K[Up(k, i)]
  BY DEF Cut
<1>4. /\ Tells(Tokens(L, f), L, l, paths) => Tells(Tokens(K, f), K, l, paths)
      /\ Silent(Tokens(K, f)) <=> Silent(Tokens(L, f))
  BY <1>1, <1>3, CutOther
<1>5. ~About(K[i], f)
  BY <1>2
<1>6. /\ Tells(Tokens(K, f), K, l, paths) => Tells(Tokens(M, f), M, l, paths)
      /\ Silent(Tokens(M, f)) <=> Silent(Tokens(K, f))
  BY ONLY <1>1, <1>3, <1>5, CutOther
<1>. QED
  BY <1>4, <1>6

(* Both are about f, and are neighbours.                                   *)
LEMMA CutPair ==
  ASSUME NEW L, NEW K, NEW M, Len(L) \in Nat, NEW i \in Nat, NEW j \in 1..Len(L), 0 < i, i < j,
         Cut(L, K, j), Cut(K, M, i), NEW f,
         Adjacent(Tokens(L, f), i, j), Created(L, i),
         NEW l, NEW paths, Tells(Tokens(L, f), L, l, paths)
  PROVE  /\ Tells(Tokens(M, f), M, l, paths)
         /\ Silent(Tokens(M, f)) => l = Absent /\ paths = {}
<1>1. Len(K) = Len(L) - 1 /\ Len(K) \in Nat /\ Len(M) = Len(K) - 1 /\ i \in 1..Len(K)
  BY DEF Cut
<1>. DEFINE P == Tokens(L, f) \ {i, j}
            n == Len(L)
            n1 == Len(K)
            n2 == Len(M)
            R == Kept(P, n1, j)
            Q == Kept(R, n2, i)
<1>0. /\ n \in Nat /\ n1 \in Nat /\ n2 \in Nat /\ n1 = n - 1 /\ n2 = n1 - 1
      /\ j \in 1..n /\ i \in 1..n1
  BY <1>1
<1>2. Tokens(L, f) \in SUBSET Nat /\ i \in Tokens(L, f) /\ j \in Tokens(L, f)
  BY TokensTyped DEF Adjacent
<1>3. Tells(P, L, l, paths) /\ (Silent(P) => l = Absent /\ paths = {})
  BY <1>2, WithoutPair DEF Silent
<1>4. P \in SUBSET (1..n) /\ j \notin P /\ R \in SUBSET (1..n1)
  BY DEF Tokens, Kept
<1>5. /\ \A k \in 1..n1 : K[k] = L[Up(k, j)]
      /\ \A k \in 1..n2 : M[k] = K[Up(k, i)]
      /\ Len(K) = n - 1 /\ Len(M) = n2
  BY <1>0, <1>1 DEF Cut
<1>. HIDE DEF n, n1, n2
<1>6. \A k \in 1..n1 : Up(k, j) \in 1..n /\ Up(k, j) # j
  BY <1>0, UpCovers
<1>7. \A k \in 1..n2 : Up(k, i) \in 1..n1 /\ Up(k, i) # i
  BY <1>0, UpCovers
<1>8. i \notin R
  BY DEF Up, Kept
<1>9. \A k \in 1..n1 : Up(k, j) = i => k = i
  BY <1>0 DEF Up
<1>10. Tokens(M, f) = Q
  <2>1. \A k \in 1..n1 : k # i => (k \in R <=> About(K[k], f))
    BY <1>6, <1>9, <1>5 DEF Tokens, Kept, n, n1, n2
  <2>. HIDE DEF R
  <2>. QED
    BY <1>7, <1>5, <2>1 DEF Tokens, Kept
<1>11. Keeps(L, K, P, n1, j) /\ Keeps(K, M, R, n2, i)
  BY <1>5 DEF Keeps
<1>. HIDE DEF P
<1>12. /\ Tells(P, L, l, paths) => Tells(R, K, l, paths)
       /\ Silent(R) <=> Silent(P)
  BY ONLY <1>0, <1>4, <1>11, CutLine
<1>. HIDE DEF R
<1>13. /\ Tells(R, K, l, paths) => Tells(Q, M, l, paths)
       /\ Silent(Q) <=> Silent(R)
  BY ONLY <1>0, <1>4, <1>11, <1>8, CutLine
<1>. QED
  BY <1>3, <1>10, <1>12, <1>13

(* More is put at the end.                                                 *)
LEMMA LongerLine ==
  ASSUME NEW L, NEW M, Len(L) \in Nat, Len(M) \in Nat, Len(L) <= Len(M), NEW f,
         \A i \in 1..Len(L) : M[i] = L[i],
         NEW l, NEW paths
  PROVE  /\ Tokens(M, f) = Tokens(L, f) \union {i \in Tokens(M, f) : Len(L) < i}
         /\ \A i \in Tokens(L, f) : i <= Len(L)
         /\ Tells(Tokens(L, f), L, l, paths) => Tells(Tokens(L, f), M, l, paths)
<1>. DEFINE P == Tokens(L, f)
            g == [i \in P |-> i]
<1>1. /\ Tokens(M, f) = Tokens(L, f) \union {i \in Tokens(M, f) : Len(L) < i}
      /\ \A i \in Tokens(L, f) : i <= Len(L)
  BY DEF Tokens
<1>2. \A i \in P : M[i] = L[g[i]] /\ g[i] = i
  BY DEF Tokens
<1>3. P \in SUBSET Nat /\ g \in [P -> P]
  BY TokensTyped
<1>. HIDE DEF P, g
<1>4. /\ \A i \in P : \E k \in P : g[k] = i
      /\ \A k, m \in P : k < m => g[k] < g[m]
      /\ \A k \in P : M[k] = L[g[k]]
  BY <1>2
<1>5. Tells(P, L, l, paths) => Tells(P, M, l, paths)
  BY <1>3, <1>4, Renumber
<1>. QED
  BY <1>1, <1>5 DEF P

-----------------------------------------------------------------------------
(* The line of the system: what Update returned, then what it will make of *)
(* the events in the buffer, in the queue and of those yet to be given.    *)

Resolved(k, n) == [wd |-> k[n.on], what |-> n.what, name |-> n.name]
FlightOf(b, q, p, k) == (b \o q) \o [i \in 1..Len(p) |-> Resolved(k, p[i])]
InFlight == FlightOf(buffer, queue, pending, kernel)

Told(ws, e) == Event(IF e.what = "self" THEN "self" ELSE Type[e.what],
                     <<IF e.wd \in DOMAIN ws THEN ws[e.wd] ELSE "none", e.name>>)
LineOf(c, fl, ws) == c \o [i \in 1..Len(fl) |-> Told(ws, fl[i])]
Line == LineOf(changes, InFlight, watches)

FlightType == {e \in [wd : Nat, what : Whats, name : Names] : Kinds(e.what, e.name)}

FlightFacts ==
    /\ Len(InFlight) = Len(buffer) + Len(queue) + Len(pending)
    /\ Len(buffer) \in Nat /\ Len(queue) \in Nat /\ Len(pending) \in Nat
    /\ Len(InFlight) \in Nat
    /\ \A i \in 1..Len(InFlight) :
          /\ InFlight[i] \in FlightType
          /\ i <= Len(buffer) => InFlight[i] = buffer[i]
          /\ Len(buffer) < i /\ i <= Len(buffer) + Len(queue)
                => InFlight[i] = queue[i - Len(buffer)]
          /\ Len(buffer) + Len(queue) < i
                => InFlight[i] = Resolved(kernel, pending[i - (Len(buffer) + Len(queue))])

LEMMA FlightIs == SequencesTyped /\ WatchesTyped => FlightFacts
<1>. SUFFICES ASSUME SequencesTyped, WatchesTyped PROVE FlightFacts
  OBVIOUS
<1>. DEFINE rest == [i \in 1..Len(pending) |-> Resolved(kernel, pending[i])]
            bq == buffer \o queue
<1>1. Len(buffer) \in Nat /\ Len(queue) \in Nat /\ Len(pending) \in Nat
  BY LenProperties DEF SequencesTyped
<1>2. /\ \A i \in 1..Len(buffer) : buffer[i] \in EventType
      /\ \A i \in 1..Len(queue) : queue[i] \in EventType
      /\ \A i \in 1..Len(pending) : pending[i] \in NoteType
  BY ElementOfSeq DEF SequencesTyped
<1>3. EventType \subseteq FlightType
  BY DEF EventType, FlightType
<1>4. \A i \in 1..Len(pending) : Resolved(kernel, pending[i]) \in FlightType
  BY <1>2 DEF WatchesTyped, Resolved, NoteType, FlightType
<1>5. rest \in Seq(FlightType) /\ Len(rest) = Len(pending)
  BY <1>1, <1>4, SeqDef
<1>6. buffer \in Seq(FlightType) /\ queue \in Seq(FlightType)
  BY <1>3, SeqMonotonic DEF SequencesTyped
<1>7. /\ bq \in Seq(FlightType) /\ Len(bq) = Len(buffer) + Len(queue)
      /\ \A i \in 1..Len(bq) : bq[i] = IF i <= Len(buffer) THEN buffer[i]
                                                           ELSE queue[i - Len(buffer)]
  BY <1>6, ConcatProperties
<1>8. \A i \in 1..Len(pending) : rest[i] = Resolved(kernel, pending[i])
  OBVIOUS
<1>9. InFlight = bq \o rest
  BY DEF InFlight, FlightOf
<1>. HIDE DEF rest, bq
<1>10. /\ bq \o rest \in Seq(FlightType) /\ Len(bq \o rest) = Len(bq) + Len(rest)
       /\ \A i \in 1..Len(bq) + Len(rest) : (bq \o rest)[i] =
             IF i <= Len(bq) THEN bq[i] ELSE rest[i - Len(bq)]
  <2>1. bq \in Seq(FlightType) /\ rest \in Seq(FlightType)
    BY <1>5, <1>7
  <2>. QED
    BY ONLY <2>1, ConcatProperties
<1>11. \A i \in 1..Len(InFlight) : InFlight[i] \in FlightType
  BY <1>9, <1>10, ElementOfSeq
<1>12. Len(InFlight) = Len(buffer) + Len(queue) + Len(pending) /\ Len(InFlight) \in Nat
  BY <1>1, <1>5, <1>7, <1>9, <1>10
<1>13. ASSUME NEW i \in 1..Len(InFlight)
       PROVE  /\ i <= Len(buffer) => InFlight[i] = buffer[i]
              /\ Len(buffer) < i /\ i <= Len(buffer) + Len(queue)
                    => InFlight[i] = queue[i - Len(buffer)]
              /\ Len(buffer) + Len(queue) < i
                    => InFlight[i] = Resolved(kernel, pending[i - (Len(buffer) + Len(queue))])
  <2>1. i \in 1..Len(bq) + Len(rest) /\ i \in Nat
    BY <1>5, <1>7, <1>12
  <2>2. InFlight[i] = IF i <= Len(bq) THEN bq[i] ELSE rest[i - Len(bq)]
    BY <1>9, <1>10, <2>1
  <2>3. CASE i <= Len(bq)
    BY <1>1, <1>7, <2>1, <2>2, <2>3
  <2>4. CASE ~(i <= Len(bq))
    <3>1. i - Len(bq) \in 1..Len(pending)
      BY <1>1, <1>5, <1>7, <2>1, <2>4
    <3>. QED
      BY <1>1, <1>7, <1>8, <2>1, <2>2, <2>4, <3>1
  <2>. QED
    BY <2>3, <2>4
<1>. QED
  BY <1>1, <1>11, <1>12, <1>13 DEF FlightFacts

LineFacts ==
    /\ Len(changes) \in Nat /\ Len(Line) \in Nat
    /\ Len(Line) = Len(changes) + Len(InFlight)
    /\ \A i \in 1..Len(changes) : Line[i] = changes[i] /\ changes[i] \in ReturnType
    /\ \A i \in 1..Len(Line) :
          Len(changes) < i => Line[i] = Told(watches, InFlight[i - Len(changes)])

LEMMA LineIs == SequencesTyped /\ WatchesTyped => LineFacts
<1>. SUFFICES ASSUME SequencesTyped, WatchesTyped PROVE LineFacts
  OBVIOUS
<1>. DEFINE n == Len(InFlight)
            rest == [i \in 1..n |-> Told(watches, InFlight[i])]
            Some == {rest[i] : i \in 1..n} \union ReturnType
<1>1. n \in Nat /\ Len(changes) \in Nat
  BY FlightIs, LenProperties DEF FlightFacts, SequencesTyped
<1>2. Line = changes \o rest
  BY DEF Line, LineOf
<1>. HIDE DEF n
<1>3. rest \in Seq(Some) /\ Len(rest) = n
  BY <1>1, SeqDef
<1>4. changes \in Seq(Some) /\ \A i \in 1..Len(changes) : changes[i] \in ReturnType
  BY SeqMonotonic, ElementOfSeq DEF SequencesTyped
<1>5. \A i \in 1..n : rest[i] = Told(watches, InFlight[i])
  OBVIOUS
<1>. HIDE DEF rest, Some
<1>6. /\ Len(changes \o rest) = Len(changes) + Len(rest)
      /\ \A i \in 1..Len(changes) + Len(rest) : (changes \o rest)[i] =
            IF i <= Len(changes) THEN changes[i] ELSE rest[i - Len(changes)]
  BY <1>3, <1>4, ConcatProperties
<1>7. Len(Line) = Len(changes) + n /\ Len(Line) \in Nat
  BY <1>1, <1>2, <1>3, <1>6
<1>8. \A i \in 1..Len(changes) : Line[i] = changes[i] /\ changes[i] \in ReturnType
  BY <1>1, <1>2, <1>3, <1>4, <1>6
<1>9. ASSUME NEW i \in 1..Len(Line), Len(changes) < i
      PROVE  Line[i] = Told(watches, InFlight[i - Len(changes)])
  <2>1. i - Len(changes) \in 1..n /\ i \in 1..Len(changes) + Len(rest)
    BY <1>1, <1>3, <1>7, <1>9
  <2>. QED
    BY <1>1, <1>2, <1>5, <1>6, <1>9, <2>1
<1>. QED
  BY <1>1, <1>7, <1>8, <1>9 DEF LineFacts, n

LEMMA FactsNow == IInv => FlightFacts /\ LineFacts
BY FlightIs, LineIs DEF IInv

LEMMA FactsNext == IInv' => FlightFacts' /\ LineFacts'
<1>1. (IInv => FlightFacts /\ LineFacts)'
  BY FactsNow, PTL
<1>. QED
  BY <1>1

(* What is told of an event is about the file the event is about.          *)
IsAbout(e, f) == e.what \in {"create", "delete"} /\ e.name = f

LEMMA ToldAbout ==
  ASSUME NEW e \in FlightType, NEW f \in Files, NEW ws
  PROVE  /\ About(Told(ws, e), f) <=> IsAbout(e, f)
         /\ Told(ws, e).type = "file_create" <=> e.what = "create"
         /\ Told(ws, e).type = "file_delete" <=> e.what = "delete"
         /\ e.wd \in DOMAIN ws => Told(ws, e).path = <<ws[e.wd], e.name>>
<1>1. e.what \in Whats
  BY DEF FlightType
<1>2. /\ Told(ws, e).type = "file_create" <=> e.what = "create"
      /\ Told(ws, e).type = "file_delete" <=> e.what = "delete"
  BY <1>1 DEF Told, Event, Type, Whats
<1>3. Told(ws, e).path[2] = e.name
  BY DEF Told, Event
<1>4. e.wd \in DOMAIN ws => Told(ws, e).path = <<ws[e.wd], e.name>>
  BY DEF Told, Event
<1>. QED
  BY <1>2, <1>3, <1>4 DEF About, IsAbout

-----------------------------------------------------------------------------
(* What is true of directories and watches.                                *)

NamesDistinct  == \A d, e \in Dirs : where[d] = where[e] /\ where[d] \in DirNames => d = e
GoneEmpty      == \A d \in Dirs : where[d] = "gone" => holds[d] = {}
KernelDistinct == \A d, e \in Inodes : kernel[d] = kernel[e] => d = e \/ kernel[d] = 0

(* A directory that changes itself is none that a file changed in.         *)
SelfAlone == \A i \in 1..Len(pending) : pending[i].what = "self" =>
                /\ pending[i].on # Root
                /\ \A k \in 1..Len(pending) : pending[k].what \notin {"create", "delete"}

NotBegun == pc = "root" => /\ \A d \in Inodes : kernel[d] = 0
                           /\ queue = <<>> /\ changes = <<>>
                           /\ \A f \in Files : listed[f] = Absent

(* Nothing takes the watch on Root away.                                   *)
RootWatched == pc # "root" => /\ kernel[Root] \in DOMAIN watches
                              /\ watches[kernel[Root]] = Root
                              /\ ~SelfIn(buffer, kernel[Root])
                              /\ ~SelfIn(queue, kernel[Root])

GInv == /\ NamesDistinct /\ GoneEmpty /\ KernelDistinct
        /\ SelfAlone /\ NotBegun /\ RootWatched

(* Only one inode has a place in Root.                                     *)
PlacesDistinct == \A d, e \in Inodes : At(d) = At(e) /\ InTree(d) => d = e

LEMMA DistinctPlaces == FilesTyped /\ NamesDistinct => PlacesDistinct
<1>. SUFFICES ASSUME FilesTyped, NamesDistinct, NEW d \in Inodes, NEW e \in Inodes,
                     At(d) = At(e), InTree(d)
              PROVE  d = e
  BY DEF PlacesDistinct
<1>1. \A i \in Dirs : where[i] # Root /\ At(i) = where[i] /\ i # Root
  BY DirectoryAssumption DEF FilesTyped, Root, At
<1>2. At(Root) = Root
  BY DEF At
<1>3. CASE d = Root
  BY <1>1, <1>2, <1>3 DEF Inodes
<1>4. CASE d \in Dirs
  <2>1. At(d) \in DirNames
    BY <1>1, <1>4 DEF InTree, DirPaths
  <2>. QED
    BY <1>1, <1>2, <1>4, <2>1 DEF NamesDistinct, Inodes
<1>. QED
  BY <1>3, <1>4 DEF Inodes

LEMMA GInit == Init => GInv
<1>. SUFFICES ASSUME Init PROVE GInv
  OBVIOUS
<1>1. NamesDistinct
  BY DirectoryAssumption DEF Init, NamesDistinct
<1>2. GoneEmpty /\ KernelDistinct /\ SelfAlone /\ NotBegun /\ RootWatched
  BY DEF Init, GoneEmpty, KernelDistinct, SelfAlone, NotBegun, RootWatched
<1>. QED
  BY <1>1, <1>2 DEF GInv

(* A change of files.                                                      *)
LEMMA FilesKeepG ==
  ASSUME GInv, NEW notes, NEW files, Change(notes, files), UNCHANGED where, GoneEmpty',
         \A i \in 1..Len(notes) : notes[i].what \in {"create", "delete"}
  PROVE  GInv'
<1>1. SelfAlone'
  BY DEF SelfAlone, Change
<1>2. NamesDistinct' /\ KernelDistinct' /\ NotBegun' /\ RootWatched'
  BY DEF GInv, NamesDistinct, KernelDistinct, NotBegun, RootWatched, Change, mainVars
<1>. QED
  BY <1>1, <1>2 DEF GInv

(* A change of a directory.                                                *)
LEMMA DirectoryKeepsG ==
  ASSUME IInv, GInv, NEW notes, NEW files, NEW d \in Dirs, NEW n, Change(notes, files),
         where' = [where EXCEPT ![d] = n], UNCHANGED holds, Free(n) \/ n = "gone",
         n = "gone" => holds[d] = {},
         \A i \in 1..Len(notes) : /\ notes[i].what \notin {"create", "delete"}
                                  /\ notes[i].what = "self" => notes[i].on # Root
  PROVE  GInv'
<1>1. SelfAlone'
  BY DEF SelfAlone, Change
<1>2. KernelDistinct' /\ NotBegun' /\ RootWatched'
  BY DEF GInv, KernelDistinct, NotBegun, RootWatched, Change, mainVars
<1>3. GoneEmpty'
  BY DEF GInv, GoneEmpty, IInv, FilesTyped
<1>4. NamesDistinct'
  BY DirectoryAssumption DEF GInv, NamesDistinct, IInv, FilesTyped, Free
<1>. QED
  BY <1>1, <1>2, <1>3, <1>4 DEF GInv

LEMMA FileSystemKeepsG == IInv /\ GInv /\ FileSystem => GInv'
<1>. SUFFICES ASSUME IInv, GInv, FileSystem PROVE GInv'
  OBVIOUS
<1>1. Root \notin Dirs
  BY DirectoryAssumption DEF Root
<1>2. ASSUME NEW d \in Inodes, NEW f \in Files, CreateFile(d, f) PROVE GInv'
  <2>1. GoneEmpty'
    BY <1>1, <1>2 DEF GInv, GoneEmpty, CreateFile, IInv, FilesTyped, At, Inodes
  <2>. QED
    BY <1>2, <2>1, FilesKeepG DEF CreateFile, Note
<1>3. ASSUME NEW d \in Inodes, NEW f \in Files, DeleteFile(d, f) PROVE GInv'
  <2>1. GoneEmpty'
    BY <1>3 DEF GInv, GoneEmpty, DeleteFile, IInv, FilesTyped, Inodes
  <2>. QED
    BY <1>3, <2>1, FilesKeepG DEF DeleteFile, Note
<1>4. ASSUME NEW d \in Inodes, NEW e \in Inodes, NEW f \in Files, NEW g \in Files,
             MoveFile(d, f, e, g)
      PROVE GInv'
  <2>1. \A i \in Dirs : where[i] = "gone" => i # e
    BY <1>1, <1>4 DEF MoveFile, At
  <2>2. GoneEmpty'
    BY <1>4, <2>1 DEF GInv, GoneEmpty, MoveFile, Inodes
  <2>3. \A i \in 1..2 : <<Note(d, "delete", f), Note(e, "create", g)>>[i].what
                          \in {"create", "delete"}
    BY DEF Note
  <2>. QED
    BY <1>4, <2>2, <2>3, FilesKeepG DEF MoveFile
<1>5. ASSUME NEW d \in Dirs, NEW n \in DirNames, MakeDir(d, n) PROVE GInv'
  <2>. DEFINE notes == <<Note(Root, "mkdir", n)>>
  <2>1. n # "gone" /\ Free(n)
    BY <1>5, DirectoryAssumption DEF MakeDir
  <2>2. \A i \in 1..Len(notes) : /\ notes[i].what \notin {"create", "delete"}
                                 /\ notes[i].what = "self" => notes[i].on # Root
    BY DEF Note
  <2>3. Change(notes, {}) /\ where' = [where EXCEPT ![d] = n] /\ UNCHANGED holds
    BY <1>5 DEF MakeDir
  <2>. HIDE DEF notes
  <2>. QED
    BY <2>1, <2>2, <2>3, DirectoryKeepsG
<1>6. ASSUME NEW d \in Dirs, RemoveDir(d) PROVE GInv'
  <2>. DEFINE notes == <<Note(d, "self", "gone"), Note(Root, "rmdir", where[d])>>
  <2>1. \A i \in 1..2 : /\ notes[i].what \notin {"create", "delete"}
                        /\ notes[i].what = "self" => notes[i].on # Root
    BY <1>1 DEF Note
  <2>2. Len(notes) = 2
    OBVIOUS
  <2>3. Change(notes, {})
    BY <1>6 DEF RemoveDir
  <2>. HIDE DEF notes
  <2>. QED
    BY <1>6, <2>1, <2>2, <2>3, DirectoryKeepsG DEF RemoveDir
<1>7. ASSUME NEW d \in Dirs, NEW n \in DirNames \union {"out"}, MoveDir(d, n) PROVE GInv'
  <2>. DEFINE left == IF InTree(d) THEN <<Note(Root, "rmdir", where[d])>> ELSE <<>>
              come == IF n = "out" THEN <<>> ELSE <<Note(Root, "mkdir", n)>>
              self == <<Note(d, "self", n)>>
              notes == (left \o come) \o self
  <2>. DEFINE Quiet == {Note(Root, "rmdir", where[d]), Note(Root, "mkdir", n),
                        Note(d, "self", n)}
  <2>1. left \in Seq(Quiet) /\ come \in Seq(Quiet) /\ self \in Seq(Quiet)
    <3>1. /\ Note(Root, "rmdir", where[d]) \in Quiet /\ Note(Root, "mkdir", n) \in Quiet
          /\ Note(d, "self", n) \in Quiet
      OBVIOUS
    <3>2. \A S, q : q \in S => <<q>> \in Seq(S) /\ <<>> \in Seq(S)
      OBVIOUS
    <3>. HIDE DEF Quiet
    <3>. QED
      BY <3>1, <3>2, Zenon
  <2>7. \A q \in Quiet : /\ q.what \notin {"create", "delete"}
                         /\ q.what = "self" => q.on # Root
    BY <1>1 DEF Note
  <2>2. Change(notes, holds[d]) /\ where' = [where EXCEPT ![d] = n] /\ UNCHANGED holds
    BY <1>7 DEF MoveDir
  <2>3. Free(n) /\ n # "gone"
    BY <1>7, DirectoryAssumption DEF MoveDir
  <2>. HIDE DEF left, come, self, Quiet
  <2>4. left \o come \in Seq(Quiet)
    BY <2>1, ConcatProperties
  <2>5. notes \in Seq(Quiet)
    BY <2>1, <2>4, ConcatProperties
  <2>6. \A i \in 1..Len(notes) : /\ notes[i].what \notin {"create", "delete"}
                                 /\ notes[i].what = "self" => notes[i].on # Root
    <3>. HIDE DEF notes
    <3>. QED
      BY <2>5, <2>7, ElementOfSeq
  <2>. HIDE DEF notes
  <2>. QED
    BY <2>2, <2>3, <2>6, DirectoryKeepsG
<1>. QED
  BY <1>2, <1>3, <1>4, <1>5, <1>6, <1>7 DEF FileSystem
LEMMA NotifyKeepsG == IInv /\ GInv /\ Notify => GInv'
<1>. SUFFICES ASSUME IInv, GInv, Notify PROVE GInv'
  OBVIOUS
<1>. DEFINE n == Head(pending)
            e == [wd |-> kernel[n.on], what |-> n.what, name |-> n.name]
<1>1. /\ n \in NoteType /\ n = pending[1] /\ 1 \in 1..Len(pending)
      /\ \A i \in 1..Len(Tail(pending)) : /\ i + 1 \in 1..Len(pending)
                                          /\ Tail(pending)[i] = pending[i + 1]
  <2>1. pending # <<>> /\ pending \in Seq(NoteType) /\ Len(pending) \in Nat
    BY LenProperties DEF Notify, IInv, SequencesTyped
  <2>2. /\ n \in NoteType /\ n = pending[1] /\ Len(Tail(pending)) = Len(pending) - 1
        /\ \A i \in 1..Len(Tail(pending)) : Tail(pending)[i] = pending[i + 1]
    BY <2>1, HeadTailProperties
  <2>3. Len(pending) # 0
    BY <2>1, EmptySeq
  <2>. QED
    BY <2>1, <2>2, <2>3
<1>2. /\ pending' = Tail(pending)
      /\ queue' = IF kernel[n.on] = 0 THEN queue ELSE Append(queue, e)
      /\ kernel' = IF n.what = "self" /\ n.name = "gone"
                   THEN [kernel EXCEPT ![n.on] = 0] ELSE kernel
      /\ UNCHANGED <<where, holds, ops, missed, watches, mainVars>>
  BY DEF Notify
<1>3. /\ n.on \in Inodes /\ Root \in Inodes /\ kernel \in [Inodes -> Nat]
      /\ n.what = "self" => n.on # Root
  BY <1>1 DEF NoteType, Inodes, IInv, WatchesTyped, GInv, SelfAlone
<1>4. kernel[n.on] # 0 => e \in EventType
  BY <1>1 DEF NoteType, EventType, IInv, WatchesTyped
<1>5. e.wd = kernel[n.on] /\ e.what = n.what
  OBVIOUS
<1>6. queue \in Seq(EventType)
  BY DEF IInv, SequencesTyped
<1>. HIDE DEF e, n
<1>7. \A w : SelfIn(queue', w) => SelfIn(queue, w) \/ (w # 0 /\ n.what = "self" /\ kernel[n.on] = w)
  BY <1>2, <1>4, <1>5, <1>6, AppendSelf
<1>8. NamesDistinct' /\ GoneEmpty' /\ KernelDistinct'
  BY <1>2, <1>3 DEF GInv, NamesDistinct, GoneEmpty, KernelDistinct
<1>9. SelfAlone'
  BY <1>1, <1>2 DEF GInv, SelfAlone
<1>10. NotBegun'
  BY <1>2, <1>3 DEF GInv, NotBegun, mainVars
<1>11. RootWatched'
  BY <1>2, <1>3, <1>7 DEF GInv, RootWatched, KernelDistinct, mainVars
<1>. QED
  BY <1>8, <1>9, <1>10, <1>11 DEF GInv

(* A new descriptor is no other's.                                         *)
LEMMA DescriptorFresh ==
  ASSUME IInv, NEW d \in Inodes, kernel[d] = 0
  PROVE  /\ \A e \in Inodes : kernel[e] # Descriptor(d)
         /\ Descriptor(d) \notin DOMAIN watches
         /\ \A i \in 1..Len(queue) : queue[i].wd # Descriptor(d)
BY DescriptorTyped DEF Used

(* What AddDirectory adds takes nothing away.                              *)
LEMMA Adds ==
  ASSUME IInv, KernelDistinct, NEW dir, AddDirectory(dir)
  PROVE  /\ KernelDistinct'
         /\ \A d \in Inodes : kernel[d] # 0 => kernel'[d] = kernel[d]
         /\ \A w \in DOMAIN watches : w \in DOMAIN watches' /\ watches'[w] = watches[w]
<1>1. CASE UNCHANGED <<kernel, watches>>
  BY <1>1 DEF KernelDistinct
<1>2. ASSUME NEW d \in Found(dir), kernel' = [kernel EXCEPT ![d] = Descriptor(d)],
             watches' = Insert(watches, Descriptor(d), dir)
      PROVE  /\ KernelDistinct'
             /\ \A e \in Inodes : kernel[e] # 0 => kernel'[e] = kernel[e]
             /\ \A w \in DOMAIN watches : w \in DOMAIN watches' /\ watches'[w] = watches[w]
  <2>1. d \in Inodes /\ kernel \in [Inodes -> Nat] /\ Descriptor(d) \in Nat \ {0}
    BY DescriptorTyped DEF Found, IInv, WatchesTyped
  <2>2. kernel[d] # 0 => Descriptor(d) = kernel[d]
    BY DEF Descriptor
  <2>3. kernel[d] = 0 => \A e \in Inodes : kernel[e] # Descriptor(d)
    BY <2>1, DescriptorFresh
  <2>4. \A w \in DOMAIN watches : w \in DOMAIN watches' /\ watches'[w] = watches[w]
    BY <1>2 DEF Insert
  <2>5. \A e \in Inodes : kernel'[e] = IF e = d THEN Descriptor(d) ELSE kernel[e]
    BY <1>2, <2>1
  <2>6. KernelDistinct'
    BY <2>1, <2>2, <2>3, <2>5 DEF KernelDistinct
  <2>. QED
    BY <2>2, <2>4, <2>5, <2>6
<1>. QED
  BY <1>1, <1>2 DEF AddDirectory

LEMMA AddDirectoryKeepsG ==
  ASSUME IInv, GInv, pc # "root", NEW dir, AddDirectory(dir),
         UNCHANGED <<fsVars, queue, buffer, listed>>, pc' # "root"
  PROVE  GInv'
<1>1. /\ KernelDistinct'
      /\ \A d \in Inodes : kernel[d] # 0 => kernel'[d] = kernel[d]
      /\ \A w \in DOMAIN watches : w \in DOMAIN watches' /\ watches'[w] = watches[w]
  BY Adds DEF GInv
<1>2. NamesDistinct' /\ GoneEmpty' /\ SelfAlone' /\ NotBegun'
  BY DEF GInv, NamesDistinct, GoneEmpty, SelfAlone, NotBegun, fsVars
<1>3. Root \in Inodes /\ (kernel[Root] \in DOMAIN watches => kernel[Root] # 0)
  BY DEF Inodes, IInv, WatchesTyped
<1>4. RootWatched'
  BY <1>1, <1>3 DEF GInv, RootWatched
<1>. QED
  BY <1>1, <1>2, <1>4 DEF GInv

(* Startup watches Root.                                                   *)
LEMMA StartWatchAdds ==
  ASSUME IInv, GInv, StartWatch
  PROVE  /\ \A d \in Inodes : d # Root => kernel'[d] = kernel[d]
         /\ kernel'[Root] \in DOMAIN watches' /\ watches'[kernel'[Root]] = Root
         /\ KernelDistinct'
<1>1. KernelDistinct'
  BY Adds DEF GInv, StartWatch
<1>2. Root \in Inodes /\ kernel \in [Inodes -> Nat] /\ kernel[Root] = 0
  BY DEF Inodes, IInv, WatchesTyped, GInv, NotBegun, StartWatch
<1>3. \A d \in Found(Root) : d = Root
  BY DirectoryAssumption DEF Found, At, Inodes, Root, IInv, FilesTyped
<1>4. Root \in Found(Root)
  BY <1>2 DEF Found, At
<1>5. /\ kernel' = [kernel EXCEPT ![Root] = Descriptor(Root)]
      /\ watches' = Insert(watches, Descriptor(Root), Root)
  BY <1>3, <1>4 DEF StartWatch, AddDirectory
<1>6. Descriptor(Root) \notin DOMAIN watches
  BY <1>2, DescriptorFresh
<1>. QED
  BY <1>1, <1>2, <1>5, <1>6 DEF Insert

LEMMA StartWatchKeepsG == IInv /\ GInv /\ StartWatch => GInv'
<1>. SUFFICES ASSUME IInv, GInv, StartWatch PROVE GInv'
  OBVIOUS
<1>1. NamesDistinct' /\ GoneEmpty' /\ SelfAlone'
  BY DEF GInv, NamesDistinct, GoneEmpty, SelfAlone, StartWatch, fsVars
<1>2. NotBegun'
  BY DEF NotBegun, StartWatch
<1>3. buffer' = <<>> /\ queue' = <<>>
  BY DEF IInv, BufferRead, GInv, NotBegun, StartWatch
<1>4. RootWatched'
  BY <1>3, StartWatchAdds, NothingComing DEF RootWatched
<1>. QED
  BY <1>1, <1>2, <1>4, StartWatchAdds DEF GInv

(* The steps that leave the file system and the kernel alone.              *)
LEMMA QuietKeepsG ==
  ASSUME GInv, UNCHANGED <<fsVars, kernel>>, pc # "root", pc' # "root", RootWatched'
  PROVE  GInv'
BY DEF GInv, NamesDistinct, GoneEmpty, KernelDistinct, SelfAlone, NotBegun, fsVars

LEMMA ReadEventKeepsG == IInv /\ GInv /\ ReadEvent => GInv'
<1>. SUFFICES ASSUME IInv, GInv, ReadEvent PROVE GInv'
  OBVIOUS
<1>. DEFINE e == Head(buffer)
<1>1. /\ e \in EventType /\ Tail(buffer) \in Seq(EventType)
      /\ \A w : SelfIn(buffer, w) <=>
                   SelfIn(Tail(buffer), w) \/ (e.wd = w /\ e.what = "self")
  BY HeadSelf DEF IInv, SequencesTyped, ReadEvent
<1>. HIDE DEF e
<1>2. /\ buffer' = Tail(buffer)
      /\ \/ e.wd \in DOMAIN watches /\ (Invalidate(e) \/ Report(e))
         \/ e.wd \notin DOMAIN watches /\ UNCHANGED <<watches, changes>>
      /\ pc = "reading"
      /\ UNCHANGED <<fsVars, kernel, queue, toWatch, pc, scanVars, listed>>
  BY DEF ReadEvent, e
<1>3. RootWatched
  BY DEF GInv
<1>4. \A w \in DOMAIN watches : \/ w \in DOMAIN watches' /\ watches'[w] = watches[w]
                                \/ w = e.wd /\ e.what = "self"
  BY <1>2 DEF Invalidate, Report, RemoveDirectory
<1>5. RootWatched'
  BY <1>1, <1>2, <1>3, <1>4 DEF RootWatched
<1>. QED
  BY <1>2, <1>5, QuietKeepsG

LEMMA MainKeepsG == IInv /\ GInv /\ Main => GInv'
<1>. SUFFICES ASSUME IInv, GInv, Main PROVE GInv'
  OBVIOUS
<1>1. CASE StartWatch
  BY <1>1, StartWatchKeepsG
<1>2. CASE ReadEvent
  BY <1>2, ReadEventKeepsG
<1>3. CASE Update
  <2>1. RootWatched'
    BY <1>3, NothingComing DEF Update, GInv, RootWatched
  <2>. QED
    BY <1>3, <2>1, QuietKeepsG DEF Update
<1>4. CASE WatchNew
  <2>1. CASE AddDirectory(Head(toWatch).path[2])
    BY <1>4, <2>1, AddDirectoryKeepsG DEF WatchNew
  <2>2. CASE UNCHANGED <<kernel, watches>>
    BY <1>4, <2>2, QuietKeepsG DEF WatchNew, GInv, RootWatched
  <2>. QED
    BY <1>4, <2>1, <2>2 DEF WatchNew
<1>5. ASSUME NEW dir \in DirPaths, ScanRead(dir) \/ ScanWatch(dir) PROVE GInv'
  <2>1. CASE ScanWatch(dir)
    BY <2>1, AddDirectoryKeepsG DEF ScanWatch
  <2>2. CASE ScanRead(dir)
    BY <2>2, QuietKeepsG DEF ScanRead, GInv, RootWatched
  <2>. QED
    BY <1>5, <2>1, <2>2
<1>6. ASSUME NEW p \in Paths, ScanEntry(p) \/ AddFound(p) PROVE GInv'
  BY <1>6, QuietKeepsG DEF ScanEntry, AddFound, GInv, RootWatched
<1>7. CASE FilterEvents \/ UpdateReturns \/ Dispatch \/ Loop
  BY <1>7, QuietKeepsG DEF FilterEvents, UpdateReturns, Dispatch, Loop, GInv, RootWatched
<1>. QED
  BY <1>1, <1>2, <1>3, <1>4, <1>5, <1>6, <1>7 DEF Main

LEMMA NextKeepsG == IInv /\ GInv /\ [Next]_vars => GInv'
<1>. SUFFICES ASSUME IInv, GInv, [Next]_vars PROVE GInv'
  OBVIOUS
<1>1. CASE UNCHANGED vars
  BY <1>1 DEF GInv, NamesDistinct, GoneEmpty, KernelDistinct, SelfAlone, NotBegun, RootWatched,
              vars, mainVars, fsVars
<1>. QED
  BY <1>1, FileSystemKeepsG, NotifyKeepsG, MainKeepsG DEF Next

-----------------------------------------------------------------------------
(* What is true of one file of which no change may be missed.              *)

OneDeletion(P, L) == \A i, j \in P : i = j /\ Deleted(L, i)

(* The file is in one directory, in Root or under it.                      *)
Places(f) == /\ \A d, e \in Inodes : f \in holds[d] /\ f \in holds[e] => d = e
             /\ \A d \in Inodes : f \in holds[d] => InTree(d)

(* Main has not begun: only a deletion in Root can be yet to be told.      *)
Unbegun(f) == \A i \in 1..Len(pending) : IsAbout(pending[i], f) =>
                 /\ pending[i].what = "delete" /\ pending[i].on = Root
                 /\ Silent(PathsOf(f))
                 /\ \A k \in 1..Len(pending) : IsAbout(pending[k], f) => k = i

(* The monitor has a watch for every event about f in F, and will have it  *)
(* to the end.                                                             *)
HeardIn(F, ws, f) == \A i \in 1..Len(F) : IsAbout(F[i], f) =>
                        /\ F[i].wd \in DOMAIN ws
                        /\ \A k \in 1..Len(F) : k < i /\ F[k].what = "self" => F[k].wd # F[i].wd

Heard(f) == HeardIn(InFlight, watches, f)

(* The search will find the file, and list it.                             *)
Queued(p) == \/ p \in found \union entries \/ p[1] \in unread \/ Root \in unread
             \/ p[1] \in DirNames /\ <<Root, p[1]>> \in entries

Scanned(f) ==
    /\ Silent(PathsOf(f)) => listed[f] = Absent
    /\ \A p \in PathsOf(f) : listed[f] = p \/ (listed[f] = Absent /\ Queued(p))

Tally(f) == Tokens(Line, f)

Live == {"loop"} \union Updating

Follow(f) == Heard(f) /\ Tells(Tally(f), Line, listed[f], PathsOf(f))
Startup(f) == OneDeletion(Tally(f), Line) /\ (Silent(Tally(f)) => Scanned(f))

FileInv(f) == /\ Places(f)
              /\ pc = "root" => Unbegun(f)
              /\ pc = "scan" => Follow(f) /\ Startup(f)
              /\ pc \in Live => Follow(f) /\ (Silent(Tally(f)) => Lists(f))

LInv == \A f \in Files \ missed : FileInv(f)


(* One line carries what the other said of f.                              *)
Carries(L, M, f, l, paths) ==
    /\ Tells(Tokens(L, f), L, l, paths) => Tells(Tokens(M, f), M, l, paths)
    /\ Silent(Tokens(M, f)) <=> Silent(Tokens(L, f))
    /\ OneDeletion(Tokens(L, f), L) => OneDeletion(Tokens(M, f), M)

LEMMA SameCarries ==
  ASSUME NEW L, NEW M, Len(L) \in Nat, Len(M) = Len(L), NEW f,
         \A i \in 1..Len(L) : About(L[i], f) \/ About(M[i], f) => M[i] = L[i],
         NEW l, NEW paths
  PROVE  Carries(L, M, f, l, paths)
<1>1. Tokens(M, f) = Tokens(L, f)
  BY SameLine
<1>2. Tells(Tokens(L, f), L, l, paths) => Tells(Tokens(M, f), M, l, paths)
  BY SameLine
<1>3. \A i \in Tokens(M, f) : M[i] = L[i]
  BY DEF Tokens
<1>4. OneDeletion(Tokens(L, f), L) => OneDeletion(Tokens(M, f), M)
  BY <1>1, <1>3 DEF OneDeletion, Deleted
<1>. QED
  BY <1>1, <1>2, <1>4 DEF Carries

LEMMA CutCarries ==
  ASSUME NEW L, NEW M, Len(L) \in Nat, NEW c \in 1..Len(L), Len(M) = Len(L) - 1,
         NEW f, ~About(L[c], f),
         \A k \in 1..Len(M) : About(M[k], f) \/ About(L[Up(k, c)], f) => M[k] = L[Up(k, c)],
         NEW l, NEW paths
  PROVE  Carries(L, M, f, l, paths)
<1>1. /\ Tells(Tokens(L, f), L, l, paths) => Tells(Tokens(M, f), M, l, paths)
      /\ Silent(Tokens(M, f)) <=> Silent(Tokens(L, f))
  BY CutOther
<1>4. \A k \in Tokens(M, f) : Up(k, c) \in Tokens(L, f) /\ M[k] = L[Up(k, c)]
  <2>1. \A k \in 1..Len(M) : Up(k, c) \in 1..Len(L)
    BY DEF Up
  <2>. QED
    BY <2>1 DEF Tokens
<1>2. \A k, m \in Tokens(M, f) : Up(k, c) = Up(m, c) => k = m
  BY DEF Up, Tokens
<1>3. OneDeletion(Tokens(L, f), L) => OneDeletion(Tokens(M, f), M)
  BY <1>2, <1>4 DEF OneDeletion, Deleted
<1>. QED
  BY <1>1, <1>3 DEF Carries

(* L is what was read and what is in flight.                               *)
Joined(L, c, F, ws) ==
    /\ Len(c) \in Nat /\ Len(F) \in Nat /\ Len(L) = Len(c) + Len(F)
    /\ \A i \in 1..Len(c) : L[i] = c[i]
    /\ \A i \in 1..Len(L) : Len(c) < i => L[i] = Told(ws, F[i - Len(c)])
    /\ \A i \in 1..Len(F) : F[i] \in FlightType

LEMMA LineJoined == IInv => Joined(Line, changes, InFlight, watches)
BY FactsNow DEF FlightFacts, LineFacts, Joined

LEMMA LineJoinedNext == IInv' => Joined(Line', changes', InFlight', watches')
<1>1. (IInv => Joined(Line, changes, InFlight, watches))'
  BY LineJoined, PTL
<1>. QED
  BY <1>1

(* The events in flight are the same but for those that say nothing of f,  *)
(* and no watch goes away.                                                 *)
LEMMA SameFlight ==
  ASSUME NEW L, NEW M, NEW c, NEW F, NEW G, NEW ws, NEW vs,
         Joined(L, c, F, ws), Joined(M, c, G, vs), NEW f \in Files, HeardIn(F, ws, f),
         Len(G) = Len(F),
         \A i \in 1..Len(F) : IsAbout(F[i], f) \/ IsAbout(G[i], f) => G[i] = F[i],
         \A i, k \in 1..Len(F) : IsAbout(F[i], f) /\ k < i /\ G[k].what = "self" => G[k] = F[k],
         \A w \in DOMAIN ws : w \in DOMAIN vs /\ vs[w] = ws[w],
         NEW l, NEW paths
  PROVE  Carries(L, M, f, l, paths) /\ HeardIn(G, vs, f)
<1>. DEFINE n == Len(c)
            m == Len(F)
<1>1. n \in Nat /\ m \in Nat /\ Len(L) = n + m /\ Len(M) = n + m
  BY DEF Joined
<1>2. ASSUME NEW i \in 1..n + m, About(L[i], f) \/ About(M[i], f)
      PROVE  M[i] = L[i]
  <2>1. CASE i <= n
    BY <1>1, <2>1 DEF Joined
  <2>2. CASE n < i
    <3>. DEFINE j == i - n
    <3>1. j \in 1..m /\ L[i] = Told(ws, F[j]) /\ M[i] = Told(vs, G[j])
      BY <1>1, <2>2 DEF Joined
    <3>2. F[j] \in FlightType /\ G[j] \in FlightType
      BY <3>1 DEF Joined
    <3>. HIDE DEF j, m
    <3>3. IsAbout(F[j], f) \/ IsAbout(G[j], f)
      BY <1>2, <3>1, <3>2, ToldAbout
    <3>4. G[j] = F[j] /\ F[j].wd \in DOMAIN ws
      BY <3>1, <3>3 DEF HeardIn, m
    <3>. QED
      BY <3>1, <3>4 DEF Told
  <2>. QED
    BY <1>1, <2>1, <2>2
<1>3. Carries(L, M, f, l, paths)
  <2>1. Len(L) \in Nat /\ Len(M) = Len(L)
        /\ \A i \in 1..Len(L) : About(L[i], f) \/ About(M[i], f) => M[i] = L[i]
    BY <1>1, <1>2
  <2>. QED
    BY ONLY <2>1, SameCarries
<1>4. HeardIn(G, vs, f)
  BY DEF HeardIn
<1>. QED
  BY <1>3, <1>4

(* One event in flight goes that says nothing of f, and at most watches    *)
(* that no event about f needs.                                            *)
LEMMA HeardCut ==
  ASSUME NEW F, NEW G, NEW ws, NEW vs, NEW f, HeardIn(F, ws, f),
         Len(F) \in Nat, NEW c \in 1..Len(F), Cut(F, G, c),
         \A k \in 1..Len(G) : IsAbout(G[k], f) => G[k].wd \in DOMAIN vs
  PROVE  HeardIn(G, vs, f)
<1>1. Len(G) = Len(F) - 1 /\ \A k \in 1..Len(G) : G[k] = F[Up(k, c)]
  BY DEF Cut
<1>2. \A k \in 1..Len(G) : Up(k, c) \in 1..Len(F)
  BY <1>1 DEF Up
<1>3. \A i, k \in 1..Len(G) : k < i => Up(k, c) < Up(i, c)
  BY <1>1 DEF Up
<1>4. ASSUME NEW i \in 1..Len(G), IsAbout(G[i], f), NEW k \in 1..Len(G), k < i,
             G[k].what = "self"
      PROVE  G[k].wd # G[i].wd
  <2>. DEFINE j == Up(i, c)
              h == Up(k, c)
  <2>1. h < j /\ j \in 1..Len(F) /\ h \in 1..Len(F) /\ G[i] = F[j] /\ G[k] = F[h]
    BY <1>1, <1>2, <1>3, <1>4
  <2>. HIDE DEF h, j
  <2>. QED
    BY <1>4, <2>1 DEF HeardIn
<1>. QED
  BY <1>4 DEF HeardIn

LEMMA CutFlight ==
  ASSUME NEW L, NEW M, NEW c, NEW F, NEW G, NEW ws, NEW vs,
         Joined(L, c, F, ws), Joined(M, c, G, vs), NEW f \in Files, HeardIn(F, ws, f),
         NEW x \in 1..Len(F), ~IsAbout(F[x], f), Cut(F, G, x),
         \A k \in 1..Len(G) : IsAbout(G[k], f) =>
            G[k].wd \in DOMAIN vs /\ vs[G[k].wd] = ws[G[k].wd],
         NEW l, NEW paths
  PROVE  Carries(L, M, f, l, paths) /\ HeardIn(G, vs, f)
<1>. DEFINE n == Len(c)
            m == Len(F)
            C == n + x
<1>1. /\ n \in Nat /\ m \in Nat /\ Len(L) = n + m /\ Len(G) = m - 1 /\ Len(M) = n + (m - 1)
      /\ x \in 1..m /\ C \in 1..n + m
  BY DEF Joined, Cut
<1>2. \A k \in 1..m - 1 : G[k] = F[Up(k, x)]
  BY <1>1 DEF Cut
<1>3. ~About(L[C], f)
  <2>1. L[C] = Told(ws, F[x]) /\ F[x] \in FlightType
    <3>1. n < C /\ C - n = x /\ C \in 1..Len(L)
      BY <1>1
    <3>. HIDE DEF C
    <3>. QED
      BY <1>1, <3>1 DEF Joined
  <2>. QED
    BY <2>1, ToldAbout
<1>4. ASSUME NEW k \in 1..Len(M), About(M[k], f) \/ About(L[Up(k, C)], f)
      PROVE  M[k] = L[Up(k, C)]
  <2>1. CASE k <= n
    <3>1. Up(k, C) = k /\ k \in 1..n /\ k \in 1..Len(L)
      BY <1>1, <2>1 DEF Up
    <3>. QED
      BY <1>1, <3>1 DEF Joined
  <2>2. CASE n < k
    <3>. DEFINE j == k - n
                h == Up(j, x)
    <3>1. j \in 1..m - 1 /\ M[k] = Told(vs, G[j])
      BY <1>1, <2>2 DEF Joined
    <3>2. h \in 1..m /\ Up(k, C) = n + h /\ n + h \in 1..Len(L) /\ n < n + h /\ (n + h) - n = h
      BY <1>1, <2>2, <3>1 DEF Up
    <3>3. G[j] = F[h]
      BY <1>2, <3>1
    <3>. HIDE DEF j, h, C
    <3>4. L[Up(k, C)] = Told(ws, F[h])
      BY <1>1, <3>2 DEF Joined
    <3>5. F[h] \in FlightType /\ j \in 1..Len(G)
      BY <1>1, <3>1, <3>2 DEF Joined
    <3>. HIDE DEF m
    <3>6. IsAbout(G[j], f)
      BY <1>4, <3>1, <3>3, <3>4, <3>5, ToldAbout
    <3>7. F[h].wd \in DOMAIN ws
      BY <3>2, <3>3, <3>6 DEF HeardIn, m
    <3>8. G[j].wd \in DOMAIN vs /\ vs[G[j].wd] = ws[G[j].wd]
      BY <3>5, <3>6
    <3>. QED
      BY <3>1, <3>3, <3>4, <3>7, <3>8 DEF Told
  <2>. QED
    BY <1>1, <2>1, <2>2
<1>5. Carries(L, M, f, l, paths)
  <2>1. /\ Len(L) \in Nat /\ Len(M) = Len(L) - 1 /\ C \in 1..Len(L)
        /\ \A k \in 1..Len(M) : About(M[k], f) \/ About(L[Up(k, C)], f) => M[k] = L[Up(k, C)]
    BY <1>1, <1>4
  <2>. HIDE DEF C
  <2>. QED
    BY ONLY <2>1, <1>3, CutCarries
<1>6. HeardIn(G, vs, f)
  BY <1>1, HeardCut
<1>. QED
  BY <1>5, <1>6

(* The file is where it was.                                               *)
LEMMA SamePlaces ==
  ASSUME UNCHANGED <<where, holds>>, NEW f
  PROVE  PathsOf(f)' = PathsOf(f) /\ (Places(f) => Places(f)')
BY DEF PathsOf, Places, InTree, At

(* The line carries what it said: nothing else of FileInv depends on it.   *)
LEMMA CarriedOn ==
  ASSUME NEW f \in Files, FileInv(f), UNCHANGED <<listed, found, entries, unread>>,
         PathsOf(f)' = PathsOf(f), Places(f)',
         pc' = pc \/ (pc \in Live /\ pc' \in Live), pc \in {"scan"} \union Live,
         Follow(f) => Carries(Line, Line', f, listed[f], PathsOf(f)) /\ Heard(f)'
  PROVE  FileInv(f)'
<1>1. Follow(f)
  BY DEF FileInv
<1>2. Carries(Line, Line', f, listed[f], PathsOf(f)) /\ Heard(f)'
  BY <1>1
<1>3. Follow(f)' /\ (Silent(Tally(f))' <=> Silent(Tally(f)))
  BY <1>1, <1>2 DEF Follow, Tally, Carries
<1>4. Lists(f) => Lists(f)'
  BY DEF Lists
<1>5. Startup(f) => Startup(f)'
  <2>1. Scanned(f) => Scanned(f)'
    BY DEF Scanned, Queued
  <2>. QED
    BY <1>2, <1>3, <2>1 DEF Startup, Tally, Carries
<1>6. pc' # "root" /\ (pc' = "scan" => pc = "scan") /\ (pc' \in Live => pc \in Live)
  BY DEF Live, Updating
<1>. QED
  BY <1>3, <1>4, <1>5, <1>6 DEF FileInv

-----------------------------------------------------------------------------
(* A notification becomes an event.                                        *)

LEMMA NotifyFlight ==
  ASSUME IInv, GInv, IInv', Notify, pc # "root", NEW f \in Files, Heard(f), NEW l, NEW paths
  PROVE  Carries(Line, Line', f, l, paths) /\ Heard(f)'
<1>. DEFINE n == Head(pending)
            e == [wd |-> kernel[n.on], what |-> n.what, name |-> n.name]
            F == InFlight
            G == InFlight'
            b == Len(buffer)
            q == Len(queue)
            r == Len(queue')
            p == Len(pending)
            c == b + q + 1
<1>1. /\ n = pending[1] /\ n \in NoteType /\ p \in Nat /\ p # 0 /\ Len(pending') = p - 1
      /\ \A i \in 1..p - 1 : pending'[i] = pending[i + 1]
  <2>1. pending # <<>> /\ pending \in Seq(NoteType) /\ Len(pending) \in Nat
    BY LenProperties DEF Notify, IInv, SequencesTyped
  <2>2. /\ n = pending[1] /\ n \in NoteType /\ Len(Tail(pending)) = p - 1
        /\ \A i \in 1..Len(Tail(pending)) : Tail(pending)[i] = pending[i + 1]
    BY <2>1, HeadTailProperties
  <2>. QED
    BY <2>1, <2>2, EmptySeq DEF Notify
<1>2. /\ queue' = IF kernel[n.on] = 0 THEN queue ELSE Append(queue, e)
      /\ kernel' = IF n.what = "self" /\ n.name = "gone"
                   THEN [kernel EXCEPT ![n.on] = 0] ELSE kernel
      /\ watches' = watches /\ buffer' = buffer /\ changes' = changes
  BY DEF Notify, mainVars
<1>3. FlightFacts /\ FlightFacts'
  BY FactsNow, FactsNext
<1>4. b \in Nat /\ q \in Nat /\ r \in Nat /\ Len(F) = b + q + p /\ Len(G) = b + r + (p - 1)
  BY <1>1, <1>2, <1>3 DEF FlightFacts
<1>5. \A i \in 1..Len(F) :
         /\ i <= b => F[i] = buffer[i]
         /\ b < i /\ i <= b + q => F[i] = queue[i - b]
         /\ b + q < i => F[i] = Resolved(kernel, pending[i - (b + q)])
  BY <1>3 DEF FlightFacts
<1>6. \A i \in 1..Len(G) :
         /\ i <= b => G[i] = buffer[i]
         /\ b < i /\ i <= b + r => G[i] = queue'[i - b]
         /\ b + r < i => G[i] = Resolved(kernel', pending'[i - (b + r)])
  BY <1>2, <1>3 DEF FlightFacts
<1>7. kernel \in [Inodes -> Nat] /\ n.on \in Inodes
  BY <1>1 DEF IInv, WatchesTyped, NoteType
<1>8. Joined(Line, changes, F, watches) /\ Joined(Line', changes, G, watches)
  BY <1>2, LineJoined, LineJoinedNext
<1>9. (Heard(f)' <=> HeardIn(G, watches, f)) /\ HeardIn(F, watches, f)
  BY <1>2 DEF Heard
<1>10. kernel[n.on] = 0 => kernel' = kernel /\ queue' = queue /\ r = q
  BY <1>2, <1>7
<1>11. kernel[n.on] # 0 => /\ r = q + 1 /\ queue'[q + 1] = e
                           /\ \A i \in 1..q : queue'[i] = queue[i]
  <2>. SUFFICES ASSUME kernel[n.on] # 0
                PROVE  /\ r = q + 1 /\ queue'[q + 1] = e
                       /\ \A i \in 1..q : queue'[i] = queue[i]
    OBVIOUS
  <2>1. queue \in Seq(EventType) /\ e \in EventType
    BY <1>1, <1>7 DEF IInv, SequencesTyped, EventType, NoteType
  <2>. HIDE DEF e
  <2>. QED
    BY <1>2, <2>1, AppendProperties
<1>12. \A i \in 1..p : pending[i].what \in {"create", "delete"} =>
          \A k \in 1..p : pending[k].what # "self"
  BY DEF GInv, SelfAlone
<1>13. 0 \notin DOMAIN watches
  BY DEF IInv, WatchesTyped
<1>14. e = Resolved(kernel, n)
  BY DEF Resolved
<1>. HIDE DEF F, G, b, q, r, p, n, e
<1>15. c \in 1..Len(F) /\ Len(F) \in Nat /\ F[c] = Resolved(kernel, n)
  <2>1. c \in 1..Len(F) /\ Len(F) \in Nat /\ b + q < c /\ c - (b + q) = 1
    BY <1>1, <1>4
  <2>. HIDE DEF c
  <2>. QED
    BY <1>1, <1>5, <2>1
<1>16. ASSUME NEW i \in 1..Len(F), c < i
       PROVE  \E j \in 1..p - 1 : /\ i - (b + q) = j + 1 /\ j + 1 \in 1..p /\ j = i - c
                                  /\ F[i] = Resolved(kernel, pending'[j])
                                  /\ pending'[j] = pending[j + 1]
  <2>. DEFINE j == i - c
  <2>1. j \in 1..p - 1 /\ i - (b + q) = j + 1 /\ j + 1 \in 1..p /\ b + q < i
    BY <1>1, <1>4, <1>16
  <2>. HIDE DEF c, j
  <2>2. F[i] = Resolved(kernel, pending[j + 1])
    BY <1>5, <2>1
  <2>. QED
    BY <1>1, <2>1, <2>2 DEF j
<1>17. CASE kernel[n.on] = 0
  <2>1. ~IsAbout(F[c], f)
    BY <1>9, <1>13, <1>15, <1>17 DEF HeardIn, Resolved
  <2>2. Len(G) = Len(F) - 1 /\ Len(G) \in Nat
    BY <1>1, <1>4, <1>10, <1>17
  <2>3. ASSUME NEW k \in 1..Len(G) PROVE G[k] = F[Up(k, c)]
    <3>1. CASE k < c
      <4>1. k \in 1..Len(F) /\ Up(k, c) = k /\ (k <= b \/ (b < k /\ k <= b + q))
        BY <1>1, <1>4, <2>2, <3>1 DEF Up
      <4>. QED
        BY <1>5, <1>6, <1>10, <1>17, <4>1
    <3>2. CASE ~(k < c)
      <4>1. k + 1 \in 1..Len(F) /\ Up(k, c) = k + 1 /\ c < k + 1 /\ b + q < k
            /\ (k + 1) - c = k - (b + q)
        BY <1>1, <1>4, <2>2, <3>2 DEF Up
      <4>2. F[k + 1] = Resolved(kernel, pending'[k - (b + q)])
        BY <1>16, <4>1
      <4>3. G[k] = Resolved(kernel, pending'[k - (b + q)])
        BY <1>6, <1>10, <1>17, <4>1
      <4>. QED
        BY <4>1, <4>2, <4>3
    <3>. QED
      BY <3>1, <3>2
  <2>4. Cut(F, G, c)
    BY <2>2, <2>3 DEF Cut
  <2>5. \A k \in 1..Len(G) : IsAbout(G[k], f) =>
           G[k].wd \in DOMAIN watches /\ watches[G[k].wd] = watches[G[k].wd]
    <3>1. \A k \in 1..Len(G) : Up(k, c) \in 1..Len(F)
      BY <1>15, <2>2 DEF Up
    <3>. QED
      BY <1>9, <2>3, <3>1 DEF HeardIn
  <2>. HIDE DEF c
  <2>. QED
    BY <1>8, <1>9, <1>15, <2>1, <2>4, <2>5, CutFlight
<1>18. CASE kernel[n.on] # 0
  <2>1. Len(G) = Len(F) /\ r = q + 1
    BY <1>1, <1>4, <1>11, <1>18
  <2>2. ASSUME NEW i \in 1..Len(F), i <= c PROVE G[i] = F[i]
    <3>1. CASE i <= b
      BY <1>5, <1>6, <2>1, <3>1
    <3>2. CASE b < i /\ i <= b + q
      <4>1. i - b \in 1..q /\ i <= b + r
        BY <1>4, <2>1, <3>2
      <4>. QED
        BY <1>5, <1>6, <1>11, <1>18, <2>1, <3>2, <4>1
    <3>3. CASE i = c
      <4>1. b < c /\ c <= b + r /\ c - b = q + 1
        BY <1>4, <2>1
      <4>. HIDE DEF c
      <4>. QED
        BY <1>6, <1>11, <1>14, <1>15, <1>18, <2>1, <3>3, <4>1
    <3>. QED
      BY <1>4, <2>2, <3>1, <3>2, <3>3
  <2>3. ASSUME NEW i \in 1..Len(F), c < i
        PROVE  \E j \in 1..p : /\ G[i] = Resolved(kernel', pending[j])
                               /\ F[i] = Resolved(kernel, pending[j])
    <3>1. PICK j \in 1..p - 1 : /\ i - (b + q) = j + 1 /\ j + 1 \in 1..p /\ j = i - c
                                /\ F[i] = Resolved(kernel, pending'[j])
                                /\ pending'[j] = pending[j + 1]
      BY <1>16, <2>3
    <3>2. b + r < i /\ i - (b + r) = j
      BY <1>4, <2>1, <2>3, <3>1
    <3>3. G[i] = Resolved(kernel', pending'[j])
      BY <1>6, <2>1, <3>2
    <3>. QED
      BY <3>1, <3>3
  <2>4. ASSUME NEW i \in 1..Len(F), c < i
        PROVE  F[i].what = G[i].what /\ F[i].name = G[i].name
    <3>1. PICK j \in 1..p : /\ G[i] = Resolved(kernel', pending[j])
                            /\ F[i] = Resolved(kernel, pending[j])
      BY <2>3, <2>4
    <3>. QED
      BY <3>1 DEF Resolved
  <2>5. ASSUME NEW i \in 1..Len(F), c < i, IsAbout(F[i], f)
        PROVE  /\ kernel' = kernel
               /\ \A k \in 1..Len(F) : c < k => F[k].what # "self"
    <3>1. PICK j \in 1..p : F[i] = Resolved(kernel, pending[j])
      BY <2>3, <2>5
    <3>2. pending[j].what \in {"create", "delete"}
      BY <2>5, <3>1 DEF Resolved, IsAbout
    <3>3. \A k \in 1..p : pending[k].what # "self"
      BY <1>12, <3>2
    <3>4. n.what # "self"
      BY <1>1, <3>3
    <3>5. ASSUME NEW k \in 1..Len(F), c < k PROVE F[k].what # "self"
      <4>1. PICK h \in 1..p : F[k] = Resolved(kernel, pending[h])
        BY <2>3, <3>5
      <4>. QED
        BY <3>3, <4>1 DEF Resolved
    <3>. QED
      BY <1>2, <3>4, <3>5
  <2>6. ASSUME NEW i \in 1..Len(F), IsAbout(F[i], f) \/ IsAbout(G[i], f)
        PROVE  G[i] = F[i]
    <3>1. CASE c < i
      <4>1. IsAbout(F[i], f)
        BY <2>4, <2>6, <3>1 DEF IsAbout
      <4>. QED
        BY <2>3, <2>5, <3>1, <4>1
    <3>. QED
      BY <1>4, <2>2, <3>1
  <2>7. ASSUME NEW i \in 1..Len(F), NEW k \in 1..Len(F), IsAbout(F[i], f), k < i,
               G[k].what = "self"
        PROVE  G[k] = F[k]
    <3>1. CASE c < k
      <4>1. c < i /\ F[k].what = "self"
        BY <1>4, <2>4, <2>7, <3>1
      <4>. QED
        BY <2>5, <2>7, <3>1, <4>1
    <3>. QED
      BY <1>4, <2>2, <3>1
  <2>. HIDE DEF c
  <2>. QED
    BY <1>8, <1>9, <2>1, <2>6, <2>7, SameFlight
<1>. QED
  BY <1>17, <1>18
LEMMA NotifyKeepsFile ==
  ASSUME IInv, GInv, IInv', Notify, NEW f \in Files, FileInv(f)
  PROVE  FileInv(f)'
<1>1. UNCHANGED <<where, holds, listed, found, entries, unread, pc>> /\ pending' = Tail(pending)
  BY DEF Notify, mainVars, scanVars
<1>2. CASE pc \in {"scan"} \union Live
  <2>1. pc # "root"
    BY <1>2 DEF Live, Updating
  <2>2. Follow(f) => Carries(Line, Line', f, listed[f], PathsOf(f)) /\ Heard(f)'
    BY <2>1, NotifyFlight DEF Follow
  <2>3. PathsOf(f)' = PathsOf(f) /\ Places(f)'
    BY <1>1, SamePlaces DEF FileInv
  <2>. QED
    BY <1>1, <1>2, <2>2, <2>3, CarriedOn
<1>3. CASE pc \notin {"scan"} \union Live
  <2>1. /\ Len(pending) \in Nat /\ Len(pending') = Len(pending) - 1
        /\ \A i \in 1..Len(pending') : pending'[i] = pending[i + 1]
    BY LenProperties, HeadTailProperties DEF Notify, IInv, SequencesTyped
  <2>2. \A i, k \in 1..Len(pending') : /\ i + 1 \in 1..Len(pending) /\ k + 1 \in 1..Len(pending)
                                       /\ k + 1 = i + 1 => k = i
    BY <2>1
  <2>3. PathsOf(f)' = PathsOf(f) /\ (Places(f) => Places(f)')
    BY <1>1, SamePlaces
  <2>4. Unbegun(f) => Unbegun(f)'
    BY <2>1, <2>2, <2>3 DEF Unbegun
  <2>. QED
    BY <1>1, <1>3, <2>3, <2>4 DEF FileInv
<1>. QED
  BY <1>2, <1>3

-----------------------------------------------------------------------------
(* A change of the file system, which puts notifications at the end of the *)
(* line.                                                                   *)

LEMMA ChangeFlight ==
  ASSUME IInv, IInv', NEW notes \in Seq(NoteType), NEW files, Change(notes, files)
  PROVE  /\ Len(notes) \in Nat /\ Len(Line) \in Nat /\ Len(InFlight) \in Nat
         /\ Len(InFlight') = Len(InFlight) + Len(notes) /\ Len(Events) = Len(InFlight)
         /\ \A i \in 1..Len(InFlight) : InFlight'[i] = InFlight[i] /\ InFlight[i] = Events[i]
         /\ \A k \in 1..Len(notes) :
               InFlight'[Len(InFlight) + k] = Resolved(kernel, notes[k])
         /\ Len(Line') = Len(Line) + Len(notes)
         /\ \A i \in 1..Len(Line) : Line'[i] = Line[i]
         /\ \A k \in 1..Len(notes) :
               Line'[Len(Line) + k] = Told(watches, Resolved(kernel, notes[k]))
<1>. DEFINE F == InFlight
            G == InFlight'
            L == Line
            M == Line'
            b == Len(buffer)
            q == Len(queue)
            n == Len(notes)
            c == Len(changes)
<1>1. /\ pending = <<>> /\ pending' = notes /\ buffer' = buffer /\ queue' = queue
      /\ kernel' = kernel /\ watches' = watches /\ changes' = changes
  BY DEF Change, mainVars
<1>2. FlightFacts /\ FlightFacts' /\ LineFacts /\ LineFacts'
  BY FactsNow, FactsNext
<1>3. n \in Nat
  BY LenProperties
<1>4. b \in Nat /\ q \in Nat /\ Len(F) = b + q /\ Len(G) = b + q + n
  BY <1>1, <1>2, <1>3 DEF FlightFacts
<1>5. \A i \in 1..Len(F) : (i <= b => F[i] = buffer[i]) /\ (b < i => F[i] = queue[i - b])
  BY <1>2, <1>4 DEF FlightFacts
<1>6. \A i \in 1..Len(G) : /\ i <= b => G[i] = buffer[i]
                           /\ b < i /\ i <= b + q => G[i] = queue[i - b]
                           /\ b + q < i => G[i] = Resolved(kernel, notes[i - (b + q)])
  BY <1>1, <1>2 DEF FlightFacts
<1>7. /\ c \in Nat /\ Len(L) = c + Len(F) /\ Len(M) = c + Len(G)
      /\ \A i \in 1..c : L[i] = changes[i] /\ M[i] = changes[i]
  BY <1>1, <1>2 DEF LineFacts
<1>8. \A i \in 1..Len(L) : c < i => L[i] = Told(watches, F[i - c])
  BY <1>2 DEF LineFacts
<1>9. \A i \in 1..Len(M) : c < i => M[i] = Told(watches, G[i - c])
  BY <1>1, <1>2 DEF LineFacts
<1>10. /\ \A i \in 1..b + q : Events[i] = IF i <= b THEN buffer[i] ELSE queue[i - b]
       /\ Len(Events) = b + q
  <2>1. buffer \in Seq(EventType) /\ queue \in Seq(EventType)
    BY DEF IInv, SequencesTyped
  <2>. QED
    BY ONLY <2>1, ConcatProperties DEF Events
<1>. HIDE DEF F, G, L, M, b, q, n, c
<1>11. ASSUME NEW i \in 1..Len(F) PROVE G[i] = F[i] /\ F[i] = Events[i]
  <2>1. i \in 1..Len(G) /\ i \in 1..b + q /\ i <= b + q
    BY <1>3, <1>4
  <2>2. CASE i <= b
    BY <1>5, <1>6, <1>10, <2>1, <2>2
  <2>3. CASE ~(i <= b)
    <3>1. b < i
      BY <1>4, <2>3
    <3>. QED
      BY <1>5, <1>6, <1>10, <2>1, <2>3, <3>1
  <2>. QED
    BY <2>2, <2>3
<1>12. ASSUME NEW k \in 1..n PROVE G[Len(F) + k] = Resolved(kernel, notes[k])
  <2>1. Len(F) + k \in 1..Len(G) /\ b + q < Len(F) + k /\ (Len(F) + k) - (b + q) = k
    BY <1>3, <1>4
  <2>. QED
    BY <1>6, <2>1
<1>13. ASSUME NEW i \in 1..Len(L) PROVE M[i] = L[i]
  <2>1. CASE i <= c
    BY <1>7, <2>1
  <2>2. CASE c < i
    <3>1. i - c \in 1..Len(F) /\ i \in 1..Len(M)
      BY <1>3, <1>4, <1>7, <2>2
    <3>. QED
      BY <1>8, <1>9, <1>11, <2>2, <3>1
  <2>. QED
    BY <1>7, <2>1, <2>2
<1>14. ASSUME NEW k \in 1..n PROVE M[Len(L) + k] = Told(watches, Resolved(kernel, notes[k]))
  <2>1. /\ Len(L) + k \in 1..Len(M) /\ c < Len(L) + k /\ (Len(L) + k) - c = Len(F) + k
    BY <1>3, <1>4, <1>7
  <2>. QED
    BY <1>9, <1>12, <2>1
<1>15. n \in Nat /\ Len(Events) = Len(F) /\ Len(L) \in Nat /\ Len(F) \in Nat /\ Len(G) = Len(F) + n /\ Len(M) = Len(L) + n
  BY <1>3, <1>4, <1>7, <1>10
<1>. QED
  BY <1>11, <1>12, <1>13, <1>14, <1>15 DEF F, G, L, M, n

(* The monitor knows of the directory, and will as long as it is there.    *)
Sound(d) == /\ kernel[d] \in DOMAIN watches /\ watches[kernel[d]] = At(d)
            /\ ~SelfComing(kernel[d])

LEMMA CoveredSound ==
  ASSUME IInv, GInv, pc # "root", NEW d \in Inodes, Covered(d)
  PROVE  Sound(d) /\ InTree(d)
<1>1. CASE d = Root
  <2>1. /\ kernel[Root] \in DOMAIN watches /\ watches[kernel[Root]] = Root
        /\ ~SelfIn(buffer, kernel[Root]) /\ ~SelfIn(queue, kernel[Root])
    BY DEF GInv, RootWatched
  <2>2. ~SelfIn(Events, kernel[Root])
    BY <2>1, ComingIsIn DEF IInv, SequencesTyped, Events
  <2>. QED
    BY <1>1, <2>1, <2>2 DEF Sound, SelfComing, SelfIn, InTree, DirPaths, At
<1>2. CASE d # Root
  BY <1>2 DEF Covered, Sound, At
<1>. QED
  BY <1>1, <1>2

(* A change that is noted of f is one in a directory the monitor knows.    *)
LEMMA ChangeHeard ==
  ASSUME IInv, IInv', NEW notes \in Seq(NoteType), NEW files, Change(notes, files),
         NEW f \in Files, Heard(f),
         \A k \in 1..Len(notes) : IsAbout(notes[k], f) =>
            /\ Sound(notes[k].on)
            /\ \A m \in 1..Len(notes) : notes[m].what # "self"
  PROVE  Heard(f)'
<1>. DEFINE F == InFlight
            G == InFlight'
            n == Len(F)
            m == Len(notes)
<1>1. /\ n \in Nat /\ m \in Nat /\ Len(G) = n + m /\ Len(Events) = n
      /\ \A i \in 1..n : G[i] = F[i] /\ F[i] = Events[i]
      /\ \A k \in 1..m : G[n + k] = Resolved(kernel, notes[k])
  BY ChangeFlight
<1>2. watches' = watches /\ HeardIn(F, watches, f)
  BY DEF Change, mainVars, Heard
<1>3. Heard(f)' <=> HeardIn(G, watches, f)
  BY <1>2 DEF Heard
<1>4. \A k \in 1..m : IsAbout(notes[k], f) =>
            /\ Sound(notes[k].on)
            /\ \A h \in 1..m : notes[h].what # "self"
  OBVIOUS
<1>. HIDE DEF F, G, n, m
<1>5. \A i \in 1..Len(G) : i \in 1..n \/ \E k \in 1..m : i = n + k
  <2>1. \A i \in 1..Len(G) : i \in 1..n \/ (i - n \in 1..m /\ i = n + (i - n))
    BY <1>1
  <2>. QED
    BY <2>1
<1>6. ASSUME NEW i \in 1..Len(G), IsAbout(G[i], f) PROVE G[i].wd \in DOMAIN watches
  <2>1. CASE i \in 1..n
    BY <1>1, <1>2, <1>6, <2>1 DEF HeardIn, n
  <2>2. ASSUME NEW k \in 1..m, i = n + k PROVE G[i].wd \in DOMAIN watches
    <3>1. G[i] = Resolved(kernel, notes[k])
      BY <1>1, <2>2
    <3>2. IsAbout(notes[k], f)
      BY <1>6, <3>1 DEF IsAbout, Resolved
    <3>3. Sound(notes[k].on)
      BY <1>4, <3>2
    <3>. QED
      BY <3>1, <3>3 DEF Sound, Resolved
  <2>. QED
    BY <1>5, <2>1, <2>2
<1>7. ASSUME NEW i \in 1..Len(G), IsAbout(G[i], f), NEW h \in 1..Len(G), h < i,
             G[h].what = "self"
      PROVE  G[h].wd # G[i].wd
  <2>1. CASE i \in 1..n
    <3>1. h \in 1..n
      BY <1>1, <1>7, <2>1
    <3>. QED
      BY <1>1, <1>2, <1>7, <2>1, <3>1 DEF HeardIn, n
  <2>2. ASSUME NEW k \in 1..m, i = n + k PROVE G[h].wd # G[i].wd
    <3>1. G[i] = Resolved(kernel, notes[k])
      BY <1>1, <2>2
    <3>2. IsAbout(notes[k], f)
      BY <1>7, <3>1 DEF IsAbout, Resolved
    <3>3. Sound(notes[k].on) /\ \A j \in 1..m : notes[j].what # "self"
      BY <1>4, <3>2
    <3>4. CASE h \in 1..n
      <4>1. G[h] = Events[h] /\ h \in 1..Len(Events)
        BY <1>1, <3>4
      <4>. QED
        BY <1>7, <3>1, <3>3, <4>1 DEF Sound, SelfComing, Resolved
    <3>5. ASSUME NEW j \in 1..m, h = n + j PROVE FALSE
      <4>1. G[h] = Resolved(kernel, notes[j])
        BY <1>1, <3>5
      <4>. QED
        BY <1>7, <3>3, <4>1 DEF Resolved
    <3>. QED
      BY <1>5, <3>4, <3>5
  <2>. QED
    BY <1>5, <2>1, <2>2
<1>8. HeardIn(G, watches, f)
  BY <1>6, <1>7 DEF HeardIn
<1>. QED
  BY <1>3, <1>8

(* What the notifications add to the tokens of f.                          *)
Noted(notes, f) == {k \in 1..Len(notes) : IsAbout(notes[k], f)}

LEMMA ChangeTokens ==
  ASSUME IInv, IInv', NEW notes \in Seq(NoteType), NEW files, Change(notes, files),
         NEW f \in Files, NEW n, n = Len(Line)
  PROVE  /\ n \in Nat /\ Tally(f) \in SUBSET Nat
         /\ \A i \in Tally(f) : i <= n /\ Line'[i] = Line[i]
         /\ Tally(f)' = Tally(f) \union {n + k : k \in Noted(notes, f)}
         /\ \A k \in Noted(notes, f) :
               /\ Created(Line', n + k) <=> notes[k].what = "create"
               /\ Deleted(Line', n + k) <=> notes[k].what = "delete"
               /\ Sound(notes[k].on) => Line'[n + k].path = <<At(notes[k].on), f>>
<1>. DEFINE L == Line
            M == Line'
            m == Len(notes)
            e(k) == Resolved(kernel, notes[k])
<1>1. /\ n \in Nat /\ m \in Nat /\ Len(L) = n /\ Len(M) = n + m
      /\ \A i \in 1..n : M[i] = L[i]
      /\ \A k \in 1..m : M[n + k] = Told(watches, e(k))
  BY ChangeFlight
<1>2. \A k \in 1..m : e(k) \in FlightType
  <2>1. \A k \in 1..m : notes[k] \in NoteType
    BY ElementOfSeq
  <2>. QED
    BY <2>1 DEF IInv, WatchesTyped, Resolved, NoteType, FlightType
<1>3. \A k \in 1..m : /\ e(k).what = notes[k].what /\ e(k).name = notes[k].name
                      /\ e(k).wd = kernel[notes[k].on]
  BY DEF Resolved
<1>4. Tally(f) = Tokens(L, f) /\ Tally(f)' = Tokens(M, f)
  BY DEF Tally
<1>5. Noted(notes, f) = {k \in 1..m : IsAbout(notes[k], f)}
  BY DEF Noted
<1>. HIDE DEF L, M, m, e
<1>6. \A k \in 1..m : About(M[n + k], f) <=> IsAbout(notes[k], f)
  <2>. SUFFICES ASSUME NEW k \in 1..m PROVE About(M[n + k], f) <=> IsAbout(notes[k], f)
    OBVIOUS
  <2>1. About(Told(watches, e(k)), f) <=> IsAbout(e(k), f)
    BY <1>2, ToldAbout
  <2>. QED
    BY <1>1, <1>3, <2>1 DEF IsAbout
<1>7. Tokens(L, f) \in SUBSET Nat /\ \A i \in Tokens(L, f) : i <= n /\ M[i] = L[i]
  BY <1>1 DEF Tokens
<1>8. ASSUME NEW i \in Tokens(M, f)
      PROVE  i \in Tokens(L, f) \union {n + k : k \in Noted(notes, f)}
  <2>1. i \in 1..Len(M) /\ About(M[i], f)
    BY DEF Tokens
  <2>2. CASE i <= n
    BY <1>1, <2>1, <2>2 DEF Tokens
  <2>3. CASE ~(i <= n)
    <3>. DEFINE k == i - n
    <3>1. k \in 1..m /\ i = n + k
      BY <1>1, <2>1, <2>3
    <3>. HIDE DEF k
    <3>. QED
      BY <1>5, <1>6, <2>1, <3>1
  <2>. QED
    BY <2>2, <2>3
<1>9. ASSUME NEW i \in Tokens(L, f) PROVE i \in Tokens(M, f)
  BY <1>1 DEF Tokens
<1>10. ASSUME NEW k \in Noted(notes, f) PROVE n + k \in Tokens(M, f)
  <2>1. k \in 1..m /\ n + k \in 1..Len(M)
    BY <1>1, <1>5
  <2>. QED
    BY <1>5, <1>6, <2>1 DEF Tokens
<1>11. ASSUME NEW k \in Noted(notes, f)
       PROVE  /\ Created(M, n + k) <=> notes[k].what = "create"
              /\ Deleted(M, n + k) <=> notes[k].what = "delete"
              /\ Sound(notes[k].on) => M[n + k].path = <<At(notes[k].on), f>>
  <2>1. k \in 1..m /\ M[n + k] = Told(watches, e(k)) /\ notes[k].name = f
    BY <1>1, <1>5 DEF IsAbout
  <2>2. /\ Told(watches, e(k)).type = "file_create" <=> e(k).what = "create"
        /\ Told(watches, e(k)).type = "file_delete" <=> e(k).what = "delete"
        /\ e(k).wd \in DOMAIN watches => Told(watches, e(k)).path = <<watches[e(k).wd], e(k).name>>
    BY <1>2, <2>1, ToldAbout
  <2>. QED
    BY <1>3, <2>1, <2>2 DEF Sound, Created, Deleted
<1>12. Tokens(M, f) = Tokens(L, f) \union {n + k : k \in Noted(notes, f)}
  BY <1>8, <1>9, <1>10
<1>. QED
  BY <1>1, <1>4, <1>7, <1>11, <1>12 DEF L, M

LEMMA NotedIs ==
  ASSUME IInv, IInv', NEW notes \in Seq(NoteType), NEW files, Change(notes, files),
         NEW f \in Files, NEW n, n = Len(Line), NEW k \in Noted(notes, f)
  PROVE  /\ Created(Line', n + k) <=> notes[k].what = "create"
         /\ Deleted(Line', n + k) <=> notes[k].what = "delete"
         /\ Sound(notes[k].on) => Line'[n + k].path = <<At(notes[k].on), f>>
BY ChangeTokens

LEMMA ChangeTells ==
  ASSUME IInv, IInv', NEW notes \in Seq(NoteType), NEW files, Change(notes, files),
         NEW f \in Files, NEW l, NEW paths, Tells(Tally(f), Line, l, paths)
  PROVE  Tells(Tally(f), Line', l, paths)
<1>1. /\ Len(Line) \in Nat /\ Len(Line') \in Nat /\ Len(Line) <= Len(Line')
      /\ \A i \in 1..Len(Line) : Line'[i] = Line[i]
  <2>1. /\ Len(Line) \in Nat /\ Len(notes) \in Nat /\ Len(Line') = Len(Line) + Len(notes)
        /\ \A i \in 1..Len(Line) : Line'[i] = Line[i]
    BY ChangeFlight
  <2>. QED
    BY <2>1
<1>2. Tally(f) = Tokens(Line, f)
  BY DEF Tally
<1>. DEFINE L == Line
            M == Line'
<1>. HIDE DEF L, M
<1>3. Tells(Tokens(L, f), L, l, paths) => Tells(Tokens(L, f), M, l, paths)
  BY <1>1, LongerLine DEF L, M
<1>. QED
  BY <1>2, <1>3 DEF L, M

(* Nothing in the line deletes a file that is not made in a hurry.         *)
LEMMA NoDeletions ==
  ASSUME IInv, NEW f \in Files, ~Hurried(f), pending = <<>>, NEW i \in Tally(f)
  PROVE  ~Deleted(Line, i)
<1>. SUFFICES ASSUME Deleted(Line, i) PROVE FALSE
  OBVIOUS
<1>1. Joined(Line, changes, InFlight, watches) /\ FlightFacts
  BY LineJoined, FactsNow
<1>2. i \in 1..Len(Line) /\ About(Line[i], f) /\ Line[i].type = "file_delete"
  BY DEF Tally, Tokens, Deleted
<1>3. CASE i <= Len(changes)
  <2>1. i \in 1..Len(changes) /\ changes[i] = Line[i]
    BY <1>1, <1>2, <1>3 DEF Joined
  <2>. QED
    BY <1>2, <2>1 DEF Hurried, About
<1>4. CASE ~(i <= Len(changes))
  <2>. DEFINE j == i - Len(changes)
  <2>1. j \in 1..Len(InFlight) /\ Line[i] = Told(watches, InFlight[j])
    BY <1>1, <1>2, <1>4 DEF Joined
  <2>. HIDE DEF j
  <2>2. InFlight[j] \in FlightType
    BY <1>1, <2>1 DEF Joined
  <2>3. InFlight[j].what = "delete" /\ InFlight[j].name = f
    BY <1>2, <2>1, <2>2, ToldAbout DEF IsAbout
  <2>4. j \in 1..Len(Events) /\ Events[j] = InFlight[j]
    <3>. DEFINE b == Len(buffer)
                q == Len(queue)
    <3>1. b \in Nat /\ q \in Nat /\ Len(InFlight) = b + q
      BY <1>1 DEF FlightFacts
    <3>2. (j <= b => InFlight[j] = buffer[j]) /\ (b < j => InFlight[j] = queue[j - b])
      BY <1>1, <2>1, <3>1 DEF FlightFacts
    <3>3. /\ Len(Events) = b + q
          /\ \A k \in 1..b + q : Events[k] = IF k <= b THEN buffer[k] ELSE queue[k - b]
      <4>1. buffer \in Seq(EventType) /\ queue \in Seq(EventType)
        BY DEF IInv, SequencesTyped
      <4>. QED
        BY ONLY <4>1, ConcatProperties DEF Events
    <3>. HIDE DEF b, q
    <3>. QED
      BY <2>1, <3>1, <3>2, <3>3
  <2>. QED
    BY <2>3, <2>4 DEF Hurried
<1>. QED
  BY <1>3, <1>4

(* Nothing is noted of f.                                                  *)
LEMMA ChangeElsewhere ==
  ASSUME IInv, IInv', NEW notes \in Seq(NoteType), NEW files, Change(notes, files),
         NEW f \in Files, FileInv(f), \A k \in 1..Len(notes) : ~IsAbout(notes[k], f),
         PathsOf(f)' = PathsOf(f), Places(f)'
  PROVE  FileInv(f)'
<1>1. pending' = notes /\ UNCHANGED <<listed, found, entries, unread, pc>>
  BY DEF Change, mainVars, scanVars
<1>2. CASE pc \in {"scan"} \union Live
  <2>1. Noted(notes, f) = {}
    BY DEF Noted
  <2>2. Tally(f)' = Tally(f) /\ \A i \in Tally(f) : Line'[i] = Line[i]
    BY <2>1, ChangeTokens
  <2>3. ASSUME Follow(f) PROVE Heard(f)' /\ Tells(Tally(f), Line', listed[f], PathsOf(f))
    BY <2>3, ChangeHeard, ChangeTells DEF Follow
  <2>4. OneDeletion(Tally(f), Line) => OneDeletion(Tally(f), Line')
    BY <2>2 DEF OneDeletion, Deleted
  <2>5. Follow(f) => Carries(Line, Line', f, listed[f], PathsOf(f)) /\ Heard(f)'
    BY <2>2, <2>3, <2>4 DEF Carries, Tally
  <2>. QED
    BY <1>1, <1>2, <2>5, CarriedOn
<1>3. CASE pc \notin {"scan"} \union Live
  BY <1>1, <1>3 DEF FileInv, Unbegun
<1>. QED
  BY <1>2, <1>3

(* The file is deleted, in a directory the monitor knows.                  *)
LEMMA ChangeDeletes ==
  ASSUME IInv, GInv, IInv', NEW notes \in Seq(NoteType), NEW files, Change(notes, files),
         NEW f \in Files, FileInv(f), NEW d \in Inodes, f \in holds[d], Covered(d),
         NEW h \in 1..Len(notes), notes[h] = Note(d, "delete", f),
         \A k \in 1..Len(notes) : /\ IsAbout(notes[k], f) => k = h
                                  /\ notes[k].what # "self",
         \A e \in Inodes : f \notin holds'[e]
  PROVE  FileInv(f)'
<1>1. pending' = notes /\ UNCHANGED <<listed, found, entries, unread, pc, watches>>
  BY DEF Change, mainVars, scanVars
<1>2. PathsOf(f)' = {} /\ Places(f)' /\ PathsOf(f) = {<<At(d), f>>}
  BY DEF PathsOf, Places, FileInv
<1>3. notes[h].on = d /\ notes[h].what = "delete" /\ IsAbout(notes[h], f)
  BY DEF Note, IsAbout
<1>4. CASE pc = "root"
  <2>1. d = Root
    BY <1>4 DEF Covered, GInv, NotBegun, IInv, WatchesTyped
  <2>2. Unbegun(f)'
    BY <1>1, <1>2, <1>3, <2>1 DEF Unbegun, Silent
  <2>. QED
    BY <1>1, <1>2, <1>4, <2>2 DEF FileInv, Live, Updating
<1>5. CASE pc \in {"scan"} \union Live
  <2>. DEFINE n == Len(Line)
              P == Tally(f)
              M == Line'
  <2>1. Follow(f) /\ Sound(d)
    BY <1>5, CoveredSound DEF FileInv, Live, Updating
  <2>2. Heard(f)'
    BY <1>3, <2>1, ChangeHeard DEF Follow
  <2>3. Tells(P, M, listed[f], {<<At(d), f>>})
    BY <1>2, <2>1, ChangeTells DEF Follow
  <2>4. Noted(notes, f) = {h}
    BY <1>3 DEF Noted
  <2>5. /\ n \in Nat /\ P \in SUBSET Nat /\ Tally(f)' = P \union {n + h}
        /\ \A i \in P : i <= n /\ M[i] = Line[i]
        /\ Deleted(M, n + h) /\ M[n + h].path = <<At(d), f>>
    <3>1. /\ n \in Nat /\ P \in SUBSET Nat
          /\ Tally(f)' = P \union {n + k : k \in Noted(notes, f)}
          /\ \A i \in P : i <= n /\ M[i] = Line[i]
      BY ChangeTokens
    <3>2. ASSUME NEW k \in Noted(notes, f)
          PROVE  /\ Deleted(M, n + k) <=> notes[k].what = "delete"
                 /\ Sound(notes[k].on) => M[n + k].path = <<At(notes[k].on), f>>
      BY NotedIs
    <3>. QED
      BY <1>3, <2>1, <2>4, <3>1, <3>2
  <2>6. P = Tokens(Line, f) /\ h \in Nat /\ 0 < h
    BY LenProperties DEF Tally
  <2>7. f \in DOMAIN listed /\ listed'[f] = listed[f]
    BY <1>1 DEF IInv, MainTyped
  <2>. HIDE DEF n, P, M
  <2>8. n + h \in Nat /\ \A i \in P : i < n + h
    BY <2>5, <2>6
  <2>9. Tells(P \union {n + h}, M, listed[f], {})
    BY <2>3, <2>5, <2>8, WithDeletion
  <2>10. Follow(f)'
    BY <1>2, <2>2, <2>5, <2>7, <2>9 DEF Follow, M
  <2>11. ~Silent(Tally(f))'
    BY <2>5 DEF Silent
  <2>12. pc = "scan" => Startup(f)'
    <3>. SUFFICES ASSUME pc = "scan" PROVE Startup(f)'
      OBVIOUS
    <3>1. OneDeletion(P, Line) /\ Tells(P, Line, listed[f], PathsOf(f))
      BY <2>1 DEF FileInv, Startup, Follow, P
    <3>2. ASSUME NEW i \in P PROVE FALSE
      <4>1. Deleted(Line, i) /\ ~Created(Line, i)
        BY <3>1 DEF OneDeletion, Created, Deleted
      <4>2. Latest(P, i)
        BY <2>5, <3>1 DEF OneDeletion, Latest
      <4>. QED
        BY <1>2, <3>1, <4>1, <4>2 DEF Tells, Leads
    <3>3. Tally(f)' = {n + h}
      BY <2>5, <3>2
    <3>4. OneDeletion(Tally(f)', M)
      BY <2>5, <3>3 DEF OneDeletion
    <3>. QED
      BY <2>11, <3>4 DEF Startup, M
  <2>. QED
    BY <1>1, <1>2, <1>5, <2>10, <2>11, <2>12 DEF FileInv, Live, Updating
<1>6. CASE pc \notin {"root", "scan"} \union Live
  BY <1>1, <1>2, <1>6 DEF FileInv
<1>. QED
  BY <1>4, <1>5, <1>6

(* The file is created, in a directory the monitor knows, and there was    *)
(* none of the name.                                                       *)
LEMMA ChangeCreates ==
  ASSUME IInv, GInv, IInv', NEW notes \in Seq(NoteType), NEW files, Change(notes, files),
         NEW f \in Files, FileInv(f), NEW d \in Inodes, Sure(d, f), UNCHANGED where,
         \A e \in Inodes : f \notin holds[e],
         NEW h \in 1..Len(notes), notes[h] = Note(d, "create", f),
         \A k \in 1..Len(notes) : /\ IsAbout(notes[k], f) => k = h
                                  /\ notes[k].what # "self",
         \A e \in Inodes : f \in holds'[e] <=> e = d
  PROVE  FileInv(f)'
<1>. DEFINE n == Len(Line)
            P == Tally(f)
            M == Line'
            there == {<<At(d), f>>}
<1>1. /\ pending' = notes /\ UNCHANGED <<listed, found, entries, unread, pc, watches>>
      /\ pending = <<>>
  BY DEF Change, mainVars, scanVars
<1>2. pc \in Live /\ pc # "root"
  BY DEF Sure, Hurried, Live, Updating
<1>3. Follow(f) /\ Sound(d) /\ InTree(d) /\ (Silent(P) => Lists(f))
  BY <1>2, CoveredSound DEF FileInv, Sure
<1>4. PathsOf(f) = {} /\ PathsOf(f)' = there /\ Places(f)'
  BY <1>3 DEF PathsOf, Places, InTree, At
<1>5. notes[h].on = d /\ notes[h].what = "create" /\ IsAbout(notes[h], f)
  BY DEF Note, IsAbout
<1>6. Heard(f)'
  BY <1>3, <1>5, ChangeHeard DEF Follow
<1>7. Tells(P, M, listed[f], {})
  BY <1>3, <1>4, ChangeTells DEF Follow
<1>8. Noted(notes, f) = {h}
  BY <1>5 DEF Noted
<1>9. /\ n \in Nat /\ P \in SUBSET Nat /\ Tally(f)' = P \union {n + h}
      /\ \A i \in P : i <= n /\ M[i] = Line[i]
      /\ Created(M, n + h) /\ M[n + h].path = <<At(d), f>>
  <2>1. /\ n \in Nat /\ P \in SUBSET Nat
        /\ Tally(f)' = P \union {n + k : k \in Noted(notes, f)}
        /\ \A i \in P : i <= n /\ M[i] = Line[i]
    BY ChangeTokens
  <2>2. ASSUME NEW k \in Noted(notes, f)
        PROVE  /\ Created(M, n + k) <=> notes[k].what = "create"
               /\ Sound(notes[k].on) => M[n + k].path = <<At(notes[k].on), f>>
    BY NotedIs
  <2>. QED
    BY <1>3, <1>5, <1>8, <2>1, <2>2
<1>10. \A i \in P : ~Deleted(M, i)
  <2>1. \A i \in P : ~Deleted(Line, i)
    BY <1>1, NoDeletions DEF Sure
  <2>. QED
    BY <1>9, <2>1 DEF Deleted
<1>11. Silent(P) => listed[f] = Absent
  BY <1>3, <1>4 DEF Lists
<1>12. h \in Nat /\ 0 < h
  BY LenProperties
<1>. HIDE DEF n, P, M
<1>13. n + h \in Nat /\ (\A i \in P : i < n + h) /\ M[n + h].path \in there
  BY <1>9, <1>12
<1>. HIDE DEF there
<1>14. Tells(P \union {n + h}, M, listed[f], there)
  BY <1>7, <1>9, <1>10, <1>11, <1>13, WithCreation DEF Silent
<1>15. Follow(f)' /\ ~Silent(Tally(f))'
  BY <1>1, <1>4, <1>6, <1>9, <1>14 DEF Follow, M, Silent
<1>. QED
  BY <1>1, <1>2, <1>4, <1>15 DEF FileInv, Live, Updating

(* The file moves, and keeps its name.                                     *)
LEMMA ChangeMoves ==
  ASSUME IInv, GInv, IInv', NEW notes \in Seq(NoteType), NEW files, Change(notes, files),
         NEW f \in Files, FileInv(f), NEW d \in Inodes, NEW e \in Inodes, d # e,
         f \in holds[d], Covered(d), Sure(e, f), UNCHANGED where,
         Len(notes) = 2, notes[1] = Note(d, "delete", f), notes[2] = Note(e, "create", f),
         \A i \in Inodes : f \in holds'[i] <=> i = e
  PROVE  FileInv(f)'
<1>. DEFINE n == Len(Line)
            P == Tally(f)
            Q == P \union {n + 1}
            M == Line'
            there == {<<At(e), f>>}
<1>1. /\ pending' = notes /\ UNCHANGED <<listed, found, entries, unread, pc, watches>>
      /\ pending = <<>>
  BY DEF Change, mainVars, scanVars
<1>2. pc \in Live /\ pc # "root"
  BY DEF Sure, Hurried, Live, Updating
<1>3. Follow(f) /\ Sound(d) /\ InTree(d) /\ Sound(e) /\ InTree(e)
  BY <1>2, CoveredSound DEF FileInv, Sure
<1>4. PathsOf(f) = {<<At(d), f>>} /\ PathsOf(f)' = there /\ Places(f)'
  <2>1. PathsOf(f) = {<<At(d), f>>}
    BY <1>3 DEF PathsOf, Places, FileInv
  <2>. QED
    BY <1>3, <2>1 DEF PathsOf, Places, InTree, At
<1>5. At(d) # At(e)
  BY <1>3, DistinctPlaces DEF GInv, IInv, PlacesDistinct
<1>6. /\ notes[1].on = d /\ notes[1].what = "delete" /\ IsAbout(notes[1], f)
      /\ notes[2].on = e /\ notes[2].what = "create" /\ IsAbout(notes[2], f)
      /\ \A k \in 1..Len(notes) : k = 1 \/ k = 2
  BY DEF Note, IsAbout
<1>7. Heard(f)'
  <2>1. \A k \in 1..Len(notes) : Sound(notes[k].on) /\ notes[k].what # "self"
    BY <1>3, <1>6
  <2>. QED
    BY <1>3, <2>1, ChangeHeard DEF Follow
<1>8. Tells(P, M, listed[f], {<<At(d), f>>})
  BY <1>3, <1>4, ChangeTells DEF Follow
<1>9. Noted(notes, f) = {1, 2}
  BY <1>6 DEF Noted
<1>10. /\ n \in Nat /\ P \in SUBSET Nat /\ Tally(f)' = Q \union {n + 2}
       /\ \A i \in P : i <= n /\ M[i] = Line[i]
       /\ Deleted(M, n + 1) /\ M[n + 1].path = <<At(d), f>>
       /\ Created(M, n + 2) /\ M[n + 2].path = <<At(e), f>>
  <2>1. /\ n \in Nat /\ P \in SUBSET Nat
        /\ Tally(f)' = P \union {n + k : k \in Noted(notes, f)}
        /\ \A i \in P : i <= n /\ M[i] = Line[i]
    BY ChangeTokens
  <2>2. ASSUME NEW k \in Noted(notes, f)
        PROVE  /\ Created(M, n + k) <=> notes[k].what = "create"
               /\ Deleted(M, n + k) <=> notes[k].what = "delete"
               /\ Sound(notes[k].on) => M[n + k].path = <<At(notes[k].on), f>>
    BY NotedIs
  <2>3. Tally(f)' = Q \union {n + 2}
    BY <1>9, <2>1
  <2>4. Deleted(M, n + 1) /\ M[n + 1].path = <<At(d), f>>
    BY <1>3, <1>6, <1>9, <2>2
  <2>5. Created(M, n + 2) /\ M[n + 2].path = <<At(e), f>>
    BY <1>3, <1>6, <1>9, <2>2
  <2>. QED
    BY <2>1, <2>3, <2>4, <2>5
<1>11. \A i \in P : ~Deleted(M, i)
  <2>1. \A i \in P : ~Deleted(Line, i)
    BY <1>1, NoDeletions DEF Sure
  <2>. QED
    BY <1>10, <2>1 DEF Deleted
<1>. HIDE DEF n, P, M
<1>12. /\ n + 1 \in Nat /\ (\A i \in P : i < n + 1)
       /\ n + 2 \in Nat /\ (\A i \in Q : i < n + 2) /\ Q \in SUBSET Nat
       /\ n + 1 \in Q
  BY <1>10
<1>13. Tells(Q, M, listed[f], {})
  BY <1>8, <1>10, <1>12, WithDeletion
<1>14. M[n + 2].path \in there /\ \A i \in Q : Deleted(M, i) => M[i].path # M[n + 2].path
  BY <1>5, <1>10, <1>11
<1>15. Q # {}
  BY <1>12
<1>. HIDE DEF there, Q
<1>16. Tells(Q \union {n + 2}, M, listed[f], there)
  BY <1>10, <1>12, <1>13, <1>14, <1>15, WithCreation
<1>17. Follow(f)' /\ ~Silent(Tally(f))'
  BY <1>1, <1>4, <1>7, <1>10, <1>16 DEF Follow, M, Silent
<1>. QED
  BY <1>1, <1>2, <1>4, <1>17 DEF FileInv, Live, Updating

(* The file is left where it was.                                          *)
LEMMA SameHolds ==
  ASSUME NEW f, Places(f), UNCHANGED where, \A i \in Inodes : f \in holds'[i] <=> f \in holds[i]
  PROVE  PathsOf(f)' = PathsOf(f) /\ Places(f)'
BY DEF PathsOf, Places, InTree, At

(* A directory without it is not.                                          *)
LEMMA OtherMoves ==
  ASSUME IInv, NEW f, Places(f), NEW d \in Dirs, NEW n, where' = [where EXCEPT ![d] = n],
         UNCHANGED holds, f \notin holds[d]
  PROVE  PathsOf(f)' = PathsOf(f) /\ Places(f)'
<1>1. \A i \in Inodes : f \in holds[i] => At(i)' = At(i)
  BY DEF At, IInv, FilesTyped, Inodes
<1>. QED
  BY <1>1 DEF PathsOf, Places, InTree

LEMMA CreateFileKeeps ==
  ASSUME IInv, GInv, IInv', NEW d \in Inodes, NEW g \in Files, CreateFile(d, g),
         NEW f \in Files, f \notin missed', FileInv(f)
  PROVE  FileInv(f)'
<1>. DEFINE notes == <<Note(d, "create", g)>>
            files == IF Sure(d, g) /\ ~Elsewhere(d, g) THEN {} ELSE {g}
<1>1. /\ g \notin holds[d] /\ holds' = [holds EXCEPT ![d] = @ \union {g}]
      /\ Change(notes, files) /\ UNCHANGED where
  BY DEF CreateFile
<1>2. f \notin files /\ (g \notin files => Sure(d, g) /\ ~Elsewhere(d, g))
  BY <1>1 DEF Change
<1>3. /\ notes \in Seq(NoteType) /\ Len(notes) = 1 /\ notes[1] = Note(d, "create", g)
      /\ \A k \in 1..Len(notes) : k = 1
  BY OneAnnounced DEF Note, NoteType, Kinds, Whats, Names
<1>. HIDE DEF notes, files
<1>4. \A i \in Inodes : holds'[i] = IF i = d THEN holds[d] \union {g} ELSE holds[i]
  BY <1>1 DEF IInv, FilesTyped
<1>5. CASE f = g
  <2>1. Sure(d, f) /\ \A i \in Inodes : f \notin holds[i]
    BY <1>1, <1>2, <1>5 DEF Elsewhere
  <2>2. \A i \in Inodes : f \in holds'[i] <=> i = d
    BY <1>4, <1>5, <2>1
  <2>3. 1 \in 1..Len(notes) /\ notes[1] = Note(d, "create", f)
        /\ \A k \in 1..Len(notes) : /\ IsAbout(notes[k], f) => k = 1
                                    /\ notes[k].what # "self"
    BY <1>3, <1>5 DEF Note
  <2>. QED
    BY <1>1, <1>3, <2>1, <2>2, <2>3, ChangeCreates
<1>6. CASE f # g
  <2>1. \A k \in 1..Len(notes) : ~IsAbout(notes[k], f)
    BY <1>3, <1>6 DEF Note, IsAbout
  <2>2. \A i \in Inodes : f \in holds'[i] <=> f \in holds[i]
    BY <1>4, <1>6
  <2>3. PathsOf(f)' = PathsOf(f) /\ Places(f)'
    BY <1>1, <2>2, SameHolds DEF FileInv
  <2>. QED
    BY <1>1, <1>3, <2>1, <2>3, ChangeElsewhere
<1>. QED
  BY <1>5, <1>6

LEMMA DeleteFileKeeps ==
  ASSUME IInv, GInv, IInv', NEW d \in Inodes, NEW g \in Files, DeleteFile(d, g),
         NEW f \in Files, f \notin missed', FileInv(f)
  PROVE  FileInv(f)'
<1>. DEFINE notes == <<Note(d, "delete", g)>>
            files == IF Covered(d) THEN {} ELSE {g}
<1>1. /\ g \in holds[d] /\ holds' = [holds EXCEPT ![d] = @ \ {g}]
      /\ Change(notes, files) /\ UNCHANGED where
  BY DEF DeleteFile
<1>2. f \notin files /\ (g \notin files => Covered(d))
  BY <1>1 DEF Change
<1>3. /\ notes \in Seq(NoteType) /\ Len(notes) = 1 /\ notes[1] = Note(d, "delete", g)
      /\ \A k \in 1..Len(notes) : k = 1
  BY OneAnnounced DEF Note, NoteType, Kinds, Whats, Names
<1>. HIDE DEF notes, files
<1>4. \A i \in Inodes : holds'[i] = IF i = d THEN holds[d] \ {g} ELSE holds[i]
  BY <1>1 DEF IInv, FilesTyped
<1>5. CASE f = g
  <2>1. Covered(d) /\ f \in holds[d] /\ \A i \in Inodes : f \in holds[i] => i = d
    BY <1>1, <1>2, <1>5 DEF FileInv, Places
  <2>2. \A i \in Inodes : f \notin holds'[i]
    BY <1>4, <1>5, <2>1
  <2>3. 1 \in 1..Len(notes) /\ notes[1] = Note(d, "delete", f)
        /\ \A k \in 1..Len(notes) : /\ IsAbout(notes[k], f) => k = 1
                                    /\ notes[k].what # "self"
    BY <1>3, <1>5 DEF Note
  <2>. QED
    BY <1>1, <1>3, <2>1, <2>2, <2>3, ChangeDeletes
<1>6. CASE f # g
  <2>1. \A k \in 1..Len(notes) : ~IsAbout(notes[k], f)
    BY <1>3, <1>6 DEF Note, IsAbout
  <2>2. \A i \in Inodes : f \in holds'[i] <=> f \in holds[i]
    BY <1>4, <1>6
  <2>3. PathsOf(f)' = PathsOf(f) /\ Places(f)'
    BY <1>1, <2>2, SameHolds DEF FileInv
  <2>. QED
    BY <1>1, <1>3, <2>1, <2>3, ChangeElsewhere
<1>. QED
  BY <1>5, <1>6

LEMMA MoveFileKeeps ==
  ASSUME IInv, GInv, IInv', NEW d \in Inodes, NEW e \in Inodes, NEW g \in Files,
         NEW h \in Files, MoveFile(d, g, e, h),
         NEW f \in Files, f \notin missed', FileInv(f)
  PROVE  FileInv(f)'
<1>. DEFINE notes == <<Note(d, "delete", g), Note(e, "create", h)>>
            files == (IF Covered(d) THEN {} ELSE {g}) \union
                     (IF Sure(e, h) /\ (g = h \/ ~Elsewhere(e, h)) THEN {} ELSE {h})
<1>1. /\ g \in holds[d] /\ <<d, g>> # <<e, h>>
      /\ holds' = [i \in Inodes |-> (holds[i] \ (IF i = d THEN {g} ELSE {}))
                                      \union (IF i = e THEN {h} ELSE {})]
      /\ Change(notes, files) /\ UNCHANGED where
  BY DEF MoveFile
<1>2. /\ f \notin files
      /\ g \notin files => Covered(d)
      /\ h \notin files => Sure(e, h) /\ (g = h \/ ~Elsewhere(e, h))
  BY <1>1 DEF Change
<1>3. /\ Len(notes) = 2 /\ notes[1] = Note(d, "delete", g) /\ notes[2] = Note(e, "create", h)
      /\ \A k \in 1..Len(notes) : k = 1 \/ k = 2
  OBVIOUS
<1>4. notes \in Seq(NoteType)
  <2>1. Note(d, "delete", g) \in NoteType /\ Note(e, "create", h) \in NoteType
    BY DEF Note, NoteType, Kinds, Whats, Names
  <2>. QED
    BY <2>1
<1>. HIDE DEF notes, files
<1>5. \A k \in 1..Len(notes) : notes[k].what # "self"
  BY <1>3 DEF Note
<1>6. \A i \in Inodes : holds'[i] = (holds[i] \ (IF i = d THEN {g} ELSE {}))
                                      \union (IF i = e THEN {h} ELSE {})
  BY <1>1
<1>7. \A i \in Inodes : f \in holds[i] /\ f \in holds[d] => i = d
  BY DEF FileInv, Places
<1>8. CASE f = g /\ f = h
  <2>1. Covered(d) /\ Sure(e, f) /\ d # e /\ f \in holds[d]
    BY <1>1, <1>2, <1>8
  <2>2. \A i \in Inodes : f \in holds'[i] <=> i = e
    BY <1>6, <1>7, <1>8, <2>1
  <2>. QED
    BY <1>1, <1>3, <1>4, <1>8, <2>1, <2>2, ChangeMoves
<1>9. CASE f = g /\ f # h
  <2>1. Covered(d) /\ f \in holds[d]
    BY <1>1, <1>2, <1>9
  <2>2. \A i \in Inodes : f \notin holds'[i]
    BY <1>6, <1>7, <1>9, <2>1
  <2>3. 1 \in 1..Len(notes) /\ notes[1] = Note(d, "delete", f)
        /\ \A k \in 1..Len(notes) : IsAbout(notes[k], f) => k = 1
    BY <1>3, <1>9 DEF Note, IsAbout
  <2>. QED
    BY <1>1, <1>4, <1>5, <2>1, <2>2, <2>3, ChangeDeletes
<1>10. CASE f # g /\ f = h
  <2>1. Sure(e, f) /\ \A i \in Inodes : f \notin holds[i]
    BY <1>2, <1>10 DEF Sure, Elsewhere
  <2>2. \A i \in Inodes : f \in holds'[i] <=> i = e
    BY <1>6, <1>10, <2>1
  <2>3. 2 \in 1..Len(notes) /\ notes[2] = Note(e, "create", f)
        /\ \A k \in 1..Len(notes) : IsAbout(notes[k], f) => k = 2
    BY <1>3, <1>10 DEF Note, IsAbout
  <2>. QED
    BY <1>1, <1>4, <1>5, <2>1, <2>2, <2>3, ChangeCreates
<1>11. CASE f # g /\ f # h
  <2>1. \A k \in 1..Len(notes) : ~IsAbout(notes[k], f)
    BY <1>3, <1>11 DEF Note, IsAbout
  <2>2. \A i \in Inodes : f \in holds'[i] <=> f \in holds[i]
    BY <1>6, <1>11
  <2>3. PathsOf(f)' = PathsOf(f) /\ Places(f)'
    BY <1>1, <2>2, SameHolds DEF FileInv
  <2>. QED
    BY <1>1, <1>4, <2>1, <2>3, ChangeElsewhere
<1>. QED
  BY <1>8, <1>9, <1>10, <1>11

(* A change of a directory that does not hold the file.                    *)
LEMMA DirectoryKeepsFile ==
  ASSUME IInv, GInv, IInv', NEW notes \in Seq(NoteType), NEW files, Change(notes, files),
         NEW d \in Dirs, NEW n, where' = [where EXCEPT ![d] = n], UNCHANGED holds,
         \A k \in 1..Len(notes) : notes[k].what \in {"mkdir", "rmdir", "self"},
         NEW f \in Files, FileInv(f), f \notin holds[d]
  PROVE  FileInv(f)'
<1>1. \A k \in 1..Len(notes) : ~IsAbout(notes[k], f)
  BY DEF IsAbout
<1>2. PathsOf(f)' = PathsOf(f) /\ Places(f)'
  BY OtherMoves DEF FileInv
<1>. QED
  BY <1>1, <1>2, ChangeElsewhere

LEMMA FileSystemKeepsFile ==
  ASSUME IInv, GInv, IInv', FileSystem, NEW f \in Files, f \notin missed', FileInv(f)
  PROVE  FileInv(f)'
<1>1. ASSUME NEW d \in Inodes, NEW g \in Files, CreateFile(d, g) \/ DeleteFile(d, g)
      PROVE  FileInv(f)'
  BY <1>1, CreateFileKeeps, DeleteFileKeeps
<1>2. ASSUME NEW d \in Inodes, NEW e \in Inodes, NEW g \in Files, NEW h \in Files,
             MoveFile(d, g, e, h)
      PROVE  FileInv(f)'
  BY <1>2, MoveFileKeeps
<1>3. ASSUME NEW d \in Dirs, NEW n \in DirNames, MakeDir(d, n) PROVE FileInv(f)'
  <2>. DEFINE notes == <<Note(Root, "mkdir", n)>>
  <2>1. /\ notes \in Seq(NoteType)
        /\ \A k \in 1..Len(notes) : notes[k].what \in {"mkdir", "rmdir", "self"}
    BY OneAnnounced DEF Note, NoteType, Kinds, Whats, Names, Inodes
  <2>2. Change(notes, {}) /\ where' = [where EXCEPT ![d] = n] /\ UNCHANGED holds
    BY <1>3 DEF MakeDir
  <2>3. f \notin holds[d]
    BY <1>3 DEF MakeDir, GInv, GoneEmpty
  <2>. HIDE DEF notes
  <2>. QED
    BY <2>1, <2>2, <2>3, DirectoryKeepsFile
<1>4. ASSUME NEW d \in Dirs, RemoveDir(d) PROVE FileInv(f)'
  <2>. DEFINE notes == <<Note(d, "self", "gone"), Note(Root, "rmdir", where[d])>>
  <2>1. Note(d, "self", "gone") \in NoteType /\ Note(Root, "rmdir", where[d]) \in NoteType
    BY <1>4 DEF RemoveDir, Note, NoteType, Kinds, Whats, Names, Inodes
  <2>2. notes \in Seq(NoteType)
    BY <2>1
  <2>3. \A k \in 1..Len(notes) : notes[k].what \in {"mkdir", "rmdir", "self"}
    BY DEF Note
  <2>4. /\ Change(notes, {}) /\ where' = [where EXCEPT ![d] = "gone"] /\ UNCHANGED holds
        /\ f \notin holds[d]
    BY <1>4 DEF RemoveDir
  <2>. HIDE DEF notes
  <2>. QED
    BY <2>2, <2>3, <2>4, DirectoryKeepsFile
<1>5. ASSUME NEW d \in Dirs, NEW n \in DirNames \union {"out"}, MoveDir(d, n)
      PROVE  FileInv(f)'
  <2>. DEFINE left == IF InTree(d) THEN <<Note(Root, "rmdir", where[d])>> ELSE <<>>
              come == IF n = "out" THEN <<>> ELSE <<Note(Root, "mkdir", n)>>
              self == <<Note(d, "self", n)>>
              notes == (left \o come) \o self
              Quiet == {m \in NoteType : m.what \in {"mkdir", "rmdir", "self"}}
  <2>1. left \in Seq(Quiet)
    <3>1. CASE InTree(d)
      <4>1. where[d] \in DirNames
        BY <3>1, DirectoryAssumption DEF InTree, At, DirPaths, Root, IInv, FilesTyped
      <4>2. Note(Root, "rmdir", where[d]) \in Quiet
        BY <4>1 DEF Note, NoteType, Kinds, Whats, Names, Inodes
      <4>. QED
        BY <3>1, <4>2
    <3>. QED
      BY <3>1
  <2>2. come \in Seq(Quiet)
    <3>1. CASE n # "out"
      <4>1. Note(Root, "mkdir", n) \in Quiet
        BY <3>1 DEF Note, NoteType, Kinds, Whats, Names, Inodes
      <4>. QED
        BY <3>1, <4>1
    <3>. QED
      BY <3>1
  <2>3. self \in Seq(Quiet)
    <3>1. Note(d, "self", n) \in Quiet
      BY DEF Note, NoteType, Kinds, Whats, Names, Inodes
    <3>. QED
      BY <3>1
  <2>4. /\ Change(notes, holds[d]) /\ where' = [where EXCEPT ![d] = n] /\ UNCHANGED holds
        /\ f \notin holds[d]
    BY <1>5 DEF MoveDir, Change
  <2>5. Quiet \subseteq NoteType /\ \A m \in Quiet : m.what \in {"mkdir", "rmdir", "self"}
    OBVIOUS
  <2>. HIDE DEF left, come, self, Quiet
  <2>6. notes \in Seq(Quiet)
    <3>1. left \o come \in Seq(Quiet)
      BY <2>1, <2>2, ConcatProperties
    <3>. QED
      BY <2>3, <3>1, ConcatProperties
  <2>. HIDE DEF notes
  <2>7. notes \in Seq(NoteType)
    BY <2>5, <2>6, SeqMonotonic
  <2>8. \A k \in 1..Len(notes) : notes[k].what \in {"mkdir", "rmdir", "self"}
    BY <2>5, <2>6, ElementOfSeq
  <2>. QED
    BY <2>4, <2>7, <2>8, DirectoryKeepsFile
<1>. QED
  BY <1>1, <1>2, <1>3, <1>4, <1>5 DEF FileSystem

-----------------------------------------------------------------------------
(* A watch is added.                                                       *)

LEMMA AddFlight ==
  ASSUME IInv, GInv, IInv', NEW dir, AddDirectory(dir),
         UNCHANGED <<fsVars, queue, buffer, changes>>, NEW f \in Files, Heard(f),
         NEW l, NEW paths
  PROVE  Carries(Line, Line', f, l, paths) /\ Heard(f)'
<1>. DEFINE F == InFlight
            G == InFlight'
            b == Len(buffer) + Len(queue)
            p == Len(pending)
<1>1. /\ b \in Nat /\ p \in Nat /\ Len(F) = b + p /\ Len(G) = Len(F)
      /\ \A i \in 1..Len(F) : i <= b => G[i] = F[i]
      /\ \A i \in 1..Len(F) : b < i => /\ F[i] = Resolved(kernel, pending[i - b])
                                       /\ G[i] = Resolved(kernel', pending[i - b])
  <2>1. FlightFacts /\ FlightFacts'
    BY FactsNow, FactsNext
  <2>2. UNCHANGED <<queue, buffer, pending>>
    BY DEF fsVars
  <2>. QED
    BY <2>1, <2>2 DEF FlightFacts
<1>2. Joined(Line, changes, F, watches) /\ Joined(Line', changes, G, watches')
  BY LineJoined, LineJoinedNext
<1>3. HeardIn(F, watches, f) /\ (Heard(f)' <=> HeardIn(G, watches', f))
  BY DEF Heard
<1>4. /\ \A d \in Inodes : kernel[d] # 0 => kernel'[d] = kernel[d]
      /\ \A w \in DOMAIN watches : w \in DOMAIN watches' /\ watches'[w] = watches[w]
  BY Adds DEF GInv
<1>5. /\ 0 \notin DOMAIN watches
      /\ \A j \in 1..p : pending[j].on \in Inodes
      /\ \A i, k \in 1..p : pending[k].what = "self" => pending[i].what \notin {"create", "delete"}
  BY ElementOfSeq DEF IInv, WatchesTyped, SequencesTyped, NoteType, GInv, SelfAlone
<1>. HIDE DEF F, G, b, p
<1>6. ASSUME NEW i \in 1..Len(F), b < i
      PROVE  \E j \in 1..p : /\ F[i] = Resolved(kernel, pending[j])
                             /\ G[i] = Resolved(kernel', pending[j])
  <2>1. i - b \in 1..p
    BY <1>1, <1>6
  <2>. QED
    BY <1>1, <1>6, <2>1
<1>7. ASSUME NEW i \in 1..Len(F), IsAbout(F[i], f) \/ IsAbout(G[i], f) PROVE G[i] = F[i]
  <2>1. CASE i <= b
    BY <1>1, <2>1
  <2>2. CASE b < i
    <3>1. PICK j \in 1..p : /\ F[i] = Resolved(kernel, pending[j])
                            /\ G[i] = Resolved(kernel', pending[j])
      BY <1>6, <2>2
    <3>2. IsAbout(F[i], f)
      BY <1>7, <3>1 DEF IsAbout, Resolved
    <3>3. kernel[pending[j].on] \in DOMAIN watches
      BY <1>3, <3>1, <3>2 DEF HeardIn, Resolved
    <3>4. kernel'[pending[j].on] = kernel[pending[j].on]
      BY <1>4, <1>5, <3>3
    <3>. QED
      BY <3>1, <3>4 DEF Resolved
  <2>. QED
    BY <1>1, <2>1, <2>2
<1>8. ASSUME NEW i \in 1..Len(F), NEW k \in 1..Len(F), IsAbout(F[i], f), k < i,
             G[k].what = "self"
      PROVE  G[k] = F[k]
  <2>1. CASE k <= b
    BY <1>1, <2>1
  <2>2. CASE b < k
    <3>0. b < i
      BY <1>1, <1>8, <2>2
    <3>1. PICK j \in 1..p : F[i] = Resolved(kernel, pending[j])
      BY <1>6, <3>0
    <3>2. PICK h \in 1..p : G[k] = Resolved(kernel', pending[h])
      BY <1>6, <2>2
    <3>3. pending[j].what \in {"create", "delete"} /\ pending[h].what = "self"
      BY <1>8, <3>1, <3>2 DEF IsAbout, Resolved
    <3>. QED
      BY <1>5, <3>3
  <2>. QED
    BY <1>1, <2>1, <2>2
<1>9. Len(G) = Len(F)
  BY <1>1
<1>. QED
  BY <1>2, <1>3, <1>4, <1>7, <1>8, <1>9, SameFlight

LEMMA AddDirectoryKeepsFile ==
  ASSUME IInv, GInv, IInv', NEW dir, AddDirectory(dir),
         UNCHANGED <<fsVars, queue, buffer, changes, listed, entries, unread, found, pc>>,
         pc \in {"scan"} \union Live, NEW f \in Files, FileInv(f)
  PROVE  FileInv(f)'
<1>1. Follow(f) => Carries(Line, Line', f, listed[f], PathsOf(f)) /\ Heard(f)'
  BY AddFlight DEF Follow
<1>2. PathsOf(f)' = PathsOf(f) /\ Places(f)'
  BY SamePlaces DEF fsVars, FileInv
<1>. QED
  BY <1>1, <1>2, CarriedOn

(* A single deletion tells the truth if the file is gone.                  *)
LEMMA OneTells ==
  ASSUME NEW P \in SUBSET Nat, NEW L, OneDeletion(P, L), NEW l, NEW paths,
         ~Silent(P) => Silent(paths)
  PROVE  Tells(P, L, l, paths)
<1>1. \A i \in P : Deleted(L, i) /\ ~Created(L, i) /\ Silent(paths)
  BY DEF OneDeletion, Created, Deleted, Silent
<1>2. \A i, j \in P : ~(i < j)
  BY DEF OneDeletion
<1>3. Alternates(P, L)
  BY <1>1, <1>2 DEF Alternates, Adjacent
<1>. QED
  BY <1>1, <1>3 DEF Tells, Begins, Leads, Silent

(* Root is watched when at most a deletion in Root is yet to be told.      *)
LEMMA StartWatchKeepsFile ==
  ASSUME IInv, GInv, IInv', StartWatch, NEW f \in Files, FileInv(f)
  PROVE  FileInv(f)'
<1>. DEFINE p == Len(pending)
            F == InFlight'
            M == Line'
<1>1. /\ UNCHANGED <<fsVars, changes, listed>> /\ pc' = "scan" /\ unread' = {Root}
      /\ buffer' = <<>> /\ queue' = <<>> /\ pending' = pending /\ pc = "root"
  BY DEF IInv, BufferRead, GInv, NotBegun, StartWatch, fsVars
<1>2. changes' = <<>> /\ listed'[f] = Absent /\ Unbegun(f)
  BY <1>1 DEF GInv, NotBegun, FileInv
<1>3. /\ p \in Nat /\ Len(F) = p /\ Len(M) = p
      /\ \A i \in 1..p : /\ F[i] = Resolved(kernel', pending[i]) /\ F[i] \in FlightType
                         /\ M[i] = Told(watches', F[i])
  <2>1. FlightFacts' /\ LineFacts'
    BY FactsNext
  <2>2. Len(buffer') = 0 /\ Len(queue') = 0 /\ Len(changes') = 0
    BY <1>1, <1>2
  <2>3. /\ p \in Nat /\ Len(F) = 0 + 0 + p /\ Len(M) = 0 + Len(F)
        /\ \A i \in 1..Len(F) : /\ 0 + 0 < i => F[i] = Resolved(kernel', pending[i - (0 + 0)])
                                /\ F[i] \in FlightType
        /\ \A i \in 1..Len(M) : 0 < i => M[i] = Told(watches', F[i - 0])
    BY <1>1, <2>1, <2>2 DEF FlightFacts, LineFacts
  <2>. HIDE DEF F, M, p
  <2>. QED
    BY <2>3
<1>4. Places(f)' /\ PathsOf(f)' = PathsOf(f)
  BY <1>1, SamePlaces DEF FileInv, fsVars
<1>5. /\ kernel'[Root] \in DOMAIN watches'
      /\ \A i, k \in 1..p : pending[k].what = "self" => pending[i].what \notin {"create", "delete"}
  BY StartWatchAdds DEF GInv, SelfAlone
<1>6. \A i \in 1..p : IsAbout(pending[i], f) =>
                 /\ pending[i].what = "delete" /\ pending[i].on = Root
                 /\ Silent(PathsOf(f))
                 /\ \A k \in 1..p : IsAbout(pending[k], f) => k = i
  BY <1>2 DEF Unbegun
<1>. HIDE DEF F, M, p
<1>7. \A i \in 1..p : IsAbout(F[i], f) <=> IsAbout(pending[i], f)
  BY <1>3 DEF Resolved, IsAbout
<1>8. HeardIn(F, watches', f)
  <2>. SUFFICES ASSUME NEW i \in 1..p, IsAbout(F[i], f)
                PROVE  /\ F[i].wd \in DOMAIN watches'
                       /\ \A k \in 1..p : F[k].what # "self"
    BY <1>3 DEF HeardIn
  <2>1. IsAbout(pending[i], f) /\ pending[i].on = Root
    BY <1>6, <1>7
  <2>2. F[i].wd = kernel'[Root]
    BY <1>3, <2>1 DEF Resolved
  <2>3. \A k \in 1..p : F[k].what = pending[k].what
    BY <1>3 DEF Resolved
  <2>. QED
    BY <1>5, <2>1, <2>2, <2>3 DEF IsAbout
<1>9. \A i \in 1..p : /\ About(M[i], f) <=> IsAbout(pending[i], f)
                      /\ Deleted(M, i) <=> pending[i].what = "delete"
  <2>. SUFFICES ASSUME NEW i \in 1..p
                PROVE  /\ About(M[i], f) <=> IsAbout(pending[i], f)
                       /\ Deleted(M, i) <=> pending[i].what = "delete"
    OBVIOUS
  <2>1. F[i] \in FlightType /\ M[i] = Told(watches', F[i]) /\ F[i].what = pending[i].what
    BY <1>3 DEF Resolved
  <2>2. /\ About(Told(watches', F[i]), f) <=> IsAbout(F[i], f)
        /\ Told(watches', F[i]).type = "file_delete" <=> F[i].what = "delete"
    BY <2>1, ToldAbout
  <2>. QED
    BY <1>7, <2>1, <2>2 DEF Deleted
<1>. DEFINE P == Tokens(M, f)
<1>10. P \in SUBSET Nat /\ \A i \in P : i \in 1..p /\ About(M[i], f)
  BY <1>3 DEF Tokens
<1>. HIDE DEF P
<1>11. OneDeletion(P, M)
  BY <1>6, <1>9, <1>10 DEF OneDeletion
<1>12. ~Silent(P) => Silent(PathsOf(f))
  BY <1>6, <1>9, <1>10 DEF Silent
<1>13. Tells(P, M, listed'[f], PathsOf(f))
  BY <1>10, <1>11, <1>12, OneTells
<1>14. Follow(f)' /\ OneDeletion(Tally(f)', M)
  BY <1>4, <1>8, <1>11, <1>13 DEF Follow, Heard, Tally, P, F, M
<1>15. Scanned(f)'
  BY <1>1, <1>2 DEF Scanned, Queued
<1>. QED
  BY <1>1, <1>4, <1>14, <1>15 DEF FileInv, Startup, Live, Updating, M

-----------------------------------------------------------------------------
(* The search of startup.                                                  *)

LEMMA LineSame ==
  ASSUME UNCHANGED <<buffer, queue, pending, kernel, watches, changes>>
  PROVE  Line' = Line /\ InFlight' = InFlight
BY DEF Line, LineOf, InFlight, FlightOf

(* Nothing is told, and what was to be searched still is.                  *)
LEMMA SearchKeepsFile ==
  ASSUME NEW f \in Files, FileInv(f), pc = "scan",
         UNCHANGED <<fsVars, kernel, queue, watches, buffer, changes, listed>>,
         pc' \in {"scan", "hung", "terminated"},
         pc' = "scan" /\ Scanned(f) => Scanned(f)'
  PROVE  FileInv(f)'
<1>1. Line' = Line /\ InFlight' = InFlight
  BY LineSame DEF fsVars
<1>2. PathsOf(f)' = PathsOf(f) /\ Places(f)'
  BY SamePlaces DEF fsVars, FileInv
<1>3. Follow(f)' /\ Tally(f)' = Tally(f)
  BY <1>1, <1>2 DEF FileInv, Follow, Heard, Tally
<1>4. pc' = "scan" => Startup(f)'
  BY <1>1, <1>3 DEF FileInv, Startup
<1>. QED
  BY <1>2, <1>3, <1>4 DEF FileInv, Live, Updating

LEMMA PathFacts ==
  ASSUME IInv, GInv, NEW f \in Files, NEW p \in PathsOf(f)
  PROVE  \E d \in Inodes : /\ f \in holds[d] /\ InTree(d) /\ p = <<At(d), f>>
                           /\ FileExists(p) /\ p[1] = At(d) /\ p[2] = f
                           /\ d # Root => d \in Dirs /\ At(d) = where[d] /\ where[d] \in DirNames
                           /\ \A e \in Inodes : At(e) = p[1] => e = d
<1>1. PICK d \in Inodes : f \in holds[d] /\ InTree(d) /\ p = <<At(d), f>>
  BY DEF PathsOf
<1>2. p[1] = At(d) /\ p[2] = f /\ FileExists(p)
  BY <1>1 DEF FileExists, Found
<1>3. \A e \in Inodes : At(e) = p[1] => e = d
  BY <1>1, <1>2, DistinctPlaces DEF GInv, IInv, PlacesDistinct
<1>4. d # Root => d \in Dirs /\ At(d) = where[d] /\ where[d] \in DirNames
  <2>1. At(Root) = Root /\ Root \in Inodes
    BY DEF At, Inodes
  <2>2. d # Root => At(d) # Root
    BY <1>2, <1>3, <2>1
  <2>. QED
    BY <1>1, <2>2 DEF At, InTree, DirPaths, Inodes
<1>. QED
  BY <1>1, <1>2, <1>3, <1>4

LEMMA ScanReadKeepsFile ==
  ASSUME IInv, GInv, NEW dir \in DirPaths, ScanRead(dir), NEW f \in Files, FileInv(f)
  PROVE  FileInv(f)'
<1>1. /\ pc = "scan" /\ pc' \in {"scan", "hung"} /\ entries = {}
      /\ UNCHANGED <<fsVars, kernel, queue, watches, buffer, changes, listed, found>>
      /\ pc' = "scan" =>
           \E d \in Found(dir) :
             /\ entries' = {dir} \X (holds[d] \union
                  (IF d = Root THEN {where[e] : e \in Dirs} \intersect DirNames
                   ELSE {}))
             /\ unread' = unread \ {dir}
  BY DEF ScanRead
<1>2. ASSUME pc' = "scan", Scanned(f) PROVE Scanned(f)'
  <2>1. PICK d \in Found(dir) :
             /\ entries' = {dir} \X (holds[d] \union
                  (IF d = Root THEN {where[e] : e \in Dirs} \intersect DirNames
                   ELSE {}))
             /\ unread' = unread \ {dir}
    BY <1>1, <1>2
  <2>2. d \in Inodes /\ At(d) = dir
    BY DEF Found
  <2>3. PathsOf(f)' = PathsOf(f)
    BY <1>1, SamePlaces DEF fsVars
  <2>4. ASSUME NEW p \in PathsOf(f), Queued(p) PROVE Queued(p)'
    <3>1. PICK e \in Inodes : /\ f \in holds[e] /\ p = <<At(e), f>> /\ p[1] = At(e)
                              /\ e # Root => e \in Dirs /\ At(e) = where[e] /\ where[e] \in DirNames
                              /\ \A i \in Inodes : At(i) = p[1] => i = e
      BY PathFacts
    <3>2. CASE p[1] = dir
      <4>1. p \in entries'
        BY <2>1, <2>2, <3>1, <3>2
      <4>. QED
        BY <4>1 DEF Queued
    <3>3. CASE Root \in unread /\ dir = Root /\ p[1] # dir
      <4>1. d = Root
        BY <2>2, <3>3, DirectoryAssumption DEF At, Inodes, IInv, FilesTyped, Root
      <4>2. e # Root /\ e \in Dirs /\ p[1] = where[e] /\ where[e] \in DirNames
        BY <3>1, <3>3 DEF At
      <4>3. <<Root, p[1]>> \in entries'
        BY <2>1, <3>3, <4>1, <4>2
      <4>. QED
        BY <4>2, <4>3 DEF Queued
    <3>4. CASE p[1] # dir /\ ~(Root \in unread /\ dir = Root)
      <4>1. p \in found \/ p[1] \in unread \/ Root \in unread
        BY <1>1, <2>4 DEF Queued
      <4>. QED
        BY <1>1, <2>1, <3>4, <4>1 DEF Queued
    <3>. QED
      BY <3>2, <3>3, <3>4
  <2>. QED
    BY <1>1, <1>2, <2>3, <2>4 DEF Scanned
<1>. QED
  BY <1>1, <1>2, SearchKeepsFile

LEMMA ScanEntryKeepsFile ==
  ASSUME IInv, GInv, NEW q \in Paths, ScanEntry(q), NEW f \in Files, FileInv(f)
  PROVE  FileInv(f)'
<1>1. /\ pc = "scan" /\ pc' \in {"scan", "terminated"} /\ entries' = entries \ {q}
      /\ UNCHANGED <<fsVars, kernel, queue, watches, buffer, changes, listed>>
      /\ pc' = "scan" =>
           \/ q[2] \in DirNames /\ unread' = unread \union {q[2]} /\ found' = found
           \/ FileExists(q) /\ found' = found \union {q} /\ unread' = unread
  BY DEF ScanEntry
<1>2. ASSUME pc' = "scan", Scanned(f) PROVE Scanned(f)'
  <2>1. PathsOf(f)' = PathsOf(f)
    BY <1>1, SamePlaces DEF fsVars
  <2>2. f \notin DirNames
    BY DirectoryAssumption
  <2>3. FileExists(q) => q[2] \notin DirNames
    BY DirectoryAssumption DEF FileExists, Found, IInv, FilesTyped
  <2>4. ASSUME NEW p \in PathsOf(f), Queued(p) PROVE Queued(p)'
    <3>1. p[2] = f
      BY PathFacts
    <3>2. <<Root, p[1]>>[2] = p[1]
      OBVIOUS
    <3>. QED
      BY <1>1, <1>2, <2>2, <2>3, <2>4, <3>1, <3>2 DEF Queued
  <2>. QED
    BY <1>1, <1>2, <2>1, <2>4 DEF Scanned
<1>. QED
  BY <1>1, <1>2, SearchKeepsFile

(* A single deletion tells the truth whatever is listed.                   *)
LEMMA OneTellsAny ==
  ASSUME NEW P \in SUBSET Nat, NEW L, OneDeletion(P, L), NEW l, NEW m, NEW paths,
         Tells(P, L, l, paths)
  PROVE  Tells(P, L, m, paths)
<1>1. \A i \in P : Latest(P, i) /\ ~Created(L, i)
  BY DEF OneDeletion, Latest, Created, Deleted
<1>2. ~Silent(P) => Silent(paths)
  BY <1>1 DEF Tells, Leads, Silent
<1>. QED
  BY <1>2, OneTells

LEMMA AddFoundKeepsFile ==
  ASSUME IInv, GInv, NEW q \in Paths, AddFound(q), NEW f \in Files, FileInv(f)
  PROVE  FileInv(f)'
<1>1. /\ pc = "scan" /\ pc' = "scan" /\ entries = {} /\ unread = {}
      /\ entries' = {} /\ unread' = {} /\ q \in found /\ found' = found \ {q}
      /\ UNCHANGED <<fsVars, kernel, queue, watches, buffer, changes>>
      /\ listed' = IF FileExists(q) /\ listed[q[2]] = Absent
                   THEN [listed EXCEPT ![q[2]] = q] ELSE listed
  BY DEF AddFound, AddFile
<1>2. Line' = Line /\ InFlight' = InFlight
  BY <1>1, LineSame DEF fsVars
<1>3. PathsOf(f)' = PathsOf(f) /\ Places(f)'
  BY <1>1, SamePlaces DEF fsVars, FileInv
<1>4. Follow(f) /\ OneDeletion(Tally(f), Line) /\ (Silent(Tally(f)) => Scanned(f))
  BY <1>1 DEF FileInv, Startup
<1>5. Tally(f)' = Tally(f) /\ Tally(f) \in SUBSET Nat
  BY <1>2, FactsNow, TokensTyped DEF Tally, LineFacts
<1>6. Follow(f)'
  <2>1. Tells(Tally(f), Line, listed'[f], PathsOf(f))
    BY <1>4, <1>5, OneTellsAny DEF Follow
  <2>2. Heard(f)'
    BY <1>1, <1>2, <1>4 DEF Follow, Heard
  <2>. QED
    BY <1>2, <1>3, <1>5, <2>1, <2>2 DEF Follow
<1>7. listed'[f] = IF q[2] = f /\ FileExists(q) /\ listed[f] = Absent THEN q ELSE listed[f]
  BY <1>1 DEF IInv, MainTyped
<1>8. ASSUME q[2] = f, FileExists(q) PROVE q \in PathsOf(f)
  <2>1. PICK d \in Found(q[1]) : f \in holds[d]
    BY <1>8 DEF FileExists
  <2>2. d \in Inodes /\ At(d) = q[1] /\ q[1] \in DirPaths /\ q = <<q[1], f>>
    BY <1>8 DEF Found, Paths
  <2>. QED
    BY <2>1, <2>2 DEF PathsOf, InTree
<1>9. \A p, r \in PathsOf(f) : p = r
  BY DEF PathsOf, FileInv, Places
<1>10. \A p \in PathsOf(f) : p[2] = f /\ FileExists(p)
  BY PathFacts
<1>11. Scanned(f) => Scanned(f)'
  <2>. SUFFICES ASSUME Scanned(f) PROVE Scanned(f)'
    OBVIOUS
  <2>1. \A p \in PathsOf(f) : Queued(p) => p \in found /\ (p # q => Queued(p)')
    BY <1>1 DEF Queued
  <2>2. \A p \in PathsOf(f) : listed'[f] = p \/ (listed'[f] = Absent /\ Queued(p)')
    BY <1>7, <1>8, <1>9, <1>10, <2>1 DEF Scanned
  <2>3. Silent(PathsOf(f)) => listed'[f] = Absent
    BY <1>7, <1>8 DEF Scanned, Silent
  <2>. QED
    BY <1>3, <2>2, <2>3 DEF Scanned
<1>. QED
  BY <1>1, <1>2, <1>3, <1>4, <1>5, <1>6, <1>11 DEF FileInv, Startup, Live, Updating

(* Everything was searched.                                                *)
LEMMA LoopKeepsFile ==
  ASSUME IInv, GInv, Loop, NEW f \in Files, FileInv(f)
  PROVE  FileInv(f)'
<1>1. /\ pc = "scan" /\ pc' = "loop" /\ entries = {} /\ unread = {} /\ found = {}
      /\ UNCHANGED <<fsVars, kernel, queue, watches, buffer, changes, listed>>
  BY DEF Loop
<1>2. Line' = Line /\ InFlight' = InFlight
  BY <1>1, LineSame DEF fsVars
<1>3. PathsOf(f)' = PathsOf(f) /\ Places(f)'
  BY <1>1, SamePlaces DEF fsVars, FileInv
<1>4. Scanned(f) => Lists(f)
  BY <1>1 DEF Scanned, Queued, Lists, Silent
<1>5. Follow(f)' /\ Tally(f)' = Tally(f) /\ (Silent(Tally(f)) => Lists(f)')
  BY <1>1, <1>2, <1>3, <1>4 DEF FileInv, Startup, Follow, Heard, Tally, Lists
<1>. QED
  BY <1>1, <1>3, <1>5 DEF FileInv

-----------------------------------------------------------------------------
(* Update and what main makes of its changes.                              *)

LEMMA LiveKeepsFile ==
  ASSUME NEW f \in Files, FileInv(f), UNCHANGED <<where, holds>>, pc' \in Live,
         Follow(f)', Silent(Tally(f))' => Lists(f)'
  PROVE  FileInv(f)'
<1>1. Places(f)'
  BY SamePlaces DEF FileInv
<1>. QED
  BY <1>1 DEF FileInv, Live, Updating

LEMMA QuietKeepsFile ==
  ASSUME NEW f \in Files, FileInv(f), pc \in Live, pc' \in Live,
         UNCHANGED <<fsVars, kernel, queue, watches, buffer, changes, listed>>
  PROVE  FileInv(f)'
<1>1. Line' = Line /\ InFlight' = InFlight
  BY LineSame DEF fsVars
<1>2. PathsOf(f)' = PathsOf(f)
  BY SamePlaces DEF fsVars
<1>3. Follow(f)' /\ Tally(f)' = Tally(f) /\ (Lists(f) => Lists(f)')
  BY <1>1, <1>2 DEF FileInv, Follow, Heard, Tally, Lists
<1>. QED
  BY <1>3, LiveKeepsFile DEF fsVars, FileInv

LEMMA UpdateKeepsFile ==
  ASSUME IInv, GInv, IInv', Update, NEW f \in Files, FileInv(f)
  PROVE  FileInv(f)'
<1>. DEFINE F == InFlight
            G == InFlight'
<1>1. /\ pc = "loop" /\ pc' = "reading" /\ buffer = <<>> /\ buffer' = queue /\ queue' = <<>>
      /\ UNCHANGED <<fsVars, kernel, watches, changes, listed, entries, unread, found>>
  BY DEF Update, scanVars, IInv, BufferRead
<1>2. Len(G) = Len(F) /\ \A i \in 1..Len(F) : G[i] = F[i]
  <2>1. FlightFacts /\ FlightFacts'
    BY FactsNow, FactsNext
  <2>2. Len(buffer) = 0 /\ Len(queue') = 0
    BY <1>1
  <2>. DEFINE b == Len(buffer)
              q == Len(queue)
              p == Len(pending)
  <2>3. /\ b = 0 /\ q \in Nat /\ p \in Nat /\ Len(F) = b + q + p
        /\ \A i \in 1..Len(F) : /\ b < i /\ i <= b + q => F[i] = queue[i - b]
                                /\ b + q < i => F[i] = Resolved(kernel, pending[i - (b + q)])
    BY <2>1, <2>2 DEF FlightFacts
  <2>. DEFINE r == Len(queue')
  <2>4. /\ r = 0 /\ Len(G) = q + r + p
        /\ \A i \in 1..Len(G) : /\ i <= q => G[i] = queue[i]
                                /\ q + r < i => G[i] = Resolved(kernel, pending[i - (q + r)])
    BY <1>1, <2>1, <2>2 DEF FlightFacts, fsVars
  <2>. HIDE DEF b, q, p, r, F, G
  <2>. QED
    BY <2>3, <2>4
<1>3. Joined(Line, changes, F, watches) /\ Joined(Line', changes, G, watches)
  BY <1>1, LineJoined, LineJoinedNext
<1>4. Heard(f) <=> HeardIn(F, watches, f)
  BY DEF Heard
<1>5. Heard(f)' <=> HeardIn(G, watches, f)
  BY <1>1 DEF Heard
<1>. HIDE DEF F, G
<1>6. HeardIn(F, watches, f) =>
         Carries(Line, Line', f, listed[f], PathsOf(f)) /\ HeardIn(G, watches, f)
  BY <1>2, <1>3, SameFlight
<1>7. PathsOf(f)' = PathsOf(f) /\ Places(f)'
  BY <1>1, SamePlaces DEF fsVars, FileInv
<1>8. Follow(f) => Carries(Line, Line', f, listed[f], PathsOf(f)) /\ Heard(f)'
  BY <1>4, <1>5, <1>6 DEF Follow
<1>9. pc \in Live /\ pc' \in Live
  BY <1>1 DEF Live, Updating
<1>. QED
  BY <1>1, <1>7, <1>8, <1>9, CarriedOn

(* An event leaves the buffer.                                             *)
LEMMA TailFlight ==
  ASSUME IInv, IInv', buffer # <<>>, buffer' = Tail(buffer), UNCHANGED <<queue, pending, kernel>>
  PROVE  /\ 1 \in 1..Len(InFlight) /\ InFlight[1] = Head(buffer) /\ Head(buffer) \in EventType
         /\ Len(InFlight') = Len(InFlight) - 1 /\ Len(InFlight) \in Nat
         /\ \A k \in 1..Len(InFlight') : InFlight'[k] = InFlight[k + 1]
         /\ Cut(InFlight, InFlight', 1)
<1>. DEFINE F == InFlight
            G == InFlight'
            b == Len(buffer)
            a == Len(buffer')
            q == Len(queue)
            p == Len(pending)
<1>1. /\ b \in Nat /\ q \in Nat /\ p \in Nat /\ Len(F) = b + q + p
      /\ \A i \in 1..Len(F) : /\ i <= b => F[i] = buffer[i]
                              /\ b < i /\ i <= b + q => F[i] = queue[i - b]
                              /\ b + q < i => F[i] = Resolved(kernel, pending[i - (b + q)])
  BY FactsNow DEF FlightFacts
<1>2. /\ Len(G) = a + q + p
      /\ \A i \in 1..Len(G) : /\ i <= a => G[i] = buffer'[i]
                              /\ a < i /\ i <= a + q => G[i] = queue[i - a]
                              /\ a + q < i => G[i] = Resolved(kernel, pending[i - (a + q)])
  BY FactsNext DEF FlightFacts
<1>3. /\ Head(buffer) = buffer[1] /\ Head(buffer) \in EventType /\ a = b - 1 /\ b # 0
      /\ \A k \in 1..a : buffer'[k] = buffer[k + 1]
  BY HeadTailProperties, EmptySeq DEF IInv, SequencesTyped
<1>. HIDE DEF F, G, b, a, q, p
<1>4. 1 \in 1..Len(F) /\ F[1] = Head(buffer) /\ Len(G) = Len(F) - 1 /\ Len(F) \in Nat
  BY <1>1, <1>2, <1>3
<1>5. ASSUME NEW k \in 1..Len(G) PROVE G[k] = F[k + 1]
  <2>1. k + 1 \in 1..Len(F) /\ k \in Nat /\ 0 < k
    BY <1>4
  <2>2. CASE k <= a
    <3>1. k \in 1..a /\ k + 1 <= b
      BY <1>1, <1>3, <2>1, <2>2
    <3>. QED
      BY <1>1, <1>2, <1>3, <2>1, <2>2, <3>1
  <2>3. CASE a < k /\ k <= a + q
    <3>1. (k + 1) - b = k - a /\ b < k + 1 /\ k + 1 <= b + q
      BY <1>1, <1>3, <2>1, <2>3
    <3>. QED
      BY <1>1, <1>2, <2>1, <2>3, <3>1
  <2>4. CASE a + q < k
    <3>1. (k + 1) - (b + q) = k - (a + q) /\ b + q < k + 1
      BY <1>1, <1>3, <2>1, <2>4
    <3>. QED
      BY <1>1, <1>2, <2>1, <2>4, <3>1
  <2>. QED
    BY <1>1, <1>3, <2>1, <2>2, <2>3, <2>4
<1>6. Cut(F, G, 1)
  BY <1>4, <1>5 DEF Cut, Up
<1>. QED
  BY <1>3, <1>4, <1>5, <1>6 DEF F, G

(* What is reported is told before it is read.                             *)
LEMMA ReportKeepsLine ==
  ASSUME IInv, IInv', ReadEvent, Report(Head(buffer)), Head(buffer).wd \in DOMAIN watches,
         NEW f, NEW l, NEW paths
  PROVE  Carries(Line, Line', f, l, paths)
<1>. DEFINE e == Head(buffer)
            F == InFlight
            G == InFlight'
            L == Line
            M == Line'
            c == Len(changes)
<1>1. /\ 1 \in 1..Len(F) /\ F[1] = e /\ Len(G) = Len(F) - 1 /\ Len(F) \in Nat
      /\ \A k \in 1..Len(G) : G[k] = F[k + 1]
  BY TailFlight DEF ReadEvent, fsVars
<1>2. changes' = Append(changes, Told(watches, e)) /\ watches' = watches
  BY DEF Report, Told
<1>3. /\ Len(changes') = c + 1 /\ c \in Nat
      /\ \A k \in 1..c : changes'[k] = changes[k]
      /\ changes'[c + 1] = Told(watches, e)
  <2>. DEFINE S == ReturnType \union {Told(watches, e)}
              x == Told(watches, e)
  <2>1. changes \in Seq(S) /\ x \in S
    BY SeqMonotonic DEF IInv, SequencesTyped
  <2>. HIDE DEF S, x
  <2>2. /\ Len(Append(changes, x)) = c + 1 /\ c \in Nat /\ Append(changes, x)[c + 1] = x
        /\ \A k \in 1..c : Append(changes, x)[k] = changes[k]
    BY <2>1, AppendProperties, LenProperties
  <2>. QED
    BY <1>2, <2>2 DEF x
<1>4. Joined(L, changes, F, watches) /\ Joined(M, changes', G, watches)
  BY <1>2, LineJoined, LineJoinedNext
<1>. HIDE DEF e, F, G, L, M, c
<1>5. Len(L) \in Nat /\ Len(L) = c + Len(F) /\ Len(M) = Len(L)
  BY <1>1, <1>3, <1>4 DEF Joined, c
<1>6. ASSUME NEW i \in 1..Len(L) PROVE M[i] = L[i]
  <2>1. CASE i <= c
    BY <1>3, <1>4, <2>1 DEF Joined, c
  <2>2. CASE i = c + 1
    <3>1. i \in 1..Len(changes') /\ c < i /\ i - c = 1
      BY <1>3, <2>2
    <3>2. M[i] = Told(watches, e)
      BY <1>3, <1>4, <2>2, <3>1 DEF Joined
    <3>3. L[i] = Told(watches, F[1])
      BY <1>4, <3>1 DEF Joined, c
    <3>. QED
      BY <1>1, <3>2, <3>3
  <2>3. CASE c + 1 < i
    <3>. DEFINE k == i - (c + 1)
    <3>1. k \in 1..Len(G) /\ c < i /\ i - c = k + 1 /\ c + 1 < i /\ i \in 1..Len(M)
      BY <1>1, <1>3, <1>5, <2>3
    <3>2. M[i] = Told(watches, G[k])
      BY <1>3, <1>4, <3>1 DEF Joined
    <3>. HIDE DEF k
    <3>3. L[i] = Told(watches, F[k + 1])
      BY <1>4, <3>1 DEF Joined, c
    <3>. QED
      BY <1>1, <3>1, <3>2, <3>3
  <2>. QED
    BY <1>3, <1>5, <2>1, <2>2, <2>3
<1>7. Carries(L, M, f, l, paths)
  BY <1>5, <1>6, SameCarries
<1>. QED
  BY <1>7 DEF L, M

LEMMA ReadEventKeepsFile ==
  ASSUME IInv, GInv, IInv', ReadEvent, NEW f \in Files, FileInv(f)
  PROVE  FileInv(f)'
<1>. DEFINE e == Head(buffer)
            F == InFlight
            G == InFlight'
<1>1. /\ pc = "reading" /\ buffer # <<>> /\ buffer' = Tail(buffer)
      /\ \/ e.wd \in DOMAIN watches /\ (Invalidate(e) \/ Report(e))
         \/ e.wd \notin DOMAIN watches /\ UNCHANGED <<watches, changes>>
      /\ UNCHANGED <<fsVars, kernel, queue, pc, entries, unread, found, listed>>
  BY DEF ReadEvent, scanVars
<1>2. /\ 1 \in 1..Len(F) /\ F[1] = e /\ Len(G) = Len(F) - 1 /\ Len(F) \in Nat
      /\ \A k \in 1..Len(G) : G[k] = F[k + 1]
      /\ Cut(F, G, 1)
  BY <1>1, TailFlight DEF fsVars
<1>3. Heard(f) <=> HeardIn(F, watches, f)
  BY DEF Heard
<1>4. Heard(f)' <=> HeardIn(G, watches', f)
  BY DEF Heard
<1>5. Joined(Line, changes, F, watches) /\ Joined(Line', changes', G, watches')
  BY LineJoined, LineJoinedNext
<1>. HIDE DEF e, F, G
<1>6. ASSUME Follow(f) PROVE Carries(Line, Line', f, listed[f], PathsOf(f)) /\ Heard(f)'
  <2>1. HeardIn(F, watches, f)
    BY <1>3, <1>6 DEF Follow
  <2>2. ASSUME NEW k \in 1..Len(G), IsAbout(G[k], f)
        PROVE  /\ G[k].wd \in DOMAIN watches
               /\ e.what = "self" => e.wd # G[k].wd
    <3>1. k + 1 \in 1..Len(F) /\ G[k] = F[k + 1] /\ 1 < k + 1
      BY <1>2
    <3>. QED
      BY <1>2, <2>1, <2>2, <3>1 DEF HeardIn
  <2>3. CASE e.wd \in DOMAIN watches /\ Report(e)
    <3>1. Carries(Line, Line', f, listed[f], PathsOf(f))
      BY <2>3, ReportKeepsLine DEF e
    <3>2. HeardIn(G, watches, f)
      BY <1>2, <2>1, <2>2, HeardCut
    <3>. QED
      BY <1>4, <2>3, <3>1, <3>2 DEF Report
  <2>4. CASE Invalidate(e) \/ (e.wd \notin DOMAIN watches /\ UNCHANGED <<watches, changes>>)
    <3>1. changes' = changes /\ ~IsAbout(F[1], f)
      BY <1>2, <2>1, <2>4 DEF Invalidate, IsAbout, HeardIn
    <3>2. \A k \in 1..Len(G) : IsAbout(G[k], f) =>
             G[k].wd \in DOMAIN watches' /\ watches'[G[k].wd] = watches[G[k].wd]
      BY <2>2, <2>4 DEF Invalidate, RemoveDirectory
    <3>3. Joined(Line', changes, G, watches')
      BY <1>5, <3>1
    <3>. QED
      BY <1>2, <1>4, <1>5, <2>1, <3>1, <3>2, <3>3, CutFlight
  <2>. QED
    BY <1>1, <2>3, <2>4
<1>7. PathsOf(f)' = PathsOf(f) /\ Places(f)'
  BY <1>1, SamePlaces DEF fsVars, FileInv
<1>8. pc \in Live
  BY <1>1 DEF Live, Updating
<1>. QED
  BY <1>1, <1>6, <1>7, <1>8, CarriedOn

(* Erasing one event moves those behind it.                                *)
LEMMA RemoveAtCuts ==
  ASSUME NEW S, NEW s \in Seq(S), NEW i \in 1..Len(s)
  PROVE  Cut(s, RemoveAt(s, i), i)
<1>. DEFINE s1 == SubSeq(s, 1, i - 1)
            s2 == SubSeq(s, i + 1, Len(s))
            n == Len(s)
            r == RemoveAt(s, i)
<1>1. n \in Nat /\ i \in 1..n /\ \A k \in 1..n : s[k] \in S
  BY LenProperties, ElementOfSeq
<1>2. /\ s1 \in Seq(S) /\ Len(s1) = i - 1 /\ \A k \in 1..i - 1 : s1[k] = s[k]
  <2>1. /\ SubSeq(s, 1, i - 1) \in Seq(S) /\ Len(SubSeq(s, 1, i - 1)) = i - 1
        /\ \A k \in 1..i - 1 : SubSeq(s, 1, i - 1)[k] = s[1 + k - 1]
    BY <1>1, SubSeqProperties
  <2>. QED
    BY <2>1
<1>3. /\ s2 \in Seq(S) /\ Len(s2) = n - i /\ \A k \in 1..n - i : s2[k] = s[i + k]
  <2>1. /\ SubSeq(s, i + 1, Len(s)) \in Seq(S) /\ Len(SubSeq(s, i + 1, Len(s))) = n - i
        /\ \A k \in 1..n - i : SubSeq(s, i + 1, Len(s))[k] = s[(i + 1) + k - 1]
    BY <1>1, SubSeqProperties
  <2>2. \A k \in 1..n - i : (i + 1) + k - 1 = i + k
    OBVIOUS
  <2>. QED
    BY <2>1, <2>2
<1>4. r = s1 \o s2
  BY DEF RemoveAt
<1>. HIDE DEF s1, s2, n, r
<1>5. /\ Len(r) = n - 1
      /\ \A k \in 1..n - 1 : r[k] = IF k <= i - 1 THEN s1[k] ELSE s2[k - (i - 1)]
  <2>1. /\ Len(s1 \o s2) = Len(s1) + Len(s2)
        /\ \A k \in 1..Len(s1) + Len(s2) :
              (s1 \o s2)[k] = IF k <= Len(s1) THEN s1[k] ELSE s2[k - Len(s1)]
    BY <1>2, <1>3, ConcatProperties
  <2>2. Len(s1) + Len(s2) = n - 1
    BY <1>1, <1>2, <1>3
  <2>. QED
    BY <1>2, <1>4, <2>1, <2>2
<1>6. ASSUME NEW k \in 1..n - 1 PROVE r[k] = s[Up(k, i)]
  <2>1. CASE k < i
    <3>1. k <= i - 1 /\ k \in 1..i - 1
      BY <1>1, <2>1
    <3>. QED
      BY <1>2, <1>5, <2>1, <3>1 DEF Up
  <2>2. CASE ~(k < i)
    <3>1. ~(k <= i - 1) /\ k - (i - 1) \in 1..n - i /\ i + (k - (i - 1)) = k + 1
      BY <1>1, <2>2
    <3>. QED
      BY <1>3, <1>5, <2>2, <3>1 DEF Up
  <2>. QED
    BY <2>1, <2>2
<1>. QED
  BY <1>5, <1>6 DEF Cut, n, r

(* So it does in the line.                                                 *)
LEMMA LineOfIs ==
  ASSUME NEW S, NEW c \in Seq(S), NEW F, Len(F) \in Nat, NEW ws
  PROVE  /\ Len(c) \in Nat /\ Len(LineOf(c, F, ws)) = Len(c) + Len(F)
         /\ \A i \in 1..Len(c) : LineOf(c, F, ws)[i] = c[i]
         /\ \A i \in 1..Len(c) + Len(F) : Len(c) < i =>
               LineOf(c, F, ws)[i] = Told(ws, F[i - Len(c)])
<1>. DEFINE n == Len(F)
            m == Len(c)
            rest == [i \in 1..n |-> Told(ws, F[i])]
            Some == {rest[i] : i \in 1..n} \union S
<1>1. n \in Nat /\ m \in Nat
  BY LenProperties
<1>2. LineOf(c, F, ws) = c \o rest
  BY DEF LineOf
<1>. HIDE DEF n
<1>3. rest \in Seq(Some) /\ Len(rest) = n
  BY <1>1, SeqDef
<1>4. c \in Seq(Some)
  BY SeqMonotonic
<1>5. \A i \in 1..n : rest[i] = Told(ws, F[i])
  OBVIOUS
<1>. HIDE DEF rest, Some
<1>6. /\ Len(c \o rest) = m + n
      /\ \A i \in 1..m + n : (c \o rest)[i] = IF i <= m THEN c[i] ELSE rest[i - m]
  BY <1>3, <1>4, ConcatProperties
<1>. HIDE DEF m
<1>7. \A i \in 1..m : i \in 1..m + n /\ i <= m
  BY <1>1
<1>8. \A i \in 1..m + n : m < i => i - m \in 1..n /\ ~(i <= m)
  BY <1>1
<1>9. \A i \in 1..m : LineOf(c, F, ws)[i] = c[i]
  BY <1>2, <1>6, <1>7
<1>10. \A i \in 1..m + n : m < i => LineOf(c, F, ws)[i] = Told(ws, F[i - m])
  BY <1>2, <1>5, <1>6, <1>8
<1>. QED
  BY <1>1, <1>2, <1>6, <1>9, <1>10 DEF m, n

LEMMA CutFront ==
  ASSUME NEW S, NEW c \in Seq(S), NEW d \in Seq(S), NEW j \in 1..Len(c), Cut(c, d, j),
         NEW F, Len(F) \in Nat, NEW ws
  PROVE  Cut(LineOf(c, F, ws), LineOf(d, F, ws), j)
<1>. DEFINE n == Len(c)
            f == Len(F)
            L == LineOf(c, F, ws)
            M == LineOf(d, F, ws)
<1>1. /\ n \in Nat /\ Len(L) = n + f /\ \A i \in 1..n : L[i] = c[i]
      /\ \A i \in 1..n + f : n < i => L[i] = Told(ws, F[i - n])
  BY LineOfIs
<1>2. Len(d) = n - 1 /\ \A k \in 1..n - 1 : d[k] = c[Up(k, j)]
  BY DEF Cut
<1>3. /\ Len(M) = (n - 1) + f /\ \A i \in 1..n - 1 : M[i] = d[i]
      /\ \A i \in 1..(n - 1) + f : n - 1 < i => M[i] = Told(ws, F[i - (n - 1)])
  <2>1. /\ Len(M) = Len(d) + f /\ \A i \in 1..Len(d) : M[i] = d[i]
        /\ \A i \in 1..Len(d) + f : Len(d) < i => M[i] = Told(ws, F[i - Len(d)])
    BY LineOfIs
  <2>. QED
    BY <1>2, <2>1
<1>4. f \in Nat /\ j \in 1..n
  OBVIOUS
<1>. HIDE DEF n, f, L, M
<1>5. ASSUME NEW k \in 1..(n - 1) + f PROVE M[k] = L[Up(k, j)]
  <2>1. CASE k <= n - 1
    <3>1. k \in 1..n - 1 /\ Up(k, j) \in 1..n
      BY <1>1, <1>4, <2>1 DEF Up
    <3>. QED
      BY <1>1, <1>2, <1>3, <3>1
  <2>2. CASE n - 1 < k
    <3>1. Up(k, j) = k + 1 /\ k + 1 \in 1..n + f /\ n < k + 1 /\ k - (n - 1) = (k + 1) - n
      BY <1>1, <1>4, <2>2 DEF Up
    <3>. QED
      BY <1>1, <1>3, <2>2, <3>1
  <2>. QED
    BY <1>1, <1>4, <2>1, <2>2
<1>6. Len(M) = Len(L) - 1
  BY <1>1, <1>3, <1>4
<1>. QED
  BY <1>1, <1>3, <1>5, <1>6 DEF Cut, L, M

(* The pair that FilterEvents erases.                                      *)
LEMMA PairErased ==
  ASSUME IInv, Paired # {}
  PROVE  \E i, j \in 1..Len(changes) :
            /\ i = Min(Paired) /\ j = Min(After(i)) /\ i < j /\ Opposite(changes[i], changes[j])
            /\ \A k \in After(i) : j <= k
<1>. DEFINE i == Min(Paired)
            j == Min(After(i))
<1>1. Len(changes) \in Nat
  BY LenProperties DEF IInv, SequencesTyped
<1>2. i \in Paired
  <2>1. Paired \in SUBSET Nat
    BY DEF Paired
  <2>. QED
    BY <2>1, LeastNatural
<1>3. i \in 1..Len(changes) /\ After(i) # {}
  BY <1>2 DEF Paired
<1>. HIDE DEF i
<1>4. After(i) \in SUBSET Nat
  BY <1>1, <1>3 DEF After
<1>5. j \in After(i) /\ \A k \in After(i) : j <= k
  BY <1>3, <1>4, LeastNatural
<1>. HIDE DEF j
<1>6. j \in 1..Len(changes) /\ i < j /\ Opposite(changes[i], changes[j])
  BY <1>1, <1>3, <1>5 DEF After
<1>. QED
  BY <1>3, <1>5, <1>6 DEF i, j

(* Its events follow one another, and the first is a creation.             *)
LEMMA PairAdjacent ==
  ASSUME NEW L, NEW n \in Nat, Len(L) \in Nat, n <= Len(L), NEW f,
         NEW l, NEW paths, Tells(Tokens(L, f), L, l, paths),
         NEW i \in 1..n, NEW j \in 1..n, i < j, Opposite(L[i], L[j]), About(L[i], f),
         \A k \in 1..n : i < k /\ Opposite(L[i], L[k]) => j <= k
  PROVE  Adjacent(Tokens(L, f), i, j) /\ Created(L, i)
<1>. DEFINE P == Tokens(L, f)
            S == {k \in P : i < k}
            s == Min(S)
<1>1. i \in 1..Len(L) /\ j \in 1..Len(L)
  OBVIOUS
<1>2. /\ Opposite(L[i], L[j])
      /\ L[i].path = L[j].path /\ {L[i].type, L[j].type} = {"file_create", "file_delete"}
  BY DEF Opposite
<1>3. \/ L[i].type = "file_create" /\ L[j].type = "file_delete"
      \/ L[i].type = "file_delete" /\ L[j].type = "file_create"
  BY <1>2
<1>4. About(L[j], f)
  BY <1>2, <1>3 DEF About
<1>5. i \in P /\ j \in P /\ P \in SUBSET Nat
  BY <1>1, <1>4 DEF Tokens
<1>6. Created(L, i)
  BY <1>2, <1>3, <1>5 DEF Tells, Alternates, Created, Deleted
<1>7. S \in SUBSET Nat /\ j \in S
  BY <1>5
<1>8. s \in S /\ \A k \in S : s <= k
  BY <1>7, LeastNatural
<1>. HIDE DEF s
<1>9. s \in P /\ i < s /\ s <= j /\ s \in Nat /\ \A k \in P : k <= i \/ s <= k
  BY <1>5, <1>7, <1>8
<1>10. Adjacent(P, i, s)
  BY <1>5, <1>9 DEF Adjacent
<1>11. Deleted(L, s) /\ L[s].path = L[i].path
  BY <1>5, <1>6, <1>9, <1>10 DEF Tells, Alternates
<1>12. Opposite(L[i], L[s])
  BY <1>6, <1>11 DEF Opposite, Created, Deleted
<1>13. s \in 1..n
  BY <1>9
<1>14. s = j
  BY <1>9, <1>12, <1>13
<1>. QED
  BY <1>6, <1>10, <1>14

LEMMA FilterEventsKeepsFile ==
  ASSUME IInv, GInv, IInv', FilterEvents, NEW f \in Files, FileInv(f)
  PROVE  FileInv(f)'
<1>1. /\ pc = "reading" /\ pc' \in {"reading", "watching"}
      /\ UNCHANGED <<fsVars, kernel, queue, watches, buffer, listed>>
  BY DEF FilterEvents
<1>2. pc \in Live /\ pc' \in Live
  BY <1>1 DEF Live, Updating
<1>3. CASE Paired = {}
  BY <1>1, <1>2, <1>3, QuietKeepsFile DEF FilterEvents
<1>4. CASE Paired # {}
  <2>. DEFINE n == Len(changes)
              F == InFlight
              c == changes
              d == RemoveAt(changes, Min(After(Min(Paired))))
              L == LineOf(c, F, watches)
              l == listed[f]
              paths == PathsOf(f)
  <2>1. PICK i \in 1..n, j \in 1..n :
            /\ i = Min(Paired) /\ j = Min(After(i)) /\ i < j /\ Opposite(c[i], c[j])
            /\ \A k \in After(i) : j <= k
    BY <1>4, PairErased
  <2>2. c \in Seq(ReturnType) /\ n \in Nat /\ Len(F) \in Nat
    BY FactsNow, LenProperties DEF IInv, SequencesTyped, FlightFacts
  <2>3. d = RemoveAt(c, j) /\ changes' = RemoveAt(d, i)
    BY <1>4, <2>1 DEF FilterEvents
  <2>. HIDE DEF d
  <2>4. d \in Seq(ReturnType) /\ Cut(c, d, j) /\ i \in 1..Len(d)
    <3>1. d \in Seq(ReturnType) /\ Len(d) = n - 1 /\ Cut(c, d, j)
      BY <2>2, <2>3, RemoveAtTyped, RemoveAtCuts
    <3>. QED
      BY <2>1, <2>2, <3>1
  <2>5. changes' \in Seq(ReturnType) /\ Cut(d, changes', i)
    BY <2>3, <2>4, RemoveAtTyped, RemoveAtCuts
  <2>. DEFINE K == LineOf(d, F, watches)
              M == LineOf(changes', F, watches)
  <2>6. InFlight' = F /\ Line = L /\ Line' = M
    BY <1>1 DEF fsVars, InFlight, FlightOf, Line, LineOf
  <2>7. Cut(L, K, j) /\ Cut(K, M, i)
    BY <2>2, <2>4, <2>5, CutFront
  <2>8. Len(L) = n + Len(F) /\ \A k \in 1..n : L[k] = c[k]
    BY <2>2, LineOfIs
  <2>9. /\ Len(L) \in Nat /\ n <= Len(L) /\ i \in Nat /\ 0 < i /\ j \in 1..Len(L)
        /\ Opposite(L[i], L[j])
    BY <2>1, <2>2, <2>8
  <2>10. \A k \in 1..n : i < k /\ Opposite(L[i], L[k]) => j <= k
    <3>1. \A k \in 1..n : i < k /\ Opposite(c[i], c[k]) => k \in After(i)
      BY <2>1, <2>2 DEF After
    <3>. QED
      BY <2>1, <2>8, <3>1
  <2>11. Follow(f) /\ (Silent(Tally(f)) => Lists(f))
    BY <1>2 DEF FileInv
  <2>12. Tells(Tokens(L, f), L, l, paths)
    BY <2>6, <2>11 DEF Follow, Tally
  <2>. HIDE DEF n, F, c, L, K, M
  <2>13. About(L[i], f) <=> About(L[j], f)
    BY <2>9 DEF Opposite, About
  <2>14. /\ Tells(Tokens(M, f), M, l, paths)
         /\ Silent(Tokens(M, f)) => Lists(f)
    <3>1. CASE About(L[i], f)
      <4>1. Adjacent(Tokens(L, f), i, j) /\ Created(L, i)
        BY <2>1, <2>2, <2>9, <2>10, <2>12, <3>1, PairAdjacent
      <4>2. /\ Tells(Tokens(M, f), M, l, paths)
            /\ Silent(Tokens(M, f)) => l = Absent /\ paths = {}
        BY <2>1, <2>7, <2>9, <2>12, <4>1, CutPair
      <4>. QED
        BY <4>2 DEF Lists
    <3>2. CASE ~About(L[i], f)
      <4>1. /\ Tells(Tokens(L, f), L, l, paths) => Tells(Tokens(M, f), M, l, paths)
            /\ Silent(Tokens(M, f)) <=> Silent(Tokens(L, f))
        BY <2>1, <2>7, <2>9, <2>13, <3>2, CutPairOther
      <4>. QED
        BY <2>6, <2>11, <2>12, <4>1 DEF Tally
    <3>. QED
      BY <3>1, <3>2
  <2>15. PathsOf(f)' = PathsOf(f) /\ listed' = listed /\ watches' = watches
    BY <1>1, SamePlaces DEF fsVars
  <2>16. Heard(f)'
    BY <2>6, <2>11, <2>15 DEF Follow, Heard, F
  <2>17. Follow(f)' /\ (Silent(Tally(f))' => Lists(f)')
    BY <2>6, <2>14, <2>15, <2>16 DEF Follow, Tally, Lists
  <2>. QED
    BY <1>1, <1>2, <2>17, LiveKeepsFile DEF fsVars
<1>. QED
  BY <1>3, <1>4

LEMMA WatchNewKeepsFile ==
  ASSUME IInv, GInv, IInv', WatchNew, NEW f \in Files, FileInv(f)
  PROVE  FileInv(f)'
<1>1. /\ pc = "watching" /\ pc \in Live
      /\ UNCHANGED <<fsVars, queue, buffer, changes, pc, entries, unread, found, listed>>
  BY DEF WatchNew, scanVars, Live, Updating
<1>2. CASE AddDirectory(Head(toWatch).path[2])
  BY <1>1, <1>2, AddDirectoryKeepsFile
<1>3. CASE UNCHANGED <<kernel, watches>>
  BY <1>1, <1>3, QuietKeepsFile
<1>. QED
  BY <1>2, <1>3 DEF WatchNew

LEMMA UpdateReturnsKeepsFile ==
  ASSUME UpdateReturns, NEW f \in Files, FileInv(f)
  PROVE  FileInv(f)'
BY QuietKeepsFile DEF UpdateReturns, Live, Updating

(* The first change of the line is handled.                                *)
LEMMA DispatchKeepsFile ==
  ASSUME IInv, GInv, IInv', Dispatch, NEW f \in Files, FileInv(f)
  PROVE  FileInv(f)'
<1>. DEFINE e == Head(changes)
            L == Line
            M == Line'
            l == listed[f]
            m == listed'[f]
            paths == PathsOf(f)
<1>1. /\ pc = "loop" /\ pc' = "loop" /\ changes # <<>> /\ changes' = Tail(changes)
      /\ \/ e.type = "file_create" /\ AddFile(e.path)
         \/ e.type = "file_delete" /\ RemoveFile(e.path[2])
         \/ e.type \in {"dir_create", "dir_delete"} /\ UNCHANGED listed
      /\ UNCHANGED <<fsVars, kernel, queue, watches, buffer>>
  BY DEF Dispatch
<1>2. /\ 1 \in 1..Len(L) /\ L[1] = e /\ Len(L) \in Nat /\ Len(M) = Len(L) - 1
      /\ \A k \in 1..Len(M) : M[k] = L[k + 1]
  <2>1. InFlight' = InFlight /\ watches' = watches
    BY <1>1 DEF InFlight, FlightOf, fsVars
  <2>. DEFINE n == Len(changes)
              h == Len(InFlight)
  <2>2. /\ n \in Nat /\ n # 0 /\ Len(changes') = n - 1 /\ e = changes[1]
        /\ \A k \in 1..n - 1 : changes'[k] = changes[k + 1]
    BY <1>1, HeadTailProperties, LenProperties, EmptySeq DEF IInv, SequencesTyped
  <2>3. /\ h \in Nat /\ Len(L) = n + h
        /\ \A i \in 1..n : L[i] = changes[i]
        /\ \A i \in 1..Len(L) : n < i => L[i] = Told(watches, InFlight[i - n])
    BY LineJoined DEF Joined
  <2>4. /\ Len(M) = Len(changes') + h
        /\ \A i \in 1..Len(changes') : M[i] = changes'[i]
        /\ \A i \in 1..Len(M) : Len(changes') < i => M[i] = Told(watches, InFlight[i - Len(changes')])
    BY <2>1, LineJoinedNext DEF Joined
  <2>. HIDE DEF n, h, L, M, e
  <2>5. ASSUME NEW k \in 1..Len(M) PROVE M[k] = L[k + 1]
    <3>1. k + 1 \in 1..Len(L)
      BY <2>2, <2>3, <2>4
    <3>2. CASE k <= n - 1
      <4>1. k \in 1..n - 1 /\ k + 1 \in 1..n
        BY <2>2, <3>2
      <4>. QED
        BY <2>2, <2>3, <2>4, <4>1
    <3>3. CASE n - 1 < k
      <4>1. n < k + 1 /\ k - (n - 1) = (k + 1) - n
        BY <2>2, <3>3
      <4>. QED
        BY <2>2, <2>3, <2>4, <3>1, <3>3, <4>1
    <3>. QED
      BY <2>2, <3>2, <3>3
  <2>. QED
    BY <2>2, <2>3, <2>4, <2>5
<1>3. Follow(f) /\ (Silent(Tally(f)) => Lists(f)) /\ Tally(f) = Tokens(L, f)
  BY <1>1 DEF FileInv, Live, Tally
<1>4. Tells(Tokens(L, f), L, l, paths)
  BY <1>3 DEF Follow
<1>5. listed \in [Files -> Paths \union {Absent}]
  BY DEF IInv, MainTyped
<1>6. Tokens(M, f) = Tally(f)'
  BY DEF Tally
<1>. HIDE DEF e, L, M
<1>7. ASSUME About(L[1], f)
      PROVE  /\ Tells(Tokens(M, f), M, m, paths)
             /\ Silent(Tokens(M, f)) => IF paths = {} THEN m = Absent ELSE m \in paths
  <2>1. e.path[2] = f /\ e.type \in {"file_create", "file_delete"}
    BY <1>2, <1>7 DEF About
  <2>2. Deleted(L, 1) => m = Absent
    BY <1>1, <1>2, <1>5, <2>1 DEF Deleted, RemoveFile
  <2>3. /\ Tells(Tokens(M, f), M, m, paths)
        /\ Silent(Tokens(M, f)) => Latest(Tokens(L, f), 1)
    BY <1>2, <1>4, <1>7, <2>2, CutFirst
  <2>4. ASSUME Latest(Tokens(L, f), 1)
        PROVE  IF paths = {} THEN m = Absent ELSE m \in paths
    <3>1. 1 \in Tokens(L, f) /\ Earliest(Tokens(L, f), 1)
      BY <1>2, <1>7 DEF Tokens, Earliest
    <3>2. IF Created(L, 1) THEN L[1].path \in paths ELSE paths = {}
      BY <1>4, <2>4, <3>1 DEF Tells, Leads
    <3>3. CASE Created(L, 1)
      <4>1. l = Absent
        BY <1>4, <3>1, <3>3 DEF Tells, Begins
      <4>2. e.path \in paths
        BY <1>2, <3>2, <3>3
      <4>3. FileExists(e.path)
        BY <4>2, PathFacts
      <4>4. listed' = [listed EXCEPT ![f] = e.path]
        BY <1>1, <1>2, <2>1, <3>3, <4>1, <4>3 DEF Created, AddFile
      <4>. QED
        BY <1>5, <4>2, <4>4
    <3>4. CASE ~Created(L, 1)
      <4>1. Deleted(L, 1)
        BY <1>2, <2>1, <3>4 DEF Created, Deleted
      <4>. QED
        BY <2>2, <3>2, <3>4, <4>1
    <3>. QED
      BY <3>3, <3>4
  <2>. QED
    BY <2>3, <2>4
<1>8. ASSUME ~About(L[1], f)
      PROVE  /\ Tells(Tokens(M, f), M, m, paths)
             /\ Silent(Tokens(M, f)) => IF paths = {} THEN m = Absent ELSE m \in paths
  <2>1. m = l
    <3>1. CASE e.type = "file_create" /\ AddFile(e.path)
      <4>1. e.path[2] # f
        BY <1>2, <1>8, <3>1 DEF About
      <4>. QED
        BY <1>5, <3>1, <4>1 DEF AddFile
    <3>2. CASE e.type = "file_delete" /\ RemoveFile(e.path[2])
      <4>1. e.path[2] # f
        BY <1>2, <1>8, <3>2 DEF About
      <4>. QED
        BY <1>5, <3>2, <4>1 DEF RemoveFile
    <3>3. CASE UNCHANGED listed
      BY <3>3
    <3>. QED
      BY <1>1, <3>1, <3>2, <3>3
  <2>2. /\ Tells(Tokens(L, f), L, l, paths) => Tells(Tokens(M, f), M, l, paths)
        /\ Silent(Tokens(M, f)) <=> Silent(Tokens(L, f))
    <3>1. \A k \in 1..Len(M) : M[k] = L[Up(k, 1)]
      BY <1>2 DEF Up
    <3>. QED
      BY <1>2, <1>8, <3>1, CutOther
  <2>. QED
    BY <1>3, <1>4, <2>1, <2>2 DEF Lists
<1>9. /\ Tells(Tokens(M, f), M, m, paths)
      /\ Silent(Tokens(M, f)) => IF paths = {} THEN m = Absent ELSE m \in paths
  BY <1>7, <1>8
<1>10. PathsOf(f)' = PathsOf(f) /\ InFlight' = InFlight /\ watches' = watches
  BY <1>1, SamePlaces DEF InFlight, FlightOf, fsVars
<1>11. Follow(f)' /\ (Silent(Tally(f))' => Lists(f)')
  BY <1>3, <1>6, <1>9, <1>10 DEF Follow, Heard, Lists, M
<1>. QED
  BY <1>1, <1>11, LiveKeepsFile DEF fsVars, Live

-----------------------------------------------------------------------------
(* All steps.                                                              *)

LEMMA MainKeepsFile ==
  ASSUME IInv, GInv, IInv', Main, NEW f \in Files, FileInv(f)
  PROVE  FileInv(f)'
<1>1. ASSUME NEW dir \in DirPaths, ScanWatch(dir) PROVE FileInv(f)'
  BY <1>1, AddDirectoryKeepsFile DEF ScanWatch
<1>2. ASSUME NEW dir \in DirPaths, ScanRead(dir) PROVE FileInv(f)'
  BY <1>2, ScanReadKeepsFile
<1>3. ASSUME NEW p \in Paths, ScanEntry(p) \/ AddFound(p) PROVE FileInv(f)'
  BY <1>3, ScanEntryKeepsFile, AddFoundKeepsFile
<1>4. CASE StartWatch \/ Loop
  BY <1>4, StartWatchKeepsFile, LoopKeepsFile
<1>5. CASE Update \/ ReadEvent \/ FilterEvents \/ WatchNew \/ UpdateReturns \/ Dispatch
  BY <1>5, UpdateKeepsFile, ReadEventKeepsFile, FilterEventsKeepsFile, WatchNewKeepsFile,
     UpdateReturnsKeepsFile, DispatchKeepsFile
<1>. QED
  BY <1>1, <1>2, <1>3, <1>4, <1>5 DEF Main

LEMMA StutterKeepsFile ==
  ASSUME UNCHANGED vars, NEW f \in Files, FileInv(f)
  PROVE  FileInv(f)'
<1>1. UNCHANGED <<fsVars, kernel, queue, watches, buffer, changes, listed, entries, unread,
                  found, pc>>
  BY DEF vars, mainVars, scanVars
<1>2. Line' = Line /\ InFlight' = InFlight
  BY <1>1, LineSame DEF fsVars
<1>3. PathsOf(f)' = PathsOf(f) /\ Places(f)'
  BY <1>1, SamePlaces DEF fsVars, FileInv
<1>4. Tally(f)' = Tally(f) /\ Heard(f)' = Heard(f)
  BY <1>1, <1>2 DEF Tally, Heard
<1>5. Follow(f)' = Follow(f) /\ Lists(f)' = Lists(f) /\ Unbegun(f)' = Unbegun(f)
  BY <1>1, <1>2, <1>3, <1>4 DEF Follow, Lists, Unbegun, fsVars
<1>6. Startup(f)' = Startup(f)
  BY <1>1, <1>2, <1>3, <1>4 DEF Startup, Scanned, Queued
<1>. QED
  BY <1>1, <1>3, <1>4, <1>5, <1>6 DEF FileInv

LEMMA MissedGrows == [Next]_vars => missed \subseteq missed'
<1>1. FileSystem => missed \subseteq missed'
  BY DEF FileSystem, CreateFile, DeleteFile, MoveFile, MakeDir, RemoveDir, MoveDir, Change
<1>2. Notify => missed' = missed
  BY DEF Notify
<1>3. Main => missed' = missed
  BY DEF Main, StartWatch, Loop, ScanRead, ScanWatch, ScanEntry, AddFound, Update, ReadEvent,
         FilterEvents, WatchNew, UpdateReturns, Dispatch, fsVars
<1>4. UNCHANGED vars => missed' = missed
  BY DEF vars, fsVars
<1>. QED
  BY <1>1, <1>2, <1>3, <1>4 DEF Next

LEMMA NextKeepsLInv == IInv /\ GInv /\ LInv /\ [Next]_vars => LInv'
<1>. SUFFICES ASSUME IInv, GInv, LInv, [Next]_vars, NEW f \in Files, f \notin missed'
              PROVE  FileInv(f)'
  BY DEF LInv
<1>1. FileInv(f)
  BY MissedGrows DEF LInv
<1>2. IInv'
  BY NextKeepsIInv
<1>3. CASE FileSystem
  BY <1>1, <1>2, <1>3, FileSystemKeepsFile
<1>4. CASE Notify
  BY <1>1, <1>2, <1>4, NotifyKeepsFile
<1>5. CASE Main
  BY <1>1, <1>2, <1>5, MainKeepsFile
<1>6. CASE UNCHANGED vars
  BY <1>1, <1>6, StutterKeepsFile
<1>. QED
  BY <1>3, <1>4, <1>5, <1>6 DEF Next

LEMMA InitImpliesLInv == Init => LInv
<1>. SUFFICES ASSUME Init, NEW f \in Files PROVE FileInv(f)
  BY DEF LInv
<1>1. \A d, e \in Inodes : f \in holds[d] /\ f \in holds[e] => d = e
  BY DEF Init
<1>2. \A d \in Inodes : f \in holds[d] => InTree(d)
  BY DEF Init, InTree, At, DirPaths, Inodes
<1>3. Unbegun(f)
  BY DEF Init, Unbegun
<1>. QED
  BY <1>1, <1>2, <1>3 DEF FileInv, Places, Init, Live, Updating

-----------------------------------------------------------------------------
(* Of every file of which no change may be missed, what is on its way from *)
(* the file system to ContentDirectoryService::files tells, with what is   *)
(* listed and what startup has yet to search, where the file is; and the   *)
(* watches its events need are there until they were read.                 *)
THEOREM ListingInvariant == Spec => [](IInv /\ GInv /\ LInv)
<1>1. Init => IInv /\ GInv /\ LInv
  BY InitImpliesIInv, GInit, InitImpliesLInv
<1>2. (IInv /\ GInv /\ LInv) /\ [Next]_vars => (IInv /\ GInv /\ LInv)'
  BY NextKeepsIInv, NextKeepsG, NextKeepsLInv
<1>. QED
  BY <1>1, <1>2, PTL DEF Spec

(* Once everything was read and handled, ContentDirectoryService::files    *)
(* has the files that are there and no others, each with the path it has:  *)
(* those of which no change may be missed, after any number of creations,  *)
(* deletions and renamings of files and directories, in whatever batches   *)
(* Update read them and whatever pairs FilterEvents erased.                *)
THEOREM ListingIsCurrent == Spec => []ListingFollows
<1>1. IInv /\ GInv /\ LInv => ListingFollows
  <2>. SUFFICES ASSUME IInv, LInv, Settled, NEW f \in Files, f \notin missed PROVE Lists(f)
    BY DEF ListingFollows
  <2>1. pc = "loop" /\ buffer = <<>> /\ queue = <<>> /\ pending = <<>> /\ changes = <<>>
    BY DEF Settled, IInv, BufferRead
  <2>2. Len(Line) = 0
    <3>1. Len(buffer) = 0 /\ Len(queue) = 0 /\ Len(pending) = 0 /\ Len(changes) = 0
      BY <2>1
    <3>2. Len(Line) = Len(changes) + Len(InFlight)
      BY FactsNow DEF LineFacts
    <3>3. Len(InFlight) = Len(buffer) + Len(queue) + Len(pending)
      BY FactsNow DEF FlightFacts
    <3>. QED
      BY <3>1, <3>2, <3>3
  <2>3. Silent(Tally(f))
    BY <2>2 DEF Silent, Tally, Tokens
  <2>. QED
    BY <2>1, <2>3 DEF LInv, FileInv, Live
<1>. QED
  BY <1>1, ListingInvariant, PTL

=============================================================================
