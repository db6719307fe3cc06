# A verification project for upnp_live

upnp_live is a UPnP media server that offers live streams (the output of a
command, optionally piped through a transcoder) and files from watched
directories. This directory holds TLA+ modules translated from its source,
configurations that check them with TLC, and proofs checked by TLAPS.

Paths such as `MemoryStore.cpp:254` are relative to `src/` of the repository.

* [Inventory](#inventory)
* [Plan](#plan)
* [The modules](#the-modules)
* [How unfinished source is read](#how-unfinished-source-is-read)
* [Runs](#runs), [bounds](#bounds), [fairness](#fairness)
* [Disagreements found](#disagreements-found)
* [Proofs](#proofs)
* [What is not modelled](#what-is-not-modelled)

## Inventory

Threads: the main thread; the threads of the UPnP library, which call back into
`Server` (Open, Read, Close, GetInfo) and `ContentDirectoryService`
(ExecuteAction); one heartbeat thread in `MemoryStore`, one in
`ContentDirectoryService` and one in every `Stream`. Child processes: for every
stream a handler, perhaps a transcoder, and now and then a status script.

| Component | State | Operations | What is hard | What makes it correct |
|---|---|---|---|---|
| Ring buffer (`StreamHandle`, `ClientHandle`) | the bytes, `tail`, `finished`; a `head` per client | GetAVData, Read, joining, leaving | wrapping in chunks, overrun of slow clients, `head` = `tail` is "empty", a head sampled before its client is registered | the ring holds the newest bytes in order; clients read consecutive bytes and lose only what was overwritten, as long as their stream has one buffer |
| Memory store and the server's file operations | `streamHandles`, `clientHandles`, `handles` and a mutex for each, one `rw_mutex` per buffer | CreateHandle, DestroyHandle, Read, RemoveStreamHandle, Heartbeat; Server::Open, Read, Close, Shutdown | locks given up between lookup and use, a heartbeat on a stale copy, blocking reads with locks held | no buffer without clients, no finished buffer handed out, every call returns |
| Stream, AV handlers, transcoder, child processes | process numbers, pipe ends, `inputPipe`, `lastRead`, `streamIsLive` | Start, Stop, Read, Heartbeat, UpdateStatus, the destructor; InitProcess, ShutdownProcess, SetInput | start against stop, a timeout that is judged late, the ends of pipes, a join of a thread that may wait | no child is lost while the stream lives, nothing waits for ever, an unused stream is stopped and a used one is not |
| External status handler | `processId`, the process table | GetStatus | reused process numbers, signals, failing fork, handlers of other streams that wait for any child | live only after an exit code of 0; every script is reaped |
| HTTP status handler, HTTP request | the connection, the response | GetStatus, Execute | exits at every call, redirects without end | no connection is left open; live only by an answer; polls return |
| Directory monitor, startup search, main loop | `watches`; the inotify queue; the list `files` | Update, AddDirectory, FilterEvents; GetDirectoryContents; AddFile, RemoveFile | a file system that changes meanwhile, inodes that move, batches | the watches name the directories they are on; the list is what is in the directories |
| Content directory | `streams`, `liveStreams`, `files` and a mutex for each | AddStream, RemoveStream, AddFile, RemoveFile, Heartbeat, browse | a list that changes during a walk, the arithmetic of pages, names that cannot be escaped | a page is the slice its numbers say; the live list follows the status |
| Server | streams, files, base names, the device description | AddStream, AddFiles, GetInfo, Open ... | | (as parts of the above) |
| Configuration, utilities | `options` | parsing, splitting, trimming, escaping | the last block takes every setting, numbers cut to 32 bits, positions that wrap at `npos`, constructors that refuse a stream, loops that replace a character by a text that has it, or try a directory again | what is served is what the file describes; a command is split as it reads; startup ends if the directories can be opened |
| main | `shutdown_flag`, `shutdown_count`, `server` | signals, startup, shutdown | a signal during startup; freeing the server under running calls; a constructor that throws halfway; the destructor of a stream, which joins a heartbeat | a signal ends the process unless something that has no end of its own is waited for, a request is answered |
| Connection manager, logger | none, or one mutex | constants, output | calls during the end of the process | as for main |
| HttpAVHandler, HttpPersistentRequest, ContentObject, ... | | stubs nothing uses | | |

How they interact: the library's threads call `Server::Open`, which asks
`MemoryStore` for a client handle; the store starts the `Stream` for the first
client and its heartbeat calls `Stream::Read`, which reads from the pipe of the
handler or of the transcoder. `Stream::Heartbeat` polls the status handler and
stops the handler after `handlerTimeout` seconds without `UpdateReadTime`, which
the clients' reads call. `ContentDirectoryService::Heartbeat` asks every stream
`IsLive` and keeps `liveStreams`. The main loop hands what
`DirectoryMonitor::Update` returns to `Server::AddFile` and `RemoveFile`, which
change `ContentDirectoryService::files`.

The hazards are listed in `PROJECT.json`, each at its line with the properties
that would notice it.

## Plan

In this order, the most important behaviour first:

1. `LiveLog` (what a stream's buffer promises), `MemoryRing` (the ring, which
   refines it), `MemoryRing_proof`. *Done.*
2. `MemoryStore` (the containers and locks around the rings),
   `MemoryStore_proof`; `Heads` and `RingHeads`, by which it and the ring fit
   together. *Done.*
3. `StreamLifecycle` (a stream and its processes), `StreamLifecycle_proof`. *Done.*
4. `DirectoryWatch` (monitor, startup, main loop, list of files),
   `DirectoryWatch_proof`. *Done.*
5. `ContentDirectory` (lists, heartbeat, browse), `Process`, which has the
   start, the signals and the end around it, and `Process_proof` about both. *Done.*
6. `ExternalStatus`, `HttpStatus` (the two ways to find out whether a stream is
   live), `StreamStatus`, which composes them with the stream's heartbeat, and
   `StreamStatus_proof` about the three. *Done.*
7. `SplitArgs`, `Configuration` (from the arguments and the file to what is
   served), `Configuration_proof`. *Done.*
8. Left: an abstract specification of a stream that `StreamLifecycle` implements.
   What it would promise about safety is stated by properties now (`NoOrphans`,
   `ReadsOpenPipe`, `KeepsPipe`); that a stream "runs exactly while it is used" is
   refuted by `timeout_race`.

Abstract specifications: `LiveLog` is what a ring buffer promises to its clients,
`RingHeads` what `MemoryStore` takes it for. Theorems: those listed under
[Proofs](#proofs).

## The modules

### LiveLog, MemoryRing

`LiveLog` is a log of numbered bytes that only grows, of which the newest
`Retained` can be read; a client takes consecutive bytes from its place, loses
bytes only by falling out of the window, and is then at the oldest byte left.

`MemoryRing` is one `StreamHandle` with its `ClientHandle`s. `buf`, `tail`,
`finished`, `head` are the fields of the same names; a byte is the number the
stream gave it, so that `buf[p]` says which one a position holds. `GetAVData(n)`
is the whole of `MemoryStore::GetAVData` when the stream returned `n` bytes, under
the exclusive `rw_mutex`, with the loop that moves the heads (`MovedHead`). `Read`
is `ReadBegin`, one `ReadChunk` for every `memcpy`, `ReadReturn`; a client that
is inside holds the shared lock (`RingLockFree`). `MakeClient` and
`RegisterClient` are the two separate critical sections in which a client gets its
head and enters the container. `Finish` is the heartbeat's handler, which takes no
`rw_mutex`.

A stream can have two buffers at a time (`clients_share` shows how), and `GetAVData`
finds the clients whose heads it moves by the name of the stream
(`MemoryStore.cpp:277`): filling the other buffer moves heads in this one, by positions that mean
nothing here, or from -1 to 0 in a ring that was never filled. `OtherGetAVData` is that
step. It holds the `rw_mutex` of the other buffer only, so that a reader of this
one may be in the middle of its copy loop: `ReadChunkRaced` is a turn of the loop in which
the head changes between its two loads, or after them, and `lost` the readers whose store
undoes the move. `strayed` remembers whose head was moved, and the properties about
clients are about the others (`Loyal`): of a client that has strayed nothing can be
promised, it may be handed memory that was never filled, lose bytes or get them twice.

The refinement: `Retained` is `len`, the place of a client is the byte under its
head; of a client that has strayed `LiveLog` knows no more than that (`GiveUp`). Joining clients have a weaker guarantee in `LiveLog`, because a head that
was sampled is not moved until its client is registered.

### Heads, RingHeads

`MemoryStore` has many rings and knows of each only whether it was ever filled, and of
a head only whether it is nowhere ("none"), at the tail ("tail"), or elsewhere
("behind"). `Heads` says what the constructor of `ClientHandle`, `Read` and `GetAVData`
make of that place; `MemoryStore` uses these operators, and `RingHeads` is one ring
described by them, with what another ring of the stream does to it (`FillOther`). `MemoryRing` implements `RingHeads`, so the abstraction is not
an assumption.

### MemoryStore

`Server::Open`, `Read`, `Close`, `MemoryStore`'s containers and its heartbeat,
with any number of threads, streams and buffers. `pc` tells which critical section
a thread is at; who holds the mutexes that are kept across steps follows from
it (`HandlesLocked`, `StreamsLocked`) and from where the heartbeat is
(`ClientsLocked`, `BufferLocked`, `SourceLocked`). The contents of a ring are
abstracted as in `Heads`.
Buffers are freed with the last pointer to them (`Used`, `FreeUnused`), and the
pointers of the heartbeat's copy count.

Undefined behaviour is a choice: the loop of `DestroyHandle` uses an iterator it
has erased, so `Destroy` may count no client where some are left; that, `Close`
erasing without `handleMutex`, and calls after the server was freed may end the
process (`Crash`). The heartbeat is started before `alive` is set; if it looks first it
has ended for good (`hb = "ended"` in Init), and nothing is ever read.

### StreamLifecycle

One stream of each of three kinds. `processId` is what the `ChildProcess` has
(0, -1, a number; for a `FileAVHandler`, an open file), `child` what the
process really does, `orphans` whether one runs that no `processId` names, `ends` who holds
the write end of each output pipe: a fork copies what the server had. A read from a pipe
waits with the mutex of its `ChildProcess` held (`Locked`). `Start`, the
two halves of `Stop`, the heartbeat's looks, and the destructor with its members
are steps of the threads they run in.

The destructor calls `Stop` only if the stream is live (`Stream.cpp:113`; `spared`
remembers a stream for which it did not). The transcoder's own destructor then ends its process,
but the handler is deleted as an `AVHandler`, which has no virtual destructor
(`AVHandler.h:10-18`), so that a handler that runs may be left running with nobody to name it
(`DestroyHandler`). `NoOrphans` allows exactly that, and nothing else.

### ExternalStatus, HttpStatus, StreamStatus

`ExternalStatus` is `GetStatus` against a process table in which others come, end
and take over freed numbers, and in which the handlers of other streams may wait for the
script first (`OthersReap`): with the -1 of a failed fork `waitpid` takes any child, and a
number that was waited for already may be the script's by now. `stolen` remembers that. `HttpStatus` is `GetStatus` and `HttpRequest` with
each library call failing or not.

`StreamStatus` has an instance of each and is the status half of
`Stream::Heartbeat`: which handler a stream gets (`createStatusHandler`), what it
starts as, `FindsRunning` for a stream that runs and needs no poll, and
`Asks`/`Polls`, whose answer becomes `streamIsLive` however long it took.
`StartsOrStops` is what clients do to the handler meanwhile.

### DirectoryWatch

The file system and inotify are external: changes, then their notifications, one
at a time. `Update` moves the whole queue into its buffer; `ReadEvent` makes a change of
each event (`Report`) or erases a watch (`Invalidate`); `FilterEvents` is one pass
of the `goto` over what came of it; `WatchNew` looks at one change and watches
a directory that is new; `UpdateReturns` gives the changes to main, which
dispatches one at a time. The file system goes on between any two of these
steps, as nothing keeps it from doing so. Startup is `StartWatch`, `ScanRead`,
`ScanEntry`, `ScanWatch`, `AddFound`, `Loop`. The history variable `missed` has the
files of which the code has no chance to hear, or may hear wrongly, as said at `Change`.

### ContentDirectory, Process

`ContentDirectory` has the lists and their heartbeat; `browse` counts under its
locks, then walks, one item at a time. Items are numbers so that their order is
that of a walk; a file may have the name of a stream. `crashed` is the undefined
behaviour of walking a map that the heartbeat erases from or inserts into
(`Dangling`; `liveStreams` is an `unordered_map`, which an insertion may rehash).
`EscapeURI` and `EscapeXML` replace `%` and `&` by texts that begin with them
and begin again where they are: a call that shows such an item stays where it is
(`Hangs`), the first of the two with the locks held. In the code the text grows
until the memory is used up; that the exception then ends something is not assumed.

`Process` is main around that: `InitLibrary`, `loadXml`, `MakeService`,
`RegisterDevice`, `SendAdvertisement` are the constructor of `Server`, `StartFails` and
`Unwind` its exceptions, `AddStreams`, `BeginChange`/`ChangeFile`, `BeginLoop` the rest of
the start and the loop, `LeaveLoop`, `Shutdown`, `StopHeartbeat`,
`JoinHeartbeat` the destructors of the server up to its services, `DestroyStream` and
`StreamsDestroyed` those of the streams, `Finish` is `UpnpFinish`. The loop looks at `shutdown_flag`
once for each `Update` and then handles all the changes it returned (`Updated`, `batch`).
`~MemoryStore` is not among the steps: `AVStore` has no virtual destructor, and `delete server`
does not join the heartbeat of the store. Nor does `~Stream` wait for a blocked read in main: the
heartbeat that reads has a pointer to the stream, and the destructor then runs when that is let go. `handle_signal` may come at any time.
`IncomingEvent` hands a request to the content directory or to the connection
manager (`Manage`, `ManagerAnswers`), through a null pointer as long as `server` is not
assigned; a call that is under way in a service that is freed is undefined (`Freed`).
Three waits have no end of their own: an `Update` of a directory that cannot be opened (`Updated`), a
status poll that `~Stream` joins (`PollEnds`), and a file operation that waits for its stream
(`OpenFile`, `FileReturns`). Their ends are steps without fairness.
`RemoveStream` has no caller in the source; `DropStream` lets the loop call it.

### SplitArgs, Configuration

`SplitArgs` is `SplitArgString`, one turn of its loop at a time over `pos1` and
`pos2`: a quote that is never closed makes `pos1` wrap to the beginning, and the words
are found again until the memory is used up (`Exhausted`, after `MaxWords`).
`Arguments` is the reference: a recursive function over the characters (`Reader`) that knows
whether it is between words, in a word, or in a quoted one.

`Configuration` reads a file of lines (`ReadLine`): a setting goes to the stream that
was begun last, `buffer` is cut to 32 bits before it is compared (`BufferSize`), a
number that is none ends the reading (`Throws`). Then main
searches the directories (`SearchDirectory`; one that cannot be opened, in no `Listing`, is tried
for ever), and what it finds goes behind the files of the file (`Offered`). Then `AddStream` for each
stream: `createAVHandler` with the checks of `FileAVHandler` (`HasHandler`), the arguments of an
HTTP status handler, which are split too (`MakeStatusHandler`) and must have a URL (`Url`:
a word that is no option and no value of one), the splitting of the command (`SplitCommand`) and the checks of
`Transcoder` and `Stream` (`Constructible`), any of which skips the stream; then `AddFile`. Main
catches the exceptions of each stream and goes on.

## How unfinished source is read

The commit is in the middle of a change and some lines do not compile. They
are read as the declarations around them demand:

* `Server::Open` passes the stream it found (`stream_obj = *it` is the mapped pointer).
* `RemoveStreamHandle` is the function the header declares as `DestroyStreamHandle`.
* `ProcessId` in `ChildProcess.cpp:26` is the member `processId`.
* `Shutdown()` in the transcoder is its `ShutdownProcess`.
* the casts in `Stream::Start` find out whether the handler is an `ExternalAVHandler`.
* `main.cpp:171-175` aborts whatever `signal` returns; the condition of lines 166-170 was meant.
* `FileAVHandler::Read` reads nothing; such a stream is read from its transcoder.

## Runs

| Run | Shows |
|---|---|
| `ring` | `RingHoldsNewest`: the ring has exactly the newest bytes in ring order. For clients whose head no other buffer has moved, `HeadsAtWrittenBytes`: nobody reads memory that was not filled. `LosesOnlyOverrun`, `NeverGoesBack`, `CopiesInOrder`: what writes and reads do to the place of a client. `ReadsReturn`: the copy loop ends. `ImplementsLiveLog`: refinement |
| `store` | `NoIdleBuffer`: no buffer is left to be filled without clients. `FinishedBuffersLeave`: nobody is given a buffer the heartbeat has given up. `NeverReplaced`: two threads do not start the same stream. `CallsReturn`: no deadlock of the four mutexes and no starvation. `ReadsEnd`: shutdown and the end of a stream reach every reader that has a head |
| `stream` | `NoOrphans`, `ReadsOpenPipe`: start, stop, timeout, restart lose no process and take no pipe from a reader, and no process outlives its stream but the handler's of one destroyed while not live. `ThreadsGoOn`, `DestructorReturns`, `IdleStreamsStop`: all goes on, unless a read waits for something nobody will write |
| `stream_status` | `ScriptsReaped`, `FailedNotLive`, `NoneLeftOpen`, `LiveFromAnswer` of the two handlers within a stream (`FailedNotLive` unless the handler of another stream was there first); `PollsReturn`, under servers that redirect for ever, unless a poll waits for a process that is not its own; `RunningIsLive`: a late answer does not leave a stream that is played off the list |
| `directories` | `WatchesFollow`: the path of a watch is right or about to be dropped. `ListingFollows`: once all is read, the list is what is there, but for the files in `missed` |
| `process` | `LiveAreStreams`, `PagesAreSlices` (unless the heartbeat changed the list during the call), `StatusFollows`; `SignalEnds`: a signal ends the process though main waits for a mutex or is in a batch of changes, unless an `Update`, a poll that is joined or a file operation never ends, or a name cannot be escaped; `BrowsesReturn`: every request is answered while the server comes and goes, unless a name cannot be escaped |
| `configuration` | `ServedAsWritten`: the streams and files are those the file and its directories describe; `SplitsAsRead`: commands and the arguments of status handlers are split as they read, and only a quote that is not closed prevents that; `StartupEnds`, unless a directory cannot be opened |
| `clients_share`, `eof_never`, `timeout_race`, `status_of_killed`, `refiltered` | counterexamples, see [below](#disagreements-found) |

Deadlock is checked except in the runs about directories and in `process`:
there a bounded file system comes to rest, startup may end in `hung` or
`terminated`, and a crash or the end of main ends the process. `configuration` stutters in these places (`Over`).

### Bounds

* `ring`: 4 bytes, 2 clients, reads of 2 and 5 bytes (less than a lap, more than
  there is; a read of 2 may be split at the end of the buffer), 9 bytes written: more than two laps, so
  that a client can be overrun twice. The other buffer may fill any range at any time. The proof has no bounds.
* `store`: 2 threads, one stream, 3 buffers: one for every place a pointer to a
  buffer can be kept when two threads and the heartbeat have an old one each. Buffers of two
  streams meet only in the locks. `clients_share` has 3 threads, two clients and the one that leaves.
* `stream`: one stream; nothing is shared between streams but inherited pipe
  ends, which the two processes of one stream already show.
* `stream_status`: 3 process numbers: the script's, another child's, a foreign one;
  the real cap of 10 requests, `refused` at most 2 per request.
* `directories`: root, one directory with two possible names, two files, three
  changes (`MaxOps`): creating, moving and re-creating needs three.
  `refiltered` needs one file and no directory.
* `process`: a stream with a per cent sign, two files, one of them with an
  ampersand, so that each loop can be met with another item in front of it, and
  one thread, which meets main and the heartbeat; more threads share locks with
  it and wait for nothing of each other. Starting indices and counts 0 and 1, where a count of 0 means
  `Everything` (3 here, 999 in the code, more than there is in both), so that a
  page may be a whole list, one item, the last item or begin beyond the end.
  `Patience` is 2 for the 3 signals that abort, and `MaxBatch` 1: a change that is yet to be done
  when the flag is cleared.
* `configuration`: commands of up to 5 characters out of a letter, both quotes and the
  blank: a quoted blank needs four and what follows it one more. `MaxWords` 6 is more than
  5 characters have words. Files of one stream with each command, and of two
  streams with each combination of settings in the first and something in between.
  `Half` 8 stands for 2^31, so that 16 stands for 2^32, and `Least` 2 for 4096: 1 is too small, 5
  allowed, 9 is cut to a negative size, 17 to one too small, 18 and -14 to
  another allowed one. The defaults are 7 and 6. `Long` 32 stands for 2^63: -14 is a number of a `long long`, 32 is none.
  Two directories that can be opened share the name of a file, one value is an
  absolute path and one no directory. An option of a status handler is the word `a`, with a value, or
  `aa`, without. The proof has no bounds.

### Fairness

* Threads go on when they can. Mutexes are not fair by themselves; strong fairness
  is used where a thread waits for a mutex (`Opening`, `Closing`, `Start`, the stream's
  heartbeat), as every holder that lets go gives the waiter another chance.
  Everywhere else weak fairness is enough.
* `store`: the source always answers the store's heartbeat in the end. The code has no
  timeout of its own; `stream` shows what a source that does not answer does.
* `stream`: a running handler writes, a running transcoder passes on what it gets.
  No child is assumed to end.
* `stream_status`: scripts end, library calls have timeouts, the heartbeat looks at a running stream
  in the end; every poll otherwise goes on.
* `process`: the end of main, the heartbeat and the calls go on; strong fairness for
  `ChangeFile` alone, which waits for a mutex. None for `Update`, for polls and for file operations,
  which may wait for something outside; none for the start, which the network may
  keep, for signals, or for anything that clients do. A batch that
  was returned is gone through.
* `configuration`: the main thread goes on.
* No fairness is assumed for clients, for the file system, for who starts, stops
  or shuts down.

## Disagreements found

* `clients_share`: clients of one stream "share" one ring (`MemoryStore.h:61`), but
  lookup and registration are two sections, and a Close in between removes the
  buffer by name: the next client gets another one.
* `eof_never`: a Read must throw when reading is no longer possible
  (`AVWriter.h:16`). The server keeps the write end of the handler's pipe, so the
  end never comes; when it does (transcoder), Read waits for its own mutex.
* `timeout_race`: the handler is stopped after reading has stopped
  (`Stream.h:63`), yet `lastRead` is judged after the lock was released.
* `status_of_killed`: only an exit code of 0 means live (`example.conf:41`), but
  the poll after one whose script was killed finds no process and says live.
* `refiltered`: directories are monitored for created and deleted files
  (`example.conf:86`), but `FilterEvents` lets a deletion and a creation cancel out
  though the file was never listed, or was.

Without a run, because they are plain from the line:

* `mimetype` in a file block is about the file (`example.conf:76-77`), but
  `Config.cpp:137-146` gives it to the last stream; `Written` follows the code.
* Clients of a stream with two buffers: `GetAVData` moves the heads of all clients of the stream's
  name (`MemoryStore.cpp:277-283`), also of those that read the other buffer; they are given memory
  that was never filled, lose bytes, or get bytes twice. Each shows as a counterexample when
  `strayed` is left out of the properties of `MemoryRing`.
* A stream that is destroyed while it is not live leaves its handler's child running
  (`Stream.cpp:113`, `AVHandler.h:10-18`).
* A status script that failed makes its stream live if another stream's handler waited for
  it first (`ExternalStatusHandler.cpp:22`, `ChildProcess.cpp:114`); `example.conf:40-42` says that any value other than 0
  means it is not.
* A directory that cannot be opened is tried for ever (`util.cpp:260-264`), at the start and in `Update`.
* The process "will frequently hang while shutting down" (`README.md:39` says so itself): main joins the
  polling heartbeats of streams and waits for the library's threads, see `SignalEnds`.
* A status line that ends in an option with a value reads behind the vector of its words
  (`HttpStatusHandler.cpp:19-26`); `IsLine` keeps such lines out.
* Redirections are never followed: `follow_redirect` is false from the start
  (`HttpStatusHandler.h:16`) and the only option about it sets it to false.
  `HttpStatus` takes both values.
* A signal during startup is forgotten, as `shutdown_flag` is set when the loop begins
  (`main.cpp:421`); `SignalEnds` is about signals in the loop.

## Proofs

`MemoryRing_proof` proves for every size of the ring, every set of clients, every
set of read sizes and every number of bytes, from `LenAssumption`,
`ReadLensAssumption` and `MaxWrittenAssumption` alone:

* `TypeCorrect`, `RingCorrect`, `HeadsCorrect`: `TypeOK`, `RingHoldsNewest` and
  `HeadsAtWrittenBytes` always hold;
* `LossOnlyByOverrun`, `PlacesNeverGoBack`, `ReadsInOrder`: the action properties; these and `HeadsCorrect`
  are about clients whose head no other buffer of the stream has moved;
* `RingImplementsLog`: every behaviour of the ring is one of `LiveLog`;
* `RingImplementsHeads`: if `len > 1`, every behaviour of the ring is one of `RingHeads`.
  In a ring of one byte every position is the tail, and TLC finds the refinement
  violated for `len = 1`; the smallest ring the configuration allows has 4096 bytes.

The invariant (`IInv`, `RingInvariant`) says where each byte is
(`RingHoldsNewest` by way of the number of the first byte of the current lap,
`Lap`), that bytes exist exactly when `tail` is not -1, that a head is at a
written position (on the first lap: not after the tail) if no other buffer has moved it, that only clients
in the container have heads that Read uses, and that somebody who reads has one.
`HeadsAtWrittenBytes` alone is not inductive: whether a position was filled
depends on the lap. The work is in two lemmas on `GetAVData`: `WriteSplits` (a
write either stays in front of the end of the buffer, ends there, or starts at 0) and
`WriteStep`; and in `CopyBounds`/`ChunkStep` for the copy loop. `PlaceIsByteAt`
turns a position into the number of its byte, from which the action
properties and the refinement follow by arithmetic: `WritePlaces`, `ChunkPlaces`
and `OtherPlaces` say what each kind of step does to the place of each client, and
`WriteRefines`, `ChunkRefines` and `OtherRefines` name the step of `LiveLog`. For
`RingHeads` the steps are split in the same way: `WriteMovesHeads` (a client that is
in the container is behind the tail after a write if it had a head, also when
the write overran it), `ChunkReads` (who copies was behind) and `OtherKeepsHeads`.

`MemoryStore_proof` proves for every set of threads, streams and buffers, from
`NoStreamAssumption` and `NoBufferAssumption` (the two markers are no stream and no
buffer), the safety properties of run `store`:

* `StoreTypes`, `BuffersHaveClients`, `FinishedLeave`: `TypeOK`, `NoIdleBuffer`
  and `FinishedBuffersLeave` always hold;
* `StoreNeverReplaces`: the action property `NeverReplaced`.

None of them is inductive. The strengthening (`IInv`, `StoreInvariant`) adds what
`handleMutex` gives (`OneOpens`: one thread at a time is in `CreateHandle`;
`StartedHaveNone`: so the stream it starts still has no buffer), who
may hold a pointer (`ClientsAreOpen`, `BuffersAreOpen`, `HeartbeatPlaces`), that
the heartbeat's stale copy knows a buffer by the name the container has for it
(`OneStream`), without which its removal by name could leave a finished buffer
behind, and that nothing is known of a buffer nobody points to
(`FinishedAreUsed`), without which a new buffer could be born finished. There is
one lemma for each action; `StartStreamKeeps` is the step `NeverReplaced` is about.
Undefined behaviour is covered as far as `Crash` models it: it ends the process.

`StreamLifecycle_proof` needs no assumption: it holds for each kind of stream, and
any pattern of starts, stops, timeouts and ends of children.

* `LifecycleTypes`, `NoChildLost`, `WaitsOnOpenPipe`: `TypeOK`, `NoOrphans` and
  `ReadsOpenPipe` always hold;
* `WaitKeepsPipe`: no step replaces or closes the pipe a read waits on.

A process is lost when a new number is written over the number of one that runs.
`NoOrphans` says that this did not happen, not that it cannot. The invariant (`IInv`, `LifecycleInvariant`)
adds that every child that runs has its number in `processId` (`ChildrenAreNamed`),
that a start makes only the processes its kind of stream has
(`HandlersAsConfigured`, `StartsAsConfigured`), that nothing starts again behind the
destructor (`DestroyedStaysDown`), and that nobody takes the process away from a read
that waits (`HoldsPipe`).

`StreamStatus_proof` is about the two status handlers as instances in
`StreamStatus`, for any set of process numbers (`StatusAssumption`):

* `StatusTypes`, `EveryScriptReaped`, `EveryConnectionClosed`, `FailedScriptNotLive`,
  `LiveByAnswer`: `TypeOK`, `ScriptsReaped`, `NoneLeftOpen`, `FailedNotLive`
  and `LiveFromAnswer` always hold.

The invariant (`StatusInvariant`) relates the place a poll is at to what it owns:
the process of a script exists only while the poll waits for the number it has
(`ScriptIsAwaited`), how it ended is known first by the process table and then by
`status` (`EndIsKnown`), and a connection that is open without the request
knowing it is one the library refused to close (`OpenIsKnown`); refusals are counted from
the beginning of a request (`RefusedSoFar`). The proofs are about the steps of each
handler alone, then about the heartbeat that calls them.

`NaturalSets` has what these proofs need of finite sets of numbers, by least
counterexamples: that `Min` and `Max` of `FiniteSetsExt` are what their names
say (`LeastNatural`, `GreatestNatural`), and that images of finite sets are finite
(`FiniteImage`).

`Process_proof` is about `Process` with the content directory as its instance,
for all finite sets of streams and files and any number of clients' calls:

* `ProcessTypes`, `ListedStreamsExist`, `PagesAgree`: `TypeOK`, `LiveAreStreams` and
  `PagesAreSlices` always hold;
* `NoHeartbeatAfterJoin`: when the library is finished, no heartbeat is left
  that could look at a stream that is freed.

`PagesAreSlices` speaks of an answer, so the invariant (`ProcessInvariant`) speaks of
the walk that leads to it: as long as the heartbeat has not changed the list,
what was counted when the call began is still the list, the items before the
one the walk is at are those that were met (their number is that of the items `Before` it),
and those of them whose place is on the page, and no others, have
been copied. An answer with a list that did change promises nothing, in the
theorem as in the run.

`DirectoryWatch_proof` is for every finite set of inodes, every set of names
and files and any number of changes, from `DirectoryAssumption`:

* `DirectoryTypes`, `WatchesFollowDirectories`: `TypeOK` and `WatchesFollow` always hold.

A watch that is not on the directory whose path it has is on its way out: the event
that erases it may be among the notifications the kernel has yet to give, in
the queue, or in the buffer of `Update`, and must get from one to the next without being
overtaken by the number of the watch being used again. The invariant
(`DirectoryInvariant`) is `WatchesFollow` with the types of what is on its way
(`SequencesTyped`: an event of a directory is about one, one of a file is about a file),
of the watches (a finite number of positive descriptors, so that there is a next one), and
that `Update` has looked at everything before it goes on (`BufferRead`), without
which the next read would lose events that erase a watch. The lemmas
`FollowsAll` and `AddDirectoryStep` are the argument: the first for steps that
move events along, the second for a new watch.

The second half of the module goes on from there, with no further assumption:

* `ListingIsCurrent`: `ListingFollows` always holds.

A creation or deletion is on its way from the file system to `files` as a
notification, in the queue, in the buffer of `Update`, and as a change main has not
handled. `Line` is these four as one sequence, each with the change that `Update`
makes of it by the watches of now. Of a file that is not in `missed` the line tells
the truth together with the list (`Tells`): its creations and deletions
alternate, a deletion has the path of the creation before it, nothing is created where
it was deleted before in the same line, a line that begins with a creation finds
nothing listed, and what comes last is what is there. `ListingInvariant` says that,
that no event the file needs has lost its watch when its turn comes (`Heard`), and
that an empty line means a right list (`Lists`); for the time of startup, that at most one
deletion is in the line (`OneDeletion`) and that otherwise the search is yet to
find the file (`Scanned`, `Queued`).

The argument is in lemmas about lines alone, which know nothing of the system:
what a line tells is still told when its first change is handled (`WithoutFirst`), when a
creation and the deletion after it are erased (`WithoutPair`; that `FilterEvents` erases
no others is `PairAdjacent`), when something about other files goes (`CutOther`), and when
a deletion or a creation comes to its end (`WithDeletion`, `WithCreation`). A step of the
system is then a cut or an extension of the line. What makes the last ones
apply is in `GInv`: no two directories have the same name, inodes have descriptors of their own,
the watch on the root stays, and a directory that is moved or removed is announced
alone. The restrictions in `missed` are where the code goes wrong: a creation
with a deletion of the same path before it in the line could be erased together with
it though the file is not listed, which is the counterexample of `refiltered`.

`Configuration_proof` is for every set of letters, every length of commands, any set of
files, paths and directories and every width and least size of a buffer, from `SplitAssumption`,
`ConfigurationAssumption`, `FilesAssumption` and `ListingAssumption`:

* `ConfigurationTypes`, `CommandsSplitAsRead`, `FileIsServed`: `TypeOK`, `SplitsAsRead`
  and `ServedAsWritten` always hold, also of what status handlers, missing files and directories do
  to a stream or file;
* `StartGoesOn`: every step of the start goes on, to the next stage, line, directory, option,
  word or blank (`GoesOn`), and main hangs only over a directory that cannot be opened
  (`HungForADirectory`). It is what can be proved of `StartupEnds`: as `TypeOK` bounds each of
  these, only the fairness of main is missing.

The loop of `SplitArgString` works on positions, the reference on characters. The
invariant (`SplitInvariant`) says that at the top of the loop the reader, having
read up to `pos1`, is between two words and has found `words`, and that `pos2`
is the next blank; or that the text has a quote that is not closed, and then nothing
but the types is left to say. That a turn keeps it is `SplitStepBetween`, with `PlainWord`
and `QuotedWord` for what the reader makes of the characters of one word. That the reader is
defined for each text and what it has after `i` characters is shown by the least
number for which it would not be so (`LeastNatural`), as the induction theorems of the library
take an operator.

The code changes the last option with each line, `ServedAsWritten` looks at the lines
of a block together. `ReadingInvariant` says that after `count` lines option `j`
has what the lines up to `count` give to the block that begins at line `at[j]`, for
some increasing `at` (a witness that each `stream` or `file` line makes longer), with
one lemma for each kind of line. `SearchInvariant` says that what was found is what the directories
before `next` have, in their order. `ServingInvariant` says that what is served so far are
the first accepted options of each name (`Serves`); `OptionsAsWritten`,
`StreamsAsWritten` and `FilesAsWritten` then turn options into blocks.

Trying to prove it showed that an earlier `ServedAsWritten` promised too much: it
compared a number with the largest size only, and a number as far below zero as -2^32 + 5000
is cut to an allowed size too. It speaks of the numbers that are values of
`buffer_size` now, and for all others only of a size that is allowed.

Only model-checked:

* liveness (`ReadsReturn`, `CallsReturn`, `ReadsEnd`, `ThreadsGoOn`,
  `DestructorReturns`, `IdleStreamsStop`, `PollsReturn`, `RunningIsLive`,
  `StatusFollows`, `SignalEnds`, `BrowsesReturn`, `StartupEnds`): fairness
  and `ENABLED` are beyond the prover. Every invariant and every action property of
  the runs that pass is proved, and so are both refinements of the ring.

## What is not modelled

* Formatting of XML and of log lines, the device description and its checks,
  the keywords of the configuration that are about the server itself (a number among them that is none does cut the
  file off), mime types,
  a status handler's success codes (`stoi` may throw for them, in a heartbeat where
  nothing catches it), headers and pages; of its options only the URL matters.
* Stubs that nothing constructs: `HttpAVHandler`, `HttpPersistentRequest`,
  `ContentObject`, `ContentItem`, `ContentContainer`, `StreamHandler`.
* `Server::GetInfo` and seeking, which change nothing; becoming a daemon; logging.
* What follows when the memory is used up by a loop that does not end.
* Negative numbers in a Browse request, which UPnP's `ui4` excludes and `stoi` lets through
  (`ContentDirectoryService.cpp:191,200`).
* Overflow of the inotify queue, unmounting, directories in directories.
* Children that ignore SIGTERM or may not be sent it (`kill` fails with EPERM), output of a status script beyond the size of a pipe.
