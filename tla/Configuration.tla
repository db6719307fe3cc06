--------------------------- MODULE Configuration ---------------------------
(***************************************************************************)
(* From the arguments and the configuration file to the streams and files  *)
(* that are served: ParseArguments, ParseConfigFile with ParseArgument for *)
(* each line, main's search of the directories, Server::AddStreams with    *)
(* the handlers it makes and the checks of their constructors and Stream's,*)
(* Server::AddFiles.                                                       *)
(*                                                                         *)
(* A line is a keyword and a value, trimmed.  A line without a blank has   *)
(* its own text as value (npos + 1 is 0), which is Bare.  The value for a  *)
(* handler is a type and its arguments.  What is about no stream, file or  *)
(* directory does not matter here, but for a number that is none.          *)
(***************************************************************************)
EXTENDS SplitArgs

CONSTANTS ConfigFiles, \* what may be in the file: sequences of lines
          Paths,       \* the paths that AddFile accepts: those of a file with an
                       \* extension, below the web root and relative to it
          Playables,   \* the paths that FileAVHandler accepts: those of a file
                       \* with an extension
          Listing,     \* the files in the directories that can be opened
          Absolute,    \* the values of directory that are absolute paths
          Valued,      \* the options of an HTTP status handler with a value
          Switches,    \* and those without
          Bare,        \* a value that is no type, no number and no file
          Half,        \* half of the values of buffer_size, 2^31
          Long,        \* half of those of a long long, 2^63
          Least,       \* the least buffer, 4096
          VideoBuffer, AudioBuffer

ASSUME ConfigurationAssumption ==
    /\ Half \in Nat \ {0} /\ Least \in Nat \ {0} /\ Long \in Nat
    /\ VideoBuffer \in Least..Half - 1 /\ AudioBuffer \in Least..Half - 1

(* HttpStatusOptions: a word is the value of the option before it, an      *)
(* option or the URL; of several the last one counts.                      *)
IsValue(args) == LET value[i \in DOMAIN args] ==
                       i > 1 /\ args[i - 1] \in Valued /\ ~value[i - 1]
                 IN  value

Url(args) == LET urls == {i \in DOMAIN args : ~IsValue(args)[i]
                                               /\ args[i] \notin Valued \union Switches}
             IN  CASE Len(args) = 1 -> args[1]
                   [] Len(args) # 1 /\ urls # {} -> args[Max(urls)]
                   [] OTHER -> <<>>

(* A command and the arguments of an HTTP handler are texts, also those of *)
(* a line without a blank.  A value is not missing behind the last option, *)
(* where args[++i] is out of range.  name is another keyword for stream,   *)
(* dir for directory, cmd another type for ext.                            *)
IsLine(line) ==
    /\ line.key \notin {"name", "dir"}
    /\ line.key = "transcode" => line.value \in Texts
    /\ line.key = "status" /\ line.value.type = "http" =>
          /\ line.value.args \in Texts
          /\ LET args == Arguments(TrimString(line.value.args, Blank))
             IN  \/ Len(args) < 2 \/ IsValue(args)[Len(args)]
                 \/ args[Len(args)] \notin Valued

ASSUME FilesAssumption ==
    \A file \in ConfigFiles : /\ file \in Seq(Range(file))
                              /\ \A i \in DOMAIN file : IsLine(file[i])

ASSUME ListingAssumption ==
    \A d \in DOMAIN Listing : Listing[d] \in Seq(Range(Listing[d]))

VARIABLES place,       \* where main is
          options,     \* options.streams
          fileOptions, \* options.files, those of the file ...
          found,       \* ... and those of the search, which come after them
          directories, \* options.directories
          next,        \* the options that are added, or searched, next
          streams,     \* the server's streams
          files,       \* the files in the content directory
          config,      \* the file, empty if there is none
          count        \* how many lines were read

parseVars  == <<options, fileOptions, directories, config, count>>
servedVars == <<streams, files>>
vars       == <<place, next, found, parseVars, servedVars, splitVars>>

Nothing   == ""
NoHandler == [type |-> Nothing, args |-> <<>>]

StreamOptions == [name |-> Nothing, status |-> NoHandler, media |-> NoHandler,
                  mimetype |-> Nothing, transcode |-> <<>>, buffer |-> 0]
FileOptions   == [name |-> Nothing, path |-> Nothing]

Line(key, value) == [key |-> key, value |-> value]

Init == /\ place = "arguments"
        /\ options = <<>> /\ fileOptions = <<>> /\ directories = <<>>
        /\ found = <<>> /\ next = 1
        /\ streams = <<>> /\ files = <<>>
        /\ config \in ConfigFiles /\ count = 0
        /\ SplitInit

-----------------------------------------------------------------------------
(* Parsing.                                                                *)

(* On the command line a number that is none ends the process; there may be*)
(* no file.                                                                *)
ParseArguments ==
    /\ place = "arguments"
    /\ \/ place' \in {"file", "terminated"} /\ UNCHANGED config
       \/ place' = "directories" /\ config' = <<>>
    /\ UNCHANGED <<next, found, options, fileOptions, directories, count, servedVars,
                   splitVars>>

(* What an int32_t makes of a long long.                                   *)
Truncated(n) == LET m == n % (2 * Half) IN IF m < Half THEN m ELSE m - 2 * Half

(* A mutant: the number is looked at before it is stored.                  *)
CheckedFirst(n) == IF n < Least THEN 0 ELSE Truncated(n)

BufferSize(n) == IF Truncated(n) < Least THEN 0 ELSE Truncated(n)

Stored(line) == CASE line.key = "buffer"    -> BufferSize(line.value)
                  [] line.key = "transcode" -> TrimString(line.value, Blank)
                  [] OTHER                  -> line.value

(* The options of a stream go to the last one, whatever came after it.     *)
SetLast(line) ==
    options' = IF options = <<>> THEN options
               ELSE [options EXCEPT ![Len(options)][line.key] = Stored(line)]

StreamLine(line) == /\ line.key = "stream"
                    /\ options' = Append(options, [StreamOptions EXCEPT !.name = line.value])
                    /\ UNCHANGED <<fileOptions, directories>>

SettingLine(line) == /\ line.key \in DOMAIN StreamOptions \ {"name"}
                     /\ SetLast(line)
                     /\ UNCHANGED <<fileOptions, directories>>

FileLine(line) == /\ \/ /\ line.key = "file"
                        /\ fileOptions' = Append(fileOptions,
                                                 [FileOptions EXCEPT !.name = line.value])
                     \/ /\ line.key = "path"
                        /\ fileOptions' = IF fileOptions = <<>> THEN fileOptions
                             ELSE [fileOptions EXCEPT ![Len(fileOptions)].path = line.value]
                  /\ UNCHANGED <<options, directories>>

(* An absolute path is refused.                                            *)
DirectoryLine(line) == /\ line.key = "directory"
                       /\ directories' = IF line.value \in Absolute THEN directories
                                         ELSE Append(directories, line.value)
                       /\ UNCHANGED <<options, fileOptions>>

OtherLine(line) == /\ line.key \notin {"stream", "file", "path", "directory"}
                                          \union DOMAIN StreamOptions
                   /\ UNCHANGED <<options, fileOptions, directories>>

(* stoi and stoll throw if there is no number or one that is too large:    *)
(* what is left of the file is not read.  loglevel stands for every setting*)
(* of the server that is a number.                                         *)
IsNumber(line) == line.value \in IF line.key = "buffer" THEN -Long..Long - 1
                                 ELSE -Half..Half - 1
Throws(line) == /\ line.key = "buffer" => options # <<>>
                /\ line.key \in {"buffer", "loglevel"} /\ ~IsNumber(line)

ReadLine ==
    /\ place = "file" /\ count < Len(config)
    /\ count' = count + 1
    /\ LET line == config[count']
       IN \/ /\ ~Throws(line)
             /\ \/ StreamLine(line) \/ SettingLine(line) \/ FileLine(line)
                \/ DirectoryLine(line) \/ OtherLine(line)
             /\ UNCHANGED place
          \/ /\ Throws(line)
             /\ place' = "directories"
             /\ UNCHANGED <<options, fileOptions, directories>>
    /\ UNCHANGED <<next, found, config, servedVars, splitVars>>

EndOfFile == /\ place = "file" /\ count = Len(config)
             /\ place' = "directories"
             /\ UNCHANGED <<next, found, parseVars, servedVars, splitVars>>

ParseConfigFile == ReadLine \/ EndOfFile

-----------------------------------------------------------------------------
(* Searching the directories.                                              *)

(* GetDirectoryContents tries a directory that cannot be opened again, for *)
(* ever, and throws, which nothing catches, if an entry is gone before it  *)
(* is looked at.  Without a monitor AddDirectory is called on nullptr.     *)
SearchDirectory ==
    /\ place = "directories" /\ next <= Len(directories)
    /\ LET d == directories[next]
       IN \/ /\ d \in DOMAIN Listing
             /\ found' = found \o Listing[d]
             /\ next' = next + 1
             /\ UNCHANGED place
          \/ /\ d \notin DOMAIN Listing
             /\ place' = "hung"
             /\ UNCHANGED <<next, found>>
          \/ place' = "terminated" /\ UNCHANGED <<next, found>>
    /\ UNCHANGED <<parseVars, servedVars, splitVars>>

DirectoriesSearched ==
    /\ place = "directories" /\ next > Len(directories)
    /\ place' = "streams" /\ next' = 1
    /\ UNCHANGED <<found, parseVars, servedVars, splitVars>>

SearchDirectories == SearchDirectory \/ DirectoriesSearched

-----------------------------------------------------------------------------
(* Adding streams.                                                         *)

Option == options[next]

Skips == next' = next + 1 /\ UNCHANGED streams

(* createAVHandler throws if the type is another one, FileAVHandler if the *)
(* file is not there or its name has no extension.  The command of an      *)
(* external handler is never empty: SplitString trims it.                  *)
HasHandler(o) == \/ o.media.type = "ext"
                 \/ o.media.type = "file" /\ o.media.args \in Playables

(* createStatusHandler makes none if it does not know the type.            *)
StatusHandler(o) == IF o.status.type \in {"ext", "http"} THEN o.status ELSE NoHandler

(* A mutant: a later stream takes the place of one of the same name.       *)
NameTaken(o) == FALSE

StreamExists(o) == o.name \in DOMAIN streams

(* What the constructors of Transcoder and Stream demand; command is what  *)
(* the command was split into, empty if there is none.                     *)
Constructible(o, command) ==
    /\ command # <<>> => command[1] # <<>>
    /\ o.media.type = "ext" => o.mimetype # Nothing
    /\ o.media.type = "file" => command # <<>>
    /\ o.mimetype \in {Nothing, "video", "audio"}

SizeOf(o) == IF o.buffer # 0 THEN o.buffer
             ELSE IF o.mimetype = "audio" THEN AudioBuffer ELSE VideoBuffer

(* What emplace and insert do to a map that does not have the name.        *)
With(map, name, value) ==
    [n \in DOMAIN map \union {name} |-> IF n = name THEN value ELSE map[n]]

Made(o, command) == [status |-> StatusHandler(o), media |-> o.media,
                     mimetype |-> o.mimetype, command |-> command, buffer |-> SizeOf(o)]

(* The rest of AddStream once the command is split.                        *)
MakeStream(command) ==
    \/ /\ Constructible(Option, command) /\ ~StreamExists(Option)
       /\ streams' = With(streams, Option.name, Made(Option, command))
       /\ next' = next + 1
    \/ ~(Constructible(Option, command) /\ ~StreamExists(Option)) /\ Skips

Adding == place = "streams" /\ next <= Len(options)

(* The rest of AddStream once there are the handlers.                      *)
MakeTranscoder ==
    \/ /\ Option.transcode = <<>>
       /\ MakeStream(<<>>)
       /\ place' = "streams" /\ UNCHANGED splitVars
    \/ /\ Option.transcode # <<>>
       /\ SplitBegins(Option.transcode)
       /\ place' = "split" /\ UNCHANGED <<next, streams>>

AddStream ==
    /\ Adding
    /\ \/ ~HasHandler(Option) /\ Skips /\ UNCHANGED <<place, splitVars>>
       \/ HasHandler(Option) /\ Option.status.type # "http" /\ MakeTranscoder
       \/ /\ HasHandler(Option) /\ Option.status.type = "http"
          /\ SplitBegins(Option.status.args)
          /\ place' = "status" /\ UNCHANGED <<next, streams>>
    /\ UNCHANGED <<found, parseVars, files>>

(* SplitArgString ends with bad_alloc, which AddStreams catches, or with   *)
(* the process.                                                            *)
RunsOut == /\ Exhausted
           /\ \/ place' = "streams" /\ Skips
              \/ place' = "terminated" /\ UNCHANGED <<next, streams>>
           /\ UNCHANGED splitVars

(* HttpStatusHandler throws without a URL.                                 *)
MakeStatusHandler ==
    /\ place = "status"
    /\ \/ SplitStep /\ UNCHANGED <<place, next, streams>>
       \/ Ended /\ Url(Split) # <<>> /\ MakeTranscoder
       \/ /\ Ended /\ Url(Split) = <<>>
          /\ Skips
          /\ place' = "streams" /\ UNCHANGED splitVars
       \/ RunsOut
    /\ UNCHANGED <<found, parseVars, files>>

SplitCommand ==
    /\ place = "split"
    /\ \/ SplitStep /\ UNCHANGED <<place, next, streams>>
       \/ /\ Ended
          /\ MakeStream(Split)
          /\ place' = "streams" /\ UNCHANGED splitVars
       \/ RunsOut
    /\ UNCHANGED <<found, parseVars, files>>

(* AddStreams catches what AddStream throws, and goes on.                  *)
StreamsAdded == /\ place = "streams" /\ next > Len(options)
                /\ place' = "files" /\ next' = 1
                /\ UNCHANGED <<found, parseVars, servedVars, splitVars>>

AddStreams == AddStream \/ MakeStatusHandler \/ SplitCommand \/ StreamsAdded

Offered == fileOptions \o found

(* AddFile throws if it does not accept the path; a name that is taken is  *)
(* not added.                                                              *)
AddFile ==
    /\ place = "files" /\ next <= Len(Offered)
    /\ LET f == Offered[next]
       IN files' = IF f.path \in Paths /\ f.name \notin DOMAIN files
                   THEN With(files, f.name, f.path) ELSE files
    /\ next' = next + 1
    /\ UNCHANGED <<place, found, parseVars, streams, splitVars>>

FilesAdded == /\ place = "files" /\ next > Len(Offered)
              /\ place' = "running"
              /\ UNCHANGED <<next, found, parseVars, servedVars, splitVars>>

AddFiles == AddFile \/ FilesAdded

(* Of a hung process nothing is left but the loop it is in.                *)
Over == place \in {"running", "terminated", "hung"} /\ UNCHANGED vars

Next == \/ ParseArguments \/ ParseConfigFile \/ SearchDirectories
        \/ AddStreams \/ AddFiles \/ Over

Spec == Init /\ [][Next]_vars

(* The main thread goes on.                                                *)
FairSpec == Spec /\ WF_vars(Next)

-----------------------------------------------------------------------------
Names(key) == {config[i].value : i \in {j \in DOMAIN config : config[j].key = key}}

TypeOK == /\ place \in {"arguments", "file", "directories", "streams", "status", "split",
                        "files", "running", "terminated", "hung"}
          /\ count \in 0..Len(config)
          /\ next \in 1..count + Len(found) + 1
          /\ DOMAIN options \subseteq 1..count
          /\ \A i \in DOMAIN options :
                options[i].buffer \in {0} \union Least..Half - 1
          /\ DOMAIN fileOptions \subseteq 1..count
          /\ DOMAIN directories \subseteq 1..count
          /\ DOMAIN streams \subseteq Names("stream")
          /\ pos1 \in 1..MaxText + 1 /\ pos2 \in 0..MaxText
          /\ Len(words) <= MaxWords

(* The lines that count: those before the number that is none.             *)
StreamsBefore(i) == \E j \in 1..i - 1 : config[j].key = "stream"
Cuts(i) == /\ \/ config[i].key = "loglevel"
              \/ config[i].key = "buffer" /\ StreamsBefore(i)
           /\ ~IsNumber(config[i])
Counts == {i \in DOMAIN config : \A j \in 1..i : ~Cuts(j)}

(* The value a block gives to a keyword: that of its last such line.  A    *)
(* block is what follows its first line up to the next one of its kind.    *)
(* mimetype belongs to the stream, as the code has it: example.conf, which *)
(* has it among the options of files too, is not followed here.            *)
InBlock(begin, i) ==
    i > begin /\ \A j \in begin + 1..i : config[j].key # config[begin].key
Given(begin, key, default) ==
    LET at == {i \in Counts : config[i].key = key /\ InBlock(begin, i)}
    IN  IF at = {} THEN default ELSE config[Max(at)].value

(* The first line of the block that a name is served by.                   *)
Blocks(key, name) == {i \in Counts : config[i].key = key /\ config[i].value = name}

Number(b)  == Given(b, "buffer", 0)
Command(b) == TrimString(Given(b, "transcode", <<>>), Blank)
Media(b)   == Given(b, "media", NoHandler)
Status(b)  == Given(b, "status", NoHandler)

Written(b) ==
    LET mimetype == Given(b, "mimetype", Nothing)
    IN [status   |-> IF Status(b).type \in {"ext", "http"} THEN Status(b) ELSE NoHandler,
        media    |-> Media(b),
        mimetype |-> mimetype,
        command  |-> Arguments(Command(b)),
        buffer   |-> IF Number(b) >= Least THEN Number(b)
                     ELSE IF mimetype = "audio" THEN AudioBuffer ELSE VideoBuffer]

(* The arguments of an HTTP status handler can be split, and have a URL.   *)
HasUrl(status) ==
    status.type = "http" => LET args == TrimString(status.args, Blank)
                            IN  ~Unclosed(args) /\ Url(Arguments(args)) # <<>>

(* What example.conf and the handlers demand of the options of a stream.   *)
Playable(b) ==
    LET w == Written(b)
    IN  /\ \/ w.media.type = "ext" /\ w.mimetype # Nothing
           \/ w.media.type = "file" /\ w.media.args \in Playables /\ w.command # <<>>
        /\ HasUrl(Status(b))
        /\ w.mimetype \in {Nothing, "video", "audio"}
        /\ ~Unclosed(Command(b))
        /\ w.command # <<>> => w.command[1] # <<>>

(* The directories the file names, and what is in them that can be served. *)
Searched == {config[i].value : i \in {j \in Counts : config[j].key = "directory"}} \ Absolute
InDirectories(name) ==
    {f.path : f \in {g \in UNION {Range(Listing[d]) : d \in Searched} :
                       g.name = name /\ g.path \in Paths}}

(* The streams and files that are served are those the file describes: for *)
(* each name the first block that can be played, or found, with the last   *)
(* setting of each keyword in it, though blocks of files come in between   *)
(* and others are refused; a buffer is never too small, and as large as    *)
(* was asked for if the number is one of buffer_size's.  A file that is in *)
(* a directory is served unless a block has its name.                      *)
ServedAsWritten ==
    /\ place \in {"files", "running"} =>
          \A name \in Names("stream") :
             LET playable == {b \in Blocks("stream", name) : Playable(b)} IN
             /\ name \in DOMAIN streams <=> playable # {}
             /\ playable # {} =>
                   LET b == Min(playable)
                       w == Written(b)
                       s == streams[name]
                   IN  /\ [s EXCEPT !.buffer = 0] = [w EXCEPT !.buffer = 0]
                       /\ s.buffer >= Least
                       /\ Number(b) \in -Half..Half - 1 => s.buffer = w.buffer
    /\ place = "running" =>
          /\ Searched \subseteq DOMAIN Listing
          /\ \A name \in Names("file") \union DOMAIN files :
                LET there == {b \in Blocks("file", name) : Given(b, "path", Nothing) \in Paths}
                IN  /\ name \in DOMAIN files <=> there # {} \/ InDirectories(name) # {}
                    /\ there # {} => files[name] = Given(Min(there), "path", Nothing)
                    /\ there = {} /\ name \in DOMAIN files => files[name] \in InDirectories(name)
          /\ \A d \in Searched : \A f \in Range(Listing[d]) :
                f.path \in Paths => f.name \in DOMAIN files

(* SplitArgString splits a text as one reads it, from left to right: blanks*)
(* separate, and a quote that begins a word keeps the blanks up to the next*)
(* one of its kind.  Only a quote that is not closed keeps it from coming  *)
(* to an end.                                                              *)
SplitsAsRead == place \in {"status", "split"} =>
                   /\ Ended => ~Unclosed(text) /\ Split = Arguments(text)
                   /\ Exhausted => Unclosed(text)

(* The start comes to an end, whatever is in the file, unless a directory  *)
(* in it cannot be opened: that one is tried for ever.                     *)
StartupEnds == <>\/ place \in {"running", "terminated"}
                 \/ place = "hung" /\ ~(Searched \subseteq DOMAIN Listing)
=============================================================================
