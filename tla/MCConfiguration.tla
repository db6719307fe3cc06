-------------------------- MODULE MCConfiguration --------------------------
(* The files: one stream with every short command, one with arguments of a *)
(* status handler, and two streams of the same or of different names with  *)
(* something in between, where each line of the first may be missing or    *)
(* have a value that is none; and files with directories.  An option of a  *)
(* status handler is the word a, with a value, or aa, without.             *)
EXTENDS Configuration

Maybe(key, values) == {<<>>} \union {<<Line(key, v)>> : v \in values}

Handler(type, args) == [type |-> type, args |-> args]

File == [name |-> "f", path |-> "p"]
Same == [name |-> "f", path |-> "q"]
Text == [name |-> "t", path |-> "no extension"]

MCListing == [d \in {"d", "e"} |-> IF d = "d" THEN <<File, Text>> ELSE <<Same>>]

MCValued   == {<<"a">>}
MCSwitches == {<<"a", "a">>}

Commands == {t \in Texts : TrimString(t, Blank) # <<>>}

OneStream == {<<Line("stream", "s"), Line("media", Handler("file", "p")),
                Line("transcode", t)>> : t \in Commands}

Second == {<<Line("stream", name), Line("media", Handler("ext", Bare)),
             Line("mimetype", "audio")>> \o buffer :
             name \in {"s", "t"}, buffer \in Maybe("buffer", {3})}

Asking == {<<Line("stream", "s"), Line("media", Handler("ext", Bare)),
             Line("mimetype", "video"), Line("status", Handler("http", t))>> \o command \o s :
             t \in {<<"a">>, <<"a", "a", "a">>, <<"a", " ", "a">>, <<"'", " ", "a">>,
                    <<"'", "'", " ", "a", "a">>, <<" ", "a", "a", " ", "\"">>},
             command \in Maybe("transcode", {<<"a">>, <<"\"", " ", "a">>}),
             s \in Second}

First == {<<Line("stream", "s")>> \o media \o mimetype \o command \o buffer :
            media    \in Maybe("media", {Handler("ext", Bare), Handler("file", "p"),
                                         Handler("file", Bare), Handler(Bare, Bare)}),
            mimetype \in Maybe("mimetype", {"audio", Bare}),
            command  \in Maybe("transcode", {<<"a">>, <<"'", "'", " ", "a">>,
                                             <<"'", " ", "a">>}),
            buffer   \in Maybe("buffer", {1, 5, 9, 17, 18, -14, 32, Bare})}

Between == {<<>>, <<Line("loglevel", Bare)>>, <<Line("status", Handler("ext", Bare))>>,
            <<Line("file", "f"), Line("mimetype", "video"), Line("path", "p")>>,
            <<Line("file", "f"), Line("path", Bare), Line("file", "f"), Line("path", "p")>>}

Searching == {b \o <<Line("directory", d), Line("directory", e)>> \o n :
                b \in Between, d, e \in {"d", "e", Bare, "/d"},
                n \in {<<>>, <<Line("file", "g"), Line("path", "q")>>}}

MCFiles == OneStream \union {f \o b \o s : f \in First, b \in Between, s \in Second}
             \union {<<Line("path", "p"), Line("buffer", Bare)>> \o s : s \in Second}
             \union Asking \union Searching
=============================================================================
