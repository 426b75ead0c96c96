------------------------------- MODULE Commands -------------------------------
(***************************************************************************)
(* What a command line makes of itself: `hopo command <shell> <words>` is  *)
(* read by parse_args and send_command, becomes a message, is taken apart  *)
(* and run by the shell, and its answer is taken apart and shown.          *)
(*                                                                         *)
(* CommandExchange has the chunks, the losses and the interleavings of     *)
(* several commands; here is the content, for one command whose messages   *)
(* arrive.  A text is a sequence of tokens, and the separator of messages  *)
(* and of paths, which is the same character, is a token of its own: so a  *)
(* path inside a message can be mistaken for the end of a field.           *)
(***************************************************************************)
EXTENDS Naturals, Sequences, SequencesExt, TLC

CONSTANTS
  Lines,       \* the command lines: [me : Text, words : Seq(Text)]
  Worlds(_)    \* Worlds(w): what the machines may be like, for a first word w

VARIABLES
  pc,          \* where the client is
  line,        \* the command line, and the id of the shell it is typed in
  world,       \* what both machines have and what the network answers
  up,          \* the request on its way to the shell, <<>> if there is none
  ran,         \* the request the shell has run, NotRun before
  down,        \* the answer on its way to the client, <<>> if there is none
  got,         \* the payload the client has decompressed
  shown,       \* what was printed
  files,       \* the client's files: path -> contents
  stdinAlive   \* the shell's stdin thread has not panicked

vars == <<pc, line, world, up, ran, down, got, shown, files, stdinAlive>>

-----------------------------------------------------------------------------
(* Messages: fields joined by MESSAGE_PARTS_SEPARATOR *)

Sep == "/"

MessageId(me)        == me \o <<":random">>
ShellTarget(shell)   == <<"shell:">> \o shell
Compressed(payload)  == <<"zstd", Sep>> \o payload     \* any bytes, separators among them

\* Mutant: the answer is taken as it comes.
NotDecompressed(bytes) == bytes

Decompressed(bytes)  == SubSeq(bytes, 3, Len(bytes))

\* The fields are joined by separators, whatever they hold.
Joined(field, rest) == field \o <<Sep>> \o rest

RequestMessageNeverLast(cmd, id, target, payload) ==
  Joined(cmd, Joined(<<"req">>, Joined(id, Joined(target, Joined(<<"not-last">>, payload)))))

RequestMessage(cmd, id, target, payload) ==
  Joined(cmd, Joined(<<"req">>, Joined(id, Joined(target, Joined(<<"last">>, payload)))))

ResponseMessage(cmd, id, status, payload) ==
  Joined(cmd, Joined(<<"res">>, Joined(id, Joined(<<status>>, Joined(<<"last">>, payload)))))

\* The first field of a text, and what is behind its separator.
FirstCut(text) == CHOOSE i \in DOMAIN text : text[i] = Sep /\ \A j \in 1..i - 1 : text[j] # Sep
Before(text)   == IF Contains(text, Sep) THEN SubSeq(text, 1, FirstCut(text) - 1) ELSE text
Behind(text)   == IF Contains(text, Sep) THEN SubSeq(text, FirstCut(text) + 1, Len(text)) ELSE <<>>

\* splitn(6): what is left when a part is asked for; the sixth part is all of it.
Remaining(msg) ==
  LET second == Behind(msg)
      third  == Behind(second)
      fourth == Behind(third)
      fifth  == Behind(fourth)
  IN <<msg, second, third, fourth, fifth, Behind(fifth)>>

Field(msg, k) == Before(Remaining(msg)[k])

\* Mutant: split instead of splitn, the payload ends at its first separator.
RestUpToNext(msg) == Before(Remaining(msg)[6])

Rest(msg) == Remaining(msg)[6]

Deserializes(msg) ==
  /\ Contains(Remaining(msg)[5], Sep)
  /\ Field(msg, 2) \in {<<"req">>, <<"res">>}
  /\ Field(msg, 5) \in {<<"last">>, <<"not-last">>}
  /\ Field(msg, 2) = <<"res">> => Field(msg, 4) \in {<<"200">>, <<"400">>, <<"500">>}

Deserialized(msg) ==
  [cmd |-> Field(msg, 1), kind |-> Field(msg, 2), id |-> Field(msg, 3),
   targetOrStatus |-> Field(msg, 4), chunk |-> Field(msg, 5), payload |-> Rest(msg)]

NotRun == [cmd |-> <<>>, kind |-> <<>>, id |-> <<>>, targetOrStatus |-> <<>>,
           chunk |-> <<>>, payload |-> <<>>]

-----------------------------------------------------------------------------
(* The client: from words to a request *)

Json == <<"--json">>
Raw  == <<"--raw">>

\* consume_extra_arg takes the first of each, wherever it stands.
Words  == RemoveFirst(RemoveFirst(line.words, Json), Raw)
Format == IF Contains(line.words, Raw) THEN "raw"
          ELSE IF Contains(line.words, Json) THEN "json" ELSE "text"

Shell == Words[1]
Word  == Words[2][1]
Arg(i) == Words[i + 2]
NumArgs == Len(Words) - 2

ArgsNeeded == [ls |-> 1, download |-> 1, cp |-> 1, glob |-> 1, http |-> 2, tcp |-> 3, scripts |-> 1]
HttpVerbs  == {<<"get">>, <<"post">>, <<"put">>, <<"delete">>}
IsPort(w)  == w = <<"80">>

Known    == Len(Words) >= 2 /\ Len(Words[2]) = 1 /\ Word \in DOMAIN ArgsNeeded
Readable == /\ Known /\ NumArgs >= ArgsNeeded[Word]
            /\ Word = "http" => Arg(1) \in HttpVerbs
            /\ Word = "tcp" => IsPort(Arg(2))

\* The alias is the client's: the shell knows one name for each command.
RequestCmd == IF Word = "cp" THEN <<"download">> ELSE <<Word>>

\* http, tcp and scripts send JSON, the others a path or a pattern.
RequestPayload ==
  CASE Word \in {"ls", "download", "cp", "glob"} -> Arg(1)
    [] Word = "http" -> <<"{">> \o Arg(1) \o Arg(2) \o (IF NumArgs > 2 THEN Arg(3) ELSE <<>>)
    [] Word = "tcp"  -> <<"{">> \o Arg(1) \o Arg(2) \o Arg(3)
    [] OTHER         -> <<"{">> \o Arg(1)

-----------------------------------------------------------------------------
(* The shell: the handlers *)

Code4(code) == <<ToString(code), "0", "0", "0">>      \* i32::to_ne_bytes of 0..255
Ok(data)    == [status |-> "200", data |-> data]
Bad(data)   == [status |-> "400", data |-> data]
Error       == <<"{error}">>
Panic       == [status |-> "panic", data |-> <<>>]

Contents(body) == IF body = "empty" THEN <<>> ELSE <<body>>

\* An entry is named, or "odd" when its name is not UTF-8, or "ancient" when its
\* times are before 1970; of one that is "gone" there is no metadata.
Listed(e) == IF e \in world.match THEN <<e>> ELSE <<>>
Listing   == Listed("file") \o Listed("folder") \o Listed("odd")

RunLs ==
  IF ~world.valid THEN Bad(Error)
  ELSE IF world.match \cap {"odd", "ancient"} # {} THEN Panic ELSE Ok(<<"{">> \o Listing)

RunGlob ==
  IF ~world.valid THEN Bad(Error)
  ELSE IF "ancient" \in world.match THEN Panic ELSE Ok(<<"{">> \o ReplaceAll(Listing, "odd", ""))

\* Mutant: the contents are unwrapped.
RunDownloadUnwraps ==
  CASE world.path = "file"       -> Ok(Contents(world.body))
    [] world.path = "unreadable" -> Panic
    [] OTHER                     -> Bad(Error)

RunDownload == IF world.path = "file" THEN Ok(Contents(world.body)) ELSE Bad(Error)

RunHttp(verb) ==
  IF verb \in {"get", "post"} /\ world.web = "page" THEN Ok(Contents(world.body)) ELSE Bad(Error)

\* The peer must take the whole payload in one write, answer, and close the
\* connection within the read timeout; that it listens is taken for granted.
RunTcp == CASE world.peer = "refused" -> Panic
            [] world.peer = "closes"  -> Ok(Contents(world.body))
            [] OTHER                  -> Bad(Error)

\* A script ended by a signal has no code and counts as 1.
ScriptCode == IF world.script = "killed" THEN 1 ELSE world.code
RunScripts ==
  IF world.script \in {"runs", "killed"} THEN Ok(Code4(ScriptCode) \o Contents(world.body))
  ELSE Bad(<<"0", "0", "0", "1">> \o Error)

Handled(req) ==
  CASE req.cmd = <<"ls">>       -> RunLs
    [] req.cmd = <<"download">> -> RunDownload
    [] req.cmd = <<"glob">>     -> RunGlob
    [] req.cmd = <<"http">>     -> RunHttp(req.payload[2])
    [] req.cmd = <<"tcp">>      -> RunTcp
    [] req.cmd = <<"scripts">>  -> RunScripts
    [] OTHER                    -> Bad(Error)

\* Only the payload of a success is compressed.
Answer(req) ==
  LET res == Handled(req) IN
  ResponseMessage(req.cmd, req.id, res.status,
                  IF res.status = "200" THEN Compressed(res.data) ELSE res.data)

-----------------------------------------------------------------------------
(* The client: where a download goes *)

\* The file a path means; "." and doubled separators mean nothing.
Resolved(path) ==
  LET names[n \in 0..Len(path)] ==
        IF n = 0 THEN <<>>
        ELSE IF path[n] \in {Sep, "."} THEN names[n - 1] ELSE Append(names[n - 1], path[n])
  IN names[Len(path)]
IsDir(path)    == path # <<>> /\ Resolved(path) \in world.dirs
IsFile(path)   == path # <<>> /\ Last(path) # Sep /\ Resolved(path) \in DOMAIN files
FileName(path) == Last(Resolved(path))
HasFileName(path) == Resolved(path) # <<>> /\ FileName(path) # ".."
Within(dir, name) == IF Last(dir) = Sep THEN Append(dir, name) ELSE dir \o <<Sep, name>>

\* Path::parent of a path with no separator at its end: the empty path for a
\* bare name, which is no folder to is_dir, and the root for a name in the root.
\* (The client works in the root here: "/new" and "new" are one file.)
Parent(path) ==
  LET cut == SelectLastInSeq(path, LAMBDA t : t = Sep)
  IN SubSeq(path, 1, IF cut = 1 THEN 1 ELSE cut - 1)
ParentIsDir(path) == Contains(path, Sep) /\ IsDir(Parent(path))

RemotePath == Arg(1)
LocalPath  == IF NumArgs < 2 THEN <<".", Sep>> ELSE Arg(2)

\* compute_destination; <<>> for None.
Destination ==
  IF IsDir(LocalPath) THEN Within(LocalPath, FileName(RemotePath))
  ELSE IF IsFile(LocalPath) \/ (LocalPath # <<>> /\ Last(LocalPath) # Sep /\ ParentIsDir(LocalPath))
       THEN LocalPath ELSE <<>>

\* fs::write: not over a folder, and not below something that is none.
CanWrite(path) == Resolved(path) \notin world.dirs /\ Front(Resolved(path)) \in world.dirs

-----------------------------------------------------------------------------
(* The command *)

\* Nothing that is typed or stored looks like what the compressor makes.
Token == STRING
Text  == Seq(Token \ {"zstd"})
World == [path   : {"file", "unreadable", "none"},
          valid  : BOOLEAN,
          match  : SUBSET {"file", "folder", "gone", "odd", "ancient"},
          web    : {"page", "down", "broken"},
          peer   : {"refused", "closes", "stays open", "takes half"},
          script : {"missing", "not executable", "runs", "killed"},
          code   : 0..255,
          body   : Token \ {"zstd"},
          dirs   : SUBSET Seq(Token), files : SUBSET Seq(Token)]

ASSUME CommandsAssumption ==
  /\ Lines \subseteq [me : Text, words : Seq(Text)]
  /\ \A w \in DOMAIN ArgsNeeded \cup {"none"} : Worlds(w) \subseteq World

\* The literals of this module are strings, and so are the tokens of bytes.
ASSUME TokensAssumption ==
  DOMAIN ArgsNeeded \cup {Sep, "req", "res", "last", "not-last", "200", "400", "panic", "zstd",
    ":random", "shell:", "{", "{error}", "0", "1", "file", "folder", "odd", "",
    "old", "cut", ".", "-"}
  \subseteq Token

ASSUME BytesAssumption ==
  /\ \A n \in 0..255 : ToString(n) \in Token \ {"zstd"}
  /\ \A m, n \in 0..255 : ToString(m) = ToString(n) => m = n
  /\ ToString(0) = "0"

Base == [path |-> "none", valid |-> TRUE, match |-> {}, web |-> "down", peer |-> "refused",
         script |-> "missing", code |-> 0, body |-> "text", dirs |-> {<<>>}, files |-> {}]

Init ==
  /\ line \in Lines
  /\ world \in Worlds(IF Known THEN Word ELSE "none")
  /\ (Readable /\ world.path # "none") => HasFileName(Arg(1))   \* what has no name is no file
  /\ pc = "typed"
  /\ up = <<>> /\ down = <<>>
  /\ ran = NotRun
  /\ got = <<>> /\ shown = <<>>
  /\ files = [p \in world.files |-> <<"old">>]
  /\ stdinAlive = TRUE

\* A word that is missing, a verb or a port that cannot be read: a panic.  An
\* unknown command: exit.
Misread ==
  /\ pc = "typed"
  /\ ~Readable
  /\ pc' = IF Len(Words) >= 2 /\ ~Known THEN "exited" ELSE "panicked"
  /\ UNCHANGED <<line, world, up, ran, down, got, shown, files, stdinAlive>>

NoServer ==
  /\ pc = "typed"
  /\ Readable
  /\ pc' = "exited"
  /\ UNCHANGED <<line, world, up, ran, down, got, shown, files, stdinAlive>>

\* Of an empty payload Request::chunk makes no message at all.
Send ==
  /\ pc = "typed"
  /\ Readable
  /\ up' = IF RequestPayload = <<>> THEN <<>>
           ELSE RequestMessage(RequestCmd, MessageId(line.me), ShellTarget(Shell), RequestPayload)
  /\ pc' = "waiting"
  /\ UNCHANGED <<line, world, ran, down, got, shown, files, stdinAlive>>

\* Not a message to the shell, or one that waits for its last chunk.
ShellDrops ==
  /\ up # <<>>
  /\ ~Deserializes(up) \/ Deserialized(up).chunk # <<"last">>
  /\ up' = <<>>
  /\ UNCHANGED <<pc, line, world, ran, down, got, shown, files, stdinAlive>>

ShellRuns ==
  /\ up # <<>>
  /\ Deserializes(up) /\ Deserialized(up).chunk = <<"last">>
  /\ ran' = Deserialized(up)
  /\ IF Handled(ran').status = "panic"
     THEN stdinAlive' = FALSE /\ UNCHANGED down
     ELSE down' = Answer(ran') /\ UNCHANGED stdinAlive
  /\ up' = <<>>
  /\ UNCHANGED <<pc, line, world, got, shown, files>>

\* Mutant: the status of an answer is not looked at.
TakeAnswerWhateverItsStatus ==
  /\ pc = "waiting"
  /\ down # <<>>
  /\ down' = <<>>
  /\ Deserializes(down) /\ Deserialized(down).id = MessageId(line.me)
  /\ got' = Decompressed(Deserialized(down).payload)
  /\ pc' = "show"
  /\ UNCHANGED <<line, world, up, ran, shown, files, stdinAlive>>

\* An error is printed and ends the command; an answer to somebody else is ignored.
TakeAnswer ==
  /\ pc = "waiting"
  /\ down # <<>>
  /\ down' = <<>>
  /\ IF ~Deserializes(down) \/ Deserialized(down).id # MessageId(line.me)
     THEN UNCHANGED <<pc, got>>
     ELSE IF Deserialized(down).targetOrStatus # <<"200">>
          THEN pc' = "exited" /\ UNCHANGED got
          ELSE pc' = "show" /\ got' = Decompressed(Deserialized(down).payload)
  /\ UNCHANGED <<line, world, up, ran, shown, files, stdinAlive>>

IsUtf8(text) == ~Contains(text, "binary")
IsJson(text) == text = <<"json">>

ShowListing ==
  /\ pc = "show" /\ Word \in {"ls", "glob"}
  /\ shown' = got
  /\ pc' = "done"
  /\ UNCHANGED <<line, world, up, ran, down, got, files, stdinAlive>>

\* What cannot be shown in the format asked for is not shown.
ShowPage ==
  /\ pc = "show" /\ Word = "http"
  /\ shown' = IF \/ Format = "raw"
                 \/ Format = "text" /\ IsUtf8(got)
                 \/ Format = "json" /\ IsJson(got)
              THEN got ELSE <<>>
  /\ pc' = "done"
  /\ UNCHANGED <<line, world, up, ran, down, got, files, stdinAlive>>

Byte(token) == CHOOSE n \in 0..255 : ToString(n) = token

\* Mutant: the code is read in the other order of bytes.
CodeBigEndian(b) == ((Byte(b[1]) * 256 + Byte(b[2])) * 256 + Byte(b[3])) * 256 + Byte(b[4])

Code(b) == Byte(b[1]) + 256 * (Byte(b[2]) + 256 * (Byte(b[3]) + 256 * Byte(b[4])))

\* A code is printed when it is not 0; output that is not UTF-8 only raw.
ShowOutput ==
  /\ pc = "show" /\ Word \in {"tcp", "scripts"}
  /\ LET prefix == IF Word = "tcp" \/ Code(got) = 0 THEN <<>> ELSE <<ToString(Code(got))>>
         output == IF Word = "tcp" THEN got ELSE SubSeq(got, 5, Len(got))
     IN IF Format = "raw" \/ IsUtf8(output)
        THEN shown' = prefix \o output /\ pc' = "done"
        ELSE shown' = prefix /\ pc' = "panicked"
  /\ UNCHANGED <<line, world, up, ran, down, got, files, stdinAlive>>

IsDownload == Word \in {"download", "cp"}

\* One write, which need not take everything; that it took less goes unnoticed.
ShowDownload ==
  /\ pc = "show" /\ IsDownload
  /\ LocalPath = <<"-">>
  /\ \E taken \in 0..Len(got) : shown' = SubSeq(got, 1, taken)
  /\ pc' = "done"
  /\ UNCHANGED <<line, world, up, ran, down, got, files, stdinAlive>>

RefuseDestination ==
  /\ pc = "show" /\ IsDownload
  /\ LocalPath # <<"-">>
  /\ HasFileName(RemotePath) => Destination = <<>>
  /\ pc' = IF HasFileName(RemotePath) THEN "refused" ELSE "panicked"
  /\ UNCHANGED <<line, world, up, ran, down, got, shown, files, stdinAlive>>

SaveDownload ==
  /\ pc = "show" /\ IsDownload
  /\ LocalPath # <<"-">> /\ HasFileName(RemotePath) /\ Destination # <<>>
  /\ CanWrite(Destination)
  /\ files' = [p \in DOMAIN files \cup {Resolved(Destination)} |->
                 IF p = Resolved(Destination) THEN got ELSE files[p]]
  /\ pc' = "done"
  /\ UNCHANGED <<line, world, up, ran, down, got, shown, stdinAlive>>

\* The disk may be full: then the file is there, cut short.
WriteFails ==
  /\ pc = "show" /\ IsDownload
  /\ LocalPath # <<"-">> /\ HasFileName(RemotePath) /\ Destination # <<>>
  /\ IF CanWrite(Destination)
     THEN files' = [p \in DOMAIN files \cup {Resolved(Destination)} |->
                     IF p = Resolved(Destination) THEN <<"cut">> ELSE files[p]]
     ELSE UNCHANGED files
  /\ pc' = "unwritten"
  /\ UNCHANGED <<line, world, up, ran, down, got, shown, stdinAlive>>

Next ==
  \/ Misread \/ NoServer \/ Send
  \/ ShellDrops \/ ShellRuns
  \/ TakeAnswer
  \/ ShowListing \/ ShowPage \/ ShowOutput
  \/ ShowDownload \/ RefuseDestination \/ SaveDownload \/ WriteFails

Spec == Init /\ [][Next]_vars

-----------------------------------------------------------------------------
(* Properties *)

\* Types; and what the client shows or keeps is not compressed.
TypeOK ==
  /\ pc \in {"typed", "waiting", "show", "done", "exited", "panicked", "refused", "unwritten"}
  /\ line \in Lines
  /\ \A t \in {up, down, got, shown} : \A i \in DOMAIN t : t[i] \in Token
  /\ ran = NotRun \/ (ran.kind = <<"req">> /\ ran.chunk = <<"last">>)
  /\ \A t \in {got, shown} \cup {files[p] : p \in DOMAIN files} : ~Contains(t, "zstd")
  /\ stdinAlive \in BOOLEAN

\* Whatever a shell runs is the command that was typed, under the name the
\* shell knows it by, for the shell that was named and with the whole of its
\* parameters: no separator in a path, a URL or an id shifts the fields
\* (to_message_payload against deserialize), and no output flag is left in them.
\* This is so in a plain line.  Two kinds of line break it, and the runs do not
\* type them: an id with a part called "last", which ends the fields too early,
\* and an output flag given twice, of which only the first is taken out.
RunsWhatWasTyped ==
  ran # NotRun =>
    /\ ran.cmd = IF Word = "cp" THEN <<"download">> ELSE <<Word>>
    /\ ran.id = MessageId(line.me) /\ ran.targetOrStatus = ShellTarget(Shell)
    /\ ran.payload = RequestPayload
    /\ \A w \in {Json, Raw} : ~IsPrefix(w, ran.payload)

\* What a command that prints is meant to print, said of the machines alone.
Printed ==
  CASE Word = "ls"      -> <<"{">> \o Listed("file") \o Listed("folder")
    [] Word = "glob"    -> <<"{">> \o Listed("file") \o Listed("folder")
                           \o IF "odd" \in world.match THEN <<"">> ELSE <<>>
    [] Word = "scripts" -> (IF ScriptCode = 0 THEN <<>> ELSE <<ToString(ScriptCode)>>)
                           \o Contents(world.body)
    [] OTHER            -> Contents(world.body)

\* A command that ends well has printed what the shell's machine had to say,
\* through two serialisations, the compression and the format: the exit code of
\* a script is the script's, and raw output is shown whatever its bytes.  Only
\* http keeps quiet about what it cannot show, and only a download to "-" may be
\* cut: it is printed by one write, and ends well whatever that took.  A name
\* that is not UTF-8 is empty in the output of glob.
ShowsTheShellsAnswer ==
  (pc = "done" /\ ~(IsDownload /\ LocalPath # <<"-">>)) =>
    \/ shown = Printed
    \/ Word = "http" /\ Format # "raw" /\ shown = <<>>
    \/ IsDownload /\ IsPrefix(shown, Printed)

\* The client's files are changed by a download that succeeded, and by it one
\* file: the one that was named, or one with the remote name in the folder that
\* was named, never a folder; it then has the remote contents.  An error of the
\* shell never ends up in a file, and no remote name makes the client panic.  A
\* write that fails may leave a cut file.
DownloadLands ==
  /\ \A p \in DOMAIN files \cup world.files :
       (p \notin world.files \/ files[p] # <<"old">>) =>
         /\ IsDownload /\ world.path = "file" /\ pc \in {"done", "unwritten"}
         /\ p \notin world.dirs /\ Front(p) \in world.dirs
         /\ \/ p = Resolved(LocalPath)
            \/ /\ Resolved(LocalPath) \in world.dirs
               /\ p = Append(Resolved(LocalPath), FileName(RemotePath))
         /\ pc = "done" => files[p] = Contents(world.body)
  /\ (pc = "done" /\ IsDownload /\ LocalPath # <<"-">>) => \E p \in DOMAIN files : files[p] = got
  /\ (pc = "panicked" /\ Readable) => ~IsDownload

\* A command is left waiting only when its request was empty, when a shell id
\* holds the separator, or when the stdin thread of the shell has panicked.
WaitsOnlyWhen ==
  (pc = "waiting" /\ up = <<>> /\ down = <<>>) =>
    \/ RequestPayload = <<>>
    \/ Contains(line.me \o Shell, Sep)
    \/ ~stdinAlive

\* Three things end the shell's stdin thread: a connection that is refused to a
\* tcp command, a name that is not UTF-8 met by an ls, and a time before 1970 met
\* by an ls or a glob.  No other answer of the machine, no entry that is gone, no
\* missing or unreadable file and no failing script does.
StdinSurvives ==
  ~stdinAlive => \/ Word = "tcp" /\ world.peer = "refused"
                 \/ Word = "ls" /\ "odd" \in world.match
                 \/ Word \in {"ls", "glob"} /\ "ancient" \in world.match

\* What the client says when it refuses a destination: it "is a non-existing
\* folder" or "is inside a non-existing folder" (download.rs:104, 116).
RefusedMeansNoFolder ==
  pc = "refused" =>
    \/ Last(LocalPath) = Sep
    \/ Front(Resolved(LocalPath)) \notin world.dirs
=============================================================================
