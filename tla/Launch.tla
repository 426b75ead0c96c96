-------------------------------- MODULE Launch --------------------------------
(***************************************************************************)
(* What a process of hoposhell starts from: its command line, the          *)
(* environment of the terminal it is started in, and the credentials in    *)
(* the hoposhell folder (parse_args, main, setup, main_connect up to the   *)
(* first connection).                                                      *)
(*                                                                         *)
(* A session runs a shell in a terminal of its own and hands it an         *)
(* environment, before it has loaded its key; other processes are then     *)
(* started in that terminal, and all of them share the folder, which a     *)
(* setup rewrites file by file.                                            *)
(***************************************************************************)
EXTENDS FiniteSets, Naturals

CONSTANTS
  Terminals,   \* the terminals there can be at once (a bound)
  Windows,     \* those the user has opened
  Names,       \* the ids of shells that credentials can be had for
  KeyFiles,    \* files of the folder a key can be in
  Listed,      \* those whose path matches shell_.*\.pem
  KeyFile,     \* the file of a name: <folder>/<name>.pem
  Stem,        \* the name a file has for the client, its file stem
  Owners,      \* whose key a file may hold at first
  Envs         \* environments a window can have

NoName == "none"
NoFile == "no file"
Crt    == "server.crt"
Files  == KeyFiles \cup {Crt}

ASSUME LaunchAssumption ==
  /\ Windows \subseteq Terminals /\ NoName \notin Terminals
  /\ Listed \subseteq KeyFiles
  /\ {NoFile, Crt} \cap KeyFiles = {}
  /\ {"ca", "cut"} \cap Names = {}
  /\ Names \subseteq DOMAIN KeyFile /\ NoName \notin DOMAIN KeyFile
  /\ \A n \in DOMAIN KeyFile : KeyFile[n] \in KeyFiles
  /\ Stem \in [KeyFiles -> DOMAIN KeyFile]
  /\ \A n \in DOMAIN KeyFile : Stem[KeyFile[n]] = n
  /\ Owners \in [KeyFiles -> SUBSET Names]
  /\ \A n \in DOMAIN KeyFile : Owners[KeyFile[n]] \subseteq {n}
  /\ \A e \in Envs : e.id \in DOMAIN KeyFile \cup {NoName} /\ e.key \in KeyFiles \cup {NoFile} /\ e.ssl \in BOOLEAN

VARIABLES
  term,     \* the terminals: the environment of each, or Closed
  proc,     \* the process of hoposhell in each, or Idle; history: its field
            \* "alone" says that no other setup has run beside it
  file,     \* what each file holds
  hurt      \* history: the files that were being written when their setup ended

vars == <<term, proc, file, hurt>>

Closed == [open |-> FALSE, id |-> NoName, connected |-> FALSE, key |-> NoFile, ssl |-> TRUE, parent |-> NoName]
Idle   == [cmd |-> "idle", name |-> NoName, key |-> NoFile, as |-> NoName, pc |-> "idle",
           alone |-> TRUE]

Clients == {"connect", "command", "forward-tcp"}    \* those that connect to the server

-----------------------------------------------------------------------------
(* parse_args *)

\* A command needs the shell it is for, in a session too.
NeedsArg == {"setup", "forward-tcp", "command"}

\* `command` takes the id of the session it is typed in; the others the argument.
Name(env, cmd, arg) ==
  IF arg = NoName \/ (cmd = "command" /\ env.id # NoName) THEN env.id ELSE arg

\* Mutant: an argument is stronger than the session for every command.
KeyPathOfArgument(env, cmd, arg) ==
  IF arg # NoName THEN KeyFile[arg] ELSE IF env.id # NoName THEN KeyFile[env.id] ELSE NoFile

\* Mutant: the path of the key is made before the argument is read.
KeyPathOfEnvironment(env, cmd, arg) ==
  IF env.id # NoName THEN KeyFile[env.id] ELSE IF arg # NoName THEN KeyFile[arg] ELSE NoFile

KeyPath(env, cmd, arg) ==
  IF Name(env, cmd, arg) = NoName THEN NoFile ELSE KeyFile[Name(env, cmd, arg)]

\* HOPOSHELL_SHELL_KEY is stronger than any name.
Key(env, cmd, arg) == IF env.key # NoFile THEN env.key ELSE KeyPath(env, cmd, arg)

\* A missing argument is a panic, and a session in a session is refused.
MayRun(env, cmd, arg) ==
  /\ cmd \in NeedsArg => arg # NoName
  /\ cmd = "connect" => ~env.connected

FirstStep(cmd, key) ==
  CASE cmd = "setup"   -> "ask"
    [] cmd = "connect" -> IF key = NoFile THEN "pick" ELSE "spawn"
    [] OTHER           -> "load crt"

Init ==
  /\ \E env \in [Windows -> Envs] :
       term = [t \in Terminals |->
                IF t \in Windows
                THEN [open |-> TRUE, connected |-> FALSE, parent |-> NoName,
                      id |-> env[t].id, key |-> env[t].key, ssl |-> env[t].ssl]
                ELSE Closed]
  /\ proc = [t \in Terminals |-> Idle]
  /\ file \in [Files -> Names \cup {NoName, "ca"}]
  /\ file[Crt] \in {NoName, "ca"}
  /\ \A k \in KeyFiles : file[k] \in {NoName} \cup Owners[k]
  /\ hurt = {}

Run(t, cmd, arg) ==
  /\ term[t].open /\ proc[t] = Idle
  /\ MayRun(term[t], cmd, arg)
  /\ LET key == Key(term[t], cmd, arg) IN
     proc' = [u \in Terminals |->
       IF u = t THEN [cmd |-> cmd, name |-> Name(term[t], cmd, arg), key |-> key, as |-> NoName,
                      pc |-> FirstStep(cmd, key), alone |-> cmd = "setup" => \A v \in Terminals : proc[v].cmd # "setup"]
       ELSE IF cmd = "setup" /\ proc[u].cmd = "setup" THEN [proc[u] EXCEPT !.alone = FALSE]
       ELSE proc[u]]
  /\ UNCHANGED <<term, file, hurt>>

-----------------------------------------------------------------------------
(* The end of a process.  The shell of a session ends with it, and what runs *)
(* in the terminal of that shell.                                            *)

Inner(t)   == {u \in Terminals : term[u].open /\ term[u].parent = t}
Ending(t)  == {t} \cup Inner(t)
Writes(p)  == CASE p.pc = "crt" -> {Crt} [] p.pc = "key" -> {p.key} [] OTHER -> {}

Ends(t) ==
  /\ proc' = [u \in Terminals |-> IF u \in Ending(t) THEN Idle ELSE proc[u]]
  /\ term' = [u \in Terminals |-> IF u \in Inner(t) THEN Closed ELSE term[u]]
  /\ hurt' = hurt \cup UNION {Writes(proc[u]) : u \in Ending(t)}

\* Its work done, a kill, a panic, a server that is not there: at any point.
Quit(t) ==
  /\ proc[t] # Idle
  /\ Ends(t)
  /\ UNCHANGED file

-----------------------------------------------------------------------------
(* setup *)

Is(t, cmd, pc) == proc[t].cmd = cmd /\ proc[t].pc = pc
Goto(t, pc)    == proc' = [proc EXCEPT ![t].pc = pc]

\* Mutant: a certificate that is there is left as it is.
TruncateMissingCrt(t) ==
  /\ Is(t, "setup", "ask")
  /\ IF file[Crt] # NoName
     THEN Goto(t, "crt written") /\ UNCHANGED file
     ELSE Goto(t, "crt") /\ file' = [file EXCEPT ![Crt] = "cut"]
  /\ UNCHANGED <<term, hurt>>

\* Mutant: both files are opened before either is written.
TruncateBoth(t) ==
  /\ Is(t, "setup", "ask")
  /\ file' = [file EXCEPT ![Crt] = "cut", ![proc[t].key] = "cut"]
  /\ Goto(t, "crt")
  /\ UNCHANGED <<term, hurt>>

\* fs::write empties the file, then fills it.
TruncateCrt(t) ==
  /\ Is(t, "setup", "ask")
  /\ file' = [file EXCEPT ![Crt] = "cut"]
  /\ Goto(t, "crt")
  /\ UNCHANGED <<term, hurt>>

FillCrt(t) ==
  /\ Is(t, "setup", "crt")
  /\ file' = [file EXCEPT ![Crt] = "ca"]
  /\ Goto(t, "crt written")
  /\ UNCHANGED <<term, hurt>>

TruncateKey(t) ==
  /\ Is(t, "setup", "crt written")
  /\ file' = [file EXCEPT ![proc[t].key] = "cut"]
  /\ Goto(t, "key")
  /\ UNCHANGED <<term, hurt>>

\* Over a longer key that another setup has just written, the end of that one
\* stays.
FillKey(t) ==
  /\ Is(t, "setup", "key")
  /\ LET f == proc[t].key IN
     \E c \in {proc[t].name} \cup (IF file[f] \in Names \ {proc[t].name} THEN {"cut"} ELSE {}) :
       file' = [file EXCEPT ![f] = c]
  /\ Goto(t, "done")
  /\ UNCHANGED <<term, hurt>>

-----------------------------------------------------------------------------
(* connect *)

\* The key of the folder, when there is one; without a folder there is a panic.
PickKey(t) ==
  /\ Is(t, "connect", "pick")
  /\ \/ \E k \in Listed :
          /\ {f \in Listed : file[f] # NoName} = {k}
          /\ proc' = [proc EXCEPT ![t].key = k, ![t].pc = "spawn"]
     \/ /\ Cardinality({f \in Listed : file[f] # NoName}) # 1
        /\ Goto(t, "spawn")
  /\ UNCHANGED <<term, file, hurt>>

\* get_shell_id: the name, or else the stem of the key that was picked.
ShellId(p) == IF p.name # NoName THEN p.name
              ELSE IF p.key # NoFile THEN Stem[p.key] ELSE NoName

\* Mutant: the shell is told that it is connected along with its id.
ShellEnvWithId(t) ==
  [open |-> TRUE, id |-> ShellId(proc[t]), connected |-> ShellId(proc[t]) # NoName,
   key |-> term[t].key, ssl |-> term[t].ssl, parent |-> t]

ShellEnv(t) ==
  [open |-> TRUE, id |-> ShellId(proc[t]), connected |-> TRUE,
   key |-> term[t].key, ssl |-> term[t].ssl, parent |-> t]

\* run_shell: the shell is there before the credentials are loaded.
OpenShell(t) ==
  /\ Is(t, "connect", "spawn")
  /\ \E u \in Terminals :
       /\ ~term[u].open
       /\ term' = [term EXCEPT ![u] = ShellEnv(t)]
  /\ Goto(t, "load crt")
  /\ UNCHANGED <<file, hurt>>

-----------------------------------------------------------------------------
(* make_ssl_conector, for every client; forward-tcp does it again for each   *)
(* connection it accepts.  What cannot be loaded ends the process.           *)

\* Mutant: nobody asks whether there is a path of a key.
LoadCrtKeyOrNot(t) ==
  /\ proc[t].cmd \in Clients /\ proc[t].pc = "load crt"
  /\ IF ~term[t].ssl THEN Goto(t, "on") /\ UNCHANGED <<term, hurt>>
     ELSE IF file[Crt] = "ca" THEN Goto(t, "load key") /\ UNCHANGED <<term, hurt>>
     ELSE Ends(t)
  /\ UNCHANGED file

LoadCrt(t) ==
  /\ proc[t].cmd \in Clients /\ proc[t].pc = "load crt"
  /\ IF ~term[t].ssl THEN Goto(t, "on") /\ UNCHANGED <<term, hurt>>
     ELSE IF proc[t].key # NoFile /\ file[Crt] = "ca" THEN Goto(t, "load key") /\ UNCHANGED <<term, hurt>>
     ELSE Ends(t)
  /\ UNCHANGED file

LoadKey(t) ==
  /\ proc[t].cmd \in Clients /\ proc[t].pc = "load key"
  /\ IF file[proc[t].key] \in Names
     THEN proc' = [proc EXCEPT ![t].as = file[proc[t].key], ![t].pc = "on"] /\ UNCHANGED <<term, hurt>>
     ELSE Ends(t)
  /\ UNCHANGED file

Accept(t) ==
  /\ Is(t, "forward-tcp", "on")
  /\ proc' = [proc EXCEPT ![t].pc = "load crt", ![t].as = NoName]
  /\ UNCHANGED <<term, file, hurt>>

Next ==
  \E t \in Terminals :
    \/ \E cmd \in Clients \cup {"setup"}, arg \in Names \cup {NoName} : Run(t, cmd, arg)
    \/ TruncateCrt(t) \/ FillCrt(t) \/ TruncateKey(t) \/ FillKey(t)
    \/ PickKey(t) \/ OpenShell(t)
    \/ LoadCrt(t) \/ LoadKey(t) \/ Accept(t)
    \/ Quit(t)

Spec == Init /\ [][Next]_vars

-----------------------------------------------------------------------------
(* Properties *)

\* Types; and a process that writes or loads a key knows of which file.
TypeOK ==
  /\ \A t \in Terminals :
       /\ term[t].open \in BOOLEAN /\ term[t].connected \in BOOLEAN
       /\ term[t].key \in KeyFiles \cup {NoFile} /\ term[t].parent \in Terminals \cup {NoName}
       /\ proc[t].cmd \in Clients \cup {"setup", "idle"}
       /\ proc[t].as \in Names \cup {NoName}
       /\ proc[t].pc \in {"crt", "crt written", "key", "load key"} => proc[t].key \in KeyFiles
       /\ proc[t] # Idle => term[t].open
  /\ file \in [Files -> Names \cup {NoName, "ca", "cut"}]
  /\ hurt \subseteq Files

\* No session is ever started in the terminal of a session, whether the outer
\* one knew its id or not and whatever is typed (main.rs:44 with the
\* environment run_shell.rs:41-47 makes).
NoNestedSession ==
  \A t \in Terminals : proc[t].cmd = "connect" => term[t].parent = NoName

\* To the client a backup of a key is a key of another name.
Backup(f) == KeyFile[Stem[f]] # f

\* A command typed in a session goes out under the session's id and with its
\* key, however the session came by them: by its argument, the environment, or
\* as the only key of the folder.  The first argument of the command is the
\* shell it is for and never the one it is from.
CommandIsTheSessions ==
  \A t \in Terminals :
    (proc[t].cmd = "command" /\ term[t].parent # NoName) =>
      LET session == proc[term[t].parent] IN
      (session.key # NoFile /\ ~Backup(session.key)) =>
        proc[t].name = ShellId(session) /\ proc[t].key = session.key

\* Where HOPOSHELL_SHELL_KEY is not used, a client that is connected is known
\* to the server, by its key, as the shell it takes itself for: in spite of
\* setups that rewrite the files, and of picking a key while they do.
HoldsItsOwnKey ==
  (\A t \in Terminals : term[t].key = NoFile) =>
    \A t \in Terminals :
      LET p == proc[t] IN
      (p.cmd \in Clients /\ p.pc = "on" /\ term[t].ssl /\ ~Backup(p.key)) => p.as = ShellId(p)

\* A file that cannot be used is being written, or its setup was ended while it
\* wrote it; a setup that is ended elsewhere, or fails, leaves each file as it
\* was or new.
CutOnlyInWriting ==
  (\A t \in Terminals : term[t].key = NoFile) =>
    \A f \in Files :
      file[f] = "cut" => f \in hurt \/ \E t \in Terminals : f \in Writes(proc[t])

\* A setup that came to its end, with no other beside it, leaves a certificate
\* and a key that its shell can connect with, whatever earlier setups left.
SetupRepairs ==
  \A t \in Terminals :
    (Is(t, "setup", "done") /\ proc[t].alone) =>
      file[Crt] = "ca" /\ file[proc[t].key] = proc[t].name
=============================================================================
