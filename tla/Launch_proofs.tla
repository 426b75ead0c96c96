---------------------------- MODULE Launch_proofs ----------------------------
(***************************************************************************)
(* Proofs about Launch for any number of terminals and names, any folder   *)
(* and any environment: the types; that a session is never started in a    *)
(* session; what setups leave; whose key a client holds; and that a        *)
(* command in the terminal of a session is the session's.                  *)
(*                                                                         *)
(* That what runs in a terminal was let in by HOPOSHELL_CONNECTED says     *)
(* nothing of the sessions that are there already; the invariant adds that *)
(* the variable is set in every terminal a session has opened, whether the *)
(* session knows its id or not, and that nothing runs in a closed one, so  *)
(* that a terminal is opened again without a process of before in it.      *)
(***************************************************************************)
EXTENDS Launch, TLAPS

Ids   == DOMAIN KeyFile
Keys  == KeyFiles \cup {NoFile}
Steps == {"idle", "ask", "crt", "crt written", "key", "done", "pick", "spawn", "load crt", "load key", "on"}

Terminal == [open : BOOLEAN, id : Ids \cup {NoName}, connected : BOOLEAN, key : Keys, ssl : BOOLEAN,
             parent : Terminals \cup {NoName}]

AnyProcess == [cmd : Clients \cup {"setup", "idle"}, name : Ids \cup {NoName}, key : Keys,
               as : Names \cup {NoName}, pc : Steps, alone : BOOLEAN]

\* A setup has a name and a file for its key; a key that is loaded has a file.
Process ==
  {p \in AnyProcess : /\ p.cmd = "setup" => p.name \in Names /\ p.key \in KeyFiles
                      /\ p.pc \in {"crt", "crt written", "key"} => p.cmd = "setup"
                      /\ p.pc = "load key" => p.key \in KeyFiles}

Types ==
  /\ term \in [Terminals -> Terminal]
  /\ proc \in [Terminals -> Process]
  /\ file \in [Files -> Names \cup {NoName, "ca", "cut"}]
  /\ hurt \subseteq Files

\* What runs, runs in an open terminal.
RunsInOpen == \A t \in Terminals : proc[t] # Idle => term[t].open

\* A session tells the shell it opens that it is there.
SessionIsTold == \A t \in Terminals : (term[t].open /\ term[t].parent # NoName) => term[t].connected

\* A session is where nobody was told of another.
NotTold == \A t \in Terminals : proc[t].cmd = "connect" => ~term[t].connected

\* Beside a setup that is alone there is no other, and the files are as far as it is.
Alone(t) == proc[t].cmd = "setup" /\ proc[t].alone

AloneIsAlone == \A t, u \in Terminals : (Alone(t) /\ proc[u].cmd = "setup") => t = u

Progress ==
  \A t \in Terminals : Alone(t) =>
    /\ proc[t].pc \in {"crt written", "key", "done"} => file[Crt] = "ca"
    /\ proc[t].pc = "key"  => file[proc[t].key] = "cut"
    /\ proc[t].pc = "done" => file[proc[t].key] = proc[t].name

Inv == Types /\ RunsInOpen /\ SessionIsTold /\ NotTold

-----------------------------------------------------------------------------
(* Types *)

\* A process that goes on with another key, identity and step.
LEMMA ProcessGoesOn ==
  ASSUME NEW p \in Process, NEW k \in Keys, NEW a \in Names \cup {NoName}, NEW s \in Steps,
         p.cmd = "setup" => k \in KeyFiles,
         s \in {"crt", "crt written", "key"} => p.cmd = "setup",
         s = "load key" => k \in KeyFiles
  PROVE  [p EXCEPT !.key = k, !.as = a, !.pc = s] \in Process
BY DEF Process, AnyProcess

\* A process that goes on to its next step with what it has.
LEMMA GotoTypes ==
  ASSUME proc \in [Terminals -> Process], NEW t \in Terminals, NEW s \in Steps, Goto(t, s),
         s \in {"crt", "crt written", "key"} => proc[t].cmd = "setup",
         s = "load key" => proc[t].key \in KeyFiles
  PROVE  proc' \in [Terminals -> Process]
<1>1. [proc[t] EXCEPT !.pc = s] \in Process
  BY DEF Process, AnyProcess
<1> QED BY <1>1 DEF Goto

\* Nothing runs, and no terminal is open, at first or in the end.
LEMMA AtRest == Idle \in Process /\ (LaunchAssumption => Closed \in Terminal)
BY DEF Idle, Process, AnyProcess, Steps, Keys, Closed, Terminal, LaunchAssumption

\* Files that are being written are files.
LEMMA WritesFiles == ASSUME NEW p \in Process PROVE Writes(p) \subseteq Files
BY DEF Process, Writes, Files

\* The end of a process.
LEMMA EndsTypes ==
  ASSUME Types, NEW t \in Terminals, Ends(t), UNCHANGED file PROVE Types'
<1>1. proc' \in [Terminals -> Process]
  BY AtRest DEF Types, Ends
<1>2. term' \in [Terminals -> Terminal]
  BY AtRest, LaunchAssumption DEF Types, Ends
<1>3. \A u \in Ending(t) : Writes(proc[u]) \subseteq Files
  BY WritesFiles DEF Types, Ending, Inner
<1>4. hurt' \subseteq Files
  BY <1>3 DEF Types, Ends
<1> QED BY <1>1, <1>2, <1>4 DEF Types

\* A step that changes neither the terminals nor the files.
LEMMA ProcTypes ==
  ASSUME Types, proc' \in [Terminals -> Process], UNCHANGED <<term, file, hurt>> PROVE Types'
BY DEF Types

\* The right name for what is typed has a file.
LEMMA NameTypes ==
  ASSUME NEW env \in Terminal, NEW cmd, NEW arg \in Names \cup {NoName}
  PROVE  /\ Name(env, cmd, arg) \in Ids \cup {NoName}
         /\ Key(env, cmd, arg) \in Keys
         /\ (cmd = "setup" /\ arg # NoName) =>
              Name(env, cmd, arg) \in Names /\ Key(env, cmd, arg) \in KeyFiles
<1>1. Name(env, cmd, arg) \in Ids \cup {NoName}
  BY LaunchAssumption DEF Name, Terminal, Ids
<1>2. KeyPath(env, cmd, arg) \in Keys
  BY <1>1, LaunchAssumption DEF KeyPath, Keys, Ids
<1>3. Key(env, cmd, arg) \in Keys
  BY <1>2 DEF Key, Terminal
<1>4. ASSUME cmd = "setup", arg # NoName
      PROVE  Name(env, cmd, arg) \in Names /\ Key(env, cmd, arg) \in KeyFiles
  <2>1. Name(env, cmd, arg) = arg /\ arg \in Names /\ KeyFile[arg] \in KeyFiles
    BY <1>4, LaunchAssumption DEF Name
  <2>2. KeyPath(env, cmd, arg) = KeyFile[arg]
    BY <1>4, <2>1 DEF KeyPath
  <2> QED BY <2>1, <2>2 DEF Key, Terminal, Keys
<1> QED BY <1>1, <1>3, <1>4

\* A process that is started.
LEMMA RunTypes ==
  ASSUME Types, NEW t \in Terminals, NEW cmd \in Clients \cup {"setup"},
         NEW arg \in Names \cup {NoName}, Run(t, cmd, arg)
  PROVE  Types'
<1> DEFINE new == [cmd |-> cmd, name |-> Name(term[t], cmd, arg), key |-> Key(term[t], cmd, arg),
                   as |-> NoName, pc |-> FirstStep(cmd, Key(term[t], cmd, arg)),
                   alone |-> cmd = "setup" => \A v \in Terminals : proc[v].cmd # "setup"]
<1>1. term[t] \in Terminal
  BY DEF Types
<1>2. cmd = "setup" => arg # NoName
  BY DEF Run, MayRun, NeedsArg
<1>3. /\ Name(term[t], cmd, arg) \in Ids \cup {NoName}
      /\ Key(term[t], cmd, arg) \in Keys
      /\ cmd = "setup" => Name(term[t], cmd, arg) \in Names /\ Key(term[t], cmd, arg) \in KeyFiles
  BY <1>1, <1>2, NameTypes
<1>4. FirstStep(cmd, Key(term[t], cmd, arg)) \in {"ask", "pick", "spawn", "load crt"}
  BY DEF FirstStep
<1>5. (cmd = "setup" => \A v \in Terminals : proc[v].cmd # "setup") \in BOOLEAN
  OBVIOUS
<1>6. new \in Process
  <2> HIDE DEF Name, Key, FirstStep
  <2>1. new \in AnyProcess
    BY <1>3, <1>4, <1>5 DEF AnyProcess, Steps
  <2> QED BY <1>3, <1>4, <2>1 DEF Process
<1>7. \A u \in Terminals : [proc[u] EXCEPT !.alone = FALSE] \in Process
  BY DEF Types, Process, AnyProcess
<1>8. proc' = [u \in Terminals |->
                 IF u = t THEN new
                 ELSE IF cmd = "setup" /\ proc[u].cmd = "setup" THEN [proc[u] EXCEPT !.alone = FALSE]
                 ELSE proc[u]]
  BY DEF Run
<1>9. proc' \in [Terminals -> Process]
  <2> HIDE DEF new
  <2> QED BY <1>6, <1>7, <1>8 DEF Types
<1> QED BY <1>9, ProcTypes DEF Run

\* A step of setup.
LEMMA SetupTypes ==
  ASSUME Types, NEW t \in Terminals, TruncateCrt(t) \/ FillCrt(t) \/ TruncateKey(t) \/ FillKey(t)
  PROVE  Types'
<1>1. proc[t] \in Process /\ proc[t].cmd = "setup"
  BY DEF Types, TruncateCrt, FillCrt, TruncateKey, FillKey, Is
<1>2. proc[t].key \in KeyFiles /\ proc[t].name \in Names
  BY <1>1 DEF Process
<1>3. \E s \in {"crt", "crt written", "key", "done"} : Goto(t, s)
  BY DEF TruncateCrt, FillCrt, TruncateKey, FillKey
<1>4. proc' \in [Terminals -> Process]
  BY <1>1, <1>2, <1>3, GotoTypes DEF Types, Steps
<1>5. file' \in [Files -> Names \cup {NoName, "ca", "cut"}]
  BY <1>2 DEF Types, TruncateCrt, FillCrt, TruncateKey, FillKey
<1> QED BY <1>4, <1>5 DEF Types, TruncateCrt, FillCrt, TruncateKey, FillKey

\* A key is picked from the folder, or none.
LEMMA PickKeyTypes == ASSUME Types, NEW t \in Terminals, PickKey(t) PROVE Types'
<1>1. proc[t] \in Process /\ proc[t].cmd = "connect"
  BY DEF Types, PickKey, Is
<1>2. CASE Goto(t, "spawn")
  <2>1. proc' \in [Terminals -> Process]
    BY <1>1, <1>2, GotoTypes DEF Types, Steps
  <2> QED BY <2>1, ProcTypes DEF PickKey
<1>3. CASE \E k \in Listed : proc' = [proc EXCEPT ![t].key = k, ![t].pc = "spawn"]
  <2>1. PICK k \in Listed : proc' = [proc EXCEPT ![t].key = k, ![t].pc = "spawn"]
    BY <1>3
  <2>2. [proc[t] EXCEPT !.key = k, !.pc = "spawn"] \in Process
    BY <1>1, LaunchAssumption DEF Process, AnyProcess, Keys, Steps
  <2>3. proc' \in [Terminals -> Process]
    BY <2>1, <2>2 DEF Types
  <2> QED BY <2>3, ProcTypes DEF PickKey
<1> QED BY <1>2, <1>3 DEF PickKey

\* The id of a session is a name.
LEMMA ShellIdTypes == ASSUME NEW p \in Process PROVE ShellId(p) \in Ids \cup {NoName}
BY LaunchAssumption DEF ShellId, Process, AnyProcess, Keys, Ids

\* A session opens a terminal.
LEMMA OpenShellTypes == ASSUME Types, NEW t \in Terminals, OpenShell(t) PROVE Types'
<1>1. proc[t] \in Process /\ proc[t].cmd = "connect" /\ Goto(t, "load crt")
  BY DEF Types, OpenShell, Is
<1>2. proc' \in [Terminals -> Process]
  BY <1>1, GotoTypes DEF Types, Steps
<1>3. ShellEnv(t) \in Terminal
  BY <1>1, ShellIdTypes DEF ShellEnv, Terminal, Types
<1>4. term' \in [Terminals -> Terminal]
  BY <1>3 DEF OpenShell, Types
<1> QED BY <1>2, <1>4 DEF Types, OpenShell

\* The credentials are loaded, or the process ends.
LEMMA LoadTypes == ASSUME Types, NEW t \in Terminals, LoadCrt(t) \/ LoadKey(t) PROVE Types'
<1>1. proc[t] \in Process /\ proc[t].cmd \in Clients /\ UNCHANGED file
  BY DEF Types, LoadCrt, LoadKey
<1>2. CASE Ends(t)
  BY <1>1, <1>2, EndsTypes
<1>3. CASE LoadCrt(t) /\ ~Ends(t)
  <2>1. \/ Goto(t, "on")
        \/ Goto(t, "load key") /\ proc[t].key # NoFile
    BY <1>3 DEF LoadCrt
  <2>2. proc[t].key # NoFile => proc[t].key \in KeyFiles
    BY <1>1 DEF Process, AnyProcess, Keys
  <2>3. proc' \in [Terminals -> Process]
    BY <1>1, <2>1, <2>2, GotoTypes DEF Types, Steps
  <2> QED BY <1>3, <2>3, ProcTypes DEF LoadCrt
<1>4. CASE LoadKey(t) /\ ~Ends(t)
  <2>1. /\ file[proc[t].key] \in Names
        /\ proc' = [proc EXCEPT ![t].as = file[proc[t].key], ![t].pc = "on"]
    BY <1>4 DEF LoadKey
  <2>2. [proc[t] EXCEPT !.as = file[proc[t].key], !.pc = "on"] \in Process
    BY <1>1, <2>1 DEF Process, AnyProcess, Steps
  <2>3. proc' \in [Terminals -> Process]
    BY <2>1, <2>2 DEF Types
  <2> QED BY <1>4, <2>3, ProcTypes DEF LoadKey
<1> QED BY <1>2, <1>3, <1>4

\* A forwarder loads its credentials again.
LEMMA AcceptTypes == ASSUME Types, NEW t \in Terminals, Accept(t) PROVE Types'
<1>1. proc[t] \in Process /\ proc' = [proc EXCEPT ![t].pc = "load crt", ![t].as = NoName]
  BY DEF Types, Accept
<1>2. [proc[t] EXCEPT !.pc = "load crt", !.as = NoName] \in Process
  BY <1>1 DEF Process, AnyProcess, Steps
<1>3. proc' \in [Terminals -> Process]
  BY <1>1, <1>2 DEF Types
<1> QED BY <1>3, ProcTypes DEF Accept

\* The types hold when the windows are opened.
LEMMA InitTypes == Init => Types
<1> SUFFICES ASSUME Init PROVE Types
  OBVIOUS
<1>1. term \in [Terminals -> Terminal]
  <2>1. PICK env \in [Windows -> Envs] :
          term = [t \in Terminals |->
                   IF t \in Windows
                   THEN [open |-> TRUE, connected |-> FALSE, parent |-> NoName,
                         id |-> env[t].id, key |-> env[t].key, ssl |-> env[t].ssl]
                   ELSE Closed]
    BY DEF Init
  <2>2. \A t \in Windows : env[t].id \in Ids \cup {NoName} /\ env[t].key \in Keys /\ env[t].ssl \in BOOLEAN
    BY LaunchAssumption DEF Ids, Keys
  <2>3. ASSUME NEW t \in Windows
        PROVE  [open |-> TRUE, connected |-> FALSE, parent |-> NoName,
                id |-> env[t].id, key |-> env[t].key, ssl |-> env[t].ssl] \in Terminal
    BY <2>2 DEF Terminal
  <2> QED BY <2>1, <2>3, AtRest, LaunchAssumption
<1>2. proc \in [Terminals -> Process]
  BY AtRest DEF Init
<1>3. file \in [Files -> Names \cup {NoName, "ca", "cut"}] /\ hurt \subseteq Files
  BY DEF Init
<1> QED BY <1>1, <1>2, <1>3 DEF Types

\* Every step keeps the types.
LEMMA NextTypes == Types /\ [Next]_vars => Types'
<1> SUFFICES ASSUME Types, [Next]_vars PROVE Types'
  OBVIOUS
<1>1. ASSUME NEW t \in Terminals, Quit(t) PROVE Types'
  BY <1>1, EndsTypes DEF Quit
<1>2. CASE UNCHANGED vars
  BY <1>2 DEF vars, Types
<1> QED BY <1>1, <1>2, RunTypes, SetupTypes, PickKeyTypes, OpenShellTypes, LoadTypes, AcceptTypes
        DEF Next

-----------------------------------------------------------------------------
(* Sessions *)

\* A step of a process that is there, with the terminals as they are.
LEMMA GoesOn ==
  ASSUME Inv, NEW t \in Terminals, proc[t].cmd # "idle", term' = term,
         \A u \in Terminals : u # t => proc'[u] = proc[u],
         proc'[t].cmd = proc[t].cmd
  PROVE  (RunsInOpen /\ SessionIsTold /\ NotTold)'
<1>1. term[t].open
  BY DEF Inv, RunsInOpen, Idle
<1> QED BY <1>1 DEF Inv, RunsInOpen, SessionIsTold, NotTold

\* A step of a process that goes on leaves the others alone, and what it is itself.
LEMMA OneGoesOn ==
  ASSUME Inv, NEW t \in Terminals,
         \/ TruncateCrt(t) \/ FillCrt(t) \/ TruncateKey(t) \/ FillKey(t)
         \/ PickKey(t) \/ OpenShell(t) \/ LoadCrt(t) \/ LoadKey(t) \/ Accept(t),
         ~Ends(t)
  PROVE  /\ \A u \in Terminals : u # t => proc'[u] = proc[u]
         /\ proc'[t].cmd = proc[t].cmd /\ proc'[t].alone = proc[t].alone
<1>0. proc[t] \in AnyProcess /\ DOMAIN proc = Terminals
  BY DEF Inv, Types, Process
<1>1. CASE \E s : Goto(t, s)
  <2>1. PICK s : proc' = [proc EXCEPT ![t].pc = s]
    BY <1>1 DEF Goto
  <2> QED BY <1>0, <2>1 DEF AnyProcess
<1>2. CASE \E k, s : proc' = [proc EXCEPT ![t].key = k, ![t].pc = s]
  <2>1. PICK k, s : proc' = [proc EXCEPT ![t].key = k, ![t].pc = s]
    BY <1>2
  <2> QED BY <1>0, <2>1 DEF AnyProcess
<1>3. CASE \E a, s : proc' = [proc EXCEPT ![t].as = a, ![t].pc = s]
  <2>1. PICK a, s : proc' = [proc EXCEPT ![t].as = a, ![t].pc = s]
    BY <1>3
  <2> QED BY <1>0, <2>1 DEF AnyProcess
<1>4. CASE \E a, s : proc' = [proc EXCEPT ![t].pc = s, ![t].as = a]
  <2>1. PICK a, s : proc' = [proc EXCEPT ![t].pc = s, ![t].as = a]
    BY <1>4
  <2> QED BY <1>0, <2>1 DEF AnyProcess
<1>5. (\E s : Goto(t, s)) \/ PickKey(t) \/ LoadKey(t) \/ Accept(t)
  BY DEF TruncateCrt, FillCrt, TruncateKey, FillKey, OpenShell, LoadCrt
<1>6. \/ \E s : Goto(t, s)
      \/ \E k, s : proc' = [proc EXCEPT ![t].key = k, ![t].pc = s]
      \/ \E a, s : proc' = [proc EXCEPT ![t].as = a, ![t].pc = s]
      \/ \E a, s : proc' = [proc EXCEPT ![t].pc = s, ![t].as = a]
  BY <1>5 DEF PickKey, LoadKey, Accept
<1> QED BY <1>1, <1>2, <1>3, <1>4, <1>6

\* The end of a process closes the terminals it has opened.
LEMMA EndsSessions ==
  ASSUME Inv, NEW t \in Terminals, Ends(t)
  PROVE  (RunsInOpen /\ SessionIsTold /\ NotTold)'
<1>1. /\ proc' = [u \in Terminals |-> IF u \in Ending(t) THEN Idle ELSE proc[u]]
      /\ term' = [u \in Terminals |-> IF u \in Inner(t) THEN Closed ELSE term[u]]
      /\ Inner(t) \subseteq Ending(t)
  BY DEF Ends, Ending
<1>2. RunsInOpen'
  BY <1>1 DEF Inv, RunsInOpen
<1>3. SessionIsTold'
  BY <1>1 DEF Inv, SessionIsTold, Closed
<1>4. NotTold'
  BY <1>1 DEF Inv, NotTold, Idle
<1> QED BY <1>2, <1>3, <1>4

\* Every step keeps sessions out of sessions.
LEMMA NextSessions == Inv /\ [Next]_vars => (RunsInOpen /\ SessionIsTold /\ NotTold)'
<1> SUFFICES ASSUME Inv, [Next]_vars PROVE (RunsInOpen /\ SessionIsTold /\ NotTold)'
  OBVIOUS
<1>0. \A u \in Terminals : proc[u] \in AnyProcess
  BY DEF Inv, Types, Process
<1>1. ASSUME NEW t \in Terminals, NEW cmd \in Clients \cup {"setup"}, NEW arg, Run(t, cmd, arg)
      PROVE  (RunsInOpen /\ SessionIsTold /\ NotTold)'
  <2>1. term[t].open /\ term' = term /\ (cmd = "connect" => ~term[t].connected)
    BY <1>1 DEF Run, MayRun
  <2>2. proc'[t].cmd = cmd
    BY <1>1 DEF Run
  <2>3. ASSUME NEW u \in Terminals, u # t
        PROVE  proc'[u] = proc[u] \/ (proc[u].cmd = "setup" /\ proc'[u] = [proc[u] EXCEPT !.alone = FALSE])
    BY <1>1, <2>3 DEF Run
  <2>4. \A u \in Terminals : u # t => proc'[u].cmd = proc[u].cmd /\ (proc'[u] # Idle => proc[u] # Idle)
    <3> SUFFICES ASSUME NEW u \in Terminals, u # t
                 PROVE  proc'[u].cmd = proc[u].cmd /\ (proc'[u] # Idle => proc[u] # Idle)
      OBVIOUS
    <3>1. CASE proc'[u] = proc[u]
      BY <3>1
    <3>2. CASE proc[u].cmd = "setup" /\ proc'[u] = [proc[u] EXCEPT !.alone = FALSE]
      <4>1. proc[u] # Idle
        BY <3>2 DEF Idle
      <4>2. [proc[u] EXCEPT !.alone = FALSE].cmd = proc[u].cmd
        BY <1>0 DEF AnyProcess
      <4> QED BY <3>2, <4>1, <4>2
    <3> QED BY <2>3, <3>1, <3>2
  <2> QED BY <2>1, <2>2, <2>4 DEF Inv, RunsInOpen, SessionIsTold, NotTold
<1>2. ASSUME NEW t \in Terminals,
             \/ TruncateCrt(t) \/ FillCrt(t) \/ TruncateKey(t) \/ FillKey(t)
             \/ PickKey(t) \/ LoadCrt(t) \/ LoadKey(t) \/ Accept(t),
             ~Ends(t)
      PROVE  (RunsInOpen /\ SessionIsTold /\ NotTold)'
  <2>1. proc[t].cmd # "idle" /\ term' = term
    BY <1>2 DEF TruncateCrt, FillCrt, TruncateKey, FillKey, PickKey, LoadCrt, LoadKey, Accept, Is, Clients
  <2> QED BY <1>2, <2>1, OneGoesOn, GoesOn
<1>3. ASSUME NEW t \in Terminals, OpenShell(t) PROVE (RunsInOpen /\ SessionIsTold /\ NotTold)'
  <2>1. PICK u \in Terminals : ~term[u].open /\ term' = [term EXCEPT ![u] = ShellEnv(t)]
    BY <1>3 DEF OpenShell
  <2>2. proc[t].cmd = "connect" /\ Goto(t, "load crt")
    BY <1>3 DEF OpenShell, Is
  <2>3. proc[u] = Idle /\ proc[u].cmd = "idle"
    <3>1. proc[u] = Idle
      BY <2>1 DEF Inv, RunsInOpen
    <3> QED BY <3>1 DEF Idle
  <2>4. t # u /\ term[t].open
    BY <2>2, <2>3 DEF Inv, RunsInOpen
  <2>5. proc'[t].cmd = proc[t].cmd /\ \A v \in Terminals : v # t => proc'[v] = proc[v]
    BY <1>0, <2>2 DEF Goto, Inv, Types, AnyProcess
  <2>6. /\ term'[u].open /\ term'[u].connected
        /\ \A v \in Terminals : v # u => term'[v] = term[v]
    BY <2>1 DEF ShellEnv, Inv, Types
  <2> QED BY <2>3, <2>4, <2>5, <2>6 DEF Inv, RunsInOpen, SessionIsTold, NotTold
<1>4. ASSUME NEW t \in Terminals, Ends(t) PROVE (RunsInOpen /\ SessionIsTold /\ NotTold)'
  BY <1>4, EndsSessions
<1>5. CASE UNCHANGED vars
  BY <1>5 DEF vars, Inv, RunsInOpen, SessionIsTold, NotTold
<1> QED BY <1>1, <1>2, <1>3, <1>4, <1>5 DEF Next, Quit

-----------------------------------------------------------------------------
(* Setups *)

\* A setup that is alone was alone before, at the same step or the one before,
\* or has just begun.
LEMMA AloneSteps ==
  ASSUME Inv, AloneIsAlone, [Next]_vars
  PROVE  AloneIsAlone'
<1>0. \A u \in Terminals : proc[u] \in AnyProcess
  BY DEF Inv, Types, Process
<1>1. ASSUME NEW t \in Terminals, NEW cmd \in Clients \cup {"setup"}, NEW arg, Run(t, cmd, arg)
      PROVE  AloneIsAlone'
  <2>1. /\ proc'[t].cmd = cmd /\ proc[t] = Idle
        /\ proc'[t].alone = (cmd = "setup" => \A v \in Terminals : proc[v].cmd # "setup")
    BY <1>1 DEF Run
  <2>2. \A u \in Terminals : u # t =>
          proc'[u] = IF cmd = "setup" /\ proc[u].cmd = "setup" THEN [proc[u] EXCEPT !.alone = FALSE] ELSE proc[u]
    BY <1>1 DEF Run
  <2>3. \A u \in Terminals : /\ [proc[u] EXCEPT !.alone = FALSE].cmd = proc[u].cmd
                             /\ [proc[u] EXCEPT !.alone = FALSE].alone = FALSE
    BY <1>0 DEF AnyProcess
  <2>4. \A u \in Terminals : u # t => proc'[u].cmd = proc[u].cmd
    BY <2>2, <2>3
  <2>5. CASE cmd = "setup"
    <3>1. \A u \in Terminals : (u # t /\ proc'[u].cmd = "setup") => ~proc'[u].alone
      BY <2>2, <2>3, <2>5
    <3>2. \A u \in Terminals : (u # t /\ proc'[u].cmd = "setup") => ~proc'[t].alone
      BY <2>1, <2>4, <2>5
    <3> QED BY <3>1, <3>2 DEF AloneIsAlone, Alone
  <2>6. CASE cmd # "setup"
    <3>1. \A u \in Terminals : u # t => proc'[u] = proc[u]
      BY <2>2, <2>6
    <3>2. proc'[t].cmd # "setup"
      BY <2>1, <2>6
    <3> QED BY <3>1, <3>2 DEF AloneIsAlone, Alone
  <2> QED BY <2>5, <2>6
<1>2. ASSUME NEW t \in Terminals,
             \/ TruncateCrt(t) \/ FillCrt(t) \/ TruncateKey(t) \/ FillKey(t)
             \/ PickKey(t) \/ OpenShell(t) \/ LoadCrt(t) \/ LoadKey(t) \/ Accept(t),
             ~Ends(t)
      PROVE  AloneIsAlone'
  BY <1>2, OneGoesOn DEF AloneIsAlone, Alone
<1>3. ASSUME NEW t \in Terminals, Ends(t) PROVE AloneIsAlone'
  BY <1>3 DEF Ends, AloneIsAlone, Alone, Idle
<1>4. CASE UNCHANGED vars
  BY <1>4 DEF vars, AloneIsAlone, Alone
<1> QED BY <1>1, <1>2, <1>3, <1>4 DEF Next, Quit

\* A setup that is alone writes the files, and nobody else does.
LEMMA ProgressSteps ==
  ASSUME Inv, AloneIsAlone, Progress, [Next]_vars
  PROVE  Progress'
<1>0. \A u \in Terminals : proc[u] \in AnyProcess
  BY DEF Inv, Types, Process
<1>k. \A u \in Terminals : proc[u].cmd = "setup" =>
        proc[u].key \in Files /\ proc[u].key # Crt /\ proc[u].name \in Names
  BY LaunchAssumption DEF Inv, Types, Process, Files
<1>1. ASSUME NEW t \in Terminals, NEW cmd \in Clients \cup {"setup"}, NEW arg, Run(t, cmd, arg)
      PROVE  Progress'
  <2>1. /\ proc'[t].cmd = cmd /\ file' = file
        /\ cmd = "setup" => proc'[t].pc = "ask"
    BY <1>1 DEF Run, FirstStep
  <2>2. \A u \in Terminals : u # t =>
          proc'[u] = IF cmd = "setup" /\ proc[u].cmd = "setup" THEN [proc[u] EXCEPT !.alone = FALSE] ELSE proc[u]
    BY <1>1 DEF Run
  <2>3. \A u \in Terminals : ~[proc[u] EXCEPT !.alone = FALSE].alone
    BY <1>0 DEF AnyProcess
  <2>4. \A u \in Terminals : u # t => proc'[u] = proc[u] \/ ~proc'[u].alone
    BY <2>2, <2>3
  <2> QED BY <2>1, <2>4 DEF Progress, Alone
<1>2. ASSUME NEW t \in Terminals, TruncateCrt(t) \/ FillCrt(t) \/ TruncateKey(t) \/ FillKey(t)
      PROVE  Progress'
  <2>1. proc[t].cmd = "setup"
    BY <1>2 DEF TruncateCrt, FillCrt, TruncateKey, FillKey, Is
  <2>2. PICK s : proc' = [proc EXCEPT ![t].pc = s]
    BY <1>2 DEF TruncateCrt, FillCrt, TruncateKey, FillKey, Goto
  <2>3. /\ \A u \in Terminals : u # t => proc'[u] = proc[u]
        /\ proc'[t].cmd = proc[t].cmd /\ proc'[t].alone = proc[t].alone
        /\ proc'[t].key = proc[t].key /\ proc'[t].name = proc[t].name /\ proc'[t].pc = s
    BY <1>0, <2>2 DEF Inv, Types, AnyProcess
  <2>4. \A u \in Terminals : u # t => ~Alone(u)'
    BY <2>1, <2>3 DEF AloneIsAlone, Alone
  <2>5. SUFFICES ASSUME Alone(t)
                 PROVE  /\ s \in {"crt written", "key", "done"} => file'[Crt] = "ca"
                        /\ s = "key"  => file'[proc[t].key] = "cut"
                        /\ s = "done" => file'[proc[t].key] = proc[t].name
    BY <2>3, <2>4 DEF Progress, Alone
  <2>6. proc[t].key \in Files /\ proc[t].key # Crt /\ proc[t].name \in Names /\ Crt \in Files
        /\ file \in [Files -> Names \cup {NoName, "ca", "cut"}]
    BY <1>k, <2>1 DEF Inv, Types, Files
  <2>s. \A p \in {"crt", "crt written", "key", "done"} : Goto(t, p) => s = p
    BY <2>3, <1>0 DEF Goto, Inv, Types, AnyProcess
  <2>7. CASE TruncateCrt(t)
    BY <2>7, <2>s DEF TruncateCrt
  <2>8. CASE FillCrt(t)
    BY <2>6, <2>8, <2>s DEF FillCrt
  <2>9. CASE TruncateKey(t)
    BY <2>5, <2>6, <2>9, <2>s DEF TruncateKey, Is, Progress
  <2>10. CASE FillKey(t)
    <3>1. file[proc[t].key] = "cut" /\ file[Crt] = "ca"
      BY <2>5, <2>10 DEF FillKey, Is, Progress
    <3>2. file' = [file EXCEPT ![proc[t].key] = proc[t].name]
      BY <2>10, <3>1, LaunchAssumption DEF FillKey
    <3> QED BY <2>6, <2>10, <2>s, <3>1, <3>2 DEF FillKey
  <2> QED BY <1>2, <2>7, <2>8, <2>9, <2>10
<1>3. ASSUME NEW t \in Terminals,
             PickKey(t) \/ OpenShell(t) \/ LoadCrt(t) \/ LoadKey(t) \/ Accept(t),
             ~Ends(t)
      PROVE  Progress'
  <2>1. proc[t].cmd # "setup" /\ file' = file
    BY <1>3 DEF PickKey, OpenShell, LoadCrt, LoadKey, Accept, Is, Clients
  <2> QED BY <1>3, <2>1, OneGoesOn DEF Progress, Alone
<1>4. ASSUME NEW t \in Terminals, Ends(t), UNCHANGED file PROVE Progress'
  BY <1>4 DEF Ends, Progress, Alone, Idle
<1>5. CASE UNCHANGED vars
  BY <1>5 DEF vars, Progress, Alone
<1>6. ASSUME NEW t \in Terminals,
             PickKey(t) \/ OpenShell(t) \/ LoadCrt(t) \/ LoadKey(t) \/ Accept(t) \/ Quit(t)
      PROVE  Progress'
  <2>1. UNCHANGED file /\ (Quit(t) => Ends(t))
    BY <1>6 DEF PickKey, OpenShell, LoadCrt, LoadKey, Accept, Quit
  <2> QED BY <1>3, <1>4, <1>6, <2>1
<1>7. CASE Next
  <2>1. PICK t \in Terminals :
          \/ \E cmd \in Clients \cup {"setup"}, arg \in Names \cup {NoName} : Run(t, cmd, arg)
          \/ TruncateCrt(t) \/ FillCrt(t) \/ TruncateKey(t) \/ FillKey(t)
          \/ PickKey(t) \/ OpenShell(t) \/ LoadCrt(t) \/ LoadKey(t) \/ Accept(t) \/ Quit(t)
    BY <1>7 DEF Next
  <2> QED BY <1>1, <1>2, <1>6, <2>1
<1> QED BY <1>5, <1>7

\* What holds of setups holds at first.
LEMMA InitSetups == Init => AloneIsAlone /\ Progress
<1>1. ASSUME Init, NEW t \in Terminals PROVE proc[t].cmd # "setup"
  BY <1>1 DEF Init, Idle
<1>2. ASSUME Init, NEW t \in Terminals PROVE ~Alone(t)
  BY <1>1, <1>2 DEF Alone
<1> QED BY <1>2 DEF AloneIsAlone, Progress

-----------------------------------------------------------------------------
(* Cut files *)

\* A terminal that a session has opened has the session's key variable, and the
\* session is in a window.
Inherits ==
  \A t \in Terminals :
    /\ ~term[t].open => term[t] = Closed
    /\ (term[t].open /\ term[t].parent # NoName) =>
         /\ term[term[t].parent].open /\ term[term[t].parent].parent = NoName
         /\ term[t].key = term[term[t].parent].key

KeyUnset == \A t \in Terminals : term[t].key = NoFile

\* Setups write the files of their names.
OwnFiles == \A t \in Terminals : proc[t].cmd = "setup" => proc[t].key = KeyFile[proc[t].name]

\* A key that is being written is empty, or another setup of the name has just
\* filled it.
Filling == \A t \in Terminals : Is(t, "setup", "key") => file[proc[t].key] \in {"cut", proc[t].name}

Excused(f) == f \in hurt \/ \E t \in Terminals : f \in Writes(proc[t])

CutInv == Inherits /\ (KeyUnset => OwnFiles /\ Filling /\ CutOnlyInWriting)

\* It holds at first.
LEMMA InitCut == Init => CutInv
<1> SUFFICES ASSUME Init PROVE CutInv
  OBVIOUS
<1>1. ASSUME NEW t \in Terminals
      PROVE  (~term[t].open => term[t] = Closed) /\ term[t].parent = NoName
  BY DEF Init, Closed
<1>2. Inherits
  BY <1>1 DEF Inherits
<1>3. \A t \in Terminals : proc[t].cmd # "setup"
  BY DEF Init, Idle
<1>4. \A f \in Files : file[f] # "cut"
  <2>1. file \in [Files -> Names \cup {NoName, "ca"}]
    BY DEF Init
  <2> QED BY <2>1, LaunchAssumption DEF NoName
<1> QED BY <1>2, <1>3, <1>4 DEF CutInv, OwnFiles, Filling, Is, CutOnlyInWriting

\* Every step keeps what terminals inherit, and no terminal with a key variable
\* is closed while its window, which has it too, is open.
LEMMA InheritsStep ==
  ASSUME Inv, Inherits, [Next]_vars
  PROVE  Inherits' /\ (KeyUnset' => KeyUnset)
<1>1. CASE term' = term
  BY <1>1 DEF Inherits, KeyUnset
<1>2. ASSUME NEW t \in Terminals, OpenShell(t) PROVE Inherits' /\ (KeyUnset' => KeyUnset)
  <2>1. PICK u \in Terminals : ~term[u].open /\ term' = [term EXCEPT ![u] = ShellEnv(t)]
    BY <1>2 DEF OpenShell
  <2>2. proc[t].cmd = "connect"
    BY <1>2 DEF OpenShell, Is
  <2>3. term[t].open /\ term[t].parent = NoName
    BY <2>2 DEF Inv, RunsInOpen, SessionIsTold, NotTold, Idle
  <2>4. /\ term'[u].parent = t /\ term'[u].key = term[t].key /\ term'[u].open /\ t # u
        /\ \A v \in Terminals : v # u => term'[v] = term[v]
    BY <2>1, <2>3 DEF ShellEnv, Inv, Types
  <2>5. \A v \in Terminals : term[v].parent \in Terminals \cup {NoName}
    BY DEF Inv, Types, Terminal
  <2>6. \A v \in Terminals : (term[v].open /\ term[v].parent # NoName) => term[v].parent # u
    BY <2>1 DEF Inherits
  <2>7. Inherits'
    BY <2>1, <2>3, <2>4, <2>5, <2>6 DEF Inherits
  <2>8. term[u].key = NoFile
    BY <2>1 DEF Inherits, Closed
  <2> QED BY <2>4, <2>7, <2>8 DEF KeyUnset
<1>3. ASSUME NEW t \in Terminals, Ends(t) PROVE Inherits' /\ (KeyUnset' => KeyUnset)
  <2>1. term' = [u \in Terminals |-> IF u \in Inner(t) THEN Closed ELSE term[u]]
    BY <1>3 DEF Ends
  <2>2. t # NoName /\ \A v \in Terminals : term[v].parent \in Terminals \cup {NoName}
    BY LaunchAssumption DEF Inv, Types, Terminal
  <2>3. \A v \in Terminals : (term[v].open /\ term[v].parent # NoName) => term[v].parent \notin Inner(t)
    BY <2>2 DEF Inherits, Inner
  <2>4. Inherits'
    <3> SUFFICES ASSUME NEW v \in Terminals
                 PROVE  /\ ~term'[v].open => term'[v] = Closed
                        /\ (term'[v].open /\ term'[v].parent # NoName) =>
                             /\ term'[term'[v].parent].open /\ term'[term'[v].parent].parent = NoName
                             /\ term'[v].key = term'[term'[v].parent].key
      BY DEF Inherits, Closed
    <3>1. CASE v \in Inner(t)
      BY <2>1, <3>1 DEF Closed
    <3>2. CASE v \notin Inner(t)
      <4>1. term'[v] = term[v]
        BY <2>1, <3>2
      <4>2. ASSUME term[v].open, term[v].parent # NoName
            PROVE  term'[term[v].parent] = term[term[v].parent]
        BY <2>1, <2>2, <2>3, <4>2
      <4> QED BY <4>1, <4>2 DEF Inherits
    <3> QED BY <3>1, <3>2
  <2>5. ASSUME KeyUnset', NEW v \in Terminals PROVE term[v].key = NoFile
    <3>1. CASE v \notin Inner(t)
      BY <2>1, <2>5, <3>1 DEF KeyUnset
    <3>2. CASE v \in Inner(t)
      <4>1. term[v].open /\ term[v].parent = t
        BY <3>2 DEF Inner
      <4>2. t \notin Inner(t)
        BY <2>2, <2>3, <4>1
      <4>3. term'[t] = term[t] /\ term'[t].key = NoFile
        BY <2>1, <2>5, <4>2 DEF KeyUnset
      <4> QED BY <2>2, <4>1, <4>3 DEF Inherits
    <3> QED BY <3>1, <3>2
  <2> QED BY <2>4, <2>5 DEF KeyUnset
<1>4. \/ term' = term
      \/ \E t \in Terminals : OpenShell(t) \/ Ends(t)
  BY DEF Next, Run, TruncateCrt, FillCrt, TruncateKey, FillKey, PickKey, LoadCrt, LoadKey, Accept, Quit, vars
<1> QED BY <1>1, <1>2, <1>3, <1>4

\* Every step keeps cut files to those that are being written, or whose setup was
\* ended while it wrote them.
LEMMA CutStep ==
  ASSUME Inv, CutInv, [Next]_vars
  PROVE  CutInv'
<1>1. Inherits' /\ (KeyUnset' => KeyUnset)
  BY InheritsStep DEF CutInv
<1>2. SUFFICES ASSUME KeyUnset PROVE (OwnFiles /\ Filling /\ CutOnlyInWriting)'
  BY <1>1 DEF CutInv
<1>3. OwnFiles /\ Filling /\ \A f \in Files : file[f] = "cut" => Excused(f)
  BY <1>2 DEF CutInv, KeyUnset, CutOnlyInWriting, Excused
<1>4. SUFFICES (OwnFiles /\ Filling)' /\ \A f \in Files : file'[f] = "cut" => Excused(f)'
  BY DEF CutOnlyInWriting, Excused
<1>p. \A t \in Terminals : proc[t] \in AnyProcess /\ proc[t] \in Process
  BY DEF Inv, Types, Process
<1>w. \A t \in Terminals : proc[t].cmd # "setup" => Writes(proc[t]) = {}
  BY <1>p DEF Process, Writes
<1>k. \A t \in Terminals : proc[t].cmd = "setup" =>
        proc[t].key \in Files /\ proc[t].key # Crt /\ proc[t].name \in Names
  BY <1>p, LaunchAssumption DEF Process, Files
<1>5. ASSUME NEW t \in Terminals, NEW cmd \in Clients \cup {"setup"}, NEW arg \in Names \cup {NoName},
             Run(t, cmd, arg)
      PROVE  (OwnFiles /\ Filling)' /\ \A f \in Files : file'[f] = "cut" => Excused(f)'
  <2>1. /\ UNCHANGED <<file, hurt>> /\ proc[t] = Idle
        /\ proc'[t].cmd = cmd /\ proc'[t].name = Name(term[t], cmd, arg)
        /\ proc'[t].key = Key(term[t], cmd, arg)
        /\ cmd = "setup" => proc'[t].pc = "ask" /\ arg # NoName
    BY <1>5 DEF Run, FirstStep, MayRun, NeedsArg
  <2>2. \A u \in Terminals : u # t =>
          proc'[u] = IF cmd = "setup" /\ proc[u].cmd = "setup" THEN [proc[u] EXCEPT !.alone = FALSE] ELSE proc[u]
    BY <1>5 DEF Run
  <2>3. \A u \in Terminals : LET q == [proc[u] EXCEPT !.alone = FALSE] IN
          q.cmd = proc[u].cmd /\ q.pc = proc[u].pc /\ q.key = proc[u].key /\ q.name = proc[u].name
    BY <1>p DEF AnyProcess
  <2>4. \A u \in Terminals : u # t =>
          /\ proc'[u].cmd = proc[u].cmd /\ proc'[u].pc = proc[u].pc
          /\ proc'[u].key = proc[u].key /\ proc'[u].name = proc[u].name
    BY <2>2, <2>3
  <2>5. cmd = "setup" => proc'[t].key = KeyFile[proc'[t].name]
    <3>1. term[t].key = NoFile
      BY <1>2 DEF KeyUnset
    <3> QED BY <2>1, <3>1 DEF Name, KeyPath, Key
  <2>6. OwnFiles'
    BY <1>3, <2>1, <2>4, <2>5 DEF OwnFiles
  <2>7. Filling'
    BY <1>3, <2>1, <2>4 DEF Filling, Is
  <2>8. \A u \in Terminals : Writes(proc[u]) \subseteq Writes(proc'[u])
    <3>1. Writes(proc[t]) = {}
      BY <2>1 DEF Writes, Idle
    <3>2. \A u \in Terminals : u # t => Writes(proc[u]) = Writes(proc'[u])
      BY <2>4 DEF Writes
    <3> QED BY <3>1, <3>2
  <2> QED BY <1>3, <2>1, <2>6, <2>7, <2>8 DEF Excused
<1>6. ASSUME NEW t \in Terminals, TruncateCrt(t) \/ FillCrt(t) \/ TruncateKey(t) \/ FillKey(t)
      PROVE  (OwnFiles /\ Filling)' /\ \A f \in Files : file'[f] = "cut" => Excused(f)'
  <2> DEFINE key == proc[t].key
  <2>1. proc[t].cmd = "setup" /\ hurt' = hurt
    BY <1>6 DEF TruncateCrt, FillCrt, TruncateKey, FillKey, Is
  <2>2. PICK s : proc' = [proc EXCEPT ![t].pc = s]
    BY <1>6 DEF TruncateCrt, FillCrt, TruncateKey, FillKey, Goto
  <2>3. /\ \A u \in Terminals : u # t => proc'[u] = proc[u]
        /\ proc'[t].cmd = proc[t].cmd /\ proc'[t].key = proc[t].key /\ proc'[t].name = proc[t].name
        /\ proc'[t].pc = s
    BY <1>p, <2>2 DEF Inv, Types, AnyProcess
  <2>4. OwnFiles'
    BY <1>3, <2>3 DEF OwnFiles
  <2>s. \A q \in {"crt", "crt written", "key", "done"} : Goto(t, q) => s = q
    BY <1>p, <2>3 DEF Goto, Inv, Types, AnyProcess
  <2>5. /\ key \in Files /\ key # Crt /\ proc[t].name \in Names /\ Crt \in Files
        /\ file \in [Files -> Names \cup {NoName, "ca", "cut"}]
    BY <1>k, <2>1 DEF Inv, Types, Files
  <2>6. \A u \in Terminals : u # t => Writes(proc'[u]) = Writes(proc[u])
    BY <2>3
  <2>7. CASE TruncateCrt(t)
    <3>1. s = "crt" /\ proc[t].pc = "ask" /\ file' = [file EXCEPT ![Crt] = "cut"]
      BY <2>7, <2>s DEF TruncateCrt, Is
    <3>2. Filling'
      BY <1>3, <1>k, <2>3, <2>5, <3>1 DEF Filling, Is
    <3>3. Writes(proc[t]) = {} /\ Writes(proc'[t]) = {Crt}
      BY <2>3, <3>1 DEF Writes
    <3>4. \A f \in Files : Excused(f) => Excused(f)'
      BY <2>1, <2>6, <3>3 DEF Excused
    <3>5. Excused(Crt)'
      BY <3>3 DEF Excused
    <3> QED BY <1>3, <2>4, <2>5, <3>1, <3>2, <3>4, <3>5
  <2>8. CASE FillCrt(t)
    <3>1. s = "crt written" /\ proc[t].pc = "crt" /\ file' = [file EXCEPT ![Crt] = "ca"]
      BY <2>8, <2>s DEF FillCrt, Is
    <3>2. Filling'
      BY <1>3, <1>k, <2>3, <2>5, <3>1 DEF Filling, Is
    <3>3. Writes(proc[t]) = {Crt}
      BY <3>1 DEF Writes
    <3>4. \A f \in Files : (f # Crt /\ Excused(f)) => Excused(f)'
      BY <2>1, <2>6, <3>3 DEF Excused
    <3> QED BY <1>3, <2>4, <2>5, <3>1, <3>2, <3>4
  <2>9. CASE TruncateKey(t)
    <3>1. s = "key" /\ proc[t].pc = "crt written" /\ file' = [file EXCEPT ![key] = "cut"]
      BY <2>9, <2>s DEF TruncateKey, Is
    <3>2. Filling'
      BY <1>3, <1>k, <2>3, <2>5, <3>1 DEF Filling, Is
    <3>3. Writes(proc[t]) = {} /\ Writes(proc'[t]) = {key}
      BY <2>3, <3>1 DEF Writes
    <3>4. \A f \in Files : Excused(f) => Excused(f)'
      BY <2>1, <2>6, <3>3 DEF Excused
    <3>5. \A f \in Files : f = key => Excused(f)'
      BY <3>3 DEF Excused
    <3> QED BY <1>3, <2>4, <2>5, <3>1, <3>2, <3>4, <3>5
  <2>10. CASE FillKey(t)
    <3>1. s = "done" /\ Is(t, "setup", "key")
      BY <2>10, <2>s DEF FillKey
    <3>2. file[key] \in {"cut", proc[t].name}
      BY <1>3, <3>1 DEF Filling
    <3>3. file' = [file EXCEPT ![key] = proc[t].name]
      BY <2>10, <3>2, LaunchAssumption DEF FillKey
    <3>4. Filling'
      <4> SUFFICES ASSUME NEW u \in Terminals, Is(u, "setup", "key")'
                   PROVE  file'[proc'[u].key] \in {"cut", proc'[u].name}
        BY DEF Filling
      <4>1. u # t /\ proc'[u] = proc[u]
        BY <2>3, <3>1 DEF Is
      <4>2. CASE proc[u].key # key
        BY <1>3, <1>k, <2>5, <3>3, <4>1, <4>2 DEF Filling, Is
      <4>3. CASE proc[u].key = key
        <5>1. proc[u].name = proc[t].name
          BY <1>3, <1>k, <2>1, <4>1, <4>3, LaunchAssumption DEF OwnFiles, Is
        <5> QED BY <2>5, <3>3, <4>1, <4>3, <5>1
      <4> QED BY <4>2, <4>3
    <3>5. Writes(proc[t]) = {key}
      BY <3>1 DEF Writes, Is
    <3>6. \A f \in Files : (f # key /\ Excused(f)) => Excused(f)'
      BY <2>1, <2>6, <3>5 DEF Excused
    <3>7. proc[t].name # "cut"
      BY <2>5, LaunchAssumption
    <3> QED BY <1>3, <2>4, <2>5, <3>3, <3>4, <3>6, <3>7
  <2> QED BY <1>6, <2>7, <2>8, <2>9, <2>10
<1>7. ASSUME NEW t \in Terminals,
             PickKey(t) \/ OpenShell(t) \/ LoadCrt(t) \/ LoadKey(t) \/ Accept(t),
             ~Ends(t)
      PROVE  (OwnFiles /\ Filling)' /\ \A f \in Files : file'[f] = "cut" => Excused(f)'
  <2>1. proc[t].cmd # "setup" /\ UNCHANGED <<file, hurt>>
    BY <1>7 DEF PickKey, OpenShell, LoadCrt, LoadKey, Accept, Is, Clients
  <2>2. proc'[t].cmd # "setup" /\ \A u \in Terminals : u # t => proc'[u] = proc[u]
    BY <1>7, <2>1, OneGoesOn
  <2>3. \A f \in Files : Excused(f) => Excused(f)'
    BY <1>w, <2>1, <2>2 DEF Excused
  <2> QED BY <1>3, <2>1, <2>2, <2>3 DEF OwnFiles, Filling, Is
<1>8. ASSUME NEW t \in Terminals, Ends(t), UNCHANGED file
      PROVE  (OwnFiles /\ Filling)' /\ \A f \in Files : file'[f] = "cut" => Excused(f)'
  <2>1. /\ proc' = [u \in Terminals |-> IF u \in Ending(t) THEN Idle ELSE proc[u]]
        /\ hurt' = hurt \cup UNION {Writes(proc[u]) : u \in Ending(t)}
    BY <1>8 DEF Ends
  <2>2. \A u \in Terminals : proc'[u].cmd = "setup" => proc'[u] = proc[u]
    BY <2>1 DEF Idle
  <2>3. \A f \in Files : Excused(f) => Excused(f)'
    BY <2>1 DEF Excused
  <2> QED BY <1>3, <1>8, <2>2, <2>3 DEF OwnFiles, Filling, Is
<1>9. CASE UNCHANGED vars
  BY <1>3, <1>9 DEF vars, OwnFiles, Filling, Is, Excused
<1>10. CASE Next
  <2>1. PICK t \in Terminals :
          \/ \E cmd \in Clients \cup {"setup"}, arg \in Names \cup {NoName} : Run(t, cmd, arg)
          \/ TruncateCrt(t) \/ FillCrt(t) \/ TruncateKey(t) \/ FillKey(t)
          \/ PickKey(t) \/ OpenShell(t) \/ LoadCrt(t) \/ LoadKey(t) \/ Accept(t) \/ Quit(t)
    BY <1>10 DEF Next
  <2>2. (PickKey(t) \/ OpenShell(t) \/ LoadCrt(t) \/ LoadKey(t) \/ Accept(t) \/ Quit(t)) =>
          UNCHANGED file /\ (Quit(t) => Ends(t))
    BY DEF PickKey, OpenShell, LoadCrt, LoadKey, Accept, Quit
  <2> QED BY <1>5, <1>6, <1>7, <1>8, <2>1, <2>2
<1> QED BY <1>9, <1>10

-----------------------------------------------------------------------------
(* Own keys *)

\* Who has a name has the file of it for a key.
KeyOfName ==
  \A t \in Terminals :
    /\ (proc[t].cmd # "idle" /\ proc[t].name # NoName) => proc[t].key = KeyFile[proc[t].name]
    /\ proc[t].pc = "pick" => proc[t].key = NoFile

\* A key is in the file of its name, or in a backup.
KeyInPlace == \A k \in KeyFiles : (file[k] \in Names /\ ~Backup(k)) => file[k] = Stem[k]

\* Who is connected holds its own key.
HasOwn(p) == (p.cmd \in Clients /\ p.pc = "on" /\ ~Backup(p.key)) => p.as = ShellId(p)
HoldOwn   == \A t \in Terminals : term[t].ssl => HasOwn(proc[t])

OwnInv == KeyUnset => KeyOfName /\ KeyInPlace /\ HoldOwn

\* It holds at first.
LEMMA InitOwn == Init => OwnInv
<1> SUFFICES ASSUME Init PROVE OwnInv
  OBVIOUS
<1>1. \A t \in Terminals : proc[t].cmd = "idle" /\ proc[t].pc = "idle" /\ proc[t].key = NoFile
  BY DEF Init, Idle
<1>2. KeyInPlace
  <2> SUFFICES ASSUME NEW k \in KeyFiles, file[k] \in Names, ~Backup(k) PROVE file[k] = Stem[k]
    BY DEF KeyInPlace
  <2>1. file[k] \in Owners[k]
    BY LaunchAssumption DEF Init
  <2>2. KeyFile[Stem[k]] = k /\ Stem[k] \in DOMAIN KeyFile
    BY LaunchAssumption DEF Backup
  <2> QED BY <2>1, <2>2, LaunchAssumption
<1> QED BY <1>1, <1>2 DEF OwnInv, KeyOfName, HoldOwn, HasOwn, Clients

\* A key that is loaded under the right name, or picked, is its owner's.
LEMMA LoadedOwn ==
  ASSUME NEW p \in Process, p.key \in KeyFiles, p.name # NoName => p.key = KeyFile[p.name]
  PROVE  ShellId(p) = Stem[p.key]
<1>1. CASE p.name = NoName
  <2>1. p.key # NoFile
    BY LaunchAssumption
  <2> QED BY <1>1, <2>1 DEF ShellId
<1>2. CASE p.name # NoName
  <2>1. p.name \in DOMAIN KeyFile
    BY <1>2 DEF Process, AnyProcess, Ids
  <2>2. Stem[KeyFile[p.name]] = p.name
    BY <2>1, LaunchAssumption
  <2> QED BY <1>2, <2>2 DEF ShellId
<1> QED BY <1>1, <1>2

\* Every step keeps keys with their owners.
LEMMA OwnStep ==
  ASSUME Inv, CutInv, OwnInv, [Next]_vars
  PROVE  OwnInv'
<1>1. KeyUnset' => KeyUnset
  BY InheritsStep DEF CutInv
<1>2. SUFFICES ASSUME KeyUnset PROVE (KeyOfName /\ KeyInPlace /\ HoldOwn)'
  BY <1>1 DEF OwnInv
<1>3. KeyOfName /\ KeyInPlace /\ HoldOwn /\ OwnFiles
  BY <1>2 DEF OwnInv, CutInv
<1>p. \A t \in Terminals : proc[t] \in AnyProcess /\ proc[t] \in Process
  BY DEF Inv, Types, Process
<1>4. ASSUME NEW t \in Terminals, NEW cmd \in Clients \cup {"setup"}, NEW arg \in Names \cup {NoName},
             Run(t, cmd, arg)
      PROVE  (KeyOfName /\ KeyInPlace /\ HoldOwn)'
  <2>1. /\ UNCHANGED <<term, file>>
        /\ proc'[t].cmd = cmd /\ proc'[t].name = Name(term[t], cmd, arg)
        /\ proc'[t].key = Key(term[t], cmd, arg) /\ proc'[t].pc = FirstStep(cmd, proc'[t].key)
    BY <1>4 DEF Run
  <2>2. \A u \in Terminals : u # t =>
          proc'[u] = IF cmd = "setup" /\ proc[u].cmd = "setup" THEN [proc[u] EXCEPT !.alone = FALSE] ELSE proc[u]
    BY <1>4 DEF Run
  <2>3. \A u \in Terminals : LET q == [proc[u] EXCEPT !.alone = FALSE] IN
          /\ q.cmd = proc[u].cmd /\ q.pc = proc[u].pc /\ q.key = proc[u].key /\ q.name = proc[u].name
          /\ q.as = proc[u].as
    BY <1>p DEF AnyProcess
  <2>4. \A u \in Terminals : u # t =>
          /\ proc'[u].cmd = proc[u].cmd /\ proc'[u].pc = proc[u].pc
          /\ proc'[u].key = proc[u].key /\ proc'[u].name = proc[u].name /\ proc'[u].as = proc[u].as
    BY <2>2, <2>3
  <2>5. proc'[t].name # NoName => proc'[t].key = KeyFile[proc'[t].name]
    <3>1. term[t].key = NoFile
      BY <1>2 DEF KeyUnset
    <3> QED BY <2>1, <3>1 DEF KeyPath, Key
  <2>6. (proc'[t].pc = "pick" => proc'[t].key = NoFile) /\ proc'[t].pc # "on"
    BY <2>1 DEF FirstStep
  <2>7. KeyOfName'
    BY <1>3, <2>4, <2>5, <2>6 DEF KeyOfName
  <2>8. HoldOwn'
    <3>1. \A u \in Terminals : u # t => (HasOwn(proc[u]) => HasOwn(proc'[u]))
      BY <2>4 DEF HasOwn, ShellId
    <3>2. HasOwn(proc'[t])
      BY <2>6 DEF HasOwn
    <3> QED BY <1>3, <2>1, <3>1, <3>2 DEF HoldOwn
  <2>9. KeyInPlace'
    BY <1>3, <2>1 DEF KeyInPlace
  <2> QED BY <2>7, <2>8, <2>9
<1>5. ASSUME NEW t \in Terminals, TruncateCrt(t) \/ FillCrt(t) \/ TruncateKey(t) \/ FillKey(t)
      PROVE  (KeyOfName /\ KeyInPlace /\ HoldOwn)'
  <2>1. proc[t].cmd = "setup" /\ term' = term
    BY <1>5 DEF TruncateCrt, FillCrt, TruncateKey, FillKey, Is
  <2>2. PICK s \in {"crt", "crt written", "key", "done"} : proc' = [proc EXCEPT ![t].pc = s]
    BY <1>5 DEF TruncateCrt, FillCrt, TruncateKey, FillKey, Goto
  <2>3. /\ \A u \in Terminals : u # t => proc'[u] = proc[u]
        /\ proc'[t].cmd = "setup" /\ proc'[t].key = proc[t].key /\ proc'[t].name = proc[t].name
        /\ proc'[t].pc = s
    BY <1>p, <2>1, <2>2 DEF Inv, Types, AnyProcess
  <2>4. KeyOfName'
    BY <1>3, <2>1, <2>3 DEF KeyOfName
  <2>5. HoldOwn'
    <3>1. HasOwn(proc'[t])
      BY <2>3 DEF HasOwn, Clients
    <3> QED BY <1>3, <2>1, <2>3, <3>1 DEF HoldOwn
  <2>6. /\ proc[t].key \in KeyFiles /\ proc[t].name \in Names /\ proc[t].key = KeyFile[proc[t].name]
        /\ file \in [Files -> Names \cup {NoName, "ca", "cut"}]
    BY <1>p, <1>3, <2>1 DEF Process, OwnFiles, Inv, Types
  <2>7. proc[t].name = Stem[proc[t].key]
    BY <2>6, LaunchAssumption
  <2>8. /\ "cut" \notin Names
        /\ \A k \in KeyFiles : k # Crt /\ k \in Files
    BY LaunchAssumption DEF Files
  <2>9. \A k \in KeyFiles : file'[k] = file[k] \/ file'[k] = "cut" \/ (k = proc[t].key /\ file'[k] = proc[t].name)
    BY <1>5, <2>6, <2>8 DEF TruncateCrt, FillCrt, TruncateKey, FillKey
  <2>10. KeyInPlace'
    BY <1>3, <2>7, <2>8, <2>9 DEF KeyInPlace
  <2> QED BY <2>4, <2>5, <2>10
<1>6. ASSUME NEW t \in Terminals, PickKey(t) \/ LoadCrt(t) \/ LoadKey(t) \/ Accept(t), ~Ends(t)
      PROVE  (KeyOfName /\ KeyInPlace /\ HoldOwn)'
  <2>1. UNCHANGED <<term, file>> /\ proc[t].cmd \in Clients
    BY <1>6 DEF PickKey, LoadCrt, LoadKey, Accept, Is, Clients
  <2>2. \A u \in Terminals : u # t => proc'[u] = proc[u]
    BY <1>6, OneGoesOn
  <2>3. SUFFICES /\ proc'[t].name # NoName => proc'[t].key = KeyFile[proc'[t].name]
                 /\ proc'[t].pc # "pick"
                 /\ term[t].ssl => HasOwn(proc'[t])
    BY <1>3, <2>1, <2>2 DEF KeyOfName, KeyInPlace, HoldOwn
  <2>4. proc[t].name # NoName => proc[t].key = KeyFile[proc[t].name] /\ proc[t].key \in KeyFiles
    <3>1. proc[t].name # NoName => proc[t].name \in DOMAIN KeyFile
      BY <1>p DEF AnyProcess, Ids
    <3>2. proc[t].cmd # "idle"
      BY <2>1 DEF Clients
    <3> QED BY <1>3, <3>1, <3>2, LaunchAssumption DEF KeyOfName
  <2>5. CASE PickKey(t)
    <3>1. proc[t].pc = "pick" /\ proc[t].key = NoFile
      BY <1>3, <2>5 DEF PickKey, Is, KeyOfName
    <3>2. proc[t].name = NoName
      BY <2>4, <3>1, LaunchAssumption
    <3>3. proc'[t].name = NoName /\ proc'[t].pc = "spawn"
      <4>1. CASE Goto(t, "spawn")
        BY <1>p, <3>2, <4>1 DEF Goto, Inv, Types, AnyProcess
      <4>2. CASE \E k \in Listed : proc' = [proc EXCEPT ![t].key = k, ![t].pc = "spawn"]
        <5>1. PICK k \in Listed : proc' = [proc EXCEPT ![t].key = k, ![t].pc = "spawn"]
          BY <4>2
        <5> QED BY <1>p, <3>2, <5>1 DEF Inv, Types, AnyProcess
      <4> QED BY <2>5, <4>1, <4>2 DEF PickKey
    <3> QED BY <3>3 DEF HasOwn
  <2>6. CASE LoadCrt(t)
    <3>1. PICK s \in {"on", "load key"} : /\ proc' = [proc EXCEPT ![t].pc = s]
                                          /\ s = "on" => ~term[t].ssl
      BY <1>6, <2>6 DEF LoadCrt, Goto
    <3>2. proc'[t].name = proc[t].name /\ proc'[t].key = proc[t].key /\ proc'[t].pc = s
      BY <1>p, <3>1 DEF Inv, Types, AnyProcess
    <3> QED BY <2>4, <3>1, <3>2 DEF HasOwn
  <2>7. CASE LoadKey(t)
    <3>1. /\ proc[t].pc = "load key" /\ file[proc[t].key] \in Names
          /\ proc' = [proc EXCEPT ![t].as = file[proc[t].key], ![t].pc = "on"]
      BY <1>6, <2>7 DEF LoadKey
    <3>2. /\ proc'[t].name = proc[t].name /\ proc'[t].key = proc[t].key /\ proc'[t].pc = "on"
          /\ proc'[t].as = file[proc[t].key]
      BY <1>p, <3>1 DEF Inv, Types, AnyProcess
    <3>3. proc[t].key \in KeyFiles
      BY <1>p, <3>1 DEF Process
    <3>4. ~Backup(proc[t].key) => file[proc[t].key] = Stem[proc[t].key]
      BY <1>3, <3>1, <3>3 DEF KeyInPlace
    <3>5. ShellId(proc[t]) = Stem[proc[t].key]
      BY <1>p, <2>4, <3>3, LoadedOwn
    <3>6. ShellId(proc'[t]) = ShellId(proc[t])
      BY <3>2 DEF ShellId
    <3>7. HasOwn(proc'[t])
      BY <3>2, <3>4, <3>5, <3>6 DEF HasOwn
    <3> QED BY <2>4, <3>2, <3>7
  <2>8. CASE Accept(t)
    <3>1. proc' = [proc EXCEPT ![t].pc = "load crt", ![t].as = NoName]
      BY <2>8 DEF Accept
    <3>2. proc'[t].name = proc[t].name /\ proc'[t].key = proc[t].key /\ proc'[t].pc = "load crt"
      BY <1>p, <3>1 DEF Inv, Types, AnyProcess
    <3> QED BY <2>4, <3>2 DEF HasOwn
  <2> QED BY <1>6, <2>5, <2>6, <2>7, <2>8
<1>7. ASSUME NEW t \in Terminals, OpenShell(t) PROVE (KeyOfName /\ KeyInPlace /\ HoldOwn)'
  <2>1. PICK u \in Terminals : ~term[u].open /\ term' = [term EXCEPT ![u] = ShellEnv(t)]
    BY <1>7 DEF OpenShell
  <2>2. proc' = [proc EXCEPT ![t].pc = "load crt"] /\ file' = file /\ proc[t].cmd = "connect"
    BY <1>7 DEF OpenShell, Goto, Is
  <2>3. /\ proc'[t].name = proc[t].name /\ proc'[t].key = proc[t].key /\ proc'[t].pc = "load crt"
        /\ proc'[t].cmd = "connect"
        /\ \A v \in Terminals : v # t => proc'[v] = proc[v]
    BY <1>p, <2>2 DEF Inv, Types, AnyProcess
  <2>4. KeyOfName'
    BY <1>3, <2>2, <2>3 DEF KeyOfName
  <2>5. proc[u] = Idle /\ \A v \in Terminals : v # u => term'[v] = term[v]
    BY <2>1 DEF Inv, RunsInOpen, Types
  <2>6. HasOwn(proc[u]) /\ HasOwn(proc'[t])
    <3>1. HasOwn(Idle)
      BY DEF HasOwn, Idle, Clients
    <3>2. HasOwn(proc'[t])
      BY <2>3 DEF HasOwn
    <3> QED BY <2>5, <3>1, <3>2
  <2>7. HoldOwn'
    BY <1>3, <2>3, <2>5, <2>6 DEF HoldOwn
  <2> QED BY <1>3, <2>2, <2>4, <2>7 DEF KeyInPlace
<1>8. ASSUME NEW t \in Terminals, Ends(t), UNCHANGED file
      PROVE  (KeyOfName /\ KeyInPlace /\ HoldOwn)'
  <2>1. /\ proc' = [u \in Terminals |-> IF u \in Ending(t) THEN Idle ELSE proc[u]]
        /\ term' = [u \in Terminals |-> IF u \in Inner(t) THEN Closed ELSE term[u]]
        /\ Inner(t) \subseteq Ending(t)
    BY <1>8 DEF Ends, Ending
  <2>2. KeyOfName'
    BY <1>3, <2>1 DEF KeyOfName, Idle
  <2>3. HasOwn(Idle)
    BY DEF HasOwn, Idle, Clients
  <2>4. HoldOwn'
    BY <1>3, <2>1, <2>3 DEF HoldOwn
  <2> QED BY <1>3, <1>8, <2>2, <2>4 DEF KeyInPlace
<1>9. CASE UNCHANGED vars
  BY <1>3, <1>9 DEF vars, KeyOfName, KeyInPlace, HoldOwn
<1>10. CASE Next
  <2>1. PICK t \in Terminals :
          \/ \E cmd \in Clients \cup {"setup"}, arg \in Names \cup {NoName} : Run(t, cmd, arg)
          \/ TruncateCrt(t) \/ FillCrt(t) \/ TruncateKey(t) \/ FillKey(t)
          \/ PickKey(t) \/ OpenShell(t) \/ LoadCrt(t) \/ LoadKey(t) \/ Accept(t) \/ Quit(t)
    BY <1>10 DEF Next
  <2>2. (PickKey(t) \/ LoadCrt(t) \/ LoadKey(t) \/ Accept(t) \/ Quit(t)) =>
          UNCHANGED file /\ (Quit(t) => Ends(t))
    BY DEF PickKey, LoadCrt, LoadKey, Accept, Quit
  <2> QED BY <1>4, <1>5, <1>6, <1>7, <1>8, <2>1, <2>2
<1> QED BY <1>9, <1>10

-----------------------------------------------------------------------------
(* Commands in sessions *)

\* The session that has opened a terminal is there, past the choice of its key,
\* and the terminal has its id.
Later == {"load crt", "load key", "on"}

OpenedBy(env, s) == s.cmd = "connect" /\ s.pc \in Later /\ env.id = ShellId(s)

\* A session has the key of its environment, or the key of its id, or a backup.
KeyOfSession(p, env) ==
  p.cmd = "connect" =>
    /\ p.pc = "pick" => p.name = NoName /\ p.key = NoFile /\ env.key = NoFile
    /\ p.key # NoFile =>
         IF env.key # NoFile THEN p.key = env.key ELSE Backup(p.key) \/ p.key = KeyFile[ShellId(p)]

\* A command in a terminal that has an id has that id, and its key.
OfItsTerminal(p, env) ==
  (p.cmd = "command" /\ env.id # NoName) =>
    p.name = env.id /\ p.key = IF env.key # NoFile THEN env.key ELSE KeyFile[env.id]

Opened ==
  \A u \in Terminals :
    (term[u].open /\ term[u].parent # NoName) => OpenedBy(term[u], proc[term[u].parent])

CommandInv ==
  /\ Opened
  /\ \A t \in Terminals : KeyOfSession(proc[t], term[t]) /\ OfItsTerminal(proc[t], term[t])

\* It holds at first.
LEMMA InitCommand == Init => CommandInv
<1> SUFFICES ASSUME Init PROVE CommandInv
  OBVIOUS
<1>1. ASSUME NEW t \in Terminals PROVE term[t].parent = NoName /\ proc[t].cmd = "idle"
  BY DEF Init, Closed, Idle
<1> QED BY <1>1 DEF CommandInv, Opened, KeyOfSession, OfItsTerminal

\* A process that goes on with its name and its key.
Continues(p, q) ==
  /\ q.cmd = p.cmd /\ q.name = p.name /\ q.key = p.key
  /\ q.cmd = "connect" => q.pc = p.pc \/ q.pc \in Later

LEMMA ContinuesOk ==
  ASSUME NEW p, NEW q, NEW env, Continues(p, q)
  PROVE  /\ OpenedBy(env, p) => OpenedBy(env, q)
         /\ KeyOfSession(p, env) => KeyOfSession(q, env)
         /\ OfItsTerminal(p, env) => OfItsTerminal(q, env)
<1>1. ShellId(q) = ShellId(p)
  BY DEF Continues, ShellId
<1> QED BY <1>1 DEF Continues, OpenedBy, KeyOfSession, OfItsTerminal, Later

\* Steps that leave the terminals alone, and at which each process goes on.
LEMMA AllContinue ==
  ASSUME Inv, CommandInv, UNCHANGED term,
         \A t \in Terminals : Continues(proc[t], proc'[t])
  PROVE  CommandInv'
<1>1. \A u \in Terminals : term[u].parent \in Terminals \cup {NoName}
  BY DEF Inv, Types, Terminal
<1>2. Opened'
  BY <1>1, ContinuesOk DEF CommandInv, Opened
<1> QED BY <1>2, ContinuesOk DEF CommandInv

\* A process that is started: a session has the key it is started with or none
\* yet, a command the id and the key of its terminal.
LEMMA StartsOk ==
  ASSUME NEW env \in Terminal, NEW cmd, NEW arg \in Names \cup {NoName}, NEW p,
         p.cmd = cmd, p.name = Name(env, cmd, arg), p.key = Key(env, cmd, arg),
         p.pc = FirstStep(cmd, p.key)
  PROVE  KeyOfSession(p, env) /\ OfItsTerminal(p, env)
<1>1. ASSUME cmd = "connect" PROVE KeyOfSession(p, env)
  <2>1. p.pc = "pick" => p.key = NoFile
    BY <1>1 DEF FirstStep
  <2>2. ASSUME p.key = NoFile PROVE p.name = NoName /\ env.key = NoFile
    <3>1. env.key = NoFile /\ KeyPath(env, cmd, arg) = NoFile
      BY <2>2 DEF Key
    <3>2. p.name # NoName => KeyFile[p.name] \in KeyFiles
      BY NameTypes, LaunchAssumption DEF Ids
    <3> QED BY <3>1, <3>2, LaunchAssumption DEF KeyPath
  <2>3. ASSUME p.key # NoFile, env.key = NoFile PROVE p.key = KeyFile[ShellId(p)]
    BY <2>3 DEF Key, KeyPath, ShellId
  <2>4. env.key # NoFile => p.key = env.key
    BY DEF Key
  <2> QED BY <2>1, <2>2, <2>3, <2>4 DEF KeyOfSession
<1>2. ASSUME cmd = "command", env.id # NoName PROVE OfItsTerminal(p, env)
  <2>1. p.name = env.id
    BY <1>2 DEF Name
  <2> QED BY <1>2, <2>1 DEF Key, KeyPath, OfItsTerminal
<1> QED BY <1>1, <1>2 DEF KeyOfSession, OfItsTerminal

\* Every step keeps commands in the name of their sessions.
LEMMA CommandStep ==
  ASSUME Inv, Inherits, CommandInv, [Next]_vars
  PROVE  CommandInv'
<1>p. \A t \in Terminals : proc[t] \in AnyProcess /\ proc[t] \in Process /\ term[t] \in Terminal
  BY DEF Inv, Types, Process
<1>q. \A t \in Terminals : term[t].parent \in Terminals \cup {NoName}
  BY <1>p DEF Terminal
<1>1. ASSUME NEW t \in Terminals, NEW cmd \in Clients \cup {"setup"}, NEW arg \in Names \cup {NoName},
             Run(t, cmd, arg)
      PROVE  CommandInv'
  <2>1. /\ term' = term /\ proc[t].cmd = "idle"
        /\ proc'[t].cmd = cmd /\ proc'[t].name = Name(term[t], cmd, arg)
        /\ proc'[t].key = Key(term[t], cmd, arg) /\ proc'[t].pc = FirstStep(cmd, proc'[t].key)
    BY <1>1 DEF Run, Idle
  <2>2. ASSUME NEW u \in Terminals, u # t PROVE Continues(proc[u], proc'[u])
    <3>1. proc'[u] = proc[u] \/ proc'[u] = [proc[u] EXCEPT !.alone = FALSE]
      BY <1>1, <2>2 DEF Run
    <3> QED BY <1>p, <3>1 DEF AnyProcess, Continues
  <2>3. KeyOfSession(proc'[t], term[t]) /\ OfItsTerminal(proc'[t], term[t])
    BY <1>p, <2>1, StartsOk
  <2>4. \A u \in Terminals : (term[u].open /\ term[u].parent # NoName) => term[u].parent # t
    BY <2>1 DEF CommandInv, Opened, OpenedBy
  <2>5. Opened'
    BY <1>q, <2>1, <2>2, <2>4, ContinuesOk DEF CommandInv, Opened
  <2> QED BY <2>1, <2>2, <2>3, <2>5, ContinuesOk DEF CommandInv
<1>2. ASSUME NEW t \in Terminals,
             \/ TruncateCrt(t) \/ FillCrt(t) \/ TruncateKey(t) \/ FillKey(t)
             \/ LoadCrt(t) \/ LoadKey(t) \/ Accept(t),
             ~Ends(t)
      PROVE  CommandInv'
  <2>1. /\ \A u \in Terminals : u # t => proc'[u] = proc[u]
        /\ proc'[t].cmd = proc[t].cmd /\ term' = term
    BY <1>2, OneGoesOn
       DEF TruncateCrt, FillCrt, TruncateKey, FillKey, LoadCrt, LoadKey, Accept
  <2>2. Continues(proc[t], proc'[t])
    <3>1. CASE TruncateCrt(t) \/ FillCrt(t) \/ TruncateKey(t) \/ FillKey(t) \/ Accept(t)
      <4>1. proc[t].cmd # "connect"
        BY <3>1 DEF TruncateCrt, FillCrt, TruncateKey, FillKey, Accept, Is
      <4>2. \/ \E s : Goto(t, s)
            \/ proc' = [proc EXCEPT ![t].pc = "load crt", ![t].as = NoName]
        BY <3>1 DEF TruncateCrt, FillCrt, TruncateKey, FillKey, Accept
      <4>3. proc'[t].name = proc[t].name /\ proc'[t].key = proc[t].key
        BY <1>p, <4>2 DEF Goto, AnyProcess, Inv, Types
      <4> QED BY <2>1, <4>1, <4>3 DEF Continues
    <3>2. CASE LoadCrt(t) \/ LoadKey(t)
      <4>1. \/ Goto(t, "on") \/ Goto(t, "load key")
            \/ proc' = [proc EXCEPT ![t].as = file[proc[t].key], ![t].pc = "on"]
        BY <1>2, <3>2 DEF LoadCrt, LoadKey
      <4>2. /\ proc'[t].name = proc[t].name /\ proc'[t].key = proc[t].key
            /\ proc'[t].pc \in Later
        <5>1. ASSUME NEW s \in Later, Goto(t, s)
              PROVE  /\ proc'[t].name = proc[t].name /\ proc'[t].key = proc[t].key
                     /\ proc'[t].pc = s
          BY <1>p, <5>1 DEF Goto, AnyProcess, Inv, Types
        <5>2. ASSUME NEW a, proc' = [proc EXCEPT ![t].as = a, ![t].pc = "on"]
              PROVE  /\ proc'[t].name = proc[t].name /\ proc'[t].key = proc[t].key
                     /\ proc'[t].pc = "on"
          BY <1>p, <5>2 DEF AnyProcess, Inv, Types
        <5> QED BY <4>1, <5>1, <5>2 DEF Later
      <4> QED BY <2>1, <4>2 DEF Continues
    <3> QED BY <1>2, <3>1, <3>2
  <2>3. \A u \in Terminals : Continues(proc[u], proc'[u])
    BY <2>1, <2>2 DEF Continues
  <2> QED BY <2>1, <2>3, AllContinue
<1>3. ASSUME NEW t \in Terminals, PickKey(t), ~Ends(t) PROVE CommandInv'
  <2>1. /\ \A u \in Terminals : u # t => proc'[u] = proc[u]
        /\ proc'[t].cmd = proc[t].cmd /\ term' = term /\ Is(t, "connect", "pick")
    BY <1>3, OneGoesOn DEF PickKey
  <2>2. proc[t].name = NoName /\ proc[t].key = NoFile /\ term[t].key = NoFile
    BY <2>1 DEF CommandInv, KeyOfSession, Is
  <2>3. \/ Goto(t, "spawn")
        \/ \E k \in KeyFiles : proc' = [proc EXCEPT ![t].key = k, ![t].pc = "spawn"]
    BY <1>3, LaunchAssumption DEF PickKey
  <2>4. /\ proc'[t].name = NoName /\ proc'[t].pc = "spawn"
        /\ proc'[t].key \in KeyFiles \cup {NoFile}
    <3>1. CASE Goto(t, "spawn")
      <4>1. proc'[t] = [proc[t] EXCEPT !.pc = "spawn"]
        BY <3>1 DEF Goto, Inv, Types
      <4> QED BY <1>p, <2>2, <4>1 DEF AnyProcess
    <3>2. CASE \E k \in KeyFiles : proc' = [proc EXCEPT ![t].key = k, ![t].pc = "spawn"]
      <4>1. PICK k \in KeyFiles : proc'[t] = [proc[t] EXCEPT !.key = k, !.pc = "spawn"]
        BY <3>2 DEF Inv, Types
      <4> QED BY <1>p, <2>2, <4>1 DEF AnyProcess
    <3> QED BY <2>3, <3>1, <3>2
  <2>5. proc'[t].key # NoFile => Backup(proc'[t].key) \/ proc'[t].key = KeyFile[ShellId(proc'[t])]
    BY <2>4 DEF Backup, ShellId
  <2>6. KeyOfSession(proc'[t], term[t]) /\ OfItsTerminal(proc'[t], term[t])
    BY <2>1, <2>2, <2>4, <2>5 DEF KeyOfSession, OfItsTerminal, Is
  <2>7. \A u \in Terminals : (term[u].open /\ term[u].parent # NoName) => term[u].parent # t
    BY <2>1 DEF CommandInv, Opened, OpenedBy, Is, Later
  <2>8. Opened'
    BY <1>q, <2>1, <2>7 DEF CommandInv, Opened
  <2> QED BY <2>1, <2>6, <2>8 DEF CommandInv
<1>4. ASSUME NEW t \in Terminals, OpenShell(t) PROVE CommandInv'
  <2>1. PICK u \in Terminals : ~term[u].open /\ term' = [term EXCEPT ![u] = ShellEnv(t)]
    BY <1>4 DEF OpenShell
  <2>2. Is(t, "connect", "spawn") /\ Goto(t, "load crt")
    BY <1>4 DEF OpenShell
  <2>3. proc[u] = Idle /\ proc[u].cmd = "idle" /\ u # t
    <3>1. proc[u] = Idle
      BY <2>1 DEF Inv, RunsInOpen
    <3>2. proc[u].cmd = "idle"
      BY <3>1 DEF Idle
    <3>3. proc[t].cmd = "connect"
      BY <2>2 DEF Is
    <3> QED BY <3>1, <3>2, <3>3
  <2>4. /\ \A v \in Terminals : v # t => proc'[v] = proc[v]
        /\ proc'[t] = [proc[t] EXCEPT !.pc = "load crt"]
    BY <2>2 DEF Goto, Inv, Types
  <2>5. Continues(proc[t], proc'[t]) /\ proc'[t].pc = "load crt"
    BY <1>p, <2>4 DEF Continues, AnyProcess, Later
  <2>6. \A v \in Terminals : Continues(proc[v], proc'[v])
    BY <2>4, <2>5 DEF Continues
  <2>7. term'[u] = ShellEnv(t) /\ \A v \in Terminals : v # u => term'[v] = term[v]
    BY <2>1 DEF Inv, Types
  <2>8. term'[u].parent = t /\ term'[u].id = ShellId(proc[t])
    BY <2>7 DEF ShellEnv
  <2>9. ShellId(proc'[t]) = ShellId(proc[t]) /\ proc'[t].cmd = "connect"
    BY <2>2, <2>5 DEF Continues, ShellId, Is
  <2>10. OpenedBy(term'[u], proc'[t])
    BY <2>5, <2>8, <2>9 DEF OpenedBy, Later
  <2>11. Opened'
    BY <1>q, <2>6, <2>7, <2>8, <2>10, ContinuesOk DEF CommandInv, Opened
  <2>12. ASSUME NEW v \in Terminals
         PROVE  KeyOfSession(proc'[v], term'[v]) /\ OfItsTerminal(proc'[v], term'[v])
    <3>1. CASE v = u
      BY <2>3, <2>4, <3>1 DEF KeyOfSession, OfItsTerminal
    <3>2. CASE v # u
      BY <2>6, <2>7, <3>2, ContinuesOk DEF CommandInv
    <3> QED BY <3>1, <3>2
  <2> QED BY <2>11, <2>12 DEF CommandInv
<1>5. ASSUME NEW t \in Terminals, Ends(t) PROVE CommandInv'
  <2>1. /\ proc' = [u \in Terminals |-> IF u \in Ending(t) THEN Idle ELSE proc[u]]
        /\ term' = [u \in Terminals |-> IF u \in Inner(t) THEN Closed ELSE term[u]]
        /\ Inner(t) \subseteq Ending(t) /\ Ending(t) = {t} \cup Inner(t)
    BY <1>5 DEF Ends, Ending
  <2>2. ASSUME NEW u \in Terminals, term'[u].open, term'[u].parent # NoName
        PROVE  OpenedBy(term'[u], proc'[term'[u].parent])
    <3>1. u \notin Inner(t) /\ term'[u] = term[u]
      BY <2>1, <2>2 DEF Closed
    <3>2. term[u].parent # t
      BY <2>2, <3>1 DEF Inner
    <3>3. term[u].parent \in Terminals /\ term[term[u].parent].parent = NoName
      BY <1>q, <2>2, <3>1 DEF Inherits
    <3>4. term[u].parent \notin Ending(t)
      BY <2>1, <3>2, <3>3, LaunchAssumption DEF Inner
    <3>5. proc'[term[u].parent] = proc[term[u].parent]
      BY <2>1, <3>3, <3>4
    <3> QED BY <2>2, <3>1, <3>5 DEF CommandInv, Opened
  <2>3. ASSUME NEW u \in Terminals
        PROVE  KeyOfSession(proc'[u], term'[u]) /\ OfItsTerminal(proc'[u], term'[u])
    <3>1. CASE u \in Ending(t)
      BY <2>1, <3>1 DEF KeyOfSession, OfItsTerminal, Idle
    <3>2. CASE u \notin Ending(t)
      <4>1. proc'[u] = proc[u] /\ term'[u] = term[u]
        BY <2>1, <3>2
      <4> QED BY <4>1 DEF CommandInv
    <3> QED BY <3>1, <3>2
  <2> QED BY <2>2, <2>3 DEF CommandInv, Opened
<1>6. CASE UNCHANGED vars
  BY <1>6 DEF vars, CommandInv, Opened
<1> QED BY <1>1, <1>2, <1>3, <1>4, <1>5, <1>6 DEF Next, Quit

-----------------------------------------------------------------------------
\* Inv is inductive.
LEMMA Inductive == (Init => Inv) /\ (Inv /\ [Next]_vars => Inv')
<1>1. Init => RunsInOpen /\ SessionIsTold /\ NotTold
  BY DEF Init, RunsInOpen, SessionIsTold, NotTold, Idle, Closed
<1> QED BY <1>1, InitTypes, NextTypes, NextSessions DEF Inv

-----------------------------------------------------------------------------
(* Theorems *)

\* The invariant holds in every state that processes of hoposhell can be in.
THEOREM Invariance == Spec => []Inv
BY Inductive, PTL DEF Spec

\* The types hold; who writes or loads a key knows of which file, and nothing
\* runs in a closed terminal (args.rs:72-147, connect.rs:75-105).
THEOREM TypeCorrect == Spec => []TypeOK
<1>1. Inv => TypeOK
  <2> SUFFICES ASSUME Inv PROVE TypeOK
    OBVIOUS
  <2>1. ASSUME NEW t \in Terminals
        PROVE  /\ term[t].open \in BOOLEAN /\ term[t].connected \in BOOLEAN
               /\ term[t].key \in KeyFiles \cup {NoFile} /\ term[t].parent \in Terminals \cup {NoName}
    BY DEF Inv, Types, Terminal, Keys
  <2>2. ASSUME NEW t \in Terminals
        PROVE  /\ proc[t].cmd \in Clients \cup {"setup", "idle"}
               /\ proc[t].as \in Names \cup {NoName}
               /\ proc[t].pc \in {"crt", "crt written", "key", "load key"} => proc[t].key \in KeyFiles
    <3>1. proc[t] \in Process
      BY DEF Inv, Types
    <3> QED BY <3>1 DEF Process, AnyProcess
  <2> QED BY <2>1, <2>2 DEF Inv, RunsInOpen, Types, TypeOK
<1> QED BY Invariance, <1>1, PTL

\* A setup that ends with no other beside it leaves a certificate and a key of
\* its shell, over whatever it found (main.rs:104-113).
THEOREM SetupsRepair == Spec => []SetupRepairs
<1>1. Inv /\ AloneIsAlone /\ Progress => SetupRepairs
  BY DEF Progress, Alone, SetupRepairs, Is
<1>2. Init => Inv /\ AloneIsAlone /\ Progress
  BY Inductive, InitSetups
<1>3. (Inv /\ AloneIsAlone /\ Progress) /\ [Next]_vars => (Inv /\ AloneIsAlone /\ Progress)'
  BY Inductive, AloneSteps, ProgressSteps
<1> QED BY <1>1, <1>2, <1>3, PTL DEF Spec

\* A file that cannot be used is being written, or its setup was ended while it
\* wrote it: whatever setups run at once and whatever ends them (main.rs:104-113).
THEOREM CutsAreExcused == Spec => []CutOnlyInWriting
<1>1. CutInv => CutOnlyInWriting
  BY DEF CutInv, KeyUnset, CutOnlyInWriting
<1>2. Init => Inv /\ CutInv
  BY Inductive, InitCut
<1>3. (Inv /\ CutInv) /\ [Next]_vars => (Inv /\ CutInv)'
  BY Inductive, CutStep
<1> QED BY <1>1, <1>2, <1>3, PTL DEF Spec

\* Who is connected is known to the server, by the key it loaded, as the shell it
\* takes itself for, though setups rewrite the keys (connect.rs:62-83, 107-130).
THEOREM KeysAreOwn == Spec => []HoldsItsOwnKey
<1>1. OwnInv => HoldsItsOwnKey
  BY DEF OwnInv, KeyUnset, HoldOwn, HasOwn, HoldsItsOwnKey
<1>2. Init => Inv /\ CutInv /\ OwnInv
  BY Inductive, InitCut, InitOwn
<1>3. (Inv /\ CutInv /\ OwnInv) /\ [Next]_vars => (Inv /\ CutInv /\ OwnInv)'
  BY Inductive, CutStep, OwnStep
<1> QED BY <1>1, <1>2, <1>3, PTL DEF Spec

\* A command goes out under the id of the session it is typed in and with its
\* key, whether the session has them from its argument, from its environment or
\* from the folder, and whatever the command's first argument (args.rs:72-147
\* with run_shell.rs:41-47).
THEOREM CommandsAreTheSessions == Spec => []CommandIsTheSessions
<1>1. Inv /\ Inherits /\ CommandInv => CommandIsTheSessions
  <2> SUFFICES ASSUME Inv, Inherits, CommandInv,
                      NEW t \in Terminals, proc[t].cmd = "command", term[t].parent # NoName,
                      NEW s, s = proc[term[t].parent], s.key # NoFile, ~Backup(s.key)
               PROVE  proc[t].name = ShellId(s) /\ proc[t].key = s.key
    BY DEF CommandIsTheSessions
  <2>1. term[t].open /\ term[t].parent \in Terminals
    BY DEF Inv, RunsInOpen, Idle, Types, Terminal
  <2>2. OpenedBy(term[t], s) /\ term[t].key = term[term[t].parent].key
    BY <2>1 DEF CommandInv, Opened, Inherits
  <2>3. KeyOfSession(s, term[term[t].parent]) /\ OfItsTerminal(proc[t], term[t])
    BY <2>1 DEF CommandInv
  <2>4. s \in Process /\ s.name \in Ids \cup {NoName} /\ s.key \in KeyFiles
    BY <2>1 DEF Inv, Types, Process, AnyProcess, Keys
  <2>5. ShellId(s) # NoName
    BY <2>4, LaunchAssumption DEF ShellId
  <2>6. proc[t].name = ShellId(s)
    BY <2>2, <2>3, <2>5 DEF OpenedBy, OfItsTerminal
  <2>7. proc[t].key = s.key
    BY <2>2, <2>3, <2>5 DEF OpenedBy, OfItsTerminal, KeyOfSession
  <2> QED BY <2>6, <2>7
<1>2. Init => Inv /\ Inherits /\ CommandInv
  BY Inductive, InitCut, InitCommand DEF CutInv
<1>3. (Inv /\ Inherits /\ CommandInv) /\ [Next]_vars => (Inv /\ Inherits /\ CommandInv)'
  BY Inductive, InheritsStep, CommandStep
<1> QED BY <1>1, <1>2, <1>3, PTL DEF Spec

\* No session is ever started in the terminal of a session, whatever it knows
\* of itself and in whatever order processes start and end (main.rs:44).
THEOREM SessionsDoNotNest == Spec => []NoNestedSession
<1>1. Inv => NoNestedSession
  BY DEF Inv, RunsInOpen, SessionIsTold, NotTold, NoNestedSession, Idle
<1> QED BY Invariance, <1>1, PTL
==============================================================================
