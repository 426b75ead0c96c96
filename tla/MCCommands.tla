------------------------------ MODULE MCCommands ------------------------------
(* The command lines and the machines Commands is checked with. *)
EXTENDS Commands

s1    == <<"s1">>
inner == <<"team", "/", "s2">>          \* a key in a subfolder makes such an id

Remote  == {<<"n">>, <<"r", "/", "n">>, <<"r", "/", "..">>, <<>>}
Locals  == {<<"-">>, <<"d">>, <<"d", "/">>, <<".", "/">>, <<"f">>, <<"d", "/", "new">>,
            <<"no", "/">>, <<"no", "/", "new">>, <<"/", "new">>, <<"/">>}
BareName == <<"new">>
Url     == <<"host", "/", "page">>

Downloads(locals) ==
  {<<<<w>>, r>> : w \in {"download", "cp"}, r \in Remote}
    \cup {<<<<"download">>, <<"r", "/", "n">>, l>> : l \in locals}

Requests ==
  {<<<<"ls">>, <<"r", "/", "*">>>>, <<<<"ls">>>>, <<<<"glob">>, <<"r", "/", "*">>>>,
   <<<<"http">>, <<"get">>, Url>>, <<<<"http">>, <<"post">>, Url, <<"a", "/", "b">>>>,
   <<<<"http">>, <<"put">>, Url>>, <<<<"http">>, <<"GET">>, Url>>, <<<<"http">>, <<"get">>>>,
   <<<<"tcp">>, <<"host">>, <<"80">>, <<"a", "/", "b">>>>,
   <<<<"tcp">>, <<"host">>, <<"eighty">>, <<"a">>>>,
   <<<<"scripts">>, <<"backup">>>>, <<<<"nothing">>>>, <<>>}

Flagged(ws) ==
  {ws} \cup UNION {{Append(ws, f)} \cup {<<f>> \o ws} : f \in {Json, Raw}}
       \cup {<<Raw>> \o Append(ws, Json)}

MCLines ==
  {[me |-> s1, words |-> w] :
     w \in UNION {Flagged(<<s1>> \o ws) : ws \in Requests} \cup {<<s1>> \o ws : ws \in Downloads(Locals)}}
  \cup {[me |-> m, words |-> <<t>> \o ws] :
          m \in {s1, inner}, t \in {s1, inner}, ws \in Requests \cup Downloads({<<"f">>})}

BareLines == {[me |-> s1, words |-> <<s1, <<"cp">>, <<"n">>, BareName>>]}

Bodies == {"text", "json", "binary", "empty"}
Disks  == {[dirs |-> ds, files |-> fs] :
             ds \in {{<<>>, <<"d">>}, {<<>>, <<"d">>, <<"d", "n">>}},
             fs \in {{<<"f">>}, {<<"f">>, <<"n">>}, {<<"d", "new">>}}}

MCWorlds(w) ==
  CASE w \in {"download", "cp"} ->
         {[Base EXCEPT !.path = k, !.body = b, !.dirs = d.dirs, !.files = d.files] :
            k \in {"file", "unreadable", "none"}, b \in {"text", "empty"}, d \in Disks}
    [] w \in {"ls", "glob"} ->
         {[Base EXCEPT !.valid = v, !.match = m] :
            v \in BOOLEAN, m \in SUBSET {"file", "folder", "gone", "odd", "ancient"}}
    [] w = "http" -> {[Base EXCEPT !.web = k, !.body = b] : k \in {"page", "down", "broken"}, b \in Bodies}
    [] w = "tcp" ->
         {[Base EXCEPT !.peer = k, !.body = b] :
            k \in {"refused", "closes", "stays open", "takes half"}, b \in Bodies}
    [] w = "scripts" ->
         {[Base EXCEPT !.script = k, !.code = c, !.body = b] :
            k \in {"missing", "not executable", "runs", "killed"}, c \in {0, 1, 3}, b \in Bodies}
    [] OTHER -> {Base}
=============================================================================
