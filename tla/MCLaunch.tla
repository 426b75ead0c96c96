------------------------------- MODULE MCLaunch -------------------------------
(* The folder Launch is checked with: two keys, of which one is listed, and  *)
(* a backup of that one.                                                     *)
EXTENDS Launch, TLC

Plain == [id |-> NoName, key |-> NoFile, ssl |-> TRUE]

MCEnvs   == {Plain, [Plain EXCEPT !.id = "shell_a"], [Plain EXCEPT !.key = "b.pem", !.ssl = FALSE]}
MCNames  == {"shell_a", "b"}
MCFiles  == {"shell_a.pem", "b.pem", "shell_a.pem.bak", "shell_a.pem.pem"}
MCListed == {"shell_a.pem", "shell_a.pem.bak", "shell_a.pem.pem"}
MCStem   == [f \in MCFiles |-> CASE f = "shell_a.pem" -> "shell_a" [] f = "b.pem" -> "b"
                                 [] OTHER -> "shell_a.pem"]
MCKeyFile == [n \in MCNames \cup {"shell_a.pem"} |->
                CASE n = "shell_a" -> "shell_a.pem" [] n = "b" -> "b.pem" [] OTHER -> "shell_a.pem.pem"]
MCOwners == [f \in MCFiles |-> CASE f = "b.pem" -> {"b"} [] f = "shell_a.pem.pem" -> {}
                                 [] OTHER -> {"shell_a"}]

MCSymmetry == Permutations(Windows)
=============================================================================
