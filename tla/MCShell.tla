------------------------------ MODULE MCShell ------------------------------
(* Instances of Shell, and through it of Process, for TLC.                 *)
EXTENDS Shell

NoPids     == {}
Vocabulary == {<<>>, <<"a">>, <<"a", "SP", "SQ">>, <<"cd">>, <<"..">>}
Spaces     == {<<"SP">>, <<"SP", "SP">>}

(* The other commands, blanks only, glued and open quotes, too many words. *)
Typed    == {<<c>> : c \in Commands} \cup
            {<<c, "SP", "a">> : c \in {"help", "ls", "cat", "echo"}} \cup
            {<<"cat", "SP", "f">>, <<"cd", "SP", "f">>, <<"help", "SP", "cd">>,
             <<"ls", "SP", "/">>, <<"cd", "SP", "/">>, <<"SP">>, <<"DQ", "a", "DQ", "a">>,
             <<"SP", "a", "DQ", "a">>, <<"a", "SP", "a", "SP", "a", "SP", "a">>,
             <<"cd", "SP", "a", "/", "b">>, <<"cd", "SP", "/", "a">>,
             <<"cat", "SP", "g">>}
Dirs     == {<<"a">>, <<"/", "a">>, <<"a", "/", "b">>}
Regular  == {<<"f">>, <<"g">>}
Raw      == {<<"g">>}
=============================================================================
