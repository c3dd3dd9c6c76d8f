------------------------------ MODULE MCFiles ------------------------------
(* Instances of Files for TLC.                                             *)
EXTENDS Files

OneFile   == {"f"}
FNames    == [f \in OneFile |-> "a"]
SomeNames == {"dir", "link", "a", "b", ".", ".."}
\* Directly, up and down again, through the link, below a file.
SomePaths == {<<"dir", "a">>, <<"dir", "..", "a">>, <<"link", "b">>, <<"dir", "a", "b">>}
SomeMasks == {{"READ", "WRITE"}}
SomeCounts == {1, 3}
=============================================================================
