---------------------------- MODULE MCPathPolicy ----------------------------
(* PathPolicy for a repository with two files in a directory and one beside *)
(* it, and rules of up to two segments.                                     *)
EXTENDS PathPolicy

Segments == {"src", "doc", ".", ".."}

MCPaths == {<<"src", "x">>, <<"src", "y">>, <<"doc">>}

MCRules ==
    [path : {<<s>> : s \in Segments} \cup {<<s, t>> : s, t \in Segments},
     slash : BOOLEAN, absolute : {FALSE}]
        \cup [path : {<<"src">>}, slash : BOOLEAN, absolute : {TRUE}]
=============================================================================
