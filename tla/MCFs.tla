--------------------------------- MODULE MCFs ---------------------------------
(* Sectors of two bytes, two handles, two clients; archives with empty     *)
(* members, members that fill their last sector or leave it half full, and *)
(* one name twice.                                                         *)
EXTENDS Fs

MCFile(name, size) == [name |-> name, size |-> size]

MCArchives ==
    {<< >>, <<MCFile(<<"a", "b">>, 2)>>,
     <<MCFile(<<"a">>, 3), MCFile(<<"a", "b">>, 4)>>,
     <<MCFile(<<"a", "b">>, 0), MCFile(<<"a">>, 5), MCFile(<<"a">>, 1)>>}
MCPaths == {<<"a">>, <<"a", "b">>}
MCClients == {"shell", "shell2"}
MCNobody == {}
MCApp == {"app"}
=============================================================================
