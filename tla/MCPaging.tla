------------------------------ MODULE MCPaging -------------------------------
(* Tables of two entries.  Frames 0 to 4 are reserved (0 low memory, 1 a    *)
(* device, 2 to 4 the boot tables), 9 is not reported: ten are managed.     *)
(* Program images lie below PML4 entry 1; a long list of pages exhausts     *)
(* memory while it loads, in two ways.                                     *)
EXTENDS Paging

MCRegions == <<[start |-> 0, stop |-> 9], [start |-> 8, stop |-> 9],
               [start |-> 10, stop |-> 16]>>

MCRootfs ==
    {<< <<1, 0, 0, 0>>, <<1, 0, 0, 1>> >>,
     << <<1, 0, 0, 0>>, <<1, 0, 1, 0>>, <<1, 0, 0, 1>>, <<1, 0, 1, 1>>, <<1, 1, 0, 0>> >>,
     << <<1, 0, 0, 0>>, <<1, 1, 0, 0>>, <<1, 0, 1, 0>>, <<1, 1, 0, 1>>, <<1, 0, 0, 1>> >>}

MCMapPages == {<<1, 0, 0, 1>>, <<1, 0, 1, 0>>, <<1, 1, 0, 0>>, <<0, 0, 0, 1>>, <<0, 1, 0, 0>>}
MCDeviceMaps == {<< <<1, 0, 1, 1>>, 1>>}
MCUnmaps == {<<1, 0, 1, 0>>, <<0, 0, 1, 1>>}
=============================================================================
