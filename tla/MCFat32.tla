------------------------------ MODULE MCFat32 ------------------------------
(* The commands a small session of the shell types. *)
EXTENDS Fat32

Abs(names) == [abs |-> TRUE, names |-> names]
Rel(names) == [abs |-> FALSE, names |-> names]
Write(path, bytes) == [path |-> path, bytes |-> bytes]

\* A file of the image that spans three clusters, one that spans one.
LongImage == <<1, 2, 3, 4, 5>>
ShortImage == <<1, 2>>
Nothing == {}

\* echo and touch in the current directory and by path; at most one cluster.
ShellWrites ==
  {Write(Rel(<<"f">>), <<7>>), Write(Rel(<<"f">>), <<>>),
   Write(Rel(<<"g">>), <<8, 9>>), Write(Abs(<<"image">>), <<6>>),
   Write(Abs(<<"sub", "f">>), <<5, 5>>)}
ShellDeletes == {Rel(<<"f">>), Abs(<<"image">>), Abs(<<"sub", "f">>)}
ShellMkdirs == {Rel(<<"sub">>)}
ShellChdirs == {Rel(<<"sub">>), Rel(<<"..">>), Rel(<<".">>), Abs(<<"sub">>), Rel(<<"f">>)}
ShellCats == {Rel(<<"f">>), Abs(<<"image">>), Rel(<<"sub">>)}

\* echo, touch, rm, mkdir and cat on a disk that fails.
FaultyWrites == {Write(Rel(<<"f">>), <<7>>), Write(Rel(<<"g">>), <<8, 9>>),
                 Write(Rel(<<"image">>), <<>>)}
FaultyDeletes == {Rel(<<"f">>), Rel(<<"image">>)}
FaultyCats == {Rel(<<"image">>)}

\* echo of more than a cluster.
LongWrites == {Write(Rel(<<"f">>), <<7, 8, 9>>)}
ShortWrites == {Write(Rel(<<"f">>), <<7>>)}
SubDirectory == {Rel(<<"sub">>)}
NestedChdirs == {Rel(<<"sub">>), Rel(<<"..">>), Rel(<<"sub", "sub">>)}
RootOrSub == {Abs(<<>>), Rel(<<"sub">>)}
LocalFile == {Rel(<<"f">>)}
MissingParent == {Abs(<<"sub", "new">>)}

\* The session of FatShell is one that the theorems of Fat32Proofs are about.
ASSUME ShellIsPlain == WRITES = ShellWrites => PlainSession
=============================================================================
