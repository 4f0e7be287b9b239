------------------------------- MODULE MCVfs --------------------------------
(* The tree of names (Vfs), the listing of directories (Readdir) and the    *)
(* CD's file system (IsoFs), which share no state in the models: a          *)
(* behaviour runs one of them.  Vfs runs in two ways, to keep the product   *)
(* of links and mounts out: files, directories and links in one, files,     *)
(* directories and mounts in the other.                                     *)
EXTENDS Vfs

CONSTANTS Names, Pids, Lines,
          Disc, IsoPaths, PerBlock, BLOCK, none

VARIABLES kind, children, tasks, offset, seen, stay, made, gone, done,
          handle, path, got, astray, ret,
          use     \* what runs

R == INSTANCE Readdir
I == INSTANCE IsoFs WITH Paths <- IsoPaths

listing == <<kind, children, tasks, offset, seen, stay, made, gone, done>>
disc == <<handle, path, got, astray, ret>>
others == <<listing, disc>>

Rel(ps) == [abs |-> FALSE, parts |-> ps]

LinkPaths == {Abs(<<"a">>), Abs(<<"b", "a">>)}
NodePaths == LinkPaths \cup {Abs(<<"b">>), Rel(<<"..", "b">>)}
MountPoints == {Abs(proc), Abs(<<"proc", "1">>)}
MountPaths == {Abs(proc), Abs(<<"proc", "a">>), Abs(<<"proc", "1">>)}
MCPaths == NodePaths \cup MountPaths
MCTargets == {Abs(<<"a">>), Rel(<<"b">>), Rel(<<"..", "a">>)}

Entry(p, f) == [path |-> p, flag |-> f, target |-> Rel(<<"b">>)]
MCArchives == {<<>>, << Entry(<<"a">>, "link"), Entry(<<"b">>, "dir") >>}

MountNodes == 3    \* bound on the nodes of a behaviour with mounts

MCLines == <<"cmdline", "status">>

\* Two directories, the first two blocks long, and files of one to three bytes.
Rec(x, e, n, d) == [name |-> x, extent |-> e, size |-> n, dir |-> d]
MCDisc == [e \in 0 .. 4 |->
    CASE e = 0 -> [records |-> <<Rec("a", 1, 3, FALSE), Rec("d", 2, 2, TRUE), Rec("x", 3, 1, FALSE)>>]
      [] e = 2 -> [records |-> <<Rec("a", 4, 2, FALSE), Rec("x", 3, 1, FALSE)>>]
      [] e = 1 -> [data |-> <<1, 2, 3>>]
      [] e = 3 -> [data |-> <<4>>]
      [] e = 4 -> [data |-> <<5, 6>>]]
MCIsoPaths == {<<"a">>, <<"d">>, <<"x">>, <<"d", "a">>, <<"d", "x">>, <<"a", "x">>}

MountsFirst == tree.live = 0 .. 2

MCInit ==
    /\ Init /\ R!Init /\ I!Init
    /\ use \in IF MountsFirst THEN {"mounts", "listing", "disc"} ELSE {"links"}
    /\ use # "listing" => kind = "dir" /\ children = <<>>

MCNext ==
    /\ UNCHANGED use
    /\ \/ /\ use = "links"
          /\ \/ Running /\ (Common(NodePaths) \/ Linking(LinkPaths))
             \/ Halted
          /\ UNCHANGED others
       \/ /\ use = "mounts"
          /\ \/ /\ Running /\ (Common(MountPaths) \/ Mounting(MountPoints))
                /\ tree'.live \subseteq 0 .. MountNodes
             \/ Halted
          /\ UNCHANGED others
       \/ use = "listing" /\ R!Next /\ UNCHANGED <<vars, disc>>
       \/ use = "disc" /\ I!Next /\ UNCHANGED <<vars, listing>>

MCSpec == MCInit /\ [][MCNext]_<<vars, others, use>>
----------------------------------------------------------------------------
Naming == use \in {"links", "mounts"}

\* A path means one thing: find reaches the node that replacing links on the
\* spot reaches, and the mount that sys_open picks by comparing path texts is
\* that of the last mount point on the way down the tree.
PathsMeanOneThing == Naming => FindMeansPath /\ MountsMatch

\* A path that mkdir or open with O_CREAT has just made is the path that a
\* lookup finds it by, except for the names "." and ".." and links in the way.
CreatedAreFound == Naming => CreatedIsFound

\* A listing with sys_readdir that has ended has shown every entry that was
\* there all the time, unless one was removed, and none twice, unless one was
\* made.
ScanComplete == R!ScanComplete

\* An open handle of isofs describes the file that its path names, and the
\* reads return that file from its start without a gap, wherever the drive
\* fails and is tried again; unless the walk went through a file or a block
\* that could not be read.
IsoFiles == I!HandleIsTheFile /\ I!ReadsTheFile
=============================================================================
