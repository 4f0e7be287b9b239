-------------------------------- MODULE Vfs ---------------------------------
(***************************************************************************)
(* The node tree, path lookup and the mount list (src/fs/vfs.cpp,          *)
(* src/fs/mount.cpp, src/fs/tarfs.cpp) under the system calls that name    *)
(* paths (src/user/syscall.cpp).  Each call runs with interrupts off, so   *)
(* each is a step; the contents of files are in FileData.                  *)
(*                                                                         *)
(* A node is the heap block that holds it.  kfree pulls the heap's cursor  *)
(* back to the freed block, so the lowest free block is the next one       *)
(* taken, and a pointer left behind comes to name the new node.  A call    *)
(* that goes through a freed block, or that resolves a link inside itself  *)
(* until the kernel stack is gone, ends in `fault'; the model stops there. *)
(*                                                                         *)
(* `odd' is a history variable: the legal but unchecked things that have   *)
(* been done to the tree.  The properties say what holds without them.     *)
(***************************************************************************)
EXTENDS Integers, Sequences, SequencesExt, FiniteSets, FiniteSetsExt

CONSTANTS
    Nodes,      \* heap blocks for nodes, numbers above 0
    Archives,   \* sequences of tar entries [path, flag, target]
    Paths,      \* [abs, parts]: the arguments of system calls
    Targets,    \* the texts of symbolic links, paths too
    FsFiles,    \* names that procfs opens although no node has them
    MAX_MOUNTS, \* bound on the mount list
    MaxOdd      \* bound on the number of odd things done

VARIABLES
    tree,       \* [live: allocated blocks, node: block -> Node]
    mounts,     \* the list of mounts, latest first
    cwd,        \* Process::cwd
    fd,         \* one FdEntry of the process
    odd,        \* history, see above
    fault

vars == <<tree, mounts, cwd, fd, odd, fault>>

root == 0
nullptr == -1
lost == -2                  \* the lookup never returns, or read freed memory
closed == [kind |-> "none"]

Abs(ps) == [abs |-> TRUE, parts |-> ps]
proc == <<"proc">>

find_in(t, d, x) ==
    LET c == t.node[d].children
        I == {i \in DOMAIN c : t.node[c[i]].name = x}
    IN  IF I = {} THEN nullptr ELSE c[Min(I)]

fs_open(f, ps) == f = "procfs" /\ ps \in ({<<"a">>} \cup {<<x>> : x \in FsFiles})
----------------------------------------------------------------------------
\* The names from the root down to n; an ancestor that was freed, or
\* that is its own ancestor since its block was taken again, shows as "?".
RECURSIVE path_to(_, _, _)
path_to(t, n, fuel) ==
    IF n = root THEN <<>>
    ELSE IF n \notin t.live \/ fuel = 0 THEN <<"?">>
    ELSE Append(path_to(t, t.node[n].parent, fuel - 1), t.node[n].name)

get_path(t, n) == path_to(t, n, Cardinality(Nodes))

absolute(t, p) == IF p.abs THEN p.parts ELSE get_path(t, cwd) \o p.parts

\* Mutant: a relative link is resolved from the root.
Target_root(t, n) == t.node[n].symlink.parts

\* A relative link is resolved from the directory that holds it.
Target(t, n) ==
    LET s == t.node[n].symlink
    IN  IF s.abs THEN s.parts ELSE get_path(t, t.node[n].parent) \o s.parts

RECURSIVE walk(_, _, _, _), follow(_, _, _, _)

\* The loop over the components of a path.
walk(t, n, ps, fuel) ==
    IF n = nullptr \/ (n \in t.live /\ ps = <<>>) THEN n
    ELSE IF n \notin t.live \/ fuel = 0 \/ Head(ps) = "?" THEN lost
    ELSE LET x == Head(ps)
             c == find_in(t, n, x)
         IN  CASE x = "."  -> walk(t, n, Tail(ps), fuel)
               [] x = ".." -> walk(t, IF n = root THEN n ELSE t.node[n].parent, Tail(ps), fuel)
               [] x \notin {".", ".."} /\ c = nullptr ->
                    IF t.node[n].type = "mount" /\ fs_open(t.node[n].filesystem, ps)
                      THEN n ELSE nullptr
               [] OTHER -> walk(t, follow(t, c, fuel, 0), Tail(ps), fuel)

\* Eight links are followed; but find resolves the links of a target itself.
follow(t, n, fuel, depth) ==
    IF n \notin t.live \/ t.node[n].type # "symlink" THEN n
    ELSE IF depth >= 8 THEN nullptr
    ELSE follow(t, walk(t, root, Target(t, n), fuel - 1), fuel, depth + 1)

\* A chain without a cycle passes each node at most once.
Fuel == Cardinality(Nodes) + 1

find(t, p) ==
    IF p.abs THEN walk(t, root, p.parts, Fuel)
    ELSE IF p.parts = <<>> THEN root
    ELSE walk(t, cwd, p.parts, Fuel)
----------------------------------------------------------------------------
\* Mutant: the new node takes the place of the children.
create_node_drops(t, x, dir, par) ==
    LET n == Min(Nodes \ t.live)
        new == [name |-> x, directory |-> dir, type |-> IF dir THEN "dir" ELSE "file",
                parent |-> par, children |-> <<>>, symlink |-> nullptr,
                filesystem |-> "none"]
    IN  [live |-> t.live \cup {n},
         node |-> [t.node EXCEPT ![n] = new, ![par].children = <<n>>]]

\* The new node becomes the first child.  (It also inherits the parent's file
\* system, which is only looked at in mount points.)
create_node(t, x, dir, par) ==
    LET n == Min(Nodes \ t.live)
        new == [name |-> x, directory |-> dir, type |-> IF dir THEN "dir" ELSE "file",
                parent |-> par, children |-> <<>>, symlink |-> nullptr,
                filesystem |-> "none"]
    IN  [live |-> t.live \cup {n},
         node |-> [t.node EXCEPT ![n] = new, ![par].children = <<n>> \o @]]

\* Mutant: the directory above the last component is returned.
RECURSIVE create_dir_path_above(_, _, _)
create_dir_path_above(t, d, ps) ==
    LET c == find_in(t, d, Head(ps))
        u == IF c # nullptr THEN t ELSE create_node(t, Head(ps), TRUE, d)
    IN  IF Len(ps) = 1 THEN <<u, d>>
        ELSE create_dir_path_above(u, find_in(u, d, Head(ps)), Tail(ps))

\* Neither of the two follows links or knows "." and "..".
RECURSIVE create_dir_path(_, _, _)
create_dir_path(t, d, ps) ==
    IF ps = <<>> THEN <<t, d>>
    ELSE LET c == find_in(t, d, Head(ps))
         IN  IF c # nullptr THEN create_dir_path(t, c, Tail(ps))
             ELSE create_dir_path(create_node(t, Head(ps), TRUE, d),
                                  Min(Nodes \ t.live), Tail(ps))

RECURSIVE create_file_path(_, _, _)
create_file_path(t, d, ps) ==
    IF ps = <<>> THEN <<t, nullptr>>
    ELSE LET c == find_in(t, d, Head(ps))
         IN  IF Len(ps) = 1
               THEN IF c # nullptr THEN <<t, c>>
                    ELSE <<create_node(t, Head(ps), FALSE, d), Min(Nodes \ t.live)>>
             ELSE IF c = nullptr
               THEN create_file_path(create_node(t, Head(ps), TRUE, d),
                                     Min(Nodes \ t.live), Tail(ps))
             ELSE IF ~ t.node[c].directory THEN <<t, nullptr>>
             ELSE create_file_path(t, c, Tail(ps))

\* An existing node, whatever it is, is turned into the link.
create_symlink_path(t, ps, target) ==
    LET r == create_file_path(t, root, ps)
    IN  IF r[2] = nullptr THEN r
        ELSE <<[r[1] EXCEPT !.node[r[2]].type = "symlink",
                            !.node[r[2]].symlink = target], r[2]>>

\* How many nodes a path lacks below d, and whether there is room for them.
RECURSIVE Missing(_, _)
Missing(d, ps) ==
    IF ps = <<>> THEN 0
    ELSE LET c == find_in(tree, d, Head(ps))
         IN  IF c = nullptr THEN Len(ps) ELSE Missing(c, Tail(ps))

Room(d, ps, k) == Missing(d, ps) + k <= Cardinality(Nodes \ tree.live)
----------------------------------------------------------------------------
Blank == [name |-> "", directory |-> TRUE, type |-> "dir", parent |-> nullptr,
          children |-> <<>>, symlink |-> nullptr, filesystem |-> "none"]

\* vfs::init
Empty == [live |-> {root}, node |-> [n \in Nodes \cup {root} |-> Blank]]

\* The archive is unpacked entry by entry; others than these are skipped.
tarfs_mount_vfs(t, archive) ==
    LET add(u, e) == CASE e.flag = "link" -> create_symlink_path(u, e.path, e.target)[1]
                       [] e.flag = "dir"  -> create_dir_path(u, root, e.path)[1]
                       [] OTHER           -> create_file_path(u, root, e.path)[1]
    IN  FoldLeft(add, t, archive)

\* procfs::init gives /proc a node per entry, each time it is called.
procfs_init(t) ==
    LET d == find(t, Abs(proc))
    IN  IF d < root THEN t ELSE create_node(t, "a", FALSE, d)

mount_on(t, n, f) ==
    LET u == [t EXCEPT !.node[n].type = "mount", !.node[n].filesystem = f]
    IN  IF f = "procfs" THEN procfs_init(u) ELSE u

\* kernel_main: the archive, the mount points, the mounts.
Init ==
    /\ cwd = root
    /\ \E archive \in Archives :
         LET t == create_dir_path(tarfs_mount_vfs(Empty, archive), root, proc)[1]
             u == mount_on(t, root, "tarfs")
         IN  tree = mount_on(u, find_in(u, root, "proc"), "procfs")
    /\ mounts = << [path |-> proc, fs |-> "procfs", id |-> 2],
                   [path |-> <<>>, fs |-> "tarfs", id |-> 1] >>
    /\ fd = closed
    /\ odd = {}
    /\ fault = FALSE

Crash == fault' = TRUE /\ UNCHANGED <<tree, mounts, cwd, fd, odd>>

Note(c, s) == odd' = odd \cup (IF c THEN {s} ELSE {})

\* The longest path that matches, the latest mount among equals.  The path
\* "/" ends in its slash and matches only itself.
find_mount(ps) ==
    LET M == {i \in DOMAIN mounts :
                /\ IsPrefix(mounts[i].path, ps)
                /\ mounts[i].path = <<>> => ps = <<>>}
        len(i) == Len(mounts[i].path)
    IN  IF M = {} THEN 0
        ELSE Min({i \in M : \A j \in M : len(j) <= len(i)})

\* sys_open: a path below a mount is the file system's, any other the tree's.
\* With O_CREAT a missing file is made before an entry is looked for.
sys_open(p, O_CREAT) ==
    LET ps == absolute(tree, p)
        m == find_mount(ps)
        sub == SubSeq(ps, Len(mounts[m].path) + 1, Len(ps))
        n == find(tree, Abs(ps))
        r == IF n = nullptr /\ O_CREAT THEN create_file_path(tree, root, ps)
             ELSE <<tree, n>>
    IN  IF m # 0 /\ mounts[m].fs = "procfs" /\ sub # <<>>
          THEN /\ fd' = IF fd = closed /\ fs_open("procfs", sub)
                          THEN [kind |-> "mount", id |-> mounts[m].id] ELSE fd
               /\ UNCHANGED <<tree, mounts, cwd, odd, fault>>
        ELSE IF n = lost THEN Crash
        ELSE /\ n = nullptr /\ O_CREAT => Room(root, ps, 0)
             /\ tree' = r[1]
             /\ fd' = IF fd = closed /\ r[2] # nullptr
                        THEN [kind |-> "node", node |-> r[2]] ELSE fd
             /\ UNCHANGED <<mounts, cwd, odd, fault>>

sys_close ==
    /\ fd # closed
    /\ fd' = closed
    /\ UNCHANGED <<tree, mounts, cwd, odd, fault>>

\* A read, write, fstat or readdir through the entry.
sys_fstat == fd.kind = "node" /\ fd.node \notin tree.live /\ Crash

sys_chdir(p) ==
    LET n == find(tree, p)
    IN  IF n = lost THEN Crash
        ELSE /\ n # nullptr /\ tree.node[n].directory
             /\ cwd' = n
             /\ UNCHANGED <<tree, mounts, fd, odd, fault>>

\* These only look a path up; readlink then reads the field of the node that
\* the link leads to, which is not a link.
sys_stat(p) == find(tree, Abs(absolute(tree, p))) = lost /\ Crash

sys_access(p) == find(tree, Abs(absolute(tree, p))) = lost /\ Crash

sys_readlink(p) == find(tree, Abs(absolute(tree, p))) = lost /\ Crash

\* A component that is not the last is a file, or a link, which neither
\* create function follows.
RECURSIVE BelowFile(_, _)
BelowFile(d, ps) ==
    LET c == find_in(tree, d, Head(ps))
    IN  Len(ps) > 1 /\ c # nullptr
        /\ \/ ~ tree.node[c].directory
           \/ tree.node[c].type = "symlink"
           \/ BelowFile(c, Tail(ps))

sys_mkdir(p) ==
    LET d == IF p.abs THEN root ELSE cwd
        r == create_dir_path(tree, d, p.parts)
    IN  IF d \notin tree.live THEN Crash
        ELSE /\ Room(d, p.parts, 0)
             /\ tree' = r[1]
             /\ Note(r[1] # tree /\ BelowFile(d, p.parts), "below a file")
             /\ UNCHANGED <<mounts, cwd, fd, fault>>

sys_symlink(target, p) ==
    LET ps == absolute(tree, p)
        r == create_symlink_path(tree, ps, target)
    IN  IF "?" \in ToSet(ps) THEN Crash
        ELSE /\ Room(root, ps, 0)
             /\ r[2] # nullptr
             /\ tree' = r[1]
             /\ Note(r[2] \in tree.live, "linked over")
             /\ UNCHANGED <<mounts, cwd, fd, fault>>

\* sys_link makes a symbolic link to a path that exists.
sys_link(old, p) ==
    LET ps == absolute(tree, old)
    IN  IF find(tree, Abs(ps)) = lost THEN Crash
        ELSE find(tree, Abs(ps)) # nullptr /\ sys_symlink(Abs(ps), p)

InUse(n) ==
    \/ n = cwd
    \/ fd.kind = "node" /\ fd.node = n
    \/ tree.node[n].children # <<>>

\* vfs::remove follows links, and looks at nobody who may hold the node.
remove(p) ==
    LET n == find(tree, p)
        d == tree.node[n].parent
    IN  IF n = lost THEN Crash
        ELSE /\ n \notin {nullptr, root}
             /\ ~ (tree.node[n].directory /\ tree.node[n].children # <<>>)
             /\ IF d \notin tree.live THEN Crash
                ELSE /\ tree' = [live |-> tree.live \ {n},
                                 node |-> [tree.node EXCEPT ![d].children = Remove(@, n),
                                                      ![n] = Blank]]
                     /\ odd' = odd \cup {s \in {"removed in use"} : InUse(n)}
                                   \cup {s \in {"unhooked"} : tree.node[n].type = "mount"}
                     /\ UNCHANGED <<mounts, cwd, fd, fault>>

\* The node is made if there is none; the new mount is first in the list.
mount(ps, f) ==
    LET n == find(tree, Abs(ps))
        r == IF n = nullptr THEN create_dir_path(tree, root, ps) ELSE <<tree, n>>
    IN  IF n = lost THEN Crash
        ELSE /\ Len(mounts) < MAX_MOUNTS
             /\ Room(root, ps, IF f = "procfs" THEN 1 ELSE 0)
             /\ tree' = mount_on(r[1], r[2], f)
             /\ mounts' = << [path |-> ps, fs |-> f,
                              id |-> Min(1 .. MAX_MOUNTS \ {mounts[i].id : i \in DOMAIN mounts})] >>
                          \o mounts
             /\ odd' = odd \cup {s \in {"mounted twice"} : r[1].node[r[2]].type = "mount"}
                           \cup {s \in {"mounted elsewhere"} : get_path(r[1], r[2]) # ps}
                           \cup {s \in {"initialised twice"} : f = "procfs"}
                           \cup {s \in {"below a file"} : n = nullptr /\ BelowFile(root, ps)}
             /\ UNCHANGED <<cwd, fd, fault>>

\* Mutant: the loop does not stop at the first match.
umount_all(ps) ==
    LET I == {i \in DOMAIN mounts : mounts[i].path = ps}
        n == find(tree, Abs(ps))
    IN  /\ I # {}
        /\ n \notin {lost, nullptr}
        /\ mounts' = SelectSeq(mounts, LAMBDA m : m.path # ps)
        /\ tree' = [tree EXCEPT !.node[n].type = "dir", !.node[n].filesystem = "none"]
        /\ Note(fd.kind = "mount" /\ fd.id = mounts[Min(I)].id, "unmounted in use")
        /\ UNCHANGED <<cwd, fd, fault>>

\* fs::umount frees the first mount of that path and unmarks the node.
umount(ps) ==
    LET I == {i \in DOMAIN mounts : mounts[i].path = ps}
        n == find(tree, Abs(ps))
    IN  /\ I # {}
        /\ IF n = lost THEN Crash
           ELSE /\ mounts' = RemoveAt(mounts, Min(I))
                /\ tree' = IF n # nullptr /\ tree.node[n].type = "mount"
                             THEN [tree EXCEPT !.node[n].type = "dir",
                                               !.node[n].filesystem = "none"]
                             ELSE tree
                /\ Note(fd.kind = "mount" /\ fd.id = mounts[Min(I)].id, "unmounted in use")
                /\ UNCHANGED <<cwd, fd, fault>>

sys_mount(p, f) == mount(absolute(tree, p), f)

sys_umount(p) == umount(absolute(tree, p))

Running == ~ fault /\ Cardinality(odd) <= MaxOdd

Halted == ~ Running /\ UNCHANGED vars

Common(P) ==
    \/ \E p \in P :
         \/ \E O_CREAT \in BOOLEAN : sys_open(p, O_CREAT)
         \/ sys_chdir(p) \/ sys_mkdir(p) \/ remove(p)
         \/ sys_stat(p) \/ sys_access(p) \/ sys_readlink(p)
    \/ sys_close
    \/ sys_fstat

Linking(P) == \E p \in P :
    \/ \E target \in Targets : sys_symlink(target, p)
    \/ \E old \in Targets : sys_link(old, p)

Mounting(P) == \E p \in P :
    \/ \E f \in {"procfs", "tmpfs"} : sys_mount(p, f)
    \/ sys_umount(p)

Next == (Running /\ (Common(Paths) \/ Linking(Paths) \/ Mounting(Paths))) \/ Halted

Spec == Init /\ [][Next]_vars
----------------------------------------------------------------------------
Without(S) == odd \cap S = {}

\* Every node hangs once under its parent, siblings differ in name and only
\* directories have children, through all creation and removal: as long as
\* nothing in use is removed, no file system's init runs a second time and
\* no directory is made below a file, none of which the code prevents.
TreeSound ==
    /\ Without({"removed in use"}) =>
         \A n \in tree.live \ {root} :
           LET d == tree.node[n].parent
           IN  /\ d \in tree.live
               /\ Len(SelectSeq(tree.node[d].children, LAMBDA c : c = n)) = 1
               /\ ToSet(tree.node[n].children) \subseteq tree.live
    /\ Without({"removed in use", "initialised twice"}) =>
         \A m, n \in tree.live \ {root} :
           /\ tree.node[m].parent = tree.node[n].parent
           /\ tree.node[m].name = tree.node[n].name
           => m = n
    /\ Without({"removed in use", "initialised twice", "below a file"}) =>
         \A n \in tree.live : tree.node[n].children # <<>> => tree.node[n].directory

\* The working directory and the open entry name a live node or a mount that
\* is still on the list, unless remove or umount was called on that very one.
HeldLive ==
    /\ Without({"removed in use"}) => cwd \in tree.live
    /\ Without({"removed in use"}) /\ fd.kind = "node" => fd.node \in tree.live
    /\ Without({"unmounted in use"}) /\ fd.kind = "mount" =>
         \E i \in DOMAIN mounts : mounts[i].id = fd.id

\* What a path means: a link is replaced by its text, on the spot, and what
\* is left is walked from the directory that holds the link.
RECURSIVE Meaning(_, _, _)
Meaning(n, ps, fuel) ==
    IF ps = <<>> THEN n
    ELSE IF fuel = 0 THEN lost
    ELSE LET x == Head(ps)
             c == find_in(tree, n, x)
             m == tree.node[n]
             s == tree.node[c].symlink
         IN  IF x = "." THEN Meaning(n, Tail(ps), fuel)
             ELSE IF x = ".." THEN Meaning(IF n = root THEN n ELSE m.parent, Tail(ps), fuel)
             ELSE IF c = nullptr
               THEN IF m.type = "mount" /\ fs_open(m.filesystem, ps) THEN n ELSE nullptr
             ELSE IF tree.node[c].type = "symlink"
               THEN Meaning(IF s.abs THEN root ELSE n, s.parts \o Tail(ps), fuel - 1)
             ELSE Meaning(c, Tail(ps), fuel)

\* find, which turns a relative link into an absolute path and starts over,
\* reaches the node that replacing links on the spot reaches, and it runs out
\* of stack only when that never ends either.  (Not where a node with
\* children was made a link, or a directory below one: then the way back
\* down from the root is another.)
FindMeansPath ==
    Without({"removed in use", "linked over", "below a file"}) =>
      \A p \in Paths :
        find(tree, p) = IF p.abs THEN Meaning(root, p.parts, 3 * Fuel)
                        ELSE Meaning(cwd, p.parts, 3 * Fuel)

Plain(p) == ToSet(p.parts) \cap {".", ".."} = {}

\* A path that mkdir or open with O_CREAT has just made is the path that a
\* lookup finds it by; the names "." and ".." are the exception, for which
\* both make a node that no lookup ever reaches, and so is a link in the way.
CreatedIsFound ==
    Without({"removed in use"}) =>
      \A p \in Paths :
        LET d == IF p.abs THEN root ELSE cwd
            m == create_dir_path(tree, d, p.parts)
            f == create_file_path(tree, d, p.parts)
        IN  Plain(p) /\ Room(d, p.parts, 0) /\ ~ BelowFile(d, p.parts) =>
              /\ m[2] # nullptr /\ m[1].node[m[2]].type # "symlink"
                   => find(m[1], p) = m[2]
              /\ f[2] # nullptr /\ f[1].node[f[2]].type # "symlink"
                   => find(f[1], p) = f[2]

\* The mount that sys_open picks by comparing path texts is the mount of the
\* last mount point on the way down the tree.  It need not be after a second
\* mount of the same place, a mount through a link, the removal of a mount
\* point, or a second init that puts a node in front of a mount point.
MountsMatch ==
    odd \subseteq {"below a file", "unmounted in use"} =>
      \A p \in Paths : p.abs /\ Plain(p) /\ p.parts # <<>> =>
        LET at(k) == create_dir_path(tree, root, SubSeq(p.parts, 1, k))[2]
            K == {k \in 1 .. Len(p.parts) :
                    /\ Missing(root, SubSeq(p.parts, 1, k)) = 0
                    /\ tree.node[at(k)].type = "mount"}
            m == find_mount(p.parts)
        IN  IF K = {} THEN m = 0
            ELSE m # 0 /\ mounts[m].path = SubSeq(p.parts, 1, Max(K))
=============================================================================
