--------------------------- MODULE MCOverlayTree ---------------------------
(* Small sets of mounts and uses for OverlayTree: names a and b, x in both. *)
EXTENDS OverlayTree

\* Layers whose entries in the directory, and in its subdirectories, are
\* among these.
Trees(top, sub) ==
    {l \in [Path -> {"none", "dir"} \cup top \cup sub] :
        /\ l[Base] = "dir"
        /\ \A p \in Path : Len(p) = 1 => l[p] \in top
        /\ \A p \in Path : Len(p) = 2 => l[p] \in sub
        /\ WellFormed(l)}

Pairs(xs, ys) == {<<x, y>> : x \in xs, y \in ys}

a == <<"a">>
b == <<"b">>
ax == <<"a", "x">>

Empty == Trees({"none"}, {"none"})
NoneAt(p, L) == L[1][p] = "none" /\ L[2][p] = "none"

\* Files only, with whiteouts of both kinds between two layers; b is like a,
\* or has fewer forms.
FlatLowers ==
    {L \in Pairs(Trees({"none", "wh", "dotwh", "low1"}, {"none"}),
                 Trees({"none", "low2"}, {"none"})) :
        L[1][b] \in {"none", L[1][a]}}

\* The same without a b.
SomeLowers == {L \in FlatLowers : NoneAt(b, L)}

\* A subdirectory a in both layers, with whiteouts of both kinds but nothing
\* opaque.
DeepLowers ==
    {L \in Pairs(Trees({"none", "dir", "wh", "dotwh", "low1"}, {"none", "wh", "low1"}),
                 Trees({"none", "dir", "low2"}, {"none", "low2"})) :
        NoneAt(b, L)}

\* Files, and in the lowest layer a directory a; the layer above it has a or b.
MoveLowers ==
    {L \in Pairs(Trees({"none", "wh", "low1"}, {"none"}),
                 Trees({"none", "dir", "low2"}, {"none", "low2"})) :
        L[2][b] # "dir" /\ (L[1][a] = "none" \/ L[1][b] = "none")}

\* Files only, in the lowest layer.
FileLowers == Pairs(Empty, Trees({"none", "low2"}, {"none"}))

\* A directory a with a file in it.
DirLowers == {L \in Pairs(Empty, Trees({"none", "dir"}, {"none", "low2"})) :
                 L[2][ax] = "low2" /\ L[2][b] = "none"}

\* Mounts with these lower layers, and these uses.
Mounts(lowers, last, mknod, calls, paths, to) ==
    [lower : lowers, last : {last}, can_mknod : mknod, rename_whiteout : {TRUE},
     calls : {calls}, paths : {paths}, to : {to}]

FileCalls == {"lookup", "readdir", "create", "mknod", "unlink", "write", "mount"}
LinkCalls == {"lookup", "readdir", "link", "unlink", "mount"}
DirCalls == FileCalls \cup {"rmdir", "setattr"}
NameCalls == {"lookup", "readdir", "create", "symlink", "unlink", "refresh", "mount"}
MoveCalls == {"lookup", "readdir", "rename", "unlink", "rmdir", "write", "setattr", "mount"}
CrashCalls == {"lookup", "readdir", "create", "symlink", "mkdir", "unlink", "rmdir", "crash"}
UpperCalls == {"lookup", "readdir", "symlink", "mkdir", "unlink", "rmdir", "rename",
               "noreplace", "exchange", "mount"}

\* Files in a merged directory, and in the mount's root if none is made again.
FileSetups ==
    Mounts(FlatLowers, NL, BOOLEAN, FileCalls, {Base, a, b}, {})
    \cup Mounts(FlatLowers, 0, {TRUE}, FileCalls \ {"create", "mknod"}, {Base, a, b}, {})
    \cup Mounts(FlatLowers, NL, BOOLEAN, LinkCalls, {Base, a, b}, {a, b})
    \cup Mounts(FlatLowers, NL, BOOLEAN, NameCalls, {Base, a, b}, {})

\* Subdirectories; renames of what was not made again; every call where the
\* lower layers are empty.
DirSetups ==
    Mounts(DeepLowers, NL, {TRUE}, DirCalls, {Base, a, ax}, {})
    \cup Mounts(MoveLowers, NL, {TRUE}, MoveCalls, Path, {b})
    \cup Mounts(Pairs(Empty, Empty), 0, {TRUE}, UpperCalls, Path, {a, b, ax})

TreeSetups == FileSetups \cup DirSetups

\* Crashes where files and directories are made again over files; crashes and
\* failures where names are moved, and where RENAME_WHITEOUT does not work.
FaultSetups ==
    Mounts(FlatLowers, NL, {TRUE}, LinkCalls \cup {"crash"}, {Base, a, b}, {a, b})
    \cup Mounts(SomeLowers, NL, BOOLEAN, CrashCalls, {Base, a, b}, {})
    \cup Mounts(SomeLowers, NL, {TRUE}, NameCalls \cup {"crash"}, {Base, a, b}, {})
    \cup Mounts({L \in MoveLowers : L[1][b] = "none"}, NL, {TRUE},
                (MoveCalls \ {"mount"}) \cup {"crash", "fail"}, {Base, a, ax, b}, {b})
    \cup {[s EXCEPT !.rename_whiteout = wh] :
            s \in Mounts(SomeLowers, NL, {TRUE}, FileCalls \cup {"fail"}, {Base, a, b}, {}),
            wh \in BOOLEAN}

\* The mount's root, where files are made again.
RootSetups ==
    Mounts(FileLowers, 0, {TRUE}, {"lookup", "readdir", "create", "unlink"}, {Base, a, b}, {})

\* Directories are made again, which makes them opaque.
OpaqueSetups ==
    Mounts(DirLowers, NL, {TRUE}, {"lookup", "readdir", "create", "unlink", "rmdir", "mkdir"},
           {Base, a, ax}, {})
=============================================================================
