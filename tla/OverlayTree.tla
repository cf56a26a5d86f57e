---------------------------- MODULE OverlayTree ----------------------------
(***************************************************************************)
(* One directory of an overlay, the layers under it, the cache of nodes    *)
(* that src/src/overlay.rs keeps over them, and the handlers that read and *)
(* change both.  Every handler modelled here holds OverlayFs.inner for its *)
(* whole length, so it is one step: from the state it finds to the one     *)
(* after its last system call or, where the setup has faults, to the one   *)
(* after an earlier system call.                                           *)
(*                                                                         *)
(* The directory is the mount's root (its node has last_layer_idx 0, as    *)
(* OverlayInner sets it) or a directory merged from all layers (its node   *)
(* has the index of the lowest one).  The setup of a behaviour says which, *)
(* what the lower layers hold, and what users do.                          *)
(***************************************************************************)
EXTENDS Integers, SequencesExt, Maps

CONSTANTS
    Names,          \* names in the directory
    SubNames,       \* names in its subdirectories
    NL,             \* number of lower layers; layer 0 is the upper one
    Content,        \* what a file can hold, "new" included
    Setups          \* the mounts and uses to consider

Base == << >>
Path == {Base} \cup {<<n>> : n \in Names} \cup (Names \X SubNames)
Parent(p) == SubSeq(p, 1, Len(p) - 1)
Kids(p) == {q \in Path \ {Base} : Parent(q) = p}
Under(p) == {q \in Path : Len(q) > Len(p) /\ SubSeq(q, 1, Len(p)) = p}
Tree(p) == {p} \cup Under(p)
Upward(p) == {SubSeq(p, 1, n) : n \in 0 .. Len(p)}

Layer == 0 .. NL

\* What a layer can have at a path: nothing, a char device 0/0, a directory,
\* an opaque directory, a file, or (lower layers) only a file .wh.<name>.
DirEnt == {"dir", "opq"}
UpperEnt == {"none", "wh"} \cup DirEnt \cup Content
Ent == UpperEnt \cup {"dotwh"}

\* A layer's entries are in its directories.
WellFormed(l) == \A p \in Path : l[p] # "none" /\ p # Base => l[Parent(p)] \in DirEnt

\* A setup: what the lower layers hold; last_layer_idx of the directory;
\* OverlayInner.can_mknod; does RENAME_WHITEOUT work; the calls users make, the
\* paths they make them on, and the destinations they rename and link to.
\* Two of the calls are faults: "crash", and "fail", where a system call that
\* needs space (one that makes or moves an entry) may fail.
ASSUME SetupAssumption ==
    /\ NL \in Nat \ {0}
    /\ "new" \in Content /\ "none" \notin Content
    /\ \A s \in Setups :
          /\ DOMAIN s = {"lower", "last", "can_mknod", "rename_whiteout",
                         "calls", "paths", "to"}
          /\ s.last \in Layer /\ s.can_mknod \in BOOLEAN /\ s.rename_whiteout \in BOOLEAN
          /\ s.paths \subseteq Path /\ s.to \subseteq Path
          /\ s.lower \in [1 .. NL -> [Path -> Ent]]
          /\ \A i \in 1 .. NL : WellFormed(s.lower[i]) /\ s.lower[i][Base] = "dir"

\* REFRESH_DIR leaves the old nodes of the children in the arena and the inode
\* table, and calls by number (write, setattr, link, and calls in a directory)
\* still go to them; calls by name go to the new ones.  With one node for a
\* path, this module has refresh only where files are called by name.
ByName == {"lookup", "readdir", "create", "mknod", "symlink", "unlink", "rmdir",
           "refresh", "mount", "crash", "fail"}

ASSUME RefreshAssumption ==
    \A s \in Setups : "refresh" \in s.calls =>
        /\ s.calls \subseteq ByName
        /\ \A i \in 1 .. NL, p \in Path : p # Base => s.lower[i][p] \notin DirEnt

VARIABLES
    setup,      \* never changes
    u,          \* the upper layer
    w,          \* names p for which the upper layer has a file .wh.<p>
    mem,        \* the cached nodes, by path
    reply       \* answer to the last call

lower == setup.lower
CanMknod == setup.can_mknod

vars == <<setup, u, w, mem, reply>>

\* OvlNode and its DirState; wh is DirState::Dir.whiteouts.
Node == [layer : Layer, last : Layer, dir : BOOLEAN, loaded : BOOLEAN,
         wh : SUBSET Path]

NewNode(layer, last, dir, loaded) ==
    [layer |-> layer, last |-> last, dir |-> dir, loaded |-> loaded, wh |-> {}]

\* Handlers are built from steps on the mutable state as a whole.
Now == [u |-> u, w |-> w, m |-> mem]

At(s, i, p) == IF i = 0 THEN s.u[p]
               ELSE IF lower[i][p] = "dotwh" THEN "none" ELSE lower[i][p]
Dot(s, i, p) == IF i = 0 THEN p \in s.w ELSE lower[i][p] = "dotwh"

Present(s, i, p) == At(s, i, p) # "none"
Hit(s, i, p) == Present(s, i, p) \/ Dot(s, i, p)
Whited(s, i, p) == Dot(s, i, p) \/ At(s, i, p) = "wh"

Children(s, p) == Kids(p) \cap DOMAIN s.m

-----------------------------------------------------------------------------
(* Finding names. *)

\* insert_child: the parent's whiteout for the name goes.
insert_child(s, p, node) ==
    [s EXCEPT !.m = Put([s.m EXCEPT ![Parent(p)].wh = @ \ {p}], p, node)]

insert_whiteout(s, p) == [s EXCEPT !.m[Parent(p)].wh = @ \cup {p}]

do_lazy_lookup(s, p) ==
    LET last   == s.m[Parent(p)].last
        layers == IF last > 0 THEN 0 .. last ELSE Layer
        hits   == {i \in layers : Hit(s, i, p)}
        first  == Min(hits)
        deep   == Max({i \in layers : Present(s, i, p)})
        ent    == At(s, first, p)
    IN  IF hits = {} THEN s
        ELSE IF Whited(s, first, p) THEN insert_whiteout(s, p)
        ELSE insert_child(s, p, NewNode(first, IF ent = "opq" THEN first ELSE deep,
                                        ent \in DirEnt, FALSE))

\* The name was found if p is in the result's nodes.
do_lookup_file(s, p) ==
    LET dir == s.m[Parent(p)]
    IN  IF p \in DOMAIN s.m \/ p \in dir.wh \/ dir.loaded
        THEN s
        ELSE do_lazy_lookup(s, p)

\* Mutants: the scan ends before the last layer, or takes the root's
\* last_layer_idx 0 for a layer to end at.
ScannedShort(s, p) ==
    {i \in Layer : At(s, i, p) \in DirEnt /\ (s.m[p].last > 0 => i < s.m[p].last)}
ScannedRoot(s, p) ==
    {i \in Layer : At(s, i, p) \in DirEnt /\ i <= s.m[p].last}

\* The layers load_dir_impl reads directory p from.
Scanned(s, p) ==
    {i \in Layer :
        /\ At(s, i, p) \in DirEnt
        /\ \A j \in 0 .. i - 1 :
              /\ ~(j = s.m[p].last /\ j > 0)
              /\ At(s, j, p) \in {"dir", "none"}}

\* A name of p that the scan turns into a node, and that node.
ScanFinds(s, p, c) ==
    LET hits == {i \in Scanned(s, p) : Hit(s, i, c)}
    IN  /\ c \notin DOMAIN s.m
        /\ c \notin s.m[p].wh
        /\ hits # {}
        /\ ~Whited(s, Min(hits), c)

ScanHides(s, p, c) ==
    LET hits == {i \in Scanned(s, p) : Hit(s, i, c)}
    IN  /\ c \notin DOMAIN s.m
        /\ hits # {}
        /\ Whited(s, Min(hits), c)

ScanLayers(s, p, c) == {i \in Scanned(s, p) : Present(s, i, c)}

load_dir_impl(s, p) ==
    LET found == {c \in Kids(p) : ScanFinds(s, p, c)}
        hidden == {c \in Kids(p) : ScanHides(s, p, c)}
        scan(c) == ScanLayers(s, p, c)
        new(c) == NewNode(Min(scan(c)), Max(scan(c)),
                          At(s, Min(scan(c)), c) \in DirEnt, FALSE)
        \* A child the cache has keeps its layer; its last layer follows the scan.
        old(c) == IF scan(c) = {} THEN s.m[c] ELSE [s.m[c] EXCEPT !.last = Max(scan(c))]
    IN  [s EXCEPT !.m =
            [c \in DOMAIN s.m \cup found |->
                CASE c \in found -> new(c)
                  [] c \in Children(s, p) -> old(c)
                  [] c = p -> [s.m[p] EXCEPT !.loaded = TRUE, !.wh = @ \cup hidden]
                  [] OTHER -> s.m[c]]]

reload_dir(s, p) == IF s.m[p].loaded THEN s ELSE load_dir_impl(s, p)

-----------------------------------------------------------------------------
(* Changing the upper layer. *)

\* Mutant: copy-up does not move the node to layer 0.
get_node_upStays(s, p) ==
    LET low == {q \in Upward(p) : s.m[q].layer > 0}
    IN  [s EXCEPT !.u = [q \in Path |-> IF q \notin low THEN @[q]
                                        ELSE IF s.m[q].dir THEN "dir"
                                        ELSE At(s, s.m[q].layer, q)],
                  !.w = @ \ low]

\* copyup and create_node_directory: p and the directories above it that are
\* not on the upper layer are copied to it, with their .wh. files removed.
\* The upper layer has nothing under those names (CacheIsTrue), so what
\* create_node_directory does when its renameat finds one there is left out.
get_node_up(s, p) ==
    LET low == {q \in Upward(p) : s.m[q].layer > 0}
    IN  [u |-> [q \in Path |-> IF q \notin low THEN s.u[q]
                               ELSE IF s.m[q].dir THEN "dir"
                               ELSE At(s, s.m[q].layer, q)],
         w |-> s.w \ low,
         m |-> [q \in DOMAIN s.m |-> IF q \in low THEN [s.m[q] EXCEPT !.layer = 0]
                                     ELSE s.m[q]]]

\* The states that get_node_up goes through: from the top down.
Upping(s, p) == [n \in 1 .. Len(p) + 1 |-> get_node_up(s, SubSeq(p, 1, n - 1))]

\* Everything at and under p leaves the upper layer.
Cleared(s, p) == [s EXCEPT !.u = [q \in Path |-> IF q \in Tree(p) THEN "none" ELSE @[q]],
                           !.w = @ \ Under(p)]

\* An empty directory: not even whiteouts or the opaque sentinel in it.
EmptyOnDisk(s, p) ==
    /\ s.u[p] = "dir"
    /\ \A q \in Under(p) : s.u[q] = "none" /\ q \notin s.w

\* Mutants: only the char device is looked for; all whiteouts of the directory
\* go.
delete_whiteoutDevice(s, p) == [s EXCEPT !.u[p] = IF @ = "wh" THEN "none" ELSE @]

delete_whiteoutAll(s, p) ==
    [s EXCEPT !.u = [q \in Path |-> IF q \in Kids(Parent(p)) /\ @[q] = "wh" THEN "none" ELSE @[q]],
              !.w = @ \ Kids(Parent(p))]

delete_whiteout(s, p) ==
    [s EXCEPT !.u[p] = IF @ = "wh" THEN "none" ELSE @, !.w = @ \ {p}]

\* create_whiteout for a name that is free on the upper layer.  Whether device
\* nodes can be made is known from the start: the fallback after an mknod that
\* is refused at run time, and CAN_MKNOD that it clears, are left out here and
\* in delete_whiteout.
create_whiteout(s, p) ==
    IF CanMknod THEN [s EXCEPT !.u[p] = "wh"] ELSE [s EXCEPT !.w = @ \cup {p}]

mark_unloaded(s, p) == [s EXCEPT !.m[p].loaded = FALSE]

Forgotten(s, p) == [s EXCEPT !.m = [q \in DOMAIN @ \ Tree(p) |-> @[q]]]

-----------------------------------------------------------------------------
(* Handlers. *)

Become(s) == u' = s.u /\ w' = s.w /\ mem' = s.m /\ UNCHANGED setup

Answer(op, args, err, val) ==
    reply' = [op |-> op, args |-> args, err |-> err, val |-> val]

Fail(op, args, err, s) == Answer(op, args, err, {}) /\ Become(s)
Done(op, args, s) == Answer(op, args, "ok", {}) /\ Become(s)

BaseNode == NewNode(0, setup.last, TRUE, FALSE)
Fresh == Put(EmptyMap, Base, BaseNode)

\* A handler that finishes ends in the last of its states.  It fails in one
\* of those before its last system call that can fail; a crash, and the mount
\* that follows it, finds the disk in any of them.
Through(op, args, before, after) ==
    \/ Done(op, args, Last(after))
    \/ /\ "fail" \in setup.calls
       /\ \E s \in ToSet(before) : Fail(op, args, "EIO", s)
    \/ /\ "crash" \in setup.calls
       /\ \E s \in ToSet(before \o after) : Fail(op, args, "crash", [s EXCEPT !.m = Fresh])

\* The kernel only names entries of directories that it holds.  It can hold
\* every node of the cache: READDIRPLUS, which init asks for, hands it all the
\* children that opendir has loaded, without loading theirs.
Called(op, p) == op \in setup.calls /\ p \in setup.paths
Held(op, p) == Called(op, p) /\ p \in DOMAIN mem
Named(op, p) == Called(op, p) /\ p # Base /\ Parent(p) \in DOMAIN mem /\ mem[Parent(p)].dir

\* What reading p through its node gives.
ReadBy(s, p) == IF s.m[p].dir THEN "dir" ELSE At(s, s.m[p].layer, p)

\* The fast path: the node is cached and its inode registered.
LookupFast(p) ==
    /\ Named("lookup", p)
    /\ p \in DOMAIN mem
    /\ Answer("lookup", <<p>>, "ok", {ReadBy(Now, p)})
    /\ Become(Now)

LookupSlow(p) ==
    /\ Named("lookup", p)
    /\ LET s1 == do_lookup_file(Now, p)
           s2 == IF s1.m[p].dir THEN reload_dir(s1, p) ELSE s1
       IN  IF p \notin DOMAIN s1.m
           THEN Fail("lookup", <<p>>, "ENOENT", s1)
           ELSE Answer("lookup", <<p>>, "ok", {ReadBy(s2, p)}) /\ Become(s2)

\* opendir reloads the directory and keeps its listing for readdir.
Opendir(p) ==
    /\ Held("readdir", p)
    /\ mem[p].dir
    /\ LET s == reload_dir(Now, p)
       IN  Answer("readdir", <<p>>, "ok", Children(s, p)) /\ Become(s)

\* A new node for what a handler has put at p on the upper layer.
Added(s, p, dir) == insert_child(s, p, NewNode(0, 0, dir, dir))

\* A temporary in the work directory is renamed over p, replacing a file or
\* a char device, and the whiteout of p removed.
PutFile(op, p, before) ==
    LET s    == Last(before)
        made == [s EXCEPT !.u[p] = "new"]
    IN  IF s.u[p] \in DirEnt
        THEN Fail(op, <<p>>, "EISDIR", s)
        ELSE Through(op, <<p>>, before,
                     <<made, Added(delete_whiteout(made, p), p, FALSE)>>)

\* Without a known whiteout the file is opened in place with O_CREAT.
OpenFile(op, p, before) ==
    LET s == Last(before)
    IN  CASE s.u[p] = "wh" -> Fail(op, <<p>>, "ENXIO", s)
          [] s.u[p] \in DirEnt -> Fail(op, <<p>>, "EISDIR", s)
          [] OTHER -> Through(op, <<p>>, before,
                          <<Added([s EXCEPT !.u[p] = IF @ = "none" THEN "new" ELSE @],
                                  p, FALSE)>>)

Create(p) ==
    /\ Named("create", p)
    /\ LET s1 == do_lookup_file(Now, p)
           before == Upping(s1, Parent(p))
       IN  IF p \in DOMAIN s1.m THEN Fail("create", <<p>>, "EEXIST", s1)
           ELSE IF p \in s1.m[Parent(p)].wh THEN PutFile("create", p, before)
           ELSE OpenFile("create", p, before)

\* mknod and symlink differ in what they make in the work directory.
MakeAside(op, p) ==
    /\ Named(op, p)
    /\ LET s1 == do_lookup_file(Now, p)
       IN  IF p \in DOMAIN s1.m THEN Fail(op, <<p>>, "EEXIST", s1)
           ELSE PutFile(op, p, Upping(s1, Parent(p)))

Mknod(p) == MakeAside("mknod", p)
Symlink(p) == MakeAside("symlink", p)

\* What is at p and not a directory is in the way of the temporary, and
\* removed before the second renameat.
Mkdir(p) ==
    /\ Named("mkdir", p)
    /\ LET s1   == do_lookup_file(Now, p)
           ups  == Upping(s1, Parent(p))
           s2   == Last(ups)
           free == [s2 EXCEPT !.u[p] = IF @ \in DirEnt THEN @ ELSE "none"]
           made == [s2 EXCEPT !.u[p] = IF s2.m[Parent(p)].last > 0 THEN "opq" ELSE "dir"]
       IN  IF p \in DOMAIN s1.m THEN Fail("mkdir", <<p>>, "EEXIST", s1)
           ELSE IF s2.u[p] \in DirEnt /\ ~EmptyOnDisk(s2, p)
           THEN Fail("mkdir", <<p>>, "ENOTEMPTY", s2)
           ELSE Through("mkdir", <<p>>, Append(ups, free),
                        <<made, Added(delete_whiteout(made, p), p, TRUE)>>)

\* link: the whiteout of the new name goes before linkat makes it.
Link(p, q) ==
    /\ Held("link", p) /\ ~mem[p].dir
    /\ Named("link", q) /\ q \in setup.to
    /\ LET s1   == do_lookup_file(get_node_up(Now, p), q)
           ups  == Upping(Now, p) \o Upping(s1, Parent(q))
           free == delete_whiteout(Last(ups), q)
           made == [free EXCEPT !.u[q] = free.u[p]]
       IN  IF q \in DOMAIN s1.m \/ free.u[q] # "none"
           THEN Fail("link", <<p, q>>, "EEXIST", IF q \in DOMAIN s1.m THEN s1 ELSE free)
           ELSE Through("link", <<p, q>>, Append(ups, free), <<made, Added(made, q, FALSE)>>)

\* Mutant: only the node is asked for lower layers.
NeedsWhiteoutNode(s, p) == s.m[p].last > 0

\* hide_node: p goes to the work directory, a whiteout takes its place if
\* the code takes p to exist below, and do_rm drops the node.
NeedsWhiteout(s, p) == s.m[p].last > 0 \/ s.m[Parent(p)].last > 0

\* RENAME_WHITEOUT does both at once.  Without it the whiteout comes first: a
\* .wh. file, or a char device, for which the name is not free.
hide_nodeLate(op, p, before) ==
    LET gone == mark_unloaded(Forgotten(Cleared(Last(before), p), p), Parent(p))
    IN  Through(op, <<p>>, before, <<gone, create_whiteout(gone, p)>>)

hide_node(op, p, before) ==
    LET s    == Last(before)
        gone(r) == mark_unloaded(Forgotten(Cleared(r, p), p), Parent(p))
        marked  == [s EXCEPT !.w = @ \cup {p}]
    IN  CASE ~NeedsWhiteout(s, p) -> Through(op, <<p>>, before, <<gone(s)>>)
          [] NeedsWhiteout(s, p) /\ ~CanMknod ->
                Through(op, <<p>>, Append(before, marked), <<gone(marked)>>)
          [] NeedsWhiteout(s, p) /\ CanMknod /\ setup.rename_whiteout ->
                Through(op, <<p>>, before, <<create_whiteout(gone(s), p)>>)
          [] OTHER -> Fail(op, <<p>>, "EEXIST", s)

do_rm(op, p, isdir) ==
    LET s1 == do_lookup_file(Now, p)
        s2 == IF isdir THEN reload_dir(s1, p) ELSE s1
    IN  /\ Named(op, p)
        /\ \/ p \notin DOMAIN s1.m /\ Fail(op, <<p>>, "ENOENT", s1)
           \/ /\ p \in DOMAIN s1.m
              /\ s1.m[p].dir = isdir
              /\ IF isdir /\ Children(s2, p) # {}
                 THEN Fail(op, <<p>>, "ENOTEMPTY", s2)
                 ELSE hide_node(op, p, Upping(s2, p))

Unlink(p) == do_rm("unlink", p, FALSE)
Rmdir(p) == do_rm("rmdir", p, TRUE)

\* open for writing, and the write that follows.
Write(p) ==
    /\ Held("write", p)
    /\ ~mem[p].dir
    /\ Through("write", <<p>>, Upping(Now, p), <<[get_node_up(Now, p) EXCEPT !.u[p] = "new"]>>)

\* setattr, setxattr and removexattr: copy up, then change attributes.
Setattr(p) ==
    /\ Held("setattr", p)
    /\ Through("setattr", <<p>>, Upping(Now, p), <<get_node_up(Now, p)>>)

\* ioctl FUSE_OVFS_IOC_REFRESH_DIR: what the directory knows of its names is
\* forgotten, and they are read again; see RefreshAssumption.
Refresh(p) ==
    /\ Held("refresh", p)
    /\ mem[p].dir
    /\ LET s == [Now EXCEPT !.m = [q \in DOMAIN mem \ Under(p) |->
                                     IF q = p THEN [mem[p] EXCEPT !.wh = {}] ELSE mem[q]]]
       IN  Done("refresh", <<p>>, load_dir_impl(s, p))

-----------------------------------------------------------------------------
(* rename *)

\* The path that q has when what is at and under r moves to p.
Rebase(q, r, p) == p \o SubSeq(q, Len(r) + 1, Len(q))

\* f with its part at and under p moved to q.
MoveKeys(f, p, q) ==
    LET kept  == DOMAIN f \ (Tree(p) \cup Tree(q))
        moved == {r \in Tree(q) : Rebase(r, q, p) \in DOMAIN f}
    IN  [r \in kept \cup moved |-> IF r \in moved THEN f[Rebase(r, q, p)] ELSE f[r]]

MoveNames(S, p, q) ==
    (S \ (Under(p) \cup Under(q))) \cup {r \in Under(q) : Rebase(r, q, p) \in S}

Total(f) == [r \in Path |-> IF r \in DOMAIN f THEN f[r] ELSE "none"]

\* The whiteout sets of moved directories name their children's new paths.
Rewhite(m, p, q) ==
    [r \in DOMAIN m |-> [m[r] EXCEPT !.wh =
        IF r = q THEN {Rebase(x, p, q) : x \in @} ELSE @]]

\* renameat on the upper layer.
DiskMoved(s, p, q) ==
    [s EXCEPT !.u = Total(MoveKeys(@, p, q)), !.w = MoveNames(@, p, q)]

\* Mutant: the moved node leaves its children behind.
NodesMovedAlone(s, p, q) == [s EXCEPT !.m = Put(Drop(@, p), q, s.m[p])]

\* The node of q goes and that of p takes its place.
NodesMoved(s, p, q) ==
    [s EXCEPT !.m = [Rewhite(MoveKeys(s.m, p, q), p, q)
                     EXCEPT ![Parent(q)].wh = @ \ {q}]]

\* What is at p and at q change places.
Swap(f, p, q) ==
    LET back == MoveKeys(f, q, p)
        forth == MoveKeys(f, p, q)
    IN  [r \in (DOMAIN back \cap Tree(p)) \cup (DOMAIN forth \ Tree(p)) |->
            IF r \in Tree(p) THEN back[r] ELSE forth[r]]

\* Both parents need a new scan.
Unload(s, p, q) == mark_unloaded(mark_unloaded(s, Parent(p)), Parent(q))

\* What rename does before it looks at its flags: find the source, refuse a
\* directory that is not only on the upper layer, copy up what it needs.
Source(p) ==
    LET s == do_lookup_file(Now, p)
    IN  IF p \in DOMAIN s.m /\ s.m[p].dir THEN reload_dir(s, p) ELSE s

Merging(s, p) == s.m[p].dir /\ (s.m[p].layer > 0 \/ s.m[p].last > 0)

Preparing(p, q) ==
    Upping(Source(p), p) \o Upping(get_node_up(Source(p), p), Parent(q))

\* With the destination looked up.
Target(p, q) == do_lookup_file(Last(Preparing(p, q)), q)

\* A directory is not moved into itself, and its children fit in Path.
Renames(op, p, q) ==
    /\ Named(op, p) /\ Named(op, q) /\ p # q /\ q \in setup.to
    /\ LET s == Source(p)
       IN  p \in DOMAIN s.m =>
             /\ Parent(q) # p
             /\ s.m[p].dir => Len(p) = Len(q)

Refused(op, p, q) ==
    \/ p \notin DOMAIN Source(p).m /\ Fail(op, <<p, q>>, "ENOENT", Source(p))
    \/ /\ p \in DOMAIN Source(p).m
       /\ Merging(Source(p), p)
       /\ Fail(op, <<p, q>>, "EXDEV", Source(p))

Accepted(p) == p \in DOMAIN Source(p).m /\ ~Merging(Source(p), p)

\* renameat replaces a file by a file, and a directory only if it is empty.
Replaceable(s, p, q) ==
    IF s.m[p].dir THEN s.u[q] = "none" \/ EmptyOnDisk(s, q) ELSE s.u[q] \notin DirEnt

\* Mutant: no whiteout is left at the source.
FinishRenameBare(op, p, q, before) ==
    LET s == Last(before)
    IN  IF ~Replaceable(s, p, q) THEN Fail(op, <<p, q>>, "ENOTEMPTY", s)
        ELSE Done(op, <<p, q>>, NodesMoved(DiskMoved(Unload(s, p, q), p, q), p, q))

\* Mutant: the source leaves its place first.
FinishRenameAside(op, p, q, before) ==
    LET s     == Last(before)
        moved == NodesMoved(DiskMoved(Unload(s, p, q), p, q), p, q)
    IN  Through(op, <<p, q>>, Append(before, Cleared(s, p)), <<moved>>)

\* The source's whiteout comes last, and its failure is ignored.
FinishRename(op, p, q, before) ==
    LET s      == Last(before)
        moved  == NodesMoved(DiskMoved(Unload(s, p, q), p, q), p, q)
        hidden == IF s.m[p].last > 0 THEN create_whiteout(moved, p) ELSE moved
    IN  IF ~Replaceable(s, p, q) THEN Fail(op, <<p, q>>, "ENOTEMPTY", s)
        ELSE \/ Through(op, <<p, q>>, before, <<moved, hidden>>)
             \/ "fail" \in setup.calls /\ moved # hidden /\ Done(op, <<p, q>>, moved)

\* The upper layer's part of directory q is emptied before it is replaced.
empty_upper_dir(s, q) ==
    IF s.u[q] \in DirEnt
    THEN [s EXCEPT !.u = [r \in Path |-> IF r = q THEN "dir"
                                         ELSE IF r \in Under(q) THEN "none" ELSE @[r]],
                   !.w = @ \ Under(q)]
    ELSE s

\* A directory needs a free name: its whiteout goes first.
Unhidden(s, p, q) == IF s.m[p].dir THEN delete_whiteout(s, q) ELSE s

Rename(p, q) ==
    /\ Renames("rename", p, q)
    /\ \/ Refused("rename", p, q)
       \/ /\ Accepted(p)
          /\ LET s1 == Target(p, q)
                 there == q \in DOMAIN s1.m
                 isdir == there /\ s1.m[q].dir
                 s2 == IF isdir THEN reload_dir(s1, q) ELSE s1
                 s3 == Unhidden(IF isdir THEN empty_upper_dir(s2, q) ELSE s2, p, q)
             IN  /\ there => s1.m[q].dir = s1.m[p].dir
                 /\ IF isdir /\ Children(s2, q) # {}
                    THEN Fail("rename", <<p, q>>, "ENOTEMPTY", s2)
                    ELSE FinishRename("rename", p, q, Preparing(p, q) \o <<s2, s3>>)

\* RENAME_NOREPLACE is passed on to the upper file system.
RenameNoreplace(p, q) ==
    /\ Renames("noreplace", p, q)
    /\ \/ Refused("noreplace", p, q)
       \/ /\ Accepted(p)
          /\ LET s1 == Target(p, q)
                 s2 == Unhidden(s1, p, q)
             IN  IF q \in DOMAIN s1.m THEN Fail("noreplace", <<p, q>>, "EEXIST", s1)
                 ELSE IF s2.u[q] # "none" THEN Fail("noreplace", <<p, q>>, "EEXIST", s2)
                 ELSE FinishRename("noreplace", p, q, Preparing(p, q) \o <<s1, s2>>)

\* RENAME_EXCHANGE: the kernel sends it only for a destination it has found.
RenameExchange(p, q) ==
    /\ Renames("exchange", p, q)
    /\ \/ Refused("exchange", p, q)
       \/ /\ Accepted(p)
          /\ LET s1 == Target(p, q)
                 s2 == Unhidden(s1, p, q)
                 s3 == Unload(s2, p, q)
                 unload(n) == IF n.dir THEN [n EXCEPT !.loaded = FALSE] ELSE n
                 m1 == [s3.m EXCEPT ![p] = unload(@), ![q] = unload(@)]
                 m2 == Rewhite(Rewhite(Swap(m1, p, q), p, q), q, p)
             IN  /\ q \in DOMAIN s1.m
                 /\ Parent(p) # q
                 /\ s1.m[q].dir => Len(p) = Len(q)
                 /\ IF s2.u[q] = "none"
                    THEN Fail("exchange", <<p, q>>, "ENOENT", s2)
                    ELSE Through("exchange", <<p, q>>, Preparing(p, q) \o <<s1, s2>>,
                             <<[u |-> Total(Swap(s3.u, p, q)),
                               w |-> (s3.w \ (Under(p) \cup Under(q)))
                                      \cup {r \in Under(q) : Rebase(r, q, p) \in s3.w}
                                      \cup {r \in Under(p) : Rebase(r, p, q) \in s3.w},
                               m |-> m2]>>)

-----------------------------------------------------------------------------

\* The process ends and the same layers are mounted again.
Remount ==
    /\ "mount" \in setup.calls
    /\ mem' = Fresh
    /\ Answer("mount", << >>, "ok", {})
    /\ UNCHANGED <<setup, u, w>>

Init ==
    /\ setup \in Setups
    /\ u = [p \in Path |-> IF p = Base THEN "dir" ELSE "none"]
    /\ w = {}
    /\ mem = Fresh
    /\ reply = [op |-> "mount", args |-> << >>, err |-> "ok", val |-> {}]

Next ==
    \/ \E p \in Path :
          \/ LookupFast(p) \/ LookupSlow(p) \/ Opendir(p)
          \/ Create(p) \/ Mknod(p) \/ Symlink(p) \/ Mkdir(p)
          \/ Unlink(p) \/ Rmdir(p)
          \/ Write(p) \/ Setattr(p) \/ Refresh(p)
    \/ \E p, q \in Path :
          Link(p, q) \/ Rename(p, q) \/ RenameNoreplace(p, q) \/ RenameExchange(p, q)
    \/ Remount

Spec == Init /\ [][Next]_vars

-----------------------------------------------------------------------------
(* What the layers mean, from what is on disk alone. *)

\* The layers that directory p is merged from: from its first entry down to
\* the first whiteout, file or opaque directory.
Stack[p \in Path] ==
    IF p = Base THEN Layer
    ELSE LET hits == {i \in Stack[Parent(p)] : Hit(Now, i, p)}
         IN  {i \in hits :
                 /\ At(Now, i, p) \in DirEnt
                 /\ ~Whited(Now, i, p)
                 /\ \A j \in hits : j < i => At(Now, j, p) = "dir" /\ ~Whited(Now, j, p)}

Merged(p) ==
    LET hits == {i \in Stack[Parent(p)] : Hit(Now, i, p)}
        ent  == At(Now, Min(hits), p)
    IN  IF p = Base THEN "dir"
        ELSE IF hits = {} \/ Whited(Now, Min(hits), p) THEN "none"
        ELSE IF ent \in DirEnt THEN "dir" ELSE ent

-----------------------------------------------------------------------------
(* Properties. *)

\* Types, and the shape of the tree: nodes hang under directory nodes, and
\* upper entries under upper directories.
TypeOK ==
    /\ setup \in Setups
    /\ u \in [Path -> UpperEnt]
    /\ w \subseteq Path \ {Base}
    /\ IsMap(mem, Path, Node)
    /\ Base \in DOMAIN mem
    /\ \A p \in DOMAIN mem \ {Base} : Parent(p) \in DOMAIN mem /\ mem[Parent(p)].dir
    /\ \A p \in Path \ {Base} : u[p] # "none" \/ p \in w => u[Parent(p)] \in DirEnt

\* The mount as one directory tree.
FS == INSTANCE AbstractFS WITH fs <- [p \in Path |-> Merged(p)]

\* Every call of every handler does to the merged tree what it says, answers
\* with what is in it, and leaves everything else alone; remounting changes
\* nothing.
ActsAsOneTree == FS!Spec

\* A cached node stands for a name that the layers show, at the layer that
\* shows it: get_node_up never copies over something on the upper layer, and
\* no handler reads a layer where the name is not.
CacheIsTrue ==
    \A p \in DOMAIN mem \ {Base} :
        /\ Merged(p) # "none"
        /\ mem[p].dir = (Merged(p) = "dir")
        /\ mem[p].layer = Min({i \in Layer : Present(Now, i, p)})

\* A directory that is marked loaded has a node for every name the layers
\* show in it, and a name in its whiteout set is shown by no layer: the
\* negative answers of do_lookup_file are right.
AbsenceIsTrue ==
    \A p \in Path \ {Base} :
        Parent(p) \in DOMAIN mem /\ Merged(p) # "none" /\ p \notin DOMAIN mem =>
            ~mem[Parent(p)].loaded /\ p \notin mem[Parent(p)].wh

\* The mount as users see it, and the names a step leaves alone.
View == [p \in Path |-> Merged(p)]
LeavesAlone(S) == \A p \in Path \ S : Merged(p)' = Merged(p)

\* A crash between any two system calls of a handler that makes, removes or
\* writes a file, removes a directory or changes attributes leaves the mount as
\* it was or as the handler would have; a failed system call leaves it as it was.
AllOrNothing ==
    [][LET p == reply'.args[1]
           what == CASE reply'.op \in {"create", "mknod", "symlink", "write"} -> {"new"}
                     [] reply'.op \in {"unlink", "rmdir"} -> {"none"}
                     [] OTHER -> {}
       IN  reply'.err # "ok" /\ reply'.op \notin {"mkdir", "link", "rename", "noreplace"} =>
               \/ View' = View
               \/ reply'.err = "crash" /\ \E v \in what : View' = [View EXCEPT ![p] = v]]_vars

\* mkdir, link and rename, which remove a whiteout before they put something
\* in its place, can show the lower file there if they are interrupted; no
\* other name changes, whatever they copied up on the way.
OnlyNamedChange ==
    [][reply'.op \in {"mkdir", "link", "rename", "noreplace"} =>
        LeavesAlone(UNION {Tree(p) : p \in ToSet(reply'.args)})]_vars

\* Whatever interrupts a rename, what was at the old name is at one of the
\* two names, with all that is in it.
RenameKeepsSource ==
    [][reply'.op \in {"rename", "noreplace"} =>
        LET p == reply'.args[1]
            q == reply'.args[2]
        IN  \/ \A r \in Tree(p) : Merged(r)' = Merged(r)
            \/ \A r \in Tree(q) : Merged(r)' = FS!Moved(p, q)[r]]_vars

\* "test ! -e" after unlink and rmdir (do_rm): the name is gone from the
\* layers, and so after a remount too.
RemovedIsGone ==
    reply.op \in {"unlink", "rmdir"} /\ reply.err = "ok" => Merged(reply.args[1]) = "none"

\* A name that lookup finds is one that the layers show: what an opaque
\* directory hides stays hidden.
LookupShowsMerged ==
    reply.op = "lookup" /\ reply.err = "ok" => reply.val = {Merged(reply.args[1])}
=============================================================================
