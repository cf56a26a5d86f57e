---------------------------- MODULE FileNumbers ----------------------------
(***************************************************************************)
(* From a number to a file.  The kernel names files by the numbers that    *)
(* lookup and the handlers that make files gave it; OverlayInner finds the *)
(* inode table's entry for the number, a node of that entry in the arena,  *)
(* and the node's path.  Names go another way, through the children map of *)
(* the directory.  This module composes the two with the files on disk: a  *)
(* directory merged from the upper layer and one lower layer, with files   *)
(* only, which can have several links.                                     *)
(*                                                                         *)
(* InodeTable models the counts and the choice of numbers; here an entry   *)
(* lives until the kernel forgets its number.                              *)
(***************************************************************************)
EXTENDS Integers, FiniteSets, Functions, Maps

CONSTANTS
    Names,      \* names in the directory
    LIno,       \* inodes of the lower layer's file system
    UIno,       \* inodes of the upper layer's, used again once they are free
    Numbers,    \* numbers for files: a bound
    MaxNodes,   \* bound on the nodes made for a name, which refresh makes grow
    Uses        \* lower layers, the calls made and the names renamed to

ASSUME UsesAssumption ==
    /\ MaxNodes \in Nat
    /\ LIno \cap UIno = {} /\ {"none", "wh"} \cap (LIno \cup UIno) = {}
    /\ IsFiniteSet(UIno) /\ Cardinality(UIno) > Cardinality(Names)
    /\ \A k \in Uses : /\ DOMAIN k = {"low", "calls", "to"} /\ k.to \subseteq Names
                       /\ k.low \in [Names -> LIno \cup {"none"}]

VARIABLES
    use,        \* never changes
    up,         \* names of the upper layer: an inode, a whiteout or nothing
    arena,      \* NodeArena: the live nodes by id
    dir,        \* the directory's DirState
    table,      \* InodeTable.table
    fuse_map,   \* InodeTable.fuse_map
    dent,       \* the kernel's dentries: name to number
    held,       \* the numbers the kernel holds
    called      \* the names in the last call

vars == <<use, up, arena, dir, table, fuse_map, dent, held, called>>

low == use.low

Key == LIno \cup UIno
\* A node's id here: the name it was made for, and a number.
Id == Names \X (1 .. MaxNodes)

\* OvlNode: below says that last_layer_idx is the lower layer's.
Node == [name : Names, layer : {0, 1}, key : Key, below : BOOLEAN]
Entry == [ids : SUBSET Id, num : Numbers]

\* Handlers are built from steps on the state they share.
Now == [up |-> up, arena |-> arena, dir |-> dir, table |-> table, fuse_map |-> fuse_map]

\* What a name shows, and what a node reads, from what is on disk.
Shown(s, x) == IF s.up[x] = "none" THEN low[x] ELSE s.up[x]
Ino(s, id) == LET n == s.arena[id] IN IF n.layer = 0 THEN s.up[n.name] ELSE low[n.name]
Exists(s, x) == Shown(s, x) \in Key

Free(s) == UIno \ Range(s.up)

-----------------------------------------------------------------------------
(* The inode table. *)

\* The nodes that lookup_node_id may find: the set of an entry has no order.
lookup_node_id(s, n) ==
    IF n \notin DOMAIN s.fuse_map \/ s.fuse_map[n] \notin DOMAIN s.table THEN {}
    ELSE s.table[s.fuse_map[n]].ids \cap DOMAIN s.arena

NumberOf(s, key) == s.table[key].num
NewNumber(s) == CHOOSE n \in Numbers : n \notin DOMAIN s.fuse_map

\* Mutant: a node at an inode the table knows is not added.
registerOnce(s, id) ==
    LET key == s.arena[id].key
        n   == NewNumber(s)
    IN  IF key \in DOMAIN s.table THEN s
        ELSE [s EXCEPT !.table = Put(@, key, [ids |-> {id}, num |-> n]),
                       !.fuse_map = Put(@, n, key)]

\* A node joins the entry of its inode unless the entry has one at its path;
\* an entry without live nodes is of an inode that was used again.
register(s, id) ==
    LET key  == s.arena[id].key
        live == IF key \in DOMAIN s.table THEN s.table[key].ids \cap DOMAIN s.arena ELSE {}
        same == \E i \in live : s.arena[i].name = s.arena[id].name
        n    == NewNumber(s)
    IN  IF live # {}
        THEN [s EXCEPT !.table[key].ids = IF same THEN live ELSE live \cup {id}]
        ELSE [s EXCEPT !.table = Put(@, key, [ids |-> {id}, num |-> n]),
                       !.fuse_map = Put(@, n, key)]

-----------------------------------------------------------------------------
(* Nodes. *)

\* NodeArena::insert; ids of nodes that are gone are used again here.
FreeIds(s, x) == {k \in 1 .. MaxNodes : <<x, k>> \notin DOMAIN s.arena}
NewId(s, x) == <<x, CHOOSE k \in FreeIds(s, x) : TRUE>>

insert_child(d, x, id) == [d EXCEPT !.kids = Put(@, x, id), !.wh = @ \ {x}]
remove_child(d, x) == [d EXCEPT !.kids = Drop(@, x)]

\* Mutant: the key has no device, and lower files have one number.
NewNodeNoDev(s, x, below) ==
    [name |-> x, layer |-> IF s.up[x] = "none" THEN 1 ELSE 0,
     key |-> IF s.up[x] = "none" THEN CHOOSE i \in LIno : TRUE ELSE s.up[x], below |-> below]

\* A node for x at its first layer.
NewNode(s, x, below) ==
    [name |-> x, layer |-> IF s.up[x] = "none" THEN 1 ELSE 0, key |-> Shown(s, x), below |-> below]

Add(s, x, node) ==
    [s EXCEPT !.arena = Put(@, NewId(s, x), node),
              !.dir = insert_child(@, x, NewId(s, x))]

\* A lookup by name goes on to the lowest layer that has the name, and takes
\* the key from there: an upper file over a lower one has the lower inode's.
LazyNode(s, x) ==
    [NewNode(s, x, low[x] # "none") EXCEPT !.key = IF low[x] = "none" THEN @ ELSE low[x]]

do_lazy_lookup(s, x) ==
    LET s1 == Add(s, x, LazyNode(s, x))
    IN  CASE Exists(s, x) -> register(s1, s1.dir.kids[x])
          [] Shown(s, x) = "wh" -> [s EXCEPT !.dir.wh = @ \cup {x}]
          [] OTHER -> s

\* The name was found if it is among the children of the result.
do_lookup_file(s, x) ==
    IF x \in DOMAIN s.dir.kids \/ x \in s.dir.wh \/ s.dir.loaded THEN s
    ELSE do_lazy_lookup(s, x)

Found(s, x) == x \in DOMAIN s.dir.kids

\* load_dir_impl: nodes that are made here are not registered.
load_dir_impl(s) ==
    LET found == {x \in Names \ (DOMAIN s.dir.kids \cup s.dir.wh) : Exists(s, x)}
        old(id) == IF \E x \in DOMAIN s.dir.kids : s.dir.kids[x] = id
                   THEN [s.arena[id] EXCEPT !.below = low[s.arena[id].name] # "none"]
                   ELSE s.arena[id]
        new(x) == NewNode(s, x, low[x] # "none")
    IN  [s EXCEPT !.arena = [id \in DOMAIN @ \cup {NewId(s, x) : x \in found} |->
                                IF id \in DOMAIN @ THEN old(id) ELSE new(id[1])],
                  !.dir = [kids |-> [x \in DOMAIN @.kids \cup found |->
                                        IF x \in found THEN NewId(s, x) ELSE @.kids[x]],
                           wh |-> @.wh \cup {x \in Names \ DOMAIN @.kids : s.up[x] = "wh"},
                           loaded |-> TRUE]]

reload_dir(s) == IF s.dir.loaded THEN s ELSE load_dir_impl(s)

\* copyup: the file that the node reads goes to the upper layer under the
\* node's path, over what is there.  The node keeps its key.
get_node_up(s, id, ino) ==
    IF s.arena[id].layer = 0 THEN s
    ELSE [s EXCEPT !.up[s.arena[id].name] = ino, !.arena[id].layer = 0]

\* An entry keeps its number when its last node goes.
remove_node_id(f, key, id) == IF key \in DOMAIN f THEN [f EXCEPT ![key].ids = @ \ {id}] ELSE f

\* The child leaves the directory, its entry and the arena.
Removed(s, x) ==
    LET id  == s.dir.kids[x]
        key == s.arena[id].key
    IN  [s EXCEPT !.dir = remove_child(@, x),
                  !.arena = Drop(@, id),
                  !.table = remove_node_id(@, key, id)]

-----------------------------------------------------------------------------
(* Calls. *)

Become(op, names, s) ==
    /\ op \in use.calls
    /\ up' = s.up /\ arena' = s.arena /\ dir' = s.dir
    /\ table' = s.table /\ fuse_map' = s.fuse_map
    /\ called' = names
    /\ UNCHANGED use

\* The kernel learns the number of a name, drops names, or learns nothing.
Learn(x, n) == dent' = Put(dent, x, n) /\ held' = held \cup {n}
Kernel == UNCHANGED <<dent, held>>

\* Bounds: there is an id for a node of every name, and a number.
NodeRoom == \A x \in Names : FreeIds(Now, x) # {}
Room == NodeRoom /\ Numbers \ DOMAIN fuse_map # {}

Lookup(x) ==
    /\ Room
    /\ LET s1 == do_lookup_file(Now, x)
           s2 == register(s1, s1.dir.kids[x])
       IN  IF ~Found(s1, x)
           THEN /\ Become("lookup", {x}, s1)
                /\ dent' = Drop(dent, x) /\ UNCHANGED held
           ELSE /\ Become("lookup", {x}, s2)
                /\ Learn(x, NumberOf(s2, s2.arena[s2.dir.kids[x]].key))

Readdir == NodeRoom /\ Become("readdir", {}, reload_dir(Now)) /\ Kernel

\* open for writing, setattr, setxattr and the other handlers that take a
\* number and copy up: through one of the nodes of the number.
Change(x) ==
    /\ x \in DOMAIN dent
    /\ \E id \in lookup_node_id(Now, dent[x]), ino \in Free(Now) :
          Become("change", {x}, get_node_up(Now, id, ino))
    /\ Kernel

\* create_and_register_child, and the answer to the kernel.
Made(op, names, s, x) ==
    LET s1 == Add(s, x, NewNode(s, x, FALSE))
        s2 == register(s1, s1.dir.kids[x])
    IN  Become(op, names, s2) /\ Learn(x, NumberOf(s2, s.up[x]))

Create(x) ==
    /\ Room
    /\ x \notin DOMAIN dent
    /\ \E ino \in Free(Now) :
          LET s == do_lookup_file(Now, x)
          IN  IF Found(s, x) THEN Become("create", {x}, s) /\ Kernel
              ELSE Made("create", {x}, [s EXCEPT !.up[x] = ino], x)

\* The source is a number, and the file linked is the one at its node's path.
Link(x, y) ==
    /\ Room
    /\ x \in DOMAIN dent /\ y \notin DOMAIN dent
    /\ \E id \in lookup_node_id(Now, dent[x]), ino \in Free(Now) :
          LET s1 == get_node_up(Now, id, ino)
              s2 == do_lookup_file(s1, y)
          IN  IF Found(s2, y) THEN Become("link", {x, y}, s2) /\ Kernel
              ELSE Made("link", {x, y}, [s2 EXCEPT !.up[y] = s2.up[s2.arena[id].name]], y)

\* do_rm: the copy it makes first goes with the name.  The directory is
\* merged, so a whiteout is left.
Unlink(x) ==
    /\ Room
    /\ x \in DOMAIN dent
    /\ LET s == do_lookup_file(Now, x)
       IN  IF ~Found(s, x) THEN Become("unlink", {x}, s)
           ELSE Become("unlink", {x}, [Removed(s, x) EXCEPT !.up[x] = "wh", !.dir.loaded = FALSE])
    /\ dent' = Drop(dent, x)
    /\ UNCHANGED held

\* renameat does nothing for two names of one inode.
renameat(s, x, y) ==
    IF s.up[x] = s.up[y] THEN s ELSE [s EXCEPT !.up[y] = s.up[x], !.up[x] = "none"]

\* The destination is looked up again after renameat, so the node that goes
\* can be one that this lookup made for the moved file.
DropTarget(s, y) ==
    LET s1 == do_lookup_file(s, y)
    IN  IF Found(s1, y) THEN Removed(s1, y) ELSE s1

\* Mutant: the node keeps its name.
MoveNodeUnnamed(s, x, y) ==
    LET id == s.dir.kids[x]
    IN  [s EXCEPT !.dir = insert_child(remove_child(@, x), y, id),
                  !.up[x] = IF s.arena[id].below /\ @ = "none" THEN "wh" ELSE @]

\* The node of x becomes that of y, and x gets a whiteout if it is below.
MoveNode(s, x, y) ==
    LET id == s.dir.kids[x]
    IN  [s EXCEPT !.arena[id].name = y,
                  !.dir = insert_child(remove_child(@, x), y, id),
                  !.up[x] = IF s.arena[id].below /\ @ = "none" THEN "wh" ELSE @]

\* The kernel moves nothing itself for two names of one number.
Rename(x, y) ==
    /\ Room
    /\ x # y /\ x \in DOMAIN dent /\ y \in use.to
    /\ y \in DOMAIN dent => dent[y] # dent[x]
    /\ LET s1 == do_lookup_file(Now, x)
           id == s1.dir.kids[x]
       IN  IF ~Found(s1, x) THEN Become("rename", {x, y}, s1) /\ Kernel
           ELSE \E ino \in Free(s1) :
             LET s2 == do_lookup_file(get_node_up(s1, id, ino), y)
                 s3 == DropTarget([renameat(s2, x, y) EXCEPT !.dir.loaded = FALSE], y)
             IN  /\ Become("rename", {x, y}, MoveNode(s3, x, y))
                 /\ dent' = Put(Drop(dent, x), y, dent[x])
                 /\ UNCHANGED held

\* ioctl REFRESH_DIR: the children leave the directory and not the arena.
Refresh ==
    /\ NodeRoom
    /\ LET s == [Now EXCEPT !.dir.kids = EmptyMap, !.dir.wh = {}]
       IN  Become("refresh", {}, load_dir_impl(s))
    /\ Kernel

\* The kernel drops a dentry that nobody uses; the name is still there.
Evict(x) ==
    /\ x \in DOMAIN dent
    /\ Become("evict", {}, Now)
    /\ dent' = Drop(dent, x) /\ UNCHANGED held

\* The kernel gives up a number that it has no dentry for: the file was
\* removed, or its dentries were evicted.
Forget(n) ==
    /\ n \in held \ Range(dent)
    /\ LET key == fuse_map[n]
           own == key \in DOMAIN table /\ NumberOf(Now, key) = n
       IN  Become("forget", {}, [Now EXCEPT !.fuse_map = Drop(@, n),
                                            !.table = IF own THEN Drop(@, key) ELSE @])
    /\ held' = held \ {n}
    /\ UNCHANGED dent

NewDir == [kids |-> EmptyMap, wh |-> {}, loaded |-> FALSE]

Remount ==
    /\ Become("mount", {}, [up |-> up, arena |-> EmptyMap, dir |-> NewDir,
                            table |-> EmptyMap, fuse_map |-> EmptyMap])
    /\ dent' = EmptyMap /\ held' = {}

Init ==
    /\ use \in Uses
    /\ up = [x \in Names |-> "none"]
    /\ arena = EmptyMap /\ dir = NewDir
    /\ table = EmptyMap /\ fuse_map = EmptyMap
    /\ dent = EmptyMap /\ held = {}
    /\ called = {}

Next ==
    \/ \E x \in Names : Lookup(x) \/ Change(x) \/ Create(x) \/ Unlink(x) \/ Evict(x)
    \/ \E x, y \in Names : Link(x, y) \/ Rename(x, y)
    \/ Readdir \/ Refresh \/ Remount
    \/ \E n \in Numbers : Forget(n)

Spec == Init /\ [][Next]_vars

-----------------------------------------------------------------------------
(* Properties. *)

\* Uses in which a number does lead to the file: no refresh, which leaves
\* nodes behind; lower files with one name each; and renames, if any, only
\* where no file is made or moved over a lower one.
Careful(k) ==
    /\ "refresh" \notin k.calls
    /\ \A x, y \in Names : k.low[x] = k.low[y] /\ k.low[x] # "none" => x = y
    /\ \/ "rename" \notin k.calls
       \/ \A x \in Names : k.low[x] = "none"
       \/ {"create", "link"} \cap k.calls = {} /\ \A y \in k.to : k.low[y] = "none"

\* Types; every child of the directory is a live node of that name, and a
\* number leads to an entry that has it or had it.
TypeOK ==
    /\ use \in Uses
    /\ up \in [Names -> UIno \cup {"none", "wh"}]
    /\ IsMap(arena, Id, Node)
    /\ IsMap(dir.kids, Names, DOMAIN arena) /\ dir.wh \subseteq Names /\ dir.loaded \in BOOLEAN
    /\ \A x \in DOMAIN dir.kids : arena[dir.kids[x]].name = x
    /\ IsMap(table, Key, Entry) /\ IsMap(fuse_map, Numbers, Key)
    /\ \A key \in DOMAIN table :
          NumberOf(Now, key) \in DOMAIN fuse_map /\ fuse_map[NumberOf(Now, key)] = key
    /\ IsMap(dent, Names, held) /\ held \subseteq DOMAIN fuse_map

\* Every number the kernel has for a name leads to a live node, and whichever
\* node lookup_node_id takes, its path and layer hold the file that the layers
\* show under that name: reads and writes by number reach the file opened.
NumberMeansName ==
    \A x \in DOMAIN dent :
        /\ lookup_node_id(Now, dent[x]) # {}
        /\ \A id \in lookup_node_id(Now, dent[x]) : Ino(Now, id) = Shown(Now, x)

\* A call changes what its own names show and no other name: a request by
\* number never copies up, links or removes at the path of another file.
OnlyCalledChange ==
    [][\A x \in Names \ called' : Shown(Now, x)' = Shown(Now, x)]_vars
=============================================================================
