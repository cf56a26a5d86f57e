----------------------------- MODULE InodeTable -----------------------------
(***************************************************************************)
(* The inode table of src/src/node.rs and every use the FUSE handlers of   *)
(* src/src/overlay.rs make of it.                                          *)
(*                                                                         *)
(* The table gives each physical inode, named by its key (ino, dev), the   *)
(* number by which the kernel knows it, and counts the references to that  *)
(* number that the kernel owes a FORGET for.  The kernel is the            *)
(* environment: kernel[f] is the number of replies that handed it f, less  *)
(* what it has forgotten.  All handlers run under the write lock of        *)
(* OverlayFs.inner (lookup's fast path under the read lock, where it only  *)
(* increments an atomic), so a handler is one step.                        *)
(*                                                                         *)
(* Which key and which path a node has is left to the directory code: here *)
(* a handler may be called with any, so what holds of the table holds for  *)
(* every sequence of calls.                                                *)
(***************************************************************************)
EXTENDS Integers, Maps

CONSTANTS
    Inos,           \* inode numbers of the underlying file systems
    Devs,           \* their devices
    SameDevice,     \* InodeTable.same_device: all layers on one device
    Mix,            \* the hash of (ino, dev) used when they are not
    MaxIno,         \* the largest inode number, 2^64 - 1 in the code
    FallbackBase,   \* the first fallback number, 2^63 in the code
    Path,           \* paths inside the overlay
    MaxNodes,       \* bound: nodes ever created
    MaxLookups,     \* bound: references counted for one number
    PartialForget,  \* may the kernel forget some of its references only?
    Readdirplus,    \* does the kernel use READDIRPLUS?
    StaleListing    \* may names vanish between OPENDIR and READDIRPLUS?

Key == [ino : Inos, dev : Devs]
Fuse == 2 .. MaxIno
NodeId == Nat \ {0}

ASSUME InosAssumption == Inos \subseteq 0 .. MaxIno
ASSUME NumberAssumption ==
    /\ MaxIno \in Nat
    /\ MaxIno >= 3
    /\ FallbackBase \in Fuse
ASSUME MixAssumption == Mix \in [Key -> 0 .. MaxIno]
ASSUME FlagAssumption ==
    /\ SameDevice \in BOOLEAN
    /\ PartialForget \in BOOLEAN
    /\ Readdirplus \in BOOLEAN
    /\ StaleListing \in BOOLEAN
ASSUME BoundAssumption == MaxNodes \in Nat /\ MaxLookups \in Nat

VARIABLES
    arena,          \* live nodes: id -> key, path and whether a directory
    next_id,        \* NodeArena.next_id, ids are never used twice
    table,          \* InodeTable.table: key -> entry
    fuse_map,       \* InodeTable.fuse_map: FUSE number -> key
    next_fallback,  \* InodeTable.next_fallback
    kernel,         \* references the kernel holds on each number
    gone            \* keys of removed nodes that an open listing may still show

tableVars == <<table, fuse_map, next_fallback>>
arenaVars == <<arena, next_id>>
vars == <<arena, next_id, table, fuse_map, next_fallback, kernel, gone>>

Node == [key : Key, path : Path, dir : BOOLEAN]
Entry == [nodes : SUBSET NodeId, lookups : Int, fuse_ino : Fuse]

-----------------------------------------------------------------------------
(* Choosing a number. *)

compute_fuse_ino(k) ==
    LET raw == IF SameDevice THEN k.ino ELSE Mix[k]
    IN  IF raw <= 1 THEN raw + 2 ELSE raw

\* Mutant: only the reserved numbers are taken.
TakenReserved(f) == f <= 1

Taken(f) == f \in DOMAIN fuse_map \/ f <= 1

\* Mutant: wrapping_add alone, which reaches the reserved numbers.
NextFallbackWraps(f) == (f + 1) % (MaxIno + 1)

\* wrapping_add skips the reserved 0 and 1 by restarting at 2.
NextFallback(f) == IF f + 1 > MaxIno THEN 2 ELSE f + 1

\* The number in the i-th turn of the collision loop, counting from 0.
Draw(i) == IF next_fallback + i <= MaxIno
           THEN next_fallback + i
           ELSE next_fallback + i - (MaxIno - 1)

\* The collision loop of register leaves with number f.
FreshIno(k, f) ==
    \/ /\ ~Taken(compute_fuse_ino(k))
       /\ f = compute_fuse_ino(k)
       /\ UNCHANGED next_fallback
    \/ /\ Taken(compute_fuse_ino(k))
       /\ \E i \in 0 .. MaxIno - 2 :
             /\ f = Draw(i)
             /\ ~Taken(f)
             /\ \A j \in 0 .. i - 1 : Taken(Draw(j))
             /\ next_fallback' = NextFallback(f)

-----------------------------------------------------------------------------
(* register(arena, n, key), followed by inc calls of inc_lookup(key).  ar  *)
(* is the arena register is given, which already holds n.                  *)

\* The table after entry k gets these nodes and this count.
Update(k, nodes, lookups) ==
    [table EXCEPT ![k] = [nodes |-> nodes, lookups |-> lookups,
                          fuse_ino |-> table[k].fuse_ino]]

LiveNodes(ar, k) == {m \in table[k].nodes : m \in DOMAIN ar}

\* Mutant: inc_lookup is forgotten for an entry that is already there.
RegisterKnownUncounted(ar, n, k, inc) ==
    /\ table' = Update(k, LiveNodes(ar, k) \cup {n}, table[k].lookups)
    /\ UNCHANGED <<fuse_map, next_fallback>>

\* An entry with live nodes: n is a duplicate or one more hard link.
RegisterKnown(ar, n, k, inc) ==
    LET live == LiveNodes(ar, k)
        dup  == \E m \in live : ar[m].dir \/ ar[m].path = ar[n].path
    IN  /\ table' = Update(k, IF dup THEN live ELSE live \cup {n},
                           table[k].lookups + inc)
        /\ UNCHANGED <<fuse_map, next_fallback>>

\* Mutant: no tombstone is left, the number of the dead entry is freed.
RegisterFreshCleans(nodes, k, inc) ==
    \E f \in Fuse :
        /\ FreshIno(k, f)
        /\ fuse_map' = Put(IF k \in DOMAIN table
                           THEN Drop(fuse_map, table[k].fuse_ino) ELSE fuse_map, f, k)
        /\ table' = Put(table, k,
                        [nodes |-> nodes, lookups |-> inc, fuse_ino |-> f])

\* Mutant: the entry of a recycled key keeps its number and its count.
RegisterFreshKeeps(nodes, k, inc) ==
    \/ /\ k \in DOMAIN table
       /\ table' = Update(k, nodes, table[k].lookups + inc)
       /\ UNCHANGED <<fuse_map, next_fallback>>
    \/ /\ k \notin DOMAIN table
       /\ \E f \in Fuse :
             /\ FreshIno(k, f)
             /\ fuse_map' = Put(fuse_map, f, k)
             /\ table' = Put(table, k,
                             [nodes |-> nodes, lookups |-> inc, fuse_ino |-> f])

\* No entry, or one whose nodes are all dead: the key was recycled.  The
\* number of the dead entry stays in fuse_map as a tombstone.
RegisterFresh(nodes, k, inc) ==
    \E f \in Fuse :
        /\ FreshIno(k, f)
        /\ fuse_map' = Put(fuse_map, f, k)
        /\ table' = Put(table, k,
                        [nodes |-> nodes, lookups |-> inc, fuse_ino |-> f])

Known(ar, k) == k \in DOMAIN table /\ LiveNodes(ar, k) # {}

register(ar, n, k, inc) ==
    \/ Known(ar, k) /\ RegisterKnown(ar, n, k, inc)
    \/ ~Known(ar, k) /\ RegisterFresh({n}, k, inc)

\* A reply that hands the kernel number f.
Reply(f) ==
    /\ kernel[f] < MaxLookups
    /\ kernel' = [kernel EXCEPT ![f] = @ + 1]

\* Bounds the counter of entry k (never reached in the code's 63 bits).
Countable(k) == k \in DOMAIN table => table[k].lookups < MaxLookups

-----------------------------------------------------------------------------
(* Handlers. *)

Insert(k, p, d) ==
    /\ next_id <= MaxNodes
    /\ arena' = Put(arena, next_id, [key |-> k, path |-> p, dir |-> d])
    /\ next_id' = next_id + 1

\* load_dir_impl: a scan of a directory puts nodes in the tree unregistered.
LoadEntry(k, p, d) ==
    /\ Insert(k, p, d)
    /\ UNCHANGED <<tableVars, kernel, gone>>

\* lookup of a name that is not cached, and create, mknod, mkdir, symlink,
\* link: a new node is registered, counted, and its number replied.
AddChild(k, p, d) ==
    /\ Insert(k, p, d)
    /\ Countable(k)
    /\ register(arena', next_id, k, 1)
    /\ Reply(table'[k].fuse_ino)
    /\ UNCHANGED gone

\* lookup, fast path: the cached child is in its entry's node set.
LookupFast(n) ==
    LET k == arena[n].key
    IN  /\ k \in DOMAIN table
        /\ n \in table[k].nodes
        /\ Countable(k)
        /\ table' = Update(k, table[k].nodes, table[k].lookups + 1)
        /\ Reply(table[k].fuse_ino)
        /\ UNCHANGED <<arenaVars, fuse_map, next_fallback, gone>>

\* lookup, slow path: the cached child has not been registered, or its entry
\* was forgotten.
LookupSlow(n) ==
    LET k == arena[n].key
    IN  /\ ~(k \in DOMAIN table /\ n \in table[k].nodes)
        /\ Countable(k)
        /\ register(arena, n, k, 1)
        /\ Reply(table'[k].fuse_ino)
        /\ UNCHANGED <<arenaVars, gone>>

\* unlink and rmdir, and the destination a rename replaces: the node leaves
\* its entry and the arena, the entry stays until the kernel forgets it.
remove_node_id(n) ==
    LET k == arena[n].key
    IN  table' = IF k \in DOMAIN table
                 THEN Update(k, table[k].nodes \ {n}, table[k].lookups)
                 ELSE table

Remove(n) ==
    /\ remove_node_id(n)
    /\ arena' = Drop(arena, n)
    /\ gone' = IF StaleListing THEN gone \cup {arena[n].key} ELSE gone
    /\ UNCHANGED <<next_id, fuse_map, next_fallback, kernel>>

\* rename of n to p where the destination was cached or known deleted.
Move(n, p) ==
    /\ arena' = [arena EXCEPT ![n].path = p]
    /\ UNCHANGED <<next_id, tableVars, kernel, gone>>

\* rename of n to a free p: the lookup of the destination after the disk
\* rename finds the moved file itself, as key k, registers a second node for
\* it, and that node is removed again as if it were the replaced target.
MoveProbed(n, p, k) ==
    /\ next_id <= MaxNodes
    /\ LET probe == [key |-> k, path |-> p, dir |-> arena[n].dir]
           ar    == Put(arena, next_id, probe)
       IN  \/ /\ Known(ar, k)
              /\ table' = Update(k, LiveNodes(ar, k), table[k].lookups)
              /\ UNCHANGED <<fuse_map, next_fallback>>
           \/ ~Known(ar, k) /\ RegisterFresh({}, k, 0)
    /\ arena' = [arena EXCEPT ![n].path = p]
    /\ next_id' = next_id + 1
    /\ UNCHANGED <<kernel, gone>>

\* One turn of readdirplus' loop whose entry fits in the reply.
ReaddirplusEntry(n) ==
    /\ Readdirplus
    /\ Countable(arena[n].key)
    /\ register(arena, n, arena[n].key, 1)
    /\ Reply(table'[arena[n].key].fuse_ino)
    /\ UNCHANGED <<arenaVars, gone>>

\* The last turn: the entry is registered and counted, then reply.add says
\* that it did not fit.  "." and "..", which the kernel takes no reference
\* on, are counted the same way.
ReaddirplusUnheld(n) ==
    /\ Readdirplus
    /\ Countable(arena[n].key)
    /\ register(arena, n, arena[n].key, 1)
    /\ UNCHANGED <<arenaVars, kernel, gone>>

\* A turn for a node that was removed after opendir listed it: the number
\* computed by opendir is replied, nothing is registered or counted.
ReaddirplusStale(k) ==
    /\ Readdirplus
    /\ k \in gone
    /\ Reply(compute_fuse_ino(k))
    /\ UNCHANGED <<arenaVars, tableVars, gone>>

\* forget(f, n) of the table.
forget(f, n) ==
    LET k     == fuse_map[f]
        stale == k \in DOMAIN table => table[k].fuse_ino # f
        freed == table[k].lookups - n <= 0
    IN  \/ /\ f \notin DOMAIN fuse_map
           /\ UNCHANGED <<table, fuse_map>>
        \/ /\ f \in DOMAIN fuse_map
           /\ stale
           /\ fuse_map' = Drop(fuse_map, f)
           /\ UNCHANGED table
        \/ /\ f \in DOMAIN fuse_map
           /\ ~stale
           /\ ~freed
           /\ table' = Update(k, table[k].nodes, table[k].lookups - n)
           /\ UNCHANGED fuse_map
        \/ /\ f \in DOMAIN fuse_map
           /\ ~stale
           /\ freed
           /\ table' = Drop(table, k)
           /\ fuse_map' = Drop(fuse_map, f)

\* The kernel forgets n of its references to f: all of them when it evicts
\* the inode, a single one when it discards a lookup reply.
Forget(f, n) ==
    /\ n <= kernel[f]
    /\ PartialForget \/ n = kernel[f]
    /\ forget(f, n)
    /\ kernel' = [kernel EXCEPT ![f] = @ - n]
    /\ UNCHANGED <<arenaVars, next_fallback, gone>>

\* forget for the root, and lookup of a name that does not exist.
NoEffect == UNCHANGED vars

-----------------------------------------------------------------------------
Init ==
    /\ arena = EmptyMap
    /\ next_id = 1
    /\ table = EmptyMap
    /\ fuse_map = EmptyMap
    /\ next_fallback = FallbackBase
    /\ kernel = [f \in Fuse |-> 0]
    /\ gone = {}

Next ==
    \/ \E k \in Key, p \in Path, d \in BOOLEAN : LoadEntry(k, p, d)
    \/ \E k \in Key, p \in Path, d \in BOOLEAN : AddChild(k, p, d)
    \/ \E n \in DOMAIN arena : LookupFast(n)
    \/ \E n \in DOMAIN arena : LookupSlow(n)
    \/ \E n \in DOMAIN arena : Remove(n)
    \/ \E n \in DOMAIN arena, p \in Path : Move(n, p)
    \/ \E n \in DOMAIN arena, p \in Path, k \in Key : MoveProbed(n, p, k)
    \/ \E n \in DOMAIN arena : ReaddirplusEntry(n)
    \/ \E n \in DOMAIN arena : ReaddirplusUnheld(n)
    \/ \E k \in Key : ReaddirplusStale(k)
    \/ \E f \in Fuse, n \in 1 .. MaxLookups : Forget(f, n)
    \/ NoEffect

Spec == Init /\ [][Next]_vars

-----------------------------------------------------------------------------
(* Properties. *)

\* The variables stay within their types: ids, keys and numbers are legal,
\* and the next fallback is never one of the reserved numbers 0 and 1.
TypeOK ==
    /\ IsMap(arena, 1 .. next_id - 1, Node)
    /\ next_id \in NodeId
    /\ IsMap(table, Key, Entry)
    /\ IsMap(fuse_map, Fuse, Key)
    /\ next_fallback \in Fuse
    /\ kernel \in [Fuse -> Nat]
    /\ gone \in SUBSET Key

\* The reverse map of register and forget is exact: the number of every
\* entry leads back to the entry, hence two inodes never share a number.
ReverseMapExact ==
    \A k \in DOMAIN table :
        /\ table[k].fuse_ino \in DOMAIN fuse_map
        /\ fuse_map[table[k].fuse_ino] = k

\* forget never frees a number too early: each number the kernel still holds
\* is in fuse_map, as a live entry or as a tombstone.
HeldIsMapped == \A f \in Fuse : kernel[f] > 0 => f \in DOMAIN fuse_map

\* An entry counts at least the references the kernel holds on its number.
CountCoversKernel ==
    \A k \in DOMAIN table : table[k].lookups >= kernel[table[k].fuse_ino]

\* In a step entry k comes to stand for another file: it is new, gets another
\* number, or has nodes of which none was there before.
Reassigned(k) ==
    k \in DOMAIN table =>
        \/ table'[k].fuse_ino # table[k].fuse_ino
        \/ table'[k].nodes # {} /\ table'[k].nodes \cap table[k].nodes = {}

\* register never gives a number to a file while the kernel still holds it for
\* another, a removed file whose inode number was used again included: an entry
\* that comes to stand for another file has a number without references.
HeldNeverReassigned ==
    [][\A k \in DOMAIN table' :
          Reassigned(k) => kernel[table'[k].fuse_ino] = 0]_vars
=============================================================================
