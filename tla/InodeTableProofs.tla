-------------------------- MODULE InodeTableProofs --------------------------
(***************************************************************************)
(* Proofs about InodeTable, for every set of keys and every bound.         *)
(***************************************************************************)
EXTENDS InodeTable, MapTheorems, TLAPS

-----------------------------------------------------------------------------
(* What register does to the table.                                        *)

\* No entry changes its number or all its nodes; the count of k grows by d.
Bumped(k, d) ==
    /\ k \in DOMAIN table
    /\ IsMap(table', Key, Entry)
    /\ DOMAIN table' = DOMAIN table
    /\ \A j \in DOMAIN table :
          /\ table'[j].fuse_ino = table[j].fuse_ino
          /\ table'[j].lookups = IF j = k THEN table[j].lookups + d
                                          ELSE table[j].lookups
          /\ table'[j].nodes = {} \/ table'[j].nodes \cap table[j].nodes # {}
    /\ UNCHANGED <<fuse_map, next_fallback>>

\* A new entry for k, with the number f that was not in use and count d.
Allocated(k, f, d) ==
    /\ f \in Fuse
    /\ f \notin DOMAIN fuse_map
    /\ IsMap(table', Key, Entry)
    /\ DOMAIN table' = DOMAIN table \cup {k}
    /\ table'[k].fuse_ino = f
    /\ table'[k].lookups = d
    /\ \A j \in DOMAIN table : j # k => table'[j] = table[j]
    /\ IsMap(fuse_map', Fuse, Key)
    /\ DOMAIN fuse_map' = DOMAIN fuse_map \cup {f}
    /\ fuse_map'[f] = k
    /\ \A g \in DOMAIN fuse_map : g # f => fuse_map'[g] = fuse_map[g]
    /\ next_fallback' \in Fuse

(* The number computed from a key is legal: 0 and 1 are never given.       *)
LEMMA ComputeLegal ==
    ASSUME NEW k \in Key
    PROVE  compute_fuse_ino(k) \in Fuse
<1>1. k.ino \in 0 .. MaxIno
  BY InosAssumption DEF Key
<1>2. Mix[k] \in 0 .. MaxIno
  BY MixAssumption
<1>. QED
  BY <1>1, <1>2, NumberAssumption DEF compute_fuse_ino, Fuse

(* The collision loop ends with a number not in use and a legal counter.   *)
LEMMA FreshLegal ==
    ASSUME TypeOK, NEW k \in Key, NEW f \in Fuse, FreshIno(k, f)
    PROVE  /\ f \notin DOMAIN fuse_map
           /\ next_fallback' \in Fuse
<1>1. CASE f = compute_fuse_ino(k) /\ ~Taken(f) /\ UNCHANGED next_fallback
  BY <1>1 DEF TypeOK, Taken
<1>2. CASE ~Taken(f) /\ next_fallback' = NextFallback(f)
  BY <1>2, NumberAssumption DEF Taken, NextFallback, Fuse
<1>. QED
  BY <1>1, <1>2 DEF FreshIno

(* A fresh registration allocates.                                         *)
LEMMA RegisterFreshAllocates ==
    ASSUME TypeOK, NEW nodes \in SUBSET NodeId, NEW k \in Key, NEW d \in Int,
           RegisterFresh(nodes, k, d)
    PROVE  \E f \in Fuse : Allocated(k, f, d)
<1>1. PICK f \in Fuse :
         /\ FreshIno(k, f)
         /\ fuse_map' = Put(fuse_map, f, k)
         /\ table' = Put(table, k,
                         [nodes |-> nodes, lookups |-> d, fuse_ino |-> f])
  BY DEF RegisterFresh
<1>2. f \notin DOMAIN fuse_map /\ next_fallback' \in Fuse
  BY <1>1, FreshLegal
<1>3. PICK e \in Entry : e = [nodes |-> nodes, lookups |-> d, fuse_ino |-> f]
  BY DEF Entry
<1>4. /\ IsMap(table', Key, Entry)
      /\ DOMAIN table' = DOMAIN table \cup {k}
      /\ table'[k] = e
      /\ \A y \in DOMAIN table : y # k => table'[y] = table[y]
  <2>1. /\ IsMap(Put(table, k, e), Key, Entry)
        /\ DOMAIN Put(table, k, e) = DOMAIN table \cup {k}
        /\ Put(table, k, e)[k] = e
        /\ \A y \in DOMAIN table : y # k => Put(table, k, e)[y] = table[y]
    <3>1. IsMap(table, Key, Entry)
      BY DEF TypeOK
    <3>. QED
      BY <3>1, PutMap
  <2>2. table' = Put(table, k, e)
    BY <1>1, <1>3
  <2>. QED
    BY <2>1, <2>2
<1>5. /\ IsMap(fuse_map', Fuse, Key)
      /\ DOMAIN fuse_map' = DOMAIN fuse_map \cup {f}
      /\ fuse_map'[f] = k
      /\ \A y \in DOMAIN fuse_map : y # f => fuse_map'[y] = fuse_map[y]
  <2>1. /\ IsMap(Put(fuse_map, f, k), Fuse, Key)
        /\ DOMAIN Put(fuse_map, f, k) = DOMAIN fuse_map \cup {f}
        /\ Put(fuse_map, f, k)[f] = k
        /\ \A y \in DOMAIN fuse_map : y # f => Put(fuse_map, f, k)[y] = fuse_map[y]
    <3>1. IsMap(fuse_map, Fuse, Key)
      BY DEF TypeOK
    <3>. QED
      BY <3>1, PutMap
  <2>. QED
    BY <1>1, <2>1
<1>6. e.fuse_ino = f /\ e.lookups = d
  BY <1>3
<1>7. Allocated(k, f, d)
  BY <1>2, <1>4, <1>5, <1>6, Zenon DEF Allocated
<1>. QED
  BY <1>7

(* A table whose entry k gets other nodes and d more references.           *)
LEMMA EntryBumped ==
    ASSUME TypeOK, NEW k \in DOMAIN table, NEW nodes \in SUBSET NodeId,
           NEW d \in Int, NEW c \in Int, c = table[k].lookups + d,
           nodes = {} \/ nodes \cap table[k].nodes # {},
           table' = Update(k, nodes, c),
           UNCHANGED <<fuse_map, next_fallback>>
    PROVE  Bumped(k, d)
<1>1. IsMap(table, Key, Entry)
  BY DEF TypeOK
<1>2. table[k] \in Entry
  BY <1>1, MapFacts
<1>3. PICK e \in Entry : e = [nodes |-> nodes, lookups |-> c,
                             fuse_ino |-> table[k].fuse_ino]
  BY <1>2 DEF Entry
<1>4. /\ IsMap(table', Key, Entry)
      /\ DOMAIN table' = DOMAIN table
      /\ table'[k] = e
      /\ \A y \in DOMAIN table : y # k => table'[y] = table[y]
  <2>1. /\ IsMap([table EXCEPT ![k] = e], Key, Entry)
        /\ DOMAIN [table EXCEPT ![k] = e] = DOMAIN table
        /\ [table EXCEPT ![k] = e][k] = e
        /\ \A y \in DOMAIN table : y # k => [table EXCEPT ![k] = e][y] = table[y]
    BY <1>1, UpdateMap
  <2>2. table' = [table EXCEPT ![k] = e]
    BY <1>3 DEF Update
  <2>. QED
    BY <2>1, <2>2
<1>5. \A j \in DOMAIN table :
         table'[j].nodes = {} \/ table'[j].nodes \cap table[j].nodes # {}
  <2>1. table'[k].nodes = {} \/ table'[k].nodes \cap table[k].nodes # {}
    BY <1>3, <1>4
  <2>2. \A S : S = {} \/ S \cap S # {}
    OBVIOUS
  <2>. QED
    BY <1>4, <2>1, <2>2
<1>6. \A j \in DOMAIN table :
         /\ table'[j].fuse_ino = table[j].fuse_ino
         /\ table'[j].lookups = IF j = k THEN table[j].lookups + d
                                         ELSE table[j].lookups
  BY <1>3, <1>4
<1>. QED
  BY <1>4, <1>5, <1>6 DEF Bumped

(* An entry is rebuilt from its fields.                                    *)
LEMMA EntryFields ==
    ASSUME TypeOK, NEW k \in DOMAIN table
    PROVE  /\ k \in Key
           /\ table[k] \in Entry
           /\ table[k] = [nodes |-> table[k].nodes,
                          lookups |-> table[k].lookups,
                          fuse_ino |-> table[k].fuse_ino]
           /\ table[k].nodes \in SUBSET NodeId
           /\ table[k].lookups \in Int
           /\ table[k].fuse_ino \in Fuse
<1>1. k \in Key /\ table[k] \in Entry
  BY MapFacts DEF TypeOK
<1>. QED
  BY <1>1 DEF Entry

(* register either keeps the entry and counts, or allocates a new one.     *)
LEMMA RegisterEffect ==
    ASSUME TypeOK, NEW ar, NEW n \in NodeId, NEW k \in Key, NEW d \in Int,
           register(ar, n, k, d)
    PROVE  Bumped(k, d) \/ \E f \in Fuse : Allocated(k, f, d)
<1>1. CASE Known(ar, k) /\ RegisterKnown(ar, n, k, d)
  <2>. DEFINE live == LiveNodes(ar, k)
              dup  == \E m \in live : ar[m].dir \/ ar[m].path = ar[n].path
              nn   == IF dup THEN live ELSE live \cup {n}
  <2>1. k \in DOMAIN table
    BY <1>1 DEF Known
  <2>2. live \in SUBSET NodeId
    BY <2>1, EntryFields DEF LiveNodes
  <2>3. nn \in SUBSET NodeId
    BY <2>2
  <2>4. /\ table' = Update(k, nn, table[k].lookups + d)
        /\ UNCHANGED <<fuse_map, next_fallback>>
    BY <1>1 DEF RegisterKnown
  <2>5. table[k].lookups + d \in Int
    BY <2>1, EntryFields
  <2>6. nn \cap table[k].nodes # {}
    BY <1>1 DEF Known, LiveNodes
  <2>. HIDE DEF nn
  <2>. QED
    BY <2>1, <2>3, <2>4, <2>5, <2>6, EntryBumped
<1>2. CASE ~Known(ar, k) /\ RegisterFresh({n}, k, d)
  BY <1>2, RegisterFreshAllocates
<1>. QED
  BY <1>1, <1>2 DEF register

-----------------------------------------------------------------------------
(* What forget does to the table.                                          *)

\* The number f is freed: no entry carries it any more.
Released(f) ==
    /\ IsMap(table', Key, Entry)
    /\ DOMAIN table' \subseteq DOMAIN table
    /\ \A k \in DOMAIN table' : table'[k] = table[k] /\ table[k].fuse_ino # f
    /\ IsMap(fuse_map', Fuse, Key)
    /\ DOMAIN fuse_map' = DOMAIN fuse_map \ {f}
    /\ \A g \in DOMAIN fuse_map' : fuse_map'[g] = fuse_map[g]

(* forget of the table does nothing, lowers one count, or frees f.         *)
LEMMA ForgetEffect ==
    ASSUME TypeOK, ReverseMapExact, NEW f \in Fuse, NEW n \in Nat,
           forget(f, n), UNCHANGED next_fallback
    PROVE  \/ UNCHANGED <<table, fuse_map>> /\ f \notin DOMAIN fuse_map
           \/ /\ f \in DOMAIN fuse_map
              /\ Bumped(fuse_map[f], -n)
              /\ table[fuse_map[f]].fuse_ino = f
           \/ Released(f)
<1>. DEFINE k == fuse_map[f]
            stale == k \in DOMAIN table => table[k].fuse_ino # f
            freed == table[k].lookups - n <= 0
<1>1. IsMap(table, Key, Entry)
  BY DEF TypeOK
<1>2. IsMap(fuse_map, Fuse, Key)
  BY DEF TypeOK
<1>3. /\ IsMap(Drop(fuse_map, f), Fuse, Key)
      /\ DOMAIN Drop(fuse_map, f) = DOMAIN fuse_map \ {f}
      /\ \A g \in DOMAIN fuse_map \ {f} : Drop(fuse_map, f)[g] = fuse_map[g]
  BY <1>2, DropMap
<1>4. CASE f \in DOMAIN fuse_map /\ stale /\ fuse_map' = Drop(fuse_map, f)
           /\ UNCHANGED table
  <2>1. \A j \in DOMAIN table : table[j].fuse_ino # f
    BY <1>4 DEF ReverseMapExact
  <2>. QED
    BY <1>1, <1>3, <1>4, <2>1 DEF Released
<1>5. CASE f \in DOMAIN fuse_map /\ ~stale /\ ~freed
           /\ table' = Update(k, table[k].nodes, table[k].lookups - n)
           /\ UNCHANGED fuse_map
  <2>1. k \in DOMAIN table /\ table[k].fuse_ino = f
    BY <1>5
  <2>2. table[k].nodes \in SUBSET NodeId /\ table[k].lookups \in Int
    BY <2>1, EntryFields
  <2>3. /\ table[k].lookups - n = table[k].lookups + (-n)
        /\ table[k].lookups - n \in Int
        /\ -n \in Int
    BY <2>2
  <2>4. Bumped(k, -n)
    <3>1. table[k].nodes = {} \/ table[k].nodes \cap table[k].nodes # {}
      OBVIOUS
    <3>. QED
      BY <1>5, <2>1, <2>2, <2>3, <3>1, EntryBumped
  <2>. QED
    BY <1>5, <2>1, <2>4
<1>6. CASE f \in DOMAIN fuse_map /\ ~stale /\ freed
           /\ table' = Drop(table, k) /\ fuse_map' = Drop(fuse_map, f)
  <2>1. /\ IsMap(Drop(table, k), Key, Entry)
        /\ DOMAIN Drop(table, k) = DOMAIN table \ {k}
        /\ \A j \in DOMAIN table \ {k} : Drop(table, k)[j] = table[j]
    BY <1>1, DropMap
  <2>2. \A j \in DOMAIN table \ {k} : table[j].fuse_ino # f
    BY <1>6 DEF ReverseMapExact
  <2>. QED
    BY <1>3, <1>6, <2>1, <2>2 DEF Released
<1>. QED
  BY <1>4, <1>5, <1>6 DEF forget

-----------------------------------------------------------------------------
(* Each of the three effects keeps the reverse map exact.                  *)

LEMMA BumpedKeeps ==
    ASSUME ReverseMapExact, NEW k, NEW d, Bumped(k, d)
    PROVE  ReverseMapExact'
BY DEF ReverseMapExact, Bumped

LEMMA AllocatedKeeps ==
    ASSUME ReverseMapExact, NEW k, NEW f, NEW d, Allocated(k, f, d)
    PROVE  ReverseMapExact'
BY DEF ReverseMapExact, Allocated

LEMMA ReleasedKeeps ==
    ASSUME ReverseMapExact, NEW f, Released(f)
    PROVE  ReverseMapExact'
BY DEF ReverseMapExact, Released

(* Inserting a node in the arena.                                          *)
LEMMA InsertType ==
    ASSUME TypeOK, NEW k \in Key, NEW p \in Path, NEW d \in BOOLEAN,
           Insert(k, p, d)
    PROVE  /\ IsMap(arena', 1 .. next_id' - 1, Node)
           /\ next_id' \in NodeId
           /\ next_id \in NodeId
<1>1. next_id \in NodeId /\ next_id' = next_id + 1
  BY DEF TypeOK, Insert
<1>2. IsMap(arena, 1 .. next_id - 1, Node)
  BY DEF TypeOK
<1>3. DOMAIN arena \subseteq 1 .. next_id - 1
      /\ \A n \in DOMAIN arena : arena[n] \in Node
  BY <1>2, MapFacts
<1>4. 1 .. next_id - 1 \subseteq 1 .. next_id' - 1 /\ next_id \in 1 .. next_id' - 1
  BY <1>1 DEF NodeId
<1>5. PICK e \in Node : e = [key |-> k, path |-> p, dir |-> d]
  BY DEF Node
<1>6. arena' = Put(arena, next_id, e)
  BY <1>5 DEF Insert
<1>7. arena' \in [DOMAIN arena \cup {next_id} -> Node]
  BY <1>3, <1>6 DEF Put
<1>8. DOMAIN arena \cup {next_id} \in SUBSET (1 .. next_id' - 1)
  BY <1>3, <1>4
<1>9. IsMap(arena', 1 .. next_id' - 1, Node)
  BY <1>7, <1>8 DEF IsMap
<1>. QED
  BY <1>1, <1>9 DEF NodeId

(* A node of the arena.                                                    *)
LEMMA NodeFields ==
    ASSUME TypeOK, NEW n \in DOMAIN arena
    PROVE  /\ n \in NodeId
           /\ arena[n].key \in Key
           /\ arena[n].path \in Path
           /\ arena[n].dir \in BOOLEAN
           /\ arena[n] \in Node
<1>1. next_id \in NodeId /\ IsMap(arena, 1 .. next_id - 1, Node)
  BY DEF TypeOK
<1>2. n \in 1 .. next_id - 1 /\ arena[n] \in Node
  BY <1>1, MapFacts
<1>. QED
  BY <1>1, <1>2 DEF Node, NodeId

(* Changing the path of a node.                                            *)
LEMMA MoveType ==
    ASSUME TypeOK, NEW n \in DOMAIN arena, NEW p \in Path,
           arena' = [arena EXCEPT ![n].path = p],
           next_id' = next_id \/ next_id' = next_id + 1
    PROVE  /\ IsMap(arena', 1 .. next_id' - 1, Node)
           /\ next_id' \in NodeId
<1>1. next_id \in NodeId /\ IsMap(arena, 1 .. next_id - 1, Node)
  BY DEF TypeOK
<1>2. arena \in [DOMAIN arena -> Node] /\ DOMAIN arena \subseteq 1 .. next_id - 1
  BY <1>1, MapFacts
<1>3. arena' \in [DOMAIN arena -> Node]
  BY <1>2 DEF Node
<1>4. DOMAIN arena \in SUBSET (1 .. next_id' - 1) /\ next_id' \in NodeId
  BY <1>1, <1>2 DEF NodeId
<1>. QED
  BY <1>3, <1>4 DEF IsMap

(* A reply counts one more reference of the kernel.                        *)
LEMMA ReplyType ==
    ASSUME TypeOK, NEW f \in Fuse, Reply(f)
    PROVE  /\ kernel' \in [Fuse -> Nat]
           /\ kernel'[f] = kernel[f] + 1
           /\ \A g \in Fuse : g # f => kernel'[g] = kernel[g]
BY DEF TypeOK, Reply

-----------------------------------------------------------------------------
(* The effects keep the types of the table's variables.                    *)

TableType ==
    /\ IsMap(table, Key, Entry)
    /\ IsMap(fuse_map, Fuse, Key)
    /\ next_fallback \in Fuse

LEMMA EffectType ==
    ASSUME TypeOK, NEW k \in Key, NEW d,
           Bumped(k, d) \/ \E f \in Fuse : Allocated(k, f, d)
    PROVE  /\ TableType'
           /\ k \in DOMAIN table'
           /\ table'[k].fuse_ino \in Fuse
<1>1. TableType' /\ k \in DOMAIN table'
  BY DEF TypeOK, TableType, Bumped, Allocated
<1>2. table'[k] \in Entry
  BY <1>1, MapFacts DEF TableType
<1>. QED
  BY <1>1, <1>2 DEF Entry

LEMMA EffectKeeps ==
    ASSUME ReverseMapExact, NEW k, NEW d,
           Bumped(k, d) \/ \E f \in Fuse : Allocated(k, f, d)
    PROVE  ReverseMapExact'
BY BumpedKeeps, AllocatedKeeps

(* remove_node_id takes one node out of one entry, or does nothing.        *)
LEMMA RemoveEffect ==
    ASSUME TypeOK, NEW n \in DOMAIN arena, remove_node_id(n),
           UNCHANGED <<fuse_map, next_fallback>>
    PROVE  \/ UNCHANGED tableVars
           \/ Bumped(arena[n].key, 0)
<1>. DEFINE k == arena[n].key
<1>1. CASE k \in DOMAIN table
  <2>1. /\ table[k].nodes \ {n} \in SUBSET NodeId
        /\ table[k].lookups \in Int
    BY <1>1, EntryFields
  <2>2. table[k].lookups = table[k].lookups + 0
    BY <2>1
  <2>3. table' = Update(k, table[k].nodes \ {n}, table[k].lookups)
    BY <1>1 DEF remove_node_id
  <2>4. \/ table[k].nodes \ {n} = {}
        \/ (table[k].nodes \ {n}) \cap table[k].nodes # {}
    OBVIOUS
  <2>. QED
    BY <1>1, <2>1, <2>2, <2>3, <2>4, EntryBumped
<1>2. CASE k \notin DOMAIN table
  BY <1>2 DEF remove_node_id, tableVars
<1>. QED
  BY <1>1, <1>2

(* The lookup a rename makes of its own result.                            *)
LEMMA ProbeEffect ==
    ASSUME TypeOK, NEW n \in DOMAIN arena, NEW p \in Path, NEW k \in Key,
           MoveProbed(n, p, k)
    PROVE  Bumped(k, 0) \/ \E f \in Fuse : Allocated(k, f, 0)
<1>. DEFINE probe == [key |-> k, path |-> p, dir |-> arena[n].dir]
            ar    == Put(arena, next_id, probe)
<1>1. CASE /\ Known(ar, k)
           /\ table' = Update(k, LiveNodes(ar, k), table[k].lookups)
           /\ UNCHANGED <<fuse_map, next_fallback>>
  <2>. HIDE DEF ar
  <2>1. k \in DOMAIN table
    BY <1>1 DEF Known
  <2>2. /\ LiveNodes(ar, k) \in SUBSET NodeId
        /\ table[k].lookups \in Int
        /\ table[k].lookups = table[k].lookups + 0
    BY <2>1, EntryFields DEF LiveNodes
  <2>3. LiveNodes(ar, k) \cap table[k].nodes # {}
    BY <1>1 DEF Known, LiveNodes
  <2>. QED
    BY <1>1, <2>1, <2>2, <2>3, EntryBumped
<1>2. CASE ~Known(ar, k) /\ RegisterFresh({}, k, 0)
  BY <1>2, RegisterFreshAllocates
<1>. QED
  BY <1>1, <1>2 DEF MoveProbed

-----------------------------------------------------------------------------
(* The invariant of the table alone, which no behaviour of the kernel can  *)
(* break.                                                                  *)

Inv == TypeOK /\ ReverseMapExact

LEMMA InitInv == Init => Inv
<1>. SUFFICES ASSUME Init PROVE Inv
  OBVIOUS
<1>1. \A S, T : IsMap(EmptyMap, S, T)
  <2>. SUFFICES ASSUME NEW S, NEW T PROVE EmptyMap \in [{} -> T]
    BY DEF IsMap
  <2>. QED
    BY DEF EmptyMap
<1>2. FallbackBase \in Fuse
  BY NumberAssumption
<1>3. 1 \in NodeId
  BY DEF NodeId
<1>4. TypeOK
  BY <1>1, <1>2, <1>3 DEF Init, TypeOK
<1>5. ReverseMapExact
  BY DEF Init, ReverseMapExact, EmptyMap
<1>. QED
  BY <1>4, <1>5 DEF Inv

LEMMA NextInv ==
    ASSUME Inv, [Next]_vars
    PROVE  Inv'
<1>. USE DEF Inv
<1>1. ASSUME NEW k \in Key, NEW p \in Path, NEW d \in BOOLEAN,
             LoadEntry(k, p, d)
      PROVE  Inv'
  <2>1. /\ IsMap(arena', 1 .. next_id' - 1, Node)
        /\ next_id' \in NodeId
    BY <1>1, InsertType DEF LoadEntry
  <2>2. UNCHANGED <<table, fuse_map, next_fallback, kernel, gone>>
    BY <1>1 DEF LoadEntry, tableVars
  <2>. QED
    BY <2>1, <2>2 DEF TypeOK, ReverseMapExact
<1>2. ASSUME NEW k \in Key, NEW p \in Path, NEW d \in BOOLEAN,
             AddChild(k, p, d)
      PROVE  Inv'
  <2>1. /\ IsMap(arena', 1 .. next_id' - 1, Node)
        /\ next_id' \in NodeId
        /\ next_id \in NodeId
    BY <1>2, InsertType DEF AddChild
  <2>2. Bumped(k, 1) \/ \E f \in Fuse : Allocated(k, f, 1)
    BY <1>2, <2>1, RegisterEffect DEF AddChild
  <2>3. TableType' /\ table'[k].fuse_ino \in Fuse
    BY <2>2, EffectType
  <2>4. kernel' \in [Fuse -> Nat] /\ gone' = gone
    BY <1>2, <2>3, ReplyType DEF AddChild
  <2>5. ReverseMapExact'
    BY <2>2, EffectKeeps
  <2>. QED
    BY <2>1, <2>3, <2>4, <2>5 DEF TypeOK, TableType
<1>3. ASSUME NEW n \in DOMAIN arena, LookupFast(n)
      PROVE  Inv'
  <2>. DEFINE k == arena[n].key
  <2>1. k \in DOMAIN table /\ k \in Key
    BY <1>3, NodeFields DEF LookupFast
  <2>2. Bumped(k, 1)
    <3>1. /\ table[k].nodes \in SUBSET NodeId
          /\ table[k].lookups + 1 \in Int
      BY <2>1, EntryFields
    <3>2. /\ table' = Update(k, table[k].nodes, table[k].lookups + 1)
          /\ UNCHANGED <<fuse_map, next_fallback>>
      BY <1>3 DEF LookupFast
    <3>3. table[k].nodes = {} \/ table[k].nodes \cap table[k].nodes # {}
      OBVIOUS
    <3>. QED
      BY <2>1, <3>1, <3>2, <3>3, EntryBumped
  <2>3. TableType'
    BY <2>1, <2>2, EffectType
  <2>4. kernel' \in [Fuse -> Nat] /\ gone' = gone
    BY <1>3, <2>1, EntryFields, ReplyType DEF LookupFast
  <2>5. UNCHANGED <<arena, next_id>>
    BY <1>3 DEF LookupFast, arenaVars
  <2>6. ReverseMapExact'
    BY <2>2, BumpedKeeps
  <2>. QED
    BY <2>3, <2>4, <2>5, <2>6 DEF TypeOK, TableType
<1>4. ASSUME NEW n \in DOMAIN arena, register(arena, n, arena[n].key, 1),
             \/ Reply(table'[arena[n].key].fuse_ino)
             \/ UNCHANGED kernel,
             UNCHANGED <<arenaVars, gone>>
      PROVE  Inv'
  <2>. DEFINE k == arena[n].key
  <2>1. k \in Key /\ n \in NodeId
    BY NodeFields
  <2>2. Bumped(k, 1) \/ \E f \in Fuse : Allocated(k, f, 1)
    BY <1>4, <2>1, RegisterEffect
  <2>3. TableType' /\ table'[k].fuse_ino \in Fuse
    BY <2>1, <2>2, EffectType
  <2>4. kernel' \in [Fuse -> Nat]
    BY <1>4, <2>3, ReplyType DEF TypeOK
  <2>5. UNCHANGED <<arena, next_id, gone>>
    BY <1>4 DEF arenaVars
  <2>6. ReverseMapExact'
    BY <2>2, EffectKeeps
  <2>. QED
    BY <2>3, <2>4, <2>5, <2>6 DEF TypeOK, TableType
<1>5. ASSUME NEW n \in DOMAIN arena, Remove(n)
      PROVE  Inv'
  <2>. DEFINE k == arena[n].key
  <2>1. k \in Key
    BY NodeFields
  <2>2. UNCHANGED tableVars \/ Bumped(k, 0)
    BY <1>5, RemoveEffect DEF Remove
  <2>3. TableType' /\ ReverseMapExact'
    <3>1. CASE UNCHANGED tableVars
      BY <3>1 DEF tableVars, TypeOK, TableType, ReverseMapExact
    <3>2. CASE Bumped(k, 0)
      BY <2>1, <3>2, EffectType, BumpedKeeps
    <3>. QED
      BY <2>2, <3>1, <3>2
  <2>4. IsMap(arena, 1 .. next_id - 1, Node)
    BY DEF TypeOK
  <2>5. IsMap(Drop(arena, n), 1 .. next_id - 1, Node)
    BY <2>4, DropMap
  <2>6. /\ arena' = Drop(arena, n)
        /\ UNCHANGED <<next_id, kernel>>
        /\ gone' \in SUBSET Key
    BY <1>5, <2>1 DEF Remove, TypeOK
  <2>. QED
    BY <2>3, <2>5, <2>6 DEF TypeOK, TableType
<1>6. ASSUME NEW n \in DOMAIN arena, NEW p \in Path, Move(n, p)
      PROVE  Inv'
  <2>1. /\ IsMap(arena', 1 .. next_id' - 1, Node)
        /\ next_id' \in NodeId
    BY <1>6, MoveType DEF Move
  <2>2. UNCHANGED <<table, fuse_map, next_fallback, kernel, gone>>
    BY <1>6 DEF Move, tableVars
  <2>. QED
    BY <2>1, <2>2 DEF TypeOK, ReverseMapExact
<1>7. ASSUME NEW n \in DOMAIN arena, NEW p \in Path, NEW k \in Key,
             MoveProbed(n, p, k)
      PROVE  Inv'
  <2>1. /\ IsMap(arena', 1 .. next_id' - 1, Node)
        /\ next_id' \in NodeId
    BY <1>7, MoveType DEF MoveProbed
  <2>2. Bumped(k, 0) \/ \E f \in Fuse : Allocated(k, f, 0)
    BY <1>7, ProbeEffect
  <2>3. TableType' /\ ReverseMapExact'
    BY <2>2, EffectType, EffectKeeps
  <2>4. UNCHANGED <<kernel, gone>>
    BY <1>7 DEF MoveProbed
  <2>. QED
    BY <2>1, <2>3, <2>4 DEF TypeOK, TableType
<1>8. ASSUME NEW k \in Key, ReaddirplusStale(k)
      PROVE  Inv'
  <2>1. compute_fuse_ino(k) \in Fuse
    BY ComputeLegal
  <2>2. kernel' \in [Fuse -> Nat]
    BY <1>8, <2>1, ReplyType DEF ReaddirplusStale
  <2>3. UNCHANGED <<arena, next_id, table, fuse_map, next_fallback, gone>>
    BY <1>8 DEF ReaddirplusStale, arenaVars, tableVars
  <2>. QED
    BY <2>2, <2>3 DEF TypeOK, ReverseMapExact
<1>9. ASSUME NEW f \in Fuse, NEW n \in 1 .. MaxLookups, Forget(f, n)
      PROVE  Inv'
  <2>1. n \in Nat
    BY BoundAssumption
  <2>2. \/ UNCHANGED <<table, fuse_map>>
        \/ f \in DOMAIN fuse_map /\ Bumped(fuse_map[f], -n)
        \/ Released(f)
    BY <1>9, <2>1, ForgetEffect DEF Forget
  <2>3. TableType' /\ ReverseMapExact'
    <3>1. next_fallback' \in Fuse
      BY <1>9 DEF Forget, TypeOK
    <3>2. CASE UNCHANGED <<table, fuse_map>>
      BY <3>1, <3>2 DEF TypeOK, TableType, ReverseMapExact
    <3>3. CASE f \in DOMAIN fuse_map /\ Bumped(fuse_map[f], -n)
      <4>1. ReverseMapExact'
        BY <3>3, BumpedKeeps
      <4>2. IsMap(table', Key, Entry) /\ fuse_map' = fuse_map
        BY <3>3 DEF Bumped
      <4>. QED
        BY <3>1, <4>1, <4>2 DEF TypeOK, TableType
    <3>4. CASE Released(f)
      BY <3>1, <3>4, ReleasedKeeps DEF TableType, Released
    <3>. QED
      BY <2>2, <3>2, <3>3, <3>4
  <2>4. kernel' \in [Fuse -> Nat]
    BY <1>9, <2>1 DEF Forget, TypeOK
  <2>5. UNCHANGED <<arena, next_id, gone>>
    BY <1>9 DEF Forget, arenaVars
  <2>. QED
    BY <2>3, <2>4, <2>5 DEF TypeOK, TableType
<1>10. CASE UNCHANGED vars
  BY <1>10 DEF vars, TypeOK, ReverseMapExact
<1>. QED
  BY <1>1, <1>2, <1>3, <1>4, <1>5, <1>6, <1>7, <1>8, <1>9, <1>10
     DEF Next, LookupSlow, ReaddirplusEntry, ReaddirplusUnheld, NoEffect

(* Type correctness of the inode table: in particular register never takes *)
(* a number out of the u64 range or one of the reserved 0 and 1.           *)
THEOREM TypeCorrect == Spec => []TypeOK
<1>1. Init => Inv
  BY InitInv
<1>2. Inv /\ [Next]_vars => Inv'
  BY NextInv
<1>3. Inv => TypeOK
  BY DEF Inv
<1>. QED
  BY <1>1, <1>2, <1>3, PTL DEF Spec

(* register and forget keep fuse_map exact for every environment, one that *)
(* forgets partially or lists stale names included: the number of an entry *)
(* leads back to it, so two inodes never share a number.                   *)
THEOREM ReverseMapCorrect == Spec => []ReverseMapExact
<1>1. Init => Inv
  BY InitInv
<1>2. Inv /\ [Next]_vars => Inv'
  BY NextInv
<1>3. Inv => ReverseMapExact
  BY DEF Inv
<1>. QED
  BY <1>1, <1>2, <1>3, PTL DEF Spec

-----------------------------------------------------------------------------
(* References of the kernel.  They hold while the kernel forgets a number  *)
(* as a whole and no listing outlives the names in it.                     *)

Covered == HeldIsMapped /\ CountCoversKernel

\* Replies and counts go together: the kernel holds r more references to the
\* number of entry k, which counts at least r more.
LEMMA EffectCovers ==
    ASSUME TypeOK, Inv', Covered, NEW k \in Key, NEW d \in Nat, NEW r \in Nat,
           r <= d,
           Bumped(k, d) \/ \E f \in Fuse : Allocated(k, f, d),
           kernel'[table'[k].fuse_ino] = kernel[table'[k].fuse_ino] + r,
           \A g \in Fuse : g # table'[k].fuse_ino => kernel'[g] = kernel[g]
    PROVE  Covered'
<1>. USE DEF Inv
<1>1. CASE Bumped(k, d)
  <2>1. \A j \in DOMAIN table : /\ table[j].fuse_ino \in Fuse
                                /\ table[j].lookups \in Int
    BY EntryFields
  <2>2. \A j \in DOMAIN table : j # k => table[j].fuse_ino # table[k].fuse_ino
    BY <1>1 DEF Bumped, ReverseMapExact
  <2>3. kernel \in [Fuse -> Nat]
    BY DEF TypeOK
  <2>4. HeldIsMapped'
    BY <1>1, <2>1, <2>3 DEF Covered, HeldIsMapped, Bumped, ReverseMapExact
  <2>5. CountCoversKernel'
    BY <1>1, <2>1, <2>2, <2>3 DEF Covered, CountCoversKernel, Bumped
  <2>. QED
    BY <2>4, <2>5 DEF Covered
<1>2. ASSUME NEW f \in Fuse, Allocated(k, f, d)
      PROVE  Covered'
  <2>1. \A j \in DOMAIN table : /\ table[j].fuse_ino \in Fuse
                                /\ table[j].lookups \in Int
    BY EntryFields
  <2>2. kernel \in [Fuse -> Nat]
    BY DEF TypeOK
  <2>3. table'[k].fuse_ino = f /\ kernel[f] = 0
    BY <1>2, <2>2 DEF Allocated, Covered, HeldIsMapped
  <2>4. HeldIsMapped'
    BY <1>2, <2>3 DEF Covered, HeldIsMapped, Allocated
  <2>5. \A j \in DOMAIN table' : j # k => table'[j].fuse_ino # f
    BY <1>2, <2>3 DEF ReverseMapExact, Allocated
  <2>6. CountCoversKernel'
    BY <1>2, <2>1, <2>2, <2>3, <2>5 DEF Covered, CountCoversKernel, Allocated
  <2>. QED
    BY <2>4, <2>6 DEF Covered
<1>. QED
  BY <1>1, <1>2

(* Every step keeps the kernel's references covered.                       *)
LEMMA NextCovered ==
    ASSUME ~PartialForget, ~StaleListing,
           Inv, Inv', Covered, gone = {}, [Next]_vars
    PROVE  Covered' /\ gone' = {}
<1>. USE DEF Inv
<1>0. kernel \in [Fuse -> Nat]
  BY DEF TypeOK
<1>1. ASSUME UNCHANGED <<table, fuse_map, kernel>>
      PROVE  Covered'
  BY <1>1 DEF Covered, HeldIsMapped, CountCoversKernel
<1>2. ASSUME NEW k \in Key, NEW d \in {0, 1},
             Bumped(k, d) \/ \E f \in Fuse : Allocated(k, f, d),
             \/ d = 1 /\ Reply(table'[k].fuse_ino)
             \/ UNCHANGED kernel
      PROVE  Covered'
  <2>1. table'[k].fuse_ino \in Fuse
    BY <1>2, EffectType
  <2>2. CASE d = 1 /\ Reply(table'[k].fuse_ino)
    <3>1. /\ kernel'[table'[k].fuse_ino] = kernel[table'[k].fuse_ino] + 1
          /\ \A g \in Fuse : g # table'[k].fuse_ino => kernel'[g] = kernel[g]
      BY <2>1, <2>2, ReplyType
    <3>. QED
      BY <1>2, <2>2, <3>1, EffectCovers
  <2>3. CASE UNCHANGED kernel
    <3>1. kernel'[table'[k].fuse_ino] = kernel[table'[k].fuse_ino] + 0
      BY <1>0, <2>1, <2>3
    <3>. QED
      <4>1. \A g \in Fuse : g # table'[k].fuse_ino => kernel'[g] = kernel[g]
        BY <2>3
      <4>2. d \in Nat /\ 0 \in Nat /\ 0 <= d
        BY <1>2
      <4>. QED
        BY <1>2, <3>1, <4>1, <4>2, EffectCovers
  <2>. QED
    BY <1>2, <2>2, <2>3
<1>3. ASSUME NEW k \in Key, NEW p \in Path, NEW d \in BOOLEAN,
             LoadEntry(k, p, d)
      PROVE  Covered' /\ gone' = {}
  BY <1>1, <1>3 DEF LoadEntry, tableVars
<1>4. ASSUME NEW k \in Key, NEW p \in Path, NEW d \in BOOLEAN,
             AddChild(k, p, d)
      PROVE  Covered' /\ gone' = {}
  <2>1. Bumped(k, 1) \/ \E f \in Fuse : Allocated(k, f, 1)
    BY <1>4, InsertType, RegisterEffect DEF AddChild
  <2>. QED
    BY <1>2, <1>4, <2>1 DEF AddChild
<1>5. ASSUME NEW n \in DOMAIN arena, LookupFast(n)
      PROVE  Covered' /\ gone' = {}
  <2>. DEFINE k == arena[n].key
  <2>1. k \in DOMAIN table /\ k \in Key
    BY <1>5, NodeFields DEF LookupFast
  <2>2. Bumped(k, 1)
    <3>1. /\ table[k].nodes \in SUBSET NodeId
          /\ table[k].lookups + 1 \in Int
      BY <2>1, EntryFields
    <3>2. /\ table' = Update(k, table[k].nodes, table[k].lookups + 1)
          /\ UNCHANGED <<fuse_map, next_fallback>>
      BY <1>5 DEF LookupFast
    <3>3. table[k].nodes = {} \/ table[k].nodes \cap table[k].nodes # {}
      OBVIOUS
    <3>. QED
      BY <2>1, <3>1, <3>2, <3>3, EntryBumped
  <2>3. Reply(table'[k].fuse_ino)
    BY <1>5, <2>1, <2>2 DEF LookupFast, Bumped
  <2>. QED
    BY <1>2, <1>5, <2>1, <2>2, <2>3 DEF LookupFast
<1>6. ASSUME NEW n \in DOMAIN arena, register(arena, n, arena[n].key, 1),
             \/ Reply(table'[arena[n].key].fuse_ino)
             \/ UNCHANGED kernel,
             UNCHANGED gone
      PROVE  Covered' /\ gone' = {}
  <2>. DEFINE k == arena[n].key
  <2>1. k \in Key /\ n \in NodeId
    BY NodeFields
  <2>2. Bumped(k, 1) \/ \E f \in Fuse : Allocated(k, f, 1)
    BY <1>6, <2>1, RegisterEffect
  <2>. QED
    BY <1>2, <1>6, <2>1, <2>2
<1>7. ASSUME NEW n \in DOMAIN arena, Remove(n)
      PROVE  Covered' /\ gone' = {}
  <2>1. UNCHANGED tableVars \/ Bumped(arena[n].key, 0)
    BY <1>7, RemoveEffect DEF Remove
  <2>2. UNCHANGED kernel /\ gone' = {}
    BY <1>7 DEF Remove
  <2>3. arena[n].key \in Key
    BY NodeFields
  <2>. QED
    BY <1>1, <1>2, <2>1, <2>2, <2>3 DEF tableVars
<1>8. ASSUME NEW n \in DOMAIN arena, NEW p \in Path, Move(n, p)
      PROVE  Covered' /\ gone' = {}
  BY <1>1, <1>8 DEF Move, tableVars
<1>9. ASSUME NEW n \in DOMAIN arena, NEW p \in Path, NEW k \in Key,
             MoveProbed(n, p, k)
      PROVE  Covered' /\ gone' = {}
  BY <1>2, <1>9, ProbeEffect DEF MoveProbed
<1>10. ASSUME NEW k \in Key, ReaddirplusStale(k)
       PROVE  Covered' /\ gone' = {}
  BY <1>10 DEF ReaddirplusStale
<1>11. ASSUME NEW f \in Fuse, NEW n \in 1 .. MaxLookups, Forget(f, n)
       PROVE  Covered' /\ gone' = {}
  <2>1. n \in Nat /\ n = kernel[f]
    BY <1>11, BoundAssumption DEF Forget
  <2>2. /\ kernel'[f] = 0
        /\ \A g \in Fuse : g # f => kernel'[g] = kernel[g]
    BY <1>0, <1>11, <2>1 DEF Forget
  <2>3. gone' = {}
    BY <1>11 DEF Forget
  <2>4. \/ UNCHANGED <<table, fuse_map>> /\ f \notin DOMAIN fuse_map
        \/ /\ f \in DOMAIN fuse_map
           /\ Bumped(fuse_map[f], -n)
           /\ table[fuse_map[f]].fuse_ino = f
        \/ Released(f)
    BY <1>11, <2>1, ForgetEffect DEF Forget
  <2>5. \A j \in DOMAIN table : /\ table[j].fuse_ino \in Fuse
                                /\ table[j].lookups \in Int
    BY EntryFields
  <2>6. CASE UNCHANGED <<table, fuse_map>> /\ f \notin DOMAIN fuse_map
    BY <1>0, <2>2, <2>3, <2>5, <2>6
       DEF Covered, HeldIsMapped, CountCoversKernel, ReverseMapExact
  <2>7. CASE /\ f \in DOMAIN fuse_map
             /\ Bumped(fuse_map[f], -n)
             /\ table[fuse_map[f]].fuse_ino = f
    <3>1. HeldIsMapped'
      BY <1>0, <2>2, <2>7 DEF Covered, HeldIsMapped, Bumped
    <3>2. \A j \in DOMAIN table : j # fuse_map[f] => table[j].fuse_ino # f
      BY <2>7 DEF ReverseMapExact
    <3>3. CountCoversKernel'
      BY <1>0, <2>1, <2>2, <2>5, <2>7, <3>2
         DEF Covered, CountCoversKernel, Bumped
    <3>. QED
      BY <2>3, <3>1, <3>3 DEF Covered
  <2>8. CASE Released(f)
    <3>1. HeldIsMapped'
      BY <1>0, <2>2, <2>8 DEF Covered, HeldIsMapped, Released
    <3>2. CountCoversKernel'
      BY <1>0, <2>2, <2>5, <2>8 DEF Covered, CountCoversKernel, Released
    <3>. QED
      BY <2>3, <3>1, <3>2 DEF Covered
  <2>. QED
    BY <2>4, <2>6, <2>7, <2>8
<1>12. CASE UNCHANGED vars
  BY <1>1, <1>12 DEF vars
<1>. QED
  BY <1>3, <1>4, <1>5, <1>6, <1>7, <1>8, <1>9, <1>10, <1>11, <1>12
     DEF Next, LookupSlow, ReaddirplusEntry, ReaddirplusUnheld, NoEffect

CountInv == Inv /\ Covered /\ gone = {}

LEMMA InitCount == Init => CountInv
<1>. SUFFICES ASSUME Init PROVE CountInv
  OBVIOUS
<1>1. Inv
  BY InitInv
<1>2. HeldIsMapped
  BY DEF Init, HeldIsMapped
<1>3. CountCoversKernel
  BY DEF Init, CountCoversKernel, EmptyMap
<1>. QED
  BY <1>1, <1>2, <1>3 DEF Init, CountInv, Covered

LEMMA NextCount ==
    ASSUME ~PartialForget, ~StaleListing, CountInv, [Next]_vars
    PROVE  CountInv'
BY NextInv, NextCovered DEF CountInv

(* forget frees no number the kernel holds: a number with references is    *)
(* always known to the table.                                              *)
THEOREM HeldIsMappedCorrect ==
    ASSUME ~PartialForget, ~StaleListing
    PROVE  Spec => []HeldIsMapped
<1>1. Init => CountInv
  BY InitCount
<1>2. CountInv /\ [Next]_vars => CountInv'
  BY NextCount
<1>3. CountInv => HeldIsMapped
  BY DEF CountInv, Covered
<1>. QED
  BY <1>1, <1>2, <1>3, PTL DEF Spec

(* The count of an entry is never below the references the kernel holds.   *)
THEOREM CountCorrect ==
    ASSUME ~PartialForget, ~StaleListing
    PROVE  Spec => []CountCoversKernel
<1>1. Init => CountInv
  BY InitCount
<1>2. CountInv /\ [Next]_vars => CountInv'
  BY NextCount
<1>3. CountInv => CountCoversKernel
  BY DEF CountInv, Covered
<1>. QED
  BY <1>1, <1>2, <1>3, PTL DEF Spec

\* The step HeldNeverReassigned allows.
NumberKept ==
    \A k \in DOMAIN table' :
        Reassigned(k) => kernel[table'[k].fuse_ino] = 0

(* Entries that keep their nodes and their number stand for the same files. *)
LEMMA KeptNumbers ==
    ASSUME \A k \in DOMAIN table' :
              /\ k \in DOMAIN table
              /\ table'[k].fuse_ino = table[k].fuse_ino
              /\ table'[k].nodes = table[k].nodes
    PROVE  NumberKept
<1>1. \A S : S = {} \/ S \cap S # {}
  OBVIOUS
<1>. QED
  BY <1>1 DEF NumberKept, Reassigned

LEMMA EffectNumbers ==
    ASSUME Inv, HeldIsMapped, NEW k, NEW d,
           Bumped(k, d) \/ \E f \in Fuse : Allocated(k, f, d)
    PROVE  NumberKept
<1>1. CASE Bumped(k, d)
  BY <1>1 DEF Bumped, NumberKept, Reassigned
<1>2. ASSUME NEW f \in Fuse, Allocated(k, f, d)
      PROVE  NumberKept
  <2>1. kernel[f] = 0
    BY <1>2 DEF Inv, TypeOK, HeldIsMapped, Allocated
  <2>. QED
    <3>1. ASSUME NEW j \in DOMAIN table', Reassigned(j)
          PROVE  kernel[table'[j].fuse_ino] = 0
      <4>1. CASE j = k
        BY <1>2, <2>1, <4>1 DEF Allocated
      <4>2. CASE j # k
        <5>1. j \in DOMAIN table /\ table'[j] = table[j]
          BY <1>2, <4>2 DEF Allocated
        <5>2. \A S : S = {} \/ S \cap S # {}
          OBVIOUS
        <5>. QED
          BY <3>1, <5>1, <5>2 DEF Reassigned
      <4>. QED
        BY <4>1, <4>2
    <3>. QED
      BY <3>1 DEF NumberKept
<1>. QED
  BY <1>1, <1>2

LEMMA NextNumbers ==
    ASSUME Inv, HeldIsMapped, Next
    PROVE  NumberKept
<1>. USE DEF Inv
<1>1. ASSUME UNCHANGED table
      PROVE  NumberKept
  BY <1>1, KeptNumbers
<1>2. ASSUME NEW k \in Key, NEW p \in Path, NEW d \in BOOLEAN,
             AddChild(k, p, d)
      PROVE  NumberKept
  <2>1. Bumped(k, 1) \/ \E f \in Fuse : Allocated(k, f, 1)
    BY <1>2, InsertType, RegisterEffect DEF AddChild
  <2>. QED
    BY <2>1, EffectNumbers
<1>3. ASSUME NEW n \in DOMAIN arena, LookupFast(n)
      PROVE  NumberKept
  <2>1. arena[n].key \in DOMAIN table
    BY <1>3 DEF LookupFast
  <2>2. table \in [DOMAIN table -> Entry]
    BY MapFacts DEF TypeOK
  <2>3. \A k \in DOMAIN table' :
           /\ k \in DOMAIN table
           /\ table'[k].fuse_ino = table[k].fuse_ino
           /\ table'[k].nodes = table[k].nodes
    BY <1>3, <2>1, <2>2 DEF LookupFast, Update
  <2>. QED
    BY <2>3, KeptNumbers
<1>4. ASSUME NEW n \in DOMAIN arena, register(arena, n, arena[n].key, 1)
      PROVE  NumberKept
  <2>1. arena[n].key \in Key /\ n \in NodeId
    BY NodeFields
  <2>2. \/ Bumped(arena[n].key, 1)
        \/ \E f \in Fuse : Allocated(arena[n].key, f, 1)
    BY <1>4, <2>1, RegisterEffect
  <2>. QED
    BY <2>2, EffectNumbers
<1>5. ASSUME NEW n \in DOMAIN arena, Remove(n)
      PROVE  NumberKept
  <2>1. UNCHANGED tableVars \/ Bumped(arena[n].key, 0)
    BY <1>5, RemoveEffect DEF Remove
  <2>2. CASE UNCHANGED tableVars
    BY <1>1, <2>2 DEF tableVars
  <2>3. CASE Bumped(arena[n].key, 0)
    BY <2>3, EffectNumbers
  <2>. QED
    BY <2>1, <2>2, <2>3
<1>6. ASSUME NEW n \in DOMAIN arena, NEW p \in Path, NEW k \in Key,
             MoveProbed(n, p, k)
      PROVE  NumberKept
  BY <1>6, ProbeEffect, EffectNumbers
<1>7. ASSUME NEW f \in Fuse, NEW n \in 1 .. MaxLookups, Forget(f, n)
      PROVE  NumberKept
  <2>1. n \in Nat
    BY BoundAssumption
  <2>2. \/ UNCHANGED table
        \/ Bumped(fuse_map[f], -n)
        \/ Released(f)
    BY <1>7, <2>1, ForgetEffect DEF Forget
  <2>3. CASE Released(f)
    BY <2>3, KeptNumbers DEF Released
  <2>4. CASE Bumped(fuse_map[f], -n)
    BY <2>4, Zenon DEF Bumped, NumberKept, Reassigned
  <2>. QED
    BY <1>1, <2>2, <2>3, <2>4
<1>. QED
  BY <1>1, <1>2, <1>3, <1>4, <1>5, <1>6, <1>7
     DEF Next, LoadEntry, LookupSlow, Move, ReaddirplusEntry,
         ReaddirplusUnheld, ReaddirplusStale, NoEffect, tableVars, vars

(* register never gives a number that the kernel holds to another inode.   *)
THEOREM NeverReassigned ==
    ASSUME ~PartialForget, ~StaleListing
    PROVE  Spec => HeldNeverReassigned
<1>1. Init => CountInv
  BY InitCount
<1>2. CountInv /\ [Next]_vars => CountInv'
  BY NextCount
<1>3. CountInv /\ [Next]_vars => [NumberKept]_vars
  BY NextNumbers DEF CountInv, Covered
<1>. QED
  BY <1>1, <1>2, <1>3, PTL DEF Spec, HeldNeverReassigned, NumberKept

=============================================================================
