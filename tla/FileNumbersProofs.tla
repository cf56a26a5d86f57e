------------------------- MODULE FileNumbersProofs -------------------------
(***************************************************************************)
(* Proofs about FileNumbers: in the uses that Careful describes, for any   *)
(* names, inodes and bounds, the number that the kernel has for a name     *)
(* leads to the file of that name, and calls change no other name.         *)
(***************************************************************************)
EXTENDS FileNumbers, MapTheorems

-----------------------------------------------------------------------------
(* The invariant, of the state that handlers share. *)

IsState(s) ==
    /\ DOMAIN s = {"up", "arena", "dir", "table", "fuse_map"}
    /\ DOMAIN s.dir = {"kids", "wh", "loaded"}

Types(s) ==
    /\ s.up \in [Names -> UIno \cup {"none", "wh"}]
    /\ IsMap(s.arena, Id, Node)
    /\ IsMap(s.dir.kids, Names, DOMAIN s.arena)
    /\ s.dir.wh \subseteq Names /\ s.dir.loaded \in BOOLEAN
    /\ IsMap(s.table, Key, Entry) /\ IsMap(s.fuse_map, Numbers, Key)

\* The children of the directory and the nodes of the arena are the same.
Children(s) ==
    /\ \A x \in DOMAIN s.dir.kids : s.arena[s.dir.kids[x]].name = x
    /\ \A id \in DOMAIN s.arena : /\ s.arena[id].name \in DOMAIN s.dir.kids
                                  /\ s.dir.kids[s.arena[id].name] = id

\* Entries have live nodes of their inode, and a number that leads to them.
Entries(s) ==
    \A key \in DOMAIN s.table :
        /\ s.table[key].num \in DOMAIN s.fuse_map /\ s.fuse_map[s.table[key].num] = key
        /\ \A id \in s.table[key].ids : id \in DOMAIN s.arena /\ s.arena[id].key = key

\* A node's layer is the one that shows its name; its key is the inode there,
\* or was before the file was copied up.
Backed(s, id) ==
    LET n == s.arena[id]
    IN  /\ IF n.layer = 0 THEN s.up[n.name] \in UIno
           ELSE s.up[n.name] = "none" /\ low[n.name] = n.key
        /\ n.key \in UIno => n.layer = 0 /\ s.up[n.name] = n.key

\* A file of the lower layer has one node; where a rename took the node away,
\* a whiteout hides the file.
Unique(s) ==
    \A i, j \in DOMAIN s.arena : s.arena[i].key \in LIno /\ s.arena[i].key = s.arena[j].key => i = j

Gone(s, z) ==
    \A id \in DOMAIN s.arena :
        s.arena[id].key \in LIno /\ low[z] = s.arena[id].key /\ z # s.arena[id].name =>
            "rename" \in use.calls /\ s.up[z] = "wh"

\* Where there are renames, nodes know of the lower files that they hide.
Below(s) ==
    "rename" \in use.calls =>
        \A id \in DOMAIN s.arena : low[s.arena[id].name] # "none" => s.arena[id].below

\* Where there are renames and lower files there are no links, so that renameat
\* does move a file.
Mixed == "rename" \in use.calls /\ \E x \in Names : low[x] # "none"

Single(s) ==
    Mixed => \A x, y \in Names : s.up[x] \in UIno /\ s.up[x] = s.up[y] => x = y

\* What the directory takes for absent is so.
TrulyAbsent(s, z) ==
    /\ z \in s.dir.wh => s.up[z] = "wh"
    /\ s.dir.loaded /\ z \notin DOMAIN s.dir.kids => ~Exists(s, z)

\* All of it but for the names in X, of which a rename has moved the files
\* and not yet the nodes.
Good(s, X) ==
    /\ IsState(s) /\ Types(s) /\ Children(s) /\ Entries(s) /\ Unique(s) /\ Below(s)
    /\ Single(s)
    /\ \A id \in DOMAIN s.arena : s.arena[id].name \notin X => Backed(s, id)
    /\ \A z \in Names \ X : Gone(s, z) /\ TrulyAbsent(s, z)

\* The node is in the entry of its inode, which has the number n.
Registered(s, id, n) ==
    LET key == s.arena[id].key
    IN  key \in DOMAIN s.table /\ id \in s.table[key].ids /\ s.table[key].num = n

\* The kernel's names have nodes, and its numbers are those of their entries.
Dentries(s, d) ==
    \A x \in DOMAIN d : x \in DOMAIN s.dir.kids /\ Registered(s, s.dir.kids[x], d[x])

Inv ==
    /\ use \in Uses /\ Careful(use)
    /\ Good(Now, {})
    /\ IsMap(dent, Names, held) /\ held \subseteq DOMAIN fuse_map
    /\ Dentries(Now, dent)

-----------------------------------------------------------------------------
(* Inodes and ids. *)

LEMMA Inodes ==
    /\ LIno \cap UIno = {} /\ "none" \notin Key /\ "wh" \notin Key /\ "none" # "wh"
    /\ LIno \subseteq Key /\ UIno \subseteq Key /\ Key = LIno \cup UIno
BY UsesAssumption DEF Key

LEMMA LowType ==
    ASSUME use \in Uses, NEW x \in Names
    PROVE  low[x] \in LIno \cup {"none"}
<1>1. use.low \in [Names -> LIno \cup {"none"}]
  BY UsesAssumption
<1>. QED
  BY <1>1 DEF low

(* What is known of a name that shows a file.                              *)
LEMMA ShownFile ==
    ASSUME use \in Uses, NEW s, Types(s), NEW x \in Names, Exists(s, x)
    PROVE  /\ Shown(s, x) \in Key
           /\ \/ s.up[x] \in UIno /\ Shown(s, x) = s.up[x]
              \/ s.up[x] = "none" /\ low[x] \in LIno /\ Shown(s, x) = low[x]
<1>1. s.up[x] \in UIno \cup {"none", "wh"}
  BY DEF Types
<1>. QED
  BY <1>1, LowType, Inodes DEF Exists, Shown

LEMMA NewIdFacts ==
    ASSUME NEW s, NEW x \in Names, FreeIds(s, x) # {}
    PROVE  NewId(s, x) \in Id /\ NewId(s, x) \notin DOMAIN s.arena /\ NewId(s, x)[1] = x
<1>1. PICK k : k = CHOOSE j \in FreeIds(s, x) : TRUE
  OBVIOUS
<1>2. k \in FreeIds(s, x)
  BY <1>1
<1>3. k \in 1 .. MaxNodes /\ <<x, k>> \notin DOMAIN s.arena
  BY <1>2 DEF FreeIds
<1>4. NewId(s, x) = <<x, k>>
  BY <1>1 DEF NewId
<1>. QED
  BY <1>3, <1>4 DEF Id

(* Where a smaller set of names is excepted, more is known.                *)
LEMMA GoodSubset ==
    ASSUME NEW s, NEW X, NEW Y, X \subseteq Y, Good(s, X)
    PROVE  Good(s, Y)
BY DEF Good

LEMMA TypeFacts ==
    ASSUME NEW s, Types(s)
    PROVE  /\ \A x \in Names : s.up[x] \in UIno \cup {"none", "wh"}
           /\ DOMAIN s.arena \subseteq Id
           /\ \A id \in DOMAIN s.arena :
                 /\ s.arena[id] \in Node
                 /\ s.arena[id].name \in Names /\ s.arena[id].key \in Key
                 /\ s.arena[id].layer \in {0, 1} /\ s.arena[id].below \in BOOLEAN
           /\ DOMAIN s.dir.kids \subseteq Names
           /\ \A x \in DOMAIN s.dir.kids : s.dir.kids[x] \in DOMAIN s.arena
           /\ DOMAIN s.table \subseteq Key
           /\ \A key \in DOMAIN s.table : s.table[key] \in Entry
           /\ \A n \in DOMAIN s.fuse_map : s.fuse_map[n] \in Key
<1>1. \A x \in Names : s.up[x] \in UIno \cup {"none", "wh"}
  BY DEF Types
<1>2. DOMAIN s.arena \subseteq Id /\ \A id \in DOMAIN s.arena : s.arena[id] \in Node
  BY MapFacts DEF Types
<1>3. \A id \in DOMAIN s.arena :
         /\ s.arena[id].name \in Names /\ s.arena[id].key \in Key
         /\ s.arena[id].layer \in {0, 1} /\ s.arena[id].below \in BOOLEAN
  BY <1>2 DEF Node
<1>4. DOMAIN s.dir.kids \subseteq Names /\ \A x \in DOMAIN s.dir.kids : s.dir.kids[x] \in DOMAIN s.arena
  BY MapFacts DEF Types
<1>5. DOMAIN s.table \subseteq Key /\ \A key \in DOMAIN s.table : s.table[key] \in Entry
  BY MapFacts DEF Types
<1>6. \A n \in DOMAIN s.fuse_map : s.fuse_map[n] \in Key
  BY MapFacts DEF Types
<1>. QED
  BY <1>1, <1>2, <1>3, <1>4, <1>5, <1>6

-----------------------------------------------------------------------------
(* A new node. *)

LEMMA AddFields ==
    ASSUME NEW s, IsState(s), NEW x, NEW node, NEW t, t = Add(s, x, node)
    PROVE  /\ IsState(t) /\ t.up = s.up /\ t.table = s.table /\ t.fuse_map = s.fuse_map
           /\ t.arena = Put(s.arena, NewId(s, x), node)
           /\ t.dir.kids = Put(s.dir.kids, x, NewId(s, x))
           /\ t.dir.wh = s.dir.wh \ {x} /\ t.dir.loaded = s.dir.loaded
<1>1. PICK d : d = insert_child(s.dir, x, NewId(s, x))
  OBVIOUS
<1>2. /\ DOMAIN d = {"kids", "wh", "loaded"} /\ d.kids = Put(s.dir.kids, x, NewId(s, x))
      /\ d.wh = s.dir.wh \ {x} /\ d.loaded = s.dir.loaded
  BY <1>1 DEF insert_child, IsState
<1>3. t = [s EXCEPT !.arena = Put(s.arena, NewId(s, x), node), !.dir = d]
  BY <1>1 DEF Add
<1>4. /\ DOMAIN t = DOMAIN s /\ t.up = s.up /\ t.table = s.table /\ t.fuse_map = s.fuse_map
      /\ t.arena = Put(s.arena, NewId(s, x), node) /\ t.dir = d
  BY <1>3 DEF IsState
<1>. QED
  BY <1>2, <1>4 DEF IsState

(* The new node is the only one of its name, and at the layer that shows   *)
(* it.  The name may be one whose file has just been put there.            *)
LEMMA AddGood ==
    ASSUME use \in Uses, Careful(use), NEW s, NEW X, Good(s, X),
           NEW x \in Names, x \notin DOMAIN s.dir.kids, Exists(s, x), FreeIds(s, x) # {},
           x \in X => s.up[x] \in UIno, Gone(s, x),
           NEW node \in Node, node.name = x, node.layer = IF s.up[x] = "none" THEN 1 ELSE 0,
           node.key = Shown(s, x) \/ (node.key = low[x] /\ low[x] \in LIno),
           "rename" \in use.calls /\ low[x] # "none" => node.below,
           NEW t, t = Add(s, x, node)
    PROVE  Good(t, X \ {x})
<1>. DEFINE new == NewId(s, x)
<1>1. /\ IsState(s) /\ Types(s) /\ Children(s) /\ Entries(s) /\ Unique(s) /\ Below(s)
      /\ Single(s)
  BY DEF Good
<1>2. new \in Id /\ new \notin DOMAIN s.arena
  BY NewIdFacts
<1>3. /\ Shown(s, x) \in Key
      /\ \/ s.up[x] \in UIno /\ Shown(s, x) = s.up[x]
         \/ s.up[x] = "none" /\ low[x] \in LIno /\ Shown(s, x) = low[x]
  BY <1>1, ShownFile
<1>4. /\ node.name = x /\ node.layer = IF s.up[x] = "none" THEN 1 ELSE 0
      /\ node \in Node
      /\ node.key \in UIno => s.up[x] = node.key
      /\ node.key \in LIno => low[x] = node.key
      /\ node.key \in LIno \cup UIno
  BY <1>3, Inodes DEF Node, Key
<1>5. /\ IsState(t) /\ t.up = s.up /\ t.table = s.table /\ t.fuse_map = s.fuse_map
      /\ t.arena = Put(s.arena, new, node) /\ t.dir.kids = Put(s.dir.kids, x, new)
      /\ t.dir.wh = s.dir.wh \ {x} /\ t.dir.loaded = s.dir.loaded
  BY <1>1, AddFields
<1>. HIDE DEF new
<1>6. /\ DOMAIN t.arena = DOMAIN s.arena \cup {new} /\ t.arena[new] = node
      /\ \A id \in DOMAIN s.arena : t.arena[id] = s.arena[id]
  BY <1>2, <1>5 DEF Put
<1>7. /\ DOMAIN t.dir.kids = DOMAIN s.dir.kids \cup {x} /\ t.dir.kids[x] = new
      /\ \A z \in DOMAIN s.dir.kids : t.dir.kids[z] = s.dir.kids[z]
  BY <1>5 DEF Put
<1>8. Types(t)
  <2>1. IsMap(t.arena, Id, Node)
    <3>1. PICK f : f = s.arena
      OBVIOUS
    <3>2. IsMap(f, Id, Node)
      BY <1>1, <3>1 DEF Types
    <3>3. IsMap(Put(f, new, node), Id, Node)
      BY <1>2, <1>4, <3>2, PutMap
    <3>. QED
      BY <1>5, <3>1, <3>3
  <2>2. IsMap(t.dir.kids, Names, DOMAIN t.arena)
    <3>1. PICK f, T : f = s.dir.kids /\ T = DOMAIN t.arena
      OBVIOUS
    <3>2. IsMap(f, Names, T) /\ new \in T
      BY <1>1, <1>6, <3>1 DEF Types, IsMap
    <3>3. IsMap(Put(f, x, new), Names, T)
      BY <3>2, PutMap
    <3>. QED
      BY <1>5, <3>1, <3>3
  <2>. QED
    BY <1>1, <1>5, <2>1, <2>2 DEF Types
<1>9. Children(t)
  BY <1>1, <1>4, <1>6, <1>7, TypeFacts DEF Children
<1>10. Entries(t)
  BY <1>1, <1>5, <1>6 DEF Entries
<1>11. \A id \in DOMAIN s.arena : s.arena[id].name # x
  BY <1>1 DEF Children
<1>12. \A id \in DOMAIN s.arena : s.arena[id].key \in LIno => s.arena[id].key # node.key
  <2>1. SUFFICES ASSUME NEW id \in DOMAIN s.arena, s.arena[id].key \in LIno, s.arena[id].key = node.key
                 PROVE  FALSE
    OBVIOUS
  <2>2. low[x] = s.arena[id].key /\ x # s.arena[id].name
    BY <1>4, <1>11, <2>1
  <2>3. s.up[x] = "wh"
    BY <2>1, <2>2 DEF Gone
  <2>. QED
    BY <1>3, <2>3, Inodes
<1>13. Unique(t)
  BY <1>1, <1>6, <1>12 DEF Unique
<1>14. Below(t) /\ Single(t)
  BY <1>1, <1>4, <1>5, <1>6 DEF Below, Single
<1>15. ASSUME NEW id \in DOMAIN t.arena, t.arena[id].name \notin X \ {x} PROVE Backed(t, id)
  <2>1. CASE id = new
    BY <1>3, <1>4, <1>5, <1>6, <2>1, Inodes DEF Backed
  <2>2. CASE id # new
    <3>1. id \in DOMAIN s.arena /\ s.arena[id].name \notin X
      BY <1>6, <1>11, <1>15, <2>2
    <3>2. Backed(s, id)
      BY <3>1 DEF Good
    <3>. QED
      BY <1>5, <1>6, <3>1, <3>2 DEF Backed
  <2>. QED
    BY <2>1, <2>2
<1>16. ASSUME NEW z \in Names, z \notin X \ {x} PROVE Gone(t, z) /\ TrulyAbsent(t, z)
  <2>1. CASE z = x
    <3>1. Gone(t, z)
      BY <1>4, <1>5, <1>6, <2>1 DEF Gone
    <3>2. TrulyAbsent(t, z)
      BY <1>5, <1>7, <2>1 DEF TrulyAbsent
    <3>. QED
      BY <3>1, <3>2
  <2>2. CASE z # x
    <3>1. Gone(s, z) /\ TrulyAbsent(s, z)
      BY <1>16, <2>2 DEF Good
    <3>2. node.key \in LIno => low[z] # node.key
      <4>1. \A v \in Names : low[v] = low[x] /\ low[v] # "none" => v = x
        BY DEF Careful, low
      <4>. QED
        BY <1>4, <2>2, <4>1, Inodes
    <3>3. Gone(t, z)
      BY <1>5, <1>6, <3>1, <3>2 DEF Gone
    <3>4. TrulyAbsent(t, z)
      BY <1>5, <1>7, <2>2, <3>1 DEF TrulyAbsent, Exists, Shown
    <3>. QED
      BY <3>3, <3>4
  <2>. QED
    BY <2>1, <2>2
<1>. QED
  BY <1>5, <1>8, <1>9, <1>10, <1>13, <1>14, <1>15, <1>16 DEF Good

-----------------------------------------------------------------------------
(* Registering a node. *)

\* t has the entries of s, with their numbers.
Extends(t, s) ==
    /\ DOMAIN s.fuse_map \subseteq DOMAIN t.fuse_map
    /\ \A id \in DOMAIN s.arena : \A n : Registered(s, id, n) => Registered(t, id, n)

HasNumber(s) == Numbers \ DOMAIN s.fuse_map # {}

(* What is good does not depend on entries and numbers otherwise.          *)
LEMMA SameNodes ==
    ASSUME NEW s, NEW X, Good(s, X), NEW t, IsState(t), t.up = s.up, t.arena = s.arena,
           t.dir = s.dir, IsMap(t.table, Key, Entry), IsMap(t.fuse_map, Numbers, Key), Entries(t)
    PROVE  Good(t, X)
<1>1. Types(t) /\ Children(t) /\ Unique(t) /\ Below(t) /\ Single(t)
  BY DEF Good, Types, Children, Unique, Below, Single
<1>2. \A id \in DOMAIN t.arena : t.arena[id].name \notin X => Backed(t, id)
  BY DEF Good, Backed
<1>3. \A z \in Names \ X : Gone(t, z) /\ TrulyAbsent(t, z)
  BY DEF Good, Gone, TrulyAbsent, Exists, Shown
<1>. QED
  BY <1>1, <1>2, <1>3 DEF Good

LEMMA RegisterGood ==
    ASSUME use \in Uses, NEW s, NEW X, Good(s, X), NEW id \in DOMAIN s.arena,
           NEW key, key = s.arena[id].key,
           HasNumber(s) \/ (key \in DOMAIN s.table /\ id \in s.table[key].ids),
           NEW t, t = register(s, id)
    PROVE  /\ Good(t, X) /\ Extends(t, s)
           /\ t.up = s.up /\ t.arena = s.arena /\ t.dir = s.dir
           /\ key \in DOMAIN t.table /\ Registered(t, id, t.table[key].num)
<1>1. IsState(s) /\ Types(s) /\ Children(s) /\ Entries(s)
  BY DEF Good
<1>2. key \in Key /\ id \in Id
  BY <1>1, TypeFacts
<1>. DEFINE live == IF key \in DOMAIN s.table THEN s.table[key].ids \cap DOMAIN s.arena ELSE {}
            same == \E i \in live : s.arena[i].name = s.arena[id].name
            n == NewNumber(s)
            after == IF same THEN live ELSE live \cup {id}
<1>3. CASE live # {}
  <2>1. key \in DOMAIN s.table /\ live = s.table[key].ids
    BY <1>1, <1>3 DEF Entries
  <2>2. id \in after /\ live \subseteq after /\ after \subseteq live \cup {id}
    <3>1. ASSUME NEW i \in live, s.arena[i].name = s.arena[id].name PROVE i = id
      BY <1>1, <3>1, <2>1 DEF Children, Entries
    <3>. QED
      BY <3>1
  <2>3. PICK e : e = s.table[key]
    OBVIOUS
  <2>4. e \in Entry /\ e.num \in Numbers /\ e.ids \subseteq Id
    <3>1. e \in Entry
      BY <1>1, <2>1, <2>3, TypeFacts
    <3>. QED
      BY <3>1 DEF Entry
  <2>5. t = [s EXCEPT !.table = [s.table EXCEPT ![key] = [e EXCEPT !.ids = after]]]
    BY <1>3, <2>3 DEF register
  <2>. HIDE DEF live, same, after
  <2>6. PICK e1 : e1 = [e EXCEPT !.ids = after]
    OBVIOUS
  <2>7. e1 \in Entry /\ e1.num = e.num /\ e1.ids = after
    BY <1>2, <2>1, <2>2, <2>3, <2>4, <2>6 DEF Entry
  <2>8. /\ IsState(t) /\ t.up = s.up /\ t.arena = s.arena /\ t.dir = s.dir /\ t.fuse_map = s.fuse_map
        /\ t.table = [s.table EXCEPT ![key] = e1]
    BY <1>1, <2>5, <2>6 DEF IsState
  <2>9. /\ DOMAIN t.table = DOMAIN s.table /\ t.table[key] = e1
        /\ \A k \in DOMAIN s.table : k # key => t.table[k] = s.table[k]
    BY <2>1, <2>8
  <2>10. IsMap(t.table, Key, Entry)
    <3>1. PICK f : f = s.table
      OBVIOUS
    <3>2. IsMap([f EXCEPT ![key] = e1], Key, Entry)
      BY <1>1, <2>1, <2>7, <3>1, UpdateMap DEF Types
    <3>. QED
      BY <2>8, <3>1, <3>2
  <2>11. Entries(t)
    BY <1>1, <2>1, <2>2, <2>3, <2>7, <2>8, <2>9 DEF Entries
  <2>12. Good(t, X)
    BY <1>1, <2>8, <2>10, <2>11, SameNodes DEF Types
  <2>13. Extends(t, s)
    BY <2>1, <2>2, <2>3, <2>7, <2>8, <2>9 DEF Extends, Registered
  <2>14. Registered(t, id, t.table[key].num)
    BY <2>1, <2>2, <2>7, <2>8, <2>9 DEF Registered
  <2>. QED
    BY <2>1, <2>8, <2>9, <2>12, <2>13, <2>14
<1>4. CASE live = {}
  <2>1. n \in Numbers /\ n \notin DOMAIN s.fuse_map
    <3>1. \E m \in Numbers : m \notin DOMAIN s.fuse_map
      BY <1>1, <1>4 DEF HasNumber, Entries
    <3>. QED
      BY <3>1 DEF NewNumber
  <2>2. \A k \in DOMAIN s.table : s.table[k].num # n
    BY <1>1, <2>1 DEF Entries
  <2>3. ~(key \in DOMAIN s.table /\ \E i \in DOMAIN s.arena : i \in s.table[key].ids)
    BY <1>4
  <2>4. PICK e1 : e1 = [ids |-> {id}, num |-> n]
    OBVIOUS
  <2>5. t = [s EXCEPT !.table = Put(s.table, key, e1), !.fuse_map = Put(s.fuse_map, n, key)]
    BY <1>4, <2>4 DEF register
  <2>. HIDE DEF live, same, after, n
  <2>6. e1 \in Entry /\ e1.ids = {id} /\ e1.num = n
    BY <1>2, <2>1, <2>4 DEF Entry
  <2>7. /\ IsState(t) /\ t.up = s.up /\ t.arena = s.arena /\ t.dir = s.dir
        /\ t.table = Put(s.table, key, e1) /\ t.fuse_map = Put(s.fuse_map, n, key)
    BY <1>1, <2>5 DEF IsState
  <2>8. /\ DOMAIN t.table = DOMAIN s.table \cup {key} /\ t.table[key] = e1
        /\ \A k \in DOMAIN s.table : k # key => t.table[k] = s.table[k]
    BY <2>7 DEF Put
  <2>9. /\ DOMAIN t.fuse_map = DOMAIN s.fuse_map \cup {n} /\ t.fuse_map[n] = key
        /\ \A m \in DOMAIN s.fuse_map : t.fuse_map[m] = s.fuse_map[m]
    BY <2>1, <2>7 DEF Put
  <2>10. IsMap(t.table, Key, Entry) /\ IsMap(t.fuse_map, Numbers, Key)
    <3>1. PICK f, g : f = s.table /\ g = s.fuse_map
      OBVIOUS
    <3>2. IsMap(f, Key, Entry) /\ IsMap(g, Numbers, Key)
      BY <1>1, <3>1 DEF Types
    <3>3. IsMap(Put(f, key, e1), Key, Entry)
      BY <1>2, <2>6, <3>2, PutMap
    <3>4. IsMap(Put(g, n, key), Numbers, Key)
      BY <1>2, <2>1, <3>2, PutMap
    <3>. QED
      BY <2>7, <3>1, <3>3, <3>4
  <2>11. Entries(t)
    BY <1>1, <2>1, <2>6, <2>7, <2>8, <2>9 DEF Entries
  <2>12. Good(t, X)
    BY <2>7, <2>10, <2>11, SameNodes
  <2>13. Extends(t, s)
    BY <2>3, <2>7, <2>8, <2>9 DEF Extends, Registered
  <2>14. Registered(t, id, t.table[key].num)
    BY <2>6, <2>7, <2>8 DEF Registered
  <2>. QED
    BY <2>7, <2>8, <2>12, <2>13, <2>14
<1>. QED
  BY <1>3, <1>4

-----------------------------------------------------------------------------
(* Looking up a name. *)

\* t is s after a lookup of x: with x among its children, or as it was but for
\* a whiteout that was found.
LookedUp(t, s, x) ==
    /\ Extends(t, s) /\ t.up = s.up /\ t.dir.loaded = s.dir.loaded
    /\ \A id \in DOMAIN s.arena : id \in DOMAIN t.arena /\ t.arena[id] = s.arena[id]
    /\ DOMAIN t.dir.kids \subseteq DOMAIN s.dir.kids \cup {x}
    /\ \A z \in DOMAIN s.dir.kids : z \in DOMAIN t.dir.kids /\ t.dir.kids[z] = s.dir.kids[z]
    /\ \A z : z # x => (z \in t.dir.wh <=> z \in s.dir.wh)
    /\ x \in DOMAIN s.dir.kids => t = s
    /\ x \notin DOMAIN t.dir.kids => t.arena = s.arena /\ t.fuse_map = s.fuse_map
    /\ x \in DOMAIN t.dir.kids =>
          x \in DOMAIN s.dir.kids \/ \E n : Registered(t, t.dir.kids[x], n)

LEMMA SelfLookedUp ==
    ASSUME NEW s, NEW x
    PROVE  LookedUp(s, s, x)
BY DEF LookedUp, Extends

LEMMA LazyLookup ==
    ASSUME use \in Uses, Careful(use), NEW s, NEW X, Good(s, X), NEW x \in Names,
           x \notin DOMAIN s.dir.kids, FreeIds(s, x) # {}, HasNumber(s),
           x \in X => s.up[x] \in UIno /\ Gone(s, x), NEW t, t = do_lazy_lookup(s, x)
    PROVE  /\ Good(t, X) /\ LookedUp(t, s, x)
           /\ Exists(s, x) => x \in DOMAIN t.dir.kids
<1>1. IsState(s) /\ Types(s)
  BY DEF Good
<1>2. CASE Exists(s, x)
  <2>1. PICK node : node = LazyNode(s, x)
    OBVIOUS
  <2>2. /\ node \in Node /\ node.name = x /\ node.layer = IF s.up[x] = "none" THEN 1 ELSE 0
        /\ node.key = Shown(s, x) \/ (node.key = low[x] /\ low[x] \in LIno)
        /\ low[x] # "none" => node.below
    <3>1. PICK n, b : b = (low[x] # "none") /\ n = NewNode(s, x, b)
      OBVIOUS
    <3>2. /\ n \in Node /\ n.name = x /\ n.layer = IF s.up[x] = "none" THEN 1 ELSE 0
          /\ n.key = Shown(s, x) /\ n.below = b
      BY <1>1, <1>2, <3>1, ShownFile DEF NewNode, Node
    <3>3. node = [n EXCEPT !.key = IF low[x] = "none" THEN n.key ELSE low[x]]
      BY <2>1, <3>1 DEF LazyNode
    <3>4. low[x] \in LIno \cup {"none"}
      BY LowType
    <3>. QED
      BY <3>1, <3>2, <3>3, <3>4, Inodes DEF Node
  <2>3. PICK s1 : s1 = Add(s, x, node)
    OBVIOUS
  <2>4. Good(s1, X)
    <3>1. Gone(s, x)
      BY DEF Good
    <3>2. Good(s1, X \ {x})
      BY <1>2, <2>2, <2>3, <3>1, AddGood
    <3>. QED
      BY <3>2, GoodSubset
  <2>5. /\ s1.up = s.up /\ s1.table = s.table /\ s1.fuse_map = s.fuse_map
        /\ s1.arena = Put(s.arena, NewId(s, x), node)
        /\ s1.dir.kids = Put(s.dir.kids, x, NewId(s, x))
        /\ s1.dir.wh = s.dir.wh \ {x} /\ s1.dir.loaded = s.dir.loaded
    BY <1>1, <2>3, AddFields
  <2>6. PICK new : new = NewId(s, x)
    OBVIOUS
  <2>7. new \notin DOMAIN s.arena
    BY <2>6, NewIdFacts
  <2>8. /\ new \in DOMAIN s1.arena /\ s1.dir.kids[x] = new
        /\ \A id \in DOMAIN s.arena : id \in DOMAIN s1.arena /\ s1.arena[id] = s.arena[id]
        /\ DOMAIN s1.dir.kids = DOMAIN s.dir.kids \cup {x}
        /\ \A z \in DOMAIN s.dir.kids : s1.dir.kids[z] = s.dir.kids[z]
    BY <2>5, <2>6, <2>7 DEF Put
  <2>9. t = register(s1, new)
    <3>1. s1 = Add(s, x, LazyNode(s, x))
      BY <2>1, <2>3
    <3>2. Shown(s, x) # "wh"
      BY <1>2, Inodes DEF Exists
    <3>3. t = register(s1, s1.dir.kids[x])
      BY <1>2, <3>1, <3>2 DEF do_lazy_lookup
    <3>. QED
      BY <2>8, <3>3
  <2>10. HasNumber(s1)
    BY <2>5 DEF HasNumber
  <2>11. /\ Good(t, X) /\ Extends(t, s1)
         /\ t.up = s1.up /\ t.arena = s1.arena /\ t.dir = s1.dir
         /\ \E n : Registered(t, new, n)
    BY <2>4, <2>8, <2>9, <2>10, RegisterGood
  <2>12. Extends(t, s)
    BY <2>5, <2>8, <2>11 DEF Extends, Registered
  <2>. QED
    BY <2>5, <2>8, <2>11, <2>12 DEF LookedUp
<1>3. CASE ~Exists(s, x) /\ Shown(s, x) = "wh"
  <2>1. t = [s EXCEPT !.dir = [s.dir EXCEPT !.wh = s.dir.wh \cup {x}]]
    BY <1>3 DEF do_lazy_lookup
  <2>2. /\ IsState(t) /\ t.up = s.up /\ t.arena = s.arena /\ t.table = s.table /\ t.fuse_map = s.fuse_map
        /\ t.dir.kids = s.dir.kids /\ t.dir.wh = s.dir.wh \cup {x} /\ t.dir.loaded = s.dir.loaded
    BY <1>1, <2>1 DEF IsState
  <2>3. s.up[x] = "wh"
    <3>1. low[x] # "wh"
      BY LowType, Inodes
    <3>. QED
      BY <1>3, <3>1 DEF Shown
  <2>4. /\ Types(t) /\ Children(t) /\ Entries(t) /\ Unique(t) /\ Below(t) /\ Single(t)
        /\ \A id \in DOMAIN t.arena : t.arena[id].name \notin X => Backed(t, id)
    BY <2>2 DEF Good, Types, Children, Entries, Unique, Below, Single, Backed
  <2>5. \A z \in Names \ X : Gone(t, z) /\ TrulyAbsent(t, z)
    BY <2>2, <2>3 DEF Good, Gone, TrulyAbsent, Exists, Shown
  <2>6. LookedUp(t, s, x)
    BY <2>2 DEF LookedUp, Extends, Registered
  <2>. QED
    BY <1>3, <2>2, <2>4, <2>5, <2>6 DEF Good
<1>4. CASE ~Exists(s, x) /\ Shown(s, x) # "wh"
  <2>1. t = s
    BY <1>4 DEF do_lazy_lookup
  <2>. QED
    BY <1>4, <2>1, SelfLookedUp
<1>. QED
  BY <1>2, <1>3, <1>4

LEMMA LookupGood ==
    ASSUME use \in Uses, Careful(use), NEW s, NEW X, Good(s, X), NEW x \in Names,
           x \in DOMAIN s.dir.kids \/ (FreeIds(s, x) # {} /\ HasNumber(s)),
           x \in X => s.up[x] \in UIno /\ Gone(s, x), NEW t, t = do_lookup_file(s, x)
    PROVE  /\ Good(t, X) /\ LookedUp(t, s, x)
           /\ x \notin X /\ x \notin DOMAIN t.dir.kids => ~Exists(s, x)
<1>1. CASE x \in DOMAIN s.dir.kids \/ x \in s.dir.wh \/ s.dir.loaded
  <2>1. t = s
    BY <1>1 DEF do_lookup_file
  <2>2. ASSUME x \notin X, x \notin DOMAIN s.dir.kids PROVE ~Exists(s, x)
    <3>1. TrulyAbsent(s, x)
      BY <2>2 DEF Good
    <3>. QED
      BY <1>1, <2>2, <3>1, Inodes DEF TrulyAbsent, Exists, Shown
  <2>. QED
    BY <2>1, <2>2, SelfLookedUp
<1>2. CASE ~(x \in DOMAIN s.dir.kids \/ x \in s.dir.wh \/ s.dir.loaded)
  <2>1. t = do_lazy_lookup(s, x)
    BY <1>2 DEF do_lookup_file
  <2>. QED
    BY <1>2, <2>1, LazyLookup
<1>. QED
  BY <1>1, <1>2

-----------------------------------------------------------------------------
(* Copy-up. *)

LEMMA UpGood ==
    ASSUME use \in Uses, NEW s, Good(s, {}), NEW id \in DOMAIN s.arena, NEW ino \in Free(s),
           NEW t, t = get_node_up(s, id, ino)
    PROVE  /\ Good(t, {}) /\ Extends(t, s)
           /\ DOMAIN t.arena = DOMAIN s.arena /\ t.dir = s.dir /\ t.fuse_map = s.fuse_map
           /\ \A i \in DOMAIN s.arena : /\ t.arena[i].name = s.arena[i].name
                                        /\ t.arena[i].key = s.arena[i].key
           /\ t.arena[id].layer = 0
           /\ \A z \in Names : z # s.arena[id].name => t.up[z] = s.up[z]
           /\ s.arena[id].layer = 0 => t.up = s.up
<1>1. /\ IsState(s) /\ Types(s) /\ Children(s) /\ Entries(s) /\ Unique(s) /\ Below(s)
      /\ Single(s)
  BY DEF Good
<1>2. CASE s.arena[id].layer = 0
  <2>1. t = s
    BY <1>2 DEF get_node_up
  <2>. QED
    BY <1>2, <2>1 DEF Extends
<1>3. CASE s.arena[id].layer # 0
  <2>1. PICK n : n = s.arena[id]
    OBVIOUS
  <2>2. PICK x : x = n.name
    OBVIOUS
  <2>3. PICK n1 : n1 = [n EXCEPT !.layer = 0]
    OBVIOUS
  <2>4. n \in Node /\ x \in Names /\ ino \in UIno
    BY <1>1, <2>1, <2>2, TypeFacts DEF Free
  <2>5. n1 \in Node /\ n1.name = x /\ n1.key = n.key /\ n1.layer = 0 /\ n1.below = n.below
    BY <2>2, <2>3, <2>4 DEF Node
  <2>6. t = [s EXCEPT !.up = [s.up EXCEPT ![x] = ino], !.arena = [s.arena EXCEPT ![id] = n1]]
    BY <1>3, <2>1, <2>2, <2>3 DEF get_node_up
  <2>7. /\ IsState(t) /\ t.dir = s.dir /\ t.table = s.table /\ t.fuse_map = s.fuse_map
        /\ t.up = [s.up EXCEPT ![x] = ino] /\ t.arena = [s.arena EXCEPT ![id] = n1]
    BY <1>1, <2>6 DEF IsState
  <2>8. /\ t.up \in [Names -> UIno \cup {"none", "wh"}] /\ t.up[x] = ino
        /\ \A z \in Names : z # x => t.up[z] = s.up[z]
        /\ \A z \in Names : s.up[z] # ino
    BY <1>1, <2>4, <2>7 DEF Types, Free, Range
  <2>9. /\ DOMAIN t.arena = DOMAIN s.arena /\ t.arena[id] = n1
        /\ \A i \in DOMAIN s.arena : i # id => t.arena[i] = s.arena[i]
    BY <2>7
  <2>10. \A i \in DOMAIN s.arena : t.arena[i].name = s.arena[i].name /\ t.arena[i].key = s.arena[i].key
    BY <2>1, <2>2, <2>5, <2>9
  <2>11. s.up[x] = "none" /\ low[x] = n.key /\ n.key \notin UIno
    <3>1. Backed(s, id)
      BY DEF Good
    <3>. QED
      BY <1>3, <2>1, <2>2, <3>1 DEF Backed
  <2>12. Types(t)
    <3>1. PICK f : f = s.arena
      OBVIOUS
    <3>2. IsMap([f EXCEPT ![id] = n1], Id, Node)
      BY <1>1, <2>5, <3>1, UpdateMap DEF Types
    <3>. QED
      BY <1>1, <2>7, <2>8, <2>9, <3>1, <3>2 DEF Types
  <2>13. Children(t) /\ Entries(t) /\ Unique(t)
    BY <1>1, <2>7, <2>9, <2>10, TypeFacts DEF Children, Entries, Unique
  <2>14. Below(t) /\ Single(t)
    BY <1>1, <2>1, <2>2, <2>5, <2>8, <2>9 DEF Below, Single
  <2>15. ASSUME NEW i \in DOMAIN t.arena PROVE Backed(t, i)
    <3>1. CASE i = id
      BY <2>4, <2>5, <2>8, <2>9, <2>11, <3>1 DEF Backed
    <3>2. CASE i # id
      <4>1. Backed(s, i)
        BY <2>9, <2>15 DEF Good
      <4>2. s.arena[i].name # x /\ s.arena[i].name \in Names
        BY <1>1, <2>1, <2>2, <2>9, <2>15, <3>2, TypeFacts DEF Children
      <4>. QED
        BY <2>8, <2>9, <2>15, <3>2, <4>1, <4>2 DEF Backed
    <3>. QED
      BY <3>1, <3>2
  <2>16. ASSUME NEW z \in Names PROVE Gone(t, z) /\ TrulyAbsent(t, z)
    <3>1. Gone(s, z) /\ TrulyAbsent(s, z)
      BY DEF Good
    <3>2. Gone(t, z)
      <4>1. s.up[z] = "wh" => t.up[z] = "wh"
        BY <2>8, <2>11, Inodes
      <4>. QED
        BY <2>9, <2>10, <3>1, <4>1 DEF Gone
    <3>3. TrulyAbsent(t, z)
      <4>1. CASE z = x
        <5>1. x \in DOMAIN s.dir.kids
          BY <1>1, <2>1, <2>2 DEF Children
        <5>. QED
          BY <2>7, <2>11, <3>1, <4>1, <5>1, Inodes DEF TrulyAbsent
      <4>2. CASE z # x
        BY <2>7, <2>8, <3>1, <4>2 DEF TrulyAbsent, Exists, Shown
      <4>. QED
        BY <4>1, <4>2
    <3>. QED
      BY <3>2, <3>3
  <2>17. Good(t, {})
    BY <2>7, <2>12, <2>13, <2>14, <2>15, <2>16 DEF Good
  <2>18. Extends(t, s)
    BY <2>7, <2>10 DEF Extends, Registered
  <2>. QED
    BY <1>3, <2>1, <2>2, <2>5, <2>7, <2>8, <2>9, <2>10, <2>17, <2>18
<1>. QED
  BY <1>2, <1>3

-----------------------------------------------------------------------------
(* Removing a child. *)

LEMMA RemovedFields ==
    ASSUME NEW s, IsState(s), Types(s), Children(s), Entries(s),
           NEW x \in DOMAIN s.dir.kids, NEW id, id = s.dir.kids[x], NEW r, r = Removed(s, x)
    PROVE  /\ IsState(r) /\ r.up = s.up /\ r.fuse_map = s.fuse_map
           /\ r.dir.wh = s.dir.wh /\ r.dir.loaded = s.dir.loaded
           /\ r.arena = Drop(s.arena, id) /\ r.dir.kids = Drop(s.dir.kids, x)
           /\ IsMap(r.table, Key, Entry) /\ DOMAIN r.table = DOMAIN s.table
           /\ \A key \in DOMAIN s.table : /\ r.table[key].num = s.table[key].num
                                          /\ r.table[key].ids = s.table[key].ids \ {id}
<1>1. IsState(s) /\ Types(s) /\ Children(s) /\ Entries(s)
  OBVIOUS
<1>2. PICK key : key = s.arena[id].key
  OBVIOUS
<1>3. PICK d : d = remove_child(s.dir, x)
  OBVIOUS
<1>4. /\ DOMAIN d = {"kids", "wh", "loaded"} /\ d.kids = Drop(s.dir.kids, x)
      /\ d.wh = s.dir.wh /\ d.loaded = s.dir.loaded
  BY <1>1, <1>3 DEF IsState, remove_child
<1>5. PICK e : e = [s.table[key] EXCEPT !.ids = s.table[key].ids \ {id}]
  OBVIOUS
<1>6. PICK f : f = remove_node_id(s.table, key, id)
  OBVIOUS
<1>7. r = [s EXCEPT !.dir = d, !.arena = Drop(s.arena, id), !.table = f]
  BY <1>1, <1>2, <1>3, <1>6 DEF Removed, IsState
<1>8. /\ IsState(r) /\ r.up = s.up /\ r.fuse_map = s.fuse_map /\ r.dir = d
      /\ r.arena = Drop(s.arena, id) /\ r.table = f
  BY <1>1, <1>4, <1>7 DEF IsState
<1>9. \A k \in DOMAIN s.table : id \in s.table[k].ids => k = key
  BY <1>1, <1>2 DEF Entries
<1>10. \A k \in DOMAIN s.table : /\ s.table[k] \in Entry /\ s.table[k].ids \subseteq Id
                                 /\ s.table[k].num \in Numbers /\ DOMAIN s.table[k] = {"ids", "num"}
  <2>1. \A k \in DOMAIN s.table : s.table[k] \in Entry
    BY <1>1, TypeFacts
  <2>. QED
    BY <2>1 DEF Entry
<1>11. CASE key \in DOMAIN s.table
  <2>1. e \in Entry /\ e.ids = s.table[key].ids \ {id} /\ e.num = s.table[key].num
    BY <1>5, <1>10, <1>11 DEF Entry
  <2>2. f = [s.table EXCEPT ![key] = e]
    BY <1>5, <1>6, <1>11 DEF remove_node_id
  <2>3. IsMap(f, Key, Entry)
    <3>1. PICK g : g = s.table
      OBVIOUS
    <3>2. IsMap([g EXCEPT ![key] = e], Key, Entry)
      BY <1>1, <1>11, <2>1, <3>1, UpdateMap DEF Types
    <3>. QED
      BY <2>2, <3>1, <3>2
  <2>4. DOMAIN f = DOMAIN s.table /\ f[key] = e /\ \A k \in DOMAIN s.table : k # key => f[k] = s.table[k]
    BY <1>11, <2>2
  <2>5. \A k \in DOMAIN s.table : f[k].num = s.table[k].num /\ f[k].ids = s.table[k].ids \ {id}
    BY <1>9, <2>1, <2>4
  <2>. QED
    BY <1>4, <1>8, <2>3, <2>4, <2>5
<1>12. CASE key \notin DOMAIN s.table
  <2>1. f = s.table /\ IsMap(f, Key, Entry)
    BY <1>1, <1>6, <1>12 DEF Types, remove_node_id
  <2>2. \A k \in DOMAIN s.table : s.table[k].ids = s.table[k].ids \ {id}
    BY <1>9, <1>12
  <2>. QED
    BY <1>4, <1>8, <2>1, <2>2
<1>. QED
  BY <1>11, <1>12

\* t is s without the child x and its node.
Lacks(t, s, x) ==
    /\ t.fuse_map = s.fuse_map /\ x \notin DOMAIN t.dir.kids
    /\ DOMAIN t.dir.kids \subseteq DOMAIN s.dir.kids
    /\ \A z \in DOMAIN s.dir.kids : z # x => z \in DOMAIN t.dir.kids /\ t.dir.kids[z] = s.dir.kids[z]
    /\ \A id \in DOMAIN s.arena : id # s.dir.kids[x] =>
          /\ id \in DOMAIN t.arena /\ t.arena[id] = s.arena[id]
          /\ \A n : Registered(s, id, n) => Registered(t, id, n)

LEMMA RemovedGood ==
    ASSUME use \in Uses, NEW s, NEW X, Good(s, X), NEW x \in DOMAIN s.dir.kids,
           NEW r, r = Removed(s, x), NEW t, IsState(t), t.arena = r.arena,
           t.dir.kids = r.dir.kids, t.dir.wh = r.dir.wh, t.dir.loaded = FALSE,
           t.table = r.table, t.fuse_map = r.fuse_map,
           t.up \in [Names -> UIno \cup {"none", "wh"}],
           \A z \in Names : z # x => t.up[z] = s.up[z],
           t.up[x] = "wh" \/ (x \in X /\ t.up[x] = s.up[x])
    PROVE  Good(t, X) /\ Lacks(t, s, x)
<1>0. /\ IsState(s) /\ Types(s) /\ Children(s) /\ Entries(s) /\ Unique(s) /\ Below(s)
      /\ Single(s)
  BY DEF Good
<1>1. PICK id : id = s.dir.kids[x]
  OBVIOUS
<1>2. /\ t.fuse_map = s.fuse_map /\ t.dir.wh = s.dir.wh
      /\ t.arena = Drop(s.arena, id) /\ t.dir.kids = Drop(s.dir.kids, x)
      /\ IsMap(t.table, Key, Entry) /\ DOMAIN t.table = DOMAIN s.table
      /\ \A key \in DOMAIN s.table : /\ t.table[key].num = s.table[key].num
                                     /\ t.table[key].ids = s.table[key].ids \ {id}
  BY <1>0, <1>1, RemovedFields
<1>3. /\ DOMAIN t.arena = DOMAIN s.arena \ {id}
      /\ \A i \in DOMAIN t.arena : t.arena[i] = s.arena[i]
      /\ DOMAIN t.dir.kids = DOMAIN s.dir.kids \ {x}
      /\ \A z \in DOMAIN t.dir.kids : t.dir.kids[z] = s.dir.kids[z]
  BY <1>2 DEF Drop
<1>4. x \in Names /\ id \in DOMAIN s.arena /\ s.arena[id].name = x
  BY <1>0, <1>1, TypeFacts DEF Children
<1>5. \A z \in DOMAIN s.dir.kids : z # x => s.dir.kids[z] # id
  BY <1>0, <1>4 DEF Children
<1>6. \A i \in DOMAIN s.arena : i # id => s.arena[i].name # x
  BY <1>0, <1>1 DEF Children
<1>7. Types(t)
  <2>1. PICK f, g : f = s.arena /\ g = s.dir.kids
    OBVIOUS
  <2>2. IsMap(Drop(f, id), Id, Node)
    BY <1>0, <2>1, DropMap DEF Types
  <2>3. IsMap(t.dir.kids, Names, DOMAIN t.arena)
    <3>1. \A z \in DOMAIN t.dir.kids : t.dir.kids[z] \in DOMAIN t.arena
      BY <1>0, <1>3, <1>5, TypeFacts
    <3>2. t.dir.kids = [z \in DOMAIN t.dir.kids |-> t.dir.kids[z]]
      BY <1>2 DEF Drop
    <3>3. DOMAIN t.dir.kids \in SUBSET Names
      BY <1>0, <1>3, TypeFacts
    <3>. QED
      BY <3>1, <3>2, <3>3 DEF IsMap
  <2>. QED
    BY <1>0, <1>2, <2>1, <2>2, <2>3 DEF Types
<1>8. Children(t)
  BY <1>0, <1>3, <1>5, <1>6, TypeFacts DEF Children
<1>9. Entries(t) /\ Unique(t) /\ Below(t) /\ Single(t)
  <2>1. Entries(t) /\ Unique(t) /\ Below(t)
    BY <1>0, <1>2, <1>3 DEF Entries, Unique, Below
  <2>2. \A z \in Names : t.up[z] = s.up[z] \/ t.up[z] \notin UIno
    BY <1>4, Inodes
  <2>. QED
    BY <1>0, <2>1, <2>2 DEF Single
<1>10. ASSUME NEW i \in DOMAIN t.arena, t.arena[i].name \notin X PROVE Backed(t, i)
  <2>1. i \in DOMAIN s.arena /\ t.arena[i] = s.arena[i] /\ s.arena[i].name # x
    BY <1>3, <1>6, <1>10
  <2>2. Backed(s, i)
    BY <1>10, <2>1 DEF Good
  <2>3. s.arena[i].name \in Names
    BY <1>0, <2>1, TypeFacts
  <2>. QED
    BY <2>1, <2>2, <2>3 DEF Backed
<1>11. ASSUME NEW z \in Names, z \notin X PROVE Gone(t, z) /\ TrulyAbsent(t, z)
  <2>1. Gone(s, z) /\ TrulyAbsent(s, z)
    BY <1>11 DEF Good
  <2>2. t.up[z] = s.up[z] \/ t.up[z] = "wh"
    BY <1>11
  <2>3. Gone(t, z)
    BY <1>3, <2>1, <2>2, Inodes DEF Gone
  <2>4. TrulyAbsent(t, z)
    BY <1>2, <2>1, <2>2 DEF TrulyAbsent
  <2>. QED
    BY <2>3, <2>4
<1>12. Good(t, X)
  BY <1>7, <1>8, <1>9, <1>10, <1>11 DEF Good
<1>13. Lacks(t, s, x)
  BY <1>1, <1>2, <1>3 DEF Lacks, Registered
<1>. QED
  BY <1>12, <1>13

-----------------------------------------------------------------------------
(* Loading the directory. *)

LEMMA LoadGood ==
    ASSUME use \in Uses, Careful(use), NEW s, Good(s, {}), \A x \in Names : FreeIds(s, x) # {},
           NEW t, t = load_dir_impl(s)
    PROVE  /\ Good(t, {}) /\ Extends(t, s) /\ t.up = s.up
           /\ \A z \in DOMAIN s.dir.kids : z \in DOMAIN t.dir.kids /\ t.dir.kids[z] = s.dir.kids[z]
<1>. DEFINE found == {x \in Names \ (DOMAIN s.dir.kids \cup s.dir.wh) : Exists(s, x)}
            ids == {NewId(s, x) : x \in found}
            old(id) == IF \E x \in DOMAIN s.dir.kids : s.dir.kids[x] = id
                       THEN [s.arena[id] EXCEPT !.below = low[s.arena[id].name] # "none"]
                       ELSE s.arena[id]
            new(x) == NewNode(s, x, low[x] # "none")
<1>1. /\ IsState(s) /\ Types(s) /\ Children(s) /\ Entries(s) /\ Unique(s) /\ Below(s)
      /\ Single(s)
  BY DEF Good
<1>2. PICK a : a = [id \in DOMAIN s.arena \cup ids |-> IF id \in DOMAIN s.arena THEN old(id) ELSE new(id[1])]
  OBVIOUS
<1>3. PICK k : k = [x \in DOMAIN s.dir.kids \cup found |->
                       IF x \in found THEN NewId(s, x) ELSE s.dir.kids[x]]
  OBVIOUS
<1>4. PICK v : v = s.dir.wh \cup {x \in Names \ DOMAIN s.dir.kids : s.up[x] = "wh"}
  OBVIOUS
<1>5. t = [s EXCEPT !.arena = a, !.dir = [kids |-> k, wh |-> v, loaded |-> TRUE]]
  BY <1>2, <1>3, <1>4 DEF load_dir_impl
<1>6. /\ IsState(t) /\ t.up = s.up /\ t.table = s.table /\ t.fuse_map = s.fuse_map
      /\ t.arena = a /\ t.dir.kids = k /\ t.dir.wh = v /\ t.dir.loaded = TRUE
  BY <1>1, <1>5 DEF IsState
(* The new nodes. *)
<1>7. \A x \in found : /\ NewId(s, x) \in Id /\ NewId(s, x) \notin DOMAIN s.arena
                       /\ NewId(s, x)[1] = x
  BY NewIdFacts
<1>8. \A x \in found : /\ Shown(s, x) \in Key
                       /\ \/ s.up[x] \in UIno /\ Shown(s, x) = s.up[x]
                          \/ s.up[x] = "none" /\ low[x] \in LIno /\ Shown(s, x) = low[x]
  BY <1>1, ShownFile
<1>9. \A x \in found : /\ new(x) \in Node /\ new(x).name = x /\ new(x).key = Shown(s, x)
                       /\ new(x).below = (low[x] # "none")
                       /\ new(x).layer = IF s.up[x] = "none" THEN 1 ELSE 0
  BY <1>8 DEF NewNode, Node
(* The old ones. *)
<1>10. \A id \in DOMAIN s.arena :
         /\ old(id) \in Node /\ old(id).name = s.arena[id].name /\ old(id).key = s.arena[id].key
         /\ old(id).layer = s.arena[id].layer
         /\ old(id).below = (low[s.arena[id].name] # "none")
  <2>1. SUFFICES ASSUME NEW id \in DOMAIN s.arena
                 PROVE  /\ old(id) \in Node /\ old(id).name = s.arena[id].name
                        /\ old(id).key = s.arena[id].key /\ old(id).layer = s.arena[id].layer
                        /\ old(id).below = (low[s.arena[id].name] # "none")
    OBVIOUS
  <2>2. \E x \in DOMAIN s.dir.kids : s.dir.kids[x] = id
    BY <1>1 DEF Children
  <2>3. PICK n : n = s.arena[id]
    OBVIOUS
  <2>4. n \in Node
    BY <1>1, <2>3, TypeFacts
  <2>5. old(id) = [n EXCEPT !.below = low[n.name] # "none"]
    BY <2>2, <2>3
  <2>. QED
    BY <2>3, <2>4, <2>5 DEF Node
<1>. HIDE DEF old, new
<1>11. /\ DOMAIN t.arena = DOMAIN s.arena \cup ids
       /\ \A id \in DOMAIN s.arena : t.arena[id] = old(id)
       /\ \A x \in found : NewId(s, x) \in DOMAIN t.arena /\ t.arena[NewId(s, x)] = new(x)
  BY <1>2, <1>6, <1>7
<1>12. \A id \in DOMAIN t.arena : id \notin DOMAIN s.arena => \E x \in found : id = NewId(s, x)
  BY <1>11
<1>13. /\ DOMAIN t.dir.kids = DOMAIN s.dir.kids \cup found
       /\ \A x \in found : t.dir.kids[x] = NewId(s, x)
       /\ \A x \in DOMAIN s.dir.kids : t.dir.kids[x] = s.dir.kids[x]
  BY <1>3, <1>6
<1>14. \A id \in DOMAIN s.arena : s.arena[id].name \notin found
  BY <1>1 DEF Children
<1>15. found \subseteq Names /\ found \cap s.dir.wh = {} /\ \A x \in found : Exists(s, x) /\ x \notin DOMAIN s.dir.kids
  OBVIOUS
<1>16. \A x \in Names : Exists(s, x) => x \in DOMAIN s.dir.kids \cup found
  <2>1. SUFFICES ASSUME NEW x \in Names, Exists(s, x), x \in s.dir.wh PROVE FALSE
    OBVIOUS
  <2>2. s.up[x] = "wh"
    BY <2>1 DEF Good, TrulyAbsent
  <2>. QED
    BY <2>1, <2>2, Inodes DEF Exists, Shown
<1>. HIDE DEF found, ids
<1>17. Types(t)
  <2>1. IsMap(t.arena, Id, Node)
    <3>1. \A id \in DOMAIN t.arena : id \in Id /\ t.arena[id] \in Node
      BY <1>1, <1>7, <1>9, <1>10, <1>11, <1>12, TypeFacts
    <3>2. t.arena = [id \in DOMAIN t.arena |-> t.arena[id]]
      BY <1>2, <1>6
    <3>. QED
      BY <3>1, <3>2 DEF IsMap
  <2>2. IsMap(t.dir.kids, Names, DOMAIN t.arena)
    <3>1. \A x \in DOMAIN t.dir.kids : x \in Names /\ t.dir.kids[x] \in DOMAIN t.arena
      BY <1>1, <1>11, <1>13, <1>15, TypeFacts
    <3>2. t.dir.kids = [x \in DOMAIN t.dir.kids |-> t.dir.kids[x]]
      BY <1>3, <1>6
    <3>. QED
      BY <3>1, <3>2 DEF IsMap
  <2>3. t.dir.wh \subseteq Names
    BY <1>1, <1>4, <1>6 DEF Types
  <2>. QED
    BY <1>1, <1>6, <2>1, <2>2, <2>3 DEF Types
<1>18. Children(t)
  <2>1. \A x \in DOMAIN t.dir.kids : t.arena[t.dir.kids[x]].name = x
    BY <1>1, <1>9, <1>10, <1>11, <1>13, TypeFacts DEF Children
  <2>2. ASSUME NEW id \in DOMAIN t.arena
        PROVE  t.arena[id].name \in DOMAIN t.dir.kids /\ t.dir.kids[t.arena[id].name] = id
    <3>1. CASE id \in DOMAIN s.arena
      BY <1>1, <1>10, <1>11, <1>13, <3>1 DEF Children
    <3>2. CASE id \notin DOMAIN s.arena
      BY <1>9, <1>11, <1>12, <1>13, <2>2, <3>2
    <3>. QED
      BY <3>1, <3>2
  <2>. QED
    BY <2>1, <2>2 DEF Children
<1>19. Entries(t)
  BY <1>1, <1>6, <1>10, <1>11 DEF Entries
<1>20. \A x \in found : \A id \in DOMAIN s.arena :
          new(x).key \in LIno => s.arena[id].key # new(x).key
  <2>1. SUFFICES ASSUME NEW x \in found, NEW id \in DOMAIN s.arena, new(x).key \in LIno,
                        s.arena[id].key = new(x).key
                 PROVE  FALSE
    OBVIOUS
  <2>2. s.up[x] = "none" /\ low[x] = s.arena[id].key /\ s.arena[id].name # x /\ x \in Names
    BY <1>8, <1>9, <1>14, <1>15, <2>1, Inodes
  <2>3. Gone(s, x)
    BY <2>2 DEF Good
  <2>. QED
    BY <2>1, <2>2, <2>3 DEF Gone
<1>21. \A x, y \in Names : low[x] = low[y] /\ low[x] # "none" => x = y
  BY DEF Careful, low
<1>22. \A x, y \in found : new(x).key \in LIno /\ new(x).key = new(y).key => x = y
  <2>1. \A x \in found : new(x).key \in LIno => low[x] = new(x).key /\ low[x] # "none"
    BY <1>8, <1>9, Inodes
  <2>. QED
    BY <1>15, <1>21, <2>1
<1>23. Unique(t)
  <2>1. SUFFICES ASSUME NEW i \in DOMAIN t.arena, NEW j \in DOMAIN t.arena,
                        t.arena[i].key \in LIno, t.arena[i].key = t.arena[j].key
                 PROVE  i = j
    BY DEF Unique
  <2>2. CASE i \in DOMAIN s.arena /\ j \in DOMAIN s.arena
    BY <1>1, <1>10, <1>11, <2>1, <2>2 DEF Unique
  <2>3. CASE i \notin DOMAIN s.arena /\ j \notin DOMAIN s.arena
    BY <1>11, <1>12, <1>22, <2>1, <2>3
  <2>4. CASE i \in DOMAIN s.arena /\ j \notin DOMAIN s.arena
    BY <1>10, <1>11, <1>12, <1>20, <2>1, <2>4
  <2>5. CASE i \notin DOMAIN s.arena /\ j \in DOMAIN s.arena
    BY <1>10, <1>11, <1>12, <1>20, <2>1, <2>5
  <2>. QED
    BY <2>2, <2>3, <2>4, <2>5
<1>24. Below(t)
  <2>1. SUFFICES ASSUME NEW id \in DOMAIN t.arena, low[t.arena[id].name] # "none"
                 PROVE  t.arena[id].below
    BY DEF Below
  <2>2. CASE id \in DOMAIN s.arena
    <3>1. t.arena[id] = old(id) /\ old(id).name = s.arena[id].name
      BY <1>10, <1>11, <2>2
    <3>2. old(id).below = (low[s.arena[id].name] # "none")
      BY <1>10, <2>2
    <3>. QED
      BY <2>1, <3>1, <3>2
  <2>3. CASE id \notin DOMAIN s.arena
    <3>1. PICK x \in found : id = NewId(s, x)
      BY <1>12, <2>1, <2>3
    <3>2. t.arena[id] = new(x) /\ new(x).name = x
      BY <1>9, <1>11, <3>1
    <3>3. new(x).below = (low[x] # "none")
      BY <1>9
    <3>. QED
      BY <2>1, <3>2, <3>3
  <2>. QED
    BY <2>2, <2>3
<1>25. ASSUME NEW id \in DOMAIN t.arena PROVE Backed(t, id)
  <2>1. CASE id \in DOMAIN s.arena
    <3>1. Backed(s, id)
      BY <2>1 DEF Good
    <3>. QED
      BY <1>6, <1>10, <1>11, <2>1, <3>1 DEF Backed
  <2>2. CASE id \notin DOMAIN s.arena
    <3>1. PICK x \in found : id = NewId(s, x)
      BY <1>12, <1>25, <2>2
    <3>2. t.arena[id] = new(x)
      BY <1>11, <3>1
    <3>. QED
      BY <1>6, <1>8, <1>9, <3>1, <3>2, Inodes DEF Backed
  <2>. QED
    BY <2>1, <2>2
<1>26. ASSUME NEW z \in Names PROVE Gone(t, z) /\ TrulyAbsent(t, z)
  <2>1. Gone(s, z) /\ TrulyAbsent(s, z)
    BY DEF Good
  <2>2. Gone(t, z)
    <3>1. SUFFICES ASSUME NEW id \in DOMAIN t.arena, t.arena[id].key \in LIno,
                          low[z] = t.arena[id].key, z # t.arena[id].name
                   PROVE  "rename" \in use.calls /\ t.up[z] = "wh"
      BY DEF Gone
    <3>2. CASE id \in DOMAIN s.arena
      BY <1>6, <1>10, <1>11, <2>1, <3>1, <3>2 DEF Gone
    <3>3. CASE id \notin DOMAIN s.arena
      <4>1. PICK x \in found : id = NewId(s, x)
        BY <1>12, <3>1, <3>3
      <4>2. low[x] = t.arena[id].key /\ low[x] # "none" /\ x = t.arena[id].name /\ x \in Names
        BY <1>8, <1>9, <1>11, <1>15, <3>1, <4>1, Inodes
      <4>. QED
        BY <1>21, <1>26, <3>1, <4>2
    <3>. QED
      BY <3>2, <3>3
  <2>3. TrulyAbsent(t, z)
    <3>1. z \in t.dir.wh => t.up[z] = "wh"
      BY <1>4, <1>6, <2>1 DEF TrulyAbsent
    <3>2. z \notin DOMAIN t.dir.kids => ~Exists(t, z)
      BY <1>6, <1>13, <1>16, <1>26 DEF Exists, Shown
    <3>. QED
      BY <3>1, <3>2 DEF TrulyAbsent
  <2>. QED
    BY <2>2, <2>3
<1>27. Good(t, {})
  <2>1. Single(t)
    BY <1>1, <1>6 DEF Single
  <2>. QED
    BY <1>6, <1>17, <1>18, <1>19, <1>23, <1>24, <1>25, <1>26, <2>1 DEF Good
<1>28. Extends(t, s)
  BY <1>6, <1>10, <1>11 DEF Extends, Registered
<1>. QED
  BY <1>6, <1>13, <1>27, <1>28

(* Reading the directory loads it once.                                    *)
LEMMA ReloadGood ==
    ASSUME use \in Uses, Careful(use), NEW s, Good(s, {}), \A x \in Names : FreeIds(s, x) # {},
           NEW t, t = reload_dir(s)
    PROVE  /\ Good(t, {}) /\ Extends(t, s) /\ t.up = s.up
           /\ \A z \in DOMAIN s.dir.kids : z \in DOMAIN t.dir.kids /\ t.dir.kids[z] = s.dir.kids[z]
<1>1. CASE s.dir.loaded
  <2>1. t = s
    BY <1>1 DEF reload_dir
  <2>. QED
    BY <2>1 DEF Extends
<1>2. CASE ~s.dir.loaded
  <2>1. t = load_dir_impl(s)
    BY <1>2 DEF reload_dir
  <2>. QED
    BY <2>1, LoadGood
<1>. QED
  BY <1>1, <1>2

-----------------------------------------------------------------------------
(* Steps. *)

(* The state after a step.                                                 *)
LEMMA AfterStep ==
    ASSUME Inv, NEW t, Good(t, {}), use' = use, up' = t.up, arena' = t.arena, dir' = t.dir,
           table' = t.table, fuse_map' = t.fuse_map,
           IsMap(dent', Names, held'), held' \subseteq DOMAIN t.fuse_map, Dentries(t, dent')
    PROVE  Inv'
<1>1. /\ up' = t.up /\ arena' = t.arena /\ dir' = t.dir /\ table' = t.table
      /\ fuse_map' = t.fuse_map /\ use' = use
  OBVIOUS
<1>2. /\ IsState(t) /\ Types(t) /\ Children(t) /\ Entries(t) /\ Unique(t) /\ Below(t)
      /\ Single(t)
      /\ \A id \in DOMAIN t.arena : Backed(t, id)
      /\ \A z \in Names : Gone(t, z) /\ TrulyAbsent(t, z)
  BY DEF Good
<1>3. IsState(Now)'
  BY <1>1, <1>2 DEF IsState, Now
<1>4. Types(Now)'
  BY <1>1, <1>2 DEF Types, Now
<1>5. Children(Now)' /\ Entries(Now)' /\ Unique(Now)'
  BY <1>1, <1>2 DEF Children, Entries, Unique, Now
<1>6. Below(Now)' /\ Single(Now)'
  BY <1>1, <1>2 DEF Below, Single, Mixed, Now, low
<1>7. (\A id \in DOMAIN Now.arena : Now.arena[id].name \notin {} => Backed(Now, id))'
  BY <1>1, <1>2 DEF Backed, Now, low
<1>8. (\A z \in Names \ {} : Gone(Now, z) /\ TrulyAbsent(Now, z))'
  BY <1>1, <1>2 DEF Gone, TrulyAbsent, Exists, Shown, Now, low
<1>9. Good(Now, {})'
  BY <1>3, <1>4, <1>5, <1>6, <1>7, <1>8 DEF Good
<1>10. Dentries(Now, dent)'
  BY <1>1 DEF Dentries, Registered, Now
<1>11. (use \in Uses)' /\ Careful(use)'
  BY <1>1 DEF Inv, Careful
<1>. QED
  BY <1>1, <1>9, <1>10, <1>11 DEF Inv

LEMMA AfterCall ==
    ASSUME Inv, NEW op, NEW names, NEW t, Become(op, names, t), Good(t, {}),
           IsMap(dent', Names, held'), held' \subseteq DOMAIN t.fuse_map, Dentries(t, dent')
    PROVE  Inv'
<1>1. /\ up' = t.up /\ arena' = t.arena /\ dir' = t.dir /\ table' = t.table
      /\ fuse_map' = t.fuse_map /\ use' = use
  BY DEF Become
<1>. QED
  BY <1>1, AfterStep

\* A call changes the upper layer at its own names only.
KeepsUp == use' = use /\ \A z \in Names \ called' : up'[z] = up[z]

LEMMA NowFields ==
    /\ Now.up = up /\ Now.arena = arena /\ Now.dir = dir /\ Now.table = table
    /\ Now.fuse_map = fuse_map
BY DEF Now

(* The kernel's names keep their nodes and numbers where the state grows.  *)
LEMMA DentriesKept ==
    ASSUME NEW s, Types(s), NEW d, Dentries(s, d), NEW t, Extends(t, s),
           \A z \in DOMAIN s.dir.kids : z \in DOMAIN t.dir.kids /\ t.dir.kids[z] = s.dir.kids[z]
    PROVE  Dentries(t, d)
BY TypeFacts DEF Dentries, Extends

LEMMA RoomFacts ==
    ASSUME NEW s, DOMAIN s.arena = DOMAIN arena, s.fuse_map = fuse_map, NodeRoom
    PROVE  /\ \A x \in Names : FreeIds(s, x) # {}
           /\ Room => HasNumber(s)
BY NowFields DEF Room, NodeRoom, FreeIds, HasNumber

LEMMA LookupStep ==
    ASSUME Inv, NEW x \in Names, Lookup(x)
    PROVE  Inv' /\ KeepsUp
<1>1. /\ use \in Uses /\ Careful(use) /\ Good(Now, {}) /\ Types(Now)
      /\ IsMap(dent, Names, held) /\ held \subseteq DOMAIN Now.fuse_map /\ Dentries(Now, dent)
  BY NowFields DEF Inv, Good
<1>2. FreeIds(Now, x) # {} /\ HasNumber(Now)
  <2>1. DOMAIN Now.arena = DOMAIN arena /\ Now.fuse_map = fuse_map /\ NodeRoom /\ Room
    BY NowFields DEF Lookup, Room
  <2>. QED
    BY <2>1, RoomFacts
<1>3. PICK now, s1 : now = Now /\ s1 = do_lookup_file(now, x)
  OBVIOUS
<1>4. Good(s1, {}) /\ LookedUp(s1, now, x)
  BY <1>1, <1>2, <1>3, LookupGood
<1>5. Types(s1) /\ Dentries(s1, dent) /\ held \subseteq DOMAIN s1.fuse_map /\ s1.up = up
  <2>1. Types(s1) /\ Extends(s1, now) /\ s1.up = now.up
    BY <1>4 DEF Good, LookedUp
  <2>2. \A z \in DOMAIN now.dir.kids : z \in DOMAIN s1.dir.kids /\ s1.dir.kids[z] = now.dir.kids[z]
    BY <1>4 DEF LookedUp
  <2>3. Dentries(s1, dent)
    BY <1>1, <1>3, <2>1, <2>2, DentriesKept
  <2>. QED
    BY <1>1, <1>3, <2>1, <2>3, NowFields DEF Extends
<1>6. CASE x \notin DOMAIN s1.dir.kids
  <2>1. Become("lookup", {x}, s1) /\ dent' = Drop(dent, x) /\ held' = held
    BY <1>3, <1>6 DEF Lookup, Found
  <2>2. IsMap(dent', Names, held') /\ Dentries(s1, dent')
    <3>1. PICK d : d = dent
      OBVIOUS
    <3>2. IsMap(Drop(d, x), Names, held) /\ Dentries(s1, Drop(d, x))
      BY <1>1, <1>5, <3>1, DropMap DEF Dentries, Drop
    <3>. QED
      BY <2>1, <3>1, <3>2
  <2>3. Inv'
    BY <1>4, <1>5, <2>1, <2>2, AfterCall
  <2>. QED
    BY <1>5, <2>1, <2>3 DEF KeepsUp, Become
<1>7. CASE x \in DOMAIN s1.dir.kids
  <2>1. PICK id, key : id = s1.dir.kids[x] /\ key = s1.arena[id].key
    OBVIOUS
  <2>2. PICK s2 : s2 = register(s1, id)
    OBVIOUS
  <2>3. id \in DOMAIN s1.arena
    BY <1>5, <1>7, <2>1, TypeFacts
  <2>4. HasNumber(s1) \/ (key \in DOMAIN s1.table /\ id \in s1.table[key].ids)
    BY <1>2, <1>3, <1>4, <1>7, <2>1 DEF LookedUp, Registered
  <2>5. /\ Good(s2, {}) /\ Extends(s2, s1) /\ s2.up = s1.up /\ s2.arena = s1.arena /\ s2.dir = s1.dir
        /\ key \in DOMAIN s2.table /\ Registered(s2, id, s2.table[key].num)
    BY <1>1, <1>4, <2>1, <2>2, <2>3, <2>4, RegisterGood
  <2>6. PICK n : n = s2.table[key].num
    OBVIOUS
  <2>7. Become("lookup", {x}, s2) /\ dent' = Put(dent, x, n) /\ held' = held \cup {n}
    BY <1>3, <1>7, <2>1, <2>2, <2>5, <2>6 DEF Lookup, Found, Learn, NumberOf
  <2>8. n \in DOMAIN s2.fuse_map
    BY <2>5, <2>6 DEF Good, Entries
  <2>9. IsMap(dent', Names, held') /\ Dentries(s2, dent')
    <3>1. PICK d, h : d = dent /\ h = held \cup {n}
      OBVIOUS
    <3>2. IsMap(d, Names, h) /\ n \in h
      BY <1>1, <3>1 DEF IsMap
    <3>3. IsMap(Put(d, x, n), Names, h)
      BY <3>2, PutMap
    <3>4. Dentries(s2, d)
      BY <1>5, <2>5, <3>1, DentriesKept
    <3>5. Dentries(s2, Put(d, x, n))
      BY <1>7, <2>1, <2>5, <2>6, <3>4 DEF Dentries, Put
    <3>. QED
      BY <2>7, <3>1, <3>3, <3>5
  <2>10. held' \subseteq DOMAIN s2.fuse_map
    BY <1>5, <2>5, <2>7, <2>8 DEF Extends
  <2>11. Inv'
    BY <2>5, <2>7, <2>9, <2>10, AfterCall
  <2>. QED
    BY <1>5, <2>5, <2>7, <2>11 DEF KeepsUp, Become
<1>. QED
  BY <1>6, <1>7

LEMMA ReaddirStep ==
    ASSUME Inv, Readdir
    PROVE  Inv' /\ KeepsUp
<1>1. /\ use \in Uses /\ Careful(use) /\ Good(Now, {}) /\ Types(Now)
      /\ IsMap(dent, Names, held) /\ held \subseteq DOMAIN Now.fuse_map /\ Dentries(Now, dent)
  BY NowFields DEF Inv, Good
<1>2. \A x \in Names : FreeIds(Now, x) # {}
  BY DEF Readdir, NodeRoom
<1>3. PICK now, t : now = Now /\ t = reload_dir(now)
  OBVIOUS
<1>4. /\ Good(t, {}) /\ Extends(t, now) /\ t.up = now.up
      /\ \A z \in DOMAIN now.dir.kids : z \in DOMAIN t.dir.kids /\ t.dir.kids[z] = now.dir.kids[z]
  BY <1>1, <1>2, <1>3, ReloadGood
<1>5. Dentries(t, dent)
  BY <1>1, <1>3, <1>4, DentriesKept
<1>6. Become("readdir", {}, t) /\ dent' = dent /\ held' = held
  BY <1>3 DEF Readdir, Kernel
<1>7. held' \subseteq DOMAIN t.fuse_map /\ IsMap(dent', Names, held') /\ Dentries(t, dent')
  BY <1>1, <1>3, <1>4, <1>5, <1>6 DEF Extends
<1>8. Inv'
  BY <1>4, <1>6, <1>7, AfterCall
<1>. QED
  BY <1>3, <1>4, <1>6, <1>8, NowFields DEF KeepsUp, Become

(* The nodes of a number that the kernel has for a name: one of them is    *)
(* the name's, and the one in the lower layer is no other's.               *)
LEMMA NumberNodes ==
    ASSUME Inv, NEW x \in DOMAIN dent
    PROVE  /\ x \in Names /\ x \in DOMAIN dir.kids /\ dir.kids[x] \in DOMAIN arena
           /\ arena[dir.kids[x]].name = x
           /\ dir.kids[x] \in lookup_node_id(Now, dent[x])
           /\ \A id \in lookup_node_id(Now, dent[x]) :
                 /\ id \in DOMAIN arena /\ arena[id].key = arena[dir.kids[x]].key
                 /\ arena[id].key \in LIno => id = dir.kids[x]
                 /\ arena[id].layer # 0 => id = dir.kids[x]
<1>1. /\ use \in Uses /\ Good(Now, {}) /\ Types(Now) /\ Children(Now) /\ Entries(Now) /\ Unique(Now)
      /\ Dentries(Now, dent) /\ \A id \in DOMAIN arena : Backed(Now, id)
  BY NowFields DEF Inv, Good
<1>2. PICK k, key, n : k = dir.kids[x] /\ key = arena[k].key /\ n = dent[x]
  OBVIOUS
<1>3. x \in DOMAIN dir.kids /\ key \in DOMAIN table /\ k \in table[key].ids /\ table[key].num = n
  BY <1>1, <1>2, NowFields DEF Dentries, Registered
<1>4. n \in DOMAIN fuse_map /\ fuse_map[n] = key
  BY <1>1, <1>3, NowFields DEF Entries
<1>5. k \in DOMAIN arena /\ arena[k].name = x /\ x \in Names
  BY <1>1, <1>2, <1>3, NowFields, TypeFacts DEF Children
<1>6. lookup_node_id(Now, n) = table[key].ids \cap DOMAIN arena
  BY <1>3, <1>4, NowFields DEF lookup_node_id
<1>7. ASSUME NEW id \in lookup_node_id(Now, n)
      PROVE  /\ id \in DOMAIN arena /\ arena[id].key = key
             /\ arena[id].key \in LIno => id = k
             /\ arena[id].layer # 0 => id = k
  <2>1. id \in DOMAIN arena /\ arena[id].key = key
    BY <1>1, <1>3, <1>6, <1>7, NowFields DEF Entries
  <2>2. arena[id].key \in LIno => id = k
    BY <1>1, <1>2, <1>5, <2>1, NowFields DEF Unique
  <2>3. arena[id].layer # 0 => arena[id].key \notin UIno
    BY <1>1, <2>1, NowFields DEF Backed
  <2>4. key \in LIno \cup UIno
    BY <1>1, <2>1, NowFields, TypeFacts DEF Key
  <2>. QED
    BY <2>1, <2>2, <2>3, <2>4
<1>. QED
  BY <1>2, <1>3, <1>5, <1>6, <1>7

LEMMA ChangeStep ==
    ASSUME Inv, NEW x \in Names, Change(x)
    PROVE  Inv' /\ KeepsUp
<1>1. /\ use \in Uses /\ Careful(use) /\ Good(Now, {}) /\ Types(Now)
      /\ IsMap(dent, Names, held) /\ held \subseteq DOMAIN Now.fuse_map /\ Dentries(Now, dent)
  BY NowFields DEF Inv, Good
<1>2. PICK id \in lookup_node_id(Now, dent[x]), ino \in Free(Now) :
          Become("change", {x}, get_node_up(Now, id, ino))
  BY DEF Change
<1>3. PICK now, t : now = Now /\ t = get_node_up(now, id, ino)
  OBVIOUS
<1>4. x \in DOMAIN dent /\ dent' = dent /\ held' = held
  BY DEF Change, Kernel
<1>5. /\ id \in DOMAIN arena /\ ino \in UIno
      /\ arena[id].layer # 0 => arena[id].name = x
  BY <1>4, NumberNodes DEF Free
<1>6. /\ Good(t, {}) /\ Extends(t, now) /\ t.dir = now.dir /\ t.fuse_map = now.fuse_map
      /\ \A z \in Names : z # now.arena[id].name => t.up[z] = now.up[z]
      /\ now.arena[id].layer = 0 => t.up = now.up
  BY <1>1, <1>3, <1>5, NowFields, UpGood
<1>7. Dentries(t, dent)
  BY <1>1, <1>3, <1>6, DentriesKept
<1>8. Become("change", {x}, t)
  BY <1>2, <1>3
<1>9. held' \subseteq DOMAIN t.fuse_map /\ IsMap(dent', Names, held') /\ Dentries(t, dent')
  BY <1>1, <1>3, <1>4, <1>6, <1>7
<1>10. Inv'
  BY <1>6, <1>8, <1>9, AfterCall
<1>11. \A z \in Names : z # x => t.up[z] = up[z]
  BY <1>3, <1>5, <1>6, NowFields
<1>. QED
  BY <1>8, <1>10, <1>11 DEF KeepsUp, Become

LEMMA UnlinkStep ==
    ASSUME Inv, NEW x \in Names, Unlink(x)
    PROVE  Inv' /\ KeepsUp
<1>1. /\ use \in Uses /\ Careful(use) /\ Good(Now, {}) /\ Types(Now) /\ IsState(Now)
      /\ Children(Now) /\ Entries(Now)
      /\ IsMap(dent, Names, held) /\ held \subseteq DOMAIN Now.fuse_map /\ Dentries(Now, dent)
  BY NowFields DEF Inv, Good
<1>2. x \in DOMAIN dent /\ dent' = Drop(dent, x) /\ held' = held
  BY DEF Unlink
<1>3. PICK now, r : now = Now /\ r = Removed(now, x)
  OBVIOUS
<1>4. x \in DOMAIN now.dir.kids
  BY <1>2, <1>3, NumberNodes, NowFields
<1>5. do_lookup_file(now, x) = now
  BY <1>4 DEF do_lookup_file
<1>6. PICK t : t = [r EXCEPT !.up[x] = "wh", !.dir.loaded = FALSE]
  OBVIOUS
<1>7. Become("unlink", {x}, t)
  BY <1>3, <1>4, <1>5, <1>6 DEF Unlink, Found
<1>8. IsState(r) /\ r.up = now.up
  <2>1. PICK id : id = now.dir.kids[x]
    OBVIOUS
  <2>. QED
    BY <1>1, <1>3, <1>4, <2>1, RemovedFields
<1>9. /\ IsState(t) /\ t.up = [now.up EXCEPT ![x] = "wh"] /\ t.arena = r.arena
      /\ t.dir.kids = r.dir.kids /\ t.dir.wh = r.dir.wh /\ t.dir.loaded = FALSE
      /\ t.table = r.table /\ t.fuse_map = r.fuse_map
  BY <1>6, <1>8 DEF IsState
<1>10. /\ t.up \in [Names -> UIno \cup {"none", "wh"}] /\ t.up[x] = "wh"
       /\ \A z \in Names : z # x => t.up[z] = now.up[z]
  BY <1>1, <1>3, <1>9 DEF Types
<1>11. Good(t, {}) /\ Lacks(t, now, x)
  <2>1. PICK X : X = {}
    OBVIOUS
  <2>2. Good(now, X)
    BY <1>1, <1>3, <2>1
  <2>3. /\ use \in Uses /\ IsState(t) /\ t.arena = r.arena
        /\ t.dir.kids = r.dir.kids /\ t.dir.wh = r.dir.wh /\ t.dir.loaded = FALSE
        /\ t.table = r.table /\ t.fuse_map = r.fuse_map
    BY <1>1, <1>9
  <2>4. t.up[x] = "wh" \/ (x \in X /\ t.up[x] = now.up[x])
    BY <1>10
  <2>5. r = Removed(now, x)
    BY <1>3
  <2>6. Good(t, X) /\ Lacks(t, now, x)
    BY <1>4, <1>10, <2>2, <2>3, <2>4, <2>5, RemovedGood
  <2>. QED
    BY <2>1, <2>6
<1>12. Dentries(t, Drop(dent, x))
  <2>1. \A z \in DOMAIN now.dir.kids : z # x => now.dir.kids[z] # now.dir.kids[x]
    BY <1>1, <1>3, <1>4 DEF Children
  <2>2. \A z \in DOMAIN dent : z \in DOMAIN now.dir.kids /\ now.dir.kids[z] \in DOMAIN now.arena
    BY <1>1, <1>3, TypeFacts DEF Dentries
  <2>. QED
    BY <1>1, <1>3, <1>11, <2>1, <2>2 DEF Dentries, Lacks, Drop
<1>13. IsMap(dent', Names, held')
  <2>1. PICK d : d = dent
    OBVIOUS
  <2>2. IsMap(Drop(d, x), Names, held)
    BY <1>1, <2>1, DropMap
  <2>. QED
    BY <1>2, <2>1, <2>2
<1>14. held' \subseteq DOMAIN t.fuse_map /\ Dentries(t, dent')
  BY <1>1, <1>2, <1>3, <1>11, <1>12 DEF Lacks
<1>15. Inv'
  BY <1>7, <1>11, <1>13, <1>14, AfterCall
<1>. QED
  BY <1>3, <1>7, <1>10, <1>15, NowFields DEF KeepsUp, Become

LEMMA ForgetStep ==
    ASSUME Inv, NEW n \in Numbers, Forget(n)
    PROVE  Inv' /\ KeepsUp
<1>1. /\ use \in Uses /\ Careful(use) /\ Good(Now, {}) /\ Types(Now) /\ IsState(Now) /\ Entries(Now)
      /\ IsMap(dent, Names, held) /\ held \subseteq DOMAIN fuse_map /\ Dentries(Now, dent)
  BY DEF Inv, Good
<1>2. n \in held /\ held' = held \ {n} /\ dent' = dent /\ \A x \in DOMAIN dent : dent[x] # n
  BY DEF Forget, Range
<1>3. PICK key : key = fuse_map[n]
  OBVIOUS
<1>4. PICK f : f = IF key \in DOMAIN table /\ table[key].num = n THEN Drop(table, key) ELSE table
  OBVIOUS
<1>5. PICK t : t = [Now EXCEPT !.fuse_map = Drop(fuse_map, n), !.table = f]
  OBVIOUS
<1>6. Become("forget", {}, t)
  BY <1>3, <1>4, <1>5, NowFields DEF Forget, NumberOf
<1>7. /\ IsState(t) /\ t.up = Now.up /\ t.arena = Now.arena /\ t.dir = Now.dir
      /\ t.table = f /\ t.fuse_map = Drop(fuse_map, n)
  BY <1>1, <1>5 DEF IsState
<1>8. /\ DOMAIN f \subseteq DOMAIN table /\ \A k \in DOMAIN f : f[k] = table[k]
      /\ \A k \in DOMAIN table : k # key \/ table[k].num # n => k \in DOMAIN f
      /\ ~(key \in DOMAIN f /\ f[key].num = n)
  BY <1>4 DEF Drop
<1>9. IsMap(f, Key, Entry) /\ IsMap(t.fuse_map, Numbers, Key)
  <2>1. PICK g, m : g = table /\ m = fuse_map
    OBVIOUS
  <2>2. IsMap(g, Key, Entry) /\ IsMap(m, Numbers, Key)
    BY <1>1, <2>1, NowFields DEF Types
  <2>3. IsMap(Drop(g, key), Key, Entry) /\ IsMap(Drop(m, n), Numbers, Key)
    BY <2>2, DropMap
  <2>. QED
    BY <1>4, <1>7, <2>1, <2>2, <2>3
<1>10. DOMAIN t.fuse_map = DOMAIN fuse_map \ {n} /\ \A m \in DOMAIN t.fuse_map : t.fuse_map[m] = fuse_map[m]
  BY <1>7 DEF Drop
<1>11. Entries(t)
  <2>1. SUFFICES ASSUME NEW k \in DOMAIN f
                 PROVE  /\ f[k].num \in DOMAIN t.fuse_map /\ t.fuse_map[f[k].num] = k
                        /\ \A id \in f[k].ids : id \in DOMAIN t.arena /\ t.arena[id].key = k
    BY <1>7 DEF Entries
  <2>2. /\ k \in DOMAIN table /\ f[k] = table[k]
        /\ table[k].num \in DOMAIN fuse_map /\ fuse_map[table[k].num] = k
        /\ \A id \in table[k].ids : id \in DOMAIN arena /\ arena[id].key = k
    BY <1>1, <1>8, <2>1, NowFields DEF Entries
  <2>3. table[k].num # n
    BY <1>3, <1>8, <2>1, <2>2
  <2>. QED
    BY <1>7, <1>10, <2>2, <2>3, NowFields
<1>12. Good(t, {})
  BY <1>1, <1>7, <1>9, <1>11, SameNodes
<1>13. Dentries(t, dent)
  <2>1. SUFFICES ASSUME NEW x \in DOMAIN dent
                 PROVE  x \in DOMAIN t.dir.kids /\ Registered(t, t.dir.kids[x], dent[x])
    BY DEF Dentries
  <2>2. x \in DOMAIN dir.kids /\ Registered(Now, dir.kids[x], dent[x])
    BY <1>1, <2>1, NowFields DEF Dentries
  <2>3. dent[x] # n
    BY <1>2, <2>1
  <2>. QED
    BY <1>7, <1>8, <2>2, <2>3, NowFields DEF Registered
<1>14. IsMap(dent, Names, held \ {n})
  <2>1. PICK d : d = dent
    OBVIOUS
  <2>2. d \in [DOMAIN d -> held] /\ DOMAIN d \subseteq Names
    BY <1>1, <2>1, MapFacts
  <2>3. d \in [DOMAIN d -> held \ {n}] /\ DOMAIN d \in SUBSET Names
    BY <1>2, <2>1, <2>2
  <2>. QED
    BY <2>1, <2>3 DEF IsMap
<1>15. IsMap(dent', Names, held') /\ held' \subseteq DOMAIN t.fuse_map /\ Dentries(t, dent')
  BY <1>1, <1>2, <1>10, <1>13, <1>14
<1>16. Inv'
  BY <1>6, <1>12, <1>15, AfterCall
<1>. QED
  BY <1>6, <1>7, <1>16, NowFields DEF KeepsUp, Become

LEMMA EvictStep ==
    ASSUME Inv, NEW x \in Names, Evict(x)
    PROVE  Inv' /\ KeepsUp
<1>1. PICK d, t : d = Drop(dent, x) /\ t = Now
  OBVIOUS
<1>2. Become("evict", {}, t) /\ dent' = d /\ held' = held
  BY <1>1 DEF Evict
<1>3. Good(t, {}) /\ held \subseteq DOMAIN t.fuse_map /\ Dentries(t, dent)
  BY <1>1, NowFields DEF Inv
<1>4. IsMap(d, Names, held) /\ Dentries(t, d)
  <2>1. PICK f : f = dent
    OBVIOUS
  <2>2. IsMap(Drop(f, x), Names, held)
    BY <2>1, DropMap DEF Inv
  <2>. QED
    BY <1>1, <1>3, <2>1, <2>2 DEF Dentries, Drop
<1>5. IsMap(dent', Names, held') /\ held' \subseteq DOMAIN t.fuse_map /\ Dentries(t, dent')
  BY <1>2, <1>3, <1>4
<1>6. Inv'
  BY <1>2, <1>3, <1>5, AfterCall
<1>. QED
  BY <1>1, <1>2, <1>6, NowFields DEF KeepsUp, Become

(* A server that has just been mounted knows of no node.                   *)
LEMMA FreshGood ==
    ASSUME NEW u, u \in [Names -> UIno \cup {"none", "wh"}],
           Mixed => \A x, y \in Names : u[x] \in UIno /\ u[x] = u[y] => x = y,
           NEW t, t = [up |-> u, arena |-> EmptyMap, dir |-> NewDir,
                       table |-> EmptyMap, fuse_map |-> EmptyMap],
           NEW d, d = EmptyMap
    PROVE  Good(t, {}) /\ Dentries(t, d) /\ IsMap(d, Names, {})
<1>1. DOMAIN EmptyMap = {} /\ \A S, T : IsMap(EmptyMap, S, T)
  <2>1. DOMAIN EmptyMap = {} /\ \A T : EmptyMap \in [{} -> T]
    BY DEF EmptyMap
  <2>2. \A S : {} \in SUBSET S
    OBVIOUS
  <2>. QED
    BY <2>1, <2>2 DEF IsMap
<1>2. /\ IsState(t) /\ t.up = u /\ t.arena = EmptyMap /\ t.table = EmptyMap /\ t.fuse_map = EmptyMap
      /\ t.dir.kids = EmptyMap /\ t.dir.wh = {} /\ t.dir.loaded = FALSE
  BY DEF IsState, NewDir
<1>3. Types(t)
  <2>1. /\ IsMap(EmptyMap, Id, Node) /\ IsMap(EmptyMap, Names, DOMAIN EmptyMap)
        /\ IsMap(EmptyMap, Key, Entry) /\ IsMap(EmptyMap, Numbers, Key)
    BY <1>1
  <2>. QED
    BY <1>2, <2>1 DEF Types
<1>4. Children(t) /\ Entries(t) /\ Unique(t) /\ Below(t) /\ Single(t)
  BY <1>1, <1>2 DEF Children, Entries, Unique, Below, Single
<1>5. \A z \in Names : Gone(t, z) /\ TrulyAbsent(t, z)
  BY <1>1, <1>2 DEF Gone, TrulyAbsent
<1>. QED
  BY <1>1, <1>2, <1>3, <1>4, <1>5 DEF Good, Dentries

LEMMA RemountStep ==
    ASSUME Inv, Remount
    PROVE  Inv' /\ KeepsUp
<1>1. /\ up \in [Names -> UIno \cup {"none", "wh"}]
      /\ Mixed => \A x, y \in Names : up[x] \in UIno /\ up[x] = up[y] => x = y
  BY NowFields DEF Inv, Good, Types, Single
<1>2. PICK t, d : /\ t = [up |-> up, arena |-> EmptyMap, dir |-> NewDir,
                          table |-> EmptyMap, fuse_map |-> EmptyMap]
                  /\ d = EmptyMap
  OBVIOUS
<1>3. Good(t, {}) /\ Dentries(t, d) /\ IsMap(d, Names, {})
  BY <1>1, <1>2, FreshGood
<1>4. Become("mount", {}, t) /\ dent' = d /\ held' = {}
  BY <1>2 DEF Remount
<1>5. Inv'
  BY <1>3, <1>4, AfterCall
<1>. QED
  BY <1>2, <1>4, <1>5 DEF KeepsUp, Become

\* s with a file of the upper layer at x.
WithFile(s, x, ino) == [s EXCEPT !.up[x] = ino]

(* A file at a name that shows none: only that name is not as it should be *)
(* until it has a node.                                                    *)
LEMMA FileMade ==
    ASSUME ~Mixed, NEW s, Good(s, {}), NEW x \in Names, x \notin DOMAIN s.dir.kids,
           NEW ino \in UIno, NEW t, t = WithFile(s, x, ino), NEW X, X = {x}
    PROVE  /\ Good(t, X) /\ Gone(t, x) /\ t.up[x] = ino /\ \A z \in Names : z # x => t.up[z] = s.up[z]
           /\ t.arena = s.arena /\ t.dir = s.dir /\ t.table = s.table /\ t.fuse_map = s.fuse_map
<1>1. /\ IsState(s) /\ Types(s) /\ Children(s) /\ Entries(s) /\ Unique(s) /\ Below(s)
      /\ Single(s)
  BY DEF Good
<1>2. /\ IsState(t) /\ t.up = [s.up EXCEPT ![x] = ino]
      /\ t.arena = s.arena /\ t.dir = s.dir /\ t.table = s.table /\ t.fuse_map = s.fuse_map
  BY <1>1 DEF IsState, WithFile
<1>3. /\ t.up \in [Names -> UIno \cup {"none", "wh"}] /\ t.up[x] = ino
      /\ \A z \in Names : z # x => t.up[z] = s.up[z]
  BY <1>1, <1>2 DEF Types
<1>4. Types(t) /\ Children(t) /\ Entries(t) /\ Unique(t) /\ Below(t) /\ Single(t)
  BY <1>1, <1>2, <1>3 DEF Types, Children, Entries, Unique, Below, Single
<1>5. ASSUME NEW id \in DOMAIN t.arena, t.arena[id].name \notin {x} PROVE Backed(t, id)
  <2>1. Backed(s, id) /\ s.arena[id].name \in Names
    BY <1>1, <1>2, <1>5, TypeFacts DEF Good
  <2>. QED
    BY <1>2, <1>3, <1>5, <2>1 DEF Backed
<1>6. ASSUME NEW z \in Names, z \notin {x} PROVE Gone(t, z) /\ TrulyAbsent(t, z)
  <2>1. Gone(s, z) /\ TrulyAbsent(s, z)
    BY DEF Good
  <2>. QED
    BY <1>2, <1>3, <1>6, <2>1 DEF Gone, TrulyAbsent, Exists, Shown
<1>7. Gone(t, x)
  <2>1. Gone(s, x)
    BY DEF Good
  <2>. QED
    BY <1>2, <2>1, Inodes DEF Gone, Mixed
<1>. QED
  BY <1>2, <1>3, <1>4, <1>5, <1>6, <1>7 DEF Good

(* What create_and_register_child and the kernel do with the file.         *)
LEMMA MadeStep ==
    ASSUME Inv, NEW op \in {"create", "link"}, NEW names, NEW s, Good(s, {}), Dentries(s, dent),
           held \subseteq DOMAIN s.fuse_map,
           NEW x \in Names, x \in names, x \notin DOMAIN s.dir.kids, FreeIds(s, x) # {}, HasNumber(s),
           \A z \in Names \ names : s.up[z] = up[z],
           NEW ino \in UIno, NEW m, m = WithFile(s, x, ino), Made(op, names, m, x)
    PROVE  Inv' /\ KeepsUp
<1>0. op \in use.calls
  BY DEF Made, Become
<1>1. use \in Uses /\ Careful(use) /\ IsMap(dent, Names, held) /\ ~Mixed
  BY <1>0 DEF Inv, Careful, Mixed, low
<1>2. /\ Good(m, {x}) /\ Gone(m, x) /\ m.up[x] = ino /\ \A z \in Names : z # x => m.up[z] = s.up[z]
      /\ m.arena = s.arena /\ m.dir = s.dir /\ m.table = s.table /\ m.fuse_map = s.fuse_map
  <2>1. PICK X : X = {x}
    OBVIOUS
  <2>2. /\ Good(m, X) /\ Gone(m, x) /\ m.up[x] = ino /\ \A z \in Names : z # x => m.up[z] = s.up[z]
        /\ m.arena = s.arena /\ m.dir = s.dir /\ m.table = s.table /\ m.fuse_map = s.fuse_map
    BY <1>1, <2>1, FileMade
  <2>. QED
    BY <2>1, <2>2
<1>3. PICK b, new, node, s1 :
          b = FALSE /\ new = NewId(m, x) /\ node = NewNode(m, x, b) /\ s1 = Add(m, x, node)
  OBVIOUS
<1>5. ~("rename" \in use.calls /\ low[x] # "none")
  BY <1>1 DEF Mixed
<1>6. Shown(m, x) = ino /\ Exists(m, x) /\ FreeIds(m, x) # {}
  BY <1>2, Inodes DEF Shown, Exists, FreeIds
<1>7. IsState(m) /\ Types(m)
  BY <1>2 DEF Good
<1>8. Good(s1, {x} \ {x})
  <2>1. x \in {x} => m.up[x] \in UIno
    BY <1>2
  <2>2. x \notin DOMAIN m.dir.kids
    BY <1>2
  <2>3. /\ node \in Node /\ node.name = x /\ node.key = Shown(m, x)
        /\ node.layer = IF m.up[x] = "none" THEN 1 ELSE 0
    BY <1>1, <1>3, <1>6, <1>7, ShownFile DEF NewNode, Node
  <2>. QED
    BY <1>1, <1>2, <1>3, <1>5, <1>6, <2>1, <2>2, <2>3, AddGood
<1>9. Good(s1, {})
  <2>1. {x} \ {x} = {}
    OBVIOUS
  <2>. QED
    BY <1>8, <2>1
<1>10. /\ s1.up = m.up /\ s1.table = m.table /\ s1.fuse_map = m.fuse_map
       /\ s1.arena = Put(m.arena, new, node) /\ s1.dir.kids = Put(m.dir.kids, x, new)
  BY <1>3, <1>7, AddFields
<1>11. new \notin DOMAIN m.arena /\ node.key = ino
  BY <1>3, <1>6, NewIdFacts DEF NewNode
<1>12. /\ new \in DOMAIN s1.arena /\ s1.arena[new].key = ino
       /\ \A id \in DOMAIN s.arena : id \in DOMAIN s1.arena /\ s1.arena[id] = s.arena[id]
       /\ x \in DOMAIN s1.dir.kids /\ s1.dir.kids[x] = new
       /\ \A z \in DOMAIN s.dir.kids : z \in DOMAIN s1.dir.kids /\ s1.dir.kids[z] = s.dir.kids[z]
  BY <1>2, <1>10, <1>11 DEF Put
<1>13. Extends(s1, s)
  BY <1>2, <1>10, <1>12 DEF Extends, Registered
<1>14. Types(s) /\ Types(s1)
  BY <1>9 DEF Good
<1>15. Dentries(s1, dent)
  BY <1>12, <1>13, <1>14, DentriesKept
<1>16. PICK t : t = register(s1, new)
  OBVIOUS
<1>17. HasNumber(s1)
  BY <1>2, <1>10 DEF HasNumber
<1>18. /\ Good(t, {}) /\ Extends(t, s1) /\ t.up = s1.up /\ t.arena = s1.arena /\ t.dir = s1.dir
       /\ ino \in DOMAIN t.table /\ Registered(t, new, t.table[ino].num)
  <2>1. PICK key : key = s1.arena[new].key
    OBVIOUS
  <2>2. /\ Good(t, {}) /\ Extends(t, s1) /\ t.up = s1.up /\ t.arena = s1.arena /\ t.dir = s1.dir
        /\ key \in DOMAIN t.table /\ Registered(t, new, t.table[key].num)
    BY <1>1, <1>9, <1>12, <1>16, <1>17, <2>1, RegisterGood
  <2>. QED
    BY <1>12, <2>1, <2>2
<1>19. PICK n : n = t.table[ino].num
  OBVIOUS
<1>20. Become(op, names, t) /\ dent' = Put(dent, x, n) /\ held' = held \cup {n}
  BY <1>2, <1>3, <1>12, <1>16, <1>19 DEF Made, Learn, NumberOf
<1>21. n \in DOMAIN t.fuse_map
  BY <1>18, <1>19 DEF Good, Entries
<1>22. IsMap(dent', Names, held') /\ Dentries(t, dent')
  <2>1. PICK d, h : d = dent /\ h = held \cup {n}
    OBVIOUS
  <2>2. IsMap(d, Names, h) /\ n \in h
    BY <1>1, <2>1 DEF IsMap
  <2>3. IsMap(Put(d, x, n), Names, h)
    BY <2>2, PutMap
  <2>4. Dentries(t, d)
    BY <1>14, <1>15, <1>18, <2>1, DentriesKept
  <2>5. Dentries(t, Put(d, x, n))
    BY <1>12, <1>18, <1>19, <2>4 DEF Dentries, Put
  <2>. QED
    BY <1>20, <2>1, <2>3, <2>5
<1>23. held' \subseteq DOMAIN t.fuse_map
  BY <1>2, <1>10, <1>18, <1>20, <1>21 DEF Extends
<1>24. Inv'
  BY <1>18, <1>20, <1>22, <1>23, AfterCall
<1>25. \A z \in Names \ names : t.up[z] = up[z]
  BY <1>2, <1>10, <1>18
<1>. QED
  BY <1>20, <1>24, <1>25 DEF KeepsUp, Become

LEMMA CreateStep ==
    ASSUME Inv, NEW x \in Names, Create(x)
    PROVE  Inv' /\ KeepsUp
<1>1. /\ use \in Uses /\ Careful(use) /\ Good(Now, {}) /\ Types(Now)
      /\ IsMap(dent, Names, held) /\ held \subseteq DOMAIN Now.fuse_map /\ Dentries(Now, dent)
  BY NowFields DEF Inv, Good
<1>2. FreeIds(Now, x) # {} /\ HasNumber(Now)
  <2>1. DOMAIN Now.arena = DOMAIN arena /\ Now.fuse_map = fuse_map /\ NodeRoom /\ Room
    BY NowFields DEF Create, Room
  <2>. QED
    BY <2>1, RoomFacts
<1>3. PICK now, s : now = Now /\ s = do_lookup_file(now, x)
  OBVIOUS
<1>4. Good(s, {}) /\ LookedUp(s, now, x)
  BY <1>1, <1>2, <1>3, LookupGood
<1>5. Extends(s, now) /\ s.up = up
  BY <1>3, <1>4, NowFields DEF LookedUp
<1>6. \A z \in DOMAIN now.dir.kids : z \in DOMAIN s.dir.kids /\ s.dir.kids[z] = now.dir.kids[z]
  BY <1>4 DEF LookedUp
<1>7. Dentries(s, dent) /\ held \subseteq DOMAIN s.fuse_map
  <2>1. Dentries(s, dent)
    BY <1>1, <1>3, <1>5, <1>6, DentriesKept
  <2>. QED
    BY <1>1, <1>3, <1>5, <2>1 DEF Extends
<1>8. CASE x \in DOMAIN s.dir.kids
  <2>1. Become("create", {x}, s) /\ dent' = dent /\ held' = held
    BY <1>3, <1>8 DEF Create, Found, Kernel
  <2>2. Inv'
    BY <1>1, <1>4, <1>7, <2>1, AfterCall
  <2>. QED
    BY <1>5, <2>1, <2>2 DEF KeepsUp, Become
<1>9. CASE x \notin DOMAIN s.dir.kids
  <2>1. PICK ino \in Free(Now) : Made("create", {x}, [s EXCEPT !.up[x] = ino], x)
    BY <1>3, <1>9 DEF Create, Found
  <2>2. PICK m : m = WithFile(s, x, ino)
    OBVIOUS
  <2>3. ino \in UIno /\ Made("create", {x}, m, x)
    BY <2>1, <2>2 DEF Free, WithFile
  <2>4. FreeIds(s, x) # {} /\ HasNumber(s)
    BY <1>2, <1>3, <1>4, <1>9 DEF LookedUp, FreeIds, HasNumber
  <2>. QED
    BY <1>4, <1>5, <1>7, <1>9, <2>2, <2>3, <2>4, MadeStep
<1>. QED
  BY <1>8, <1>9

LEMMA LinkStep ==
    ASSUME Inv, NEW x \in Names, NEW y \in Names, Link(x, y)
    PROVE  Inv' /\ KeepsUp
<1>1. /\ use \in Uses /\ Careful(use) /\ Good(Now, {}) /\ Types(Now)
      /\ IsMap(dent, Names, held) /\ held \subseteq DOMAIN Now.fuse_map /\ Dentries(Now, dent)
  BY NowFields DEF Inv, Good
<1>2. PICK id \in lookup_node_id(Now, dent[x]), ino \in Free(Now) :
          LET s1 == get_node_up(Now, id, ino)
              s2 == do_lookup_file(s1, y)
          IN  IF Found(s2, y) THEN Become("link", {x, y}, s2) /\ Kernel
              ELSE Made("link", {x, y}, [s2 EXCEPT !.up[y] = s2.up[s2.arena[id].name]], y)
  BY DEF Link
<1>3. PICK now, s1, s2 : now = Now /\ s1 = get_node_up(now, id, ino) /\ s2 = do_lookup_file(s1, y)
  OBVIOUS
<1>4. /\ id \in DOMAIN arena /\ ino \in UIno
      /\ arena[id].layer # 0 => arena[id].name = x
  BY NumberNodes DEF Free, Link
<1>5. /\ Good(s1, {}) /\ Extends(s1, now) /\ s1.dir = now.dir /\ s1.fuse_map = now.fuse_map
      /\ DOMAIN s1.arena = DOMAIN now.arena /\ s1.arena[id].layer = 0
      /\ \A z \in Names : z # now.arena[id].name => s1.up[z] = now.up[z]
      /\ now.arena[id].layer = 0 => s1.up = now.up
  BY <1>1, <1>3, <1>4, NowFields, UpGood
<1>6. FreeIds(s1, y) # {} /\ HasNumber(s1)
  <2>1. DOMAIN s1.arena = DOMAIN arena /\ s1.fuse_map = fuse_map /\ NodeRoom /\ Room
    BY <1>3, <1>5, NowFields DEF Link, Room
  <2>. QED
    BY <2>1, RoomFacts
<1>7. Good(s2, {}) /\ LookedUp(s2, s1, y)
  BY <1>1, <1>3, <1>5, <1>6, LookupGood
<1>8. Types(s1) /\ Types(s2) /\ Dentries(s1, dent)
  <2>1. Types(s1) /\ Types(s2)
    BY <1>5, <1>7 DEF Good
  <2>. QED
    BY <1>1, <1>3, <1>5, <2>1, DentriesKept
<1>9. Dentries(s2, dent) /\ held \subseteq DOMAIN s2.fuse_map
  <2>1. Extends(s2, s1) /\ \A z \in DOMAIN s1.dir.kids : z \in DOMAIN s2.dir.kids /\ s2.dir.kids[z] = s1.dir.kids[z]
    BY <1>7 DEF LookedUp
  <2>2. Dentries(s2, dent)
    BY <1>8, <2>1, DentriesKept
  <2>. QED
    BY <1>1, <1>3, <1>5, <2>1, <2>2 DEF Extends
<1>10. \A z \in Names \ {x, y} : s2.up[z] = up[z]
  BY <1>3, <1>4, <1>5, <1>7, NowFields DEF LookedUp
<1>11. CASE y \in DOMAIN s2.dir.kids
  <2>1. Become("link", {x, y}, s2) /\ dent' = dent /\ held' = held
    BY <1>2, <1>3, <1>11 DEF Found, Kernel
  <2>2. Inv'
    BY <1>1, <1>7, <1>9, <2>1, AfterCall
  <2>. QED
    BY <1>10, <2>1, <2>2 DEF KeepsUp, Become
<1>12. CASE y \notin DOMAIN s2.dir.kids
  <2>1. PICK i : i = s2.up[s2.arena[id].name]
    OBVIOUS
  <2>2. i \in UIno
    <3>1. id \in DOMAIN s2.arena /\ s2.arena[id].layer = 0
      BY <1>3, <1>4, <1>5, <1>7, NowFields DEF LookedUp
    <3>2. Backed(s2, id)
      BY <1>7, <3>1 DEF Good
    <3>. QED
      BY <2>1, <3>1, <3>2 DEF Backed
  <2>3. PICK m : m = WithFile(s2, y, i)
    OBVIOUS
  <2>4. Made("link", {x, y}, m, y)
    BY <1>2, <1>3, <1>12, <2>1, <2>3 DEF Found, WithFile
  <2>5. FreeIds(s2, y) # {} /\ HasNumber(s2)
    BY <1>6, <1>7, <1>12 DEF LookedUp, FreeIds, HasNumber
  <2>. QED
    BY <1>7, <1>9, <1>10, <1>12, <2>2, <2>3, <2>4, <2>5, MadeStep
<1>. QED
  BY <1>11, <1>12

-----------------------------------------------------------------------------
(* Renames. *)

\* What renameat leaves, and the directory to be loaded again.
Moved(s, x, y) == [renameat(s, x, y) EXCEPT !.dir.loaded = FALSE]

\* The state when the file is at y and its node still at x.
FileAt(s, x, y) ==
    /\ x \in DOMAIN s.dir.kids /\ s.arena[s.dir.kids[x]].layer = 0
    /\ s.up[y] \in UIno /\ (Mixed => s.up[x] = "none")
    /\ s.arena[s.dir.kids[x]].key \in UIno => s.up[y] = s.arena[s.dir.kids[x]].key
    /\ x \notin s.dir.wh /\ s.dir.loaded = FALSE

LEMMA RenameatGood ==
    ASSUME use \in Uses, NEW s, Good(s, {}), NEW x \in Names, NEW y \in Names, x # y,
           x \in DOMAIN s.dir.kids, s.arena[s.dir.kids[x]].layer = 0,
           NEW t, t = Moved(s, x, y),
           NEW X, X = {x, y}
    PROVE  /\ Good(t, X) /\ FileAt(t, x, y)
           /\ t.arena = s.arena /\ t.table = s.table /\ t.fuse_map = s.fuse_map
           /\ t.dir.kids = s.dir.kids /\ t.dir.wh = s.dir.wh
           /\ \A z \in Names \ {x, y} : t.up[z] = s.up[z]
<1>1. /\ IsState(s) /\ Types(s) /\ Children(s) /\ Entries(s) /\ Unique(s) /\ Below(s)
      /\ Single(s)
  BY DEF Good
<1>2. PICK d : d = [s.dir EXCEPT !.loaded = FALSE]
  OBVIOUS
<1>3. /\ DOMAIN d = {"kids", "wh", "loaded"} /\ d.kids = s.dir.kids
      /\ d.wh = s.dir.wh /\ d.loaded = FALSE
  BY <1>1, <1>2 DEF IsState
<1>4. PICK u : u = IF s.up[x] = s.up[y] THEN s.up ELSE [s.up EXCEPT ![y] = s.up[x], ![x] = "none"]
  OBVIOUS
<1>5. u \in [Names -> UIno \cup {"none", "wh"}] /\ u[y] = s.up[x] /\ \A z \in Names \ {x, y} : u[z] = s.up[z]
  BY <1>1, <1>4 DEF Types
<1>6. /\ IsState(t) /\ t.up = u /\ t.arena = s.arena /\ t.table = s.table
      /\ t.fuse_map = s.fuse_map /\ t.dir = d
  <2>1. CASE s.up[x] = s.up[y]
    <3>1. t = [s EXCEPT !.dir = d] /\ u = s.up
      BY <1>2, <1>4, <2>1 DEF renameat, Moved
    <3>. QED
      BY <1>1, <1>3, <3>1 DEF IsState
  <2>2. CASE s.up[x] # s.up[y]
    <3>1. renameat(s, x, y) = [s EXCEPT !.up = u]
      BY <1>4, <2>2 DEF renameat
    <3>2. PICK m : m = [s EXCEPT !.up = u]
      OBVIOUS
    <3>3. IsState(m) /\ m.up = u /\ m.arena = s.arena /\ m.table = s.table /\ m.fuse_map = s.fuse_map /\ m.dir = s.dir
      BY <1>1, <3>2 DEF IsState
    <3>4. t = [m EXCEPT !.dir = d]
      BY <1>2, <3>1, <3>2, <3>3 DEF Moved
    <3>. QED
      BY <1>3, <3>3, <3>4 DEF IsState
  <2>. QED
    BY <2>1, <2>2
<1>7. Types(t) /\ Children(t) /\ Entries(t) /\ Unique(t) /\ Below(t) /\ Single(t)
  <2>1. t.dir.kids = s.dir.kids /\ t.dir.wh = s.dir.wh /\ t.dir.loaded \in BOOLEAN
    BY <1>3, <1>6
  <2>2. Types(t)
    BY <1>1, <1>5, <1>6, <2>1 DEF Types
  <2>3. Children(t)
    BY <1>1, <1>6, <2>1 DEF Children
  <2>4. Entries(t) /\ Unique(t)
    BY <1>1, <1>6 DEF Entries, Unique
  <2>5. Below(t)
    BY <1>1, <1>6 DEF Below
  <2>6. Single(t)
    <3>1. CASE s.up[x] = s.up[y]
      BY <1>1, <1>4, <1>6, <3>1 DEF Single
    <3>2. CASE s.up[x] # s.up[y]
      <4>1. u[x] = "none"
        BY <1>1, <1>4, <3>2 DEF Types
      <4>. QED
        BY <1>1, <1>5, <1>6, <4>1, Inodes DEF Single
    <3>. QED
      BY <3>1, <3>2
  <2>. QED
    BY <2>2, <2>3, <2>4, <2>5, <2>6
<1>8. ASSUME NEW id \in DOMAIN t.arena, t.arena[id].name \notin X PROVE Backed(t, id)
  <2>1. Backed(s, id) /\ s.arena[id].name \in Names \ {x, y}
    BY <1>1, <1>6, <1>8, TypeFacts DEF Good
  <2>. QED
    BY <1>5, <1>6, <2>1 DEF Backed
<1>9. ASSUME NEW z \in Names, z \notin X PROVE Gone(t, z) /\ TrulyAbsent(t, z)
  <2>1. Gone(s, z) /\ TrulyAbsent(s, z) /\ u[z] = s.up[z]
    BY <1>5, <1>9 DEF Good
  <2>. QED
    BY <1>3, <1>6, <2>1 DEF Gone, TrulyAbsent
<1>10. FileAt(t, x, y)
  <2>1. PICK id : id = s.dir.kids[x]
    OBVIOUS
  <2>2. id \in DOMAIN s.arena /\ s.arena[id].name = x
    BY <1>1, <2>1, TypeFacts DEF Children
  <2>3. Backed(s, id) /\ TrulyAbsent(s, x)
    BY <2>2 DEF Good
  <2>4. s.up[x] \in UIno /\ (s.arena[id].key \in UIno => s.up[x] = s.arena[id].key)
    BY <2>1, <2>2, <2>3 DEF Backed
  <2>5. x \notin s.dir.wh
    BY <2>3, <2>4, Inodes DEF TrulyAbsent
  <2>6. ASSUME Mixed PROVE u[x] = "none"
    <3>1. s.up[x] # s.up[y]
      BY <1>1, <2>4, <2>6 DEF Single
    <3>. QED
      BY <1>1, <1>4, <3>1 DEF Types
  <2>. QED
    BY <1>3, <1>5, <1>6, <2>1, <2>4, <2>5, <2>6 DEF FileAt
<1>. QED
  BY <1>3, <1>5, <1>6, <1>7, <1>8, <1>9, <1>10 DEF Good

\* t is s where the name y has no node any more.
TargetGone(t, s, y) ==
    /\ t.up = s.up /\ y \notin DOMAIN t.dir.kids
    /\ DOMAIN s.fuse_map \subseteq DOMAIN t.fuse_map
    /\ \A z \in DOMAIN s.dir.kids : z # y =>
          /\ z \in DOMAIN t.dir.kids /\ t.dir.kids[z] = s.dir.kids[z]
          /\ t.arena[s.dir.kids[z]] = s.arena[s.dir.kids[z]]
          /\ \A n : Registered(s, s.dir.kids[z], n) => Registered(t, s.dir.kids[z], n)

LEMMA TargetDropped ==
    ASSUME use \in Uses, Careful(use), NEW s, NEW X, Good(s, X), NEW x \in Names, NEW y \in Names,
           x # y, X = {x, y}, FileAt(s, x, y), low[y] = "none",
           y \in DOMAIN s.dir.kids \/ (FreeIds(s, y) # {} /\ HasNumber(s)),
           NEW t, t = DropTarget(s, y)
    PROVE  Good(t, X) /\ FileAt(t, x, y) /\ TargetGone(t, s, y)
<1>1. PICK s1 : s1 = do_lookup_file(s, y)
  OBVIOUS
<1>2. s.up[y] \in UIno /\ Gone(s, y)
  BY Inodes DEF FileAt, Gone
<1>3. Good(s1, X) /\ LookedUp(s1, s, y)
  BY <1>1, <1>2, LookupGood
<1>4. Types(s) /\ Types(s1) /\ Children(s1) /\ Entries(s1) /\ IsState(s1)
  BY <1>3 DEF Good
<1>5. CASE y \notin DOMAIN s1.dir.kids
  <2>1. t = s1
    BY <1>1, <1>5 DEF DropTarget, Found
  <2>2. TargetGone(t, s, y)
    BY <1>3, <1>4, <1>5, <2>1, TypeFacts DEF TargetGone, LookedUp, Extends
  <2>3. FileAt(t, x, y)
    BY <1>3, <1>4, <2>1, TypeFacts DEF FileAt, LookedUp
  <2>. QED
    BY <1>3, <2>1, <2>2, <2>3
<1>6. CASE y \in DOMAIN s1.dir.kids
  <2>1. t = Removed(s1, y)
    BY <1>1, <1>6 DEF DropTarget, Found
  <2>2. PICK id : id = s1.dir.kids[y]
    OBVIOUS
  <2>3. IsState(t) /\ t.up = s1.up /\ t.dir.loaded = s1.dir.loaded /\ t.dir.wh = s1.dir.wh
    BY <1>4, <1>6, <2>1, <2>2, RemovedFields
  <2>4. s1.up = s.up /\ t.dir.loaded = FALSE /\ t.up \in [Names -> UIno \cup {"none", "wh"}]
    BY <1>3, <1>4, <2>3 DEF LookedUp, FileAt, Types
  <2>5. Good(t, X) /\ Lacks(t, s1, y)
    <3>1. t.up[y] = "wh" \/ (y \in X /\ t.up[y] = s1.up[y])
      BY <2>3
    <3>2. \A z \in Names : z # y => t.up[z] = s1.up[z]
      BY <2>3
    <3>3. t.arena = t.arena /\ t.dir.kids = t.dir.kids /\ t.dir.wh = t.dir.wh /\ t.table = t.table /\ t.fuse_map = t.fuse_map
      OBVIOUS
    <3>. QED
      BY <1>3, <1>6, <2>1, <2>3, <2>4, <3>1, <3>2, <3>3, RemovedGood
  <2>6. \A z \in DOMAIN s.dir.kids : z # y =>
            /\ z \in DOMAIN s1.dir.kids /\ s1.dir.kids[z] = s.dir.kids[z]
            /\ s.dir.kids[z] \in DOMAIN s.arena /\ s.dir.kids[z] \in DOMAIN s1.arena
            /\ s.dir.kids[z] # s1.dir.kids[y] /\ s1.arena[s.dir.kids[z]] = s.arena[s.dir.kids[z]]
    BY <1>3, <1>4, <1>6, TypeFacts DEF LookedUp, Children
  <2>7. TargetGone(t, s, y)
    <3>1. /\ t.up = s.up /\ y \notin DOMAIN t.dir.kids
          /\ DOMAIN s.fuse_map \subseteq DOMAIN t.fuse_map
      BY <1>3, <2>3, <2>4, <2>5 DEF Lacks, LookedUp, Extends
    <3>2. ASSUME NEW z \in DOMAIN s.dir.kids, z # y
          PROVE  /\ z \in DOMAIN t.dir.kids /\ t.dir.kids[z] = s.dir.kids[z]
                 /\ t.arena[s.dir.kids[z]] = s.arena[s.dir.kids[z]]
      BY <2>5, <2>6, <3>2 DEF Lacks
    <3>3. ASSUME NEW z \in DOMAIN s.dir.kids, z # y, NEW n, Registered(s, s.dir.kids[z], n)
          PROVE  Registered(t, s.dir.kids[z], n)
      <4>1. Registered(s1, s.dir.kids[z], n)
        BY <1>3, <2>6, <3>3 DEF LookedUp, Extends
      <4>. QED
        BY <2>5, <2>6, <3>3, <4>1 DEF Lacks
    <3>. QED
      BY <3>1, <3>2, <3>3 DEF TargetGone
  <2>8. x \notin t.dir.wh
    BY <1>3, <2>3 DEF LookedUp, FileAt
  <2>9. FileAt(t, x, y)
    BY <2>4, <2>7, <2>8 DEF FileAt, TargetGone
  <2>. QED
    BY <2>5, <2>7, <2>9
<1>. QED
  BY <1>5, <1>6

LEMMA MoveGood ==
    ASSUME use \in Uses, Careful(use), "rename" \in use.calls, NEW s, NEW X, Good(s, X),
           NEW x \in Names, NEW y \in Names, y \in use.to, x # y, X = {x, y},
           FileAt(s, x, y), y \notin DOMAIN s.dir.kids,
           NEW t, t = MoveNode(s, x, y), NEW id, id = s.dir.kids[x]
    PROVE  /\ Good(t, {})
           /\ \A z \in Names \ {x, y} : t.up[z] = s.up[z]
           /\ t.fuse_map = s.fuse_map
           /\ y \in DOMAIN t.dir.kids /\ t.dir.kids[y] = id
           /\ \A z \in DOMAIN s.dir.kids : z # x => z \in DOMAIN t.dir.kids /\ t.dir.kids[z] = s.dir.kids[z]
           /\ \A i \in DOMAIN s.arena : \A n : Registered(s, i, n) => Registered(t, i, n)
<1>1. /\ IsState(s) /\ Types(s) /\ Children(s) /\ Entries(s) /\ Unique(s) /\ Below(s)
      /\ Single(s)
  BY DEF Good
<1>2. PICK n : n = s.arena[id]
  OBVIOUS
<1>3. PICK n1 : n1 = [n EXCEPT !.name = y]
  OBVIOUS
<1>4. id \in DOMAIN s.arena /\ n \in Node /\ n.name = x /\ n.layer = 0
  BY <1>1, <1>2, TypeFacts DEF Children, FileAt
<1>5. n1 \in Node /\ n1.name = y /\ n1.layer = 0 /\ n1.key = n.key /\ n1.below = n.below
  BY <1>3, <1>4 DEF Node
<1>6. PICK d0 : d0 = remove_child(s.dir, x)
  OBVIOUS
<1>7. PICK d : d = insert_child(d0, y, id)
  OBVIOUS
<1>8. /\ DOMAIN d = {"kids", "wh", "loaded"} /\ d.kids = Put(Drop(s.dir.kids, x), y, id)
      /\ d.wh = s.dir.wh \ {y} /\ d.loaded = s.dir.loaded
  <2>1. /\ DOMAIN d0 = {"kids", "wh", "loaded"} /\ d0.kids = Drop(s.dir.kids, x)
        /\ d0.wh = s.dir.wh /\ d0.loaded = s.dir.loaded
    BY <1>1, <1>6 DEF IsState, remove_child
  <2>. QED
    BY <1>7, <2>1 DEF insert_child
<1>9. PICK v : v = IF n.below /\ s.up[x] = "none" THEN "wh" ELSE s.up[x]
  OBVIOUS
<1>10. t = [s EXCEPT !.arena = [s.arena EXCEPT ![id] = n1], !.dir = d, !.up = [s.up EXCEPT ![x] = v]]
  BY <1>2, <1>3, <1>6, <1>7, <1>9 DEF MoveNode
<1>11. /\ IsState(t) /\ t.up = [s.up EXCEPT ![x] = v] /\ t.arena = [s.arena EXCEPT ![id] = n1]
       /\ t.dir = d /\ t.table = s.table /\ t.fuse_map = s.fuse_map
  BY <1>1, <1>8, <1>10 DEF IsState
<1>12. /\ t.up \in [Names -> UIno \cup {"none", "wh"}] /\ t.up[x] = v
       /\ \A z \in Names : z # x => t.up[z] = s.up[z]
  <2>1. v \in UIno \cup {"none", "wh"}
    BY <1>1, <1>9, TypeFacts
  <2>. QED
    BY <1>1, <1>11, <2>1 DEF Types
<1>13. /\ DOMAIN t.arena = DOMAIN s.arena /\ t.arena[id] = n1
       /\ \A i \in DOMAIN s.arena : i # id => t.arena[i] = s.arena[i]
  BY <1>4, <1>11
<1>14. \A i \in DOMAIN s.arena : t.arena[i].key = s.arena[i].key
  BY <1>2, <1>5, <1>13
<1>15. /\ DOMAIN t.dir.kids = (DOMAIN s.dir.kids \ {x}) \cup {y} /\ t.dir.kids[y] = id
       /\ \A z \in DOMAIN s.dir.kids : z # x => t.dir.kids[z] = s.dir.kids[z]
  BY <1>8, <1>11 DEF Put, Drop
<1>16. \A i \in DOMAIN s.arena : i # id => s.arena[i].name \notin {x, y} /\ s.arena[i].name \in Names
  BY <1>1, TypeFacts DEF Children
<1>17. Types(t)
  <2>1. PICK f, g : f = s.arena /\ g = s.dir.kids
    OBVIOUS
  <2>2. IsMap([f EXCEPT ![id] = n1], Id, Node)
    BY <1>1, <1>4, <1>5, <2>1, UpdateMap DEF Types
  <2>3. IsMap(Put(Drop(g, x), y, id), Names, DOMAIN f)
    <3>1. PICK T, h : T = DOMAIN f /\ h = Drop(g, x)
      OBVIOUS
    <3>2. IsMap(h, Names, T) /\ id \in T
      BY <1>1, <1>4, <2>1, <3>1, DropMap DEF Types
    <3>3. IsMap(Put(h, y, id), Names, T)
      BY <3>2, PutMap
    <3>. QED
      BY <3>1, <3>3
  <2>4. IsMap(t.arena, Id, Node) /\ IsMap(t.dir.kids, Names, DOMAIN t.arena)
    BY <1>8, <1>11, <1>13, <2>1, <2>2, <2>3
  <2>5. t.dir.wh \subseteq Names /\ t.dir.loaded \in BOOLEAN
    BY <1>1, <1>8, <1>11 DEF Types
  <2>. QED
    BY <1>1, <1>11, <1>12, <2>4, <2>5 DEF Types
<1>18. Children(t)
  <2>1. \A z \in DOMAIN t.dir.kids : t.arena[t.dir.kids[z]].name = z
    <3>1. \A z \in DOMAIN s.dir.kids : z # x => s.dir.kids[z] \in DOMAIN s.arena /\ s.dir.kids[z] # id
      BY <1>1, <1>4, <1>2, TypeFacts DEF Children
    <3>. QED
      BY <1>1, <1>5, <1>13, <1>15, <3>1 DEF Children
  <2>2. \A i \in DOMAIN t.arena : t.arena[i].name \in DOMAIN t.dir.kids /\ t.dir.kids[t.arena[i].name] = i
    BY <1>1, <1>5, <1>13, <1>15, <1>16 DEF Children
  <2>. QED
    BY <2>1, <2>2 DEF Children
<1>19. Entries(t) /\ Unique(t)
  BY <1>1, <1>11, <1>13, <1>14 DEF Entries, Unique
<1>20. low[y] = "none"
  BY DEF Careful, low
<1>21. Below(t) /\ Single(t)
  <2>1. Below(t)
    BY <1>1, <1>5, <1>13, <1>20 DEF Below
  <2>2. \A z \in Names : t.up[z] = s.up[z] \/ t.up[z] \notin UIno
    BY <1>9, <1>12, Inodes
  <2>. QED
    BY <1>1, <2>1, <2>2 DEF Single
<1>22. ASSUME NEW i \in DOMAIN t.arena PROVE Backed(t, i)
  <2>1. CASE i = id
    <3>1. s.up[y] \in UIno /\ (n.key \in UIno => s.up[y] = n.key)
      BY <1>2 DEF FileAt
    <3>. QED
      BY <1>5, <1>12, <1>13, <2>1, <3>1 DEF Backed
  <2>2. CASE i # id
    <3>1. i \in DOMAIN s.arena /\ s.arena[i].name \notin X /\ s.arena[i].name \in Names /\ s.arena[i].name # x
      BY <1>13, <1>16, <1>22, <2>2
    <3>2. Backed(s, i)
      BY <3>1 DEF Good
    <3>. QED
      BY <1>12, <1>13, <2>2, <3>1, <3>2 DEF Backed
  <2>. QED
    BY <2>1, <2>2
<1>23. ASSUME NEW z \in Names PROVE Gone(t, z)
  <2>1. CASE z = x
    <3>1. SUFFICES ASSUME NEW i \in DOMAIN t.arena, t.arena[i].key \in LIno, low[x] = t.arena[i].key
                   PROVE  "rename" \in use.calls /\ t.up[x] = "wh"
      BY <2>1 DEF Gone
    <3>2. low[x] # "none" /\ Mixed
      BY <3>1, Inodes DEF Mixed
    <3>3. n.below
      BY <1>1, <1>2, <1>4, <3>2 DEF Below
    <3>. QED
      BY <1>9, <1>12, <3>2, <3>3, Inodes DEF FileAt
  <2>2. CASE z = y
    BY <1>20, <2>2, Inodes DEF Gone
  <2>3. CASE z \notin {x, y}
    <3>1. Gone(s, z)
      BY <1>23, <2>3 DEF Good
    <3>2. \A i \in DOMAIN s.arena : z # s.arena[i].name \/ t.arena[i].name = s.arena[i].name
      BY <1>2, <1>4, <1>13, <2>3
    <3>. QED
      BY <1>12, <1>13, <1>14, <2>3, <3>1, <3>2 DEF Gone
  <2>. QED
    BY <2>1, <2>2, <2>3
<1>24. ASSUME NEW z \in Names PROVE TrulyAbsent(t, z)
  <2>1. t.dir.loaded = FALSE
    BY <1>8, <1>11 DEF FileAt
  <2>2. z \in t.dir.wh => t.up[z] = "wh"
    <3>1. CASE z = x
      BY <1>8, <1>11, <3>1 DEF FileAt
    <3>2. CASE z = y
      BY <1>8, <1>11, <3>2
    <3>3. CASE z \notin {x, y}
      <4>1. TrulyAbsent(s, z)
        BY <1>24, <3>3 DEF Good
      <4>. QED
        BY <1>8, <1>11, <1>12, <3>3, <4>1 DEF TrulyAbsent
    <3>. QED
      BY <3>1, <3>2, <3>3
  <2>. QED
    BY <2>1, <2>2 DEF TrulyAbsent
<1>25. Good(t, {})
  BY <1>11, <1>17, <1>18, <1>19, <1>21, <1>22, <1>23, <1>24 DEF Good
<1>26. \A i \in DOMAIN s.arena : \A m : Registered(s, i, m) => Registered(t, i, m)
  BY <1>11, <1>14 DEF Registered
<1>. QED
  BY <1>11, <1>12, <1>15, <1>25, <1>26

LEMMA RenameStep ==
    ASSUME Inv, NEW x \in Names, NEW y \in Names, Rename(x, y)
    PROVE  Inv' /\ KeepsUp
<1>1. /\ use \in Uses /\ Careful(use) /\ Good(Now, {}) /\ Types(Now)
      /\ IsMap(dent, Names, held) /\ held \subseteq DOMAIN Now.fuse_map /\ Dentries(Now, dent)
  BY NowFields DEF Inv, Good
<1>2. x # y /\ x \in DOMAIN dent /\ y \in use.to /\ Room
  BY DEF Rename
<1>3. PICK now, id : now = Now /\ id = now.dir.kids[x]
  OBVIOUS
<1>4. x \in DOMAIN now.dir.kids /\ id \in DOMAIN now.arena /\ now.arena[id].name = x
  BY <1>2, <1>3, NumberNodes, NowFields
<1>5. do_lookup_file(now, x) = now
  BY <1>4 DEF do_lookup_file
<1>6. PICK ino \in Free(now) :
          LET s2 == do_lookup_file(get_node_up(now, id, ino), y)
              s3 == DropTarget([renameat(s2, x, y) EXCEPT !.dir.loaded = FALSE], y)
          IN  /\ Become("rename", {x, y}, MoveNode(s3, x, y))
              /\ dent' = Put(Drop(dent, x), y, dent[x])
              /\ UNCHANGED held
  BY <1>3, <1>4, <1>5 DEF Rename, Found
<1>7. PICK s1, s2 : s1 = get_node_up(now, id, ino) /\ s2 = do_lookup_file(s1, y)
  OBVIOUS
<1>8. PICK m : m = Moved(s2, x, y)
  OBVIOUS
<1>9. PICK s3, t : s3 = DropTarget(m, y) /\ t = MoveNode(s3, x, y)
  OBVIOUS
<1>10. Become("rename", {x, y}, t) /\ dent' = Put(Drop(dent, x), y, dent[x]) /\ held' = held
  BY <1>6, <1>7, <1>8, <1>9 DEF Moved
<1>11. "rename" \in use.calls
  BY <1>10 DEF Become
<1>12. low[y] = "none"
  BY <1>1, <1>2, <1>11 DEF Careful, low
<1>13. /\ Good(s1, {}) /\ Extends(s1, now) /\ s1.dir = now.dir /\ s1.fuse_map = now.fuse_map
       /\ DOMAIN s1.arena = DOMAIN now.arena /\ s1.arena[id].layer = 0
       /\ \A z \in Names : z # x => s1.up[z] = now.up[z]
  BY <1>1, <1>3, <1>4, <1>7, UpGood
<1>14. FreeIds(s1, y) # {} /\ HasNumber(s1)
  <2>1. DOMAIN s1.arena = DOMAIN arena /\ s1.fuse_map = fuse_map /\ NodeRoom
    BY <1>2, <1>3, <1>13, NowFields DEF Room
  <2>. QED
    BY <1>2, <2>1, RoomFacts
<1>15. Good(s2, {}) /\ LookedUp(s2, s1, y)
  BY <1>1, <1>7, <1>13, <1>14, LookupGood
<1>16. /\ x \in DOMAIN s2.dir.kids /\ s2.dir.kids[x] = id /\ s2.arena[id].layer = 0
       /\ s2.up = s1.up /\ Extends(s2, s1)
       /\ \A z \in DOMAIN s1.dir.kids : z \in DOMAIN s2.dir.kids /\ s2.dir.kids[z] = s1.dir.kids[z]
  BY <1>3, <1>4, <1>13, <1>15 DEF LookedUp
<1>17. Types(s1) /\ Types(s2)
  BY <1>13, <1>15 DEF Good
<1>18. Dentries(s2, dent) /\ held \subseteq DOMAIN s2.fuse_map
  <2>1. Dentries(s1, dent)
    BY <1>1, <1>3, <1>13, <1>17, DentriesKept
  <2>2. Dentries(s2, dent)
    BY <1>16, <1>17, <2>1, DentriesKept
  <2>. QED
    BY <1>1, <1>3, <1>13, <1>16, <2>2 DEF Extends
<1>19. PICK X : X = {x, y}
  OBVIOUS
<1>20. /\ Good(m, X) /\ FileAt(m, x, y)
       /\ m.arena = s2.arena /\ m.table = s2.table /\ m.fuse_map = s2.fuse_map
       /\ m.dir.kids = s2.dir.kids
       /\ \A z \in Names \ {x, y} : m.up[z] = s2.up[z]
  <2>1. use \in Uses /\ Good(s2, {}) /\ x # y /\ m = Moved(s2, x, y) /\ X = {x, y}
    BY <1>1, <1>2, <1>8, <1>15, <1>19
  <2>2. x \in DOMAIN s2.dir.kids /\ s2.arena[s2.dir.kids[x]].layer = 0
    BY <1>16
  <2>. QED
    BY <2>1, <2>2, RenameatGood
<1>21. Dentries(m, dent)
  BY <1>18, <1>20 DEF Dentries, Registered
<1>22. y \in DOMAIN m.dir.kids \/ (FreeIds(m, y) # {} /\ HasNumber(m))
  <2>1. y \notin DOMAIN s2.dir.kids => s2.arena = s1.arena /\ s2.fuse_map = s1.fuse_map
    BY <1>15 DEF LookedUp
  <2>. QED
    BY <1>14, <1>20, <2>1 DEF FreeIds, HasNumber
<1>23. Good(s3, X) /\ FileAt(s3, x, y) /\ TargetGone(s3, m, y)
  BY <1>1, <1>2, <1>9, <1>12, <1>19, <1>20, <1>22, TargetDropped
<1>24. /\ s3.up = m.up /\ y \notin DOMAIN s3.dir.kids /\ s3.dir.kids[x] = id /\ x \in DOMAIN s3.dir.kids
       /\ DOMAIN m.fuse_map \subseteq DOMAIN s3.fuse_map
       /\ Types(s3)
  BY <1>2, <1>16, <1>20, <1>23 DEF TargetGone, Good
<1>25. /\ Good(t, {}) /\ t.fuse_map = s3.fuse_map
       /\ \A z \in Names \ {x, y} : t.up[z] = s3.up[z]
       /\ y \in DOMAIN t.dir.kids /\ t.dir.kids[y] = id
       /\ \A z \in DOMAIN s3.dir.kids : z # x => z \in DOMAIN t.dir.kids /\ t.dir.kids[z] = s3.dir.kids[z]
       /\ \A i \in DOMAIN s3.arena : \A n : Registered(s3, i, n) => Registered(t, i, n)
  BY <1>1, <1>2, <1>9, <1>11, <1>19, <1>23, <1>24, MoveGood
<1>26. \A z \in DOMAIN dent : z # y =>
           /\ z \in DOMAIN s3.dir.kids /\ s3.dir.kids[z] \in DOMAIN s3.arena
           /\ Registered(s3, s3.dir.kids[z], dent[z])
  BY <1>21, <1>23, <1>24, TypeFacts DEF Dentries, TargetGone
<1>27. \A z \in DOMAIN dent : z # y => Registered(t, s3.dir.kids[z], dent[z])
  BY <1>25, <1>26
<1>28. PICK d, e : d = dent /\ e = Put(Drop(d, x), y, d[x])
  OBVIOUS
<1>29. /\ DOMAIN e = (DOMAIN d \ {x}) \cup {y} /\ e[y] = d[x]
       /\ \A z \in DOMAIN d : z # x /\ z # y => e[z] = d[z]
  BY <1>28 DEF Put, Drop
<1>30. Dentries(t, e)
  <2>1. SUFFICES ASSUME NEW z \in DOMAIN e
                 PROVE  z \in DOMAIN t.dir.kids /\ Registered(t, t.dir.kids[z], e[z])
    BY DEF Dentries
  <2>2. CASE z = y
    BY <1>2, <1>24, <1>25, <1>27, <1>28, <1>29, <2>2
  <2>3. CASE z # y
    <3>1. z \in DOMAIN dent /\ z # x /\ e[z] = dent[z]
      BY <1>28, <1>29, <2>1, <2>3
    <3>. QED
      BY <1>25, <1>26, <1>27, <2>3, <3>1
  <2>. QED
    BY <2>2, <2>3
<1>31. IsMap(e, Names, held)
  <2>1. PICK f : f = Drop(d, x)
    OBVIOUS
  <2>2. IsMap(f, Names, held)
    BY <1>1, <1>28, <2>1, DropMap
  <2>3. d[x] \in held
    BY <1>1, <1>2, <1>28, MapFacts
  <2>4. IsMap(Put(f, y, d[x]), Names, held)
    BY <2>2, <2>3, PutMap
  <2>. QED
    BY <1>28, <2>1, <2>4
<1>32. IsMap(dent', Names, held') /\ held' \subseteq DOMAIN t.fuse_map /\ Dentries(t, dent')
  <2>1. dent' = e /\ held' = held
    BY <1>10, <1>28
  <2>2. held \subseteq DOMAIN t.fuse_map
    BY <1>18, <1>20, <1>24, <1>25
  <2>. QED
    BY <1>30, <1>31, <2>1, <2>2
<1>33. Inv'
  BY <1>10, <1>25, <1>32, AfterCall
<1>34. \A z \in Names \ {x, y} : t.up[z] = up[z]
  BY <1>3, <1>13, <1>16, <1>20, <1>24, <1>25, NowFields
<1>. QED
  BY <1>10, <1>33, <1>34 DEF KeepsUp, Become

-----------------------------------------------------------------------------
(* The theorems. *)

(* Inv holds at mount, and every call keeps it.                            *)
LEMMA InvInit ==
    ASSUME Init, Careful(use)
    PROVE  Inv
<1>1. PICK u, t, d : /\ u = [x \in Names |-> "none"] /\ d = EmptyMap
                     /\ t = [up |-> u, arena |-> EmptyMap, dir |-> NewDir,
                             table |-> EmptyMap, fuse_map |-> EmptyMap]
  OBVIOUS
<1>2. /\ u \in [Names -> UIno \cup {"none", "wh"}]
      /\ Mixed => \A x, y \in Names : u[x] \in UIno /\ u[x] = u[y] => x = y
  BY <1>1, Inodes
<1>3. Good(t, {}) /\ Dentries(t, d) /\ IsMap(d, Names, {})
  BY <1>1, <1>2, FreshGood
<1>4. Now = t /\ dent = d /\ held = {}
  BY <1>1 DEF Init, Now
<1>. QED
  BY <1>3, <1>4 DEF Inv, Init

LEMMA InvNext ==
    ASSUME Inv, Next
    PROVE  Inv' /\ KeepsUp
<1>1. CASE \E x \in Names : Lookup(x) \/ Change(x) \/ Create(x) \/ Unlink(x) \/ Evict(x)
  BY <1>1, LookupStep, ChangeStep, CreateStep, UnlinkStep, EvictStep
<1>2. CASE \E x, y \in Names : Link(x, y) \/ Rename(x, y)
  BY <1>2, LinkStep, RenameStep
<1>3. CASE Readdir
  BY <1>3, ReaddirStep
<1>4. CASE Refresh
  BY <1>4 DEF Refresh, Become, Inv, Careful
<1>5. CASE Remount
  BY <1>5, RemountStep
<1>6. CASE \E n \in Numbers : Forget(n)
  BY <1>6, ForgetStep
<1>. QED
  BY <1>1, <1>2, <1>3, <1>4, <1>5, <1>6 DEF Next

LEMMA InvStutter ==
    ASSUME Inv, UNCHANGED vars
    PROVE  Inv'
<1>1. PICK t : t = Now
  OBVIOUS
<1>2. /\ use' = use /\ up' = t.up /\ arena' = t.arena /\ dir' = t.dir /\ table' = t.table
      /\ fuse_map' = t.fuse_map /\ dent' = dent /\ held' = held
  BY <1>1, NowFields DEF vars
<1>3. Good(t, {}) /\ Dentries(t, dent) /\ IsMap(dent, Names, held) /\ held \subseteq DOMAIN t.fuse_map
  BY <1>1, NowFields DEF Inv
<1>4. Dentries(t, dent') /\ IsMap(dent', Names, held') /\ held' \subseteq DOMAIN t.fuse_map
  BY <1>2, <1>3
<1>. QED
  BY <1>2, <1>3, <1>4, AfterStep

LEMMA InvCorrect == Spec /\ Careful(use) => []Inv
<1>1. Inv /\ [Next]_vars => Inv'
  BY InvNext, InvStutter
<1>. QED
  BY <1>1, InvInit, PTL DEF Spec

(* In a careful use, whatever the names, inodes, bounds and order of       *)
(* calls: the arena, the children map, the inode table and the kernel's    *)
(* numbers keep their types and lead to one another.                       *)
THEOREM FileNumbersTypeCorrect == Spec /\ Careful(use) => []TypeOK
<1>1. Inv => TypeOK
  BY NowFields DEF Inv, Good, Types, Children, Entries, TypeOK, NumberOf
<1>. QED
  BY <1>1, InvCorrect, PTL

(* The number that lookup, create or link gave the kernel for a name leads *)
(* to a live node at the file of that name, and so does every other node   *)
(* that lookup_node_id may find for it: after copy-up, links, unlinks,     *)
(* renames, forgets and a remount, reads and writes reach the file opened. *)
THEOREM NumberMeansNameCorrect == Spec /\ Careful(use) => []NumberMeansName
<1>1. ASSUME Inv PROVE NumberMeansName
  <2>1. SUFFICES ASSUME NEW x \in DOMAIN dent
                 PROVE  /\ lookup_node_id(Now, dent[x]) # {}
                        /\ \A id \in lookup_node_id(Now, dent[x]) : Ino(Now, id) = Shown(Now, x)
    BY DEF NumberMeansName
  <2>2. PICK k : k = dir.kids[x]
    OBVIOUS
  <2>3. /\ k \in DOMAIN arena /\ arena[k].name = x /\ k \in lookup_node_id(Now, dent[x])
        /\ \A id \in lookup_node_id(Now, dent[x]) :
              /\ id \in DOMAIN arena /\ arena[id].key = arena[k].key
              /\ arena[id].key \in LIno => id = k
    BY <1>1, <2>2, NumberNodes
  <2>4. \A id \in DOMAIN arena : Backed(Now, id) /\ arena[id].key \in LIno \cup UIno /\ arena[id].layer \in {0, 1}
    BY <1>1, TypeFacts, NowFields DEF Inv, Good, Key
  <2>5. ASSUME NEW id \in lookup_node_id(Now, dent[x]) PROVE Ino(Now, id) = Shown(Now, x)
    <3>1. CASE arena[id].key \in LIno
      <4>1. id = k /\ Backed(Now, k) /\ arena[k].name = x
        BY <2>3, <2>4, <2>5, <3>1
      <4>. QED
        BY <4>1, NowFields, Inodes DEF Backed, Ino, Shown
    <3>2. CASE arena[id].key \in UIno
      <4>1. /\ arena[id].layer = 0 /\ up[arena[id].name] = arena[id].key
            /\ up[x] = arena[k].key /\ arena[k].key = arena[id].key
        BY <2>3, <2>4, <2>5, <3>2, NowFields DEF Backed
      <4>. QED
        BY <3>2, <4>1, NowFields, Inodes DEF Ino, Shown
    <3>. QED
      BY <2>3, <2>4, <2>5, <3>1, <3>2
  <2>. QED
    BY <2>3, <2>5
<1>. QED
  BY <1>1, InvCorrect, PTL

(* A call changes what its own names show and no other: no copy-up by      *)
(* number, link, unlink or rename writes at the path of another file.      *)
THEOREM OnlyCalledChangeCorrect == Spec /\ Careful(use) => OnlyCalledChange
<1>1. ASSUME Inv, [Next]_vars
      PROVE  [\A x \in Names \ called' : Shown(Now, x)' = Shown(Now, x)]_vars
  <2>1. CASE Next
    <3>1. use' = use /\ \A z \in Names \ called' : up'[z] = up[z]
      BY <1>1, <2>1, InvNext DEF KeepsUp
    <3>. QED
      BY <3>1 DEF Shown, Now, low
  <2>2. CASE UNCHANGED vars
    BY <2>2
  <2>. QED
    BY <1>1, <2>1, <2>2
<1>. QED
  BY <1>1, InvCorrect, PTL DEF Spec, OnlyCalledChange
=============================================================================
