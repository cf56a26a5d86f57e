------------------------ MODULE OverlayTreeProofs ------------------------
(***************************************************************************)
(* Proofs about OverlayTree, for every set of names, number of layers and  *)
(* setup.  The types and the shape of the tree are not inductive alone: a  *)
(* handler that makes an entry in a cached directory relies on that        *)
(* directory's being one on the upper layer too, once copied up, and one   *)
(* that replaces a file on nothing being in it.  Sound says so, and every  *)
(* state that a handler goes through is shown to be Sound, so that a       *)
(* failure or a crash in the middle finds one too.                         *)
(***************************************************************************)
EXTENDS OverlayTree, SequenceTheorems, WellFoundedInduction, MapTheorems, TLAPS

-----------------------------------------------------------------------------
(* Paths have at most two names. *)

\* A path is the directory, a name in it, or a name in one of its
\* subdirectories.
LEMMA PathForms ==
    ASSUME NEW p \in Path
    PROVE  /\ \/ p = Base
              \/ \E n \in Names : p = <<n>>
              \/ \E n \in Names, x \in SubNames : p = <<n, x>>
BY DEF Path

\* Which of the three a path is shows in its length.
LEMMA PathLen ==
    ASSUME NEW p \in Path
    PROVE  /\ Len(p) \in 0 .. 2
           /\ p = Base <=> Len(p) = 0
           /\ Len(p) = 1 <=> \E n \in Names : p = <<n>>
           /\ Len(p) = 2 <=> \E n \in Names, x \in SubNames : p = <<n, x>>
BY PathForms DEF Base

\* The parents of the two kinds of names.
LEMMA ParentOf ==
    ASSUME NEW n, NEW x
    PROVE  /\ Parent(<<n>>) = Base
           /\ Parent(<<n, x>>) = <<n>>
<1>1. Parent(<<n>>) = Base
  BY DEF Parent, Base
<1>2. Parent(<<n, x>>) = <<n>>
  <2>1. SubSeq(<<n, x>>, 1, 1) = <<n>>
    <3>. DEFINE t == <<n, x>>
    <3>1. \A i \in 1 .. 1 : t[i] \in {n}
      OBVIOUS
    <3>2. PICK s : s = SubSeq(t, 1, 1)
      OBVIOUS
    <3>. HIDE DEF t
    <3>3. s \in Seq({n}) /\ Len(s) = 1
      BY <3>1, <3>2, SubSeqProperties
    <3>4. s = <<n>>
      BY <3>3
    <3>. QED
      BY <3>2, <3>4 DEF t
  <2>2. Len(<<n, x>>) - 1 = 1
    OBVIOUS
  <2>. QED
    BY <2>1, <2>2, Zenon DEF Parent
<1>. QED
  BY <1>1, <1>2

\* The parent of a name is a path, one shorter.
LEMMA Parents ==
    ASSUME NEW p \in Path, p # Base
    PROVE  /\ Parent(p) \in Path
           /\ Len(Parent(p)) = Len(p) - 1
           /\ Parent(p) # p
           /\ Len(p) = 1 <=> Parent(p) = Base
           /\ Len(p) \in {1, 2}
<1>1. CASE \E n \in Names : p = <<n>>
  <2>1. PICK n \in Names : p = <<n>>
    BY <1>1
  <2>2. Parent(p) = Base /\ Len(p) = 1
    BY <2>1, ParentOf
  <2>. QED
    BY <2>2 DEF Path, Base
<1>2. CASE \E n \in Names, x \in SubNames : p = <<n, x>>
  <2>1. PICK n \in Names, x \in SubNames : p = <<n, x>>
    BY <1>2
  <2>2. Parent(p) = <<n>> /\ Len(p) = 2 /\ Len(<<n>>) = 1
    BY <2>1, ParentOf
  <2>3. <<n>> \in Path /\ <<n>> # Base
    BY DEF Path, Base
  <2>. QED
    BY <2>2, <2>3
<1>. QED
  BY <1>1, <1>2, PathForms

\* What is under the directory is all the rest; what is under a name is in it.
LEMMA UnderPath ==
    ASSUME NEW p \in Path, NEW q \in Path
    PROVE  /\ p = Base => (q \in Under(p) <=> q # Base)
           /\ p # Base => (q \in Under(p) <=> q # Base /\ Parent(q) = p)
<1>0. /\ Len(p) \in 0 .. 2 /\ (p = Base <=> Len(p) = 0)
      /\ Len(q) \in 0 .. 2 /\ (q = Base <=> Len(q) = 0)
  BY PathLen
<1>1. CASE p = Base
  <2>1. Len(p) = 0 /\ SubSeq(q, 1, 0) = Base
    BY <1>1, <1>0, SubSeqEmpty DEF Base
  <2>. QED
    BY <1>0, <1>1, <2>1 DEF Under
<1>2. CASE p # Base /\ Len(q) <= Len(p)
  BY <1>0, <1>2, Parents DEF Under
<1>3. CASE p # Base /\ Len(q) > Len(p)
  <2>0. PICK i, j : i = Len(p) /\ j = Len(q)
    OBVIOUS
  <2>1. Len(p) = 1 /\ Len(q) = 2
    BY <1>3, <1>0, <2>0
  <2>. QED
    BY <2>1, <1>3, <1>0 DEF Under, Parent
<1>. QED
  BY <1>1, <1>2, <1>3, <1>0

\* The names of a directory are the paths that have it as parent.
LEMMA KidsPath ==
    ASSUME NEW p \in Path, NEW q
    PROVE  q \in Kids(p) <=> q \in Path /\ q # Base /\ Parent(q) = p
BY DEF Kids

\* Paths are sequences.
LEMMA PathSeq ==
    ASSUME NEW p \in Path
    PROVE  p \in Seq(Names \cup SubNames)
<1>0. PICK S : S = Names \cup SubNames
  OBVIOUS
<1>1. << >> \in Seq(S)
  OBVIOUS
<1>2. \A n \in Names : <<n>> \in Seq(S)
  BY <1>0
<1>3. \A n \in Names, x \in SubNames : <<n, x>> \in Seq(S)
  BY <1>0
<1>. QED
  BY <1>0, <1>1, <1>2, <1>3, PathForms, Zenon DEF Base

\* The prefixes of a path, which Upping copies up one after the other.
LEMMA PrefixOf ==
    ASSUME NEW p \in Path, NEW k \in 0 .. Len(p)
    PROVE  SubSeq(p, 1, k) = IF k = Len(p) THEN p ELSE IF k = 0 THEN Base ELSE Parent(p)
<1>0. p \in Seq(Names \cup SubNames) /\ Len(p) \in 0 .. 2
  BY PathSeq, PathLen
<1>1. CASE k = Len(p)
  <2>1. SubSeq(p, 1, Len(p)) = p
    BY <1>0, SubSeqFull
  <2>. QED
    BY <1>1, <2>1
<1>2. CASE k # Len(p) /\ k = 0
  <2>1. SubSeq(p, 1, 0) = Base
    BY SubSeqEmpty DEF Base
  <2>. QED
    BY <1>2, <2>1
<1>3. CASE k # Len(p) /\ k # 0
  <2>0. PICK j : j = Len(p)
    OBVIOUS
  <2>1. k = Len(p) - 1
    BY <1>0, <1>3, <2>0
  <2>. QED
    BY <1>3, <2>1 DEF Parent
<1>. QED
  BY <1>1, <1>2, <1>3

\* A path, its parent and the directory: what get_node_up walks over.
LEMMA UpwardPath ==
    ASSUME NEW p \in Path
    PROVE  /\ Upward(p) \subseteq Path
           /\ p \in Upward(p)
           /\ p # Base => Parent(p) \in Upward(p)
           /\ Base \in Upward(p)
           /\ \A q \in Upward(p) : q = Base \/ q = p \/ (p # Base /\ q = Parent(p))
<1>0. Len(p) \in 0 .. 2 /\ (p = Base <=> Len(p) = 0) /\ Base \in Path
  BY PathLen DEF Path
<1>1. p \in Upward(p)
  BY <1>0, PrefixOf DEF Upward
<1>2. Base \in Upward(p)
  <2>1. SubSeq(p, 1, 0) = Base
    BY SubSeqEmpty DEF Base
  <2>. QED
    BY <1>0, <2>1 DEF Upward
<1>3. ASSUME p # Base PROVE Parent(p) \in Upward(p)
  <2>1. Len(p) - 1 \in 0 .. Len(p)
    BY <1>0, <1>3
  <2>. QED
    BY <2>1 DEF Upward, Parent
<1>4. ASSUME NEW q \in Upward(p)
      PROVE  q = Base \/ q = p \/ (p # Base /\ q = Parent(p))
  <2>1. PICK k \in 0 .. Len(p) : q = SubSeq(p, 1, k)
    BY DEF Upward
  <2>. QED
    BY <2>1, <1>0, PrefixOf
<1>. QED
  BY <1>0, <1>1, <1>2, <1>3, <1>4, Parents

\* What moves itself takes the destination's path.
LEMMA RebaseSelf ==
    ASSUME NEW p \in Path, NEW q \in Path
    PROVE  Rebase(q, q, p) = p
<1>1. SubSeq(q, Len(q) + 1, Len(q)) = << >>
  BY PathLen, SubSeqEmpty
<1>2. p \o << >> = p
  BY PathSeq, ConcatEmptySeq
<1>. QED
  BY <1>1, <1>2 DEF Rebase

\* What is in a moved directory keeps its last name; it has no place under
\* a path of two names.
LEMMA RebaseKid ==
    ASSUME NEW n, NEW x, NEW k, NEW y
    PROVE  /\ Rebase(<<n, x>>, <<n>>, <<k>>) = <<k, x>>
           /\ Rebase(<<n, x>>, <<n>>, <<k, y>>) \notin Path
<1>1. SubSeq(<<n, x>>, 2, 2) = <<x>>
  <2>. DEFINE t == <<n, x>>
  <2>1. \A i \in 2 .. 2 : t[i] \in {x}
    OBVIOUS
  <2>2. PICK s : s = SubSeq(t, 2, 2)
    OBVIOUS
  <2>. HIDE DEF t
  <2>3. s \in Seq({x}) /\ Len(s) = 1
    BY <2>1, <2>2, SubSeqProperties
  <2>4. s = <<x>>
    BY <2>3
  <2>. QED
    BY <2>2, <2>4 DEF t
<1>2. Len(<<n, x>>) = 2 /\ Len(<<n>>) + 1 = 2
  OBVIOUS
<1>3. <<k>> \o <<x>> = <<k, x>>
  <2>1. PICK S : S = {k, x}
    OBVIOUS
  <2>2. PICK a, b : a = <<k>> /\ b = <<x>>
    OBVIOUS
  <2>3. a \in Seq(S) /\ b \in Seq(S) /\ Len(a) = 1 /\ Len(b) = 1 /\ a[1] = k /\ b[1] = x
    BY <2>1, <2>2
  <2>4. PICK s : s = a \o b
    OBVIOUS
  <2>41. s \in Seq(S) /\ Len(s) = 2 /\ s[1] = k /\ s[2] = x
    BY <2>3, <2>4, ConcatProperties
  <2>5. s = <<k, x>>
    BY <2>41
  <2>. QED
    BY <2>2, <2>4, <2>5
<1>4. Len(<<k, y>> \o <<x>>) = 3
  OBVIOUS
<1>5. \A p : Rebase(<<n, x>>, <<n>>, p) = p \o <<x>>
  BY <1>1, <1>2, Zenon DEF Rebase
<1>6. <<k, y>> \o <<x>> \notin Path
  <2>1. PICK s : s = <<k, y>> \o <<x>>
    OBVIOUS
  <2>2. Len(s) = 3
    BY <1>4, <2>1, Zenon
  <2>3. s \notin Path
    BY <2>2, PathLen
  <2>. QED
    BY <2>1, <2>3, Zenon
<1>. QED
  BY <1>3, <1>5, <1>6, Zenon

\* The same for all paths under a moved one, and back again.
LEMMA Rebased ==
    ASSUME NEW p \in Path, NEW q \in Path, p # Base, q # Base, NEW r \in Under(q)
    PROVE  /\ Len(q) = 1
           /\ Len(p) = 1 => Rebase(r, q, p) \in Under(p) /\ Rebase(Rebase(r, q, p), p, q) = r
           /\ Len(p) # 1 => Rebase(r, q, p) \notin Path
<1>1. r \in Path /\ r # Base /\ Parent(r) = q
  BY UnderPath DEF Under
<1>2. Len(q) = 1 /\ Len(r) = 2
  BY <1>1, Parents
<1>3. PICK n \in Names, x \in SubNames : r = <<n, x>>
  BY <1>1, <1>2, PathLen
<1>4. q = <<n>>
  BY <1>1, <1>3, ParentOf
<1>5. ASSUME Len(p) = 1
      PROVE  Rebase(r, q, p) \in Under(p) /\ Rebase(Rebase(r, q, p), p, q) = r
  <2>1. PICK k \in Names : p = <<k>>
    BY <1>5, PathLen
  <2>2. Rebase(r, q, p) = <<k, x>> /\ Rebase(<<k, x>>, p, q) = <<n, x>>
    BY <1>3, <1>4, <2>1, RebaseKid
  <2>3. <<k, x>> \in Path /\ Parent(<<k, x>>) = p /\ <<k, x>> # Base
    BY <2>1, ParentOf DEF Path, Base
  <2>4. <<k, x>> \in Under(p)
    BY <2>3, UnderPath
  <2>. QED
    BY <1>3, <2>2, <2>4
<1>6. ASSUME Len(p) # 1
      PROVE  Rebase(r, q, p) \notin Path
  <2>1. PICK k, y : p = <<k, y>>
    BY <1>6, PathForms, PathLen
  <2>. QED
    BY <1>3, <1>4, <2>1, RebaseKid
<1>. QED
  BY <1>2, <1>5, <1>6

-----------------------------------------------------------------------------
(* Layers. *)

\* Every set of numbers has a least one.
LEMMA LeastOf ==
    ASSUME NEW S, S \subseteq Nat, S # {}
    PROVE  Min(S) \in S /\ \A i \in S : Min(S) <= i
<1>1. PICK x \in S : \A y \in S : ~(<<y, x>> \in OpToRel(<, Nat))
  BY WFMin, NatLessThanWellFounded
<1>2. ASSUME NEW y \in S PROVE x <= y
  <2>1. x \in Nat /\ y \in Nat
    OBVIOUS
  <2>2. y < x => <<y, x>> \in OpToRel(<, Nat)
    BY <2>1 DEF OpToRel
  <2>3. ~(y < x)
    BY <1>1, <2>2, Zenon
  <2>. QED
    BY <2>1, <2>3
<1>. QED
  BY <1>2 DEF Min

\* A set of layers has a first one, at which a lookup finds a name.
LEMMA MinLayer ==
    ASSUME NEW S, S \subseteq Layer, S # {}
    PROVE  Min(S) \in S /\ \A i \in S : Min(S) <= i
<1>1. S \subseteq Nat
  BY SetupAssumption DEF Layer
<1>. QED
  BY <1>1, LeastOf

\* A set of layers has a last one, which becomes last_layer_idx.
LEMMA MaxLayer ==
    ASSUME NEW S, S \subseteq Layer, S # {}
    PROVE  Max(S) \in S /\ \A i \in S : i <= Max(S)
<1>0. NL \in Nat /\ S \subseteq 0 .. NL
  BY SetupAssumption DEF Layer
<1>1. PICK T : T = {NL - i : i \in S}
  OBVIOUS
<1>2. T \subseteq Nat /\ T # {}
  <2>1. \A i \in S : NL - i \in Nat
    BY <1>0
  <2>2. PICK i : i \in S
    OBVIOUS
  <2>3. NL - i \in T
    BY <1>1, <2>2
  <2>. QED
    BY <1>1, <2>1, <2>3
<1>3. Min(T) \in T /\ \A j \in T : Min(T) <= j
  BY <1>2, LeastOf
<1>4. PICK x \in S : Min(T) = NL - x
  BY <1>1, <1>3
<1>5. ASSUME NEW i \in S PROVE i <= x
  <2>1. NL - i \in T
    BY <1>1
  <2>2. NL - x <= NL - i
    BY <1>3, <1>4, <2>1
  <2>. QED
    BY <1>0, <2>2
<1>6. \A i \in S : x >= i
  BY <1>0, <1>5
<1>7. /\ Max(S) \in S
      /\ \A i \in S : Max(S) >= i
  BY <1>6, Zenon DEF Max
<1>. QED
  BY <1>0, <1>7

\* What SetupAssumption says of the mount.
LEMMA SetupFacts ==
    ASSUME setup \in Setups
    PROVE  /\ lower \in [1 .. NL -> [Path -> Ent]]
           /\ setup.last \in Layer
           /\ 0 \in Layer /\ Layer \subseteq Nat /\ NL \in Nat
           /\ \A i \in Layer \ {0} : i \in 1 .. NL
BY SetupAssumption DEF lower, Layer

-----------------------------------------------------------------------------
(* The shape of the tree. *)

\* The caches, and the states that handlers go through.
NodeMaps == UNION {[D -> Node] : D \in SUBSET Path}

States == [u : [Path -> UpperEnt], w : SUBSET (Path \ {Base}), m : NodeMaps]

\* Nodes hang under directory nodes, and entries under upper directories.
NodesHang(M) == \A p \in DOMAIN M \ {Base} : Parent(p) \in DOMAIN M /\ M[Parent(p)].dir
EntriesHang(U, W) ==
    \A p \in Path \ {Base} : U[p] # "none" \/ p \in W => U[Parent(p)] \in DirEnt

\* The directory itself is on the upper layer.
TopFits(U, M) == Base \in DOMAIN M /\ M[Base].dir /\ M[Base].layer = 0 /\ U[Base] \in DirEnt

\* The upper layer has the directories whose nodes are on layer 0, and nothing
\* in what has a file's node; whiteout sets are about a directory's names.
NodeFits(U, W, M, p) ==
    /\ M[p].dir /\ M[p].layer = 0 => U[p] \in DirEnt
    /\ ~M[p].dir => M[p].wh = {} /\ \A c \in Kids(p) : U[c] = "none" /\ c \notin W
    /\ M[p].wh \subseteq Kids(p)

Fits(U, W, M) ==
    /\ NodesHang(M)
    /\ EntriesHang(U, W)
    /\ TopFits(U, M)
    /\ \A p \in DOMAIN M : NodeFits(U, W, M, p)

\* The states in which cache and upper layer fit each other.
Sound == {s \in States : Fits(s.u, s.w, s.m)}

\* A sound state from its parts.
LEMMA MakeSound ==
    ASSUME NEW U \in [Path -> UpperEnt], NEW W \in SUBSET (Path \ {Base}), NEW M \in NodeMaps,
           Fits(U, W, M)
    PROVE  [u |-> U, w |-> W, m |-> M] \in Sound
BY DEF Sound, States

\* The parts of a sound state.
LEMMA SoundParts ==
    ASSUME NEW s \in Sound
    PROVE  /\ s \in States
           /\ s.u \in [Path -> UpperEnt]
           /\ s.w \subseteq Path \ {Base}
           /\ s.m \in NodeMaps
           /\ Fits(s.u, s.w, s.m)
           /\ s = [u |-> s.u, w |-> s.w, m |-> s.m]
BY DEF Sound, States

\* A cache maps paths to nodes.
LEMMA NodeMapFacts ==
    ASSUME NEW M \in NodeMaps
    PROVE  /\ M \in [DOMAIN M -> Node]
           /\ DOMAIN M \subseteq Path
           /\ \A p \in DOMAIN M : M[p] \in Node
BY DEF NodeMaps

\* A function from paths to nodes is a cache.
LEMMA NodeMapMade ==
    ASSUME NEW M, NEW D \in SUBSET Path, M \in [D -> Node]
    PROVE  M \in NodeMaps
BY DEF NodeMaps

\* Changing one part of the state leaves the other two.
LEMMA StateExcept ==
    ASSUME NEW s \in States, NEW X
    PROVE  /\ [s EXCEPT !.u = X] = [u |-> X, w |-> s.w, m |-> s.m]
           /\ [s EXCEPT !.w = X] = [u |-> s.u, w |-> X, m |-> s.m]
           /\ [s EXCEPT !.m = X] = [u |-> s.u, w |-> s.w, m |-> X]
BY DEF States

\* Changing both parts of the disk leaves the cache.
LEMMA DiskExcept ==
    ASSUME NEW s \in States, NEW X, NEW Y
    PROVE  [s EXCEPT !.u = X, !.w = Y] = [u |-> X, w |-> Y, m |-> s.m]
<1>1. PICK r : r = [s EXCEPT !.u = X]
  OBVIOUS
<1>2. r = [u |-> X, w |-> s.w, m |-> s.m]
  BY <1>1, StateExcept
<1>3. [r EXCEPT !.w = Y] = [u |-> X, w |-> Y, m |-> s.m]
  BY <1>2
<1>. QED
  BY <1>1, <1>3

\* A node with another set of whiteouts is a node, otherwise the same.
LEMMA NodeFields ==
    ASSUME NEW n \in Node
    PROVE  /\ n.layer \in Layer /\ n.last \in Layer
           /\ n.dir \in BOOLEAN /\ n.loaded \in BOOLEAN
           /\ n.wh \subseteq Path
           /\ \A X \in SUBSET Path : [n EXCEPT !.wh = X] \in Node
           /\ \A X : /\ [n EXCEPT !.wh = X].wh = X
                     /\ [n EXCEPT !.wh = X].dir = n.dir
                     /\ [n EXCEPT !.wh = X].layer = n.layer
                     /\ [n EXCEPT !.wh = X].last = n.last
                     /\ [n EXCEPT !.wh = X].loaded = n.loaded
BY DEF Node

\* What OvlNode's constructors set.
LEMMA NewNodeFacts ==
    ASSUME NEW layer \in Layer, NEW last \in Layer, NEW dir \in BOOLEAN, NEW loaded \in BOOLEAN,
           NEW n, n = NewNode(layer, last, dir, loaded)
    PROVE  /\ n \in Node
           /\ n.layer = layer /\ n.last = last /\ n.dir = dir /\ n.wh = {}
           /\ n.loaded = loaded
BY DEF NewNode, Node

\* The node made for an entry that a lookup or a scan finds.
FoundNode(layer, last, ent) == NewNode(layer, last, ent \in DirEnt, FALSE)

\* Such a node is a directory's if the entry is one.
LEMMA FoundNodeFacts ==
    ASSUME NEW layer \in Layer, NEW last \in Layer, NEW ent,
           NEW n, n = FoundNode(layer, last, ent)
    PROVE  /\ n \in Node /\ n.layer = layer /\ n.last = last
           /\ n.dir <=> ent \in DirEnt
           /\ n.wh = {} /\ ~n.loaded
<1>0. n = NewNode(layer, last, ent \in DirEnt, FALSE)
  BY DEF FoundNode
<1>1. n \in Node
  BY <1>0 DEF Node, NewNode
<1>2. n.layer = layer /\ n.last = last /\ n.wh = {}
  BY <1>0 DEF NewNode
<1>3. n.dir <=> ent \in DirEnt
  <2>1. PICK D : D = DirEnt
    OBVIOUS
  <2>2. n = NewNode(layer, last, ent \in D, FALSE)
    BY <1>0, <2>1
  <2>3. n.dir = (ent \in D)
    BY <2>2 DEF NewNode
  <2>. QED
    BY <2>1, <2>3
<1>4. ~n.loaded
  BY <1>0 DEF NewNode
<1>. QED
  BY <1>1, <1>2, <1>3, <1>4

\* t is s with more nodes, or with other whiteouts, last layers and loaded
\* marks in them.
Grown(s, t) ==
    /\ t.u = s.u /\ t.w = s.w
    /\ DOMAIN s.m \subseteq DOMAIN t.m
    /\ \A q \in DOMAIN s.m : t.m[q].dir = s.m[q].dir /\ t.m[q].layer = s.m[q].layer

\* Two handlers that only find names, one after the other, only find names.
LEMMA GrownTwice ==
    ASSUME NEW r, NEW s, NEW t, Grown(r, s), Grown(s, t)
    PROVE  Grown(r, t)
BY DEF Grown

\* Finding nothing is finding names.
LEMMA GrownSelf ==
    ASSUME NEW s
    PROVE  Grown(s, s)
BY DEF Grown

\* Nothing is in what is not a directory.
LEMMA NothingIn ==
    ASSUME NEW U, NEW W, EntriesHang(U, W), NEW p \in Path, U[p] \notin DirEnt,
           NEW c \in Kids(p)
    PROVE  U[c] = "none" /\ c \notin W
<1>1. c \in Path /\ c # Base /\ Parent(c) = p
  BY KidsPath
<1>. QED
  BY <1>1 DEF EntriesHang

\* Nothing is in p on the upper layer.
NothingAt(s, p) == s.u[p] \notin DirEnt \/ \A c \in Kids(p) : s.u[c] = "none" /\ c \notin s.w

\* New nodes whose parents are cached directories, and that fit what the upper
\* layer has, keep the state sound.
LEMMA NodesGrow ==
    ASSUME NEW s \in Sound, NEW M \in NodeMaps, DOMAIN s.m \subseteq DOMAIN M,
           \A q \in DOMAIN s.m :
              /\ M[q].dir = s.m[q].dir /\ M[q].layer = s.m[q].layer
              /\ M[q].wh \subseteq Kids(q)
              /\ ~M[q].dir => M[q].wh = {},
           \A q \in DOMAIN M \ DOMAIN s.m :
              /\ Parent(q) \in DOMAIN s.m /\ s.m[Parent(q)].dir
              /\ M[q].wh = {}
              /\ M[q].dir /\ M[q].layer = 0 => s.u[q] \in DirEnt
              /\ ~M[q].dir => NothingAt(s, q)
    PROVE  /\ [s EXCEPT !.m = M] \in Sound
           /\ [s EXCEPT !.m = M].m = M
           /\ Grown(s, [s EXCEPT !.m = M])
<1>0. PICK U, W, N : U = s.u /\ W = s.w /\ N = s.m
  OBVIOUS
<1>1. /\ U \in [Path -> UpperEnt] /\ W \in SUBSET (Path \ {Base}) /\ N \in NodeMaps
      /\ NodesHang(N) /\ EntriesHang(U, W) /\ TopFits(U, N)
      /\ \A p \in DOMAIN N : NodeFits(U, W, N, p)
  BY <1>0, SoundParts DEF Fits
<1>2. DOMAIN N \subseteq Path /\ DOMAIN M \subseteq Path
  BY <1>1, NodeMapFacts
<1>3. NodesHang(M)
  BY <1>0, <1>1 DEF NodesHang
<1>4. TopFits(U, M)
  BY <1>0, <1>1 DEF TopFits
<1>5. ASSUME NEW p \in DOMAIN M PROVE NodeFits(U, W, M, p)
  <2>1. CASE p \in DOMAIN N
    BY <1>0, <1>1, <2>1 DEF NodeFits
  <2>2. CASE p \notin DOMAIN N
    BY <1>0, <1>1, <1>2, <2>2, NothingIn DEF NodeFits, NothingAt
  <2>. QED
    BY <2>1, <2>2
<1>6. Fits(U, W, M)
  BY <1>1, <1>3, <1>4, <1>5 DEF Fits
<1>7. [s EXCEPT !.m = M] = [u |-> U, w |-> W, m |-> M]
  BY <1>0, SoundParts, StateExcept
<1>8. [u |-> U, w |-> W, m |-> M] \in Sound
  BY <1>1, <1>6, MakeSound
<1>. QED
  BY <1>0, <1>7, <1>8 DEF Grown

\* The parts of a sound state at a node.
LEMMA SoundNode ==
    ASSUME NEW s \in Sound, NEW p \in DOMAIN s.m
    PROVE  /\ p \in Path
           /\ s.m[p] \in Node
           /\ p # Base => Parent(p) \in DOMAIN s.m /\ s.m[Parent(p)].dir
           /\ NodeFits(s.u, s.w, s.m, p)
<1>0. s.m \in NodeMaps /\ Fits(s.u, s.w, s.m)
  BY SoundParts
<1>1. PICK M : M = s.m
  OBVIOUS
<1>2. p \in Path /\ M[p] \in Node
  BY <1>0, <1>1, NodeMapFacts
<1>. QED
  BY <1>0, <1>1, <1>2 DEF Fits, NodesHang

\* A node gets another set of whiteouts.
WithWh(M, p, X) == [M EXCEPT ![p].wh = X]

\* Another set of whiteouts in one node changes nothing else.
LEMMA ExceptWh ==
    ASSUME NEW M \in NodeMaps, NEW p \in DOMAIN M, NEW X \in SUBSET Path,
           NEW T, T = WithWh(M, p, X)
    PROVE  /\ T \in NodeMaps /\ DOMAIN T = DOMAIN M
           /\ \A q \in DOMAIN M \ {p} : T[q] = M[q]
           /\ T[p].dir = M[p].dir /\ T[p].layer = M[p].layer /\ T[p].wh = X
           /\ T[p].last = M[p].last /\ T[p].loaded = M[p].loaded
<1>1. PICK D : D = DOMAIN M
  OBVIOUS
<1>2. D \in SUBSET Path /\ M \in [D -> Node] /\ p \in D
  BY <1>1, NodeMapFacts
<1>3. PICK n : n = [M[p] EXCEPT !.wh = X]
  OBVIOUS
<1>4. /\ n \in Node
      /\ n.dir = M[p].dir /\ n.layer = M[p].layer /\ n.wh = X
      /\ n.last = M[p].last /\ n.loaded = M[p].loaded
  <2>1. PICK o : o = M[p]
    OBVIOUS
  <2>2. o \in Node
    BY <1>2, <2>1
  <2>3. n = [o EXCEPT !.wh = X]
    BY <1>3, <2>1
  <2>4. /\ n \in Node
        /\ n.dir = o.dir /\ n.layer = o.layer /\ n.wh = X
        /\ n.last = o.last /\ n.loaded = o.loaded
    BY <2>2, <2>3 DEF Node
  <2>. QED
    BY <2>1, <2>4
<1>5. T = [M EXCEPT ![p] = n]
  BY <1>3 DEF WithWh
<1>6. T \in [D -> Node] /\ (\A q \in D \ {p} : T[q] = M[q]) /\ T[p] = n
  BY <1>2, <1>4, <1>5
<1>7. T \in NodeMaps
  BY <1>2, <1>6, NodeMapMade
<1>8. DOMAIN T = D
  BY <1>6
<1>. QED
  BY <1>1, <1>4, <1>6, <1>7, <1>8

-----------------------------------------------------------------------------
(* Finding names keeps the shape. *)

\* p can be a name in a directory that the cache has.
Nameable(s, p) == p \in Path /\ p # Base /\ Parent(p) \in DOMAIN s.m /\ s.m[Parent(p)].dir

\* insert_whiteout keeps the state sound and the nodes as they were.
LEMMA InsertWhiteout ==
    ASSUME NEW s \in Sound, NEW p, Nameable(s, p)
    PROVE  /\ insert_whiteout(s, p) \in Sound
           /\ Grown(s, insert_whiteout(s, p))
           /\ DOMAIN insert_whiteout(s, p).m = DOMAIN s.m
<1>0. PICK N, d : N = s.m /\ d = Parent(p)
  OBVIOUS
<1>1. p \in Path /\ p # Base /\ d \in DOMAIN N /\ N[d].dir /\ d \in Path
  BY <1>0, Parents DEF Nameable
<1>2. N \in NodeMaps /\ (\A q \in DOMAIN N : N[q] \in Node /\ NodeFits(s.u, s.w, N, q))
  BY <1>0, SoundParts, SoundNode
<1>3. PICK X : X = N[d].wh \cup {p}
  OBVIOUS
<1>4. X \in SUBSET Path /\ X \subseteq Kids(d)
  BY <1>0, <1>1, <1>2, <1>3, KidsPath, NodeFields DEF NodeFits
<1>5. PICK T : T = WithWh(N, d, X)
  OBVIOUS
<1>6. /\ T \in NodeMaps /\ DOMAIN T = DOMAIN N
      /\ \A q \in DOMAIN N \ {d} : T[q] = N[q]
      /\ T[d].dir = N[d].dir /\ T[d].layer = N[d].layer /\ T[d].wh = X
  <2>1. N \in NodeMaps /\ d \in DOMAIN N /\ X \in SUBSET Path
    BY <1>1, <1>2, <1>4
  <2>. QED
    BY <1>5, <2>1, ExceptWh
<1>8. \A q \in DOMAIN N : /\ T[q].dir = N[q].dir /\ T[q].layer = N[q].layer
                          /\ T[q].wh \subseteq Kids(q)
                          /\ ~T[q].dir => T[q].wh = {}
  BY <1>1, <1>2, <1>4, <1>6 DEF NodeFits
<1>9. insert_whiteout(s, p) = [s EXCEPT !.m = T]
  BY <1>0, <1>3, <1>5, SoundParts DEF insert_whiteout, States, WithWh
<1>. QED
  BY <1>0, <1>6, <1>8, <1>9, NodesGrow

\* insert_child keeps the state sound if the node fits what is on disk.
LEMMA InsertChild ==
    ASSUME NEW s \in Sound, NEW p, Nameable(s, p), p \notin DOMAIN s.m,
           NEW node \in Node, node.wh = {},
           node.dir /\ node.layer = 0 => s.u[p] \in DirEnt,
           ~node.dir => NothingAt(s, p)
    PROVE  /\ insert_child(s, p, node) \in Sound
           /\ Grown(s, insert_child(s, p, node))
           /\ DOMAIN insert_child(s, p, node).m = DOMAIN s.m \cup {p}
           /\ insert_child(s, p, node).m[p] = node
<1>0. PICK N, d : N = s.m /\ d = Parent(p)
  OBVIOUS
<1>1. p \in Path /\ p # Base /\ d \in DOMAIN N /\ N[d].dir /\ d \in Path /\ d # p
  BY <1>0, Parents DEF Nameable
<1>2. N \in NodeMaps /\ (\A q \in DOMAIN N : N[q] \in Node /\ NodeFits(s.u, s.w, N, q))
  BY <1>0, SoundParts, SoundNode
<1>3. PICK X : X = N[d].wh \ {p}
  OBVIOUS
<1>4. X \in SUBSET Path /\ X \subseteq Kids(d)
  BY <1>0, <1>1, <1>2, <1>3, NodeFields DEF NodeFits
<1>5. PICK T : T = WithWh(N, d, X)
  OBVIOUS
<1>6. /\ T \in NodeMaps /\ DOMAIN T = DOMAIN N
      /\ \A q \in DOMAIN N \ {d} : T[q] = N[q]
      /\ T[d].dir = N[d].dir /\ T[d].layer = N[d].layer /\ T[d].wh = X
  <2>1. N \in NodeMaps /\ d \in DOMAIN N /\ X \in SUBSET Path
    BY <1>1, <1>2, <1>4
  <2>. QED
    BY <1>5, <2>1, ExceptWh
<1>8. PICK M : M = Put(T, p, node)
  OBVIOUS
<1>9. /\ DOMAIN M = DOMAIN N \cup {p} /\ M[p] = node
      /\ \A q \in DOMAIN N : M[q] = T[q]
  BY <1>0, <1>6, <1>8 DEF Put
<1>10. M \in NodeMaps
  <2>1. T \in [DOMAIN N -> Node] /\ DOMAIN N \subseteq Path
    BY <1>6, NodeMapFacts
  <2>2. PICK D : D = DOMAIN N \cup {p}
    OBVIOUS
  <2>3. M \in [D -> Node] /\ D \in SUBSET Path
    BY <1>1, <1>6, <1>8, <2>1, <2>2 DEF Put
  <2>. QED
    BY <2>3, NodeMapMade
<1>11. \A q \in DOMAIN N : /\ M[q].dir = N[q].dir /\ M[q].layer = N[q].layer
                           /\ M[q].wh \subseteq Kids(q)
                           /\ ~M[q].dir => M[q].wh = {}
  <2>1. /\ T[d].dir = N[d].dir /\ T[d].layer = N[d].layer
        /\ T[d].wh \subseteq Kids(d) /\ N[d].dir
    BY <1>1, <1>4, <1>6
  <2>2. \A q \in DOMAIN N : N[q].wh \subseteq Kids(q) /\ (~N[q].dir => N[q].wh = {})
    BY <1>2 DEF NodeFits
  <2>. QED
    BY <1>6, <1>9, <2>1, <2>2
<1>12. insert_child(s, p, node) = [s EXCEPT !.m = M]
  BY <1>0, <1>3, <1>5, <1>8 DEF insert_child, WithWh
<1>13. DOMAIN M \ DOMAIN s.m = {p}
  BY <1>0, <1>9
<1>14. DOMAIN s.m \subseteq DOMAIN M
  BY <1>0, <1>9
<1>15. /\ [s EXCEPT !.m = M] \in Sound
       /\ [s EXCEPT !.m = M].m = M
       /\ Grown(s, [s EXCEPT !.m = M])
  BY <1>0, <1>1, <1>9, <1>10, <1>11, <1>13, <1>14, NodesGrow
<1>. QED
  BY <1>0, <1>9, <1>12, <1>15

\* do_lazy_lookup keeps the state sound and finds at most the name asked for.
LEMMA LazyLookup ==
    ASSUME setup \in Setups, NEW s \in Sound, NEW p, Nameable(s, p), p \notin DOMAIN s.m
    PROVE  /\ do_lazy_lookup(s, p) \in Sound
           /\ Grown(s, do_lazy_lookup(s, p))
           /\ DOMAIN do_lazy_lookup(s, p).m \subseteq DOMAIN s.m \cup {p}
<1>. DEFINE last   == s.m[Parent(p)].last
            layers == IF last > 0 THEN 0 .. last ELSE Layer
            hits   == {i \in layers : Hit(s, i, p)}
            first  == Min(hits)
            deeper == {i \in layers : Present(s, i, p)}
            deep   == Max(deeper)
            ent    == At(s, first, p)
            node   == FoundNode(first, IF ent = "opq" THEN first ELSE deep, ent)
<1>1. last \in Layer /\ 0 \in layers /\ layers \subseteq Layer
  BY SoundNode, NodeFields, SetupFacts DEF Nameable, Layer
<1>2. CASE hits = {}
  BY <1>2, GrownSelf DEF do_lazy_lookup
<1>3. CASE hits # {} /\ Whited(s, first, p)
  <2>1. do_lazy_lookup(s, p) = insert_whiteout(s, p)
    BY <1>3 DEF do_lazy_lookup
  <2>. QED
    BY <2>1, InsertWhiteout
<1>4. CASE hits # {} /\ ~Whited(s, first, p)
  <2>0. do_lazy_lookup(s, p) = insert_child(s, p, node)
    BY <1>4 DEF do_lazy_lookup, FoundNode
  <2>1. hits \subseteq Layer /\ deeper \subseteq Layer
    BY <1>1
  <2>2. first \in hits /\ \A i \in hits : first <= i
    BY <1>4, <2>1, MinLayer
  <2>3. first \in deeper
    BY <1>4, <2>2 DEF Hit, Whited
  <2>4. deep \in Layer
    BY <2>1, <2>3, MaxLayer
  <2>5. PICK f, l, x : f = first /\ l = (IF ent = "opq" THEN first ELSE deep) /\ x = ent
    OBVIOUS
  <2>6. f \in Layer /\ l \in Layer
    BY <2>1, <2>2, <2>4, <2>5
  <2>7. node = FoundNode(f, l, x)
    BY <2>5
  <2>. HIDE DEF node
  <2>8. node \in Node /\ node.layer = f /\ (node.dir <=> x \in DirEnt) /\ node.wh = {}
    BY <2>6, <2>7, FoundNodeFacts
  <2>9. f = 0 => (node.dir <=> s.u[p] \in DirEnt)
    BY <2>5, <2>8 DEF At
  <2>10. f # 0 => s.u[p] = "none"
    <3>1. f # 0 => 0 \notin hits
      BY <2>2, <2>5, <2>6 DEF Layer
    <3>. QED
      BY <3>1, <1>1, SetupFacts DEF Hit, Present, At
  <2>11. "none" \notin DirEnt
    BY DEF DirEnt
  <2>12. (node.dir /\ node.layer = 0 => s.u[p] \in DirEnt) /\ (~node.dir => NothingAt(s, p))
    BY <2>8, <2>9, <2>10, <2>11 DEF NothingAt
  <2>. QED
    BY <2>0, <2>8, <2>12, InsertChild
<1>. QED
  BY <1>2, <1>3, <1>4

\* do_lookup_file keeps the state sound and finds at most the name asked for.
LEMMA LookupFile ==
    ASSUME setup \in Setups, NEW s \in Sound, NEW p, Nameable(s, p)
    PROVE  /\ do_lookup_file(s, p) \in Sound
           /\ Grown(s, do_lookup_file(s, p))
           /\ DOMAIN do_lookup_file(s, p).m \subseteq DOMAIN s.m \cup {p}
<1>1. CASE p \in DOMAIN s.m \/ p \in s.m[Parent(p)].wh \/ s.m[Parent(p)].loaded
  <2>1. do_lookup_file(s, p) = s
    BY <1>1 DEF do_lookup_file
  <2>. QED
    BY <2>1, GrownSelf
<1>2. CASE ~(p \in DOMAIN s.m \/ p \in s.m[Parent(p)].wh \/ s.m[Parent(p)].loaded)
  <2>1. do_lookup_file(s, p) = do_lazy_lookup(s, p)
    BY <1>2 DEF do_lookup_file
  <2>. QED
    BY <1>2, <2>1, LazyLookup
<1>. QED
  BY <1>1, <1>2

\* A name that the scan finds is in one of the layers it reads.
LEMMA ScanFound ==
    ASSUME setup \in Setups, NEW s, NEW p, NEW c, ScanFinds(s, p, c)
    PROVE  /\ ScanLayers(s, p, c) # {}
           /\ Min(ScanLayers(s, p, c)) \in ScanLayers(s, p, c)
           /\ Max(ScanLayers(s, p, c)) \in Layer
           /\ c \notin DOMAIN s.m
<1>. DEFINE hits == {i \in Scanned(s, p) : Hit(s, i, c)}
<1>0. Scanned(s, p) \subseteq Layer
  BY DEF Scanned
<1>1. hits # {} /\ ~Whited(s, Min(hits), c) /\ c \notin DOMAIN s.m
  BY DEF ScanFinds
<1>2. hits \subseteq Layer
  BY <1>0
<1>3. Min(hits) \in hits
  BY <1>1, <1>2, MinLayer
<1>4. Min(hits) \in ScanLayers(s, p, c)
  BY <1>1, <1>3 DEF ScanLayers, Hit, Whited
<1>5. ScanLayers(s, p, c) \subseteq Layer
  BY <1>0 DEF ScanLayers
<1>. QED
  BY <1>1, <1>4, <1>5, MinLayer, MaxLayer

\* The node that the scan makes for a new name.
ScanNew(s, p, c) ==
    FoundNode(Min(ScanLayers(s, p, c)), Max(ScanLayers(s, p, c)),
              At(s, Min(ScanLayers(s, p, c)), c))

\* The upper layer's entry decides what a new node is if it has one.
LEMMA ScanNewFits ==
    ASSUME setup \in Setups, NEW s \in Sound, NEW p \in DOMAIN s.m, s.m[p].dir,
           NEW c \in Kids(p), ScanFinds(s, p, c), NEW n, n = ScanNew(s, p, c)
    PROVE  /\ n \in Node /\ n.wh = {} /\ ~n.loaded
           /\ n.dir /\ n.layer = 0 => s.u[c] \in DirEnt
           /\ ~n.dir => NothingAt(s, c)
<1>. DEFINE scan == ScanLayers(s, p, c)
<1>0. PICK f, l : f = Min(scan) /\ l = Max(scan)
  OBVIOUS
<1>2. scan \subseteq Layer /\ scan # {}
  BY ScanFound DEF ScanLayers, Scanned
<1>3. f \in scan /\ l \in Layer /\ f \in Layer
  <2>1. f \in scan /\ l \in Layer
    BY <1>0, ScanFound
  <2>. QED
    BY <1>2, <2>1
<1>4. \A i \in scan : f <= i
  BY <1>0, <1>2, MinLayer
<1>5. n = FoundNode(f, l, At(s, f, c))
  BY <1>0 DEF ScanNew
<1>6. n \in Node /\ n.layer = f /\ (n.dir <=> At(s, f, c) \in DirEnt) /\ n.wh = {} /\ ~n.loaded
  BY <1>3, <1>5, FoundNodeFacts
<1>7. f = 0 => (n.dir <=> s.u[c] \in DirEnt)
  BY <1>6 DEF At
<1>8. f # 0 => s.u[c] \notin DirEnt
  <2>1. SUFFICES ASSUME f # 0, s.u[c] \in DirEnt
                 PROVE  FALSE
    OBVIOUS
  <2>2. c \in Path /\ c # Base /\ Parent(c) = p
    BY SoundNode, KidsPath
  <2>3. s.u[c] # "none"
    BY <2>1 DEF DirEnt
  <2>4. s.u[p] \in DirEnt
    BY <2>2, <2>3, SoundParts DEF Fits, EntriesHang
  <2>5. 0 \in Scanned(s, p)
    BY <2>4, SetupFacts DEF Scanned, At
  <2>6. 0 \in scan
    BY <2>3, <2>5 DEF ScanLayers, Present, At
  <2>. QED
    BY <1>3, <1>4, <2>1, <2>6 DEF Layer
<1>. QED
  BY <1>6, <1>7, <1>8 DEF NothingAt

\* load_dir_impl keeps the state sound, also where children are cached already.
LEMMA LoadDir ==
    ASSUME setup \in Setups, NEW s \in Sound, NEW p \in DOMAIN s.m, s.m[p].dir
    PROVE  /\ load_dir_impl(s, p) \in Sound
           /\ Grown(s, load_dir_impl(s, p))
<1>. DEFINE found  == {c \in Kids(p) : ScanFinds(s, p, c)}
            hidden == {c \in Kids(p) : ScanHides(s, p, c)}
            scan(c) == ScanLayers(s, p, c)
            old(c) == IF scan(c) = {} THEN s.m[c] ELSE [s.m[c] EXCEPT !.last = Max(scan(c))]
            top == [s.m[p] EXCEPT !.loaded = TRUE, !.wh = @ \cup hidden]
            at(c) == CASE c \in found -> ScanNew(s, p, c)
                       [] c \in Children(s, p) -> old(c)
                       [] c = p -> top
                       [] OTHER -> s.m[c]
<1>0. PICK M : M = [c \in DOMAIN s.m \cup found |-> at(c)]
  OBVIOUS
<1>1. load_dir_impl(s, p) = [s EXCEPT !.m = M]
  BY <1>0 DEF load_dir_impl, ScanNew, FoundNode
<1>2. /\ DOMAIN s.m \subseteq Path /\ found \subseteq Path
      /\ \A c \in found : c \notin DOMAIN s.m /\ Parent(c) = p
      /\ \A c \in Children(s, p) : c \in DOMAIN s.m /\ c # p
  BY SoundNode, KidsPath, ScanFound, Parents DEF Children
<1>3. \A c \in found : /\ at(c) \in Node /\ at(c).wh = {}
                       /\ at(c).dir /\ at(c).layer = 0 => s.u[c] \in DirEnt
                       /\ ~at(c).dir => NothingAt(s, c)
  <2>1. SUFFICES ASSUME NEW c \in found
                 PROVE  /\ at(c) \in Node /\ at(c).wh = {}
                        /\ at(c).dir /\ at(c).layer = 0 => s.u[c] \in DirEnt
                        /\ ~at(c).dir => NothingAt(s, c)
    OBVIOUS
  <2>2. PICK n : n = ScanNew(s, p, c)
    OBVIOUS
  <2>3. at(c) = n
    BY <1>2, <2>2
  <2>4. c \in Kids(p) /\ ScanFinds(s, p, c)
    OBVIOUS
  <2>. HIDE DEF at, found
  <2>5. /\ n \in Node /\ n.wh = {}
        /\ n.dir /\ n.layer = 0 => s.u[c] \in DirEnt
        /\ ~n.dir => NothingAt(s, c)
    BY <2>2, <2>4, ScanNewFits
  <2>. QED
    BY <2>3, <2>5
<1>4. ASSUME NEW q \in DOMAIN s.m
      PROVE  /\ at(q) \in Node /\ at(q).dir = s.m[q].dir /\ at(q).layer = s.m[q].layer
             /\ at(q).wh \subseteq Kids(q)
             /\ ~at(q).dir => at(q).wh = {}
  <2>0. PICK n : n = s.m[q]
    OBVIOUS
  <2>1. n \in Node /\ n.wh \subseteq Kids(q) /\ (~n.dir => n.wh = {}) /\ q \in Path
    BY <2>0, SoundNode DEF NodeFits
  <2>2. q \notin found
    BY <1>2
  <2>3. CASE q \in Children(s, p)
    <3>1. at(q) = IF scan(q) = {} THEN n ELSE [n EXCEPT !.last = Max(scan(q))]
      BY <1>2, <2>0, <2>2, <2>3
    <3>2. scan(q) # {} => Max(scan(q)) \in Layer
      <4>1. scan(q) \subseteq Layer
        BY DEF ScanLayers, Scanned
      <4>. QED
        BY <4>1, MaxLayer
    <3>3. PICK l : l = Max(scan(q))
      OBVIOUS
    <3>4. l \in Layer => /\ [n EXCEPT !.last = l] \in Node
                         /\ [n EXCEPT !.last = l].dir = n.dir
                         /\ [n EXCEPT !.last = l].layer = n.layer
                         /\ [n EXCEPT !.last = l].wh = n.wh
      BY <2>1 DEF Node
    <3>. HIDE DEF at, scan
    <3>. QED
      BY <2>0, <2>1, <3>1, <3>2, <3>3, <3>4
  <2>4. CASE q = p
    <3>1. q \notin Children(s, p)
      BY <1>2, <2>4
    <3>2. PICK X : X = n.wh \cup hidden
      OBVIOUS
    <3>3. X \subseteq Kids(q) /\ X \in SUBSET Path
      BY <2>1, <2>4, <3>2 DEF Kids
    <3>4. at(q) = [n EXCEPT !.loaded = TRUE, !.wh = X]
      BY <2>0, <2>2, <2>4, <3>1, <3>2
    <3>5. PICK t : t = [n EXCEPT !.loaded = TRUE, !.wh = X]
      OBVIOUS
    <3>6. t \in Node /\ t.dir = n.dir /\ t.layer = n.layer /\ t.wh = X
      BY <2>1, <3>3, <3>5 DEF Node
    <3>. HIDE DEF at
    <3>. QED
      BY <2>0, <2>4, <3>3, <3>4, <3>5, <3>6
  <2>5. CASE q # p /\ q \notin Children(s, p)
    <3>1. at(q) = n
      BY <2>0, <2>2, <2>5
    <3>. HIDE DEF at
    <3>. QED
      BY <2>0, <2>1, <3>1
  <2>. QED
    BY <2>3, <2>4, <2>5
<1>5. M \in NodeMaps
  <2>1. PICK D : D = DOMAIN s.m \cup found
    OBVIOUS
  <2>2. D \in SUBSET Path
    BY <1>2, <2>1
  <2>3. \A c \in D : at(c) \in Node
    BY <1>3, <1>4, <2>1
  <2>. HIDE DEF at
  <2>4. M \in [D -> Node]
    BY <1>0, <2>1, <2>3
  <2>. QED
    BY <2>2, <2>4, NodeMapMade
<1>6. DOMAIN M = DOMAIN s.m \cup found /\ \A c \in DOMAIN M : M[c] = at(c)
  BY <1>0
<1>7. DOMAIN s.m \subseteq DOMAIN M
  BY <1>6
<1>8. \A q \in DOMAIN s.m :
              /\ M[q].dir = s.m[q].dir /\ M[q].layer = s.m[q].layer
              /\ M[q].wh \subseteq Kids(q)
              /\ ~M[q].dir => M[q].wh = {}
  BY <1>4, <1>6, <1>7
<1>9. \A q \in DOMAIN M \ DOMAIN s.m :
              /\ Parent(q) \in DOMAIN s.m /\ s.m[Parent(q)].dir
              /\ M[q].wh = {}
              /\ M[q].dir /\ M[q].layer = 0 => s.u[q] \in DirEnt
              /\ ~M[q].dir => NothingAt(s, q)
  BY <1>2, <1>3, <1>6
<1>. QED
  BY <1>1, <1>5, <1>7, <1>8, <1>9, NodesGrow

\* reload_dir keeps the state sound.
LEMMA ReloadDir ==
    ASSUME setup \in Setups, NEW s \in Sound, NEW p \in DOMAIN s.m, s.m[p].dir
    PROVE  /\ reload_dir(s, p) \in Sound
           /\ Grown(s, reload_dir(s, p))
BY LoadDir, GrownSelf DEF reload_dir

-----------------------------------------------------------------------------
(* Changing the upper layer keeps the shape. *)

\* The way up from a path is closed under parents.
LEMMA UpwardParent ==
    ASSUME NEW p \in Path, NEW q \in Upward(p), q # Base
    PROVE  Parent(q) \in Upward(p)
<1>1. CASE q = p
  BY <1>1, UpwardPath
<1>2. CASE q # p
  <2>1. p # Base /\ q = Parent(p)
    BY <1>2, UpwardPath
  <2>2. q \in Path /\ Len(q) = Len(p) - 1 /\ Len(p) \in {1, 2} /\ Len(q) \in {1, 2}
    BY <2>1, Parents
  <2>3. Parent(q) = Base
    BY <2>2, Parents
  <2>. QED
    BY <2>3, UpwardPath
<1>. QED
  BY <1>1, <1>2

\* The way up from a cached node is cached.
LEMMA UpwardNodes ==
    ASSUME NEW s \in Sound, NEW p \in DOMAIN s.m
    PROVE  Upward(p) \subseteq DOMAIN s.m
<1>1. Base \in DOMAIN s.m
  BY SoundParts DEF Fits, TopFits
<1>. QED
  BY <1>1, SoundNode, UpwardPath

\* What is read from a layer is something the upper layer can hold: copy-up
\* never has to make what it cannot.
LEMMA AtType ==
    ASSUME setup \in Setups, NEW s \in Sound, NEW i \in Layer, NEW q \in Path
    PROVE  At(s, i, q) \in UpperEnt
<1>1. CASE i = 0
  BY <1>1, SoundParts DEF At
<1>2. CASE i # 0
  <2>1. lower[i][q] \in Ent
    BY <1>2, SetupFacts
  <2>. QED
    BY <1>2, <2>1 DEF At, Ent, UpperEnt
<1>. QED
  BY <1>1, <1>2

\* The same nodes, with the same kinds and whiteouts.
SameNodes(s, t) ==
    /\ DOMAIN t.m = DOMAIN s.m
    /\ \A q \in DOMAIN s.m : /\ t.m[q].dir = s.m[q].dir /\ t.m[q].wh = s.m[q].wh
                             /\ t.m[q].last = s.m[q].last /\ t.m[q].loaded = s.m[q].loaded

\* get_node_up keeps the state sound, and brings the node and all above it to
\* the upper layer.
LEMMA NodeUp ==
    ASSUME setup \in Setups, NEW s \in Sound, NEW p \in DOMAIN s.m,
           NEW t, t = get_node_up(s, p)
    PROVE  /\ t \in Sound
           /\ SameNodes(s, t)
           /\ \A q \in Upward(p) : t.m[q].layer = 0
<1>. DEFINE low == {q \in Upward(p) : s.m[q].layer > 0}
            U == [q \in Path |-> IF q \notin low THEN s.u[q]
                                 ELSE IF s.m[q].dir THEN "dir"
                                 ELSE At(s, s.m[q].layer, q)]
            W == s.w \ low
            M == [q \in DOMAIN s.m |-> IF q \in low THEN [s.m[q] EXCEPT !.layer = 0]
                                       ELSE s.m[q]]
<1>0. t = [u |-> U, w |-> W, m |-> M]
  BY DEF get_node_up
<1>1. /\ p \in Path /\ Upward(p) \subseteq DOMAIN s.m /\ DOMAIN s.m \subseteq Path
      /\ \A q \in DOMAIN s.m : s.m[q] \in Node /\ NodeFits(s.u, s.w, s.m, q)
      /\ EntriesHang(s.u, s.w) /\ NodesHang(s.m) /\ TopFits(s.u, s.m)
  BY SoundNode, UpwardNodes, SoundParts DEF Fits
<1>2. low \subseteq DOMAIN s.m /\ \A q \in DOMAIN s.m : s.m[q].layer \in Layer
  BY <1>1, NodeFields
<1>3. U \in [Path -> UpperEnt]
  <2>1. ASSUME NEW q \in Path PROVE U[q] \in UpperEnt
    BY <1>2, AtType, SoundParts DEF UpperEnt, DirEnt
  <2>. QED
    BY <2>1
<1>4. ASSUME NEW q \in DOMAIN s.m
      PROVE  /\ M[q] \in Node
             /\ M[q].dir = s.m[q].dir /\ M[q].wh = s.m[q].wh
             /\ M[q].last = s.m[q].last /\ M[q].loaded = s.m[q].loaded
             /\ M[q].layer = IF q \in low THEN 0 ELSE s.m[q].layer
  <2>1. PICK n : n = s.m[q]
    OBVIOUS
  <2>2. n \in Node /\ 0 \in Layer
    BY <1>1, <2>1, SetupFacts
  <2>3. PICK o : o = [n EXCEPT !.layer = 0]
    OBVIOUS
  <2>4. o \in Node /\ o.dir = n.dir /\ o.wh = n.wh /\ o.layer = 0 /\ o.last = n.last /\ o.loaded = n.loaded
    BY <2>2, <2>3 DEF Node
  <2>5. M[q] = IF q \in low THEN o ELSE n
    BY <2>1, <2>3
  <2>. HIDE DEF M, low
  <2>. QED
    BY <2>1, <2>2, <2>4, <2>5
<1>5. M \in NodeMaps /\ DOMAIN M = DOMAIN s.m
  <2>1. PICK D : D = DOMAIN s.m
    OBVIOUS
  <2>2. D \in SUBSET Path /\ DOMAIN M = D
    BY <1>1, <2>1
  <2>3. \A q \in D : M[q] \in Node
    BY <1>4, <2>1
  <2>4. M \in [D -> Node]
    <3>1. M = [q \in D |-> M[q]]
      BY <2>1
    <3>. HIDE DEF M
    <3>. QED
      BY <2>3, <3>1
  <2>. HIDE DEF M
  <2>. QED
    BY <2>1, <2>2, <2>4, NodeMapMade
<1>6. \A q \in Upward(p) : M[q].layer = 0
  <2>1. \A q \in Upward(p) : q \notin low => s.m[q].layer = 0
    BY <1>1, <1>2, SetupFacts DEF Layer
  <2>. HIDE DEF M, low
  <2>. QED
    BY <1>1, <1>4, <2>1
<1>7. \A q \in Path : /\ q \notin low => U[q] = s.u[q]
                      /\ q \in low /\ s.m[q].dir => U[q] \in DirEnt
  BY DEF DirEnt
<1>8. Base \notin low
  BY <1>1 DEF TopFits
<1>9. \A q \in low : q \in Upward(p) /\ q \in DOMAIN s.m
  BY <1>2
<1>. HIDE DEF U, M, low
<1>10. EntriesHang(U, W)
  <2>1. SUFFICES ASSUME NEW q \in Path \ {Base}, U[q] # "none" \/ q \in W
                 PROVE  U[Parent(q)] \in DirEnt
    BY DEF EntriesHang
  <2>2. Parent(q) \in Path
    BY Parents
  <2>3. CASE q \in low
    <3>1. Parent(q) \in Upward(p) /\ Parent(q) \in DOMAIN s.m /\ s.m[Parent(q)].dir
      BY <1>1, <1>9, <2>3, UpwardParent DEF NodesHang
    <3>2. CASE Parent(q) \in low
      BY <1>7, <2>2, <3>1, <3>2
    <3>3. CASE Parent(q) \notin low
      <4>1. M[Parent(q)].layer = s.m[Parent(q)].layer /\ M[Parent(q)].layer = 0
        BY <1>4, <1>6, <3>1, <3>3
      <4>2. s.u[Parent(q)] \in DirEnt
        BY <1>1, <3>1, <4>1 DEF NodeFits
      <4>. QED
        BY <1>7, <2>2, <3>3, <4>2
    <3>. QED
      BY <3>2, <3>3
  <2>4. CASE q \notin low
    <3>1. s.u[q] # "none" \/ q \in s.w
      BY <1>7, <2>1, <2>4
    <3>2. s.u[Parent(q)] \in DirEnt
      BY <1>1, <3>1 DEF EntriesHang
    <3>3. CASE Parent(q) \in low
      <4>1. q \in Kids(Parent(q))
        BY <2>2, KidsPath
      <4>2. s.m[Parent(q)].dir
        BY <1>1, <1>9, <3>1, <3>3, <4>1 DEF NodeFits
      <4>. QED
        BY <1>7, <2>2, <3>3, <4>2
    <3>. QED
      BY <1>7, <2>2, <3>2, <3>3
  <2>. QED
    BY <2>3, <2>4
<1>11. ASSUME NEW q \in DOMAIN s.m PROVE NodeFits(U, W, M, q)
  <2>0. q \in Path /\ NodeFits(s.u, s.w, s.m, q)
    BY <1>1
  <2>1. M[q].dir /\ M[q].layer = 0 => U[q] \in DirEnt
    BY <1>4, <1>7, <2>0 DEF NodeFits
  <2>2. ASSUME ~M[q].dir, NEW c \in Kids(q) PROVE U[c] = "none" /\ c \notin W
    <3>1. c \in Path /\ c # Base /\ Parent(c) = q
      BY <2>0, KidsPath
    <3>2. ~s.m[q].dir
      BY <1>4, <2>2
    <3>3. c \notin low
      BY <1>1, <1>9, <3>1, <3>2 DEF NodesHang
    <3>. QED
      BY <1>7, <2>0, <3>1, <3>2, <3>3 DEF NodeFits
  <2>3. M[q].wh \subseteq Kids(q) /\ (~M[q].dir => M[q].wh = {})
    BY <1>4, <2>0 DEF NodeFits
  <2>. QED
    BY <2>1, <2>2, <2>3 DEF NodeFits
<1>12. NodesHang(M) /\ TopFits(U, M)
  <2>1. NodesHang(M)
    BY <1>1, <1>4, <1>5 DEF NodesHang
  <2>2. TopFits(U, M)
    BY <1>1, <1>4, <1>5, <1>7, <1>8 DEF TopFits, Path
  <2>. QED
    BY <2>1, <2>2
<1>13. Fits(U, W, M)
  BY <1>5, <1>10, <1>11, <1>12 DEF Fits
<1>14. W \in SUBSET (Path \ {Base})
  BY SoundParts
<1>15. t \in Sound
  BY <1>0, <1>3, <1>5, <1>13, <1>14, MakeSound
<1>16. t.m = M
  BY <1>0
<1>. QED
  BY <1>4, <1>5, <1>6, <1>15, <1>16 DEF SameNodes

\* One entry of the upper layer, and its .wh. files, change.
PutEnt(s, p, x) == [s EXCEPT !.u[p] = x]
PutWh(s, X) == [s EXCEPT !.w = X]

\* The parts of s and t that a change of the upper layer at p leaves alone.
OnlyEnt(s, t, p) == t.m = s.m /\ \A q \in Path \ {p} : t.u[q] = s.u[q]

\* An entry of the upper layer is made, replaced or removed.
LEMMA EntryPut ==
    ASSUME NEW s \in Sound, NEW p \in Path \ {Base}, NEW x \in UpperEnt,
           x # "none" => Nameable(s, p) /\ s.u[Parent(p)] \in DirEnt,
           x \in DirEnt \/ \A c \in Kids(p) : s.u[c] = "none" /\ c \notin s.w,
           p \in DOMAIN s.m /\ s.m[p].dir /\ s.m[p].layer = 0 => x \in DirEnt,
           NEW t, t = PutEnt(s, p, x)
    PROVE  t \in Sound /\ OnlyEnt(s, t, p) /\ t.w = s.w /\ t.u[p] = x
<1>0. PICK U, V, W, M : U = s.u /\ W = s.w /\ M = s.m /\ V = [U EXCEPT ![p] = x]
  OBVIOUS
<1>1. /\ U \in [Path -> UpperEnt] /\ W \in SUBSET (Path \ {Base}) /\ M \in NodeMaps
      /\ EntriesHang(U, W) /\ NodesHang(M) /\ TopFits(U, M)
      /\ \A q \in DOMAIN M : q \in Path /\ NodeFits(U, W, M, q)
  BY <1>0, SoundParts, SoundNode DEF Fits
<1>2. V \in [Path -> UpperEnt] /\ V[p] = x /\ \A q \in Path \ {p} : V[q] = U[q]
  BY <1>0, <1>1
<1>3. t = [u |-> V, w |-> W, m |-> M]
  BY <1>0, SoundParts DEF PutEnt, States
<1>4. EntriesHang(V, W)
  <2>1. SUFFICES ASSUME NEW q \in Path \ {Base}, V[q] # "none" \/ q \in W
                 PROVE  V[Parent(q)] \in DirEnt
    BY DEF EntriesHang
  <2>2. Parent(q) \in Path /\ Parent(q) # q /\ q \in Kids(Parent(q))
    BY Parents, KidsPath
  <2>3. CASE q = p
    BY <1>0, <1>1, <1>2, <2>1, <2>2, <2>3 DEF EntriesHang
  <2>4. CASE q # p
    <3>1. U[q] # "none" \/ q \in W
      BY <1>2, <2>1, <2>4
    <3>2. U[Parent(q)] \in DirEnt
      BY <1>1, <3>1 DEF EntriesHang
    <3>3. CASE Parent(q) = p
      BY <1>0, <1>2, <2>2, <3>1, <3>3
    <3>4. CASE Parent(q) # p
      BY <1>2, <2>2, <3>2, <3>4
    <3>. QED
      BY <3>3, <3>4
  <2>. QED
    BY <2>3, <2>4
<1>5. TopFits(V, M)
  BY <1>1, <1>2 DEF TopFits, Path
<1>6. ASSUME NEW q \in DOMAIN M PROVE NodeFits(V, W, M, q)
  <2>0. q \in Path /\ NodeFits(U, W, M, q)
    BY <1>1
  <2>1. M[q].dir /\ M[q].layer = 0 => V[q] \in DirEnt
    BY <1>0, <1>2, <2>0 DEF NodeFits
  <2>2. ASSUME ~M[q].dir, NEW c \in Kids(q) PROVE V[c] = "none" /\ c \notin W
    <3>1. c \in Path /\ c # Base /\ Parent(c) = q
      BY <2>0, KidsPath
    <3>2. U[c] = "none" /\ c \notin W
      BY <2>0, <2>2 DEF NodeFits
    <3>3. CASE c = p
      BY <1>0, <1>2, <2>2, <3>1, <3>2, <3>3 DEF Nameable
    <3>. QED
      BY <1>2, <3>1, <3>2, <3>3
  <2>. QED
    BY <2>0, <2>1, <2>2 DEF NodeFits
<1>7. Fits(V, W, M)
  BY <1>1, <1>4, <1>5, <1>6 DEF Fits
<1>8. t \in Sound
  BY <1>1, <1>2, <1>3, <1>7, MakeSound
<1>. QED
  BY <1>0, <1>2, <1>3, <1>8 DEF OnlyEnt

\* Whiteout files are made and removed.
LEMMA WhiteoutsPut ==
    ASSUME NEW s \in Sound, NEW X \in SUBSET (Path \ {Base}),
           \A q \in X \ s.w : Nameable(s, q) /\ s.u[Parent(q)] \in DirEnt,
           NEW t, t = PutWh(s, X)
    PROVE  t \in Sound /\ t.m = s.m /\ t.u = s.u /\ t.w = X
<1>0. PICK U, W, M : U = s.u /\ W = s.w /\ M = s.m
  OBVIOUS
<1>1. /\ U \in [Path -> UpperEnt] /\ M \in NodeMaps
      /\ EntriesHang(U, W) /\ NodesHang(M) /\ TopFits(U, M)
      /\ \A q \in DOMAIN M : q \in Path /\ NodeFits(U, W, M, q)
  BY <1>0, SoundParts, SoundNode DEF Fits
<1>2. t = [u |-> U, w |-> X, m |-> M]
  BY <1>0, SoundParts DEF PutWh, States
<1>3. EntriesHang(U, X)
  BY <1>0, <1>1 DEF EntriesHang
<1>4. ASSUME NEW q \in DOMAIN M PROVE NodeFits(U, X, M, q)
  <2>0. q \in Path /\ NodeFits(U, W, M, q)
    BY <1>1
  <2>1. ASSUME ~M[q].dir, NEW c \in Kids(q) PROVE U[c] = "none" /\ c \notin X
    <3>1. c \in Path /\ c # Base /\ Parent(c) = q
      BY <2>0, KidsPath
    <3>. QED
      BY <1>0, <2>0, <2>1, <3>1 DEF NodeFits, Nameable
  <2>. QED
    BY <2>0, <2>1 DEF NodeFits
<1>5. Fits(U, X, M)
  BY <1>1, <1>3, <1>4 DEF Fits
<1>6. t \in Sound
  BY <1>1, <1>2, <1>5, MakeSound
<1>. QED
  BY <1>0, <1>2, <1>6

\* delete_whiteout keeps the state sound and other entries as they were.
LEMMA DeleteWhiteout ==
    ASSUME NEW s \in Sound, NEW p \in Path \ {Base}, NEW t, t = delete_whiteout(s, p)
    PROVE  /\ t \in Sound /\ OnlyEnt(s, t, p) /\ t.w = s.w \ {p}
           /\ t.u[p] = IF s.u[p] = "wh" THEN "none" ELSE s.u[p]
<1>0. PICK x, X : x = (IF s.u[p] = "wh" THEN "none" ELSE s.u[p]) /\ X = s.w \ {p}
  OBVIOUS
<1>1. PICK r : r = PutEnt(s, p, x)
  OBVIOUS
<1>2. s.u[p] \in UpperEnt /\ EntriesHang(s.u, s.w) /\ Fits(s.u, s.w, s.m)
  BY SoundParts DEF Fits
<1>3. CASE s.u[p] = "wh"
  <2>1. x = "none" /\ x \in UpperEnt /\ s.u[p] \notin DirEnt
    BY <1>0, <1>3 DEF UpperEnt, DirEnt
  <2>2. \A c \in Kids(p) : s.u[c] = "none" /\ c \notin s.w
    BY <1>2, <2>1, NothingIn
  <2>3. p \in DOMAIN s.m /\ s.m[p].dir /\ s.m[p].layer = 0 => x \in DirEnt
    BY <2>1, SoundNode DEF NodeFits
  <2>5. r \in Sound /\ OnlyEnt(s, r, p) /\ r.w = s.w /\ r.u[p] = x
    BY <1>1, <2>1, <2>2, <2>3, EntryPut
  <2>6. t = PutWh(r, X)
    BY <1>0, <1>1, SoundParts DEF delete_whiteout, PutEnt, PutWh, States
  <2>7. X \in SUBSET (Path \ {Base}) /\ X \ r.w = {}
    BY <1>0, <2>5, SoundParts
  <2>8. t \in Sound /\ t.m = r.m /\ t.u = r.u /\ t.w = X
    BY <2>5, <2>6, <2>7, WhiteoutsPut
  <2>. QED
    BY <1>0, <2>5, <2>8 DEF OnlyEnt
<1>4. CASE s.u[p] # "wh"
  <2>1. t = PutWh(s, X)
    BY <1>0, <1>4, SoundParts DEF delete_whiteout, PutWh, States
  <2>2. X \in SUBSET (Path \ {Base}) /\ X \ s.w = {}
    BY <1>0, SoundParts
  <2>3. t \in Sound /\ t.m = s.m /\ t.u = s.u /\ t.w = X
    BY <2>1, <2>2, WhiteoutsPut
  <2>. QED
    BY <1>0, <1>4, <2>3 DEF OnlyEnt
<1>. QED
  BY <1>3, <1>4

\* create_whiteout, for a name without a node whose directory is on the upper
\* layer, keeps the state sound.
LEMMA CreateWhiteout ==
    ASSUME NEW s \in Sound, NEW p, Nameable(s, p), s.u[Parent(p)] \in DirEnt,
           p \notin DOMAIN s.m, s.u[p] \notin DirEnt, NEW t, t = create_whiteout(s, p)
    PROVE  t \in Sound /\ t.m = s.m
<1>0. p \in Path \ {Base}
  BY DEF Nameable
<1>1. CASE CanMknod
  <2>0. PICK x : x = "wh"
    OBVIOUS
  <2>1. t = PutEnt(s, p, x)
    BY <1>1, <2>0 DEF create_whiteout, PutEnt
  <2>2. x \in UpperEnt /\ x # "none"
    BY <2>0 DEF UpperEnt
  <2>3. \A c \in Kids(p) : s.u[c] = "none" /\ c \notin s.w
    BY <1>0, SoundParts, NothingIn DEF Fits
  <2>. QED
    BY <1>0, <2>1, <2>2, <2>3, EntryPut DEF OnlyEnt
<1>2. CASE ~CanMknod
  <2>0. PICK X : X = s.w \cup {p}
    OBVIOUS
  <2>1. t = PutWh(s, X)
    BY <1>2, <2>0 DEF create_whiteout, PutWh
  <2>2. X \in SUBSET (Path \ {Base}) /\ X \ s.w \subseteq {p}
    BY <1>0, <2>0, SoundParts
  <2>. QED
    BY <2>1, <2>2, WhiteoutsPut
<1>. QED
  BY <1>1, <1>2

\* Clearing DirState::Dir.loaded changes nothing else.
LEMMA MarkUnloaded ==
    ASSUME NEW s \in Sound, NEW p \in DOMAIN s.m, NEW t, t = mark_unloaded(s, p)
    PROVE  /\ t \in Sound /\ Grown(s, t) /\ DOMAIN t.m = DOMAIN s.m
           /\ \A q \in DOMAIN s.m : t.m[q].wh = s.m[q].wh /\ t.m[q].last = s.m[q].last
<1>0. PICK N, D, n, o, M : /\ N = s.m /\ D = DOMAIN N /\ n = N[p]
                           /\ o = [n EXCEPT !.loaded = FALSE]
                           /\ M = [N EXCEPT ![p] = o]
  OBVIOUS
<1>1. N \in [D -> Node] /\ D \in SUBSET Path /\ p \in D
  BY <1>0, SoundParts, NodeMapFacts
<1>2. n \in Node
  BY <1>0, <1>1
<1>3. o \in Node /\ o.dir = n.dir /\ o.wh = n.wh /\ o.layer = n.layer /\ o.last = n.last
  BY <1>0, <1>2 DEF Node
<1>4. M \in [D -> Node] /\ DOMAIN M = D /\ M[p] = o /\ \A q \in D \ {p} : M[q] = N[q]
  BY <1>0, <1>1, <1>3
<1>5. M \in NodeMaps
  BY <1>1, <1>4, NodeMapMade
<1>6. \A q \in D : M[q].dir = N[q].dir /\ M[q].wh = N[q].wh /\ M[q].layer = N[q].layer
                   /\ M[q].last = N[q].last
  BY <1>0, <1>3, <1>4
<1>7. t = [s EXCEPT !.m = M]
  BY <1>0, SoundParts DEF mark_unloaded, States
<1>8. \A q \in D : N[q].wh \subseteq Kids(q) /\ (~N[q].dir => N[q].wh = {})
  BY <1>0, SoundNode DEF NodeFits
<1>9. DOMAIN s.m \subseteq DOMAIN M /\ DOMAIN M \ DOMAIN s.m = {}
  BY <1>0, <1>4
<1>10. \A q \in DOMAIN s.m :
              /\ M[q].dir = s.m[q].dir /\ M[q].layer = s.m[q].layer
              /\ M[q].wh \subseteq Kids(q)
              /\ ~M[q].dir => M[q].wh = {}
  BY <1>0, <1>6, <1>8
<1>11. t \in Sound /\ t.m = M /\ Grown(s, t)
  BY <1>5, <1>7, <1>9, <1>10, NodesGrow
<1>. QED
  BY <1>0, <1>4, <1>6, <1>11

\* The whole tree at p leaves the upper layer and the cache.
Gone(s, p) == mark_unloaded(Forgotten(Cleared(s, p), p), Parent(p))

\* What is at and under a name.
LEMMA TreePath ==
    ASSUME NEW p \in Path \ {Base}
    PROVE  /\ Tree(p) \subseteq Path /\ Under(p) \subseteq Path
           /\ p \in Tree(p) /\ p \notin Under(p)
           /\ Base \notin Tree(p) /\ Parent(p) \notin Tree(p)
           /\ \A q \in Path : q \in Tree(p) <=> q = p \/ (q # Base /\ Parent(q) = p)
           /\ \A q \in Path : q \in Under(p) <=> q # Base /\ Parent(q) = p
           /\ \A q \in Path \ {Base} : Parent(q) \in Tree(p) => q \in Tree(p)
<1>1. \A q \in Path : q \in Under(p) <=> q # Base /\ Parent(q) = p
  BY UnderPath
<1>2. Under(p) \subseteq Path
  BY DEF Under
<1>3. Parent(p) \in Path /\ Parent(p) # p /\ (Parent(p) # Base => Parent(Parent(p)) # p)
  <2>1. Parent(p) \in Path /\ Parent(p) # p /\ Len(Parent(p)) = Len(p) - 1 /\ Len(p) \in {1, 2}
    BY Parents
  <2>2. ASSUME Parent(p) # Base PROVE Parent(Parent(p)) # p
    <3>1. Len(Parent(Parent(p))) = Len(Parent(p)) - 1
      BY <2>1, <2>2, Parents
    <3>. QED
      BY <2>1, <3>1
  <2>. QED
    BY <2>1, <2>2
<1>4. ASSUME NEW q \in Path \ {Base}, Parent(q) \in Tree(p) PROVE q \in Tree(p)
  <2>1. CASE Parent(q) = p
    BY <1>1, <2>1 DEF Tree
  <2>2. CASE Parent(q) # p
    <3>1. Parent(q) \in Path /\ Parent(q) # Base /\ Parent(Parent(q)) = p
      BY <1>1, <1>2, <1>4, <2>2 DEF Tree
    <3>2. Len(p) = Len(Parent(q)) - 1 /\ Len(Parent(q)) = Len(q) - 1 /\ Len(q) \in {1, 2} /\ Len(p) \in {1, 2}
      BY <3>1, Parents
    <3>3. PICK i, j, k : i = Len(p) /\ j = Len(Parent(q)) /\ k = Len(q)
      OBVIOUS
    <3>4. i = j - 1 /\ j = k - 1 /\ k \in {1, 2} /\ i \in {1, 2}
      BY <3>2, <3>3, Zenon
    <3>. QED
      BY <3>4
  <2>. QED
    BY <2>1, <2>2
<1>. QED
  BY <1>1, <1>2, <1>3, <1>4 DEF Tree

\* hide_node and do_rm leave a sound state in which the name is free.
LEMMA GoneFacts ==
    ASSUME NEW s \in Sound, NEW p \in DOMAIN s.m, p # Base, NEW t, t = Gone(s, p)
    PROVE  /\ t \in Sound
           /\ Nameable(t, p) /\ p \notin DOMAIN t.m
           /\ t.u[p] = "none" /\ t.u[Parent(p)] = s.u[Parent(p)]
<1>. DEFINE U == [q \in Path |-> IF q \in Tree(p) THEN "none" ELSE s.u[q]]
            W == s.w \ Under(p)
            D == DOMAIN s.m \ Tree(p)
            M == [q \in D |-> s.m[q]]
            r == [u |-> U, w |-> W, m |-> M]
<1>0. /\ p \in Path \ {Base} /\ Parent(p) \in DOMAIN s.m /\ s.m[Parent(p)].dir
      /\ Parent(p) \in Path
  BY SoundNode
<1>1. /\ DOMAIN s.m \subseteq Path
      /\ \A q \in DOMAIN s.m : s.m[q] \in Node /\ NodeFits(s.u, s.w, s.m, q)
      /\ EntriesHang(s.u, s.w) /\ NodesHang(s.m) /\ TopFits(s.u, s.m)
      /\ s.u \in [Path -> UpperEnt] /\ s.w \subseteq Path \ {Base}
  BY SoundNode, SoundParts DEF Fits
<1>2. Forgotten(Cleared(s, p), p) = r
  <2>1. PICK c : c = [u |-> U, w |-> W, m |-> s.m]
    OBVIOUS
  <2>2. [s EXCEPT !.u = U, !.w = W] = [u |-> U, w |-> W, m |-> s.m]
    <3>. HIDE DEF U, W
    <3>1. s \in States
      BY SoundParts
    <3>. QED
      BY <3>1, DiskExcept
  <2>3. Cleared(s, p) = c
    BY <2>1, <2>2 DEF Cleared
  <2>4. Forgotten(c, p) = [c EXCEPT !.m = M]
    BY <2>1 DEF Forgotten
  <2>. HIDE DEF U, W, M, D
  <2>. QED
    BY <2>1, <2>3, <2>4
<1>3. U \in [Path -> UpperEnt] /\ W \in SUBSET (Path \ {Base})
  BY <1>1 DEF UpperEnt
<1>4. M \in NodeMaps /\ DOMAIN M = D
  <2>1. M \in [D -> Node] /\ D \in SUBSET Path
    BY <1>1
  <2>. HIDE DEF M, D
  <2>. QED
    BY <2>1, NodeMapMade
<1>5. /\ \A q \in Path : q \notin Tree(p) => U[q] = s.u[q]
      /\ \A q \in Path : q \in Tree(p) => U[q] = "none"
      /\ \A q \in D : M[q] = s.m[q] /\ q \in DOMAIN s.m /\ q \notin Tree(p)
      /\ \A q \in DOMAIN s.m : q \notin Tree(p) => q \in D
      /\ \A q \in Under(p) : q \notin W
  OBVIOUS
<1>. HIDE DEF U, M, D
<1>6. EntriesHang(U, W)
  <2>1. SUFFICES ASSUME NEW q \in Path \ {Base}, U[q] # "none" \/ q \in W
                 PROVE  U[Parent(q)] \in DirEnt
    BY DEF EntriesHang
  <2>2. s.u[q] # "none" \/ q \in s.w
    BY <1>5, <2>1
  <2>3. s.u[Parent(q)] \in DirEnt /\ Parent(q) \in Path
    BY <1>1, <2>2, Parents DEF EntriesHang
  <2>4. Parent(q) \notin Tree(p)
    <3>1. CASE q = p
      BY <1>0, <3>1, TreePath
    <3>2. CASE q # p
      <4>1. q \notin Under(p)
        <5>1. CASE U[q] # "none"
          BY <1>5, <5>1 DEF Tree
        <5>2. CASE q \in W
          BY <1>5, <5>2
        <5>. QED
          BY <2>1, <5>1, <5>2
      <4>. QED
        BY <1>0, <3>2, <4>1, TreePath DEF Tree
    <3>. QED
      BY <3>1, <3>2
  <2>. QED
    BY <1>5, <2>3, <2>4
<1>7. NodesHang(M)
  <2>1. SUFFICES ASSUME NEW q \in D \ {Base}
                 PROVE  Parent(q) \in D /\ M[Parent(q)].dir
    BY <1>4 DEF NodesHang
  <2>2. Parent(q) \in DOMAIN s.m /\ s.m[Parent(q)].dir /\ q \in Path
    BY <1>1, <1>5 DEF NodesHang
  <2>3. Parent(q) \notin Tree(p)
    BY <1>0, <1>5, <2>2, TreePath
  <2>. QED
    BY <1>5, <2>2, <2>3
<1>8. TopFits(U, M)
  BY <1>0, <1>1, <1>4, <1>5, TreePath DEF TopFits
<1>9. ASSUME NEW q \in D PROVE NodeFits(U, W, M, q)
  <2>0. q \in Path /\ NodeFits(s.u, s.w, s.m, q) /\ M[q] = s.m[q] /\ U[q] = s.u[q]
    BY <1>1, <1>5
  <2>1. \A c \in Kids(q) : s.u[c] = "none" /\ c \notin s.w => U[c] = "none" /\ c \notin W
    BY <1>5, <2>0, KidsPath
  <2>. QED
    BY <2>0, <2>1 DEF NodeFits
<1>10. Fits(U, W, M)
  BY <1>4, <1>6, <1>7, <1>8, <1>9 DEF Fits
<1>11. r \in Sound
  BY <1>3, <1>4, <1>10, MakeSound
<1>12. t = mark_unloaded(r, Parent(p))
  BY <1>2 DEF Gone
<1>13. Parent(p) \in DOMAIN r.m /\ r.m = M /\ r.u = U
  BY <1>0, <1>4, <1>5, TreePath
<1>. HIDE DEF r
<1>14. t \in Sound /\ Grown(r, t) /\ DOMAIN t.m = DOMAIN r.m
  BY <1>11, <1>12, <1>13, MarkUnloaded
<1>15. p \notin D /\ Parent(p) \in D /\ M[Parent(p)].dir
  BY <1>0, <1>5, TreePath
<1>16. U[p] = "none" /\ U[Parent(p)] = s.u[Parent(p)]
  BY <1>0, <1>5, TreePath
<1>. QED
  BY <1>0, <1>4, <1>13, <1>14, <1>15, <1>16 DEF Grown, Nameable

-----------------------------------------------------------------------------
(* Sequences of states. *)

\* The elements of a sequence of states are states.
LEMMA ElementIn ==
    ASSUME NEW S, NEW b \in Seq(S), NEW x \in ToSet(b)
    PROVE  x \in S
BY ElementOfSeq DEF ToSet

\* The last of a sequence of states is one.
LEMMA LastIn ==
    ASSUME NEW S, NEW b \in Seq(S), Len(b) > 0
    PROVE  Last(b) \in S
<1>1. Len(b) \in Nat
  BY LenProperties
<1>2. Len(b) \in 1 .. Len(b)
  BY <1>1
<1>. QED
  BY <1>2, ElementOfSeq DEF Last

\* One state is a sequence that ends in it.
LEMMA OneState ==
    ASSUME NEW S, NEW x \in S, NEW b, b = <<x>>
    PROVE  b \in Seq(S) /\ Len(b) > 0 /\ Last(b) = x
BY DEF Last

\* Two states are a sequence that ends in the second.
LEMMA TwoStates ==
    ASSUME NEW S, NEW x \in S, NEW y \in S, NEW b, b = <<x, y>>
    PROVE  b \in Seq(S) /\ Len(b) > 0 /\ Last(b) = y
BY DEF Last

\* A sequence with one more state ends in that.
LEMMA AppendState ==
    ASSUME NEW S, NEW a \in Seq(S), NEW x \in S, NEW b, b = Append(a, x)
    PROVE  b \in Seq(S) /\ Len(b) > 0 /\ Last(b) = x
<1>0. Len(a) \in Nat
  BY LenProperties
<1>1. b \in Seq(S) /\ Len(b) = Len(a) + 1 /\ b[Len(a) + 1] = x
  BY AppendProperties
<1>. QED
  BY <1>0, <1>1 DEF Last

\* Two sequences of states make one, with the second's end.
LEMMA JoinStates ==
    ASSUME NEW S, NEW a \in Seq(S), NEW c \in Seq(S), NEW b, b = a \o c
    PROVE  b \in Seq(S) /\ (Len(c) > 0 => Len(b) > 0 /\ Last(b) = Last(c))
<1>0. Len(a) \in Nat /\ Len(c) \in Nat
  BY LenProperties
<1>1. /\ b \in Seq(S) /\ Len(b) = Len(a) + Len(c)
      /\ \A i \in 1 .. Len(a) + Len(c) : b[i] = IF i <= Len(a) THEN a[i] ELSE c[i - Len(a)]
  BY ConcatProperties
<1>2. ASSUME Len(c) > 0 PROVE Len(b) > 0 /\ b[Len(b)] = c[Len(c)]
  <2>1. PICK i, j, k : i = Len(a) /\ j = Len(c) /\ k = Len(b)
    OBVIOUS
  <2>2. i \in Nat /\ j \in Nat /\ k = i + j /\ j > 0
    BY <1>0, <1>1, <1>2, <2>1
  <2>3. b[k] = IF k <= i THEN a[k] ELSE c[k - i]
    BY <1>1, <2>1, <2>2
  <2>4. b[k] = c[j] /\ k > 0
    BY <2>2, <2>3
  <2>. QED
    BY <2>1, <2>4
<1>. QED
  BY <1>1, <1>2 DEF Last

\* Each directory that get_node_up copies leaves a sound state, so a crash or a
\* failure between two of them finds one.
LEMMA UppingFacts ==
    ASSUME setup \in Setups, NEW s \in Sound, NEW p \in DOMAIN s.m, NEW b, b = Upping(s, p)
    PROVE  b \in Seq(Sound) /\ Len(b) > 0 /\ Last(b) = get_node_up(s, p)
<1>0. p \in Path /\ Len(p) \in 0 .. 2 /\ p \in Seq(Names \cup SubNames)
  BY SoundNode, PathLen, PathSeq
<1>1. PICK k : k = Len(p) + 1 /\ k \in Nat /\ k > 0
  BY <1>0
<1>2. ASSUME NEW n \in 1 .. k PROVE get_node_up(s, SubSeq(p, 1, n - 1)) \in Sound
  <2>1. SubSeq(p, 1, n - 1) \in Upward(p)
    <3>1. n - 1 \in 0 .. Len(p)
      BY <1>0, <1>1
    <3>. QED
      BY <3>1 DEF Upward
  <2>2. SubSeq(p, 1, n - 1) \in DOMAIN s.m
    BY <2>1, UpwardNodes
  <2>. QED
    BY <2>2, NodeUp
<1>3. b = [n \in 1 .. k |-> get_node_up(s, SubSeq(p, 1, n - 1))]
  BY <1>1 DEF Upping
<1>4. b \in [1 .. k -> Sound]
  BY <1>2, <1>3
<1>5. b \in Seq(Sound) /\ Len(b) = k
  BY <1>1, <1>4
<1>6. b[k] = get_node_up(s, p)
  <2>1. SubSeq(p, 1, Len(p)) = p
    BY <1>0, SubSeqFull
  <2>2. k - 1 = Len(p) /\ k \in 1 .. k
    BY <1>0, <1>1
  <2>3. b[k] = get_node_up(s, SubSeq(p, 1, k - 1))
    BY <1>3, <2>2
  <2>. QED
    BY <2>1, <2>2, <2>3
<1>. QED
  BY <1>1, <1>5, <1>6 DEF Last

-----------------------------------------------------------------------------
(* Handlers. *)

\* The inductive invariant: the cache and the upper layer fit each other.
Inv == setup \in Setups /\ Now \in Sound

\* A handler that ends in a sound state keeps the invariant.
LEMMA BecomeSound ==
    ASSUME setup \in Setups, NEW s \in Sound, Become(s)
    PROVE  Inv'
<1>1. s = [u |-> s.u, w |-> s.w, m |-> s.m]
  BY SoundParts
<1>2. Now' = s
  BY <1>1 DEF Become, Now
<1>. QED
  BY <1>2 DEF Become, Inv

\* The cache of a new mount.
LEMMA FreshMap ==
    ASSUME setup \in Setups, NEW M, M = Fresh
    PROVE  /\ M \in NodeMaps /\ DOMAIN M = {Base}
           /\ M[Base].dir /\ M[Base].layer = 0 /\ M[Base].wh = {} /\ ~M[Base].loaded
           /\ M[Base].last = setup.last
<1>1. PICK n : n = BaseNode
  OBVIOUS
<1>2. n = [layer |-> 0, last |-> setup.last, dir |-> TRUE, loaded |-> FALSE, wh |-> {}]
  BY <1>1 DEF BaseNode, NewNode
<1>3. n \in Node
  BY <1>2, SetupFacts DEF Node
<1>4. M = [y \in {Base} |-> n]
  BY <1>1 DEF Fresh, Put, EmptyMap
<1>5. M \in [{Base} -> Node] /\ {Base} \in SUBSET Path
  BY <1>3, <1>4 DEF Path
<1>6. M \in NodeMaps
  BY <1>5, NodeMapMade
<1>7. M[Base] = n /\ DOMAIN M = {Base}
  BY <1>4
<1>. QED
  BY <1>2, <1>6, <1>7

\* A mount of the layers of a sound state is sound: nothing in the cache is
\* needed to explain the disk.
LEMMA FreshSound ==
    ASSUME setup \in Setups, NEW s \in Sound
    PROVE  [s EXCEPT !.m = Fresh] \in Sound
<1>0. PICK U, W, M : U = s.u /\ W = s.w /\ M = Fresh
  OBVIOUS
<1>1. /\ U \in [Path -> UpperEnt] /\ W \in SUBSET (Path \ {Base})
      /\ EntriesHang(U, W) /\ U[Base] \in DirEnt
  BY <1>0, SoundParts DEF Fits, TopFits
<1>2. /\ M \in NodeMaps /\ DOMAIN M = {Base}
      /\ M[Base].dir /\ M[Base].layer = 0 /\ M[Base].wh = {}
  BY <1>0, FreshMap
<1>3. Fits(U, W, M)
  BY <1>1, <1>2 DEF Fits, TopFits, NodesHang, NodeFits
<1>4. [s EXCEPT !.m = M] = [u |-> U, w |-> W, m |-> M]
  BY <1>0, SoundParts, StateExcept
<1>5. [u |-> U, w |-> W, m |-> M] \in Sound
  BY <1>1, <1>2, <1>3, MakeSound
<1>. QED
  BY <1>0, <1>4, <1>5

\* A handler all of whose states are sound keeps the invariant, however it ends.
LEMMA ThroughSound ==
    ASSUME setup \in Setups, NEW before \in Seq(Sound), NEW after \in Seq(Sound), Len(after) > 0,
           NEW op, NEW args, Through(op, args, before, after)
    PROVE  Inv'
<1>1. CASE Done(op, args, Last(after))
  BY <1>1, LastIn, BecomeSound DEF Done
<1>2. CASE \E s \in ToSet(before) : Fail(op, args, "EIO", s)
  BY <1>2, ElementIn, BecomeSound DEF Fail
<1>3. CASE \E s \in ToSet(before \o after) : Fail(op, args, "crash", [s EXCEPT !.m = Fresh])
  <2>1. PICK b : b = before \o after
    OBVIOUS
  <2>2. b \in Seq(Sound)
    BY <2>1, JoinStates
  <2>3. PICK s \in ToSet(b) : Become([s EXCEPT !.m = Fresh])
    BY <1>3, <2>1 DEF Fail
  <2>4. [s EXCEPT !.m = Fresh] \in Sound
    BY <2>2, ElementIn, FreshSound
  <2>. QED
    BY <2>3, <2>4, BecomeSound
<1>. QED
  BY <1>1, <1>2, <1>3 DEF Through

\* The parts of the present state.
LEMMA NowParts == Now.u = u /\ Now.w = w /\ Now.m = mem
BY DEF Now

\* The kernel names entries of cached directories.
LEMMA NamedNow ==
    ASSUME NEW p \in Path, NEW op, Named(op, p)
    PROVE  Nameable(Now, p)
BY NowParts DEF Named, Nameable

\* Such a name remains one when names are found or nodes copied up.
LEMMA StillNameable ==
    ASSUME NEW s \in Sound, NEW t, NEW p, Nameable(s, p), Grown(s, t) \/ SameNodes(s, t)
    PROVE  Nameable(t, p)
BY DEF Nameable, Grown, SameNodes

\* The file at p can be made: its directory is on the upper layer.
Ready(s, p) == Nameable(s, p) /\ s.u[Parent(p)] \in DirEnt

\* What a handler finds once it has copied up the directory that p is in.
LEMMA UpIsReady ==
    ASSUME setup \in Setups, NEW s \in Sound, NEW p, Nameable(s, p), NEW b, b = Upping(s, Parent(p))
    PROVE  /\ b \in Seq(Sound) /\ Len(b) > 0
           /\ Last(b) \in Sound /\ Ready(Last(b), p) /\ SameNodes(s, Last(b))
<1>0. PICK d : d = Parent(p)
  OBVIOUS
<1>1. d \in DOMAIN s.m /\ s.m[d].dir /\ d \in Path
  BY <1>0, SoundNode DEF Nameable
<1>2. b \in Seq(Sound) /\ Len(b) > 0 /\ Last(b) = get_node_up(s, d)
  BY <1>0, <1>1, UppingFacts
<1>3. PICK t : t = Last(b)
  OBVIOUS
<1>4. t \in Sound /\ SameNodes(s, t) /\ t.m[d].layer = 0
  BY <1>1, <1>2, <1>3, NodeUp, UpwardPath
<1>5. d \in DOMAIN t.m /\ t.m[d].dir
  BY <1>1, <1>4 DEF SameNodes
<1>6. t.u[d] \in DirEnt
  BY <1>4, <1>5, SoundNode DEF NodeFits
<1>7. Nameable(t, p)
  BY <1>4, StillNameable
<1>. QED
  BY <1>0, <1>2, <1>3, <1>4, <1>6, <1>7 DEF Ready

\* The node for what a handler has made at p keeps the state sound.
LEMMA AddedSound ==
    ASSUME setup \in Setups, NEW s \in Sound, NEW p, Nameable(s, p), p \notin DOMAIN s.m,
           NEW dir \in BOOLEAN, dir => s.u[p] \in DirEnt, ~dir => NothingAt(s, p)
    PROVE  Added(s, p, dir) \in Sound
<1>1. PICK n : n = NewNode(0, 0, dir, dir)
  OBVIOUS
<1>2. n \in Node /\ n.wh = {} /\ n.dir = dir /\ n.layer = 0
  BY <1>1, SetupFacts, NewNodeFacts
<1>3. insert_child(s, p, n) \in Sound
  BY <1>2, InsertChild
<1>. QED
  BY <1>1, <1>3 DEF Added

\* Renaming a temporary over a name that has no node keeps the invariant.
LEMMA PutFileSound ==
    ASSUME setup \in Setups, NEW before \in Seq(Sound), Len(before) > 0, NEW p, NEW op,
           Ready(Last(before), p), p \notin DOMAIN Last(before).m, PutFile(op, p, before)
    PROVE  Inv'
<1>0. PICK s : s = Last(before)
  OBVIOUS
<1>1. s \in Sound /\ p \in Path \ {Base} /\ Nameable(s, p) /\ s.u[Parent(p)] \in DirEnt
      /\ p \notin DOMAIN s.m
  BY <1>0, LastIn DEF Ready, Nameable
<1>2. CASE s.u[p] \in DirEnt
  BY <1>0, <1>1, <1>2, BecomeSound DEF PutFile, Fail
<1>3. CASE s.u[p] \notin DirEnt
  <2>0. PICK x : x = "new"
    OBVIOUS
  <2>1. x \in UpperEnt /\ x # "none" /\ x \notin DirEnt /\ x # "wh"
    BY <2>0, SetupAssumption DEF UpperEnt, DirEnt
  <2>2. PICK made : made = PutEnt(s, p, x)
    OBVIOUS
  <2>3. \A c \in Kids(p) : s.u[c] = "none" /\ c \notin s.w
    BY <1>1, <1>3, SoundParts, NothingIn DEF Fits
  <2>4. made \in Sound /\ OnlyEnt(s, made, p) /\ made.u[p] = x
    BY <1>1, <2>1, <2>2, <2>3, EntryPut
  <2>5. PICK t : t = delete_whiteout(made, p)
    OBVIOUS
  <2>6. t \in Sound /\ OnlyEnt(made, t, p) /\ t.u[p] = x
    BY <1>1, <2>1, <2>4, <2>5, DeleteWhiteout
  <2>7. Nameable(t, p) /\ p \notin DOMAIN t.m /\ NothingAt(t, p)
    BY <1>1, <2>1, <2>4, <2>6 DEF Nameable, OnlyEnt, NothingAt
  <2>8. PICK no \in BOOLEAN : no = FALSE
    OBVIOUS
  <2>9. PICK r : r = Added(t, p, no)
    OBVIOUS
  <2>10. r \in Sound
    BY <2>6, <2>7, <2>8, <2>9, AddedSound
  <2>11. PICK after : after = <<made, r>>
    OBVIOUS
  <2>12. after \in Seq(Sound) /\ Len(after) > 0
    BY <2>4, <2>10, <2>11, TwoStates
  <2>13. Through(op, <<p>>, before, after)
    BY <1>0, <1>3, <2>0, <2>2, <2>5, <2>8, <2>9, <2>11 DEF PutFile, PutEnt
  <2>. QED
    BY <2>12, <2>13, ThroughSound
<1>. QED
  BY <1>2, <1>3

\* Opening with O_CREAT a name that has no node keeps the invariant.
LEMMA OpenFileSound ==
    ASSUME setup \in Setups, NEW before \in Seq(Sound), Len(before) > 0, NEW p, NEW op,
           Ready(Last(before), p), p \notin DOMAIN Last(before).m, OpenFile(op, p, before)
    PROVE  Inv'
<1>0. PICK s : s = Last(before)
  OBVIOUS
<1>1. s \in Sound /\ p \in Path \ {Base} /\ Nameable(s, p) /\ s.u[Parent(p)] \in DirEnt
      /\ p \notin DOMAIN s.m
  BY <1>0, LastIn DEF Ready, Nameable
<1>2. CASE s.u[p] = "wh" \/ s.u[p] \in DirEnt
  <2>1. "wh" \notin DirEnt
    BY DEF DirEnt
  <2>2. \E e : Fail(op, <<p>>, e, s)
    BY <1>0, <1>2, <2>1 DEF OpenFile
  <2>. QED
    BY <1>1, <2>2, BecomeSound DEF Fail
<1>3. CASE s.u[p] # "wh" /\ s.u[p] \notin DirEnt
  <2>0. PICK x : x = IF s.u[p] = "none" THEN "new" ELSE s.u[p]
    OBVIOUS
  <2>1. x \in UpperEnt /\ x # "none" /\ x \notin DirEnt
    <3>1. s.u[p] \in UpperEnt
      BY <1>1, SoundParts
    <3>2. "new" \in UpperEnt /\ "new" \notin DirEnt
      BY SetupAssumption DEF UpperEnt, DirEnt
    <3>. QED
      BY <1>3, <2>0, <3>1, <3>2
  <2>2. PICK t : t = PutEnt(s, p, x)
    OBVIOUS
  <2>3. \A c \in Kids(p) : s.u[c] = "none" /\ c \notin s.w
    BY <1>1, <1>3, SoundParts, NothingIn DEF Fits
  <2>4. t \in Sound /\ OnlyEnt(s, t, p) /\ t.u[p] = x
    BY <1>1, <2>1, <2>2, <2>3, EntryPut
  <2>5. Nameable(t, p) /\ p \notin DOMAIN t.m /\ NothingAt(t, p)
    BY <1>1, <2>1, <2>4 DEF Nameable, OnlyEnt, NothingAt
  <2>6. PICK no \in BOOLEAN : no = FALSE
    OBVIOUS
  <2>7. PICK r : r = Added(t, p, no)
    OBVIOUS
  <2>8. r \in Sound
    BY <2>4, <2>5, <2>6, <2>7, AddedSound
  <2>9. PICK after : after = <<r>>
    OBVIOUS
  <2>10. after \in Seq(Sound) /\ Len(after) > 0
    BY <2>8, <2>9, OneState
  <2>11. Through(op, <<p>>, before, after)
    BY <1>0, <1>3, <2>0, <2>2, <2>6, <2>7, <2>9 DEF OpenFile, PutEnt
  <2>. QED
    BY <2>10, <2>11, ThroughSound
<1>. QED
  BY <1>2, <1>3

\* lookup keeps the invariant.
LEMMA LookupStep ==
    ASSUME Inv, NEW p \in Path, LookupFast(p) \/ LookupSlow(p)
    PROVE  Inv'
<1>0. setup \in Setups /\ Now \in Sound
  BY DEF Inv
<1>1. CASE LookupFast(p)
  BY <1>0, <1>1, BecomeSound DEF LookupFast
<1>2. CASE LookupSlow(p)
  <2>1. PICK s1 : s1 = do_lookup_file(Now, p)
    OBVIOUS
  <2>2. s1 \in Sound
    BY <1>0, <1>2, <2>1, NamedNow, LookupFile DEF LookupSlow
  <2>3. CASE p \notin DOMAIN s1.m
    BY <1>0, <1>2, <2>1, <2>2, <2>3, BecomeSound DEF LookupSlow, Fail
  <2>4. CASE p \in DOMAIN s1.m
    <3>1. PICK s2 : s2 = IF s1.m[p].dir THEN reload_dir(s1, p) ELSE s1
      OBVIOUS
    <3>2. s2 \in Sound
      BY <1>0, <2>2, <2>4, <3>1, ReloadDir
    <3>3. Become(s2)
      BY <1>2, <2>1, <2>4, <3>1 DEF LookupSlow
    <3>. QED
      BY <1>0, <3>2, <3>3, BecomeSound
  <2>. QED
    BY <2>3, <2>4
<1>. QED
  BY <1>1, <1>2

\* opendir keeps the invariant.
LEMMA OpendirStep ==
    ASSUME Inv, NEW p \in Path, Opendir(p)
    PROVE  Inv'
<1>0. setup \in Setups /\ Now \in Sound
  BY DEF Inv
<1>1. p \in DOMAIN Now.m /\ Now.m[p].dir
  BY NowParts DEF Opendir, Held
<1>2. PICK s : s = reload_dir(Now, p)
  OBVIOUS
<1>3. s \in Sound
  BY <1>0, <1>1, <1>2, ReloadDir
<1>. QED
  BY <1>0, <1>2, <1>3, BecomeSound DEF Opendir

\* create keeps the invariant.
LEMMA CreateStep ==
    ASSUME Inv, NEW p \in Path, Create(p)
    PROVE  Inv'
<1>0. setup \in Setups /\ Now \in Sound /\ Nameable(Now, p)
  BY NamedNow DEF Inv, Create
<1>1. PICK s1 : s1 = do_lookup_file(Now, p)
  OBVIOUS
<1>2. s1 \in Sound /\ Nameable(s1, p)
  BY <1>0, <1>1, LookupFile, StillNameable
<1>3. CASE p \in DOMAIN s1.m
  BY <1>0, <1>1, <1>2, <1>3, BecomeSound DEF Create, Fail
<1>4. CASE p \notin DOMAIN s1.m
  <2>1. PICK before : before = Upping(s1, Parent(p))
    OBVIOUS
  <2>2. before \in Seq(Sound) /\ Len(before) > 0 /\ Ready(Last(before), p)
        /\ SameNodes(s1, Last(before))
    BY <1>0, <1>2, <2>1, UpIsReady
  <2>3. p \notin DOMAIN Last(before).m
    BY <1>4, <2>2 DEF SameNodes
  <2>4. PutFile("create", p, before) \/ OpenFile("create", p, before)
    BY <1>1, <1>4, <2>1 DEF Create
  <2>. QED
    BY <1>0, <2>2, <2>3, <2>4, PutFileSound, OpenFileSound
<1>. QED
  BY <1>3, <1>4

\* mknod and symlink keep the invariant.
LEMMA MakeAsideStep ==
    ASSUME Inv, NEW p \in Path, NEW op, MakeAside(op, p)
    PROVE  Inv'
<1>0. setup \in Setups /\ Now \in Sound /\ Nameable(Now, p)
  BY NamedNow DEF Inv, MakeAside
<1>1. PICK s1 : s1 = do_lookup_file(Now, p)
  OBVIOUS
<1>2. s1 \in Sound /\ Nameable(s1, p)
  BY <1>0, <1>1, LookupFile, StillNameable
<1>3. CASE p \in DOMAIN s1.m
  BY <1>0, <1>1, <1>2, <1>3, BecomeSound DEF MakeAside, Fail
<1>4. CASE p \notin DOMAIN s1.m
  <2>1. PICK before : before = Upping(s1, Parent(p))
    OBVIOUS
  <2>2. before \in Seq(Sound) /\ Len(before) > 0 /\ Ready(Last(before), p)
        /\ SameNodes(s1, Last(before))
    BY <1>0, <1>2, <2>1, UpIsReady
  <2>3. p \notin DOMAIN Last(before).m
    BY <1>4, <2>2 DEF SameNodes
  <2>4. PutFile(op, p, before)
    BY <1>1, <1>4, <2>1 DEF MakeAside
  <2>. QED
    BY <1>0, <2>2, <2>3, <2>4, PutFileSound
<1>. QED
  BY <1>3, <1>4

\* mkdir keeps the invariant, also when it stops between its two renames.
LEMMA MkdirStep ==
    ASSUME Inv, NEW p \in Path, Mkdir(p)
    PROVE  Inv'
<1>0. setup \in Setups /\ Now \in Sound /\ Nameable(Now, p)
  BY NamedNow DEF Inv, Mkdir
<1>1. PICK s1 : s1 = do_lookup_file(Now, p)
  OBVIOUS
<1>2. s1 \in Sound /\ Nameable(s1, p) /\ p \in Path \ {Base}
  BY <1>0, <1>1, LookupFile, StillNameable DEF Nameable
<1>3. CASE p \in DOMAIN s1.m
  BY <1>0, <1>1, <1>2, <1>3, BecomeSound DEF Mkdir, Fail
<1>4. CASE p \notin DOMAIN s1.m
  <2>1. PICK ups : ups = Upping(s1, Parent(p))
    OBVIOUS
  <2>2. PICK s2 : s2 = Last(ups)
    OBVIOUS
  <2>3. /\ ups \in Seq(Sound) /\ Len(ups) > 0
        /\ s2 \in Sound /\ Ready(s2, p) /\ SameNodes(s1, s2)
    BY <1>0, <1>2, <2>1, <2>2, UpIsReady
  <2>4. p \notin DOMAIN s2.m /\ Nameable(s2, p) /\ s2.u[Parent(p)] \in DirEnt
    BY <1>4, <2>3 DEF SameNodes, Ready
  <2>5. CASE s2.u[p] \in DirEnt /\ ~EmptyOnDisk(s2, p)
    <3>1. Fail("mkdir", <<p>>, "ENOTEMPTY", s2)
      BY <1>1, <1>4, <2>1, <2>2, <2>5 DEF Mkdir
    <3>. QED
      BY <1>0, <2>3, <3>1, BecomeSound DEF Fail
  <2>6. CASE ~(s2.u[p] \in DirEnt /\ ~EmptyOnDisk(s2, p))
    <3>1. PICK x : x = IF s2.u[p] \in DirEnt THEN s2.u[p] ELSE "none"
      OBVIOUS
    <3>2. PICK y : y = IF s2.m[Parent(p)].last > 0 THEN "opq" ELSE "dir"
      OBVIOUS
    <3>3. x \in UpperEnt /\ (x # "none" => x \in DirEnt) /\ (x \notin DirEnt => s2.u[p] \notin DirEnt)
      BY <3>1 DEF UpperEnt
    <3>4. y \in DirEnt /\ y \in UpperEnt /\ y # "none" /\ y # "wh"
      BY <3>2 DEF UpperEnt, DirEnt
    <3>5. PICK free, made : free = PutEnt(s2, p, x) /\ made = PutEnt(s2, p, y)
      OBVIOUS
    <3>6. x \in DirEnt \/ \A c \in Kids(p) : s2.u[c] = "none" /\ c \notin s2.w
      BY <1>2, <2>3, <3>3, SoundParts, NothingIn DEF Fits
    <3>7. free \in Sound
      BY <1>2, <2>3, <2>4, <3>3, <3>5, <3>6, EntryPut
    <3>8. made \in Sound /\ OnlyEnt(s2, made, p) /\ made.u[p] = y
      BY <1>2, <2>3, <2>4, <3>4, <3>5, EntryPut
    <3>9. PICK t : t = delete_whiteout(made, p)
      OBVIOUS
    <3>10. t \in Sound /\ OnlyEnt(made, t, p) /\ t.u[p] = y
      BY <1>2, <3>4, <3>8, <3>9, DeleteWhiteout
    <3>11. Nameable(t, p) /\ p \notin DOMAIN t.m
      BY <2>4, <3>8, <3>10 DEF Nameable, OnlyEnt
    <3>12. PICK yes \in BOOLEAN : yes = TRUE
      OBVIOUS
    <3>13. PICK r : r = Added(t, p, yes)
      OBVIOUS
    <3>14. r \in Sound
      BY <1>0, <3>4, <3>10, <3>11, <3>12, <3>13, AddedSound
    <3>15. PICK before, after : before = Append(ups, free) /\ after = <<made, r>>
      OBVIOUS
    <3>16. before \in Seq(Sound) /\ after \in Seq(Sound) /\ Len(after) > 0
      BY <2>3, <3>7, <3>8, <3>14, <3>15, AppendState, TwoStates
    <3>17. Through("mkdir", <<p>>, before, after)
      <4>1. free = [s2 EXCEPT !.u[p] = IF @ \in DirEnt THEN @ ELSE "none"]
        BY <3>1, <3>5 DEF PutEnt
      <4>2. made = [s2 EXCEPT !.u[p] = IF s2.m[Parent(p)].last > 0 THEN "opq" ELSE "dir"]
        BY <3>2, <3>5 DEF PutEnt
      <4>3. Through("mkdir", <<p>>, Append(ups, free),
                        <<made, Added(delete_whiteout(made, p), p, TRUE)>>)
        BY <1>1, <1>4, <2>1, <2>2, <2>6, <4>1, <4>2 DEF Mkdir
      <4>. QED
        BY <3>9, <3>12, <3>13, <3>15, <4>3
    <3>. QED
      BY <1>0, <3>16, <3>17, ThroughSound
  <2>. QED
    BY <2>5, <2>6
<1>. QED
  BY <1>3, <1>4

\* link keeps the invariant, also when it stops after it removed the whiteout.
LEMMA LinkStep ==
    ASSUME Inv, NEW p \in Path, NEW q \in Path, Link(p, q)
    PROVE  Inv'
<1>0. setup \in Setups /\ Now \in Sound /\ Nameable(Now, q) /\ p \in DOMAIN Now.m
      /\ q \in Path \ {Base}
  BY NamedNow, NowParts DEF Inv, Link, Held, Nameable
<1>1. PICK s0 : s0 = get_node_up(Now, p)
  OBVIOUS
<1>2. s0 \in Sound /\ Nameable(s0, q)
  BY <1>0, <1>1, NodeUp, StillNameable
<1>3. PICK s1 : s1 = do_lookup_file(s0, q)
  OBVIOUS
<1>4. s1 \in Sound /\ Nameable(s1, q)
  BY <1>0, <1>2, <1>3, LookupFile, StillNameable
<1>5. PICK b, c, ups : b = Upping(Now, p) /\ c = Upping(s1, Parent(q)) /\ ups = b \o c
  OBVIOUS
<1>6. PICK l : l = Last(ups)
  OBVIOUS
<1>7. b \in Seq(Sound)
  BY <1>0, <1>5, UppingFacts
<1>8. /\ c \in Seq(Sound) /\ Len(c) > 0
      /\ Last(c) \in Sound /\ Ready(Last(c), q) /\ SameNodes(s1, Last(c))
  BY <1>0, <1>4, <1>5, UpIsReady
<1>9. ups \in Seq(Sound) /\ l = Last(c)
  <2>1. b \in Seq(Sound) /\ c \in Seq(Sound) /\ Len(c) > 0 /\ ups = b \o c
    BY <1>5, <1>7, <1>8
  <2>2. ups \in Seq(Sound) /\ Last(ups) = Last(c)
    BY <2>1, JoinStates
  <2>. QED
    BY <1>6, <2>2
<1>10. l \in Sound /\ Nameable(l, q) /\ l.u[Parent(q)] \in DirEnt /\ SameNodes(s1, l)
  BY <1>8, <1>9 DEF Ready
<1>11. PICK free : free = delete_whiteout(l, q)
  OBVIOUS
<1>12. free \in Sound /\ OnlyEnt(l, free, q)
  BY <1>0, <1>10, <1>11, DeleteWhiteout
<1>13. CASE q \in DOMAIN s1.m \/ free.u[q] # "none"
  <2>1. Become(s1) \/ Become(free)
    BY <1>1, <1>3, <1>5, <1>6, <1>11, <1>13 DEF Link, Fail
  <2>. QED
    BY <1>0, <1>4, <1>12, <2>1, BecomeSound
<1>14. CASE ~(q \in DOMAIN s1.m \/ free.u[q] # "none")
  <2>1. PICK x, made : x = free.u[p] /\ made = PutEnt(free, q, x)
    OBVIOUS
  <2>2. x \in UpperEnt
    BY <1>12, <2>1, SoundParts
  <2>3. q \notin DOMAIN free.m /\ Nameable(free, q) /\ free.u[Parent(q)] \in DirEnt
    BY <1>0, <1>10, <1>12, <1>14, Parents DEF OnlyEnt, SameNodes, Nameable
  <2>4. \A k \in Kids(q) : free.u[k] = "none" /\ k \notin free.w
    <3>1. free.u[q] \notin DirEnt
      BY <1>14 DEF DirEnt
    <3>. QED
      BY <1>0, <1>12, <3>1, SoundParts, NothingIn DEF Fits
  <2>5. made \in Sound /\ OnlyEnt(free, made, q) /\ made.w = free.w
    BY <1>0, <1>12, <2>1, <2>2, <2>3, <2>4, EntryPut
  <2>6. Nameable(made, q) /\ q \notin DOMAIN made.m
    BY <2>3, <2>5 DEF Nameable, OnlyEnt
  <2>7. NothingAt(made, q)
    BY <1>0, <2>4, <2>5, KidsPath, Parents DEF NothingAt, OnlyEnt
  <2>8. PICK no \in BOOLEAN : no = FALSE
    OBVIOUS
  <2>9. PICK r : r = Added(made, q, no)
    OBVIOUS
  <2>10. r \in Sound
    BY <1>0, <2>5, <2>6, <2>7, <2>8, <2>9, AddedSound
  <2>11. PICK before, after : before = Append(ups, free) /\ after = <<made, r>>
    OBVIOUS
  <2>12. before \in Seq(Sound) /\ after \in Seq(Sound) /\ Len(after) > 0
    BY <1>9, <1>12, <2>5, <2>10, <2>11, AppendState, TwoStates
  <2>13. Through("link", <<p, q>>, before, after)
    <3>1. made = [free EXCEPT !.u[q] = free.u[p]]
      BY <2>1 DEF PutEnt
    <3>2. Through("link", <<p, q>>, Append(ups, free), <<made, Added(made, q, FALSE)>>)
      BY <1>1, <1>3, <1>5, <1>6, <1>11, <1>14, <3>1 DEF Link
    <3>. QED
      BY <2>8, <2>9, <2>11, <3>2
  <2>. QED
    BY <1>0, <2>12, <2>13, ThroughSound
<1>. QED
  BY <1>13, <1>14

\* What a handler finds once it has copied up p itself.
LEMMA UpSelf ==
    ASSUME setup \in Setups, NEW s \in Sound, NEW p \in DOMAIN s.m, NEW b, b = Upping(s, p),
           NEW t, t = Last(b)
    PROVE  /\ b \in Seq(Sound) /\ Len(b) > 0 /\ t = get_node_up(s, p)
           /\ t \in Sound /\ SameNodes(s, t) /\ p \in DOMAIN t.m /\ t.m[p].layer = 0
           /\ p # Base => Ready(t, p)
<1>0. p \in Path /\ (p # Base => Nameable(s, p))
  BY SoundNode DEF Nameable
<1>1. b \in Seq(Sound) /\ Len(b) > 0 /\ t = get_node_up(s, p)
  BY UppingFacts
<1>2. /\ t \in Sound /\ SameNodes(s, t) /\ p \in DOMAIN t.m
      /\ \A q \in Upward(p) : t.m[q].layer = 0
  BY <1>1, NodeUp DEF SameNodes
<1>3. ASSUME p # Base PROVE Ready(t, p)
  <2>1. Nameable(t, p)
    BY <1>0, <1>2, <1>3, StillNameable
  <2>2. PICK d : d = Parent(p)
    OBVIOUS
  <2>3. d \in DOMAIN t.m /\ t.m[d].dir /\ t.m[d].layer = 0
    BY <1>0, <1>2, <1>3, <2>1, <2>2, UpwardPath DEF Nameable
  <2>4. t.u[d] \in DirEnt
    BY <1>2, <2>3, SoundNode DEF NodeFits
  <2>. QED
    BY <2>1, <2>2, <2>4 DEF Ready
<1>. QED
  BY <1>0, <1>1, <1>2, <1>3, UpwardPath

\* hide_node keeps the invariant on each of its three ways.
LEMMA HideNode ==
    ASSUME setup \in Setups, NEW before \in Seq(Sound), Len(before) > 0, NEW p, NEW op,
           p \in DOMAIN Last(before).m, Ready(Last(before), p), hide_node(op, p, before)
    PROVE  Inv'
<1>0. PICK s : s = Last(before)
  OBVIOUS
<1>1. s \in Sound /\ p \in DOMAIN s.m /\ Ready(s, p) /\ p \in Path \ {Base} /\ Nameable(s, p)
  BY <1>0, LastIn DEF Ready, Nameable
<1>2. PICK g : g = Gone(s, p)
  OBVIOUS
<1>3. g \in Sound /\ Nameable(g, p) /\ p \notin DOMAIN g.m /\ g.u[p] \notin DirEnt
      /\ g.u[Parent(p)] \in DirEnt
  <2>1. /\ g \in Sound /\ Nameable(g, p) /\ p \notin DOMAIN g.m /\ g.u[p] = "none"
        /\ g.u[Parent(p)] = s.u[Parent(p)]
    BY <1>1, <1>2, GoneFacts
  <2>. QED
    BY <1>1, <2>1 DEF Ready, DirEnt
<1>4. CASE ~NeedsWhiteout(s, p)
  <2>1. PICK after : after = <<g>>
    OBVIOUS
  <2>2. after \in Seq(Sound) /\ Len(after) > 0
    BY <1>3, <2>1, OneState
  <2>3. Through(op, <<p>>, before, after)
    BY <1>0, <1>2, <1>4, <2>1 DEF hide_node, Gone
  <2>. QED
    BY <2>2, <2>3, ThroughSound
<1>5. CASE NeedsWhiteout(s, p) /\ ~CanMknod
  <2>1. PICK X : X = s.w \cup {p}
    OBVIOUS
  <2>2. PICK marked : marked = PutWh(s, X)
    OBVIOUS
  <2>3. X \in SUBSET (Path \ {Base}) /\ \A q \in X \ s.w : Nameable(s, q) /\ s.u[Parent(q)] \in DirEnt
    BY <1>1, <2>1, SoundParts DEF Ready
  <2>4. marked \in Sound /\ marked.m = s.m
    BY <1>1, <2>2, <2>3, WhiteoutsPut
  <2>5. PICK r : r = Gone(marked, p)
    OBVIOUS
  <2>6. r \in Sound
    BY <1>1, <2>4, <2>5, GoneFacts
  <2>7. PICK more, after : more = Append(before, marked) /\ after = <<r>>
    OBVIOUS
  <2>8. more \in Seq(Sound) /\ after \in Seq(Sound) /\ Len(after) > 0
    BY <2>4, <2>6, <2>7, AppendState, OneState
  <2>9. Through(op, <<p>>, more, after)
    BY <1>0, <1>5, <2>1, <2>2, <2>5, <2>7 DEF hide_node, Gone, PutWh
  <2>. QED
    BY <2>8, <2>9, ThroughSound
<1>6. CASE NeedsWhiteout(s, p) /\ CanMknod /\ setup.rename_whiteout
  <2>1. PICK r : r = create_whiteout(g, p)
    OBVIOUS
  <2>2. r \in Sound
    BY <1>3, <2>1, CreateWhiteout
  <2>3. PICK after : after = <<r>>
    OBVIOUS
  <2>4. after \in Seq(Sound) /\ Len(after) > 0
    BY <2>2, <2>3, OneState
  <2>5. Through(op, <<p>>, before, after)
    BY <1>0, <1>2, <1>6, <2>1, <2>3 DEF hide_node, Gone
  <2>. QED
    BY <2>4, <2>5, ThroughSound
<1>7. CASE NeedsWhiteout(s, p) /\ CanMknod /\ ~setup.rename_whiteout
  <2>1. Fail(op, <<p>>, "EEXIST", s)
    BY <1>0, <1>7 DEF hide_node
  <2>. QED
    BY <1>1, <2>1, BecomeSound DEF Fail
<1>. QED
  BY <1>4, <1>5, <1>6, <1>7

\* unlink and rmdir keep the invariant.
LEMMA RmStep ==
    ASSUME Inv, NEW p \in Path, NEW op, NEW isdir \in BOOLEAN, do_rm(op, p, isdir)
    PROVE  Inv'
<1>0. setup \in Setups /\ Now \in Sound /\ Nameable(Now, p)
  BY NamedNow DEF Inv, do_rm
<1>1. PICK s1 : s1 = do_lookup_file(Now, p)
  OBVIOUS
<1>2. s1 \in Sound /\ p # Base
  BY <1>0, <1>1, LookupFile DEF Nameable
<1>3. CASE p \notin DOMAIN s1.m
  BY <1>0, <1>1, <1>2, <1>3, BecomeSound DEF do_rm, Fail
<1>4. CASE p \in DOMAIN s1.m
  <2>1. PICK s2 : s2 = IF isdir THEN reload_dir(s1, p) ELSE s1
    OBVIOUS
  <2>2. s1.m[p].dir = isdir
    BY <1>1, <1>4 DEF do_rm
  <2>3. s2 \in Sound /\ p \in DOMAIN s2.m
    BY <1>0, <1>2, <1>4, <2>1, <2>2, ReloadDir DEF Grown
  <2>4. CASE isdir /\ Children(s2, p) # {}
    <3>1. Fail(op, <<p>>, "ENOTEMPTY", s2)
      BY <1>1, <1>4, <2>1, <2>4 DEF do_rm
    <3>. QED
      BY <1>0, <2>3, <3>1, BecomeSound DEF Fail
  <2>5. CASE ~(isdir /\ Children(s2, p) # {})
    <3>1. PICK b : b = Upping(s2, p)
      OBVIOUS
    <3>2. hide_node(op, p, b)
      BY <1>1, <1>4, <2>1, <2>5, <3>1 DEF do_rm
    <3>3. b \in Seq(Sound) /\ Len(b) > 0 /\ p \in DOMAIN Last(b).m /\ Ready(Last(b), p)
      BY <1>0, <1>2, <2>3, <3>1, UpSelf
    <3>. QED
      BY <1>0, <3>2, <3>3, HideNode
  <2>. QED
    BY <2>4, <2>5
<1>. QED
  BY <1>3, <1>4

\* Writing to a file keeps the invariant.
LEMMA WriteStep ==
    ASSUME Inv, NEW p \in Path, Write(p)
    PROVE  Inv'
<1>0. setup \in Setups /\ Now \in Sound /\ p \in DOMAIN Now.m /\ ~Now.m[p].dir
  BY NowParts DEF Inv, Write, Held
<1>1. p # Base
  BY <1>0, SoundParts DEF Fits, TopFits
<1>2. PICK b, t : b = Upping(Now, p) /\ t = Last(b)
  OBVIOUS
<1>3. /\ b \in Seq(Sound) /\ t = get_node_up(Now, p)
      /\ t \in Sound /\ SameNodes(Now, t) /\ p \in DOMAIN t.m /\ Ready(t, p)
  BY <1>0, <1>1, <1>2, UpSelf
<1>4. PICK x : x = "new"
  OBVIOUS
<1>5. x \in UpperEnt /\ x # "none"
  BY <1>4, SetupAssumption DEF UpperEnt
<1>6. ~t.m[p].dir
  BY <1>0, <1>3 DEF SameNodes
<1>7. \A c \in Kids(p) : t.u[c] = "none" /\ c \notin t.w
  BY <1>3, <1>6, SoundNode DEF NodeFits
<1>8. PICK r : r = PutEnt(t, p, x)
  OBVIOUS
<1>9. Nameable(t, p) /\ t.u[Parent(p)] \in DirEnt /\ p \in Path \ {Base}
  BY <1>1, <1>3 DEF Ready
<1>10. r \in Sound
  BY <1>3, <1>5, <1>6, <1>7, <1>8, <1>9, EntryPut
<1>11. PICK after : after = <<r>>
  OBVIOUS
<1>12. after \in Seq(Sound) /\ Len(after) > 0
  BY <1>10, <1>11, OneState
<1>13. Through("write", <<p>>, b, after)
  BY <1>2, <1>3, <1>4, <1>8, <1>11 DEF Write, PutEnt
<1>. QED
  BY <1>0, <1>3, <1>12, <1>13, ThroughSound

\* setattr, setxattr and removexattr keep the invariant.
LEMMA SetattrStep ==
    ASSUME Inv, NEW p \in Path, Setattr(p)
    PROVE  Inv'
<1>0. setup \in Setups /\ Now \in Sound /\ p \in DOMAIN Now.m
  BY NowParts DEF Inv, Setattr, Held
<1>1. PICK b, t : b = Upping(Now, p) /\ t = Last(b)
  OBVIOUS
<1>2. b \in Seq(Sound) /\ t = get_node_up(Now, p) /\ t \in Sound
  BY <1>0, <1>1, UpSelf
<1>3. PICK after : after = <<t>>
  OBVIOUS
<1>4. after \in Seq(Sound) /\ Len(after) > 0
  BY <1>2, <1>3, OneState
<1>5. Through("setattr", <<p>>, b, after)
  BY <1>1, <1>2, <1>3 DEF Setattr
<1>. QED
  BY <1>0, <1>2, <1>4, <1>5, ThroughSound

\* Nodes are forgotten with all that hangs under them, and whiteouts too.
LEMMA NodesDrop ==
    ASSUME NEW s \in Sound, NEW M \in NodeMaps, DOMAIN M \subseteq DOMAIN s.m, Base \in DOMAIN M,
           \A q \in DOMAIN M \ {Base} : Parent(q) \in DOMAIN M,
           \A q \in DOMAIN M :
              /\ M[q].dir = s.m[q].dir /\ M[q].layer = s.m[q].layer
              /\ M[q].wh \subseteq s.m[q].wh,
           NEW t, t = [s EXCEPT !.m = M]
    PROVE  t \in Sound /\ t.m = M /\ t.u = s.u /\ t.w = s.w
<1>0. PICK U, W, N : U = s.u /\ W = s.w /\ N = s.m
  OBVIOUS
<1>1. /\ U \in [Path -> UpperEnt] /\ W \in SUBSET (Path \ {Base}) /\ N \in NodeMaps
      /\ NodesHang(N) /\ EntriesHang(U, W) /\ TopFits(U, N)
      /\ \A p \in DOMAIN N : NodeFits(U, W, N, p)
  BY <1>0, SoundParts DEF Fits
<1>2. NodesHang(M)
  BY <1>0, <1>1 DEF NodesHang
<1>3. TopFits(U, M)
  BY <1>0, <1>1 DEF TopFits
<1>4. ASSUME NEW p \in DOMAIN M PROVE NodeFits(U, W, M, p)
  <2>1. p \in DOMAIN N /\ NodeFits(U, W, N, p)
    BY <1>0, <1>1
  <2>2. M[p].dir = N[p].dir /\ M[p].layer = N[p].layer /\ M[p].wh \subseteq N[p].wh
    BY <1>0
  <2>. QED
    BY <2>1, <2>2 DEF NodeFits
<1>5. Fits(U, W, M)
  BY <1>1, <1>2, <1>3, <1>4 DEF Fits
<1>6. t = [u |-> U, w |-> W, m |-> M]
  BY <1>0, SoundParts, StateExcept
<1>7. [u |-> U, w |-> W, m |-> M] \in Sound
  BY <1>1, <1>5, MakeSound
<1>. QED
  BY <1>0, <1>6, <1>7

\* FUSE_OVFS_IOC_REFRESH_DIR keeps the invariant: the nodes it forgets are all
\* that is under the directory.
LEMMA RefreshStep ==
    ASSUME Inv, NEW p \in Path, Refresh(p)
    PROVE  Inv'
<1>0. setup \in Setups /\ Now \in Sound /\ p \in DOMAIN mem /\ mem[p].dir
  BY DEF Inv, Refresh, Held
<1>1. PICK s0, N : s0 = Now /\ N = mem
  OBVIOUS
<1>2. s0 \in Sound /\ s0.m = N /\ p \in DOMAIN N /\ N[p].dir
  BY <1>0, <1>1, NowParts
<1>3. PICK n : n = [N[p] EXCEPT !.wh = {}]
  OBVIOUS
<1>4. N \in NodeMaps /\ N[p] \in Node
  BY <1>2, SoundParts, SoundNode
<1>5. n \in Node /\ n.dir = N[p].dir /\ n.layer = N[p].layer /\ n.wh = {}
  <2>1. PICK o, X : o = N[p] /\ X = {}
    OBVIOUS
  <2>2. o \in Node /\ X \in SUBSET Path /\ n = [o EXCEPT !.wh = X]
    BY <1>3, <1>4, <2>1
  <2>. QED
    BY <2>1, <2>2, NodeFields
<1>6. PICK D, M : D = DOMAIN N \ Under(p) /\ M = [q \in D |-> IF q = p THEN n ELSE N[q]]
  OBVIOUS
<1>7. D \in SUBSET Path /\ M \in [D -> Node] /\ D \subseteq DOMAIN N /\ DOMAIN M = D
  BY <1>4, <1>5, <1>6, NodeMapFacts
<1>8. M \in NodeMaps
  BY <1>7, NodeMapMade
<1>9. p \in D /\ Base \in D /\ (\A q \in D \ {Base} : Parent(q) \in D)
  <2>1. Base \in Path /\ p \notin Under(p) /\ Base \notin Under(p)
    <3>1. Base \in Path
      BY DEF Path
    <3>. QED
      BY <3>1, UnderPath, Parents
  <2>2. Base \in DOMAIN N
    BY <1>2, SoundParts DEF Fits, TopFits
  <2>3. ASSUME NEW q \in D \ {Base} PROVE Parent(q) \in D
    <3>1. q \in DOMAIN N /\ q \in Path /\ q # Base /\ q \notin Under(p)
      BY <1>6, <1>7
    <3>2. Parent(q) \in DOMAIN N /\ Parent(q) \in Path
      BY <1>2, <3>1, SoundNode, Parents
    <3>3. Parent(q) \notin Under(p)
      <4>1. CASE p = Base
        BY <3>1, <4>1, UnderPath
      <4>2. CASE p # Base
        <5>1. ASSUME Parent(q) \in Under(p) PROVE FALSE
          <6>1. Parent(q) # Base /\ Parent(Parent(q)) = p
            BY <3>2, <4>2, <5>1, UnderPath
          <6>2. Parent(p) \in Path /\ Len(p) \in {1, 2}
                /\ Len(Parent(q)) = Len(q) - 1 /\ Len(p) = Len(Parent(q)) - 1 /\ Len(q) \in {1, 2}
            BY <3>1, <3>2, <4>2, <6>1, Parents
          <6>3. PICK i, j, k : i = Len(q) /\ j = Len(Parent(q)) /\ k = Len(p)
            OBVIOUS
          <6>4. i \in {1, 2} /\ k \in {1, 2} /\ j = i - 1 /\ k = j - 1
            BY <6>2, <6>3
          <6>. QED
            BY <6>4
        <5>. QED
          BY <5>1
      <4>. QED
        BY <4>1, <4>2
    <3>. QED
      BY <1>6, <3>2, <3>3
  <2>. QED
    BY <1>2, <1>6, <2>1, <2>2, <2>3
<1>10. \A q \in DOMAIN M : /\ M[q].dir = N[q].dir /\ M[q].layer = N[q].layer
                           /\ M[q].wh \subseteq N[q].wh
  BY <1>5, <1>6, <1>7
<1>11. PICK t : t = [s0 EXCEPT !.m = M]
  OBVIOUS
<1>12. t \in Sound /\ t.m = M
  BY <1>2, <1>7, <1>8, <1>9, <1>10, <1>11, NodesDrop
<1>13. p \in DOMAIN t.m /\ t.m[p].dir
  BY <1>2, <1>7, <1>9, <1>10, <1>12
<1>14. load_dir_impl(t, p) \in Sound
  BY <1>0, <1>12, <1>13, LoadDir
<1>15. Become(load_dir_impl(t, p))
  <2>1. t = [Now EXCEPT !.m = [q \in DOMAIN mem \ Under(p) |->
                                     IF q = p THEN [mem[p] EXCEPT !.wh = {}] ELSE mem[q]]]
    BY <1>1, <1>3, <1>6, <1>11
  <2>. QED
    BY <2>1 DEF Refresh, Done
<1>. QED
  BY <1>0, <1>14, <1>15, BecomeSound

\* A new mount keeps the invariant.
LEMMA RemountStep ==
    ASSUME Inv, Remount
    PROVE  Inv'
<1>0. setup \in Setups /\ Now \in Sound
  BY DEF Inv
<1>1. PICK t : t = [Now EXCEPT !.m = Fresh]
  OBVIOUS
<1>2. t \in Sound
  BY <1>0, <1>1, FreshSound
<1>3. t.u = u /\ t.w = w /\ t.m = Fresh
  BY <1>1 DEF Now
<1>4. Become(t)
  BY <1>3 DEF Remount, Become
<1>. QED
  BY <1>0, <1>2, <1>4, BecomeSound

-----------------------------------------------------------------------------
(* rename keeps the shape. *)

\* What copy-up has brought to the upper layer stays there.
LEMMA NodeUpKeeps ==
    ASSUME NEW s, NEW p, NEW t, t = get_node_up(s, p), NEW q \in DOMAIN s.m, s.m[q].layer = 0
    PROVE  t.m[q] = s.m[q]
<1>1. PICK low : low = {r \in Upward(p) : s.m[r].layer > 0}
  OBVIOUS
<1>2. q \notin low
  BY <1>1
<1>3. t.m = [r \in DOMAIN s.m |-> IF r \in low THEN [s.m[r] EXCEPT !.layer = 0] ELSE s.m[r]]
  BY <1>1 DEF get_node_up
<1>. QED
  BY <1>2, <1>3

\* Paths have at most two names.
LEMMA NoGrandKids ==
    ASSUME NEW p \in Path \ {Base}, NEW c \in Kids(p)
    PROVE  c \in Path \ {Base} /\ Parent(c) = p /\ Kids(c) = {} /\ Len(p) = 1
<1>1. c \in Path /\ c # Base /\ Parent(c) = p
  BY KidsPath
<1>2. PICK i, j : i = Len(c) /\ j = Len(p)
  OBVIOUS
<1>3. i \in {1, 2} /\ j \in {1, 2} /\ j = i - 1
  BY <1>1, <1>2, Parents
<1>4. i = 2 /\ j = 1
  BY <1>3
<1>5. ASSUME NEW d \in Kids(c) PROVE FALSE
  <2>1. d \in Path /\ d # Base /\ Parent(d) = c
    BY <1>1, KidsPath
  <2>2. PICK k : k = Len(d)
    OBVIOUS
  <2>3. k \in {1, 2} /\ i = k - 1
    BY <1>2, <2>1, <2>2, Parents
  <2>. QED
    BY <1>4, <2>3
<1>. QED
  BY <1>1, <1>2, <1>4, <1>5

\* What is under a name is in it.
LEMMA UnderKids ==
    ASSUME NEW p \in Path \ {Base}
    PROVE  Under(p) = Kids(p)
<1>1. \A q \in Path : q \in Under(p) <=> q # Base /\ Parent(q) = p
  BY TreePath
<1>2. Under(p) \subseteq Path /\ Kids(p) \subseteq Path
  BY TreePath DEF Kids
<1>. QED
  BY <1>1, <1>2, KidsPath

\* Neither p nor q is in the other.
Apart(p, q) == /\ p \in Path \ {Base} /\ q \in Path \ {Base}
               /\ p # q /\ Parent(q) # p /\ Parent(p) # q

\* What is at and under the two names of a rename: two separate trees, closed
\* downwards, without the parents and the directory.
LEMMA ApartTrees ==
    ASSUME NEW p, NEW q, Apart(p, q)
    PROVE  /\ \A a \in {p, q} : Parent(a) \in Path \ (Tree(p) \cup Tree(q))
           /\ Tree(p) \cap Tree(q) = {}
           /\ \A r \in Path \ {Base} : r \notin Tree(p) \cup Tree(q) =>
                 Parent(r) \in Path \ (Tree(p) \cup Tree(q))
           /\ Base \in Path \ (Tree(p) \cup Tree(q))
           /\ \A a \in {p, q} : Kids(a) \subseteq Tree(p) \cup Tree(q)
           /\ \A r \in Tree(p) \cup Tree(q) : r = p \/ r = q \/ r \in Kids(p) \/ r \in Kids(q)
<1>0. p \in Path \ {Base} /\ q \in Path \ {Base} /\ p # q /\ Parent(q) # p /\ Parent(p) # q
  BY DEF Apart
<1>1. Tree(p) = {p} \cup Kids(p) /\ Tree(q) = {q} \cup Kids(q)
  BY <1>0, UnderKids DEF Tree
<1>2. \A r : r \in Kids(p) <=> r \in Path /\ r # Base /\ Parent(r) = p
  BY <1>0, KidsPath
<1>3. \A r : r \in Kids(q) <=> r \in Path /\ r # Base /\ Parent(r) = q
  BY <1>0, KidsPath
<1>4. Base \in Path
  BY DEF Path
<1>5. \A c \in Kids(p) \cup Kids(q) : Kids(c) = {}
  BY <1>0, NoGrandKids
<1>6. ASSUME NEW r \in Path \ {Base}
      PROVE  Parent(r) \in Path /\ Parent(r) \notin Kids(p) \cup Kids(q)
  <2>1. Parent(r) \in Path
    BY Parents
  <2>2. r \in Kids(Parent(r))
    BY <2>1, KidsPath
  <2>. QED
    BY <1>5, <2>1, <2>2
<1>7. ASSUME NEW a \in {p, q} PROVE Parent(a) \in Path \ (Tree(p) \cup Tree(q))
  <2>1. a \in Path \ {Base} /\ Parent(a) # a
    BY <1>0, Parents
  <2>2. Parent(a) # p /\ Parent(a) # q
    BY <1>0, <2>1
  <2>. QED
    BY <1>1, <1>6, <2>1, <2>2
<1>8. Tree(p) \cap Tree(q) = {}
  BY <1>0, <1>1, <1>2, <1>3
<1>9. ASSUME NEW r \in Path \ {Base}, r \notin Tree(p) \cup Tree(q)
      PROVE  Parent(r) \in Path \ (Tree(p) \cup Tree(q))
  <2>1. Parent(r) # p /\ Parent(r) # q
    BY <1>1, <1>2, <1>3, <1>9
  <2>. QED
    BY <1>1, <1>6, <2>1
<1>10. Base \in Path \ (Tree(p) \cup Tree(q))
  BY <1>0, <1>1, <1>2, <1>3, <1>4
<1>11. \A a \in {p, q} : Kids(a) \subseteq Tree(p) \cup Tree(q)
  BY <1>1
<1>12. \A r \in Tree(p) \cup Tree(q) : r = p \/ r = q \/ r \in Kids(p) \/ r \in Kids(q)
  BY <1>1
<1>. QED
  BY <1>7, <1>8, <1>9, <1>10, <1>11, <1>12

\* Nothing is at r after a step from s to t, or what was at x.
Nil(t, r) == t.u[r] = "none" /\ r \notin t.w /\ r \notin DOMAIN t.m

CameFrom(s, t, r, x) ==
    /\ t.u[r] = s.u[x]
    /\ r \in t.w => x \in s.w
    /\ r \in DOMAIN t.m => /\ x \in DOMAIN s.m
                           /\ t.m[r].dir = s.m[x].dir /\ t.m[r].layer = s.m[x].layer
                           /\ t.m[r].wh \subseteq s.m[x].wh

\* Nothing is at a or in it, or what was at b, with some of what was in it.
Vacant(t, a) ==
    /\ t.u[a] = "none" /\ a \notin DOMAIN t.m
    /\ \A c \in Kids(a) : Nil(t, c)

Taken(s, t, a, b) ==
    /\ a \in DOMAIN t.m /\ b \in DOMAIN s.m
    /\ t.u[a] = s.u[b]
    /\ t.m[a].dir = s.m[b].dir /\ t.m[a].layer = s.m[b].layer
    /\ t.m[a].wh \subseteq Kids(a)
    /\ ~t.m[a].dir => t.m[a].wh = {}
    /\ \A c \in Kids(a) : Nil(t, c) \/ \E x \in Kids(b) : CameFrom(s, t, c, x)

\* The rest is as it was, with as many whiteouts or fewer.
Aside(s, t, p, q) ==
    \A r \in Path \ (Tree(p) \cup Tree(q)) :
        CameFrom(s, t, r, r) /\ (r \in DOMAIN s.m => r \in DOMAIN t.m)

\* A step that empties two places or fills them from others, and leaves the
\* rest, keeps the state sound.  rename is such a step, with and without flags.
LEMMA Relocate ==
    ASSUME NEW s \in Sound, NEW t \in States, NEW p, NEW q, Apart(p, q), Ready(s, p), Ready(s, q),
           Aside(s, t, p, q),
           \A a \in {p, q} : Vacant(t, a) \/ \E b \in Path \ {Base} : Taken(s, t, a, b)
    PROVE  t \in Sound
<1>. DEFINE T == Tree(p) \cup Tree(q)
<1>0. PICK U, W, M : U = t.u /\ W = t.w /\ M = t.m
  OBVIOUS
<1>1. /\ U \in [Path -> UpperEnt] /\ W \in SUBSET (Path \ {Base}) /\ M \in NodeMaps
      /\ t = [u |-> U, w |-> W, m |-> M]
  BY <1>0 DEF States
<1>2. /\ \A a \in {p, q} : a \in Path \ {Base} /\ Parent(a) \in Path \ T
      /\ \A r \in Path \ {Base} : r \notin T => Parent(r) \in Path \ T
      /\ Base \in Path \ T
      /\ \A r \in T : r = p \/ r = q \/ r \in Kids(p) \/ r \in Kids(q)
      /\ \A a \in {p, q} : a \in T /\ Kids(a) \subseteq T
  BY ApartTrees DEF Apart, Tree
<1>3. \A a \in {p, q} : \A c \in Kids(a) : c \in Path \ {Base} /\ Parent(c) = a /\ Kids(c) = {}
  BY <1>2, NoGrandKids
<1>4. DOMAIN M \subseteq Path
  BY <1>1, NodeMapFacts
<1>5. /\ EntriesHang(s.u, s.w) /\ NodesHang(s.m) /\ TopFits(s.u, s.m) /\ DOMAIN s.m \subseteq Path
      /\ \A r \in DOMAIN s.m : NodeFits(s.u, s.w, s.m, r)
  BY SoundParts, SoundNode DEF Fits
<1>. HIDE DEF T
<1>6. \A r \in Path \ T : CameFrom(s, t, r, r) /\ (r \in DOMAIN s.m => r \in DOMAIN t.m)
  BY DEF Aside, T
<1>7. ASSUME NEW a \in {p, q}, NEW c \in Kids(a), ~Nil(t, c)
      PROVE  \E b \in Path \ {Base} : Taken(s, t, a, b) /\ \E x \in Kids(b) : CameFrom(s, t, c, x)
  BY <1>7 DEF Vacant, Taken
<1>8. EntriesHang(U, W)
  <2>1. SUFFICES ASSUME NEW r \in Path \ {Base}, U[r] # "none" \/ r \in W
                 PROVE  U[Parent(r)] \in DirEnt
    BY DEF EntriesHang
  <2>2. CASE r \in {p, q}
    <3>1. s.u[Parent(r)] \in DirEnt
      BY <2>2 DEF Ready
    <3>2. t.u[Parent(r)] = s.u[Parent(r)]
      BY <1>2, <1>6, <2>2 DEF CameFrom
    <3>. QED
      BY <1>0, <3>1, <3>2
  <2>3. CASE r \notin T
    <3>1. t.u[r] = s.u[r] /\ (r \in t.w => r \in s.w)
      BY <1>6, <2>3 DEF CameFrom
    <3>2. s.u[Parent(r)] \in DirEnt
      BY <1>0, <1>5, <2>1, <3>1 DEF EntriesHang
    <3>3. t.u[Parent(r)] = s.u[Parent(r)]
      BY <1>2, <1>6, <2>3 DEF CameFrom
    <3>. QED
      BY <1>0, <3>2, <3>3
  <2>4. ASSUME NEW a \in {p, q}, r \in Kids(a) PROVE U[Parent(r)] \in DirEnt
    <3>1. ~Nil(t, r)
      BY <1>0, <2>1 DEF Nil
    <3>0. PICK b \in Path \ {Base} : Taken(s, t, a, b) /\ \E x \in Kids(b) : CameFrom(s, t, r, x)
      BY <1>7, <2>4, <3>1
    <3>2. PICK x \in Kids(b) : Taken(s, t, a, b) /\ CameFrom(s, t, r, x)
      BY <3>0
    <3>3. x \in Path \ {Base} /\ Parent(x) = b
      BY <3>2, KidsPath
    <3>4. s.u[x] # "none" \/ x \in s.w
      BY <1>0, <2>1, <3>2 DEF CameFrom
    <3>5. s.u[b] \in DirEnt
      BY <1>5, <3>3, <3>4 DEF EntriesHang
    <3>6. t.u[a] = s.u[b] /\ Parent(r) = a
      BY <1>3, <2>4, <3>2 DEF Taken
    <3>. QED
      BY <1>0, <3>5, <3>6
  <2>. QED
    BY <1>2, <2>2, <2>3, <2>4
<1>9. NodesHang(M)
  <2>1. SUFFICES ASSUME NEW r \in DOMAIN M \ {Base}
                 PROVE  Parent(r) \in DOMAIN M /\ M[Parent(r)].dir
    BY DEF NodesHang
  <2>2. ASSUME r \in {p, q} \/ r \notin T PROVE Parent(r) \in DOMAIN M /\ M[Parent(r)].dir
    <3>1. Parent(r) \in Path \ T
      BY <1>2, <1>4, <2>2
    <3>2. Parent(r) \in DOMAIN s.m /\ s.m[Parent(r)].dir
      <4>1. CASE r \in {p, q}
        BY <4>1 DEF Ready, Nameable
      <4>2. CASE r \notin T
        <5>1. r \in DOMAIN s.m
          BY <1>0, <1>4, <1>6, <4>2 DEF CameFrom
        <5>. QED
          BY <1>5, <5>1 DEF NodesHang
      <4>. QED
        BY <2>2, <4>1, <4>2
    <3>. QED
      BY <1>0, <1>6, <3>1, <3>2 DEF CameFrom
  <2>3. ASSUME NEW a \in {p, q}, r \in Kids(a) PROVE Parent(r) \in DOMAIN M /\ M[Parent(r)].dir
    <3>1. ~Nil(t, r)
      BY <1>0 DEF Nil
    <3>0. PICK b \in Path \ {Base} : Taken(s, t, a, b) /\ \E x \in Kids(b) : CameFrom(s, t, r, x)
      BY <1>7, <2>3, <3>1
    <3>2. PICK x \in Kids(b) : Taken(s, t, a, b) /\ CameFrom(s, t, r, x)
      BY <3>0
    <3>3. x \in DOMAIN s.m /\ x # Base /\ Parent(x) = b
      BY <1>0, <3>2, KidsPath DEF CameFrom
    <3>4. s.m[b].dir
      BY <1>5, <3>3 DEF NodesHang
    <3>5. a \in DOMAIN M /\ M[a].dir
      <4>1. a \in DOMAIN t.m /\ t.m[a].dir = s.m[b].dir
        BY <3>2 DEF Taken
      <4>. QED
        BY <1>0, <3>4, <4>1
    <3>. QED
      BY <1>3, <2>3, <3>5
  <2>. QED
    BY <1>2, <1>4, <2>2, <2>3
<1>10. TopFits(U, M)
  <2>1. CameFrom(s, t, Base, Base) /\ Base \in DOMAIN t.m
    BY <1>2, <1>5, <1>6 DEF TopFits
  <2>2. /\ Base \in DOMAIN s.m /\ s.m[Base].dir /\ s.m[Base].layer = 0 /\ s.u[Base] \in DirEnt
    BY <1>5 DEF TopFits
  <2>3. t.u[Base] = s.u[Base] /\ t.m[Base].dir = s.m[Base].dir /\ t.m[Base].layer = s.m[Base].layer
    BY <2>1 DEF CameFrom
  <2>. QED
    BY <1>0, <2>1, <2>2, <2>3 DEF TopFits
<1>11. ASSUME NEW r \in DOMAIN M PROVE NodeFits(U, W, M, r)
  <2>1. CASE r \notin T
    <3>1. r \in DOMAIN s.m /\ NodeFits(s.u, s.w, s.m, r) /\ CameFrom(s, t, r, r) /\ r \in Path
      BY <1>0, <1>4, <1>5, <1>6, <2>1 DEF CameFrom
    <3>2. /\ t.u[r] = s.u[r] /\ t.m[r].dir = s.m[r].dir /\ t.m[r].layer = s.m[r].layer
          /\ t.m[r].wh \subseteq s.m[r].wh
      BY <1>0, <3>1 DEF CameFrom
    <3>3. ASSUME ~t.m[r].dir, NEW c \in Kids(r) PROVE t.u[c] = "none" /\ c \notin t.w
      <4>1. c \in Path \ {Base} /\ Parent(c) = r
        BY <3>1, KidsPath
      <4>2. ~s.m[r].dir
        BY <3>2, <3>3
      <4>3. c \notin {p, q}
        BY <4>1, <4>2 DEF Ready, Nameable
      <4>4. c \notin T
        BY <1>2, <1>3, <2>1, <4>1, <4>3
      <4>5. CameFrom(s, t, c, c)
        BY <1>6, <4>1, <4>4
      <4>6. s.u[c] = "none" /\ c \notin s.w
        BY <3>1, <4>2 DEF NodeFits
      <4>. QED
        BY <4>5, <4>6 DEF CameFrom
    <3>. QED
      BY <1>0, <3>1, <3>2, <3>3 DEF NodeFits
  <2>2. CASE r \in {p, q}
    <3>1. PICK b \in Path \ {Base} : Taken(s, t, r, b)
      BY <1>0, <2>2 DEF Vacant
    <3>2. /\ NodeFits(s.u, s.w, s.m, b)
          /\ t.u[r] = s.u[b] /\ t.m[r].dir = s.m[b].dir /\ t.m[r].layer = s.m[b].layer
          /\ t.m[r].wh \subseteq Kids(r) /\ (~t.m[r].dir => t.m[r].wh = {})
      BY <1>5, <3>1 DEF Taken
    <3>3. ASSUME ~t.m[r].dir, NEW c \in Kids(r) PROVE t.u[c] = "none" /\ c \notin t.w
      <4>1. CASE Nil(t, c)
        BY <4>1 DEF Nil
      <4>2. CASE \E x \in Kids(b) : CameFrom(s, t, c, x)
        <5>1. PICK x \in Kids(b) : CameFrom(s, t, c, x)
          BY <4>2
        <5>2. ~s.m[b].dir
          BY <3>2, <3>3
        <5>3. s.u[x] = "none" /\ x \notin s.w
          BY <3>2, <5>2 DEF NodeFits
        <5>. QED
          BY <5>1, <5>3 DEF CameFrom
      <4>. QED
        BY <3>1, <4>1, <4>2 DEF Taken
    <3>. QED
      BY <1>0, <3>2, <3>3 DEF NodeFits
  <2>3. ASSUME NEW a \in {p, q}, r \in Kids(a) PROVE NodeFits(U, W, M, r)
    <3>1. ~Nil(t, r) /\ Kids(r) = {}
      BY <1>0, <1>3, <2>3 DEF Nil
    <3>2. PICK b \in Path \ {Base} : Taken(s, t, a, b) /\ \E x \in Kids(b) : CameFrom(s, t, r, x)
      BY <1>7, <2>3, <3>1
    <3>3. PICK x \in Kids(b) : CameFrom(s, t, r, x)
      BY <3>2
    <3>4. Kids(x) = {}
      BY NoGrandKids
    <3>5. /\ NodeFits(s.u, s.w, s.m, x) /\ t.u[r] = s.u[x]
          /\ t.m[r].dir = s.m[x].dir /\ t.m[r].layer = s.m[x].layer
          /\ t.m[r].wh \subseteq s.m[x].wh
      BY <1>0, <1>5, <3>3 DEF CameFrom
    <3>6. t.m[r].wh = {}
      BY <3>4, <3>5 DEF NodeFits
    <3>. QED
      BY <1>0, <3>1, <3>5, <3>6 DEF NodeFits
  <2>. QED
    BY <1>2, <2>1, <2>2, <2>3
<1>12. Fits(U, W, M)
  BY <1>8, <1>9, <1>10, <1>11 DEF Fits
<1>. QED
  BY <1>1, <1>12, MakeSound

\* What moves from in p to in q keeps its name.
LEMMA RebaseUnder ==
    ASSUME NEW p, NEW q, Apart(p, q), NEW c \in Kids(q)
    PROVE  Rebase(c, q, p) \in Kids(p) \/ Rebase(c, q, p) \notin Path
<1>1. p \in Path \ {Base} /\ q \in Path \ {Base}
  BY DEF Apart
<1>2. c \in Under(q)
  BY <1>1, UnderKids
<1>3. Rebase(c, q, p) \in Under(p) \/ Rebase(c, q, p) \notin Path
  BY <1>1, <1>2, Rebased
<1>. QED
  BY <1>1, <1>3, UnderKids

\* Where each value of a moved function comes from.
LEMMA MoveFacts ==
    ASSUME NEW p, NEW q, Apart(p, q), NEW f, DOMAIN f \subseteq Path, p \in DOMAIN f,
           NEW g, g = MoveKeys(f, p, q)
    PROVE  /\ DOMAIN g \subseteq Path
           /\ \A r \in Path \ (Tree(p) \cup Tree(q)) :
                 /\ r \in DOMAIN g <=> r \in DOMAIN f
                 /\ r \in DOMAIN g => g[r] = f[r]
           /\ q \in DOMAIN g /\ g[q] = f[p]
           /\ \A r \in Tree(p) : r \notin DOMAIN g
           /\ \A c \in Kids(q) : c \in DOMAIN g =>
                 Rebase(c, q, p) \in DOMAIN f /\ g[c] = f[Rebase(c, q, p)]
<1>0. p \in Path \ {Base} /\ q \in Path \ {Base}
  BY DEF Apart
<1>1. Tree(p) \cap Tree(q) = {} /\ q \in Tree(q) /\ Tree(q) \subseteq Path
  BY <1>0, ApartTrees, TreePath
<1>2. Kids(q) \subseteq Tree(q)
  BY <1>0, UnderKids DEF Tree
<1>3. Rebase(q, q, p) = p
  BY <1>0, RebaseSelf
<1>4. PICK kept, moved : /\ kept = DOMAIN f \ (Tree(p) \cup Tree(q))
                         /\ moved = {r \in Tree(q) : Rebase(r, q, p) \in DOMAIN f}
  OBVIOUS
<1>5. g = [r \in kept \cup moved |-> IF r \in moved THEN f[Rebase(r, q, p)] ELSE f[r]]
  BY <1>4 DEF MoveKeys
<1>6. DOMAIN g = kept \cup moved
  BY <1>5
<1>7. \A r \in Path \ (Tree(p) \cup Tree(q)) : r \notin moved /\ (r \in kept <=> r \in DOMAIN f)
  BY <1>4
<1>8. q \in moved
  BY <1>1, <1>3, <1>4
<1>9. \A r \in Tree(p) : r \notin kept \cup moved
  BY <1>1, <1>4
<1>10. \A c \in Kids(q) : c \in DOMAIN g => c \in moved
  BY <1>2, <1>4, <1>6
<1>11. \A c \in moved : g[c] = f[Rebase(c, q, p)] /\ Rebase(c, q, p) \in DOMAIN f
  BY <1>4, <1>5
<1>12. \A r \in Path \ (Tree(p) \cup Tree(q)) : r \in DOMAIN g => g[r] = f[r]
  BY <1>5, <1>6, <1>7
<1>13. DOMAIN g \subseteq Path
  BY <1>1, <1>4, <1>6
<1>. QED
  BY <1>3, <1>6, <1>7, <1>8, <1>9, <1>10, <1>11, <1>12, <1>13

\* The sets of whiteouts follow.
LEMMA RewhiteFacts ==
    ASSUME NEW M \in NodeMaps, NEW p, NEW q,
           q \in DOMAIN M => \A x \in M[q].wh : Rebase(x, p, q) \in Kids(q),
           NEW T, T = Rewhite(M, p, q)
    PROVE  /\ T \in NodeMaps /\ DOMAIN T = DOMAIN M
           /\ \A r \in DOMAIN M : /\ T[r].dir = M[r].dir /\ T[r].layer = M[r].layer
                                  /\ r # q => T[r].wh = M[r].wh
           /\ q \in DOMAIN M => T[q].wh \subseteq Kids(q) /\ (M[q].wh = {} => T[q].wh = {})
<1>1. PICK D : D = DOMAIN M
  OBVIOUS
<1>2. D \in SUBSET Path /\ M \in [D -> Node]
  BY <1>1, NodeMapFacts
<1>3. PICK X : X = {Rebase(x, p, q) : x \in M[q].wh}
  OBVIOUS
<1>4. q \in D => X \subseteq Kids(q) /\ X \in SUBSET Path /\ (M[q].wh = {} => X = {})
  BY <1>1, <1>3 DEF Kids
<1>5. T = [r \in D |-> [M[r] EXCEPT !.wh = IF r = q THEN X ELSE M[r].wh]]
  BY <1>1, <1>3 DEF Rewhite
<1>6. ASSUME NEW r \in D
      PROVE  /\ T[r] \in Node /\ T[r].dir = M[r].dir /\ T[r].layer = M[r].layer
             /\ T[r].wh = IF r = q THEN X ELSE M[r].wh
  <2>1. PICK n, Y : n = M[r] /\ Y = IF r = q THEN X ELSE M[r].wh
    OBVIOUS
  <2>2. n \in Node
    BY <1>2, <2>1
  <2>3. Y \in SUBSET Path
    BY <1>4, <2>1, <2>2, NodeFields
  <2>4. T[r] = [n EXCEPT !.wh = Y]
    BY <1>5, <2>1
  <2>. QED
    BY <2>1, <2>2, <2>3, <2>4, NodeFields
<1>7. DOMAIN T = D
  BY <1>5
<1>8. T \in [D -> Node]
  <2>1. T = [r \in D |-> T[r]]
    BY <1>5
  <2>. QED
    BY <1>6, <2>1
<1>9. T \in NodeMaps
  BY <1>2, <1>8, NodeMapMade
<1>. QED
  BY <1>1, <1>4, <1>6, <1>7, <1>9

\* The disk's part of a move.
LEMMA TotalFacts ==
    ASSUME NEW g, NEW t, t = Total(g), \A r \in DOMAIN g : g[r] \in UpperEnt
    PROVE  /\ t \in [Path -> UpperEnt]
           /\ \A r \in Path : t[r] = IF r \in DOMAIN g THEN g[r] ELSE "none"
<1>1. t = [r \in Path |-> IF r \in DOMAIN g THEN g[r] ELSE "none"]
  BY DEF Total
<1>2. "none" \in UpperEnt
  BY DEF UpperEnt
<1>3. \A r \in Path : (IF r \in DOMAIN g THEN g[r] ELSE "none") \in UpperEnt
  BY <1>2
<1>. QED
  BY <1>1, <1>3

\* What Unload and the other changes of one node leave.
Alike(s, t) ==
    /\ t.u = s.u /\ t.w = s.w /\ DOMAIN t.m = DOMAIN s.m
    /\ \A r \in DOMAIN s.m : /\ t.m[r].dir = s.m[r].dir /\ t.m[r].layer = s.m[r].layer
                             /\ t.m[r].wh = s.m[r].wh /\ t.m[r].last = s.m[r].last

\* Unload changes nothing but the loaded marks.
LEMMA UnloadFacts ==
    ASSUME NEW s \in Sound, NEW p, NEW q, Nameable(s, p), Nameable(s, q), NEW t, t = Unload(s, p, q)
    PROVE  t \in Sound /\ Alike(s, t)
<1>1. PICK d, e, r : d = Parent(p) /\ e = Parent(q) /\ r = mark_unloaded(s, d)
  OBVIOUS
<1>2. d \in DOMAIN s.m /\ e \in DOMAIN s.m
  BY <1>1 DEF Nameable
<1>3. /\ r \in Sound /\ Grown(s, r) /\ DOMAIN r.m = DOMAIN s.m
      /\ \A x \in DOMAIN s.m : r.m[x].wh = s.m[x].wh /\ r.m[x].last = s.m[x].last
  BY <1>1, <1>2, MarkUnloaded
<1>4. t = mark_unloaded(r, e) /\ e \in DOMAIN r.m
  BY <1>1, <1>2, <1>3 DEF Unload
<1>5. /\ t \in Sound /\ Grown(r, t) /\ DOMAIN t.m = DOMAIN r.m
      /\ \A x \in DOMAIN r.m : t.m[x].wh = r.m[x].wh /\ t.m[x].last = r.m[x].last
  BY <1>3, <1>4, MarkUnloaded
<1>. QED
  BY <1>3, <1>5 DEF Alike, Grown

\* renameat, and the same for the nodes.
Moved(s, p, q) == NodesMoved(DiskMoved(s, p, q), p, q)

\* A directory moves only to a place as deep as its own.
LEMMA WhiteoutsFit ==
    ASSUME NEW s \in Sound, NEW p, NEW q, Apart(p, q), p \in DOMAIN s.m,
           s.m[p].dir => Len(p) = Len(q), NEW x \in s.m[p].wh
    PROVE  Rebase(x, p, q) \in Kids(q)
<1>1. p \in Path \ {Base} /\ q \in Path \ {Base}
  BY DEF Apart
<1>2. NodeFits(s.u, s.w, s.m, p)
  BY SoundNode
<1>3. x \in Kids(p) /\ s.m[p].dir
  BY <1>2 DEF NodeFits
<1>4. x \in Under(p)
  BY <1>1, <1>3, UnderKids
<1>5. Len(q) = 1
  BY <1>1, <1>3, NoGrandKids
<1>6. Rebase(x, p, q) \in Under(q)
  BY <1>1, <1>4, <1>5, Rebased
<1>. QED
  BY <1>1, <1>6, UnderKids

\* renameat and the move of the nodes keep the state sound and free the source.
LEMMA MovedSound ==
    ASSUME NEW s \in Sound, NEW p, NEW q, Apart(p, q), Ready(s, p), Ready(s, q),
           p \in DOMAIN s.m, s.m[p].dir => Len(p) = Len(q), NEW t, t = Moved(s, p, q)
    PROVE  /\ t \in Sound /\ Nameable(t, p) /\ p \notin DOMAIN t.m
           /\ t.u[p] = "none" /\ t.u[Parent(p)] \in DirEnt
<1>0. PICK U, W, M, e : U = s.u /\ W = s.w /\ M = s.m /\ e = Parent(q)
  OBVIOUS
<1>1. /\ U \in [Path -> UpperEnt] /\ W \in SUBSET (Path \ {Base}) /\ M \in NodeMaps
      /\ M \in [DOMAIN M -> Node] /\ DOMAIN M \subseteq Path /\ p \in DOMAIN M
  BY <1>0, SoundParts, NodeMapFacts
<1>2. PICK T : T = Tree(p) \cup Tree(q)
  OBVIOUS
<1>3. /\ p \in Path \ {Base} /\ q \in Path \ {Base} /\ e \in Path \ T /\ Parent(p) \in Path \ T
      /\ q \in T /\ p \in T /\ p \in Tree(p) /\ Kids(p) \subseteq Tree(p)
      /\ Kids(q) \subseteq Tree(q) /\ Under(p) = Kids(p) /\ Under(q) = Kids(q)
  BY <1>0, <1>2, ApartTrees, UnderKids DEF Apart, Tree
<1>4. PICK gu, gm : gu = MoveKeys(U, p, q) /\ gm = MoveKeys(M, p, q)
  OBVIOUS
<1>5. /\ DOMAIN gu \subseteq Path
      /\ \A r \in Path \ T : r \in DOMAIN gu /\ gu[r] = U[r]
      /\ q \in DOMAIN gu /\ gu[q] = U[p]
      /\ \A r \in Tree(p) : r \notin DOMAIN gu
      /\ \A c \in Kids(q) : c \in DOMAIN gu =>
            Rebase(c, q, p) \in Path /\ gu[c] = U[Rebase(c, q, p)]
  <2>1. DOMAIN U = Path /\ p \in DOMAIN U
    BY <1>1, <1>3
  <2>. QED
    BY <1>2, <1>4, <2>1, MoveFacts
<1>6. /\ DOMAIN gm \subseteq Path
      /\ \A r \in Path \ T : /\ r \in DOMAIN gm <=> r \in DOMAIN M
                             /\ r \in DOMAIN gm => gm[r] = M[r]
      /\ q \in DOMAIN gm /\ gm[q] = M[p]
      /\ \A r \in Tree(p) : r \notin DOMAIN gm
      /\ \A c \in Kids(q) : c \in DOMAIN gm =>
            Rebase(c, q, p) \in DOMAIN M /\ gm[c] = M[Rebase(c, q, p)]
  BY <1>1, <1>2, <1>4, MoveFacts
<1>7. \A r \in DOMAIN gm : gm[r] \in Node
  <2>1. ASSUME NEW r \in DOMAIN gm PROVE gm[r] \in Node
    <3>1. r \in Path
      BY <1>6
    <3>2. CASE r \notin T
      BY <1>1, <1>6, <3>1, <3>2
    <3>3. CASE r \in T
      <4>1. r \in Tree(q)
        BY <1>2, <1>6, <3>3
      <4>2. r = q \/ r \in Kids(q)
        BY <1>3, <4>1 DEF Tree
      <4>. QED
        BY <1>1, <1>6, <4>2
    <3>. QED
      BY <3>2, <3>3
  <2>. QED
    BY <2>1
<1>8. \A r \in DOMAIN gu : gu[r] \in UpperEnt
  <2>1. ASSUME NEW r \in DOMAIN gu PROVE gu[r] \in UpperEnt
    <3>1. r \in Path
      BY <1>5
    <3>2. CASE r \notin T
      BY <1>1, <1>5, <3>1, <3>2
    <3>3. CASE r \in T
      <4>1. r \in Tree(q)
        BY <1>2, <1>5, <3>3
      <4>2. r = q \/ r \in Kids(q)
        BY <1>3, <4>1 DEF Tree
      <4>. QED
        BY <1>1, <1>3, <1>5, <4>2
    <3>. QED
      BY <3>2, <3>3
  <2>. QED
    BY <2>1
<1>9. gm \in NodeMaps
  <2>1. gm = [r \in DOMAIN gm |-> gm[r]]
    BY <1>4 DEF MoveKeys
  <2>2. PICK D : D = DOMAIN gm
    OBVIOUS
  <2>3. gm \in [D -> Node] /\ D \in SUBSET Path
    BY <1>6, <1>7, <2>1, <2>2
  <2>. QED
    BY <2>3, NodeMapMade
<1>10. PICK R : R = Rewhite(gm, p, q)
  OBVIOUS
<1>11. /\ R \in NodeMaps /\ DOMAIN R = DOMAIN gm
       /\ \A r \in DOMAIN gm : /\ R[r].dir = gm[r].dir /\ R[r].layer = gm[r].layer
                               /\ r # q => R[r].wh = gm[r].wh
       /\ R[q].wh \subseteq Kids(q) /\ (gm[q].wh = {} => R[q].wh = {})
  <2>1. \A x \in gm[q].wh : Rebase(x, p, q) \in Kids(q)
    BY <1>0, <1>6, WhiteoutsFit
  <2>. QED
    BY <1>6, <1>9, <1>10, <2>1, RewhiteFacts
<1>12. e \in DOMAIN R /\ e # q
  BY <1>0, <1>3, <1>6, <1>11 DEF Ready, Nameable
<1>13. PICK X, N : X = R[e].wh \ {q} /\ N = WithWh(R, e, X)
  OBVIOUS
<1>14. /\ N \in NodeMaps /\ DOMAIN N = DOMAIN R
       /\ \A r \in DOMAIN R \ {e} : N[r] = R[r]
       /\ N[e].dir = R[e].dir /\ N[e].layer = R[e].layer /\ N[e].wh \subseteq R[e].wh
  <2>1. R[e] \in Node
    BY <1>11, <1>12, NodeMapFacts
  <2>2. X \in SUBSET Path
    BY <1>13, <2>1, NodeFields
  <2>. QED
    BY <1>11, <1>12, <1>13, <2>2, ExceptWh
<1>15. PICK V, Z : V = Total(gu) /\ Z = MoveNames(W, p, q)
  OBVIOUS
<1>16. V \in [Path -> UpperEnt] /\ \A r \in Path : V[r] = IF r \in DOMAIN gu THEN gu[r] ELSE "none"
  BY <1>8, <1>15, TotalFacts
<1>17. /\ Z \in SUBSET (Path \ {Base})
       /\ \A r \in Path \ T : r \in Z => r \in W
       /\ \A c \in Kids(p) : c \notin Z
       /\ \A c \in Kids(q) : c \in Z => Rebase(c, q, p) \in W
  <2>1. Z = (W \ (Kids(p) \cup Kids(q))) \cup {r \in Kids(q) : Rebase(r, q, p) \in W}
    BY <1>3, <1>15 DEF MoveNames
  <2>2. Kids(q) \subseteq Path \ {Base} /\ Kids(p) \cap Kids(q) = {}
    BY DEF Kids, Apart
  <2>3. \A r \in Path \ T : r \notin Kids(q)
    BY <1>2, <1>3
  <2>. QED
    BY <1>1, <2>1, <2>2, <2>3
<1>18. t.u = V /\ t.w = Z /\ t.m = N /\ t \in States
  <2>1. PICK d : d = DiskMoved(s, p, q)
    OBVIOUS
  <2>2. d = [s EXCEPT !.u = V, !.w = Z]
    BY <1>0, <1>4, <1>15, <2>1 DEF DiskMoved
  <2>3. d = [u |-> V, w |-> Z, m |-> M]
    BY <1>0, <2>2, SoundParts, DiskExcept
  <2>4. d \in States /\ d.m = M
    BY <1>1, <1>16, <1>17, <2>3 DEF States
  <2>5. t = NodesMoved(d, p, q)
    BY <2>1 DEF Moved
  <2>6. t = [d EXCEPT !.m = N]
    BY <1>0, <1>4, <1>10, <1>13, <2>4, <2>5 DEF NodesMoved, WithWh
  <2>7. t = [u |-> V, w |-> Z, m |-> N]
    BY <2>3, <2>6
  <2>. QED
    BY <1>14, <1>16, <1>17, <2>7 DEF States
<1>19. Aside(s, t, p, q)
  <2>1. ASSUME NEW r \in Path \ T
        PROVE  CameFrom(s, t, r, r) /\ (r \in DOMAIN s.m => r \in DOMAIN t.m)
    <3>1. t.u[r] = s.u[r] /\ (r \in t.w => r \in s.w)
      BY <1>0, <1>5, <1>16, <1>17, <1>18
    <3>2. r \in DOMAIN t.m <=> r \in DOMAIN s.m
      BY <1>0, <1>6, <1>11, <1>14, <1>18
    <3>3. ASSUME r \in DOMAIN t.m
          PROVE  /\ t.m[r].dir = s.m[r].dir /\ t.m[r].layer = s.m[r].layer
                 /\ t.m[r].wh \subseteq s.m[r].wh
      <4>1. r \in DOMAIN gm /\ gm[r] = M[r] /\ r # q
        BY <1>3, <1>6, <1>11, <1>14, <1>18, <3>3
      <4>2. R[r].dir = M[r].dir /\ R[r].layer = M[r].layer /\ R[r].wh = M[r].wh
        BY <1>11, <4>1
      <4>3. N[r].dir = R[r].dir /\ N[r].layer = R[r].layer /\ N[r].wh \subseteq R[r].wh
        BY <1>11, <1>14, <4>1
      <4>. QED
        BY <1>0, <1>18, <4>2, <4>3
    <3>. QED
      BY <3>1, <3>2, <3>3 DEF CameFrom
  <2>. QED
    BY <1>2, <2>1 DEF Aside
<1>20. Vacant(t, p)
  <2>1. \A r \in Tree(p) : t.u[r] = "none" /\ r \notin DOMAIN t.m
    BY <1>3, <1>5, <1>6, <1>11, <1>14, <1>16, <1>18, TreePath
  <2>. QED
    BY <1>3, <1>17, <1>18, <2>1 DEF Vacant, Nil
<1>21. Taken(s, t, q, p)
  <2>1. q \in DOMAIN t.m /\ p \in DOMAIN s.m /\ t.u[q] = s.u[p]
    BY <1>0, <1>1, <1>3, <1>5, <1>6, <1>11, <1>14, <1>16, <1>18
  <2>2. N[q] = R[q]
    BY <1>6, <1>11, <1>12, <1>14
  <2>3. t.m[q].dir = s.m[p].dir /\ t.m[q].layer = s.m[p].layer /\ t.m[q].wh \subseteq Kids(q)
    BY <1>0, <1>6, <1>11, <1>18, <2>2
  <2>4. ~s.m[p].dir => s.m[p].wh = {}
    BY SoundNode DEF NodeFits
  <2>5. ~t.m[q].dir => t.m[q].wh = {}
    BY <1>0, <1>6, <1>11, <1>18, <2>2, <2>3, <2>4
  <2>6. ASSUME NEW c \in Kids(q) PROVE Nil(t, c) \/ \E x \in Kids(p) : CameFrom(s, t, c, x)
    <3>0. PICK x : x = Rebase(c, q, p)
      OBVIOUS
    <3>1. c \in Path /\ c # q /\ c # e /\ c \in T
      BY <1>2, <1>3, TreePath DEF Kids
    <3>2. CASE x \notin Path
      BY <1>1, <1>5, <1>6, <1>11, <1>14, <1>16, <1>17, <1>18, <3>0, <3>1, <3>2 DEF Nil
    <3>3. CASE x \in Kids(p)
      <4>1. CASE c \in DOMAIN gu
        <5>1. t.u[c] = s.u[x]
          BY <1>0, <1>5, <1>16, <1>18, <3>0, <3>1, <4>1
        <5>2. c \in t.w => x \in s.w
          BY <1>0, <1>17, <1>18, <3>0
        <5>3. ASSUME c \in DOMAIN t.m
              PROVE  /\ x \in DOMAIN s.m
                     /\ t.m[c].dir = s.m[x].dir /\ t.m[c].layer = s.m[x].layer
                     /\ t.m[c].wh \subseteq s.m[x].wh
          <6>1. c \in DOMAIN gm
            BY <1>11, <1>14, <1>18, <5>3
          <6>2. x \in DOMAIN M /\ gm[c] = M[x]
            BY <1>6, <3>0, <6>1
          <6>3. N[c] = R[c]
            BY <1>11, <1>14, <3>1, <6>1
          <6>4. R[c].dir = gm[c].dir /\ R[c].layer = gm[c].layer /\ R[c].wh = gm[c].wh
            BY <1>11, <3>1, <6>1
          <6>. QED
            BY <1>0, <1>18, <6>2, <6>3, <6>4
        <5>. QED
          BY <3>3, <5>1, <5>2, <5>3 DEF CameFrom
      <4>2. CASE c \notin DOMAIN gu
        <5>1. x \in DOMAIN U
          BY <1>1, <3>3 DEF Kids
        <5>2. c \in Tree(q)
          BY <1>3
        <5>3. c \in DOMAIN gu
          BY <1>4, <3>0, <5>1, <5>2 DEF MoveKeys
        <5>. QED
          BY <4>2, <5>3
      <4>. QED
        BY <4>1, <4>2
    <3>. QED
      BY <3>0, <3>2, <3>3, RebaseUnder
  <2>. QED
    BY <2>1, <2>3, <2>5, <2>6 DEF Taken
<1>22. t \in Sound
  BY <1>3, <1>18, <1>19, <1>20, <1>21, Relocate
<1>23. CameFrom(s, t, Parent(p), Parent(p)) /\ (Parent(p) \in DOMAIN s.m => Parent(p) \in DOMAIN t.m)
  BY <1>2, <1>3, <1>19 DEF Aside
<1>24. Nameable(t, p) /\ t.u[Parent(p)] \in DirEnt
  BY <1>3, <1>23 DEF CameFrom, Ready, Nameable
<1>. QED
  BY <1>20, <1>22, <1>24 DEF Vacant

\* The state in which rename has found its source.
LEMMA SourceFacts ==
    ASSUME Inv, NEW p, Nameable(Now, p), NEW s, s = Source(p)
    PROVE  s \in Sound /\ Grown(Now, s)
<1>0. setup \in Setups /\ Now \in Sound
  BY DEF Inv
<1>1. PICK r : r = do_lookup_file(Now, p)
  OBVIOUS
<1>2. r \in Sound /\ Grown(Now, r)
  BY <1>0, <1>1, LookupFile
<1>3. CASE p \in DOMAIN r.m /\ r.m[p].dir
  <2>1. s = reload_dir(r, p)
    BY <1>1, <1>3 DEF Source
  <2>2. s \in Sound /\ Grown(r, s)
    BY <1>0, <1>2, <1>3, <2>1, ReloadDir
  <2>. QED
    BY <1>2, <2>2, GrownTwice
<1>4. CASE ~(p \in DOMAIN r.m /\ r.m[p].dir)
  BY <1>1, <1>2, <1>4 DEF Source
<1>. QED
  BY <1>3, <1>4

\* A refused rename keeps the invariant.
LEMMA RefusedSound ==
    ASSUME Inv, NEW p, Nameable(Now, p), NEW q, NEW op, Refused(op, p, q)
    PROVE  Inv'
<1>1. PICK s : s = Source(p)
  OBVIOUS
<1>2. s \in Sound
  BY <1>1, SourceFacts
<1>3. Become(s)
  BY <1>1 DEF Refused, Fail
<1>. QED
  BY <1>2, <1>3, BecomeSound DEF Inv

\* The states in which rename has copied up what it needs, and the one in
\* which it has found its destination.
LEMMA Prepared ==
    ASSUME Inv, NEW p \in Path, NEW q \in Path, NEW op, Renames(op, p, q), Accepted(p),
           NEW b, b = Preparing(p, q), NEW t, t = Target(p, q)
    PROVE  /\ b \in Seq(Sound) /\ t \in Sound
           /\ Ready(t, p) /\ Ready(t, q) /\ p \in DOMAIN t.m
           /\ p # q /\ Parent(q) # p
           /\ t.m[p].dir => Len(p) = Len(q)
           /\ Parent(p) = q => q \in DOMAIN t.m /\ t.m[q].dir
<1>0. setup \in Setups /\ Now \in Sound /\ Nameable(Now, p) /\ Nameable(Now, q) /\ p # q
  BY NamedNow DEF Inv, Renames
<1>1. PICK s : s = Source(p)
  OBVIOUS
<1>2. s \in Sound /\ Grown(Now, s) /\ p \in DOMAIN s.m
  BY <1>0, <1>1, SourceFacts DEF Accepted
<1>3. Parent(q) # p /\ (s.m[p].dir => Len(p) = Len(q))
  BY <1>1, <1>2 DEF Renames
<1>4. Nameable(s, p) /\ Nameable(s, q)
  BY <1>0, <1>2, StillNameable
<1>5. PICK a, r : a = Upping(s, p) /\ r = Last(a)
  OBVIOUS
<1>6. /\ a \in Seq(Sound) /\ r = get_node_up(s, p)
      /\ r \in Sound /\ SameNodes(s, r) /\ p \in DOMAIN r.m
  BY <1>0, <1>2, <1>5, UpSelf
<1>7. Nameable(r, q) /\ Nameable(r, p)
  BY <1>2, <1>4, <1>6, StillNameable
<1>8. r.m[Parent(p)].layer = 0
  <2>1. \A x \in Upward(p) : r.m[x].layer = 0
    BY <1>0, <1>2, <1>6, NodeUp
  <2>. QED
    BY <1>0, <2>1, UpwardPath DEF Nameable
<1>9. PICK e, c : e = Parent(q) /\ c = Upping(r, e)
  OBVIOUS
<1>10. PICK l : l = Last(c)
  OBVIOUS
<1>11. c \in Seq(Sound) /\ Len(c) > 0 /\ l \in Sound /\ Ready(l, q) /\ SameNodes(r, l)
  BY <1>0, <1>6, <1>7, <1>9, <1>10, UpIsReady
<1>12. Ready(l, p)
  <2>1. PICK d : d = Parent(p)
    OBVIOUS
  <2>2. e \in DOMAIN r.m /\ d \in DOMAIN r.m /\ r.m[d].layer = 0
    BY <1>7, <1>8, <1>9, <2>1 DEF Nameable
  <2>3. l = get_node_up(r, e)
    BY <1>0, <1>6, <1>9, <1>10, <2>2, UppingFacts
  <2>4. l.m[d].layer = 0
    BY <2>2, <2>3, NodeUpKeeps
  <2>5. Nameable(l, p)
    BY <1>6, <1>7, <1>11, StillNameable
  <2>6. d \in DOMAIN l.m /\ l.m[d].dir
    BY <2>1, <2>5 DEF Nameable
  <2>7. l.u[d] \in DirEnt
    BY <1>11, <2>4, <2>6, SoundNode DEF NodeFits
  <2>. QED
    BY <2>1, <2>5, <2>7 DEF Ready
<1>13. b = a \o c
  BY <1>1, <1>5, <1>6, <1>9 DEF Preparing
<1>14. b \in Seq(Sound) /\ Last(b) = l
  BY <1>6, <1>10, <1>11, <1>13, JoinStates
<1>15. t = do_lookup_file(l, q)
  BY <1>14 DEF Target
<1>16. t \in Sound /\ Grown(l, t)
  BY <1>0, <1>11, <1>15, LookupFile DEF Ready
<1>17. Ready(t, p) /\ Ready(t, q)
  BY <1>11, <1>12, <1>16, StillNameable DEF Ready, Grown
<1>18. p \in DOMAIN t.m /\ t.m[p].dir = s.m[p].dir
  BY <1>2, <1>6, <1>11, <1>16 DEF SameNodes, Grown
<1>19. ASSUME Parent(p) = q PROVE q \in DOMAIN t.m /\ t.m[q].dir
  BY <1>17, <1>19 DEF Ready, Nameable
<1>. QED
  BY <1>0, <1>3, <1>14, <1>16, <1>17, <1>18, <1>19

\* empty_upper_dir, for a directory without children in the cache, keeps the
\* state sound.
LEMMA EmptyUpper ==
    ASSUME NEW s \in Sound, NEW q \in Path \ {Base}, Children(s, q) = {},
           NEW t, t = empty_upper_dir(s, q)
    PROVE  /\ t \in Sound /\ t.m = s.m
           /\ \A r \in Path \ Under(q) : s.u[r] \in DirEnt => t.u[r] \in DirEnt
<1>1. CASE s.u[q] \notin DirEnt
  BY <1>1 DEF empty_upper_dir
<1>2. CASE s.u[q] \in DirEnt
  <2>0. PICK U, W, M : U = s.u /\ W = s.w /\ M = s.m
    OBVIOUS
  <2>1. /\ U \in [Path -> UpperEnt] /\ W \in SUBSET (Path \ {Base}) /\ M \in NodeMaps
        /\ NodesHang(M) /\ EntriesHang(U, W) /\ TopFits(U, M)
        /\ \A p \in DOMAIN M : NodeFits(U, W, M, p)
    BY <2>0, SoundParts DEF Fits
  <2>2. Under(q) = Kids(q) /\ q \notin Kids(q) /\ DOMAIN M \subseteq Path
        /\ (\A c \in Kids(q) : c \notin DOMAIN M)
    BY <2>0, <2>1, UnderKids, Parents, KidsPath, NodeMapFacts DEF Children
  <2>3. PICK V : V = [r \in Path |-> IF r = q THEN "dir" ELSE IF r \in Kids(q) THEN "none" ELSE U[r]]
    OBVIOUS
  <2>4. V \in [Path -> UpperEnt]
    <3>1. "dir" \in UpperEnt /\ "none" \in UpperEnt
      BY DEF UpperEnt, DirEnt
    <3>. QED
      BY <2>1, <2>3, <3>1
  <2>5. PICK Z : Z = W \ Kids(q)
    OBVIOUS
  <2>6. t = [s EXCEPT !.u = V, !.w = Z]
    BY <1>2, <2>0, <2>2, <2>3, <2>5 DEF empty_upper_dir
  <2>7. t = [u |-> V, w |-> Z, m |-> M]
    BY <2>0, <2>6, SoundParts, DiskExcept
  <2>8. \A r \in Path \ Kids(q) : U[r] \in DirEnt => V[r] \in DirEnt
    BY <2>3 DEF DirEnt
  <2>9. \A r \in Path \ {q} : V[r] = "none" \/ V[r] = U[r]
    BY <2>3
  <2>10. \A c \in Kids(q) : V[c] = "none" /\ c \notin Z
    BY <2>2, <2>3, <2>5 DEF Kids
  <2>11. EntriesHang(V, Z)
    <3>1. SUFFICES ASSUME NEW r \in Path \ {Base}, V[r] # "none" \/ r \in Z
                   PROVE  V[Parent(r)] \in DirEnt
      BY DEF EntriesHang
    <3>2. U[r] # "none" \/ r \in W
      BY <1>2, <2>0, <2>5, <2>9, <3>1 DEF DirEnt
    <3>3. U[Parent(r)] \in DirEnt /\ Parent(r) \in Path
      BY <2>1, <3>2, Parents DEF EntriesHang
    <3>4. Parent(r) \notin Kids(q)
      BY <3>1, <3>3, NoGrandKids, KidsPath
    <3>. QED
      BY <2>8, <3>3, <3>4
  <2>12. TopFits(V, M)
    BY <2>1, <2>3, <2>8, KidsPath DEF TopFits, Path
  <2>13. ASSUME NEW p \in DOMAIN M PROVE NodeFits(V, Z, M, p)
    <3>1. p \in Path /\ p \notin Kids(q) /\ NodeFits(U, W, M, p)
      BY <2>1, <2>2
    <3>2. \A c \in Kids(p) : U[c] = "none" /\ c \notin W => V[c] = "none" /\ c \notin Z
      <4>1. ASSUME NEW c \in Kids(p), U[c] = "none", c \notin W PROVE V[c] = "none" /\ c \notin Z
        <5>1. c \in Path /\ c # q
          BY <1>2, <2>0, <3>1, <4>1, KidsPath DEF DirEnt
        <5>. QED
          BY <2>5, <2>9, <4>1, <5>1
      <4>. QED
        BY <4>1
    <3>. QED
      BY <2>8, <3>1, <3>2 DEF NodeFits
  <2>14. Fits(V, Z, M)
    BY <2>1, <2>11, <2>12, <2>13 DEF Fits
  <2>15. t \in Sound
    <3>1. V \in [Path -> UpperEnt] /\ Z \in SUBSET (Path \ {Base}) /\ M \in NodeMaps
      BY <2>1, <2>4, <2>5
    <3>2. [u |-> V, w |-> Z, m |-> M] \in Sound
      BY <2>14, <3>1, MakeSound
    <3>. QED
      BY <2>7, <3>2
  <2>. QED
    BY <2>0, <2>2, <2>7, <2>8, <2>15
<1>. QED
  BY <1>1, <1>2

\* s is such that p can move to q in it.
Movable(s, p, q) ==
    /\ s \in Sound /\ Apart(p, q) /\ Ready(s, p) /\ Ready(s, q)
    /\ p \in DOMAIN s.m /\ (s.m[p].dir => Len(p) = Len(q))

\* Removing the destination's whiteout leaves the move possible.
LEMMA UnhiddenFacts ==
    ASSUME NEW s, NEW p, NEW q, Movable(s, p, q), NEW t, t = Unhidden(s, p, q)
    PROVE  Movable(t, p, q) /\ t.m = s.m
<1>0. /\ s \in Sound /\ Apart(p, q) /\ p \in Path \ {Base} /\ q \in Path \ {Base}
      /\ Parent(p) # q /\ Parent(p) \in Path /\ Parent(q) \in Path /\ Parent(q) # q
  BY Parents DEF Movable, Apart
<1>1. CASE ~s.m[p].dir
  BY <1>1 DEF Unhidden
<1>2. CASE s.m[p].dir
  <2>1. t = delete_whiteout(s, q)
    BY <1>2 DEF Unhidden
  <2>2. t \in Sound /\ OnlyEnt(s, t, q)
    BY <1>0, <2>1, DeleteWhiteout
  <2>3. t.m = s.m /\ t.u[Parent(p)] = s.u[Parent(p)] /\ t.u[Parent(q)] = s.u[Parent(q)]
    BY <1>0, <2>2 DEF OnlyEnt
  <2>. QED
    BY <2>2, <2>3 DEF Movable, Ready, Nameable
<1>. QED
  BY <1>1, <1>2

\* The end of rename keeps the invariant, with the source's whiteout, without
\* it, and when making it fails.
LEMMA FinishRenameSound ==
    ASSUME setup \in Setups, NEW b \in Seq(Sound), Len(b) > 0, NEW p, NEW q, NEW op,
           Movable(Last(b), p, q), FinishRename(op, p, q, b)
    PROVE  Inv'
<1>0. PICK s : s = Last(b)
  OBVIOUS
<1>1. Movable(s, p, q) /\ s \in Sound
  BY <1>0 DEF Movable
<1>2. PICK r : r = Unload(s, p, q)
  OBVIOUS
<1>3. r \in Sound /\ Alike(s, r)
  BY <1>1, <1>2, UnloadFacts DEF Movable, Ready
<1>4. Movable(r, p, q)
  BY <1>1, <1>3 DEF Movable, Alike, Ready, Nameable
<1>5. PICK moved : moved = Moved(r, p, q)
  OBVIOUS
<1>6. /\ moved \in Sound /\ Nameable(moved, p) /\ p \notin DOMAIN moved.m
      /\ moved.u[p] = "none" /\ moved.u[Parent(p)] \in DirEnt
  BY <1>4, <1>5, MovedSound DEF Movable
<1>7. PICK wh : wh = create_whiteout(moved, p)
  OBVIOUS
<1>8. wh \in Sound
  <2>1. moved.u[p] \notin DirEnt
    BY <1>6 DEF DirEnt
  <2>. QED
    BY <1>6, <1>7, <2>1, CreateWhiteout
<1>9. PICK hidden : hidden = IF s.m[p].last > 0 THEN wh ELSE moved
  OBVIOUS
<1>10. hidden \in Sound
  BY <1>6, <1>8, <1>9
<1>11. PICK after : after = <<moved, hidden>>
  OBVIOUS
<1>12. after \in Seq(Sound) /\ Len(after) > 0
  BY <1>6, <1>10, <1>11, TwoStates
<1>13. \/ Fail(op, <<p, q>>, "ENOTEMPTY", s)
       \/ Through(op, <<p, q>>, b, after)
       \/ Done(op, <<p, q>>, moved)
  BY <1>0, <1>2, <1>5, <1>7, <1>9, <1>11 DEF FinishRename, Moved
<1>14. CASE Fail(op, <<p, q>>, "ENOTEMPTY", s)
  BY <1>1, <1>14, BecomeSound DEF Fail
<1>15. CASE Done(op, <<p, q>>, moved)
  BY <1>6, <1>15, BecomeSound DEF Done
<1>16. CASE Through(op, <<p, q>>, b, after)
  BY <1>12, <1>16, ThroughSound
<1>. QED
  BY <1>13, <1>14, <1>15, <1>16

\* rename without flags keeps the invariant.
LEMMA RenameStep ==
    ASSUME Inv, NEW p \in Path, NEW q \in Path, Rename(p, q)
    PROVE  Inv'
<1>0. setup \in Setups /\ Nameable(Now, p) /\ Nameable(Now, q) /\ Renames("rename", p, q)
      /\ p \in Path \ {Base} /\ q \in Path \ {Base}
  BY NamedNow DEF Inv, Rename, Renames, Named
<1>1. CASE Refused("rename", p, q)
  BY <1>0, <1>1, RefusedSound
<1>2. CASE ~Refused("rename", p, q)
  <2>1. Accepted(p)
    BY <1>2 DEF Rename
  <2>2. PICK b, s1 : b = Preparing(p, q) /\ s1 = Target(p, q)
    OBVIOUS
  <2>3. /\ b \in Seq(Sound) /\ s1 \in Sound
        /\ Ready(s1, p) /\ Ready(s1, q) /\ p \in DOMAIN s1.m
        /\ p # q /\ Parent(q) # p
        /\ s1.m[p].dir => Len(p) = Len(q)
        /\ Parent(p) = q => q \in DOMAIN s1.m /\ s1.m[q].dir
    BY <1>0, <2>1, <2>2, Prepared
  <2>4. PICK isdir \in BOOLEAN : isdir <=> q \in DOMAIN s1.m /\ s1.m[q].dir
    <3>1. CASE q \in DOMAIN s1.m /\ s1.m[q].dir
      BY <3>1
    <3>2. CASE ~(q \in DOMAIN s1.m /\ s1.m[q].dir)
      BY <3>2
    <3>. QED
      BY <3>1, <3>2
  <2>5. PICK s2 : s2 = IF isdir THEN reload_dir(s1, q) ELSE s1
    OBVIOUS
  <2>6. PICK s3 : s3 = IF isdir THEN empty_upper_dir(s2, q) ELSE s2
    OBVIOUS
  <2>7. PICK s4 : s4 = Unhidden(s3, p, q)
    OBVIOUS
  <2>8. /\ q \in DOMAIN s1.m => s1.m[q].dir = s1.m[p].dir
        /\ IF isdir /\ Children(s2, q) # {}
           THEN Fail("rename", <<p, q>>, "ENOTEMPTY", s2)
           ELSE FinishRename("rename", p, q, b \o <<s2, s4>>)
    BY <1>2, <2>2, <2>4, <2>5, <2>6, <2>7 DEF Rename
  <2>9. Parent(p) # q
    <3>1. ASSUME Parent(p) = q PROVE FALSE
      <4>1. s1.m[p].dir
        BY <2>3, <2>8, <3>1
      <4>2. Len(p) = Len(q) /\ Len(q) = Len(p) - 1 /\ Len(p) \in {1, 2}
        BY <1>0, <2>3, <3>1, <4>1, Parents
      <4>. QED
        BY <4>2
    <3>. QED
      BY <3>1
  <2>10. Apart(p, q)
    BY <1>0, <2>3, <2>9 DEF Apart
  <2>11. s2 \in Sound /\ Grown(s1, s2)
    BY <1>0, <2>3, <2>4, <2>5, ReloadDir, GrownSelf
  <2>12. Movable(s2, p, q)
    BY <2>3, <2>10, <2>11, StillNameable DEF Movable, Ready, Grown
  <2>13. CASE isdir /\ Children(s2, q) # {}
    BY <1>0, <2>8, <2>11, <2>13, BecomeSound DEF Fail
  <2>14. CASE ~(isdir /\ Children(s2, q) # {})
    <3>1. Movable(s3, p, q)
      <4>1. CASE ~isdir
        BY <2>6, <2>12, <4>1
      <4>2. CASE isdir
        <5>1. /\ s3 \in Sound /\ s3.m = s2.m
              /\ \A r \in Path \ Under(q) : s2.u[r] \in DirEnt => s3.u[r] \in DirEnt
          BY <1>0, <2>6, <2>11, <2>14, <4>2, EmptyUpper
        <5>2. Parent(p) \in Path \ Under(q) /\ Parent(q) \in Path \ Under(q)
          BY <2>10, ApartTrees DEF Tree
        <5>3. s3.u[Parent(p)] \in DirEnt /\ s3.u[Parent(q)] \in DirEnt
          BY <2>12, <5>1, <5>2 DEF Movable, Ready
        <5>. QED
          BY <2>12, <5>1, <5>3 DEF Movable, Ready, Nameable
      <4>. QED
        BY <4>1, <4>2
    <3>2. Movable(s4, p, q) /\ s4 \in Sound
      BY <2>7, <3>1, UnhiddenFacts DEF Movable
    <3>3. PICK c, a : c = <<s2, s4>> /\ a = b \o c
      OBVIOUS
    <3>4. c \in Seq(Sound) /\ Len(c) > 0 /\ Last(c) = s4
      BY <2>11, <3>2, <3>3, TwoStates
    <3>5. a \in Seq(Sound) /\ Len(a) > 0 /\ Last(a) = s4
      <4>1. b \in Seq(Sound) /\ c \in Seq(Sound) /\ Len(c) > 0 /\ a = b \o c
        BY <2>3, <3>3, <3>4
      <4>2. a \in Seq(Sound) /\ Len(a) > 0 /\ Last(a) = Last(c)
        BY <4>1, JoinStates
      <4>. QED
        BY <3>4, <4>2
    <3>6. FinishRename("rename", p, q, a)
      BY <2>8, <2>14, <3>3
    <3>. QED
      BY <1>0, <3>2, <3>5, <3>6, FinishRenameSound
  <2>. QED
    BY <2>13, <2>14
<1>. QED
  BY <1>1, <1>2

\* rename with RENAME_NOREPLACE keeps the invariant.
LEMMA NoreplaceStep ==
    ASSUME Inv, NEW p \in Path, NEW q \in Path, RenameNoreplace(p, q)
    PROVE  Inv'
<1>0. setup \in Setups /\ Nameable(Now, p) /\ Nameable(Now, q) /\ Renames("noreplace", p, q)
      /\ p \in Path \ {Base} /\ q \in Path \ {Base}
  BY NamedNow DEF Inv, RenameNoreplace, Renames, Named
<1>1. CASE Refused("noreplace", p, q)
  BY <1>0, <1>1, RefusedSound
<1>2. CASE ~Refused("noreplace", p, q)
  <2>1. Accepted(p)
    BY <1>2 DEF RenameNoreplace
  <2>2. PICK b, s1 : b = Preparing(p, q) /\ s1 = Target(p, q)
    OBVIOUS
  <2>3. /\ b \in Seq(Sound) /\ s1 \in Sound
        /\ Ready(s1, p) /\ Ready(s1, q) /\ p \in DOMAIN s1.m
        /\ p # q /\ Parent(q) # p
        /\ s1.m[p].dir => Len(p) = Len(q)
        /\ Parent(p) = q => q \in DOMAIN s1.m /\ s1.m[q].dir
    BY <1>0, <2>1, <2>2, Prepared
  <2>4. PICK s2 : s2 = Unhidden(s1, p, q)
    OBVIOUS
  <2>5. IF q \in DOMAIN s1.m THEN Fail("noreplace", <<p, q>>, "EEXIST", s1)
        ELSE IF s2.u[q] # "none" THEN Fail("noreplace", <<p, q>>, "EEXIST", s2)
        ELSE FinishRename("noreplace", p, q, b \o <<s1, s2>>)
    BY <1>2, <2>2, <2>4 DEF RenameNoreplace
  <2>6. CASE q \in DOMAIN s1.m
    BY <1>0, <2>3, <2>5, <2>6, BecomeSound DEF Fail
  <2>7. CASE q \notin DOMAIN s1.m
    <3>1. Movable(s1, p, q)
      BY <1>0, <2>3, <2>7 DEF Movable, Apart
    <3>2. Movable(s2, p, q) /\ s2 \in Sound
      BY <2>4, <3>1, UnhiddenFacts DEF Movable
    <3>3. PICK c, a : c = <<s1, s2>> /\ a = b \o c
      OBVIOUS
    <3>4. c \in Seq(Sound) /\ Len(c) > 0 /\ Last(c) = s2
      BY <2>3, <3>2, <3>3, TwoStates
    <3>5. a \in Seq(Sound) /\ Len(a) > 0 /\ Last(a) = s2
      <4>1. b \in Seq(Sound) /\ c \in Seq(Sound) /\ Len(c) > 0 /\ a = b \o c
        BY <2>3, <3>3, <3>4
      <4>2. a \in Seq(Sound) /\ Len(a) > 0 /\ Last(a) = Last(c)
        BY <4>1, JoinStates
      <4>. QED
        BY <3>4, <4>2
    <3>6. CASE s2.u[q] # "none"
      BY <1>0, <2>5, <2>7, <3>2, <3>6, BecomeSound DEF Fail
    <3>7. CASE s2.u[q] = "none"
      BY <1>0, <2>5, <2>7, <3>2, <3>3, <3>5, <3>7, FinishRenameSound
    <3>. QED
      BY <3>6, <3>7
  <2>. QED
    BY <2>6, <2>7
<1>. QED
  BY <1>1, <1>2

\* What is in b moves to in a as far as it has a place there.
LEMMA TakenFrom ==
    ASSUME NEW s \in Sound, NEW t, NEW a, NEW b, Apart(b, a),
           a \in DOMAIN t.m, b \in DOMAIN s.m, t.u[a] = s.u[b],
           t.m[a].dir = s.m[b].dir, t.m[a].layer = s.m[b].layer, t.m[a].wh \subseteq Kids(a),
           s.m[b].wh = {} => t.m[a].wh = {},
           \A c \in Kids(a) :
              /\ t.u[c] = IF Rebase(c, a, b) \in Path THEN s.u[Rebase(c, a, b)] ELSE "none"
              /\ c \in t.w => Rebase(c, a, b) \in s.w
              /\ c \in DOMAIN t.m =>
                    /\ Rebase(c, a, b) \in DOMAIN s.m
                    /\ t.m[c].dir = s.m[Rebase(c, a, b)].dir
                    /\ t.m[c].layer = s.m[Rebase(c, a, b)].layer
                    /\ t.m[c].wh = s.m[Rebase(c, a, b)].wh
    PROVE  Taken(s, t, a, b)
<1>1. ~s.m[b].dir => s.m[b].wh = {}
  BY SoundNode DEF NodeFits
<1>2. ~t.m[a].dir => t.m[a].wh = {}
  BY <1>1
<1>3. ASSUME NEW c \in Kids(a) PROVE Nil(t, c) \/ \E x \in Kids(b) : CameFrom(s, t, c, x)
  <2>1. PICK x : x = Rebase(c, a, b)
    OBVIOUS
  <2>2. /\ t.u[c] = IF x \in Path THEN s.u[x] ELSE "none"
        /\ c \in t.w => x \in s.w
        /\ c \in DOMAIN t.m => /\ x \in DOMAIN s.m /\ t.m[c].dir = s.m[x].dir
                               /\ t.m[c].layer = s.m[x].layer /\ t.m[c].wh = s.m[x].wh
    BY <2>1
  <2>3. CASE x \notin Path
    BY <2>2, <2>3, SoundParts, NodeMapFacts DEF Nil
  <2>4. CASE x \in Kids(b)
    <3>1. x \in Path
      BY <2>4 DEF Kids
    <3>2. CameFrom(s, t, c, x)
      BY <2>2, <3>1 DEF CameFrom
    <3>. QED
      BY <2>4, <3>2
  <2>. QED
    BY <2>1, <2>3, <2>4, RebaseUnder
<1>. QED
  BY <1>2, <1>3 DEF Taken

\* Where each value of a swapped function comes from.
LEMMA SwapFacts ==
    ASSUME NEW p, NEW q, Apart(p, q), NEW f, DOMAIN f \subseteq Path, p \in DOMAIN f, q \in DOMAIN f,
           NEW g, g = Swap(f, p, q)
    PROVE  /\ DOMAIN g \subseteq Path /\ g = [r \in DOMAIN g |-> g[r]]
           /\ \A r \in Path \ (Tree(p) \cup Tree(q)) :
                 /\ r \in DOMAIN g <=> r \in DOMAIN f
                 /\ r \in DOMAIN g => g[r] = f[r]
           /\ q \in DOMAIN g /\ g[q] = f[p]
           /\ p \in DOMAIN g /\ g[p] = f[q]
           /\ \A c \in Kids(q) : /\ c \in DOMAIN g <=> Rebase(c, q, p) \in DOMAIN f
                                 /\ c \in DOMAIN g => g[c] = f[Rebase(c, q, p)]
           /\ \A c \in Kids(p) : /\ c \in DOMAIN g <=> Rebase(c, p, q) \in DOMAIN f
                                 /\ c \in DOMAIN g => g[c] = f[Rebase(c, p, q)]
<1>0. p \in Path \ {Base} /\ q \in Path \ {Base} /\ Apart(q, p)
  BY DEF Apart
<1>1. /\ Tree(p) \cap Tree(q) = {} /\ q \in Tree(q) /\ p \in Tree(p)
      /\ Kids(p) \subseteq Tree(p) /\ Kids(q) \subseteq Tree(q)
      /\ Tree(q) \cup Tree(p) = Tree(p) \cup Tree(q)
  BY <1>0, ApartTrees, UnderKids DEF Tree
<1>2. PICK back, forth : back = MoveKeys(f, q, p) /\ forth = MoveKeys(f, p, q)
  OBVIOUS
<1>3. /\ DOMAIN forth \subseteq Path
      /\ \A r \in Path \ (Tree(p) \cup Tree(q)) :
            /\ r \in DOMAIN forth <=> r \in DOMAIN f
            /\ r \in DOMAIN forth => forth[r] = f[r]
      /\ q \in DOMAIN forth /\ forth[q] = f[p]
      /\ \A c \in Kids(q) : c \in DOMAIN forth =>
            Rebase(c, q, p) \in DOMAIN f /\ forth[c] = f[Rebase(c, q, p)]
  BY <1>2, MoveFacts
<1>4. /\ DOMAIN back \subseteq Path
      /\ p \in DOMAIN back /\ back[p] = f[q]
      /\ \A c \in Kids(p) : c \in DOMAIN back =>
            Rebase(c, p, q) \in DOMAIN f /\ back[c] = f[Rebase(c, p, q)]
  BY <1>0, <1>2, MoveFacts
<1>5. \A c \in Kids(q) : Rebase(c, q, p) \in DOMAIN f => c \in DOMAIN forth
  BY <1>1, <1>2 DEF MoveKeys
<1>6. \A c \in Kids(p) : Rebase(c, p, q) \in DOMAIN f => c \in DOMAIN back
  BY <1>1, <1>2 DEF MoveKeys
<1>7. PICK D : D = (DOMAIN back \cap Tree(p)) \cup (DOMAIN forth \ Tree(p))
  OBVIOUS
<1>8. g = [r \in D |-> IF r \in Tree(p) THEN back[r] ELSE forth[r]]
  BY <1>2, <1>7 DEF Swap
<1>9. DOMAIN g = D /\ g = [r \in D |-> g[r]]
  BY <1>8
<1>10. \A r \in Tree(p) : /\ r \in DOMAIN g <=> r \in DOMAIN back
                          /\ r \in DOMAIN g => g[r] = back[r]
  BY <1>7, <1>8, <1>9
<1>11. \A r : r \notin Tree(p) => /\ r \in DOMAIN g <=> r \in DOMAIN forth
                                  /\ r \in DOMAIN g => g[r] = forth[r]
  BY <1>7, <1>8, <1>9
<1>12. DOMAIN g \subseteq Path
  BY <1>3, <1>4, <1>7, <1>9
<1>13. \A r \in Tree(q) : r \notin Tree(p)
  BY <1>1
<1>14. ASSUME NEW r \in Path \ (Tree(p) \cup Tree(q))
       PROVE  (r \in DOMAIN g <=> r \in DOMAIN f) /\ (r \in DOMAIN g => g[r] = f[r])
  <2>1. r \notin Tree(p)
    OBVIOUS
  <2>. QED
    BY <1>3, <1>11, <2>1
<1>15. q \in DOMAIN g /\ g[q] = f[p] /\ p \in DOMAIN g /\ g[p] = f[q]
  BY <1>1, <1>3, <1>4, <1>10, <1>11, <1>13
<1>16. ASSUME NEW c \in Kids(q)
       PROVE  /\ c \in DOMAIN g <=> Rebase(c, q, p) \in DOMAIN f
              /\ c \in DOMAIN g => g[c] = f[Rebase(c, q, p)]
  <2>1. c \notin Tree(p)
    BY <1>1, <1>13
  <2>. QED
    BY <1>3, <1>5, <1>11, <2>1
<1>17. ASSUME NEW c \in Kids(p)
       PROVE  /\ c \in DOMAIN g <=> Rebase(c, p, q) \in DOMAIN f
              /\ c \in DOMAIN g => g[c] = f[Rebase(c, p, q)]
  <2>1. c \in Tree(p)
    BY <1>1
  <2>. QED
    BY <1>4, <1>6, <1>10, <2>1
<1>. QED
  BY <1>9, <1>12, <1>14, <1>15, <1>16, <1>17

\* Every value of a swap is one of before.
LEMMA SwapIn ==
    ASSUME NEW p, NEW q, Apart(p, q), NEW f, DOMAIN f \subseteq Path, p \in DOMAIN f, q \in DOMAIN f,
           NEW g, g = Swap(f, p, q), NEW S, \A r \in DOMAIN f : f[r] \in S
    PROVE  g \in [DOMAIN g -> S]
<1>1. /\ DOMAIN g \subseteq Path /\ g = [r \in DOMAIN g |-> g[r]]
      /\ \A r \in Path \ (Tree(p) \cup Tree(q)) :
            /\ r \in DOMAIN g <=> r \in DOMAIN f
            /\ r \in DOMAIN g => g[r] = f[r]
      /\ g[q] = f[p] /\ g[p] = f[q]
      /\ \A c \in Kids(q) : c \in DOMAIN g =>
            Rebase(c, q, p) \in DOMAIN f /\ g[c] = f[Rebase(c, q, p)]
      /\ \A c \in Kids(p) : c \in DOMAIN g =>
            Rebase(c, p, q) \in DOMAIN f /\ g[c] = f[Rebase(c, p, q)]
  BY SwapFacts
<1>2. ASSUME NEW r \in DOMAIN g PROVE g[r] \in S
  <2>1. CASE r \notin Tree(p) \cup Tree(q)
    BY <1>1, <2>1
  <2>2. CASE r \in Tree(p) \cup Tree(q)
    <3>1. r = p \/ r = q \/ r \in Kids(p) \/ r \in Kids(q)
      BY <2>2, ApartTrees
    <3>. QED
      BY <1>1, <3>1
  <2>. QED
    BY <2>1, <2>2
<1>. QED
  BY <1>1, <1>2

\* An exchanged directory needs a new scan.
Rest(n) == IF n.dir THEN [n EXCEPT !.loaded = FALSE] ELSE n
Rested(M, p, q) == [M EXCEPT ![p] = Rest(@), ![q] = Rest(@)]

\* Clearing the mark changes nothing else.
LEMMA RestNode ==
    ASSUME NEW n \in Node, NEW o, o = Rest(n)
    PROVE  o \in Node /\ o.dir = n.dir /\ o.layer = n.layer /\ o.wh = n.wh
<1>1. CASE n.dir
  <2>1. o = [n EXCEPT !.loaded = FALSE]
    BY <1>1 DEF Rest
  <2>. QED
    BY <2>1 DEF Node
<1>2. CASE ~n.dir
  BY <1>2 DEF Rest
<1>. QED
  BY <1>1, <1>2

\* The same for the two exchanged nodes.
LEMMA RestedFacts ==
    ASSUME NEW M \in NodeMaps, NEW p \in DOMAIN M, NEW q \in DOMAIN M, p # q,
           NEW N, N = Rested(M, p, q)
    PROVE  /\ N \in NodeMaps /\ DOMAIN N = DOMAIN M
           /\ \A r \in DOMAIN M : /\ N[r].dir = M[r].dir /\ N[r].layer = M[r].layer
                                  /\ N[r].wh = M[r].wh
<1>1. PICK D : D = DOMAIN M
  OBVIOUS
<1>2. D \in SUBSET Path /\ M \in [D -> Node] /\ p \in D /\ q \in D
  BY <1>1, NodeMapFacts
<1>3. PICK x, y : x = Rest(M[p]) /\ y = Rest(M[q])
  OBVIOUS
<1>4. /\ x \in Node /\ x.dir = M[p].dir /\ x.layer = M[p].layer /\ x.wh = M[p].wh
      /\ y \in Node /\ y.dir = M[q].dir /\ y.layer = M[q].layer /\ y.wh = M[q].wh
  BY <1>2, <1>3, RestNode
<1>5. PICK O : O = [M EXCEPT ![p] = x]
  OBVIOUS
<1>6. O \in [D -> Node] /\ O[p] = x /\ \A r \in D \ {p} : O[r] = M[r]
  BY <1>2, <1>4, <1>5
<1>7. N = [O EXCEPT ![q] = y]
  <2>1. O[q] = M[q]
    BY <1>2, <1>6
  <2>. QED
    BY <1>3, <1>5, <2>1 DEF Rested
<1>8. N \in [D -> Node] /\ N[q] = y /\ N[p] = x /\ \A r \in D \ {p, q} : N[r] = M[r]
  BY <1>2, <1>4, <1>6, <1>7
<1>9. N \in NodeMaps /\ DOMAIN N = D
  BY <1>2, <1>8, NodeMapMade
<1>. QED
  BY <1>1, <1>4, <1>8, <1>9

\* The same for RENAME_EXCHANGE: of nodes, whiteout files and the whole state.
ExchangedNodes(M, p, q) == Rewhite(Rewhite(Swap(Rested(M, p, q), p, q), p, q), q, p)

ExchangedNames(W, p, q) ==
    (W \ (Under(p) \cup Under(q))) \cup {r \in Under(q) : Rebase(r, q, p) \in W}
                                   \cup {r \in Under(p) : Rebase(r, p, q) \in W}

Exchanged(s, p, q) ==
    [u |-> Total(Swap(s.u, p, q)), w |-> ExchangedNames(s.w, p, q), m |-> ExchangedNodes(s.m, p, q)]

\* Where each node comes from after RENAME_EXCHANGE.
LEMMA ExchangedNodesFacts ==
    ASSUME NEW s \in Sound, NEW p, NEW q, Apart(p, q), p \in DOMAIN s.m, q \in DOMAIN s.m,
           s.m[p].dir => Len(p) = Len(q), s.m[q].dir => Len(p) = Len(q),
           NEW N, N = ExchangedNodes(s.m, p, q)
    PROVE  /\ N \in NodeMaps
           /\ \A r \in Path \ (Tree(p) \cup Tree(q)) :
                 /\ r \in DOMAIN N <=> r \in DOMAIN s.m
                 /\ r \in DOMAIN N => /\ N[r].dir = s.m[r].dir /\ N[r].layer = s.m[r].layer
                                      /\ N[r].wh = s.m[r].wh
           /\ q \in DOMAIN N /\ N[q].dir = s.m[p].dir /\ N[q].layer = s.m[p].layer
           /\ N[q].wh \subseteq Kids(q) /\ (s.m[p].wh = {} => N[q].wh = {})
           /\ p \in DOMAIN N /\ N[p].dir = s.m[q].dir /\ N[p].layer = s.m[q].layer
           /\ N[p].wh \subseteq Kids(p) /\ (s.m[q].wh = {} => N[p].wh = {})
           /\ \A c \in Kids(q) : c \in DOMAIN N =>
                 /\ Rebase(c, q, p) \in DOMAIN s.m
                 /\ N[c].dir = s.m[Rebase(c, q, p)].dir
                 /\ N[c].layer = s.m[Rebase(c, q, p)].layer
                 /\ N[c].wh = s.m[Rebase(c, q, p)].wh
           /\ \A c \in Kids(p) : c \in DOMAIN N =>
                 /\ Rebase(c, p, q) \in DOMAIN s.m
                 /\ N[c].dir = s.m[Rebase(c, p, q)].dir
                 /\ N[c].layer = s.m[Rebase(c, p, q)].layer
                 /\ N[c].wh = s.m[Rebase(c, p, q)].wh
<1>0. /\ p \in Path \ {Base} /\ q \in Path \ {Base} /\ p # q /\ Apart(q, p)
      /\ p \in Tree(p) \cup Tree(q) /\ q \in Tree(p) \cup Tree(q)
      /\ \A c \in Kids(q) \cup Kids(p) : c # p /\ c # q
  BY Parents, KidsPath DEF Apart, Tree
<1>1. PICK M : M = s.m
  OBVIOUS
<1>2. M \in NodeMaps /\ DOMAIN M \subseteq Path /\ p \in DOMAIN M /\ q \in DOMAIN M
  BY <1>1, SoundParts, NodeMapFacts
<1>3. PICK F : F = Rested(M, p, q)
  OBVIOUS
<1>4. /\ F \in NodeMaps /\ DOMAIN F = DOMAIN M
      /\ \A r \in DOMAIN M : /\ F[r].dir = M[r].dir /\ F[r].layer = M[r].layer
                             /\ F[r].wh = M[r].wh
  BY <1>0, <1>2, <1>3, RestedFacts
<1>5. PICK g : g = Swap(F, p, q)
  OBVIOUS
<1>6. /\ DOMAIN g \subseteq Path
      /\ \A r \in Path \ (Tree(p) \cup Tree(q)) :
            /\ r \in DOMAIN g <=> r \in DOMAIN F
            /\ r \in DOMAIN g => g[r] = F[r]
      /\ q \in DOMAIN g /\ g[q] = F[p]
      /\ p \in DOMAIN g /\ g[p] = F[q]
      /\ \A c \in Kids(q) : /\ c \in DOMAIN g <=> Rebase(c, q, p) \in DOMAIN F
                            /\ c \in DOMAIN g => g[c] = F[Rebase(c, q, p)]
      /\ \A c \in Kids(p) : /\ c \in DOMAIN g <=> Rebase(c, p, q) \in DOMAIN F
                            /\ c \in DOMAIN g => g[c] = F[Rebase(c, p, q)]
  BY <1>2, <1>4, <1>5, SwapFacts
<1>7. g \in NodeMaps
  <2>1. \A r \in DOMAIN F : F[r] \in Node
    BY <1>4, NodeMapFacts
  <2>2. g \in [DOMAIN g -> Node]
    BY <1>2, <1>4, <1>5, <2>1, SwapIn
  <2>3. PICK D : D = DOMAIN g
    OBVIOUS
  <2>4. D \in SUBSET Path /\ g \in [D -> Node]
    BY <1>6, <2>2, <2>3
  <2>. QED
    BY <2>4, NodeMapMade
<1>8. PICK R : R = Rewhite(g, p, q)
  OBVIOUS
<1>9. /\ R \in NodeMaps /\ DOMAIN R = DOMAIN g
      /\ \A r \in DOMAIN g : /\ R[r].dir = g[r].dir /\ R[r].layer = g[r].layer
                             /\ r # q => R[r].wh = g[r].wh
      /\ R[q].wh \subseteq Kids(q) /\ (g[q].wh = {} => R[q].wh = {})
  <2>1. \A x \in g[q].wh : Rebase(x, p, q) \in Kids(q)
    BY <1>1, <1>2, <1>4, <1>6, WhiteoutsFit
  <2>. QED
    BY <1>6, <1>7, <1>8, <2>1, RewhiteFacts
<1>10. /\ N \in NodeMaps /\ DOMAIN N = DOMAIN R
       /\ \A r \in DOMAIN R : /\ N[r].dir = R[r].dir /\ N[r].layer = R[r].layer
                              /\ r # p => N[r].wh = R[r].wh
       /\ N[p].wh \subseteq Kids(p) /\ (R[p].wh = {} => N[p].wh = {})
  <2>1. R[p].wh = M[q].wh
    BY <1>0, <1>2, <1>4, <1>6, <1>9
  <2>2. \A x \in R[p].wh : Rebase(x, q, p) \in Kids(p)
    BY <1>0, <1>1, <1>2, <2>1, WhiteoutsFit
  <2>3. N = Rewhite(R, q, p)
    BY <1>1, <1>3, <1>5, <1>8 DEF ExchangedNodes
  <2>4. R \in NodeMaps /\ p \in DOMAIN R
    BY <1>6, <1>9
  <2>. QED
    BY <2>2, <2>3, <2>4, RewhiteFacts
<1>11. \A r \in DOMAIN g : /\ N[r].dir = g[r].dir /\ N[r].layer = g[r].layer
                           /\ r # q /\ r # p => N[r].wh = g[r].wh
  BY <1>9, <1>10
<1>12. /\ N[q].wh \subseteq Kids(q) /\ (g[q].wh = {} => N[q].wh = {})
       /\ N[p].wh \subseteq Kids(p) /\ (g[p].wh = {} => N[p].wh = {})
  BY <1>0, <1>6, <1>9, <1>10
<1>13. DOMAIN N = DOMAIN g
  BY <1>9, <1>10
<1>14. ASSUME NEW r \in Path \ (Tree(p) \cup Tree(q))
       PROVE  /\ r \in DOMAIN N <=> r \in DOMAIN M
              /\ r \in DOMAIN N => /\ N[r].dir = M[r].dir /\ N[r].layer = M[r].layer
                                   /\ N[r].wh = M[r].wh
  <2>1. (r \in DOMAIN g <=> r \in DOMAIN M) /\ r # p /\ r # q
    BY <1>0, <1>4, <1>6
  <2>2. ASSUME r \in DOMAIN g PROVE g[r] = F[r] /\ r \in DOMAIN M
    BY <1>4, <1>6, <2>2
  <2>. QED
    BY <1>4, <1>11, <1>13, <2>1, <2>2
<1>15. /\ q \in DOMAIN N /\ N[q].dir = M[p].dir /\ N[q].layer = M[p].layer
       /\ p \in DOMAIN N /\ N[p].dir = M[q].dir /\ N[p].layer = M[q].layer
  BY <1>2, <1>4, <1>6, <1>11, <1>13
<1>16. (M[p].wh = {} => N[q].wh = {}) /\ (M[q].wh = {} => N[p].wh = {})
  BY <1>2, <1>4, <1>6, <1>12
<1>17. ASSUME NEW c \in Kids(q), c \in DOMAIN N, NEW x, x = Rebase(c, q, p)
       PROVE  x \in DOMAIN M /\ N[c].dir = M[x].dir /\ N[c].layer = M[x].layer /\ N[c].wh = M[x].wh
  <2>1. c \in DOMAIN g /\ x \in DOMAIN F /\ g[c] = F[x] /\ c # p /\ c # q
    BY <1>0, <1>6, <1>13, <1>17
  <2>. QED
    BY <1>4, <1>11, <2>1
<1>18. ASSUME NEW c \in Kids(p), c \in DOMAIN N, NEW x, x = Rebase(c, p, q)
       PROVE  x \in DOMAIN M /\ N[c].dir = M[x].dir /\ N[c].layer = M[x].layer /\ N[c].wh = M[x].wh
  <2>1. c \in DOMAIN g /\ x \in DOMAIN F /\ g[c] = F[x] /\ c # p /\ c # q
    BY <1>0, <1>6, <1>13, <1>18
  <2>. QED
    BY <1>4, <1>11, <2>1
<1>. QED
  BY <1>1, <1>10, <1>12, <1>14, <1>15, <1>16, <1>17, <1>18

\* RENAME_EXCHANGE keeps the state sound.
LEMMA ExchangedSound ==
    ASSUME NEW s, NEW p, NEW q, Movable(s, p, q), q \in DOMAIN s.m,
           s.m[q].dir => Len(p) = Len(q), NEW t, t = Exchanged(s, p, q)
    PROVE  t \in Sound
<1>0. /\ s \in Sound /\ Apart(p, q) /\ Ready(s, p) /\ Ready(s, q)
      /\ p \in DOMAIN s.m /\ (s.m[p].dir => Len(p) = Len(q))
      /\ p \in Path \ {Base} /\ q \in Path \ {Base} /\ Apart(q, p)
  BY DEF Movable, Apart
<1>1. PICK U, W : U = s.u /\ W = s.w
  OBVIOUS
<1>2. U \in [Path -> UpperEnt] /\ W \in SUBSET (Path \ {Base}) /\ DOMAIN U = Path
  BY <1>0, <1>1, SoundParts
<1>3. /\ Under(p) = Kids(p) /\ Under(q) = Kids(q)
      /\ Kids(p) \subseteq Tree(p) \cup Tree(q) /\ Kids(q) \subseteq Tree(p) \cup Tree(q)
      /\ Kids(p) \cap Kids(q) = {}
      /\ Kids(p) \subseteq Path \ {Base} /\ Kids(q) \subseteq Path \ {Base}
  BY <1>0, UnderKids DEF Tree, Kids, Apart
<1>4. PICK N : N = ExchangedNodes(s.m, p, q)
  OBVIOUS
<1>5. /\ N \in NodeMaps
      /\ \A r \in Path \ (Tree(p) \cup Tree(q)) :
            /\ r \in DOMAIN N <=> r \in DOMAIN s.m
            /\ r \in DOMAIN N => /\ N[r].dir = s.m[r].dir /\ N[r].layer = s.m[r].layer
                                 /\ N[r].wh = s.m[r].wh
      /\ q \in DOMAIN N /\ N[q].dir = s.m[p].dir /\ N[q].layer = s.m[p].layer
      /\ N[q].wh \subseteq Kids(q) /\ (s.m[p].wh = {} => N[q].wh = {})
      /\ p \in DOMAIN N /\ N[p].dir = s.m[q].dir /\ N[p].layer = s.m[q].layer
      /\ N[p].wh \subseteq Kids(p) /\ (s.m[q].wh = {} => N[p].wh = {})
      /\ \A c \in Kids(q) : c \in DOMAIN N =>
            /\ Rebase(c, q, p) \in DOMAIN s.m
            /\ N[c].dir = s.m[Rebase(c, q, p)].dir
            /\ N[c].layer = s.m[Rebase(c, q, p)].layer
            /\ N[c].wh = s.m[Rebase(c, q, p)].wh
      /\ \A c \in Kids(p) : c \in DOMAIN N =>
            /\ Rebase(c, p, q) \in DOMAIN s.m
            /\ N[c].dir = s.m[Rebase(c, p, q)].dir
            /\ N[c].layer = s.m[Rebase(c, p, q)].layer
            /\ N[c].wh = s.m[Rebase(c, p, q)].wh
  BY <1>0, <1>4, ExchangedNodesFacts
<1>6. PICK g : g = Swap(U, p, q)
  OBVIOUS
<1>7. /\ DOMAIN g \subseteq Path
      /\ \A r \in Path \ (Tree(p) \cup Tree(q)) : r \in DOMAIN g /\ g[r] = U[r]
      /\ q \in DOMAIN g /\ g[q] = U[p] /\ p \in DOMAIN g /\ g[p] = U[q]
      /\ \A c \in Kids(q) : /\ c \in DOMAIN g <=> Rebase(c, q, p) \in Path
                            /\ c \in DOMAIN g => g[c] = U[Rebase(c, q, p)]
      /\ \A c \in Kids(p) : /\ c \in DOMAIN g <=> Rebase(c, p, q) \in Path
                            /\ c \in DOMAIN g => g[c] = U[Rebase(c, p, q)]
  <2>1. DOMAIN U \subseteq Path /\ p \in DOMAIN U /\ q \in DOMAIN U
    BY <1>0, <1>2
  <2>. QED
    BY <1>0, <1>2, <1>6, <2>1, SwapFacts
<1>8. g \in [DOMAIN g -> UpperEnt]
  <2>1. DOMAIN U \subseteq Path /\ p \in DOMAIN U /\ q \in DOMAIN U
        /\ \A r \in DOMAIN U : U[r] \in UpperEnt
    BY <1>0, <1>2
  <2>. QED
    BY <1>0, <1>6, <2>1, SwapIn
<1>9. PICK V : V = Total(g)
  OBVIOUS
<1>10. V \in [Path -> UpperEnt] /\ \A r \in Path : V[r] = IF r \in DOMAIN g THEN g[r] ELSE "none"
  <2>1. \A r \in DOMAIN g : g[r] \in UpperEnt
    BY <1>8
  <2>. QED
    BY <1>9, <2>1, TotalFacts
<1>11. PICK Z : Z = ExchangedNames(W, p, q)
  OBVIOUS
<1>12. /\ Z \in SUBSET (Path \ {Base})
       /\ \A r \in Path \ (Tree(p) \cup Tree(q)) : r \in Z => r \in W
       /\ \A c \in Kids(q) : c \in Z => Rebase(c, q, p) \in W
       /\ \A c \in Kids(p) : c \in Z => Rebase(c, p, q) \in W
  <2>1. Z = (W \ (Kids(p) \cup Kids(q))) \cup {r \in Kids(q) : Rebase(r, q, p) \in W}
                                         \cup {r \in Kids(p) : Rebase(r, p, q) \in W}
    BY <1>3, <1>11 DEF ExchangedNames
  <2>. QED
    BY <1>2, <1>3, <2>1
<1>13. t.u = V /\ t.w = Z /\ t.m = N /\ t \in States
  <2>1. t = [u |-> V, w |-> Z, m |-> N]
    BY <1>1, <1>4, <1>6, <1>9, <1>11 DEF Exchanged
  <2>. QED
    BY <1>5, <1>10, <1>12, <2>1 DEF States
<1>14. Aside(s, t, p, q)
  <2>1. ASSUME NEW r \in Path \ (Tree(p) \cup Tree(q))
        PROVE  CameFrom(s, t, r, r) /\ (r \in DOMAIN s.m => r \in DOMAIN t.m)
    <3>1. t.u[r] = s.u[r] /\ (r \in t.w => r \in s.w)
      BY <1>1, <1>7, <1>10, <1>12, <1>13
    <3>. QED
      BY <1>5, <1>13, <3>1 DEF CameFrom
  <2>. QED
    BY <2>1 DEF Aside
<1>15. Taken(s, t, q, p)
  <2>1. t.u[q] = s.u[p]
    BY <1>0, <1>1, <1>7, <1>10, <1>13
  <2>2. \A c \in Kids(q) :
           /\ t.u[c] = IF Rebase(c, q, p) \in Path THEN s.u[Rebase(c, q, p)] ELSE "none"
           /\ c \in t.w => Rebase(c, q, p) \in s.w
    BY <1>1, <1>3, <1>7, <1>10, <1>12, <1>13
  <2>. QED
    BY <1>0, <1>5, <1>13, <2>1, <2>2, TakenFrom
<1>16. Taken(s, t, p, q)
  <2>1. t.u[p] = s.u[q]
    BY <1>0, <1>1, <1>7, <1>10, <1>13
  <2>2. \A c \in Kids(p) :
           /\ t.u[c] = IF Rebase(c, p, q) \in Path THEN s.u[Rebase(c, p, q)] ELSE "none"
           /\ c \in t.w => Rebase(c, p, q) \in s.w
    BY <1>1, <1>3, <1>7, <1>10, <1>12, <1>13
  <2>. QED
    BY <1>0, <1>5, <1>13, <2>1, <2>2, TakenFrom
<1>. QED
  BY <1>0, <1>13, <1>14, <1>15, <1>16, Relocate

\* rename with RENAME_EXCHANGE keeps the invariant.
LEMMA ExchangeStep ==
    ASSUME Inv, NEW p \in Path, NEW q \in Path, RenameExchange(p, q)
    PROVE  Inv'
<1>0. setup \in Setups /\ Nameable(Now, p) /\ Nameable(Now, q) /\ Renames("exchange", p, q)
      /\ p \in Path \ {Base} /\ q \in Path \ {Base}
  BY NamedNow DEF Inv, RenameExchange, Renames, Named
<1>1. CASE Refused("exchange", p, q)
  BY <1>0, <1>1, RefusedSound
<1>2. CASE ~Refused("exchange", p, q)
  <2>1. Accepted(p)
    BY <1>2 DEF RenameExchange
  <2>2. PICK b, s1 : b = Preparing(p, q) /\ s1 = Target(p, q)
    OBVIOUS
  <2>3. /\ b \in Seq(Sound) /\ s1 \in Sound
        /\ Ready(s1, p) /\ Ready(s1, q) /\ p \in DOMAIN s1.m
        /\ p # q /\ Parent(q) # p
        /\ s1.m[p].dir => Len(p) = Len(q)
    BY <1>0, <2>1, <2>2, Prepared
  <2>4. PICK s2 : s2 = Unhidden(s1, p, q)
    OBVIOUS
  <2>5. PICK s3 : s3 = Unload(s2, p, q)
    OBVIOUS
  <2>6. PICK t : t = Exchanged(s3, p, q)
    OBVIOUS
  <2>7. /\ q \in DOMAIN s1.m /\ Parent(p) # q /\ (s1.m[q].dir => Len(p) = Len(q))
        /\ \/ Fail("exchange", <<p, q>>, "ENOENT", s2)
           \/ Through("exchange", <<p, q>>, b \o <<s1, s2>>, <<t>>)
    BY <1>2, <2>2, <2>4, <2>5, <2>6
    DEF RenameExchange, Exchanged, ExchangedNames, ExchangedNodes, Rested, Rest
  <2>8. Movable(s1, p, q)
    BY <1>0, <2>3, <2>7 DEF Movable, Apart
  <2>9. Movable(s2, p, q) /\ s2 \in Sound /\ s2.m = s1.m
    BY <2>4, <2>8, UnhiddenFacts DEF Movable
  <2>10. s3 \in Sound /\ Alike(s2, s3)
    BY <2>5, <2>9, UnloadFacts DEF Movable, Ready
  <2>11. Movable(s3, p, q) /\ q \in DOMAIN s3.m /\ (s3.m[q].dir => Len(p) = Len(q))
    BY <2>7, <2>9, <2>10 DEF Movable, Alike, Ready, Nameable
  <2>12. t \in Sound
    BY <2>6, <2>11, ExchangedSound
  <2>13. PICK c, a, d : c = <<s1, s2>> /\ a = b \o c /\ d = <<t>>
    OBVIOUS
  <2>14. c \in Seq(Sound) /\ d \in Seq(Sound) /\ Len(d) > 0
    BY <2>3, <2>9, <2>12, <2>13, TwoStates, OneState
  <2>15. a \in Seq(Sound)
    <3>1. b \in Seq(Sound) /\ c \in Seq(Sound) /\ a = b \o c
      BY <2>3, <2>13, <2>14
    <3>. QED
      BY <3>1, JoinStates
  <2>16. CASE Fail("exchange", <<p, q>>, "ENOENT", s2)
    BY <1>0, <2>9, <2>16, BecomeSound DEF Fail
  <2>17. CASE Through("exchange", <<p, q>>, a, d)
    BY <1>0, <2>14, <2>15, <2>17, ThroughSound
  <2>. QED
    BY <2>7, <2>13, <2>16, <2>17
<1>. QED
  BY <1>1, <1>2

-----------------------------------------------------------------------------

\* The first mount is sound.
LEMMA InitSound == Init => Inv
<1>1. SUFFICES ASSUME Init PROVE Inv
  OBVIOUS
<1>2. setup \in Setups
  BY <1>1 DEF Init
<1>3. PICK U, W, M : U = u /\ W = w /\ M = mem
  OBVIOUS
<1>4. U = [p \in Path |-> IF p = Base THEN "dir" ELSE "none"] /\ W = {} /\ M = Fresh
  BY <1>1, <1>3 DEF Init
<1>5. U \in [Path -> UpperEnt] /\ W \in SUBSET (Path \ {Base})
  <2>1. "dir" \in UpperEnt /\ "none" \in UpperEnt
    BY DEF UpperEnt, DirEnt
  <2>. QED
    BY <1>4, <2>1
<1>6. /\ M \in NodeMaps /\ DOMAIN M = {Base}
      /\ M[Base].dir /\ M[Base].layer = 0 /\ M[Base].wh = {}
  BY <1>2, <1>4, FreshMap
<1>7. U[Base] \in DirEnt /\ \A p \in Path \ {Base} : U[p] = "none"
  BY <1>4 DEF Path, DirEnt
<1>8. Fits(U, W, M)
  BY <1>4, <1>6, <1>7 DEF Fits, EntriesHang, TopFits, NodesHang, NodeFits
<1>9. [u |-> U, w |-> W, m |-> M] \in Sound
  BY <1>5, <1>6, <1>8, MakeSound
<1>. QED
  BY <1>2, <1>3, <1>9 DEF Inv, Now

\* Every handler, whether it succeeds, fails or crashes, keeps the invariant.
LEMMA NextSound == Inv /\ [Next]_vars => Inv'
<1>1. SUFFICES ASSUME Inv, [Next]_vars PROVE Inv'
  OBVIOUS
<1>2. CASE UNCHANGED vars
  BY <1>1, <1>2 DEF vars, Inv, Now
<1>3. ASSUME NEW p \in Path, LookupFast(p) \/ LookupSlow(p) PROVE Inv'
  BY <1>1, <1>3, LookupStep
<1>4. ASSUME NEW p \in Path, Opendir(p) PROVE Inv'
  BY <1>1, <1>4, OpendirStep
<1>5. ASSUME NEW p \in Path, Create(p) PROVE Inv'
  BY <1>1, <1>5, CreateStep
<1>6. ASSUME NEW p \in Path, Mknod(p) \/ Symlink(p) PROVE Inv'
  BY <1>1, <1>6, MakeAsideStep DEF Mknod, Symlink
<1>7. ASSUME NEW p \in Path, Mkdir(p) PROVE Inv'
  BY <1>1, <1>7, MkdirStep
<1>8. ASSUME NEW p \in Path, Unlink(p) \/ Rmdir(p) PROVE Inv'
  <2>1. PICK no \in BOOLEAN, yes \in BOOLEAN : no = FALSE /\ yes = TRUE
    OBVIOUS
  <2>2. do_rm("unlink", p, no) \/ do_rm("rmdir", p, yes)
    BY <1>8, <2>1 DEF Unlink, Rmdir
  <2>. QED
    BY <1>1, <2>2, RmStep
<1>9. ASSUME NEW p \in Path, Write(p) PROVE Inv'
  BY <1>1, <1>9, WriteStep
<1>10. ASSUME NEW p \in Path, Setattr(p) PROVE Inv'
  BY <1>1, <1>10, SetattrStep
<1>11. ASSUME NEW p \in Path, Refresh(p) PROVE Inv'
  BY <1>1, <1>11, RefreshStep
<1>12. ASSUME NEW p \in Path, NEW q \in Path, Link(p, q) PROVE Inv'
  BY <1>1, <1>12, LinkStep
<1>13. ASSUME NEW p \in Path, NEW q \in Path, Rename(p, q) PROVE Inv'
  BY <1>1, <1>13, RenameStep
<1>14. ASSUME NEW p \in Path, NEW q \in Path, RenameNoreplace(p, q) PROVE Inv'
  BY <1>1, <1>14, NoreplaceStep
<1>15. ASSUME NEW p \in Path, NEW q \in Path, RenameExchange(p, q) PROVE Inv'
  BY <1>1, <1>15, ExchangeStep
<1>16. CASE Remount
  BY <1>1, <1>16, RemountStep
<1>. QED
  BY <1>1, <1>2, <1>3, <1>4, <1>5, <1>6, <1>7, <1>8, <1>9, <1>10, <1>11, <1>12, <1>13,
     <1>14, <1>15, <1>16 DEF Next

\* The invariant says more than the types and the shape of the tree.
LEMMA InvIsTyped == Inv => TypeOK
<1>1. SUFFICES ASSUME Inv PROVE TypeOK
  OBVIOUS
<1>2. PICK U, W, M : U = u /\ W = w /\ M = mem
  OBVIOUS
<1>3. setup \in Setups /\ Now \in Sound /\ Now.u = U /\ Now.w = W /\ Now.m = M
  BY <1>1, <1>2, NowParts DEF Inv
<1>4. /\ U \in [Path -> UpperEnt] /\ W \subseteq Path \ {Base} /\ M \in NodeMaps /\ Fits(U, W, M)
  BY <1>3, SoundParts
<1>5. M \in [DOMAIN M -> Node] /\ DOMAIN M \subseteq Path
  BY <1>4, NodeMapFacts
<1>6. IsMap(M, Path, Node)
  BY <1>5 DEF IsMap
<1>. QED
  BY <1>2, <1>3, <1>4, <1>6 DEF TypeOK, Fits, NodesHang, EntriesHang, TopFits

\* For all names, all numbers of layers and all that the lower layers can hold:
\* whatever handlers run, fail or crash, the cache remains a tree of nodes under
\* directory nodes, and the upper layer one of entries under directories; no
\* handler follows a node to a parent that is not there (do_lookup_file,
\* get_node_up, rename), and none makes an entry in what is not a directory.
THEOREM OverlayTypeCorrect == Spec => []TypeOK
<1>. QED
  BY InitSound, NextSound, InvIsTyped, PTL DEF Spec
=============================================================================
