------------------------- MODULE FlatTreeProofs -------------------------
(***************************************************************************)
(* Proofs about OverlayTree for directories that hold only files: the      *)
(* cache is right about every name, a failure or a crash leaves the old    *)
(* files or the new ones, and the handlers implement AbstractFS.           *)
(***************************************************************************)
EXTENDS OverlayTreeProofs

-----------------------------------------------------------------------------
(* What a setup's lower layers and an upper layer show. *)

\* At, Dot, Hit and Whited of OverlayTree, with the lower layers as a parameter:
\* what layer i holds at p, its .wh. file, whether load_dir sees either, and
\* whether that hides what is below.
AtIn(L, s, i, p) == IF i = 0 THEN s.u[p] ELSE IF L[i][p] = "dotwh" THEN "none" ELSE L[i][p]
DotIn(L, s, i, p) == IF i = 0 THEN p \in s.w ELSE L[i][p] = "dotwh"
HitIn(L, s, i, p) == AtIn(L, s, i, p) # "none" \/ DotIn(L, s, i, p)
WhitedIn(L, s, i, p) == DotIn(L, s, i, p) \/ AtIn(L, s, i, p) = "wh"

\* The layers with an entry for a name of the directory, the first of them, which
\* decides, and what users see there: the entry, or nothing if it is a whiteout.
Hits(L, s, p) == {i \in Layer : HitIn(L, s, i, p)}
First(L, s, p) == Min(Hits(L, s, p))
Seen(L, s, p) == Hits(L, s, p) # {} /\ ~WhitedIn(L, s, First(L, s, p), p)
Shown(L, s, p) ==
    IF p = Base THEN "dir"
    ELSE IF Parent(p) = Base /\ Seen(L, s, p) THEN AtIn(L, s, First(L, s, p), p)
    ELSE "none"
Shows(L, s) == [p \in Path |-> Shown(L, s, p)]

\* They are those of OverlayTree.
LEMMA InLayers ==
    ASSUME NEW L, L = lower, NEW s, NEW i, NEW p
    PROVE  /\ At(s, i, p) = AtIn(L, s, i, p)
           /\ Dot(s, i, p) <=> DotIn(L, s, i, p)
           /\ Hit(s, i, p) <=> HitIn(L, s, i, p)
           /\ Whited(s, i, p) <=> WhitedIn(L, s, i, p)
           /\ Present(s, i, p) <=> AtIn(L, s, i, p) # "none"
<1>1. At(s, i, p) = AtIn(L, s, i, p)
  BY DEF At, AtIn
<1>2. Dot(s, i, p) <=> DotIn(L, s, i, p)
  BY DEF Dot, DotIn
<1>. QED
  BY <1>1, <1>2 DEF Hit, HitIn, Whited, WhitedIn, Present

\* A mount whose layers hold files only.  It is a merged directory, or the root
\* if no file is made there (see the run root_unlink); no directory is made and
\* nothing renamed.  Two windows in which the code leaves what it should not are
\* left out: a failure after hide_node made its .wh. file or link removed its
\* whiteout, and a crash that leaves a .wh. file for a later link to remove.
\* RefreshAssumption keeps refresh to mounts without write, setattr and link.
Flat(st) ==
    /\ \A i \in 1 .. NL : \A p \in Path \ {Base} : st.lower[i][p] \notin DirEnt
    /\ \/ st.last = NL
       \/ st.last = 0 /\ st.calls \cap {"create", "mknod", "symlink", "link"} = {}
    /\ st.calls \cap {"mkdir", "rename", "noreplace", "exchange"} = {}
    /\ "fail" \in st.calls => st.can_mknod /\ "link" \notin st.calls
    /\ "crash" \in st.calls /\ "link" \in st.calls => st.can_mknod

-----------------------------------------------------------------------------
(* What users see: Stack and Merged of a flat mount. *)

\* The body of Stack: of the layers S that the parent is merged from, those in which
\* p is a merged directory too.
MergedFrom(S, p) ==
    LET hits == {i \in S : Hit(Now, i, p)}
    IN  {i \in hits :
            /\ At(Now, i, p) \in DirEnt
            /\ ~Whited(Now, i, p)
            /\ \A j \in hits : j < i => At(Now, j, p) = "dir" /\ ~Whited(Now, j, p)}

StackBody(f, p) == IF p = Base THEN Layer ELSE MergedFrom(f[Parent(p)], p)

\* Stack is the fixed point of its definition.
LEMMA StackFixed ==
    ASSUME NEW f, f = [p \in Path |-> StackBody(f, p)]
    PROVE  Stack = [p \in Path |-> StackBody(Stack, p)]
BY Zenon DEF Stack, StackBody, MergedFrom

\* Paths have at most two names, so Stack can be written down.
LEMMA StackUnfolds ==
    \A p \in Path : Stack[p] = StackBody(Stack, p)
<1>1. PICK one : one = [p \in Path |-> IF p = Base THEN Layer ELSE MergedFrom(Layer, p)]
  OBVIOUS
<1>2. PICK f : f = [p \in Path |-> IF p = Base THEN Layer ELSE MergedFrom(one[Parent(p)], p)]
  OBVIOUS
<1>3. ASSUME NEW p \in Path PROVE f[p] = StackBody(f, p)
  <2>1. CASE p = Base
    BY <1>2, <2>1 DEF StackBody
  <2>2. CASE p # Base
    <3>1. f[p] = MergedFrom(one[Parent(p)], p) /\ Parent(p) \in Path
      BY <1>2, <2>2, Parents
    <3>2. one[Parent(p)] = f[Parent(p)]
      <4>1. CASE Parent(p) = Base
        BY <1>1, <1>2, <3>1, <4>1
      <4>2. CASE Parent(p) # Base
        <5>1. Parent(Parent(p)) = Base
          <6>1. PICK i, j : i = Len(p) /\ j = Len(Parent(p))
            OBVIOUS
          <6>2. i \in {1, 2} /\ j = i - 1 /\ j \in {1, 2}
            BY <2>2, <3>1, <4>2, <6>1, Parents
          <6>3. Len(Parent(p)) = 1
            BY <6>1, <6>2
          <6>. QED
            BY <3>1, <4>2, <6>3, Parents
        <5>2. Base \in Path
          BY DEF Path
        <5>3. f[Parent(p)] = MergedFrom(one[Base], Parent(p)) /\ one[Base] = Layer
          BY <1>1, <1>2, <3>1, <4>2, <5>1, <5>2
        <5>4. one[Parent(p)] = MergedFrom(Layer, Parent(p))
          BY <1>1, <3>1, <4>2
        <5>. QED
          BY <5>3, <5>4
      <4>. QED
        BY <4>1, <4>2
    <3>. QED
      BY <2>2, <3>1, <3>2 DEF StackBody
  <2>. QED
    BY <2>1, <2>2
<1>4. f = [p \in Path |-> StackBody(f, p)]
  <2>1. f = [p \in Path |-> f[p]]
    BY <1>2
  <2>2. [p \in Path |-> f[p]] = [p \in Path |-> StackBody(f, p)]
    BY <1>3
  <2>. QED
    BY <2>1, <2>2
<1>5. Stack = [p \in Path |-> StackBody(Stack, p)]
  BY <1>4, StackFixed
<1>6. PICK g : g = Stack
  OBVIOUS
<1>7. g = [p \in Path |-> StackBody(g, p)]
  BY <1>5, <1>6
<1>8. \A p \in Path : g[p] = StackBody(g, p)
  BY <1>7
<1>. QED
  BY <1>6, <1>8

\* What is on disk at a name, and what the cache says of it.  The upper layer
\* holds files and whiteouts; .wh. files only if the code makes those; in setups
\* with link none beside a file; where no files are made, every file is on a
\* lower layer too, so that last_layer_idx shows what a whiteout has to hide.
DiskAt(st, s, p) ==
    /\ s.u[p] \notin DirEnt
    /\ st.can_mknod => p \notin s.w
    /\ "link" \in st.calls => s.u[p] \in {"none", "wh"} \/ p \notin s.w
    /\ st.last = 0 => s.u[p] \in {"none", "wh"} \/ \E i \in 1 .. NL : AtIn(st.lower, s, i, p) # "none"

\* A cached node stands for a file that the layers show, at the layer that shows
\* it; hide_node knows from it or from its directory whether it needs a whiteout.
NodeAt(st, s, p) ==
    p \in DOMAIN s.m =>
        /\ ~s.m[p].dir
        /\ Seen(st.lower, s, p)
        /\ s.m[p].layer = First(st.lower, s, p)
        /\ s.m[p].last > 0 \/ st.last > 0

\* A name that the cache has as a whiteout is not shown.
WhAt(st, s, p) == p \notin DOMAIN s.m /\ p \in s.m[Base].wh => ~Seen(st.lower, s, p)

\* A loaded directory has every name of its layers, as a node or as a whiteout.
LoadedAt(st, s, p) ==
    Parent(p) = Base /\ p \notin DOMAIN s.m /\ s.m[Base].loaded /\ Hits(st.lower, s, p) # {}
        => p \in s.m[Base].wh

\* What the cache and the disk say of a name is right.
RightAt(st, s, p) == DiskAt(st, s, p) /\ NodeAt(st, s, p) /\ WhAt(st, s, p) /\ LoadedAt(st, s, p)

\* The upper layer of a flat mount.
FlatDisk(st, s) == s.u[Base] = "dir" /\ \A p \in Path \ {Base} : DiskAt(st, s, p)

\* The states that the handlers of a flat setup keep to.
Right(st, s) ==
    /\ s.u[Base] = "dir"
    /\ s.m[Base].last = st.last
    /\ \A p \in Path \ {Base} : RightAt(st, s, p)

\* On a flat mount, Merged is what the first layer with an entry shows.
LEMMA MergedFlat ==
    setup \in Setups /\ Flat(setup) /\ Now \in Sound /\ FlatDisk(setup, Now) =>
        \A p \in Path : Merged(p) = Shown(lower, Now, p)
<1>1. SUFFICES ASSUME setup \in Setups, Flat(setup), Now \in Sound, FlatDisk(setup, Now),
                      NEW p \in Path
               PROVE  Merged(p) = Shown(lower, Now, p)
  OBVIOUS
<1>2. PICK L, s : L = lower /\ s = Now
  OBVIOUS
<1>3. CASE p = Base
  BY <1>3 DEF Merged, Shown
<1>4. CASE p # Base
  <2>1. PICK d, S : d = Parent(p) /\ S = Stack[d]
    OBVIOUS
  <2>2. d \in Path
    BY <1>4, <2>1, Parents
  <2>3. PICK H : H = {i \in S : Hit(s, i, p)}
    OBVIOUS
  <2>4. Merged(p) = IF H = {} \/ Whited(s, Min(H), p) THEN "none"
                    ELSE IF At(s, Min(H), p) \in DirEnt THEN "dir" ELSE At(s, Min(H), p)
    BY <1>2, <1>4, <2>1, <2>3 DEF Merged
  <2>5. \A i \in Layer, q \in Path \ {Base} : At(s, i, q) \notin DirEnt
    <3>1. ASSUME NEW i \in Layer, NEW q \in Path \ {Base} PROVE At(s, i, q) \notin DirEnt
      <4>1. CASE i = 0
        BY <1>1, <1>2, <4>1 DEF At, FlatDisk, DiskAt
      <4>2. CASE i # 0
        <5>1. i \in 1 .. NL
          BY <1>1, <4>2, SetupFacts
        <5>2. lower[i][q] \notin DirEnt
          BY <1>1, <5>1 DEF Flat, lower
        <5>. QED
          BY <4>2, <5>2 DEF At, DirEnt
      <4>. QED
        BY <4>1, <4>2
    <3>. QED
      BY <3>1
  <2>6. CASE d = Base
    <3>1. S = Layer
      BY <2>1, <2>2, <2>6, StackUnfolds DEF StackBody
    <3>2. H = Hits(L, s, p)
      BY <1>2, <2>3, <3>1, InLayers DEF Hits
    <3>3. H # {} => Min(H) \in Layer
      BY <3>2, MinLayer DEF Hits
    <3>4. Shown(L, s, p) = IF H # {} /\ ~WhitedIn(L, s, Min(H), p) THEN AtIn(L, s, Min(H), p) ELSE "none"
      BY <1>4, <2>1, <2>6, <3>2 DEF Shown, Seen, First
    <3>5. PICK i : i = Min(H)
      OBVIOUS
    <3>6. (Whited(s, i, p) <=> WhitedIn(L, s, i, p)) /\ At(s, i, p) = AtIn(L, s, i, p)
      BY <1>2, InLayers
    <3>7. H # {} => At(s, i, p) \notin DirEnt
      BY <1>4, <2>5, <3>3, <3>5
    <3>. QED
      BY <1>2, <2>4, <3>4, <3>5, <3>6, <3>7
  <2>7. CASE d # Base
    <3>1. PICK e : e = Stack[Parent(d)]
      OBVIOUS
    <3>2. S = MergedFrom(e, d)
      BY <2>1, <2>2, <2>7, <3>1, StackUnfolds DEF StackBody
    <3>3. e = Layer
      <4>1. Parent(d) = Base
        <5>1. PICK i, j : i = Len(p) /\ j = Len(d)
          OBVIOUS
        <5>2. i \in {1, 2} /\ j = i - 1 /\ j \in {1, 2}
          BY <1>4, <2>1, <2>2, <2>7, <5>1, Parents
        <5>3. Len(d) = 1
          BY <5>1, <5>2
        <5>. QED
          BY <2>2, <2>7, <5>3, Parents
      <4>2. Base \in Path
        BY DEF Path
      <4>. QED
        BY <3>1, <4>1, <4>2, StackUnfolds DEF StackBody
    <3>4. S = {}
      BY <1>2, <2>2, <2>5, <2>7, <3>2, <3>3 DEF MergedFrom
    <3>5. H = {}
      BY <2>3, <3>4
    <3>6. Shown(L, s, p) = "none"
      BY <1>4, <2>1, <2>7 DEF Shown
    <3>. QED
      BY <1>2, <2>4, <3>5, <3>6
  <2>. QED
    BY <2>6, <2>7
<1>. QED
  BY <1>3, <1>4

\* The same of the state after a step.
LEMMA MergedFlatNext ==
    (setup \in Setups /\ Flat(setup) /\ Now \in Sound /\ FlatDisk(setup, Now))' =>
        (\A p \in Path : Merged(p) = Shown(lower, Now, p))'
BY MergedFlat, PTL

-----------------------------------------------------------------------------
(* One name at a time. *)

\* What the layers show at a name depends on its own entries only.
LEMMA SameCell ==
    ASSUME NEW L, NEW s, NEW t, NEW p, t.u[p] = s.u[p], p \in t.w <=> p \in s.w
    PROVE  /\ \A i \in Layer : AtIn(L, t, i, p) = AtIn(L, s, i, p)
           /\ Hits(L, t, p) = Hits(L, s, p)
           /\ First(L, t, p) = First(L, s, p)
           /\ Seen(L, t, p) <=> Seen(L, s, p)
           /\ Shown(L, t, p) = Shown(L, s, p)
<1>1. \A i : AtIn(L, t, i, p) = AtIn(L, s, i, p) /\ (DotIn(L, t, i, p) <=> DotIn(L, s, i, p))
  BY DEF AtIn, DotIn
<1>2. \A i : /\ HitIn(L, t, i, p) <=> HitIn(L, s, i, p)
             /\ WhitedIn(L, t, i, p) <=> WhitedIn(L, s, i, p)
  BY <1>1 DEF HitIn, WhitedIn
<1>3. Hits(L, t, p) = Hits(L, s, p)
  BY <1>2 DEF Hits
<1>4. First(L, t, p) = First(L, s, p)
  BY <1>3 DEF First
<1>5. Seen(L, t, p) <=> Seen(L, s, p)
  BY <1>2, <1>3, <1>4 DEF Seen
<1>. QED
  BY <1>1, <1>3, <1>4, <1>5 DEF Shown

\* The first layer that has anything at a name.
LEMMA FirstHit ==
    ASSUME NEW L, NEW s, NEW p, Hits(L, s, p) # {}, NEW f, f = First(L, s, p)
    PROVE  /\ f \in Layer /\ HitIn(L, s, f, p)
           /\ \A i \in Layer : HitIn(L, s, i, p) => f <= i
<1>1. Hits(L, s, p) \subseteq Layer
  BY DEF Hits
<1>2. f \in Hits(L, s, p) /\ \A i \in Hits(L, s, p) : f <= i
  BY <1>1, MinLayer DEF First
<1>. QED
  BY <1>2 DEF Hits

\* A layer with a hit above which there are none is the first.
LEMMA FirstIs ==
    ASSUME NEW L, NEW s, NEW p, NEW f \in Layer, HitIn(L, s, f, p),
           \A i \in Layer : HitIn(L, s, i, p) => f <= i
    PROVE  Hits(L, s, p) # {} /\ First(L, s, p) = f
<1>1. f \in Hits(L, s, p)
  BY DEF Hits
<1>2. PICK g : g = First(L, s, p)
  OBVIOUS
<1>3. g \in Layer /\ HitIn(L, s, g, p) /\ g <= f
  BY <1>1, <1>2, FirstHit
<1>4. f <= g
  BY <1>3
<1>5. f \in Nat /\ g \in Nat
  BY <1>3, SetupAssumption DEF Layer
<1>. QED
  BY <1>1, <1>2, <1>3, <1>4, <1>5

\* What is on the upper layer decides.
LEMMA UpperDecides ==
    ASSUME NEW L, NEW s, NEW p, s.u[p] # "none" \/ p \in s.w
    PROVE  /\ Hits(L, s, p) # {} /\ First(L, s, p) = 0
           /\ Seen(L, s, p) <=> s.u[p] # "wh" /\ p \notin s.w
           /\ AtIn(L, s, 0, p) = s.u[p]
<1>1. HitIn(L, s, 0, p) /\ (WhitedIn(L, s, 0, p) <=> p \in s.w \/ s.u[p] = "wh")
      /\ AtIn(L, s, 0, p) = s.u[p]
  BY DEF HitIn, WhitedIn, AtIn, DotIn
<1>2. 0 \in Layer /\ \A i \in Layer : 0 <= i
  BY SetupAssumption DEF Layer
<1>3. Hits(L, s, p) # {} /\ First(L, s, p) = 0
  BY <1>1, <1>2, FirstIs
<1>. QED
  BY <1>1, <1>3 DEF Seen

\* A name that is seen is a file or directory of its first layer.
LEMMA SeenEntry ==
    ASSUME NEW L, NEW s, NEW p, Seen(L, s, p), NEW f, f = First(L, s, p)
    PROVE  /\ f \in Layer
           /\ AtIn(L, s, f, p) \notin {"none", "wh"}
           /\ \A i \in Layer : AtIn(L, s, i, p) # "none" => f <= i
           /\ f > 0 => s.u[p] = "none" /\ p \notin s.w
           /\ f = 0 => s.u[p] \notin {"none", "wh"} /\ p \notin s.w
<1>1. Hits(L, s, p) # {} /\ ~WhitedIn(L, s, f, p)
  BY DEF Seen
<1>2. /\ f \in Layer /\ HitIn(L, s, f, p)
      /\ \A i \in Layer : HitIn(L, s, i, p) => f <= i
  BY <1>1, FirstHit
<1>3. AtIn(L, s, f, p) \notin {"none", "wh"} /\ ~DotIn(L, s, f, p)
  BY <1>1, <1>2 DEF WhitedIn, HitIn
<1>4. \A i \in Layer : AtIn(L, s, i, p) # "none" => f <= i
  BY <1>2 DEF HitIn
<1>5. ASSUME f > 0 PROVE s.u[p] = "none" /\ p \notin s.w
  <2>1. s.u[p] # "none" \/ p \in s.w => f = 0
    BY UpperDecides
  <2>. QED
    BY <1>5, <2>1
<1>6. ASSUME f = 0 PROVE s.u[p] \notin {"none", "wh"} /\ p \notin s.w
  BY <1>3, <1>6 DEF AtIn, DotIn
<1>. QED
  BY <1>2, <1>3, <1>4, <1>5, <1>6

\* Name q is on disk and in the cache of t as in those of s.
Like(s, t, q) ==
    /\ t.u[q] = s.u[q]
    /\ q \in t.w <=> q \in s.w
    /\ q \in DOMAIN t.m <=> q \in DOMAIN s.m
    /\ q \in DOMAIN s.m => /\ t.m[q].dir = s.m[q].dir /\ t.m[q].layer = s.m[q].layer
                           /\ t.m[q].last = s.m[q].last
    /\ q \in t.m[Base].wh <=> q \in s.m[Base].wh

\* A step of a handler that touches only name p.
OnlyAt(s, t, p) ==
    /\ t.u[Base] = s.u[Base]
    /\ t.m[Base].last = s.m[Base].last
    /\ t.m[Base].loaded => s.m[Base].loaded
    /\ \A q \in Path \ {Base, p} : Like(s, t, q)

\* Two steps at the same name.
LEMMA OnlyAtTwice ==
    ASSUME NEW r, NEW s, NEW t, NEW p, OnlyAt(r, s, p), OnlyAt(s, t, p)
    PROVE  OnlyAt(r, t, p)
BY DEF OnlyAt, Like

\* No step at all.
LEMMA OnlyAtSelf ==
    ASSUME NEW s, NEW p
    PROVE  OnlyAt(s, s, p)
BY DEF OnlyAt, Like

\* What such a step leaves alone stays right.
LEMMA RightKept ==
    ASSUME NEW st, NEW s, NEW t, NEW p, Right(st, s), OnlyAt(s, t, p),
           p # Base => RightAt(st, t, p)
    PROVE  Right(st, t)
<1>1. ASSUME NEW q \in Path \ {Base, p} PROVE RightAt(st, t, q)
  <2>1. Like(s, t, q) /\ (t.m[Base].loaded => s.m[Base].loaded)
    BY DEF OnlyAt
  <2>2. RightAt(st, s, q)
    BY DEF Right
  <2>3. /\ \A i \in Layer : AtIn(st.lower, t, i, q) = AtIn(st.lower, s, i, q)
        /\ Hits(st.lower, t, q) = Hits(st.lower, s, q)
        /\ First(st.lower, t, q) = First(st.lower, s, q)
        /\ Seen(st.lower, t, q) <=> Seen(st.lower, s, q)
    BY <2>1, SameCell DEF Like
  <2>4. \A i \in 1 .. NL : i \in Layer
    BY SetupAssumption DEF Layer
  <2>5. DiskAt(st, t, q)
    BY <2>1, <2>2, <2>3, <2>4 DEF RightAt, DiskAt, Like
  <2>6. NodeAt(st, t, q)
    BY <2>1, <2>2, <2>3 DEF RightAt, NodeAt, Like
  <2>7. WhAt(st, t, q)
    BY <2>1, <2>2, <2>3 DEF RightAt, WhAt, Like
  <2>8. LoadedAt(st, t, q)
    BY <2>1, <2>2, <2>3 DEF RightAt, LoadedAt, Like
  <2>. QED
    BY <2>5, <2>6, <2>7, <2>8 DEF RightAt
<1>2. \A q \in Path \ {Base} : RightAt(st, t, q)
  BY <1>1
<1>. QED
  BY <1>2 DEF Right, OnlyAt

\* It shows what it showed at the other names.
LEMMA ShownKept ==
    ASSUME NEW L, NEW s, NEW t, NEW p, OnlyAt(s, t, p), NEW q \in Path, q # p
    PROVE  Shown(L, t, q) = Shown(L, s, q)
<1>1. CASE q = Base
  BY <1>1 DEF Shown
<1>2. CASE q # Base
  BY <1>2, SameCell DEF OnlyAt, Like
<1>. QED
  BY <1>1, <1>2

-----------------------------------------------------------------------------
(* Finding names. *)

\* A flat state: nodes, entries and whiteouts are names of the directory.
LEMMA FlatShape ==
    ASSUME NEW st, NEW s \in Sound, Right(st, s)
    PROVE  /\ Base \in DOMAIN s.m /\ s.m[Base].dir /\ s.m[Base].layer = 0 /\ s.m[Base] \in Node
           /\ s.m \in NodeMaps
           /\ \A p \in DOMAIN s.m \ {Base} : p \in Path /\ Parent(p) = Base /\ ~s.m[p].dir
           /\ \A p : Nameable(s, p) => p \in Path \ {Base} /\ Parent(p) = Base
           /\ \A p \in Path \ {Base} : s.u[p] \notin DirEnt
           /\ \A p \in Path \ {Base} : Parent(p) # Base =>
                 s.u[p] = "none" /\ p \notin s.w /\ p \notin DOMAIN s.m
<1>1. /\ s.m \in NodeMaps /\ EntriesHang(s.u, s.w)
      /\ Base \in DOMAIN s.m /\ s.m[Base].dir /\ s.m[Base].layer = 0
  BY SoundParts DEF Fits, TopFits
<1>2. s.m[Base] \in Node
  BY <1>1, NodeMapFacts
<1>3. ASSUME NEW p \in DOMAIN s.m \ {Base} PROVE p \in Path /\ ~s.m[p].dir
  <2>1. p \in Path
    BY SoundNode
  <2>2. RightAt(st, s, p)
    BY <2>1 DEF Right
  <2>. QED
    BY <2>1, <2>2 DEF RightAt, NodeAt
<1>4. \A p : Nameable(s, p) => p \in Path \ {Base} /\ Parent(p) = Base
  BY <1>3 DEF Nameable
<1>5. ASSUME NEW p \in DOMAIN s.m \ {Base} PROVE Parent(p) = Base
  <2>1. Parent(p) \in DOMAIN s.m /\ s.m[Parent(p)].dir
    BY SoundNode
  <2>. QED
    BY <1>3, <2>1
<1>6. \A p \in Path \ {Base} : s.u[p] \notin DirEnt
  BY DEF Right, RightAt, DiskAt
<1>7. ASSUME NEW p \in Path \ {Base}, Parent(p) # Base
      PROVE  s.u[p] = "none" /\ p \notin s.w /\ p \notin DOMAIN s.m
  <2>1. Parent(p) \in Path \ {Base}
    BY <1>7, Parents
  <2>2. s.u[Parent(p)] \notin DirEnt
    BY <1>6, <2>1
  <2>. QED
    BY <1>1, <1>5, <1>7, <2>2 DEF EntriesHang
<1>. QED
  BY <1>1, <1>2, <1>3, <1>4, <1>5, <1>6, <1>7

\* Another whiteout set of the directory.
LEMMA BaseWh ==
    ASSUME NEW s \in Sound, NEW X, X \subseteq Path, NEW T, T = WithWh(s.m, Base, X)
    PROVE  /\ T \in NodeMaps /\ DOMAIN T = DOMAIN s.m /\ T[Base].wh = X
           /\ \A q \in DOMAIN s.m \ {Base} : T[q] = s.m[q]
           /\ T[Base].last = s.m[Base].last /\ T[Base].loaded = s.m[Base].loaded
           /\ T[Base].dir = s.m[Base].dir /\ T[Base].layer = s.m[Base].layer
<1>1. PICK M : M = s.m
  OBVIOUS
<1>2. M \in NodeMaps /\ Base \in DOMAIN M /\ X \in SUBSET Path /\ T = WithWh(M, Base, X)
  BY <1>1, SoundParts DEF Fits, TopFits
<1>. QED
  BY <1>1, <1>2, ExceptWh

\* insert_whiteout touches only the name.
LEMMA WhiteoutOnly ==
    ASSUME NEW s \in Sound, NEW p \in Path \ {Base}, Parent(p) = Base,
           NEW t, t = insert_whiteout(s, p)
    PROVE  /\ t.u = s.u /\ t.w = s.w /\ DOMAIN t.m = DOMAIN s.m
           /\ p \in t.m[Base].wh /\ OnlyAt(s, t, p)
           /\ p \in DOMAIN s.m => t.m[p] = s.m[p]
<1>1. PICK X, T : X = s.m[Base].wh \cup {p} /\ T = WithWh(s.m, Base, X)
  OBVIOUS
<1>2. X \subseteq Path
  <2>1. s.m[Base] \in Node
    BY SoundParts, NodeMapFacts DEF Fits, TopFits
  <2>. QED
    BY <1>1, <2>1, NodeFields
<1>3. /\ T \in NodeMaps /\ DOMAIN T = DOMAIN s.m /\ T[Base].wh = X
      /\ \A q \in DOMAIN s.m \ {Base} : T[q] = s.m[q]
      /\ T[Base].last = s.m[Base].last /\ T[Base].loaded = s.m[Base].loaded
  BY <1>1, <1>2, BaseWh
<1>4. t = [s EXCEPT !.m = T]
  BY <1>1, SoundParts DEF insert_whiteout, States, WithWh
<1>5. t.u = s.u /\ t.w = s.w /\ t.m = T
  BY <1>4, SoundParts, StateExcept
<1>6. \A q \in Path \ {Base, p} : Like(s, t, q)
  BY <1>1, <1>3, <1>5 DEF Like
<1>. QED
  BY <1>1, <1>3, <1>5, <1>6 DEF OnlyAt

\* insert_child touches only the name.
LEMMA ChildOnly ==
    ASSUME NEW s \in Sound, NEW p \in Path \ {Base}, Parent(p) = Base, NEW node,
           NEW t, t = insert_child(s, p, node)
    PROVE  /\ t.u = s.u /\ t.w = s.w /\ DOMAIN t.m = DOMAIN s.m \cup {p}
           /\ t.m[p] = node /\ OnlyAt(s, t, p)
<1>1. PICK X, T : X = s.m[Base].wh \ {p} /\ T = WithWh(s.m, Base, X)
  OBVIOUS
<1>2. X \subseteq Path /\ Base \in DOMAIN s.m
  <2>1. s.m[Base] \in Node /\ Base \in DOMAIN s.m
    BY SoundParts, NodeMapFacts DEF Fits, TopFits
  <2>. QED
    BY <1>1, <2>1, NodeFields
<1>3. /\ T \in NodeMaps /\ DOMAIN T = DOMAIN s.m /\ T[Base].wh = X
      /\ \A q \in DOMAIN s.m \ {Base} : T[q] = s.m[q]
      /\ T[Base].last = s.m[Base].last /\ T[Base].loaded = s.m[Base].loaded
  BY <1>1, <1>2, BaseWh
<1>4. PICK M : M = Put(T, p, node)
  OBVIOUS
<1>5. t = [s EXCEPT !.m = M]
  BY <1>1, <1>4, SoundParts DEF insert_child, States, WithWh
<1>6. t.u = s.u /\ t.w = s.w /\ t.m = M
  BY <1>5, SoundParts, StateExcept
<1>7. /\ DOMAIN M = DOMAIN s.m \cup {p} /\ M[p] = node
      /\ \A q \in DOMAIN s.m \ {p} : M[q] = T[q]
  BY <1>3, <1>4 DEF Put
<1>8. M[Base] = T[Base]
  BY <1>2, <1>7
<1>9. \A q \in Path \ {Base, p} : Like(s, t, q)
  BY <1>1, <1>3, <1>6, <1>7, <1>8 DEF Like
<1>. QED
  BY <1>3, <1>6, <1>7, <1>8, <1>9 DEF OnlyAt

\* The layers that are asked for a name of the directory are all layers.
LEMMA AllLayers ==
    ASSUME NEW st \in Setups, Flat(st)
    PROVE  Layer = IF st.last > 0 THEN 0 .. st.last ELSE Layer
BY SetupAssumption DEF Flat, Layer

\* last_layer_idx of a file, where the directory's is 0, is that of a lower
\* layer.
LEMMA DeepBelow ==
    ASSUME NEW st \in Setups, Flat(st), NEW s, NEW p, DiskAt(st, s, p), Seen(st.lower, s, p),
           NEW D, D = {i \in Layer : AtIn(st.lower, s, i, p) # "none"}
    PROVE  /\ Max(D) \in Layer /\ Min(D) = First(st.lower, s, p)
           /\ Max(D) > 0 \/ st.last > 0
<1>1. PICK f : f = First(st.lower, s, p)
  OBVIOUS
<1>2. /\ f \in Layer
      /\ AtIn(st.lower, s, f, p) \notin {"none", "wh"}
      /\ \A i \in Layer : AtIn(st.lower, s, i, p) # "none" => f <= i
      /\ f = 0 => s.u[p] \notin {"none", "wh"}
  BY <1>1, SeenEntry
<1>3. f \in D /\ D \subseteq Layer
  BY <1>2
<1>4. Max(D) \in D /\ \A i \in D : i <= Max(D)
  BY <1>3, MaxLayer
<1>5. Min(D) \in D /\ \A i \in D : Min(D) <= i
  BY <1>3, MinLayer
<1>6. Layer \subseteq Nat /\ st.last \in Nat /\ \A i \in 1 .. NL : i \in Layer /\ i > 0
  BY SetupAssumption DEF Layer
<1>7. PICK g, h : g = Min(D) /\ h = Max(D)
  OBVIOUS
<1>8. g \in Nat /\ h \in Nat /\ f \in Nat /\ g <= f /\ f <= g
  BY <1>2, <1>3, <1>4, <1>5, <1>6, <1>7
<1>9. g = f
  BY <1>8
<1>10. h > 0 \/ st.last > 0
  <2>1. CASE f > 0
    <3>1. f <= h
      BY <1>3, <1>4, <1>7
    <3>. QED
      BY <1>8, <2>1, <3>1
  <2>2. CASE f = 0 /\ st.last = 0
    <3>1. PICK i \in 1 .. NL : AtIn(st.lower, s, i, p) # "none"
      BY <1>2, <2>2 DEF DiskAt
    <3>2. i \in D /\ i > 0 /\ i \in Nat
      BY <1>6, <3>1
    <3>3. i <= h
      BY <1>4, <1>7, <3>2
    <3>. QED
      BY <1>8, <3>2, <3>3
  <2>. QED
    BY <1>6, <1>8, <2>1, <2>2
<1>. QED
  BY <1>1, <1>4, <1>3, <1>7, <1>9, <1>10

\* do_lazy_lookup finds a name if and only if the layers show it.
LEMMA LazyLookupRight ==
    ASSUME NEW st, st = setup, setup \in Setups, Flat(st), NEW s \in Sound, Right(st, s),
           NEW p, Nameable(s, p), p \notin DOMAIN s.m, NEW t, t = do_lazy_lookup(s, p)
    PROVE  /\ t.u = s.u /\ t.w = s.w /\ OnlyAt(s, t, p) /\ Right(st, t)
           /\ p \in DOMAIN t.m <=> Seen(st.lower, s, p)
           /\ p \notin DOMAIN t.m /\ p \notin t.m[Base].wh => Hits(st.lower, s, p) = {}
<1>0. PICK L : L = st.lower /\ L = lower
  BY DEF lower
<1>1. p \in Path \ {Base} /\ Parent(p) = Base /\ s.m[Base].last = st.last /\ st \in Setups
  BY FlatShape DEF Right
<1>2. PICK H, D : H = Hits(L, s, p) /\ D = {i \in Layer : AtIn(L, s, i, p) # "none"}
  OBVIOUS
<1>3. PICK f, x : f = Min(H) /\ x = AtIn(L, s, f, p)
  OBVIOUS
<1>4. PICK node : node = FoundNode(f, IF x = "opq" THEN f ELSE Max(D), x)
  OBVIOUS
<1>5. t = IF H = {} THEN s ELSE IF WhitedIn(L, s, f, p) THEN insert_whiteout(s, p)
          ELSE insert_child(s, p, node)
  <2>1. PICK layers : layers = IF s.m[Parent(p)].last > 0 THEN 0 .. s.m[Parent(p)].last ELSE Layer
    OBVIOUS
  <2>2. layers = Layer
    BY <1>1, <2>1, AllLayers
  <2>3. \A i : /\ Hit(s, i, p) <=> HitIn(L, s, i, p)
               /\ Present(s, i, p) <=> AtIn(L, s, i, p) # "none"
               /\ At(s, i, p) = AtIn(L, s, i, p)
               /\ Whited(s, i, p) <=> WhitedIn(L, s, i, p)
    BY <1>0, InLayers
  <2>4. {i \in layers : Hit(s, i, p)} = H /\ {i \in layers : Present(s, i, p)} = D
    BY <1>2, <2>2, <2>3 DEF Hits
  <2>5. t = IF H = {} THEN s ELSE IF Whited(s, f, p) THEN insert_whiteout(s, p)
            ELSE insert_child(s, p, NewNode(f, IF At(s, f, p) = "opq" THEN f ELSE Max(D),
                                            At(s, f, p) \in DirEnt, FALSE))
    BY <1>3, <2>1, <2>4 DEF do_lazy_lookup
  <2>. QED
    BY <1>3, <1>4, <2>3, <2>5 DEF FoundNode
<1>6. Seen(L, s, p) <=> H # {} /\ ~WhitedIn(L, s, f, p)
  BY <1>2, <1>3 DEF Seen, First
<1>7. RightAt(st, s, p)
  BY <1>1 DEF Right
<1>8. CASE H = {}
  BY <1>0, <1>2, <1>5, <1>6, <1>8, OnlyAtSelf
<1>9. CASE H # {} /\ WhitedIn(L, s, f, p)
  <2>1. t = insert_whiteout(s, p)
    BY <1>5, <1>9
  <2>2. /\ t.u = s.u /\ t.w = s.w /\ DOMAIN t.m = DOMAIN s.m
        /\ p \in t.m[Base].wh /\ OnlyAt(s, t, p)
    BY <1>1, <2>1, WhiteoutOnly
  <2>3. ~Seen(L, s, p)
    BY <1>6, <1>9
  <2>4. ~Seen(L, t, p) /\ \A i \in Layer : AtIn(L, t, i, p) = AtIn(L, s, i, p)
    BY <2>2, <2>3, SameCell
  <2>5. DiskAt(st, t, p)
    <3>1. \A i \in 1 .. NL : i \in Layer
      BY SetupAssumption DEF Layer
    <3>. QED
      BY <1>0, <1>7, <2>2, <2>4, <3>1 DEF RightAt, DiskAt
  <2>6. RightAt(st, t, p)
    BY <1>0, <2>2, <2>4, <2>5 DEF RightAt, NodeAt, WhAt, LoadedAt
  <2>7. Right(st, t)
    BY <2>2, <2>6, RightKept
  <2>. QED
    BY <1>0, <2>2, <2>3, <2>7
<1>10. CASE H # {} /\ ~WhitedIn(L, s, f, p)
  <2>1. t = insert_child(s, p, node)
    BY <1>5, <1>10
  <2>2. /\ t.u = s.u /\ t.w = s.w /\ DOMAIN t.m = DOMAIN s.m \cup {p}
        /\ t.m[p] = node /\ OnlyAt(s, t, p)
    BY <1>1, <2>1, ChildOnly
  <2>3. Seen(L, s, p) /\ f = First(L, s, p)
    BY <1>2, <1>3, <1>6, <1>10 DEF First
  <2>4. /\ Seen(L, t, p) /\ First(L, t, p) = f
        /\ \A i \in Layer : AtIn(L, t, i, p) = AtIn(L, s, i, p)
    BY <2>2, <2>3, SameCell
  <2>5. DiskAt(st, t, p)
    <3>1. \A i \in 1 .. NL : i \in Layer
      BY SetupAssumption DEF Layer
    <3>. QED
      BY <1>0, <1>7, <2>2, <2>4, <3>1 DEF RightAt, DiskAt
  <2>6. f \in Layer
    BY <2>3, SeenEntry
  <2>7. x \notin DirEnt
    <3>1. CASE f = 0
      BY <1>1, <1>3, <1>7, <3>1 DEF AtIn, RightAt, DiskAt
    <3>2. CASE f # 0
      <4>1. f \in 1 .. NL
        BY <2>6, <3>2, SetupFacts
      <4>2. L[f][p] \notin DirEnt /\ "none" \notin DirEnt
        BY <1>0, <1>1, <4>1 DEF Flat, DirEnt
      <4>. QED
        BY <1>3, <3>2, <4>2 DEF AtIn
    <3>. QED
      BY <3>1, <3>2
  <2>8. x # "opq"
    BY <2>7 DEF DirEnt
  <2>9. Max(D) \in Layer /\ (Max(D) > 0 \/ st.last > 0)
    <3>1. D = {i \in Layer : AtIn(st.lower, s, i, p) # "none"}
      BY <1>0, <1>2
    <3>2. st \in Setups /\ DiskAt(st, s, p) /\ Seen(st.lower, s, p)
      BY <1>0, <1>1, <1>7, <2>3 DEF RightAt
    <3>. QED
      BY <3>1, <3>2, DeepBelow
  <2>10. PICK l : l = Max(D)
    OBVIOUS
  <2>11. node = FoundNode(f, l, x) /\ l \in Layer /\ (l > 0 \/ st.last > 0)
    BY <1>4, <2>8, <2>9, <2>10
  <2>12. node.layer = f /\ node.last = l /\ ~node.dir
    BY <2>6, <2>7, <2>11, FoundNodeFacts
  <2>13. NodeAt(st, t, p)
    BY <1>0, <2>2, <2>4, <2>11, <2>12 DEF NodeAt
  <2>14. RightAt(st, t, p)
    BY <2>2, <2>5, <2>13 DEF RightAt, WhAt, LoadedAt
  <2>15. Right(st, t)
    BY <2>2, <2>14, RightKept
  <2>. QED
    BY <1>0, <2>2, <2>3, <2>15
<1>. QED
  BY <1>8, <1>9, <1>10

\* So does do_lookup_file, which answers from the cache where it can: what the
\* handlers that look for a name find.
LEMMA LookupRight ==
    ASSUME NEW st, st = setup, setup \in Setups, Flat(st), NEW s \in Sound, Right(st, s),
           NEW p, Nameable(s, p), NEW t, t = do_lookup_file(s, p)
    PROVE  /\ t \in Sound /\ Right(st, t) /\ Nameable(t, p)
           /\ t.u = s.u /\ t.w = s.w /\ OnlyAt(s, t, p)
           /\ p \in DOMAIN t.m <=> Seen(st.lower, s, p)
           /\ p \notin DOMAIN t.m /\ p \notin t.m[Base].wh => Hits(st.lower, s, p) = {}
<1>0. PICK L : L = st.lower
  OBVIOUS
<1>1. t \in Sound /\ Nameable(t, p)
  BY LookupFile, StillNameable
<1>2. p \in Path \ {Base} /\ Parent(p) = Base
  BY FlatShape
<1>3. RightAt(st, s, p)
  BY <1>2 DEF Right
<1>4. CASE p \in DOMAIN s.m \/ p \in s.m[Base].wh \/ s.m[Base].loaded
  <2>1. t = s
    BY <1>2, <1>4 DEF do_lookup_file
  <2>2. Hits(L, s, p) = {} => ~Seen(L, s, p)
    BY DEF Seen
  <2>3. p \in DOMAIN s.m => Seen(L, s, p)
    BY <1>0, <1>3 DEF RightAt, NodeAt
  <2>4. p \notin DOMAIN s.m /\ p \in s.m[Base].wh => ~Seen(L, s, p)
    BY <1>0, <1>3 DEF RightAt, WhAt
  <2>5. p \notin DOMAIN s.m /\ p \notin s.m[Base].wh => Hits(L, s, p) = {}
    BY <1>0, <1>2, <1>3, <1>4 DEF RightAt, LoadedAt
  <2>. QED
    BY <1>0, <1>1, <2>1, <2>2, <2>3, <2>4, <2>5, OnlyAtSelf
<1>5. CASE ~(p \in DOMAIN s.m \/ p \in s.m[Base].wh \/ s.m[Base].loaded)
  <2>1. t = do_lazy_lookup(s, p) /\ p \notin DOMAIN s.m
    BY <1>2, <1>5 DEF do_lookup_file
  <2>. QED
    BY <1>1, <2>1, LazyLookupRight
<1>. QED
  BY <1>4, <1>5

\* What a scan relies on: all of Right but what a loaded directory adds.
Unscanned(st, s) ==
    /\ s.u[Base] = "dir"
    /\ s.m[Base].last = st.last
    /\ \A p \in Path \ {Base} : DiskAt(st, s, p) /\ NodeAt(st, s, p) /\ WhAt(st, s, p)

\* The scan of the directory reads all layers.
LEMMA ScannedAll ==
    ASSUME NEW st, st = setup, setup \in Setups, Flat(st), NEW s \in Sound,
           s.u[Base] = "dir", s.m[Base].last = st.last
    PROVE  Scanned(s, Base) = Layer
<1>1. ASSUME NEW i \in Layer PROVE At(s, i, Base) = "dir"
  <2>1. CASE i = 0
    BY <2>1 DEF At
  <2>2. CASE i # 0
    <3>1. i \in 1 .. NL
      BY <2>2, SetupFacts
    <3>2. lower[i][Base] = "dir"
      BY <3>1, SetupAssumption DEF lower
    <3>. QED
      BY <2>2, <3>2 DEF At
  <2>. QED
    BY <2>1, <2>2
<1>2. ASSUME NEW i \in Layer, NEW j \in 0 .. i - 1 PROVE j \in Layer /\ ~(j = s.m[Base].last /\ j > 0)
  <2>1. NL \in Nat /\ i \in 0 .. NL /\ (st.last = NL \/ st.last = 0)
    BY SetupAssumption DEF Layer, Flat
  <2>. QED
    BY <2>1 DEF Layer
<1>. QED
  BY <1>1, <1>2 DEF Scanned, DirEnt

\* What the scan finds and hides, and the node it makes.
LEMMA ScanRight ==
    ASSUME NEW st, st = setup, setup \in Setups, Flat(st), NEW s \in Sound, Unscanned(st, s),
           NEW c \in Kids(Base), NEW L, L = st.lower
    PROVE  /\ ScanFinds(s, Base, c) <=>
                 c \notin DOMAIN s.m /\ c \notin s.m[Base].wh /\ Seen(L, s, c)
           /\ ScanHides(s, Base, c) <=>
                 c \notin DOMAIN s.m /\ Hits(L, s, c) # {} /\ ~Seen(L, s, c)
           /\ Seen(L, s, c) =>
                 /\ ScanLayers(s, Base, c) # {}
                 /\ Min(ScanLayers(s, Base, c)) = First(L, s, c)
                 /\ Max(ScanLayers(s, Base, c)) \in Layer
                 /\ Max(ScanLayers(s, Base, c)) > 0 \/ st.last > 0
                 /\ At(s, First(L, s, c), c) \notin DirEnt
<1>1. L = lower /\ Scanned(s, Base) = Layer /\ st \in Setups
  BY ScannedAll DEF lower, Unscanned
<1>2. \A i : /\ Hit(s, i, c) <=> HitIn(L, s, i, c)
             /\ Present(s, i, c) <=> AtIn(L, s, i, c) # "none"
             /\ At(s, i, c) = AtIn(L, s, i, c)
             /\ Whited(s, i, c) <=> WhitedIn(L, s, i, c)
  BY <1>1, InLayers
<1>3. {i \in Scanned(s, Base) : Hit(s, i, c)} = Hits(L, s, c)
  BY <1>1, <1>2 DEF Hits
<1>4. /\ ScanFinds(s, Base, c) <=>
            c \notin DOMAIN s.m /\ c \notin s.m[Base].wh /\ Seen(L, s, c)
      /\ ScanHides(s, Base, c) <=>
            c \notin DOMAIN s.m /\ Hits(L, s, c) # {} /\ ~Seen(L, s, c)
  <2>1. PICK H : H = Hits(L, s, c)
    OBVIOUS
  <2>2. Seen(L, s, c) <=> H # {} /\ ~Whited(s, Min(H), c)
    BY <1>2, <2>1 DEF Seen, First
  <2>3. /\ ScanFinds(s, Base, c) <=>
              c \notin DOMAIN s.m /\ c \notin s.m[Base].wh /\ H # {} /\ ~Whited(s, Min(H), c)
        /\ ScanHides(s, Base, c) <=>
              c \notin DOMAIN s.m /\ H # {} /\ Whited(s, Min(H), c)
    BY <1>3, <2>1 DEF ScanFinds, ScanHides
  <2>. QED
    BY <2>1, <2>2, <2>3
<1>5. ASSUME Seen(L, s, c)
      PROVE  /\ ScanLayers(s, Base, c) # {}
             /\ Min(ScanLayers(s, Base, c)) = First(L, s, c)
             /\ Max(ScanLayers(s, Base, c)) \in Layer
             /\ Max(ScanLayers(s, Base, c)) > 0 \/ st.last > 0
             /\ At(s, First(L, s, c), c) \notin DirEnt
  <2>1. PICK D : D = ScanLayers(s, Base, c)
    OBVIOUS
  <2>2. D = {i \in Layer : AtIn(st.lower, s, i, c) # "none"}
    BY <1>1, <1>2, <2>1 DEF ScanLayers
  <2>3. c \in Path \ {Base}
    BY DEF Kids
  <2>4. DiskAt(st, s, c) /\ Seen(st.lower, s, c)
    BY <1>5, <2>3 DEF Unscanned
  <2>5. Max(D) \in Layer /\ Min(D) = First(L, s, c) /\ (Max(D) > 0 \/ st.last > 0)
    <3>1. st \in Setups
      BY <1>1
    <3>2. Max(D) \in Layer /\ Min(D) = First(st.lower, s, c) /\ (Max(D) > 0 \/ st.last > 0)
      BY <2>2, <2>4, <3>1, DeepBelow
    <3>. QED
      BY <3>2
  <2>6. PICK f : f = First(L, s, c)
    OBVIOUS
  <2>7. f \in Layer /\ AtIn(L, s, f, c) # "none"
    BY <1>5, <2>6, SeenEntry
  <2>8. f \in D
    BY <2>2, <2>7
  <2>9. At(s, f, c) \notin DirEnt
    <3>1. CASE f = 0
      BY <2>4, <3>1 DEF At, DiskAt
    <3>2. CASE f # 0
      <4>1. f \in 1 .. NL
        BY <2>7, <3>2, SetupFacts
      <4>2. lower[f][c] \notin DirEnt /\ "none" \notin DirEnt
        BY <1>1, <2>3, <4>1 DEF Flat, DirEnt
      <4>. QED
        BY <3>2, <4>2 DEF At
    <3>. QED
      BY <3>1, <3>2
  <2>. QED
    BY <2>1, <2>5, <2>6, <2>8, <2>9
<1>. QED
  BY <1>4, <1>5

\* load_dir_impl leaves a node for every name that the layers show, and a
\* whiteout for every other one that some layer has.
LEMMA LoadRight ==
    ASSUME NEW st, st = setup, setup \in Setups, Flat(st), NEW s \in Sound, Unscanned(st, s),
           NEW t, t = load_dir_impl(s, Base)
    PROVE  t.u = s.u /\ t.w = s.w /\ Right(st, t) /\ t.m[Base].loaded
<1>. DEFINE found  == {c \in Kids(Base) : ScanFinds(s, Base, c)}
            hidden == {c \in Kids(Base) : ScanHides(s, Base, c)}
            scan(c) == ScanLayers(s, Base, c)
            old(c) == IF scan(c) = {} THEN s.m[c] ELSE [s.m[c] EXCEPT !.last = Max(scan(c))]
            top == [s.m[Base] EXCEPT !.loaded = TRUE, !.wh = @ \cup hidden]
            at(c) == CASE c \in found -> ScanNew(s, Base, c)
                       [] c \in Children(s, Base) -> old(c)
                       [] c = Base -> top
                       [] OTHER -> s.m[c]
<1>0. PICK M : M = [c \in DOMAIN s.m \cup found |-> at(c)]
  OBVIOUS
<1>1. t = [s EXCEPT !.m = M]
  BY <1>0 DEF load_dir_impl, ScanNew, FoundNode
<1>2. t.u = s.u /\ t.w = s.w /\ t.m = M
  <2>. HIDE DEF at, found, hidden
  <2>. QED
    BY <1>1, SoundParts, StateExcept
<1>3. PICK L : L = st.lower
  OBVIOUS
<1>4. /\ Base \in DOMAIN s.m /\ s.m[Base] \in Node
      /\ \A q \in DOMAIN s.m : q \in Path /\ s.m[q] \in Node
  BY SoundParts, SoundNode DEF Fits, TopFits
<1>5. \A q \in DOMAIN s.m \ {Base} : Parent(q) = Base
  <2>1. \A q \in DOMAIN s.m \ {Base} : ~s.m[q].dir
    BY <1>4 DEF Unscanned, NodeAt
  <2>2. \A q \in DOMAIN s.m \ {Base} : Parent(q) \in DOMAIN s.m /\ s.m[Parent(q)].dir
    BY SoundNode
  <2>. QED
    BY <2>1, <2>2
<1>6. Base \notin found /\ Base \notin Children(s, Base)
  BY DEF Kids, Children
<1>7. M[Base] = top /\ DOMAIN M = DOMAIN s.m \cup found
  BY <1>0, <1>4, <1>6
<1>8. top.loaded /\ top.wh = s.m[Base].wh \cup hidden /\ top.last = s.m[Base].last
  <2>1. PICK n, X : n = s.m[Base] /\ X = n.wh \cup hidden
    OBVIOUS
  <2>2. top = [n EXCEPT !.loaded = TRUE, !.wh = X] /\ n \in Node
    BY <1>4, <2>1
  <2>. HIDE DEF top, hidden
  <2>. QED
    BY <2>1, <2>2 DEF Node
<1>9. ASSUME NEW p \in Path \ {Base} PROVE RightAt(st, t, p)
  <2>1. /\ \A i \in Layer : AtIn(L, t, i, p) = AtIn(L, s, i, p)
        /\ Hits(L, t, p) = Hits(L, s, p)
        /\ First(L, t, p) = First(L, s, p)
        /\ Seen(L, t, p) <=> Seen(L, s, p)
    <3>. HIDE DEF at, found, hidden
    <3>1. t.u[p] = s.u[p] /\ (p \in t.w <=> p \in s.w)
      BY <1>2
    <3>. QED
      BY <3>1, SameCell
  <2>2. DiskAt(st, s, p) /\ NodeAt(st, s, p) /\ WhAt(st, s, p)
    BY DEF Unscanned
  <2>3. DiskAt(st, t, p)
    <3>1. \A i \in 1 .. NL : i \in Layer
      BY SetupAssumption DEF Layer
    <3>. HIDE DEF at, found, hidden
    <3>. QED
      BY <1>2, <1>3, <2>1, <2>2, <3>1 DEF DiskAt
  <2>4. CASE Parent(p) # Base
    <3>1. p \notin DOMAIN M /\ p \notin hidden
      BY <1>5, <1>7, <2>4 DEF Kids
    <3>2. p \notin s.m[Base].wh
      <4>1. s.m[Base].wh \subseteq Kids(Base)
        BY <1>4, SoundNode DEF NodeFits
      <4>. QED
        BY <2>4, <4>1 DEF Kids
    <3>. HIDE DEF at, found, hidden, top
    <3>3. p \notin t.m[Base].wh
      BY <1>2, <1>7, <1>8, <3>1, <3>2
    <3>. QED
      BY <1>2, <2>3, <2>4, <3>1, <3>3 DEF RightAt, NodeAt, WhAt, LoadedAt
  <2>5. CASE Parent(p) = Base
    <3>0. p \in Kids(Base)
      BY <2>5 DEF Kids
    <3>1. /\ ScanFinds(s, Base, p) <=>
                 p \notin DOMAIN s.m /\ p \notin s.m[Base].wh /\ Seen(L, s, p)
          /\ ScanHides(s, Base, p) <=>
                 p \notin DOMAIN s.m /\ Hits(L, s, p) # {} /\ ~Seen(L, s, p)
      BY <1>3, <3>0, ScanRight
    <3>2. Seen(L, s, p) =>
                 /\ ScanLayers(s, Base, p) # {}
                 /\ Min(ScanLayers(s, Base, p)) = First(L, s, p)
                 /\ Max(ScanLayers(s, Base, p)) \in Layer
                 /\ Max(ScanLayers(s, Base, p)) > 0 \/ st.last > 0
                 /\ At(s, First(L, s, p), p) \notin DirEnt
      BY <1>3, <3>0, ScanRight
    <3>3. (p \in found <=> ScanFinds(s, Base, p)) /\ (p \in hidden <=> ScanHides(s, Base, p))
      BY <3>0
    <3>4. p \in t.m[Base].wh <=> p \in s.m[Base].wh \/ ScanHides(s, Base, p)
      <4>. HIDE DEF top, at, found, hidden
      <4>. QED
        BY <1>2, <1>7, <1>8, <3>3
    <3>5. p \in DOMAIN t.m <=> p \in DOMAIN s.m \/ ScanFinds(s, Base, p)
      <4>. HIDE DEF top, at, found, hidden
      <4>. QED
        BY <1>2, <1>7, <3>3
    <3>6. NodeAt(st, t, p)
      <4>1. CASE ScanFinds(s, Base, p)
        <5>1. t.m[p] = ScanNew(s, Base, p)
          <6>1. p \in found
            BY <3>3, <4>1
          <6>2. M[p] = at(p)
            <7>. HIDE DEF at, found
            <7>. QED
              BY <1>0, <6>1
          <6>3. at(p) = ScanNew(s, Base, p)
            <7>1. p \notin Children(s, Base) /\ p # Base
              BY <3>1, <4>1 DEF Children
            <7>. QED
              BY <6>1, <7>1
          <6>. HIDE DEF at, found
          <6>. QED
            BY <1>2, <6>2, <6>3
        <5>2. PICK f, l, x : f = First(L, s, p) /\ l = Max(ScanLayers(s, Base, p)) /\ x = At(s, f, p)
          OBVIOUS
        <5>3. Seen(L, s, p)
          BY <3>1, <4>1
        <5>4. f \in Layer /\ l \in Layer /\ x \notin DirEnt /\ (l > 0 \/ st.last > 0)
          BY <3>2, <5>2, <5>3, SeenEntry
        <5>. HIDE DEF top, at, found, hidden, scan
        <5>5. t.m[p] = FoundNode(f, l, x)
          BY <3>2, <5>1, <5>2, <5>3 DEF ScanNew
        <5>6. PICK n : n = t.m[p]
          OBVIOUS
        <5>7. n.layer = f /\ n.last = l /\ ~n.dir
          BY <5>4, <5>5, <5>6, FoundNodeFacts
        <5>. QED
          BY <1>3, <2>1, <5>2, <5>3, <5>4, <5>6, <5>7 DEF NodeAt
      <4>2. CASE p \in DOMAIN s.m
        <5>1. p \notin found /\ p \in Children(s, Base)
          BY <3>0, <3>1, <4>2 DEF Children
        <5>2. t.m[p] = old(p)
          BY <1>0, <1>2, <4>2, <5>1
        <5>3. PICK n, l : n = s.m[p] /\ l = Max(ScanLayers(s, Base, p))
          OBVIOUS
        <5>4. Seen(L, s, p) /\ ~n.dir /\ n.layer = First(L, s, p)
          BY <1>3, <2>2, <4>2, <5>3 DEF NodeAt
        <5>5. t.m[p] = [n EXCEPT !.last = l]
          BY <3>2, <5>2, <5>3, <5>4
        <5>6. n \in Node
          BY <1>4, <4>2, <5>3
        <5>. HIDE DEF top, at, found, hidden, scan, old
        <5>7. PICK o : o = t.m[p]
          OBVIOUS
        <5>8. o.last = l /\ o.dir = n.dir /\ o.layer = n.layer
          BY <5>5, <5>6, <5>7 DEF Node
        <5>9. l > 0 \/ st.last > 0
          BY <3>2, <5>3, <5>4
        <5>. QED
          BY <1>3, <2>1, <5>4, <5>7, <5>8, <5>9 DEF NodeAt
      <4>. QED
        BY <3>5, <4>1, <4>2 DEF NodeAt
    <3>. HIDE DEF top, at, found, hidden, scan, old
    <3>7. WhAt(st, t, p)
      BY <1>3, <2>1, <2>2, <3>1, <3>4, <3>5 DEF WhAt
    <3>8. LoadedAt(st, t, p)
      BY <1>3, <2>1, <3>1, <3>4, <3>5 DEF LoadedAt
    <3>. QED
      BY <2>3, <3>6, <3>7, <3>8 DEF RightAt
  <2>. QED
    BY <2>4, <2>5
<1>. HIDE DEF top, at, found, hidden, scan, old
<1>10. t.u[Base] = "dir" /\ t.m[Base].last = st.last /\ t.m[Base].loaded
  BY <1>2, <1>7, <1>8 DEF Unscanned
<1>. QED
  BY <1>2, <1>9, <1>10 DEF Right

-----------------------------------------------------------------------------
(* Copy-up. *)

\* The directory is on the upper layer.
LEMMA UpBase ==
    ASSUME NEW s \in Sound
    PROVE  get_node_up(s, Base) = s
<1>1. /\ s.u \in [Path -> UpperEnt] /\ s.m \in NodeMaps /\ s = [u |-> s.u, w |-> s.w, m |-> s.m]
      /\ Base \in DOMAIN s.m /\ s.m[Base].layer = 0
  BY SoundParts DEF Fits, TopFits
<1>2. PICK low : low = {q \in Upward(Base) : s.m[q].layer > 0}
  OBVIOUS
<1>3. low = {}
  <2>1. \A q \in Upward(Base) : q = Base
    <3>1. Base \in Path
      BY DEF Path
    <3>. QED
      BY <3>1, UpwardPath
  <2>. QED
    BY <1>1, <1>2, <2>1
<1>4. PICK M, U : M = s.m /\ U = s.u
  OBVIOUS
<1>5. M \in [DOMAIN M -> Node]
  BY <1>1, <1>4, NodeMapFacts
<1>6. [q \in DOMAIN M |-> IF q \in low THEN [M[q] EXCEPT !.layer = 0] ELSE M[q]] = M
  BY <1>3, <1>5
<1>7. [q \in Path |-> IF q \notin low THEN U[q] ELSE IF M[q].dir THEN "dir"
                      ELSE At(s, M[q].layer, q)] = U
  BY <1>1, <1>3, <1>4
<1>8. s.w \ low = s.w
  BY <1>3
<1>. QED
  BY <1>1, <1>2, <1>4, <1>6, <1>7, <1>8 DEF get_node_up

\* Copying up a file of the directory goes through two states.
LEMMA UppingIn ==
    ASSUME setup \in Setups, NEW s \in Sound, NEW p \in DOMAIN s.m, p # Base => Parent(p) = Base,
           NEW t, t = get_node_up(s, p), NEW b, b = Upping(s, p)
    PROVE  b \in Seq({s, t}) /\ Len(b) > 0 /\ Last(b) = t
<1>0. p \in Path /\ Len(p) \in 0 .. 2
  BY SoundNode, PathLen
<1>1. Len(b) > 0 /\ Last(b) = t
  BY UppingFacts
<1>2. PICK k : k = Len(p) + 1 /\ k \in Nat
  BY <1>0
<1>3. ASSUME NEW n \in 1 .. k PROVE get_node_up(s, SubSeq(p, 1, n - 1)) \in {s, t}
  <2>1. n - 1 \in 0 .. Len(p)
    BY <1>0, <1>2
  <2>2. SubSeq(p, 1, n - 1) \in {p, Base}
    <3>1. PICK j : j = n - 1
      OBVIOUS
    <3>2. j \in 0 .. Len(p)
      BY <2>1, <3>1
    <3>3. SubSeq(p, 1, j) = IF j = Len(p) THEN p ELSE IF j = 0 THEN Base ELSE Parent(p)
      BY <1>0, <3>2, PrefixOf
    <3>4. CASE p = Base
      BY <1>0, <3>1, <3>2, <3>3, <3>4, PathLen
    <3>5. CASE p # Base
      BY <3>1, <3>3, <3>5
    <3>. QED
      BY <3>4, <3>5
  <2>. QED
    BY <2>2, UpBase
<1>4. b = [n \in 1 .. k |-> get_node_up(s, SubSeq(p, 1, n - 1))]
  BY <1>2 DEF Upping
<1>5. b \in [1 .. k -> {s, t}]
  BY <1>3, <1>4
<1>. QED
  BY <1>1, <1>2, <1>5

\* A file that is copied up is the one that was shown.
LEMMA UpRight ==
    ASSUME NEW st, st = setup, setup \in Setups, Flat(st), NEW s \in Sound, Right(st, s),
           NEW p \in DOMAIN s.m \ {Base}, NEW t, t = get_node_up(s, p)
    PROVE  /\ t \in Sound /\ Right(st, t) /\ OnlyAt(s, t, p)
           /\ SameNodes(s, t) /\ p \in DOMAIN t.m /\ t.m[p].layer = 0
           /\ t.u[p] = Shown(st.lower, s, p) /\ Shown(st.lower, t, p) = Shown(st.lower, s, p)
           /\ t.u[p] \notin {"none", "wh"} /\ p \notin t.w
           /\ t.w \subseteq s.w
<1>0. PICK L : L = st.lower /\ L = lower
  BY DEF lower
<1>1. p \in Path \ {Base} /\ Parent(p) = Base /\ ~s.m[p].dir /\ Base \in DOMAIN s.m
      /\ s.m[Base].layer = 0
  BY FlatShape
<1>2. RightAt(st, s, p)
  BY <1>1 DEF Right
<1>3. t \in Sound /\ SameNodes(s, t) /\ t.m[p].layer = 0 /\ p \in DOMAIN t.m
  <2>1. p \in Upward(p)
    BY <1>1, UpwardPath
  <2>. QED
    BY <2>1, NodeUp DEF SameNodes
<1>4. PICK low : low = {q \in Upward(p) : s.m[q].layer > 0}
  OBVIOUS
<1>5. PICK f : f = s.m[p].layer
  OBVIOUS
<1>6. Seen(L, s, p) /\ f = First(L, s, p) /\ (s.m[p].last > 0 \/ st.last > 0)
  BY <1>0, <1>2, <1>5 DEF RightAt, NodeAt
<1>7. /\ f \in Layer
      /\ AtIn(L, s, f, p) \notin {"none", "wh"}
      /\ f = 0 => s.u[p] \notin {"none", "wh"} /\ p \notin s.w
  BY <1>6, SeenEntry
<1>8. f \in Nat
  BY <1>7, SetupFacts
<1>9. \A q : q \in low <=> q = p /\ f > 0
  <2>1. \A q \in Upward(p) : q = Base \/ q = p
    BY <1>1, UpwardPath
  <2>2. p \in Upward(p)
    BY <1>1, UpwardPath
  <2>. QED
    BY <1>1, <1>4, <1>5, <2>1, <2>2
<1>10. /\ t.u = [q \in Path |-> IF q \notin low THEN s.u[q] ELSE IF s.m[q].dir THEN "dir"
                                ELSE At(s, s.m[q].layer, q)]
       /\ t.w = s.w \ low
       /\ t.m = [q \in DOMAIN s.m |-> IF q \in low THEN [s.m[q] EXCEPT !.layer = 0] ELSE s.m[q]]
  BY <1>4 DEF get_node_up
<1>11. \A q \in Path \ {p} : t.u[q] = s.u[q] /\ (q \in t.w <=> q \in s.w)
  BY <1>9, <1>10
<1>12. \A q \in DOMAIN s.m \ {p} : t.m[q] = s.m[q]
  BY <1>9, <1>10
<1>13. t.u[p] = AtIn(L, s, f, p) /\ p \notin t.w
  <2>1. At(s, f, p) = AtIn(L, s, f, p)
    BY <1>0, InLayers
  <2>2. CASE f > 0
    BY <1>1, <1>5, <1>9, <1>10, <2>1, <2>2
  <2>3. CASE f = 0
    BY <1>1, <1>7, <1>9, <1>10, <2>3 DEF AtIn
  <2>. QED
    BY <1>8, <2>2, <2>3
<1>14. Shown(L, s, p) = AtIn(L, s, f, p)
  BY <1>1, <1>6 DEF Shown
<1>15. OnlyAt(s, t, p)
  <2>1. t.m[Base] = s.m[Base] /\ t.u[Base] = s.u[Base]
    <3>1. Base \in Path
      BY DEF Path
    <3>. QED
      BY <1>1, <1>11, <1>12, <3>1
  <2>2. ASSUME NEW q \in Path \ {Base, p} PROVE Like(s, t, q)
    <3>1. t.u[q] = s.u[q] /\ (q \in t.w <=> q \in s.w)
      BY <1>11
    <3>2. /\ q \in DOMAIN t.m <=> q \in DOMAIN s.m
          /\ q \in DOMAIN s.m => t.m[q] = s.m[q]
      BY <1>3, <1>12 DEF SameNodes
    <3>. QED
      BY <2>1, <3>1, <3>2 DEF Like
  <2>. QED
    BY <2>1, <2>2 DEF OnlyAt
<1>16. t.u[p] \notin {"none", "wh"}
  BY <1>7, <1>13
<1>17. /\ First(L, t, p) = 0 /\ Seen(L, t, p) /\ AtIn(L, t, 0, p) = t.u[p]
  BY <1>13, <1>16, UpperDecides
<1>18. Shown(L, t, p) = t.u[p]
  BY <1>1, <1>17 DEF Shown
<1>19. DiskAt(st, t, p)
  <2>1. t.u[p] \notin DirEnt
    <3>1. CASE f = 0
      BY <1>2, <1>13, <3>1 DEF AtIn, RightAt, DiskAt
    <3>2. CASE f # 0
      <4>1. f \in 1 .. NL
        BY <1>7, <3>2, SetupFacts
      <4>2. L[f][p] \notin DirEnt /\ "none" \notin DirEnt
        BY <1>0, <1>1, <4>1 DEF Flat, DirEnt
      <4>. QED
        BY <1>13, <3>2, <4>2 DEF AtIn
    <3>. QED
      BY <3>1, <3>2
  <2>2. st.last = 0 => \E i \in 1 .. NL : AtIn(L, t, i, p) # "none"
    <3>1. \A i \in 1 .. NL : AtIn(L, t, i, p) = AtIn(L, s, i, p)
      BY SetupAssumption DEF AtIn
    <3>2. CASE f = 0
      BY <1>0, <1>2, <1>7, <3>1, <3>2 DEF RightAt, DiskAt
    <3>3. CASE f # 0
      <4>1. f \in 1 .. NL
        BY <1>7, <3>3, SetupFacts
      <4>. QED
        BY <1>7, <3>1, <4>1
    <3>. QED
      BY <3>2, <3>3
  <2>. QED
    BY <1>0, <1>13, <2>1, <2>2 DEF DiskAt
<1>20. RightAt(st, t, p)
  <2>1. t.m[p].dir = s.m[p].dir /\ t.m[p].last = s.m[p].last
    BY <1>3 DEF SameNodes
  <2>2. NodeAt(st, t, p)
    BY <1>0, <1>1, <1>3, <1>6, <1>17, <2>1 DEF NodeAt
  <2>. QED
    BY <1>3, <1>19, <2>2 DEF RightAt, WhAt, LoadedAt
<1>21. Right(st, t)
  BY <1>15, <1>20, RightKept
<1>22. t.w \subseteq s.w
  BY <1>10
<1>. QED
  BY <1>0, <1>3, <1>13, <1>14, <1>15, <1>16, <1>18, <1>21, <1>22

-----------------------------------------------------------------------------
(* The ends of a handler. *)

\* A file on the upper layer with its node.
LEMMA CellMade ==
    ASSUME NEW st, NEW t, NEW p, t.u[p] \notin {"none", "wh"}, p \notin t.w, DiskAt(st, t, p),
           p \in DOMAIN t.m, ~t.m[p].dir, t.m[p].layer = 0, t.m[p].last > 0 \/ st.last > 0
    PROVE  RightAt(st, t, p)
<1>1. First(st.lower, t, p) = 0 /\ Seen(st.lower, t, p)
  BY UpperDecides
<1>. QED
  BY <1>1 DEF RightAt, NodeAt, WhAt, LoadedAt

\* A whiteout on the upper layer, in a directory that needs a new scan.
LEMMA CellHidden ==
    ASSUME NEW st, NEW t, NEW p, t.u[p] = "wh" \/ p \in t.w, DiskAt(st, t, p),
           p \notin DOMAIN t.m, ~t.m[Base].loaded
    PROVE  RightAt(st, t, p)
<1>1. ~Seen(st.lower, t, p)
  BY UpperDecides
<1>. QED
  BY <1>1 DEF RightAt, NodeAt, WhAt, LoadedAt

\* What they show.
LEMMA CellShows ==
    ASSUME NEW L, NEW t, NEW p \in Path \ {Base}, Parent(p) = Base
    PROVE  /\ t.u[p] \notin {"none", "wh"} /\ p \notin t.w => Shown(L, t, p) = t.u[p]
           /\ t.u[p] = "wh" \/ p \in t.w => Shown(L, t, p) = "none"
           /\ ~Seen(L, t, p) => Shown(L, t, p) = "none"
<1>1. ASSUME t.u[p] \notin {"none", "wh"} /\ p \notin t.w PROVE Shown(L, t, p) = t.u[p]
  <2>1. First(L, t, p) = 0 /\ Seen(L, t, p) /\ AtIn(L, t, 0, p) = t.u[p]
    BY <1>1, UpperDecides
  <2>. QED
    BY <2>1 DEF Shown
<1>2. t.u[p] = "wh" \/ p \in t.w => ~Seen(L, t, p)
  BY UpperDecides
<1>3. ~Seen(L, t, p) => Shown(L, t, p) = "none"
  BY DEF Shown
<1>. QED
  BY <1>1, <1>2, <1>3

\* A change of the upper layer at p touches only p.
LEMMA EntOnly ==
    ASSUME NEW s, NEW t, NEW p \in Path \ {Base}, OnlyEnt(s, t, p),
           \A q \in Path \ {p} : q \in t.w <=> q \in s.w
    PROVE  OnlyAt(s, t, p)
<1>1. Base \in Path
  BY DEF Path
<1>. QED
  BY <1>1 DEF OnlyEnt, OnlyAt, Like

\* Two states with the same disk show the same.
LEMMA SameShows ==
    ASSUME NEW L, NEW s, NEW t, t.u = s.u, t.w = s.w
    PROVE  Shows(L, t) = Shows(L, s)
<1>1. \A p \in Path : Shown(L, t, p) = Shown(L, s, p)
  BY SameCell
<1>. QED
  BY <1>1 DEF Shows

\* A mount of a flat disk.
LEMMA FreshRight ==
    ASSUME NEW st, st = setup, setup \in Setups, NEW s, FlatDisk(st, s),
           NEW t, t.u = s.u, t.w = s.w, t.m = Fresh
    PROVE  Right(st, t)
<1>1. DOMAIN t.m = {Base} /\ t.m[Base].wh = {} /\ ~t.m[Base].loaded /\ t.m[Base].last = st.last
  BY FreshMap
<1>2. ASSUME NEW p \in Path \ {Base} PROVE RightAt(st, t, p)
  <2>1. \A i \in 1 .. NL : AtIn(st.lower, t, i, p) = AtIn(st.lower, s, i, p)
    BY SetupAssumption DEF AtIn
  <2>2. DiskAt(st, s, p)
    BY DEF FlatDisk
  <2>3. DiskAt(st, t, p)
    BY <2>1, <2>2 DEF DiskAt
  <2>. QED
    BY <1>1, <2>3 DEF RightAt, NodeAt, WhAt, LoadedAt
<1>. QED
  BY <1>1, <1>2 DEF Right, FlatDisk

\* The disk of a right state is flat.
LEMMA RightDisk ==
    ASSUME NEW st, NEW s, Right(st, s)
    PROVE  FlatDisk(st, s)
BY DEF Right, RightAt, FlatDisk

\* The state after a handler.
LEMMA NowIs ==
    ASSUME NEW s \in States, Become(s)
    PROVE  Now' = s /\ setup' = setup
<1>1. s = [u |-> s.u, w |-> s.w, m |-> s.m]
  BY DEF States
<1>. QED
  BY <1>1 DEF Become, Now

\* How a handler that changes something ends: in z, or, failed, in one of the
\* states B, or, after a crash, with the disk of one of the states A.
Ended(op, args, B, A, z) ==
    \/ Answer(op, args, "ok", {}) /\ Now' = z
    \/ "fail" \in setup.calls /\ Answer(op, args, "EIO", {}) /\ Now' \in B
    \/ /\ "crash" \in setup.calls /\ Answer(op, args, "crash", {})
       /\ \E s \in A : Now'.u = s.u /\ Now'.w = s.w /\ Now'.m = Fresh

\* Through ends a handler so.
LEMMA ThroughEnds ==
    ASSUME NEW B \in SUBSET Sound, NEW A \in SUBSET Sound, B \subseteq A,
           NEW before \in Seq(B), NEW after \in Seq(A), Len(after) > 0,
           NEW op, NEW args, Through(op, args, before, after)
    PROVE  Ended(op, args, B, A, Last(after)) /\ setup' = setup
<1>1. CASE Done(op, args, Last(after))
  <2>1. Last(after) \in States
    BY LastIn, SoundParts
  <2>. QED
    BY <1>1, <2>1, NowIs DEF Done, Ended
<1>2. CASE "fail" \in setup.calls /\ \E s \in ToSet(before) : Fail(op, args, "EIO", s)
  <2>1. PICK s \in ToSet(before) : Fail(op, args, "EIO", s)
    BY <1>2
  <2>2. s \in B
    BY <2>1, ElementIn
  <2>3. s \in States
    BY <2>2, SoundParts
  <2>. QED
    BY <1>2, <2>1, <2>2, <2>3, NowIs DEF Fail, Ended
<1>3. CASE "crash" \in setup.calls
           /\ \E s \in ToSet(before \o after) : Fail(op, args, "crash", [s EXCEPT !.m = Fresh])
  <2>1. PICK b : b = before \o after
    OBVIOUS
  <2>2. b \in Seq(A)
    <3>1. before \in Seq(A)
      OBVIOUS
    <3>. QED
      BY <2>1, <3>1, JoinStates
  <2>3. PICK s \in ToSet(b) : Fail(op, args, "crash", [s EXCEPT !.m = Fresh])
    BY <1>3, <2>1
  <2>4. s \in A
    BY <2>2, <2>3, ElementIn
  <2>5. [s EXCEPT !.m = Fresh] = [u |-> s.u, w |-> s.w, m |-> Fresh]
    BY <2>4, SoundParts, StateExcept
  <2>6. Now'.u = s.u /\ Now'.w = s.w /\ Now'.m = Fresh /\ setup' = setup
    BY <2>3, <2>5 DEF Fail, Become, Now
  <2>. QED
    BY <1>3, <2>3, <2>4, <2>6 DEF Fail, Ended
<1>. QED
  BY <1>1, <1>2, <1>3 DEF Through

\* What a handler on name p does to what is shown: all of it, or, failed,
\* nothing, or, after a crash, one of the two.
Did(op, args, L, p, x) ==
    LET new == [Shows(L, Now) EXCEPT ![p] = x]
    IN  \/ Answer(op, args, "ok", {}) /\ Shows(L, Now') = new
        \/ "fail" \in setup.calls /\ Answer(op, args, "EIO", {}) /\ Shows(L, Now') = Shows(L, Now)
        \/ /\ "crash" \in setup.calls /\ Answer(op, args, "crash", {})
           /\ Shows(L, Now') = Shows(L, Now) \/ Shows(L, Now') = new

\* Such a handler keeps the state right if the states it goes through are: the
\* ones that it may fail in altogether, the others on disk.
LEMMA EndsRight ==
    ASSUME NEW st, st = setup, setup \in Setups, NEW B, NEW A, NEW z, NEW op, NEW args,
           Ended(op, args, B, A, z), Right(st, z),
           "fail" \in st.calls => \A s \in B : Right(st, s),
           "crash" \in st.calls => \A s \in A : FlatDisk(st, s)
    PROVE  Right(st, Now')
<1>1. CASE Now' = z
  BY <1>1
<1>2. CASE "fail" \in setup.calls /\ Now' \in B
  BY <1>2
<1>3. CASE "crash" \in setup.calls /\ \E s \in A : Now'.u = s.u /\ Now'.w = s.w /\ Now'.m = Fresh
  <2>1. PICK s \in A : Now'.u = s.u /\ Now'.w = s.w /\ Now'.m = Fresh
    BY <1>3
  <2>2. FlatDisk(st, s)
    BY <1>3, <2>1
  <2>3. PICK t : t = Now'
    OBVIOUS
  <2>4. t.u = s.u /\ t.w = s.w /\ t.m = Fresh
    BY <2>1, <2>3
  <2>5. Right(st, t)
    BY <2>2, <2>4, FreshRight
  <2>. QED
    BY <2>3, <2>5
<1>. QED
  BY <1>1, <1>2, <1>3 DEF Ended

\* A handler whose states show the old or the new at its name, and the old if it
\* can fail there, changes that name or nothing.
LEMMA EndsDid ==
    ASSUME NEW L, NEW B, NEW A, NEW z \in A, NEW op, NEW args, NEW p \in Path, NEW x,
           Ended(op, args, B, A, z), B \subseteq A,
           \A s \in A : OnlyAt(Now, s, p) /\ Shown(L, s, p) \in {Shown(L, Now, p), x},
           "fail" \in setup.calls => \A s \in B : Shown(L, s, p) = Shown(L, Now, p),
           Shown(L, z, p) = x
    PROVE  Did(op, args, L, p, x)
<1>0. PICK v, s0 : s0 = Now /\ v = Shows(L, s0)
  OBVIOUS
<1>1. PICK v2 : v2 = [v EXCEPT ![p] = x]
  OBVIOUS
<1>2. ASSUME NEW s \in A PROVE Shows(L, s) = [v EXCEPT ![p] = Shown(L, s, p)]
  <2>1. \A q \in Path \ {p} : Shown(L, s, q) = Shown(L, s0, q)
    BY <1>0, ShownKept
  <2>. QED
    BY <1>0, <2>1 DEF Shows
<1>3. v[p] = Shown(L, s0, p) /\ v = [v EXCEPT ![p] = v[p]]
  BY <1>0 DEF Shows
<1>4. ASSUME NEW s \in A PROVE Shows(L, s) \in {v, v2}
  BY <1>0, <1>1, <1>2, <1>3
<1>5. Shows(L, z) = v2
  BY <1>1, <1>2
<1>6. PICK t : t = Now'
  OBVIOUS
<1>7. Shows(L, Now') = Shows(L, t)
  BY <1>6
<1>8. CASE Answer(op, args, "ok", {}) /\ Now' = z
  BY <1>0, <1>1, <1>5, <1>6, <1>7, <1>8 DEF Did
<1>9. CASE "fail" \in setup.calls /\ Answer(op, args, "EIO", {}) /\ Now' \in B
  <2>1. t \in A /\ Shown(L, t, p) = Shown(L, s0, p)
    BY <1>0, <1>6, <1>9
  <2>2. Shows(L, t) = v
    BY <1>2, <1>3, <2>1
  <2>. QED
    BY <1>0, <1>7, <1>9, <2>2 DEF Did
<1>10. CASE /\ "crash" \in setup.calls /\ Answer(op, args, "crash", {})
            /\ \E s \in A : Now'.u = s.u /\ Now'.w = s.w /\ Now'.m = Fresh
  <2>1. PICK s \in A : t.u = s.u /\ t.w = s.w
    BY <1>6, <1>10
  <2>2. Shows(L, t) = Shows(L, s)
    BY <2>1, SameShows
  <2>3. Shows(L, t) \in {v, v2}
    BY <1>4, <2>1, <2>2
  <2>. QED
    BY <1>0, <1>1, <1>7, <1>10, <2>3 DEF Did
<1>. QED
  BY <1>8, <1>9, <1>10 DEF Ended

\* A handler all of whose states are right keeps the state right, and shows
\* the new state or, interrupted, the old one.
LEMMA ThroughRight ==
    ASSUME NEW st, st = setup, setup \in Setups, NEW L,
           NEW B \in SUBSET Sound, NEW A \in SUBSET Sound, B \subseteq A,
           NEW before \in Seq(B), NEW after \in Seq(A), Len(after) > 0,
           NEW z, Last(after) = z, Right(st, z),
           NEW op, NEW args, NEW p \in Path, NEW x, Through(op, args, before, after),
           "fail" \in st.calls => \A s \in B : Right(st, s) /\ Shown(L, s, p) = Shown(L, Now, p),
           "crash" \in st.calls => \A s \in A : FlatDisk(st, s),
           \A s \in A : OnlyAt(Now, s, p) /\ Shown(L, s, p) \in {Shown(L, Now, p), x},
           Shown(L, z, p) = x
    PROVE  setup' = setup /\ Right(st, Now') /\ Did(op, args, L, p, x)
<1>1. Ended(op, args, B, A, z) /\ setup' = setup
  BY ThroughEnds
<1>2. Right(st, Now')
  BY <1>1, EndsRight
<1>3. z \in A
  BY LastIn
<1>4. "fail" \in setup.calls => \A s \in B : Shown(L, s, p) = Shown(L, Now, p)
  OBVIOUS
<1>5. Did(op, args, L, p, x)
  BY <1>1, <1>3, <1>4, EndsDid
<1>. QED
  BY <1>1, <1>2, <1>5

-----------------------------------------------------------------------------
(* Making files. *)

\* A node for the file that a handler has put on the upper layer.
LEMMA AddedRight ==
    ASSUME NEW st, st = setup, setup \in Setups, st.last > 0, NEW s, Right(st, s),
           NEW r \in Sound, NEW p \in Path \ {Base}, Parent(p) = Base, OnlyAt(s, r, p),
           Nameable(r, p), p \notin DOMAIN r.m,
           r.u[p] \notin {"none", "wh"}, p \notin r.w, DiskAt(st, r, p),
           NEW no \in BOOLEAN, ~no, NEW t, t = Added(r, p, no)
    PROVE  t \in Sound /\ Right(st, t) /\ OnlyAt(s, t, p) /\ t.u = r.u /\ t.w = r.w
<1>1. no = FALSE
  OBVIOUS
<1>2. NothingAt(r, p)
  BY DEF DiskAt, NothingAt
<1>3. t \in Sound
  BY <1>2, AddedSound
<1>4. PICK n : n = NewNode(0, 0, no, no)
  OBVIOUS
<1>5. n.layer = 0 /\ ~n.dir
  <2>1. 0 \in Layer
    BY SetupFacts
  <2>. QED
    BY <1>1, <1>4, <2>1, NewNodeFacts
<1>6. t = insert_child(r, p, n)
  BY <1>1, <1>4 DEF Added
<1>7. /\ t.u = r.u /\ t.w = r.w /\ DOMAIN t.m = DOMAIN r.m \cup {p}
      /\ t.m[p] = n /\ OnlyAt(r, t, p)
  BY <1>6, ChildOnly
<1>8. DiskAt(st, t, p)
  <2>1. st.last # 0
    BY SetupAssumption DEF Layer
  <2>. QED
    BY <1>7, <2>1 DEF DiskAt
<1>9. t.u[p] \notin {"none", "wh"} /\ p \notin t.w /\ p \in DOMAIN t.m /\ ~t.m[p].dir /\ t.m[p].layer = 0
  BY <1>5, <1>7
<1>10. RightAt(st, t, p)
  BY <1>8, <1>9, CellMade
<1>11. OnlyAt(s, t, p)
  BY <1>7, OnlyAtTwice
<1>12. Right(st, t)
  BY <1>10, <1>11, RightKept
<1>. QED
  BY <1>3, <1>7, <1>11, <1>12

\* Where a handler makes something: a name that the layers do not show, looked
\* up, with everything else as it was.
Clear(st, s, p) ==
    /\ s \in Sound /\ Right(st, s) /\ Nameable(s, p)
    /\ p \in Path \ {Base} /\ Parent(p) = Base
    /\ p \notin DOMAIN s.m /\ ~Seen(st.lower, s, p) /\ ~Seen(st.lower, Now, p)
    /\ OnlyAt(Now, s, p)

\* The new file at p.
LEMMA PutNew ==
    ASSUME NEW st, st = setup, setup \in Setups, Flat(st), st.last > 0, NEW s, NEW p,
           Clear(st, s, p), NEW x \in UpperEnt, x \notin {"none", "wh"}, x \notin DirEnt,
           NEW t, t = PutEnt(s, p, x)
    PROVE  /\ t \in Sound /\ OnlyAt(s, t, p) /\ t.m = s.m /\ t.w = s.w /\ t.u[p] = x
           /\ "crash" \in st.calls => FlatDisk(st, t)
<1>1. s \in Sound /\ Right(st, s) /\ p \in Path \ {Base} /\ Parent(p) = Base /\ p \notin DOMAIN s.m
      /\ Nameable(s, p)
  BY DEF Clear
<1>2. s.u[Base] = "dir" /\ s.u[p] \notin DirEnt /\ DiskAt(st, s, p)
  BY <1>1 DEF Right, RightAt, DiskAt
<1>3. \A c \in Kids(p) : s.u[c] = "none" /\ c \notin s.w
  <2>1. EntriesHang(s.u, s.w)
    BY <1>1, SoundParts DEF Fits
  <2>. QED
    BY <1>1, <1>2, <2>1, NothingIn
<1>4. s.u[Parent(p)] \in DirEnt
  BY <1>1, <1>2 DEF DirEnt
<1>5. t \in Sound /\ OnlyEnt(s, t, p) /\ t.w = s.w /\ t.u[p] = x
  BY <1>1, <1>3, <1>4, EntryPut
<1>6. OnlyAt(s, t, p)
  BY <1>1, <1>5, EntOnly
<1>7. ASSUME "crash" \in st.calls PROVE FlatDisk(st, t)
  <2>1. DiskAt(st, t, p)
    <3>1. "link" \in st.calls => p \notin t.w
      BY <1>2, <1>5, <1>7 DEF Flat, DiskAt
    <3>2. st.last # 0
      BY SetupAssumption DEF Layer
    <3>. QED
      BY <1>2, <1>5, <3>1, <3>2 DEF DiskAt
  <2>2. ASSUME NEW q \in Path \ {Base, p} PROVE DiskAt(st, t, q)
    <3>1. DiskAt(st, s, q)
      BY <1>1 DEF Right, RightAt
    <3>2. t.u[q] = s.u[q] /\ t.w = s.w
      BY <1>5 DEF OnlyEnt
    <3>3. \A i \in 1 .. NL : AtIn(st.lower, t, i, q) = AtIn(st.lower, s, i, q)
      BY <3>2 DEF AtIn
    <3>. QED
      BY <3>1, <3>2, <3>3 DEF DiskAt
  <2>3. t.u[Base] = "dir"
    BY <1>2, <1>6 DEF OnlyAt
  <2>. QED
    BY <2>1, <2>2, <2>3 DEF FlatDisk
<1>. QED
  BY <1>5, <1>6, <1>7 DEF OnlyEnt

\* PutFile shows the new file, or what was shown before; a .wh. file hides it
\* until it is removed.
LEMMA PutFileRight ==
    ASSUME NEW st, st = setup, setup \in Setups, Flat(st), st.last > 0, NEW s, NEW p,
           Clear(st, s, p), NEW before \in Seq({s}), Last(before) = s, NEW op,
           PutFile(op, p, before)
    PROVE  /\ setup' = setup /\ Right(st, Now')
           /\ Did(op, <<p>>, st.lower, p, "new")
<1>0. PICK L : L = st.lower
  OBVIOUS
<1>1. s \in Sound /\ Right(st, s) /\ p \in Path \ {Base} /\ Parent(p) = Base /\ p \notin DOMAIN s.m
      /\ Nameable(s, p) /\ ~Seen(L, s, p) /\ ~Seen(L, Now, p) /\ OnlyAt(Now, s, p)
  BY <1>0 DEF Clear
<1>2. PICK x : x = "new"
  OBVIOUS
<1>3. x \in UpperEnt /\ x \notin {"none", "wh"} /\ x \notin DirEnt
  BY <1>2, SetupAssumption DEF UpperEnt, DirEnt
<1>4. PICK made : made = PutEnt(s, p, x)
  OBVIOUS
<1>5. /\ made \in Sound /\ OnlyAt(s, made, p) /\ made.m = s.m /\ made.w = s.w /\ made.u[p] = x
      /\ "crash" \in st.calls => FlatDisk(st, made)
  BY <1>3, <1>4, PutNew
<1>6. PICK r : r = delete_whiteout(made, p)
  OBVIOUS
<1>7. /\ r \in Sound /\ OnlyEnt(made, r, p) /\ r.w = made.w \ {p}
      /\ r.u[p] = x
  BY <1>1, <1>3, <1>5, <1>6, DeleteWhiteout
<1>8. OnlyAt(made, r, p) /\ r.m = s.m
  <2>1. \A q \in Path \ {p} : q \in r.w <=> q \in made.w
    BY <1>7
  <2>. QED
    BY <1>1, <1>5, <1>7, <2>1, EntOnly DEF OnlyEnt
<1>9. OnlyAt(s, r, p)
  BY <1>5, <1>8, OnlyAtTwice
<1>a. PICK no \in BOOLEAN : no = FALSE
  OBVIOUS
<1>10. PICK t : t = Added(r, p, no)
  OBVIOUS
<1>11. t \in Sound /\ Right(st, t) /\ OnlyAt(s, t, p) /\ t.u = r.u /\ t.w = r.w
  <2>1. Nameable(r, p) /\ p \notin DOMAIN r.m
    BY <1>1, <1>8 DEF Nameable
  <2>2. r.u[p] \notin {"none", "wh"} /\ p \notin r.w
    BY <1>3, <1>7
  <2>3. DiskAt(st, r, p)
    <3>1. st.last # 0
      BY SetupAssumption DEF Layer
    <3>. QED
      BY <1>3, <1>7, <2>2, <3>1 DEF DiskAt
  <2>4. p \in Path \ {Base} /\ Parent(p) = Base /\ r \in Sound /\ Right(st, s) /\ OnlyAt(s, r, p)
    BY <1>1, <1>7, <1>9
  <2>. QED
    BY <1>a, <1>10, <2>1, <2>2, <2>3, <2>4, AddedRight
<1>12. Through(op, <<p>>, before, <<made, t>>)
  <2>1. s.u[p] \notin DirEnt
    BY <1>1 DEF Right, RightAt, DiskAt
  <2>. QED
    BY <1>2, <1>4, <1>6, <1>a, <1>10, <2>1 DEF PutFile, PutEnt
<1>13. PICK after, A, B : after = <<made, t>> /\ A = {s, made, t} /\ B = {s}
  OBVIOUS
<1>14. /\ after \in Seq(A) /\ Len(after) > 0 /\ Last(after) = t
  <2>1. made \in A /\ t \in A
    BY <1>13
  <2>. QED
    BY <1>13, <2>1, TwoStates
<1>15. /\ B \in SUBSET Sound /\ A \in SUBSET Sound /\ B \subseteq A /\ before \in Seq(B)
       /\ p \in Path
  BY <1>1, <1>5, <1>11, <1>13
<1>16. Shown(L, Now, p) = "none" /\ Shown(L, s, p) = "none"
  BY <1>1, CellShows
<1>17. Shown(L, made, p) \in {"none", x}
  BY <1>1, <1>3, <1>5, CellShows
<1>18. Shown(L, t, p) = x
  <2>1. t.u[p] \notin {"none", "wh"} /\ p \notin t.w /\ t.u[p] = x
    BY <1>3, <1>7, <1>11
  <2>. QED
    BY <1>1, <2>1, CellShows
<1>19. \A y \in A : OnlyAt(Now, y, p) /\ Shown(L, y, p) \in {Shown(L, Now, p), x}
  <2>1. PICK n : n = Now
    OBVIOUS
  <2>2. OnlyAt(n, s, p)
    BY <1>1, <2>1
  <2>3. OnlyAt(n, made, p) /\ OnlyAt(n, t, p)
    BY <1>5, <1>11, <2>2, OnlyAtTwice
  <2>. QED
    BY <1>13, <1>16, <1>17, <1>18, <2>1, <2>2, <2>3
<1>20. \A y \in B : Right(st, y) /\ Shown(L, y, p) = Shown(L, Now, p)
  BY <1>1, <1>13, <1>16
<1>21. "crash" \in st.calls => \A y \in A : FlatDisk(st, y)
  BY <1>1, <1>5, <1>11, <1>13, RightDisk
<1>22. PICK args : args = <<p>>
  OBVIOUS
<1>23. Through(op, args, before, after)
  BY <1>12, <1>13, <1>22
<1>24. setup' = setup /\ Right(st, Now') /\ Did(op, args, L, p, x)
  BY <1>11, <1>14, <1>15, <1>18, <1>19, <1>20, <1>21, <1>23, ThroughRight
<1>. QED
  BY <1>0, <1>2, <1>22, <1>24

\* Opening a name that no layer has with O_CREAT shows the new file, or what
\* was shown before.
LEMMA OpenFileRight ==
    ASSUME NEW st, st = setup, setup \in Setups, Flat(st), st.last > 0, NEW s, NEW p,
           Clear(st, s, p), Hits(st.lower, s, p) = {}, NEW before \in Seq({s}), Last(before) = s,
           NEW op, OpenFile(op, p, before)
    PROVE  /\ setup' = setup /\ Right(st, Now')
           /\ Did(op, <<p>>, st.lower, p, "new")
<1>0. PICK L : L = st.lower
  OBVIOUS
<1>1. s \in Sound /\ Right(st, s) /\ p \in Path \ {Base} /\ Parent(p) = Base /\ p \notin DOMAIN s.m
      /\ Nameable(s, p) /\ ~Seen(L, s, p) /\ ~Seen(L, Now, p) /\ OnlyAt(Now, s, p)
  BY <1>0 DEF Clear
<1>2. PICK x : x = "new"
  OBVIOUS
<1>3. x \in UpperEnt /\ x \notin {"none", "wh"} /\ x \notin DirEnt
  BY <1>2, SetupAssumption DEF UpperEnt, DirEnt
<1>4. PICK r : r = PutEnt(s, p, x)
  OBVIOUS
<1>5. r \in Sound /\ OnlyAt(s, r, p) /\ r.m = s.m /\ r.w = s.w /\ r.u[p] = x
  BY <1>3, <1>4, PutNew
<1>6. s.u[p] = "none" /\ p \notin s.w
  BY <1>0, UpperDecides
<1>7. PICK no \in BOOLEAN : no = FALSE
  OBVIOUS
<1>8. PICK t : t = Added(r, p, no)
  OBVIOUS
<1>9. t \in Sound /\ Right(st, t) /\ OnlyAt(s, t, p) /\ t.u = r.u /\ t.w = r.w
  <2>1. Nameable(r, p) /\ p \notin DOMAIN r.m
    BY <1>1, <1>5 DEF Nameable
  <2>2. r.u[p] \notin {"none", "wh"} /\ p \notin r.w
    BY <1>3, <1>5, <1>6
  <2>3. DiskAt(st, r, p)
    <3>1. st.last # 0
      BY SetupAssumption DEF Layer
    <3>. QED
      BY <1>3, <1>5, <2>2, <3>1 DEF DiskAt
  <2>4. p \in Path \ {Base} /\ Parent(p) = Base /\ r \in Sound /\ Right(st, s) /\ OnlyAt(s, r, p)
    BY <1>1, <1>5
  <2>. QED
    BY <1>7, <1>8, <2>1, <2>2, <2>3, <2>4, AddedRight
<1>10. Through(op, <<p>>, before, <<t>>)
  <2>1. "none" \notin DirEnt
    BY DEF DirEnt
  <2>. QED
    BY <1>2, <1>4, <1>6, <1>7, <1>8, <2>1 DEF OpenFile, PutEnt
<1>13. PICK after, A, B : after = <<t>> /\ A = {s, t} /\ B = {s}
  OBVIOUS
<1>14. /\ after \in Seq(A) /\ Len(after) > 0 /\ Last(after) = t
  <2>1. t \in A
    BY <1>13
  <2>. QED
    BY <1>13, <2>1, OneState
<1>15. /\ B \in SUBSET Sound /\ A \in SUBSET Sound /\ B \subseteq A /\ before \in Seq(B)
       /\ p \in Path
  BY <1>1, <1>9, <1>13
<1>16. Shown(L, Now, p) = "none" /\ Shown(L, s, p) = "none"
  BY <1>1, CellShows
<1>18. Shown(L, t, p) = x
  <2>1. t.u[p] \notin {"none", "wh"} /\ p \notin t.w /\ t.u[p] = x
    BY <1>3, <1>5, <1>6, <1>9
  <2>. QED
    BY <1>1, <2>1, CellShows
<1>19. \A y \in A : OnlyAt(Now, y, p) /\ Shown(L, y, p) \in {Shown(L, Now, p), x}
  <2>1. PICK n : n = Now
    OBVIOUS
  <2>2. OnlyAt(n, s, p)
    BY <1>1, <2>1
  <2>3. OnlyAt(n, t, p)
    BY <1>9, <2>2, OnlyAtTwice
  <2>. QED
    BY <1>13, <1>16, <1>18, <2>1, <2>2, <2>3
<1>20. \A y \in B : Right(st, y) /\ Shown(L, y, p) = Shown(L, Now, p)
  BY <1>1, <1>13, <1>16
<1>21. "crash" \in st.calls => \A y \in A : FlatDisk(st, y)
  BY <1>1, <1>9, <1>13, RightDisk
<1>22. PICK args : args = <<p>>
  OBVIOUS
<1>23. Through(op, args, before, after)
  BY <1>10, <1>13, <1>22
<1>24. setup' = setup /\ Right(st, Now') /\ Did(op, args, L, p, x)
  BY <1>9, <1>14, <1>15, <1>18, <1>19, <1>20, <1>21, <1>23, ThroughRight
<1>. QED
  BY <1>0, <1>2, <1>22, <1>24

-----------------------------------------------------------------------------
(* The handlers. *)

\* A call that changes nothing that is shown.
Told(op, args, L, err, val) == Answer(op, args, err, val) /\ Shows(L, Now') = Shows(L, Now)

\* What a flat mount is like between two calls.
FlatNow(st) == st = setup /\ setup \in Setups /\ Now \in Sound /\ Flat(st) /\ Right(st, Now)

\* A handler that stops in a state with the same disk.
LEMMA StopsRight ==
    ASSUME NEW st, NEW L, NEW s \in Sound, Right(st, s), s.u = Now.u, s.w = Now.w, Become(s),
           NEW op, NEW args, NEW err, NEW val, Answer(op, args, err, val)
    PROVE  setup' = setup /\ Right(st, Now') /\ Told(op, args, L, err, val)
<1>1. Now' = s /\ setup' = setup
  BY SoundParts, NowIs
<1>2. PICK n : n = Now
  OBVIOUS
<1>3. Shows(L, s) = Shows(L, n)
  BY <1>2, SameShows
<1>. QED
  BY <1>1, <1>2, <1>3 DEF Told

\* What handlers know after do_lookup_file.
LEMMA FoundName ==
    ASSUME NEW st, FlatNow(st), NEW L, L = st.lower, NEW p \in Path, NEW op, Named(op, p),
           NEW s, s = do_lookup_file(Now, p)
    PROVE  /\ s \in Sound /\ Right(st, s) /\ Nameable(s, p) /\ OnlyAt(Now, s, p)
           /\ s.u = Now.u /\ s.w = Now.w
           /\ p \in Path \ {Base} /\ Parent(p) = Base
           /\ p \in DOMAIN s.m <=> Seen(L, Now, p)
           /\ p \notin DOMAIN s.m => Clear(st, s, p)
           /\ p \notin DOMAIN s.m /\ p \notin s.m[Base].wh => Hits(L, s, p) = {}
<1>1. PICK n : n = Now
  OBVIOUS
<1>2. Nameable(n, p) /\ n \in Sound /\ Right(st, n) /\ st = setup /\ setup \in Setups /\ Flat(st)
  BY <1>1, NamedNow DEF FlatNow
<1>3. s = do_lookup_file(n, p)
  BY <1>1
<1>4. /\ s \in Sound /\ Right(st, s) /\ Nameable(s, p) /\ s.u = n.u /\ s.w = n.w /\ OnlyAt(n, s, p)
      /\ p \in DOMAIN s.m <=> Seen(st.lower, n, p)
      /\ p \notin DOMAIN s.m /\ p \notin s.m[Base].wh => Hits(st.lower, n, p) = {}
  BY <1>2, <1>3, LookupRight
<1>5. p \in Path \ {Base} /\ Parent(p) = Base
  BY <1>2, FlatShape
<1>6. (Seen(L, s, p) <=> Seen(L, n, p)) /\ Hits(L, s, p) = Hits(L, n, p)
  BY <1>4, SameCell
<1>7. p \notin DOMAIN s.m => Clear(st, s, p)
  BY <1>1, <1>4, <1>5, <1>6 DEF Clear
<1>. QED
  BY <1>1, <1>4, <1>5, <1>6, <1>7

\* The directory needs no copy-up.
LEMMA UppingBase ==
    ASSUME setup \in Setups, NEW s \in Sound, NEW b, b = Upping(s, Base)
    PROVE  b \in Seq({s}) /\ Len(b) > 0 /\ Last(b) = s
<1>1. Base \in DOMAIN s.m
  BY SoundParts DEF Fits, TopFits
<1>2. PICK d : d = Base
  OBVIOUS
<1>3. PICK t : t = get_node_up(s, d)
  OBVIOUS
<1>4. t = s
  BY <1>2, <1>3, UpBase
<1>5. b \in Seq({s, t}) /\ Len(b) > 0 /\ Last(b) = t
  <2>1. d \in DOMAIN s.m /\ (d # Base => Parent(d) = Base) /\ b = Upping(s, d)
    BY <1>1, <1>2
  <2>. QED
    BY <1>3, <2>1, UppingIn
<1>6. {s, t} = {s}
  BY <1>4
<1>. QED
  BY <1>4, <1>5, <1>6

\* create makes a file where none is shown.
LEMMA FlatCreate ==
    ASSUME NEW st, FlatNow(st), NEW L, L = st.lower, NEW p \in Path, Create(p)
    PROVE  /\ setup' = setup /\ Right(st, Now') /\ Parent(p) = Base /\ p # Base
           /\ \/ Seen(L, Now, p) /\ Told("create", <<p>>, L, "EEXIST", {})
              \/ ~Seen(L, Now, p) /\ Did("create", <<p>>, L, p, "new")
<1>0. st = setup /\ setup \in Setups /\ Flat(st) /\ Named("create", p)
  BY DEF FlatNow, Create
<1>1. PICK s : s = do_lookup_file(Now, p)
  OBVIOUS
<1>2. /\ s \in Sound /\ Right(st, s) /\ Nameable(s, p) /\ OnlyAt(Now, s, p)
      /\ s.u = Now.u /\ s.w = Now.w
      /\ p \in Path \ {Base} /\ Parent(p) = Base
      /\ p \in DOMAIN s.m <=> Seen(L, Now, p)
      /\ p \notin DOMAIN s.m => Clear(st, s, p)
      /\ p \notin DOMAIN s.m /\ p \notin s.m[Base].wh => Hits(L, s, p) = {}
  BY <1>0, <1>1, FoundName
<1>3. CASE p \in DOMAIN s.m
  <2>1. PICK args, e, v : args = <<p>> /\ e = "EEXIST" /\ v = {}
    OBVIOUS
  <2>2. Answer("create", args, e, v) /\ Become(s)
    BY <1>1, <1>3, <2>1 DEF Create, Fail
  <2>3. setup' = setup /\ Right(st, Now') /\ Told("create", args, L, e, v)
    BY <1>2, <2>2, StopsRight
  <2>. QED
    BY <1>2, <1>3, <2>1, <2>3
<1>4. CASE p \notin DOMAIN s.m
  <2>1. st.last > 0
    BY <1>0, SetupAssumption DEF Flat, Named, Called
  <2>2. PICK before : before = Upping(s, Base)
    OBVIOUS
  <2>3. before \in Seq({s}) /\ Last(before) = s
    BY <1>0, <1>2, <2>2, UppingBase
  <2>4. IF p \in s.m[Base].wh THEN PutFile("create", p, before) ELSE OpenFile("create", p, before)
    BY <1>1, <1>2, <1>4, <2>2 DEF Create
  <2>5. CASE p \in s.m[Base].wh
    BY <1>0, <1>2, <1>4, <2>1, <2>3, <2>4, <2>5, PutFileRight
  <2>6. CASE p \notin s.m[Base].wh
    BY <1>0, <1>2, <1>4, <2>1, <2>3, <2>4, <2>6, OpenFileRight
  <2>. QED
    BY <2>5, <2>6
<1>. QED
  BY <1>3, <1>4

\* So do mknod and symlink.
LEMMA FlatMakeAside ==
    ASSUME NEW st, FlatNow(st), NEW L, L = st.lower, NEW p \in Path,
           NEW op \in {"mknod", "symlink"}, MakeAside(op, p)
    PROVE  /\ setup' = setup /\ Right(st, Now') /\ Parent(p) = Base /\ p # Base
           /\ \/ Seen(L, Now, p) /\ Told(op, <<p>>, L, "EEXIST", {})
              \/ ~Seen(L, Now, p) /\ Did(op, <<p>>, L, p, "new")
<1>0. st = setup /\ setup \in Setups /\ Flat(st) /\ Named(op, p)
  BY DEF FlatNow, MakeAside
<1>1. PICK s : s = do_lookup_file(Now, p)
  OBVIOUS
<1>2. /\ s \in Sound /\ Right(st, s) /\ Nameable(s, p) /\ OnlyAt(Now, s, p)
      /\ s.u = Now.u /\ s.w = Now.w
      /\ p \in Path \ {Base} /\ Parent(p) = Base
      /\ p \in DOMAIN s.m <=> Seen(L, Now, p)
      /\ p \notin DOMAIN s.m => Clear(st, s, p)
  BY <1>0, <1>1, FoundName
<1>3. CASE p \in DOMAIN s.m
  <2>1. PICK args, e, v : args = <<p>> /\ e = "EEXIST" /\ v = {}
    OBVIOUS
  <2>2. Answer(op, args, e, v) /\ Become(s)
    BY <1>1, <1>3, <2>1 DEF MakeAside, Fail
  <2>3. setup' = setup /\ Right(st, Now') /\ Told(op, args, L, e, v)
    BY <1>2, <2>2, StopsRight
  <2>. QED
    BY <1>2, <1>3, <2>1, <2>3
<1>4. CASE p \notin DOMAIN s.m
  <2>1. st.last > 0
    BY <1>0, SetupAssumption DEF Flat, Named, Called
  <2>2. PICK before : before = Upping(s, Base)
    OBVIOUS
  <2>3. before \in Seq({s}) /\ Last(before) = s
    BY <1>0, <1>2, <2>2, UppingBase
  <2>4. PutFile(op, p, before)
    BY <1>1, <1>2, <1>4, <2>2 DEF MakeAside
  <2>. QED
    BY <1>0, <1>2, <1>4, <2>1, <2>3, <2>4, PutFileRight
<1>. QED
  BY <1>3, <1>4

\* A cached node reads what is shown.
LEMMA ReadRight ==
    ASSUME NEW st, st = setup, NEW L, L = st.lower, NEW s \in Sound, Right(st, s),
           NEW p \in DOMAIN s.m \ {Base}
    PROVE  ReadBy(s, p) = Shown(L, s, p) /\ Seen(L, s, p)
<1>1. p \in Path \ {Base} /\ Parent(p) = Base /\ ~s.m[p].dir
  BY FlatShape
<1>2. Seen(L, s, p) /\ s.m[p].layer = First(L, s, p)
  BY <1>1 DEF Right, RightAt, NodeAt
<1>3. PICK f : f = s.m[p].layer
  OBVIOUS
<1>4. At(s, f, p) = AtIn(L, s, f, p)
  BY InLayers DEF lower
<1>. QED
  BY <1>1, <1>2, <1>3, <1>4 DEF ReadBy, Shown

\* lookup answers with what is shown, if anything.
LEMMA FlatLookup ==
    ASSUME NEW st, FlatNow(st), NEW L, L = st.lower, NEW p \in Path, LookupFast(p) \/ LookupSlow(p)
    PROVE  /\ setup' = setup /\ Right(st, Now') /\ Parent(p) = Base /\ p # Base
           /\ \/ Seen(L, Now, p) /\ Told("lookup", <<p>>, L, "ok", {Shown(L, Now, p)})
              \/ ~Seen(L, Now, p) /\ Told("lookup", <<p>>, L, "ENOENT", {})
<1>0. st = setup /\ setup \in Setups /\ Flat(st) /\ Named("lookup", p) /\ Now \in Sound /\ Right(st, Now)
  BY DEF FlatNow, LookupFast, LookupSlow
<1>1. PICK n, s : n = Now /\ s = do_lookup_file(Now, p)
  OBVIOUS
<1>2. /\ s \in Sound /\ Right(st, s) /\ s.u = Now.u /\ s.w = Now.w
      /\ p \in Path \ {Base} /\ Parent(p) = Base
      /\ p \in DOMAIN s.m <=> Seen(L, Now, p)
  BY <1>0, <1>1, FoundName
<1>3. PICK args : args = <<p>>
  OBVIOUS
<1>4. CASE LookupFast(p)
  <2>1. p \in DOMAIN n.m \ {Base} /\ n \in Sound /\ Right(st, n)
    BY <1>0, <1>1, <1>2, <1>4, NowParts DEF LookupFast
  <2>2. ReadBy(n, p) = Shown(L, n, p) /\ Seen(L, n, p)
    BY <1>0, <2>1, ReadRight
  <2>3. PICK e, v : e = "ok" /\ v = {Shown(L, n, p)}
    OBVIOUS
  <2>4. Answer("lookup", args, e, v) /\ Become(n)
    BY <1>1, <1>3, <1>4, <2>2, <2>3 DEF LookupFast
  <2>5. n.u = Now.u /\ n.w = Now.w
    BY <1>1
  <2>6. setup' = setup /\ Right(st, Now') /\ Told("lookup", args, L, e, v)
    BY <2>1, <2>4, <2>5, StopsRight
  <2>. QED
    BY <1>1, <1>2, <1>3, <2>2, <2>3, <2>6
<1>5. CASE LookupSlow(p) /\ p \notin DOMAIN s.m
  <2>3. PICK e, v : e = "ENOENT" /\ v = {}
    OBVIOUS
  <2>4. Answer("lookup", args, e, v) /\ Become(s)
    BY <1>1, <1>3, <1>5, <2>3 DEF LookupSlow, Fail
  <2>6. setup' = setup /\ Right(st, Now') /\ Told("lookup", args, L, e, v)
    BY <1>2, <2>4, StopsRight
  <2>. QED
    BY <1>2, <1>3, <1>5, <2>3, <2>6
<1>6. CASE LookupSlow(p) /\ p \in DOMAIN s.m
  <2>1. ~s.m[p].dir
    BY <1>2, <1>6, FlatShape
  <2>2. ReadBy(s, p) = Shown(L, s, p)
    BY <1>0, <1>2, <1>6, ReadRight
  <2>3. Shown(L, s, p) = Shown(L, n, p)
    BY <1>1, <1>2, SameCell
  <2>4. PICK e, v : e = "ok" /\ v = {Shown(L, n, p)}
    OBVIOUS
  <2>5. Answer("lookup", args, e, v) /\ Become(s)
    BY <1>1, <1>3, <1>6, <2>1, <2>2, <2>3, <2>4 DEF LookupSlow
  <2>6. setup' = setup /\ Right(st, Now') /\ Told("lookup", args, L, e, v)
    BY <1>2, <2>5, StopsRight
  <2>. QED
    BY <1>1, <1>2, <1>3, <1>6, <2>4, <2>6
<1>. QED
  BY <1>4, <1>5, <1>6

\* A loaded directory lists what is shown.
LEMMA ListRight ==
    ASSUME NEW st, NEW L, L = st.lower, NEW s \in Sound, Right(st, s), s.m[Base].loaded
    PROVE  Children(s, Base) = {c \in Kids(Base) : Seen(L, s, c)}
<1>1. ASSUME NEW c \in Kids(Base) PROVE c \in DOMAIN s.m <=> Seen(L, s, c)
  <2>1. c \in Path \ {Base} /\ Parent(c) = Base
    BY DEF Kids
  <2>2. RightAt(st, s, c)
    BY <2>1 DEF Right
  <2>3. Seen(L, s, c) => Hits(L, s, c) # {}
    BY DEF Seen
  <2>. QED
    BY <2>1, <2>2, <2>3 DEF RightAt, NodeAt, WhAt, LoadedAt
<1>. QED
  BY <1>1 DEF Children

\* opendir lists what is shown.
LEMMA FlatOpendir ==
    ASSUME NEW st, FlatNow(st), NEW L, L = st.lower, NEW p \in Path, Opendir(p)
    PROVE  /\ setup' = setup /\ Right(st, Now') /\ p = Base
           /\ Told("readdir", <<p>>, L, "ok", {c \in Kids(Base) : Seen(L, Now, c)})
<1>0. st = setup /\ setup \in Setups /\ Flat(st) /\ Now \in Sound /\ Right(st, Now)
  BY DEF FlatNow
<1>1. PICK n, s : n = Now /\ s = reload_dir(n, Base)
  OBVIOUS
<1>2. n \in Sound /\ Right(st, n) /\ p \in DOMAIN n.m /\ n.m[p].dir
  BY <1>0, <1>1, NowParts DEF Opendir, Held
<1>3. p = Base
  BY <1>2, FlatShape
<1>4. s \in Sound
  BY <1>0, <1>1, <1>2, <1>3, ReloadDir
<1>5. s.u = n.u /\ s.w = n.w /\ Right(st, s) /\ s.m[Base].loaded
  <2>1. CASE n.m[Base].loaded
    BY <1>1, <1>2, <2>1 DEF reload_dir
  <2>2. CASE ~n.m[Base].loaded
    <3>1. s = load_dir_impl(n, Base)
      BY <1>1, <2>2 DEF reload_dir
    <3>2. Unscanned(st, n)
      BY <1>2 DEF Right, RightAt, Unscanned
    <3>. QED
      BY <1>0, <1>2, <3>1, <3>2, LoadRight
  <2>. QED
    BY <2>1, <2>2
<1>6. PICK args, e, v : args = <<p>> /\ e = "ok" /\ v = {c \in Kids(Base) : Seen(L, n, c)}
  OBVIOUS
<1>7. Children(s, Base) = v
  <2>1. Children(s, Base) = {c \in Kids(Base) : Seen(L, s, c)}
    BY <1>4, <1>5, ListRight
  <2>2. \A c : Seen(L, s, c) <=> Seen(L, n, c)
    BY <1>5, SameCell
  <2>. QED
    BY <1>6, <2>1, <2>2
<1>8. Answer("readdir", args, e, v) /\ Become(s)
  BY <1>1, <1>3, <1>6, <1>7 DEF Opendir
<1>9. s.u = Now.u /\ s.w = Now.w
  BY <1>1, <1>5
<1>10. setup' = setup /\ Right(st, Now') /\ Told("readdir", args, L, e, v)
  BY <1>4, <1>5, <1>8, <1>9, StopsRight
<1>. QED
  BY <1>1, <1>3, <1>6, <1>10

\* A new scan of the directory changes nothing that is shown.
LEMMA FlatRefresh ==
    ASSUME NEW st, FlatNow(st), NEW L, L = st.lower, NEW p \in Path, Refresh(p)
    PROVE  /\ setup' = setup /\ Right(st, Now') /\ p = Base
           /\ Told("refresh", <<p>>, L, "ok", {})
<1>0. st = setup /\ setup \in Setups /\ Flat(st) /\ Now \in Sound /\ Right(st, Now)
  BY DEF FlatNow
<1>1. PICK s0, N : s0 = Now /\ N = mem
  OBVIOUS
<1>2. s0 \in Sound /\ Right(st, s0) /\ s0.m = N /\ p \in DOMAIN N /\ N[p].dir
  BY <1>0, <1>1, NowParts DEF Refresh, Held
<1>3. p = Base
  BY <1>2, FlatShape
<1>4. N \in NodeMaps /\ N[p] \in Node
  BY <1>2, SoundParts, SoundNode
<1>5. PICK n : n = [N[p] EXCEPT !.wh = {}]
  OBVIOUS
<1>6. n \in Node /\ n.dir = N[p].dir /\ n.layer = N[p].layer /\ n.wh = {} /\ n.last = N[p].last
  <2>1. PICK o, X : o = N[p] /\ X = {}
    OBVIOUS
  <2>2. o \in Node /\ X \in SUBSET Path /\ n = [o EXCEPT !.wh = X]
    BY <1>4, <1>5, <2>1
  <2>. QED
    BY <2>1, <2>2, NodeFields
<1>7. DOMAIN N \ Under(p) = {Base}
  <2>1. Base \in Path /\ DOMAIN N \subseteq Path
    BY <1>4, NodeMapFacts DEF Path
  <2>. QED
    BY <1>2, <1>3, <2>1, UnderPath
<1>8. PICK M : M = [q \in {Base} |-> IF q = p THEN n ELSE N[q]]
  OBVIOUS
<1>9. DOMAIN M = {Base} /\ M[Base] = n
  BY <1>3, <1>8
<1>10. M \in NodeMaps
  <2>1. M \in [{Base} -> Node] /\ {Base} \in SUBSET Path
    BY <1>3, <1>6, <1>8 DEF Path
  <2>. QED
    BY <2>1, NodeMapMade
<1>11. PICK t : t = [s0 EXCEPT !.m = M]
  OBVIOUS
<1>12. t \in Sound /\ t.m = M /\ t.u = s0.u /\ t.w = s0.w
  <2>1. DOMAIN M \subseteq DOMAIN s0.m /\ Base \in DOMAIN M
    BY <1>2, <1>3, <1>9
  <2>2. \A q \in DOMAIN M \ {Base} : Parent(q) \in DOMAIN M
    BY <1>9
  <2>3. \A q \in DOMAIN M : /\ M[q].dir = s0.m[q].dir /\ M[q].layer = s0.m[q].layer
                            /\ M[q].wh \subseteq s0.m[q].wh
    BY <1>2, <1>3, <1>6, <1>9
  <2>. QED
    BY <1>2, <1>10, <1>11, <2>1, <2>2, <2>3, NodesDrop
<1>13. Unscanned(st, t)
  <2>1. t.u[Base] = "dir" /\ t.m[Base].last = st.last
    BY <1>2, <1>3, <1>6, <1>9, <1>12 DEF Right
  <2>2. ASSUME NEW q \in Path \ {Base} PROVE DiskAt(st, t, q) /\ NodeAt(st, t, q) /\ WhAt(st, t, q)
    <3>1. DiskAt(st, s0, q)
      BY <1>2 DEF Right, RightAt
    <3>2. \A i \in 1 .. NL : AtIn(st.lower, t, i, q) = AtIn(st.lower, s0, i, q)
      BY SetupAssumption DEF AtIn
    <3>3. DiskAt(st, t, q)
      BY <1>12, <3>1, <3>2 DEF DiskAt
    <3>. QED
      BY <1>6, <1>9, <1>12, <3>3 DEF NodeAt, WhAt
  <2>. QED
    BY <2>1, <2>2 DEF Unscanned
<1>14. PICK s : s = load_dir_impl(t, Base)
  OBVIOUS
<1>15. s \in Sound
  <2>1. Base \in DOMAIN t.m /\ t.m[Base].dir
    BY <1>2, <1>3, <1>6, <1>9, <1>12
  <2>. QED
    BY <1>0, <1>12, <1>14, <2>1, LoadDir
<1>16. s.u = t.u /\ s.w = t.w /\ Right(st, s)
  BY <1>0, <1>12, <1>13, <1>14, LoadRight
<1>17. PICK args, e, v : args = <<p>> /\ e = "ok" /\ v = {}
  OBVIOUS
<1>18. Answer("refresh", args, e, v) /\ Become(s)
  <2>1. t = [Now EXCEPT !.m = [q \in DOMAIN mem \ Under(p) |->
                                     IF q = p THEN [mem[p] EXCEPT !.wh = {}] ELSE mem[q]]]
    BY <1>1, <1>5, <1>7, <1>8, <1>11
  <2>2. Done("refresh", <<p>>, load_dir_impl(t, p))
    BY <2>1 DEF Refresh
  <2>. QED
    BY <1>3, <1>14, <1>17, <2>2 DEF Done
<1>19. s.u = Now.u /\ s.w = Now.w
  BY <1>1, <1>12, <1>16
<1>20. setup' = setup /\ Right(st, Now') /\ Told("refresh", args, L, e, v)
  BY <1>15, <1>16, <1>18, <1>19, StopsRight
<1>. QED
  BY <1>3, <1>17, <1>20

\* A new mount shows the same.
LEMMA FlatRemount ==
    ASSUME NEW st, FlatNow(st), NEW L, L = st.lower, Remount
    PROVE  setup' = setup /\ Right(st, Now') /\ Told("mount", << >>, L, "ok", {})
<1>0. st = setup /\ setup \in Setups /\ Right(st, Now)
  BY DEF FlatNow
<1>1. PICK n, t : n = Now /\ t = Now'
  OBVIOUS
<1>2. t.u = n.u /\ t.w = n.w /\ t.m = Fresh /\ setup' = setup
  BY <1>1 DEF Remount, Now
<1>3. FlatDisk(st, n)
  BY <1>0, <1>1, RightDisk
<1>4. Right(st, t)
  BY <1>0, <1>2, <1>3, FreshRight
<1>5. Shows(L, t) = Shows(L, n)
  BY <1>2, SameShows
<1>. QED
  BY <1>1, <1>2, <1>4, <1>5 DEF Remount, Told

\* setattr copies up and shows what was shown.
LEMMA FlatSetattr ==
    ASSUME NEW st, FlatNow(st), NEW L, L = st.lower, NEW p \in Path, Setattr(p)
    PROVE  /\ setup' = setup /\ Right(st, Now')
           /\ Shown(L, Now, p) # "none" /\ Did("setattr", <<p>>, L, p, Shown(L, Now, p))
<1>0. st = setup /\ setup \in Setups /\ Flat(st)
  BY DEF FlatNow
<1>1. PICK n, t, b, x : n = Now /\ t = get_node_up(n, p) /\ b = Upping(n, p) /\ x = Shown(L, n, p)
  OBVIOUS
<1>2. n \in Sound /\ Right(st, n) /\ p \in DOMAIN n.m
  BY <1>1, NowParts DEF FlatNow, Setattr, Held
<1>3. t \in Sound /\ Right(st, t) /\ OnlyAt(n, t, p) /\ Shown(L, t, p) = x
  <2>1. CASE p = Base
    <3>1. t = n
      BY <1>1, <1>2, <2>1, UpBase
    <3>. QED
      BY <1>1, <1>2, <3>1, OnlyAtSelf
  <2>2. CASE p # Base
    <3>1. p \in DOMAIN n.m \ {Base}
      BY <1>2, <2>2
    <3>. QED
      BY <1>0, <1>1, <1>2, <3>1, UpRight
  <2>. QED
    BY <2>1, <2>2
<1>4. p # Base => Parent(p) = Base
  BY <1>2, FlatShape
<1>5. PICK A, after, args : A = {n, t} /\ after = <<t>> /\ args = <<p>>
  OBVIOUS
<1>6. b \in Seq(A)
  BY <1>0, <1>1, <1>2, <1>4, <1>5, UppingIn
<1>7. after \in Seq(A) /\ Len(after) > 0 /\ Last(after) = t
  <2>1. t \in A
    BY <1>5
  <2>. QED
    BY <1>5, <2>1, OneState
<1>8. A \in SUBSET Sound /\ \A y \in A : Right(st, y) /\ OnlyAt(Now, y, p) /\ Shown(L, y, p) = x
  BY <1>1, <1>2, <1>3, <1>5, OnlyAtSelf
<1>9. /\ "fail" \in st.calls => \A y \in A : Right(st, y) /\ Shown(L, y, p) = Shown(L, Now, p)
      /\ "crash" \in st.calls => \A y \in A : FlatDisk(st, y)
      /\ \A y \in A : OnlyAt(Now, y, p) /\ Shown(L, y, p) \in {Shown(L, Now, p), x}
  BY <1>1, <1>8, RightDisk
<1>10. Through("setattr", args, b, after)
  BY <1>1, <1>5 DEF Setattr
<1>11. A \subseteq A /\ Right(st, t) /\ Shown(L, t, p) = x
  BY <1>3
<1>12. setup' = setup /\ Right(st, Now') /\ Did("setattr", args, L, p, x)
  BY <1>0, <1>6, <1>7, <1>8, <1>9, <1>10, <1>11, ThroughRight
<1>13. x # "none"
  <2>1. CASE p = Base
    BY <1>1, <2>1 DEF Shown
  <2>2. CASE p # Base
    <3>1. p \in DOMAIN n.m \ {Base}
      BY <1>2, <2>2
    <3>. QED
      BY <1>0, <1>1, <1>2, <3>1, UpRight
  <2>. QED
    BY <2>1, <2>2
<1>. QED
  BY <1>1, <1>5, <1>12, <1>13

\* A write shows the new content, or what was shown before.
LEMMA FlatWrite ==
    ASSUME NEW st, FlatNow(st), NEW L, L = st.lower, NEW p \in Path, Write(p)
    PROVE  /\ setup' = setup /\ Right(st, Now') /\ Parent(p) = Base /\ p # Base
           /\ Seen(L, Now, p) /\ Did("write", <<p>>, L, p, "new")
<1>0. st = setup /\ setup \in Setups /\ Flat(st)
  BY DEF FlatNow
<1>1. PICK n, t, b, x : n = Now /\ t = get_node_up(n, p) /\ b = Upping(n, p) /\ x = "new"
  OBVIOUS
<1>2. n \in Sound /\ Right(st, n) /\ p \in DOMAIN n.m /\ ~n.m[p].dir
  BY <1>1, NowParts DEF FlatNow, Write, Held
<1>3. p \in DOMAIN n.m \ {Base} /\ p \in Path \ {Base} /\ Parent(p) = Base
  BY <1>2, FlatShape
<1>4. /\ t \in Sound /\ Right(st, t) /\ OnlyAt(n, t, p)
      /\ SameNodes(n, t) /\ p \in DOMAIN t.m /\ t.m[p].layer = 0
      /\ Shown(L, t, p) = Shown(L, n, p) /\ t.u[p] \notin {"none", "wh"} /\ p \notin t.w
  BY <1>0, <1>1, <1>2, <1>3, UpRight
<1>5. x \in UpperEnt /\ x \notin {"none", "wh"} /\ x \notin DirEnt
  BY <1>1, SetupAssumption DEF UpperEnt, DirEnt
<1>6. PICK r : r = PutEnt(t, p, x)
  OBVIOUS
<1>7. ~t.m[p].dir /\ t.u[Base] = "dir" /\ DiskAt(st, t, p) /\ NodeAt(st, t, p)
  BY <1>2, <1>3, <1>4 DEF SameNodes, Right, RightAt
<1>8. r \in Sound /\ OnlyEnt(t, r, p) /\ r.w = t.w /\ r.u[p] = x
  <2>1. \A c \in Kids(p) : t.u[c] = "none" /\ c \notin t.w
    BY <1>4, <1>7, SoundNode DEF NodeFits
  <2>2. Nameable(t, p) /\ t.u[Parent(p)] \in DirEnt
    BY <1>3, <1>4, <1>7, FlatShape DEF Nameable, DirEnt
  <2>. QED
    BY <1>3, <1>4, <1>5, <1>6, <1>7, <2>1, <2>2, EntryPut
<1>9. OnlyAt(t, r, p)
  BY <1>3, <1>8, EntOnly
<1>10. DiskAt(st, r, p)
  <2>1. \A i \in 1 .. NL : AtIn(st.lower, r, i, p) = AtIn(st.lower, t, i, p)
    BY SetupAssumption DEF AtIn
  <2>. QED
    BY <1>4, <1>5, <1>7, <1>8, <2>1 DEF DiskAt
<1>11. RightAt(st, r, p)
  <2>1. /\ r.u[p] \notin {"none", "wh"} /\ p \notin r.w
        /\ p \in DOMAIN r.m /\ ~r.m[p].dir /\ r.m[p].layer = 0
        /\ r.m[p].last > 0 \/ st.last > 0
    BY <1>4, <1>5, <1>7, <1>8 DEF OnlyEnt, NodeAt
  <2>. QED
    BY <1>10, <2>1, CellMade
<1>12. Right(st, r)
  BY <1>4, <1>9, <1>11, RightKept
<1>13. Shown(L, r, p) = x
  BY <1>3, <1>4, <1>5, <1>8, CellShows
<1>14. OnlyAt(n, r, p)
  BY <1>4, <1>9, OnlyAtTwice
<1>15. PICK A, B, after, args : B = {n, t} /\ A = {n, t, r} /\ after = <<r>> /\ args = <<p>>
  OBVIOUS
<1>16. b \in Seq(B)
  BY <1>0, <1>1, <1>2, <1>3, <1>15, UppingIn
<1>17. after \in Seq(A) /\ Len(after) > 0 /\ Last(after) = r
  <2>1. r \in A
    BY <1>15
  <2>. QED
    BY <1>15, <2>1, OneState
<1>18. A \in SUBSET Sound /\ B \in SUBSET Sound /\ B \subseteq A
  BY <1>2, <1>4, <1>8, <1>15
<1>19. \A y \in A : Right(st, y) /\ OnlyAt(n, y, p)
  BY <1>2, <1>4, <1>12, <1>14, <1>15, OnlyAtSelf
<1>20. \A y \in B : Right(st, y) /\ Shown(L, y, p) = Shown(L, Now, p)
  BY <1>1, <1>4, <1>15, <1>19
<1>a. \A y \in A : FlatDisk(st, y)
  BY <1>19, RightDisk
<1>b. \A y \in A : OnlyAt(Now, y, p) /\ Shown(L, y, p) \in {Shown(L, Now, p), x}
  BY <1>1, <1>4, <1>13, <1>15, <1>19
<1>21. Through("write", args, b, after)
  BY <1>1, <1>6, <1>15 DEF Write, PutEnt
<1>22. setup' = setup /\ Right(st, Now') /\ Did("write", args, L, p, x)
  <2>1. Right(st, r) /\ Shown(L, r, p) = x /\ Last(after) = r
    BY <1>12, <1>13, <1>17
  <2>2. PICK op, K : op = "write" /\ K = L
    OBVIOUS
  <2>3. Through(op, args, b, after)
    BY <1>21, <2>2
  <2>4. /\ \A y \in B : Right(st, y) /\ Shown(K, y, p) = Shown(K, Now, p)
        /\ \A y \in A : FlatDisk(st, y)
        /\ \A y \in A : OnlyAt(Now, y, p) /\ Shown(K, y, p) \in {Shown(K, Now, p), x}
        /\ Shown(K, r, p) = x
    BY <1>20, <1>a, <1>b, <2>1, <2>2
  <2>5. /\ st = setup /\ setup \in Setups /\ b \in Seq(B) /\ after \in Seq(A) /\ Len(after) > 0
        /\ A \in SUBSET Sound /\ B \in SUBSET Sound /\ B \subseteq A
        /\ Last(after) = r /\ Right(st, r)
    BY <1>0, <1>16, <1>17, <1>18, <2>1
  <2>6. setup' = setup /\ Right(st, Now') /\ Did(op, args, K, p, x)
    BY <2>3, <2>4, <2>5, ThroughRight
  <2>. QED
    BY <2>2, <2>6
<1>23. Seen(L, n, p)
  BY <1>2, <1>3 DEF Right, RightAt, NodeAt
<1>. QED
  BY <1>1, <1>3, <1>15, <1>22, <1>23

\* A file that leaves the upper layer and the cache: only its name changes,
\* and the directory needs a new scan.
LEMMA GoneOnly ==
    ASSUME NEW s \in Sound, NEW p \in DOMAIN s.m \ {Base}, Parent(p) = Base, ~s.m[p].dir,
           NEW t, t = Gone(s, p)
    PROVE  /\ t \in Sound /\ OnlyAt(s, t, p) /\ Nameable(t, p) /\ p \notin DOMAIN t.m
           /\ t.u[p] = "none" /\ t.w = s.w /\ ~t.m[Base].loaded
<1>. DEFINE U == [q \in Path |-> IF q \in Tree(p) THEN "none" ELSE s.u[q]]
            D == DOMAIN s.m \ Tree(p)
            M == [q \in D |-> s.m[q]]
            r == [u |-> U, w |-> s.w, m |-> M]
<1>0. /\ p \in Path \ {Base} /\ Base \in Path /\ Base \in DOMAIN s.m /\ DOMAIN s.m \subseteq Path
      /\ s.m[Base] \in Node
  BY SoundNode DEF Path
<1>1. \A q \in Path : q \in Under(p) => q \notin DOMAIN s.m /\ s.u[q] = "none" /\ q \notin s.w
  <2>1. \A q \in Path : q \in Under(p) => q # Base /\ Parent(q) = p /\ q \in Kids(p)
    BY <1>0, TreePath DEF Kids
  <2>2. \A c \in Kids(p) : s.u[c] = "none" /\ c \notin s.w
    BY SoundNode DEF NodeFits
  <2>3. NodesHang(s.m)
    BY SoundParts DEF Fits
  <2>. QED
    BY <2>1, <2>2, <2>3 DEF NodesHang
<1>2. s.w \ Under(p) = s.w
  <2>1. s.w \subseteq Path
    BY SoundParts
  <2>. QED
    BY <1>1, <2>1
<1>3. Forgotten(Cleared(s, p), p) = r
  <2>1. PICK c : c = [u |-> U, w |-> s.w, m |-> s.m]
    OBVIOUS
  <2>2. [s EXCEPT !.u = U, !.w = s.w] = [u |-> U, w |-> s.w, m |-> s.m]
    <3>. HIDE DEF U
    <3>1. s \in States
      BY SoundParts
    <3>. QED
      BY <3>1, DiskExcept
  <2>3. Cleared(s, p) = c
    BY <1>2, <2>1, <2>2 DEF Cleared
  <2>4. Forgotten(c, p) = [c EXCEPT !.m = M]
    BY <2>1 DEF Forgotten
  <2>. HIDE DEF U, M, D
  <2>. QED
    BY <2>1, <2>3, <2>4
<1>4. p \in Tree(p) /\ Base \notin Tree(p)
      /\ \A q \in Path : q \in Tree(p) <=> q = p \/ q \in Under(p)
  BY <1>0, TreePath DEF Tree
<1>5. U[p] = "none" /\ \A q \in Path \ {p} : U[q] = s.u[q]
  BY <1>0, <1>1, <1>4
<1>6. D = DOMAIN s.m \ {p} /\ DOMAIN M = D /\ \A q \in D : M[q] = s.m[q]
  BY <1>0, <1>1, <1>4
<1>. HIDE DEF U, D, M
<1>7. r.u = U /\ r.w = s.w /\ r.m = M
  OBVIOUS
<1>8. t = mark_unloaded(r, Base)
  BY <1>3 DEF Gone
<1>. HIDE DEF r
<1>9. PICK n, o : n = M[Base] /\ o = [n EXCEPT !.loaded = FALSE]
  OBVIOUS
<1>10. n = s.m[Base] /\ o.loaded = FALSE /\ o.last = n.last /\ o.wh = n.wh
  <2>1. n = s.m[Base] /\ n \in Node
    BY <1>0, <1>6, <1>9
  <2>. QED
    BY <1>9, <2>1 DEF Node
<1>11. t.u = U /\ t.w = s.w /\ t.m = [M EXCEPT ![Base] = o]
  <2>1. t = [r EXCEPT !.m[Base].loaded = FALSE]
    BY <1>8 DEF mark_unloaded
  <2>2. r = [u |-> U, w |-> s.w, m |-> M]
    BY DEF r
  <2>. QED
    BY <1>9, <2>1, <2>2
<1>12. DOMAIN t.m = DOMAIN s.m \ {p} /\ t.m[Base] = o /\ \A q \in DOMAIN s.m \ {p, Base} : t.m[q] = s.m[q]
  BY <1>0, <1>6, <1>11
<1>13. t \in Sound /\ Nameable(t, p)
  BY GoneFacts
<1>14. OnlyAt(s, t, p)
  <2>1. \A q \in Path \ {Base, p} : Like(s, t, q)
    BY <1>5, <1>10, <1>11, <1>12 DEF Like
  <2>2. t.u[Base] = s.u[Base] /\ t.m[Base].last = s.m[Base].last /\ ~t.m[Base].loaded
    BY <1>0, <1>5, <1>10, <1>11, <1>12
  <2>. QED
    BY <2>1, <2>2 DEF OnlyAt
<1>. QED
  BY <1>5, <1>10, <1>11, <1>12, <1>13, <1>14

\* A step at p keeps the disk flat if it is flat at p.
LEMMA DiskKept ==
    ASSUME NEW st, NEW s, NEW t, NEW p, Right(st, s), OnlyAt(s, t, p), DiskAt(st, t, p)
    PROVE  FlatDisk(st, t)
<1>1. ASSUME NEW q \in Path \ {Base, p} PROVE DiskAt(st, t, q)
  <2>1. DiskAt(st, s, q) /\ t.u[q] = s.u[q] /\ (q \in t.w <=> q \in s.w)
    BY DEF Right, RightAt, OnlyAt, Like
  <2>2. \A i \in 1 .. NL : AtIn(st.lower, t, i, q) = AtIn(st.lower, s, i, q)
    BY SetupAssumption DEF AtIn
  <2>. QED
    BY <2>1, <2>2 DEF DiskAt
<1>2. t.u[Base] = "dir"
  BY DEF OnlyAt, Right
<1>. QED
  BY <1>1, <1>2 DEF FlatDisk

\* A step at p that shows the same there shows the same everywhere.
LEMMA ShowsKept ==
    ASSUME NEW L, NEW s, NEW t, NEW p, OnlyAt(s, t, p), Shown(L, t, p) = Shown(L, s, p)
    PROVE  Shows(L, t) = Shows(L, s)
<1>1. \A q \in Path : Shown(L, t, q) = Shown(L, s, q)
  BY ShownKept
<1>. QED
  BY <1>1 DEF Shows

\* The .wh. file that hides a file, and the state when the file is gone.
LEMMA MarkedGone ==
    ASSUME NEW st, st = setup, setup \in Setups, Flat(st), ~st.can_mknod, NEW t \in Sound, Right(st, t),
           NEW p \in DOMAIN t.m \ {Base}, NEW marked, marked = PutWh(t, t.w \cup {p}),
           NEW r, r = Gone(marked, p), NEW L
    PROVE  /\ marked \in Sound /\ OnlyAt(t, marked, p) /\ Shown(L, marked, p) = "none"
           /\ r \in Sound /\ OnlyAt(t, r, p) /\ Shown(L, r, p) = "none" /\ Right(st, r)
           /\ "crash" \in st.calls => FlatDisk(st, marked)
<1>0. p \in Path \ {Base} /\ Parent(p) = Base /\ ~t.m[p].dir /\ Base \in DOMAIN t.m /\ t.m[Base].dir
  BY FlatShape
<1>1. t.u[Base] = "dir" /\ DiskAt(st, t, p)
  BY <1>0 DEF Right, RightAt
<1>2. PICK X : X = t.w \cup {p}
  OBVIOUS
<1>3. marked \in Sound /\ marked.m = t.m /\ marked.u = t.u /\ marked.w = X
  <2>1. X \in SUBSET (Path \ {Base})
    BY <1>0, <1>2, SoundParts
  <2>2. \A q \in X \ t.w : Nameable(t, q) /\ t.u[Parent(q)] \in DirEnt
    BY <1>0, <1>1, <1>2 DEF Nameable, DirEnt
  <2>3. marked = PutWh(t, X)
    BY <1>2
  <2>. QED
    BY <2>1, <2>2, <2>3, WhiteoutsPut
<1>4. OnlyAt(t, marked, p) /\ p \in marked.w
  <2>1. OnlyEnt(t, marked, p) /\ \A q \in Path \ {p} : q \in marked.w <=> q \in t.w
    BY <1>2, <1>3 DEF OnlyEnt
  <2>. QED
    BY <1>0, <1>2, <1>3, <2>1, EntOnly
<1>5. p \in DOMAIN marked.m \ {Base} /\ ~marked.m[p].dir
  BY <1>0, <1>3
<1>6. /\ r \in Sound /\ OnlyAt(marked, r, p) /\ p \notin DOMAIN r.m
      /\ r.u[p] = "none" /\ r.w = marked.w /\ ~r.m[Base].loaded
  BY <1>0, <1>3, <1>5, GoneOnly
<1>7. OnlyAt(t, r, p)
  BY <1>4, <1>6, OnlyAtTwice
<1>8. DiskAt(st, r, p)
  BY <1>6 DEF DiskAt, DirEnt
<1>9. RightAt(st, r, p)
  BY <1>4, <1>6, <1>8, CellHidden
<1>10. Right(st, r)
  BY <1>7, <1>9, RightKept
<1>11. Shown(L, marked, p) = "none" /\ Shown(L, r, p) = "none"
  BY <1>0, <1>4, <1>6, CellShows
<1>12. ASSUME "crash" \in st.calls PROVE FlatDisk(st, marked)
  <2>1. "link" \notin st.calls
    BY <1>12 DEF Flat
  <2>2. \A i \in 1 .. NL : AtIn(st.lower, marked, i, p) = AtIn(st.lower, t, i, p)
    BY SetupAssumption DEF AtIn
  <2>3. DiskAt(st, marked, p)
    BY <1>1, <1>3, <2>1, <2>2 DEF DiskAt
  <2>. QED
    BY <1>4, <2>3, DiskKept
<1>. QED
  BY <1>3, <1>4, <1>6, <1>7, <1>10, <1>11, <1>12

\* The char device that RENAME_WHITEOUT leaves in the place of a file.
LEMMA ReplacedGone ==
    ASSUME NEW st, st = setup, setup \in Setups, Flat(st), st.can_mknod, NEW t \in Sound, Right(st, t),
           NEW p \in DOMAIN t.m \ {Base}, NEW g, g = Gone(t, p), NEW r, r = create_whiteout(g, p),
           NEW L
    PROVE  r \in Sound /\ OnlyAt(t, r, p) /\ Shown(L, r, p) = "none" /\ Right(st, r)
<1>0. p \in Path \ {Base} /\ Parent(p) = Base /\ ~t.m[p].dir /\ Base \in DOMAIN t.m /\ t.m[Base].dir
  BY FlatShape
<1>1. t.u[Base] = "dir" /\ DiskAt(st, t, p)
  BY <1>0 DEF Right, RightAt
<1>2. /\ g \in Sound /\ OnlyAt(t, g, p) /\ Nameable(g, p) /\ p \notin DOMAIN g.m
      /\ g.u[p] = "none" /\ g.w = t.w /\ ~g.m[Base].loaded
  BY <1>0, GoneOnly
<1>3. PICK x : x = "wh"
  OBVIOUS
<1>4. r = PutEnt(g, p, x)
  BY <1>3 DEF create_whiteout, CanMknod, PutEnt
<1>5. r \in Sound /\ OnlyEnt(g, r, p) /\ r.w = g.w /\ r.u[p] = x
  <2>1. x \in UpperEnt
    BY <1>3 DEF UpperEnt
  <2>2. g.u[Parent(p)] \in DirEnt
    BY <1>0, <1>1, <1>2 DEF OnlyAt, DirEnt
  <2>3. \A c \in Kids(p) : g.u[c] = "none" /\ c \notin g.w
    <3>1. g.u[p] \notin DirEnt
      BY <1>2 DEF DirEnt
    <3>. QED
      BY <1>0, <1>2, <3>1, SoundParts, NothingIn DEF Fits
  <2>. QED
    BY <1>0, <1>2, <1>4, <2>1, <2>2, <2>3, EntryPut
<1>6. OnlyAt(g, r, p)
  BY <1>0, <1>5, EntOnly
<1>7. OnlyAt(t, r, p)
  BY <1>2, <1>6, OnlyAtTwice
<1>8. DiskAt(st, r, p)
  BY <1>1, <1>2, <1>3, <1>5 DEF DiskAt, DirEnt
<1>9. p \notin DOMAIN r.m /\ ~r.m[Base].loaded /\ r.u[p] = "wh"
  BY <1>2, <1>3, <1>5 DEF OnlyEnt
<1>10. RightAt(st, r, p)
  BY <1>8, <1>9, CellHidden
<1>11. Right(st, r)
  BY <1>7, <1>10, RightKept
<1>12. Shown(L, r, p) = "none"
  BY <1>0, <1>9, CellShows
<1>. QED
  BY <1>5, <1>7, <1>11, <1>12

\* hide_node hides the file; without RENAME_WHITEOUT it may leave everything as
\* it was.
LEMMA HideRight ==
    ASSUME NEW st, FlatNow(st), NEW L, L = st.lower, NEW s \in Sound, Right(st, s),
           NEW p \in DOMAIN s.m \ {Base}, OnlyAt(Now, s, p), s.u = Now.u, s.w = Now.w,
           NEW b, b = Upping(s, p), NEW op, hide_node(op, p, b)
    PROVE  /\ setup' = setup /\ Right(st, Now')
           /\ \/ Did(op, <<p>>, L, p, "none")
              \/ st.can_mknod /\ ~st.rename_whiteout /\ Told(op, <<p>>, L, "EEXIST", {})
<1>0. st = setup /\ setup \in Setups /\ Flat(st)
  BY DEF FlatNow
<1>1. PICK n, t, x, args, K : /\ n = Now /\ t = get_node_up(s, p) /\ x = "none" /\ args = <<p>>
                              /\ K = L
  OBVIOUS
<1>2. p \in Path \ {Base} /\ Parent(p) = Base /\ p \in DOMAIN s.m
  BY FlatShape
<1>3. b \in Seq({s, t}) /\ Len(b) > 0 /\ Last(b) = t
  BY <1>0, <1>1, <1>2, UppingIn
<1>4. /\ t \in Sound /\ Right(st, t) /\ OnlyAt(s, t, p) /\ p \in DOMAIN t.m \ {Base}
      /\ Shown(K, t, p) = Shown(K, s, p)
  BY <1>0, <1>1, UpRight
<1>5. OnlyAt(n, s, p) /\ Shown(K, s, p) = Shown(K, n, p)
  <2>1. s.u = n.u /\ s.w = n.w /\ OnlyAt(n, s, p)
    BY <1>1
  <2>2. Shown(K, s, p) = Shown(K, n, p)
    BY <2>1, SameCell
  <2>. QED
    BY <2>1, <2>2
<1>6. OnlyAt(n, t, p) /\ Shown(K, t, p) = Shown(K, n, p)
  BY <1>4, <1>5, OnlyAtTwice
<1>7. NeedsWhiteout(t, p)
  <2>1. NodeAt(st, t, p) /\ t.m[Base].last = st.last
    BY <1>2, <1>4 DEF Right, RightAt
  <2>. QED
    BY <1>2, <1>4, <2>1 DEF NodeAt, NeedsWhiteout
<1>8. CASE ~CanMknod
  <2>1. ~st.can_mknod
    BY <1>0, <1>8 DEF CanMknod
  <2>2. PICK marked, r : marked = PutWh(t, t.w \cup {p}) /\ r = Gone(marked, p)
    OBVIOUS
  <2>3. /\ marked \in Sound /\ OnlyAt(t, marked, p) /\ Shown(K, marked, p) = "none"
        /\ r \in Sound /\ OnlyAt(t, r, p) /\ Shown(K, r, p) = "none" /\ Right(st, r)
        /\ "crash" \in st.calls => FlatDisk(st, marked)
    BY <1>0, <1>4, <2>1, <2>2, MarkedGone
  <2>4. PICK A, B, before, after : /\ B = {s, t, marked} /\ A = {s, t, marked, r}
                                   /\ before = Append(b, marked) /\ after = <<r>>
    OBVIOUS
  <2>5. Through(op, args, before, after)
    BY <1>1, <1>3, <1>7, <1>8, <2>2, <2>4 DEF hide_node, Gone, PutWh
  <2>6. before \in Seq(B)
    <3>1. b \in Seq(B) /\ marked \in B
      BY <1>3, <2>4
    <3>. QED
      BY <2>4, <3>1, AppendState
  <2>7. after \in Seq(A) /\ Len(after) > 0 /\ Last(after) = r
    <3>1. r \in A
      BY <2>4
    <3>. QED
      BY <2>4, <3>1, OneState
  <2>8. OnlyAt(n, marked, p) /\ OnlyAt(n, r, p)
    BY <1>6, <2>3, OnlyAtTwice
  <2>9. \A y \in A : OnlyAt(Now, y, p) /\ Shown(K, y, p) \in {Shown(K, Now, p), x}
    BY <1>1, <1>5, <1>6, <2>3, <2>4, <2>8
  <2>10. "fail" \in st.calls => \A y \in B : Right(st, y) /\ Shown(K, y, p) = Shown(K, Now, p)
    BY <1>0, <2>1 DEF Flat
  <2>11. "crash" \in st.calls => \A y \in A : FlatDisk(st, y)
    BY <1>4, <2>3, <2>4, RightDisk
  <2>12. B \in SUBSET Sound /\ A \in SUBSET Sound /\ B \subseteq A
    BY <1>4, <2>3, <2>4
  <2>13. Right(st, r) /\ Shown(K, r, p) = x /\ p \in Path
    BY <1>1, <1>2, <2>3
  <2>14. setup' = setup /\ Right(st, Now') /\ Did(op, args, K, p, x)
    BY <1>0, <2>5, <2>6, <2>7, <2>9, <2>10, <2>11, <2>12, <2>13, ThroughRight
  <2>. QED
    BY <1>1, <2>14
<1>9. CASE CanMknod /\ setup.rename_whiteout
  <2>1. st.can_mknod
    BY <1>0, <1>9 DEF CanMknod
  <2>2. PICK g, r : g = Gone(t, p) /\ r = create_whiteout(g, p)
    OBVIOUS
  <2>3. r \in Sound /\ OnlyAt(t, r, p) /\ Shown(K, r, p) = "none" /\ Right(st, r)
    BY <1>0, <1>4, <2>1, <2>2, ReplacedGone
  <2>4. PICK A, B, after : B = {s, t} /\ A = {s, t, r} /\ after = <<r>>
    OBVIOUS
  <2>5. Through(op, args, b, after)
    BY <1>1, <1>3, <1>7, <1>9, <2>2, <2>4 DEF hide_node, Gone
  <2>6. b \in Seq(B)
    BY <1>3, <2>4
  <2>7. after \in Seq(A) /\ Len(after) > 0 /\ Last(after) = r
    <3>1. r \in A
      BY <2>4
    <3>. QED
      BY <2>4, <3>1, OneState
  <2>8. OnlyAt(n, r, p)
    BY <1>6, <2>3, OnlyAtTwice
  <2>9. \A y \in A : OnlyAt(Now, y, p) /\ Shown(K, y, p) \in {Shown(K, Now, p), x}
    BY <1>1, <1>5, <1>6, <2>3, <2>4, <2>8
  <2>10. \A y \in B : Right(st, y) /\ Shown(K, y, p) = Shown(K, Now, p)
    BY <1>1, <1>4, <1>5, <1>6, <2>4
  <2>11. \A y \in A : FlatDisk(st, y)
    BY <1>4, <2>3, <2>4, RightDisk
  <2>12. B \in SUBSET Sound /\ A \in SUBSET Sound /\ B \subseteq A
    BY <1>4, <2>3, <2>4
  <2>13. Right(st, r) /\ Shown(K, r, p) = x /\ p \in Path
    BY <1>1, <1>2, <2>3
  <2>14. setup' = setup /\ Right(st, Now') /\ Did(op, args, K, p, x)
    BY <1>0, <2>5, <2>6, <2>7, <2>9, <2>10, <2>11, <2>12, <2>13, ThroughRight
  <2>. QED
    BY <1>1, <2>14
<1>10. CASE CanMknod /\ ~setup.rename_whiteout
  <2>1. Answer(op, args, "EEXIST", {}) /\ Become(t)
    BY <1>1, <1>3, <1>7, <1>10 DEF hide_node, Fail
  <2>2. Now' = t /\ setup' = setup
    BY <1>4, <2>1, SoundParts, NowIs
  <2>3. Shows(K, t) = Shows(K, n)
    BY <1>6, ShowsKept
  <2>. QED
    BY <1>0, <1>1, <1>4, <1>10, <2>1, <2>2, <2>3 DEF Told, CanMknod
<1>. QED
  BY <1>8, <1>9, <1>10

\* unlink hides a file that is shown; there is no directory for rmdir.
LEMMA FlatRm ==
    ASSUME NEW st, FlatNow(st), NEW L, L = st.lower, NEW p \in Path,
           NEW op, NEW isdir \in BOOLEAN, do_rm(op, p, isdir)
    PROVE  /\ setup' = setup /\ Right(st, Now') /\ Parent(p) = Base /\ p # Base
           /\ \/ ~Seen(L, Now, p) /\ Told(op, <<p>>, L, "ENOENT", {})
              \/ /\ Seen(L, Now, p) /\ ~isdir
                 /\ \/ Did(op, <<p>>, L, p, "none")
                    \/ st.can_mknod /\ ~st.rename_whiteout /\ Told(op, <<p>>, L, "EEXIST", {})
<1>0. st = setup /\ setup \in Setups /\ Flat(st) /\ Named(op, p)
  BY DEF FlatNow, do_rm
<1>1. PICK s : s = do_lookup_file(Now, p)
  OBVIOUS
<1>2. /\ s \in Sound /\ Right(st, s) /\ OnlyAt(Now, s, p) /\ s.u = Now.u /\ s.w = Now.w
      /\ p \in Path \ {Base} /\ Parent(p) = Base
      /\ p \in DOMAIN s.m <=> Seen(L, Now, p)
  BY <1>0, <1>1, FoundName
<1>3. CASE p \notin DOMAIN s.m
  <2>1. PICK args, e, v : args = <<p>> /\ e = "ENOENT" /\ v = {}
    OBVIOUS
  <2>2. Answer(op, args, e, v) /\ Become(s)
    BY <1>1, <1>3, <2>1 DEF do_rm, Fail
  <2>3. setup' = setup /\ Right(st, Now') /\ Told(op, args, L, e, v)
    BY <1>2, <2>2, StopsRight
  <2>. QED
    BY <1>2, <1>3, <2>1, <2>3
<1>4. CASE p \in DOMAIN s.m
  <2>1. ~s.m[p].dir
    BY <1>2, <1>4, FlatShape
  <2>2. s.m[p].dir = isdir
    BY <1>1, <1>4 DEF do_rm
  <2>3. isdir = FALSE
    BY <2>1, <2>2
  <2>4. PICK b : b = Upping(s, p)
    OBVIOUS
  <2>5. hide_node(op, p, b)
    BY <1>1, <1>4, <2>3, <2>4 DEF do_rm
  <2>6. p \in DOMAIN s.m \ {Base}
    BY <1>2, <1>4
  <2>7. /\ setup' = setup /\ Right(st, Now')
        /\ \/ Did(op, <<p>>, L, p, "none")
           \/ st.can_mknod /\ ~st.rename_whiteout /\ Told(op, <<p>>, L, "EEXIST", {})
    BY <1>2, <2>4, <2>5, <2>6, HideRight
  <2>. QED
    BY <1>2, <1>4, <2>3, <2>7
<1>. QED
  BY <1>3, <1>4

\* A name is seen if something is shown at it.
LEMMA SeenShown ==
    ASSUME NEW L, NEW s, NEW p \in Path \ {Base}, Parent(p) = Base
    PROVE  Seen(L, s, p) <=> Shown(L, s, p) # "none"
<1>1. ASSUME Seen(L, s, p) PROVE Shown(L, s, p) # "none"
  <2>1. PICK f : f = First(L, s, p)
    OBVIOUS
  <2>2. AtIn(L, s, f, p) # "none"
    BY <1>1, <2>1, SeenEntry
  <2>. QED
    BY <1>1, <2>1, <2>2 DEF Shown
<1>2. ASSUME ~Seen(L, s, p) PROVE Shown(L, s, p) = "none"
  BY <1>2 DEF Shown
<1>. QED
  BY <1>1, <1>2

\* How link ends: with x at the new name, or, after a crash, with no other name
\* changed.
Linked(args, L, q, x) ==
    \/ Answer("link", args, "ok", {}) /\ Shows(L, Now') = [Shows(L, Now) EXCEPT ![q] = x]
    \/ /\ "crash" \in setup.calls /\ Answer("link", args, "crash", {})
       /\ \A r \in Path \ {q} : Shown(L, Now', r) = Shown(L, Now, r)

\* A link whose states leave the other names alone ends so.
LEMMA LinkEnds ==
    ASSUME NEW L, NEW n, n = Now, NEW A, NEW B, NEW z, NEW q \in Path, NEW x, NEW args,
           Ended("link", args, B, A, z), "fail" \notin setup.calls,
           \A y \in A : \A r \in Path \ {q} : Shown(L, y, r) = Shown(L, n, r),
           z \in A, Shown(L, z, q) = x
    PROVE  Linked(args, L, q, x)
<1>1. CASE Answer("link", args, "ok", {}) /\ Now' = z
  <2>1. Shows(L, z) = [Shows(L, n) EXCEPT ![q] = x]
    BY DEF Shows
  <2>. QED
    BY <1>1, <2>1 DEF Linked
<1>2. CASE /\ "crash" \in setup.calls /\ Answer("link", args, "crash", {})
           /\ \E s \in A : Now'.u = s.u /\ Now'.w = s.w /\ Now'.m = Fresh
  <2>0. PICK t : t = Now'
    OBVIOUS
  <2>1. PICK s \in A : t.u = s.u /\ t.w = s.w
    BY <1>2, <2>0
  <2>2. \A r \in Path \ {q} : Shown(L, t, r) = Shown(L, s, r)
    BY <2>1, SameCell
  <2>3. \A r \in Path \ {q} : Shown(L, t, r) = Shown(L, n, r)
    BY <2>1, <2>2
  <2>. QED
    BY <1>2, <2>0, <2>3 DEF Linked
<1>. QED
  BY <1>1, <1>2 DEF Ended

\* link shows the file at the new name too.
LEMMA FlatLink ==
    ASSUME NEW st, FlatNow(st), NEW L, L = st.lower, NEW p \in Path, NEW q \in Path, Link(p, q)
    PROVE  /\ setup' = setup /\ Right(st, Now')
           /\ Parent(p) = Base /\ p # Base /\ Parent(q) = Base /\ q # Base
           /\ Shown(L, Now, p) # "none"
           /\ \/ Shown(L, Now, q) # "none" /\ Told("link", <<p, q>>, L, "EEXIST", {})
              \/ Shown(L, Now, q) = "none" /\ Linked(<<p, q>>, L, q, Shown(L, Now, p))
<1>0. st = setup /\ setup \in Setups /\ Flat(st) /\ "link" \in st.calls /\ Named("link", q)
  BY DEF FlatNow, Link, Held, Called
<1>1. PICK n, s0, s1, K, args : /\ n = Now /\ s0 = get_node_up(n, p) /\ s1 = do_lookup_file(s0, q)
                                /\ K = L /\ args = <<p, q>>
  OBVIOUS
<1>2. n \in Sound /\ Right(st, n) /\ p \in DOMAIN n.m /\ ~n.m[p].dir
  BY <1>1, NowParts DEF FlatNow, Link, Held
<1>3. p \in DOMAIN n.m \ {Base} /\ p \in Path \ {Base} /\ Parent(p) = Base
  BY <1>2, FlatShape
<1>4. Nameable(n, q) /\ q \in Path \ {Base} /\ Parent(q) = Base
  <2>1. Nameable(n, q)
    BY <1>0, <1>1, NamedNow
  <2>. QED
    BY <1>2, <2>1, FlatShape
<1>5. st.last > 0 /\ st.last # 0 /\ "fail" \notin st.calls
  BY <1>0, SetupAssumption DEF Flat
<1>6. /\ s0 \in Sound /\ Right(st, s0) /\ OnlyAt(n, s0, p) /\ SameNodes(n, s0) /\ p \in DOMAIN s0.m
      /\ s0.u[p] = Shown(K, n, p) /\ Shown(K, s0, p) = Shown(K, n, p)
      /\ s0.u[p] \notin {"none", "wh"} /\ p \notin s0.w
  BY <1>0, <1>1, <1>2, <1>3, UpRight
<1>7. Nameable(s0, q)
  BY <1>2, <1>4, <1>6, StillNameable
<1>8. /\ s1 \in Sound /\ Right(st, s1) /\ Nameable(s1, q) /\ s1.u = s0.u /\ s1.w = s0.w
      /\ OnlyAt(s0, s1, q) /\ (q \in DOMAIN s1.m <=> Seen(K, s0, q))
  BY <1>0, <1>1, <1>6, <1>7, LookupRight
<1>9. Shows(K, s0) = Shows(K, n) /\ Shows(K, s1) = Shows(K, n)
  <2>1. Shows(K, s0) = Shows(K, n)
    BY <1>6, ShowsKept
  <2>2. Shows(K, s1) = Shows(K, s0)
    BY <1>8, SameShows
  <2>. QED
    BY <2>1, <2>2
<1>10. \A r \in Path : Shown(K, s0, r) = Shown(K, n, r) /\ Shown(K, s1, r) = Shown(K, n, r)
  BY <1>9 DEF Shows
<1>11. q \in DOMAIN s1.m <=> Shown(K, n, q) # "none"
  BY <1>4, <1>8, <1>10, SeenShown
<1>12. Shown(K, n, p) # "none"
  BY <1>6
<1>13. PICK b, c, ups : b = Upping(n, p) /\ c = Upping(s1, Base) /\ ups = b \o c
  OBVIOUS
<1>14. PICK B, A0 : A0 = {n, s0, s1} /\ B = A0
  OBVIOUS
<1>15. ups \in Seq(A0) /\ Last(ups) = s1
  <2>1. b \in Seq({n, s0})
    BY <1>0, <1>1, <1>2, <1>3, <1>13, UppingIn
  <2>2. c \in Seq({s1}) /\ Len(c) > 0 /\ Last(c) = s1
    BY <1>0, <1>8, <1>13, UppingBase
  <2>3. b \in Seq(A0) /\ c \in Seq(A0)
    BY <1>14, <2>1, <2>2
  <2>4. ups = b \o c /\ Len(c) > 0
    BY <1>13, <2>2
  <2>5. ups \in Seq(A0) /\ Last(ups) = Last(c)
    BY <2>3, <2>4, JoinStates
  <2>. QED
    BY <2>2, <2>5
<1>16. PICK free : free = delete_whiteout(s1, q)
  OBVIOUS
<1>17. /\ free \in Sound /\ OnlyEnt(s1, free, q) /\ free.w = s1.w \ {q}
       /\ free.u[q] = IF s1.u[q] = "wh" THEN "none" ELSE s1.u[q]
  BY <1>4, <1>8, <1>16, DeleteWhiteout
<1>18. CASE q \in DOMAIN s1.m
  <2>1. PICK e, v : e = "EEXIST" /\ v = {}
    OBVIOUS
  <2>2. Answer("link", args, e, v) /\ Become(s1)
    BY <1>1, <1>18, <2>1 DEF Link, Fail
  <2>3. Now' = s1 /\ setup' = setup
    BY <1>8, <2>2, SoundParts, NowIs
  <2>4. Told("link", args, K, e, v)
    BY <1>1, <1>9, <2>2, <2>3 DEF Told
  <2>. QED
    BY <1>1, <1>3, <1>4, <1>8, <1>11, <1>12, <1>18, <2>1, <2>3, <2>4
<1>19. CASE q \notin DOMAIN s1.m
  <2>1. ~Seen(K, s1, q) /\ DiskAt(st, s1, q)
    <3>1. Shown(K, s1, q) = "none"
      BY <1>4, <1>10, <1>11, <1>19
    <3>. QED
      BY <1>4, <1>8, <3>1, SeenShown DEF Right, RightAt
  <2>2. free.u[q] = "none"
    <3>1. s1.u[q] \in {"none", "wh"}
      BY <1>0, <2>1, UpperDecides DEF DiskAt
    <3>. QED
      BY <1>17, <3>1
  <2>3. p # q /\ p \in DOMAIN s1.m
    <3>1. p # q
      BY <1>11, <1>12, <1>19
    <3>. QED
      BY <1>3, <1>6, <1>8, <3>1 DEF OnlyAt, Like
  <2>4. PICK x, made : x = free.u[p] /\ made = PutEnt(free, q, x)
    OBVIOUS
  <2>5. x = Shown(K, n, p) /\ x = s1.u[p]
    BY <1>3, <1>6, <1>8, <1>17, <2>3, <2>4 DEF OnlyEnt
  <2>6. x \in UpperEnt /\ x \notin {"none", "wh"} /\ x \notin DirEnt
    <3>1. s1.u[p] \notin DirEnt
      BY <1>3, <1>8 DEF Right, RightAt, DiskAt
    <3>. QED
      BY <1>3, <1>6, <1>8, <2>5, <3>1, SoundParts
  <2>7. OnlyAt(s1, free, q)
    <3>1. \A r \in Path \ {q} : r \in free.w <=> r \in s1.w
      BY <1>17
    <3>. QED
      BY <1>4, <1>17, <3>1, EntOnly
  <2>8. made \in Sound /\ OnlyEnt(free, made, q) /\ made.w = free.w /\ made.u[q] = x
    <3>1. q \notin DOMAIN free.m /\ Nameable(free, q)
      BY <1>8, <1>17, <1>19 DEF OnlyEnt, Nameable
    <3>2. free.u[Parent(q)] \in DirEnt
      BY <1>4, <1>8, <2>7 DEF OnlyAt, Right, DirEnt
    <3>3. \A k \in Kids(q) : free.u[k] = "none" /\ k \notin free.w
      <4>1. free.u[q] \notin DirEnt
        BY <2>2 DEF DirEnt
      <4>. QED
        BY <1>4, <1>17, <4>1, SoundParts, NothingIn DEF Fits
    <3>. QED
      BY <1>4, <1>17, <2>4, <2>6, <3>1, <3>2, <3>3, EntryPut
  <2>9. OnlyAt(s1, made, q)
    <3>1. OnlyAt(free, made, q)
      BY <1>4, <2>8, EntOnly
    <3>. QED
      BY <2>7, <3>1, OnlyAtTwice
  <2>10. DiskAt(st, made, q) /\ q \notin made.w /\ Nameable(made, q) /\ q \notin DOMAIN made.m
    <3>1. q \notin made.w
      BY <1>17, <2>8
    <3>2. Nameable(made, q) /\ q \notin DOMAIN made.m
      BY <1>8, <1>17, <1>19, <2>8 DEF OnlyEnt, Nameable
    <3>. QED
      BY <1>5, <2>6, <2>8, <3>1, <3>2 DEF DiskAt
  <2>11. PICK no \in BOOLEAN : no = FALSE
    OBVIOUS
  <2>12. PICK t : t = Added(made, q, no)
    OBVIOUS
  <2>13. t \in Sound /\ Right(st, t) /\ OnlyAt(s1, t, q) /\ t.u = made.u /\ t.w = made.w
    <3>1. made.u[q] \notin {"none", "wh"} /\ ~no
      BY <2>6, <2>8, <2>11
    <3>. QED
      BY <1>0, <1>4, <1>5, <1>8, <2>8, <2>9, <2>10, <2>12, <3>1, AddedRight
  <2>14. PICK A, C, before, after : /\ C = {n, s0, s1, free} /\ A = {n, s0, s1, free, made, t}
                                    /\ before = Append(ups, free) /\ after = <<made, t>>
    OBVIOUS
  <2>15. before \in Seq(C)
    <3>1. ups \in Seq(C) /\ free \in C
      BY <1>14, <1>15, <2>14
    <3>. QED
      BY <2>14, <3>1, AppendState
  <2>16. after \in Seq(A) /\ Len(after) > 0 /\ Last(after) = t
    <3>1. made \in A /\ t \in A /\ after = <<made, t>>
      BY <2>14
    <3>. QED
      BY <3>1, TwoStates
  <2>17. C \in SUBSET Sound /\ A \in SUBSET Sound /\ C \subseteq A /\ t \in A
    BY <1>2, <1>6, <1>8, <1>17, <2>8, <2>13, <2>14
  <2>18. Through("link", args, before, after)
    <3>1. made = [free EXCEPT !.u[q] = free.u[p]]
      BY <2>4 DEF PutEnt
    <3>2. free = delete_whiteout(Last(ups), q) /\ ups = Upping(Now, p) \o Upping(s1, Parent(q))
      BY <1>1, <1>4, <1>13, <1>15, <1>16
    <3>3. Through("link", <<p, q>>, Append(ups, free), <<made, Added(made, q, FALSE)>>)
      BY <1>1, <1>19, <2>2, <3>1, <3>2 DEF Link
    <3>. QED
      BY <1>1, <2>11, <2>12, <2>14, <3>3
  <2>19. Ended("link", args, C, A, t) /\ setup' = setup
    BY <2>15, <2>16, <2>17, <2>18, ThroughEnds
  <2>20. FlatDisk(st, free) /\ FlatDisk(st, made)
    <3>1. DiskAt(st, free, q)
      BY <1>17, <2>2 DEF DiskAt, DirEnt
    <3>. QED
      BY <1>8, <2>7, <2>9, <2>10, <3>1, DiskKept
  <2>21. \A y \in A : FlatDisk(st, y)
    BY <1>2, <1>6, <1>8, <2>13, <2>14, <2>20, RightDisk
  <2>22. Right(st, Now')
    <3>1. "fail" \in st.calls => \A s \in C : Right(st, s)
      BY <1>5
    <3>. QED
      BY <1>0, <2>13, <2>19, <2>21, <3>1, EndsRight
  <2>23. \A y \in A : \A r \in Path \ {q} : Shown(K, y, r) = Shown(K, n, r)
    <3>1. \A r \in Path \ {q} : /\ Shown(K, free, r) = Shown(K, s1, r)
                                /\ Shown(K, made, r) = Shown(K, s1, r)
                                /\ Shown(K, t, r) = Shown(K, s1, r)
      BY <2>7, <2>9, <2>13, ShownKept
    <3>. QED
      BY <1>10, <2>14, <3>1
  <2>24. Shown(K, t, q) = x
    <3>1. t.u[q] \notin {"none", "wh"} /\ q \notin t.w /\ t.u[q] = x
      BY <2>6, <2>8, <2>10, <2>13
    <3>. QED
      BY <1>4, <3>1, CellShows
  <2>25. Linked(args, K, q, x)
    <3>1. "fail" \notin setup.calls
      BY <1>0, <1>5
    <3>. QED
      BY <1>1, <2>17, <2>19, <2>23, <2>24, <3>1, LinkEnds
  <2>. QED
    BY <1>1, <1>3, <1>4, <1>11, <1>12, <1>19, <2>5, <2>19, <2>22, <2>25
<1>. QED
  BY <1>18, <1>19

-----------------------------------------------------------------------------
(* All handlers. *)

\* What is shown in the directory is a file or nothing.
LEMMA ShownFile ==
    ASSUME NEW st \in Setups, Flat(st), NEW L, L = st.lower, NEW s \in Sound, Right(st, s),
           NEW p \in Path \ {Base}
    PROVE  Shown(L, s, p) \in Content \cup {"none"} /\ Shown(L, s, p) \notin DirEnt
<1>1. CASE ~(Parent(p) = Base /\ Seen(L, s, p))
  BY <1>1 DEF Shown, DirEnt
<1>2. CASE Parent(p) = Base /\ Seen(L, s, p)
  <2>1. PICK f, x : f = First(L, s, p) /\ x = AtIn(L, s, f, p)
    OBVIOUS
  <2>2. f \in Layer /\ x \notin {"none", "wh"}
    BY <1>2, <2>1, SeenEntry
  <2>3. CASE f = 0
    <3>1. x \in UpperEnt /\ x \notin DirEnt
      BY <2>1, <2>3, SoundParts DEF AtIn, Right, RightAt, DiskAt
    <3>. QED
      BY <1>2, <2>1, <2>2, <3>1 DEF Shown, UpperEnt
  <2>4. CASE f # 0
    <3>1. f \in 1 .. NL
      BY <2>2, <2>4, SetupAssumption DEF Layer
    <3>2. x = L[f][p] /\ x # "dotwh"
      BY <2>1, <2>2, <2>4 DEF AtIn
    <3>3. x \in Ent /\ x \notin DirEnt
      <4>1. st.lower \in [1 .. NL -> [Path -> Ent]]
        BY SetupAssumption
      <4>. QED
        BY <3>1, <3>2, <4>1 DEF Flat
    <3>. QED
      BY <1>2, <2>1, <2>2, <3>2, <3>3 DEF Shown, Ent, UpperEnt
  <2>. QED
    BY <2>3, <2>4
<1>. QED
  BY <1>1, <1>2

\* What a step of a flat mount does to what is shown, and how it is answered.
Makes(L, p) ==
    \E op \in {"create", "mknod", "symlink"} :
        \/ Seen(L, Now, p) /\ Told(op, <<p>>, L, "EEXIST", {})
        \/ ~Seen(L, Now, p) /\ Did(op, <<p>>, L, p, "new")

\* do_rm: ENOENT, gone, or EEXIST where a char device whiteout needs a free name.
Removes(st, L, p) ==
    \/ ~Seen(L, Now, p) /\ \E op \in {"unlink", "rmdir"} : Told(op, <<p>>, L, "ENOENT", {})
    \/ Seen(L, Now, p) /\ Did("unlink", <<p>>, L, p, "none")
    \/ st.can_mknod /\ ~st.rename_whiteout /\ Told("unlink", <<p>>, L, "EEXIST", {})

\* lookup, from the cache or from the layers.
Finds(L, p) ==
    \/ Seen(L, Now, p) /\ Told("lookup", <<p>>, L, "ok", {Shown(L, Now, p)})
    \/ ~Seen(L, Now, p) /\ Told("lookup", <<p>>, L, "ENOENT", {})

\* link of a file that is shown.
Links(L, p, q) ==
    /\ Shown(L, Now, p) # "none"
    /\ \/ Shown(L, Now, q) # "none" /\ Told("link", <<p, q>>, L, "EEXIST", {})
       \/ Shown(L, Now, q) = "none" /\ Linked(<<p, q>>, L, q, Shown(L, Now, p))

\* The calls that change nothing and cannot fail.
Reads(L) ==
    \/ Told("mount", << >>, L, "ok", {})
    \/ Told("readdir", <<Base>>, L, "ok", {c \in Kids(Base) : Seen(L, Now, c)})
    \/ Told("refresh", <<Base>>, L, "ok", {})

\* Every step of a flat mount is one of these.
Effect(st, L) ==
    \/ Reads(L)
    \/ \E p \in Path : Shown(L, Now, p) # "none" /\ Did("setattr", <<p>>, L, p, Shown(L, Now, p))
    \/ \E p \in Kids(Base) :
          \/ Finds(L, p) \/ Makes(L, p) \/ Removes(st, L, p)
          \/ Seen(L, Now, p) /\ Did("write", <<p>>, L, p, "new")
          \/ \E q \in Kids(Base) : Links(L, p, q)

\* The handlers one by one: each keeps the cache and the disk right and has one of
\* the effects above.
LEMMA FlatEffect ==
    ASSUME NEW st, FlatNow(st), NEW L, L = st.lower, Next
    PROVE  setup' = setup /\ Right(st, Now') /\ Effect(st, L)
<1>. DEFINE Fine == setup' = setup /\ Right(st, Now') /\ Effect(st, L)
<1>0. st = setup /\ setup \in Setups /\ Flat(st)
  BY DEF FlatNow
<1>1. \A p \in Path : p # Base /\ Parent(p) = Base => p \in Kids(Base)
  BY DEF Kids
<1>2. ASSUME NEW p \in Path, LookupFast(p) \/ LookupSlow(p) PROVE Fine
  BY <1>1, <1>2, FlatLookup DEF Effect, Finds
<1>3. ASSUME NEW p \in Path, Opendir(p) PROVE Fine
  BY <1>3, FlatOpendir DEF Effect, Reads
<1>4. ASSUME NEW p \in Path, Create(p) PROVE Fine
  BY <1>1, <1>4, FlatCreate DEF Effect, Makes
<1>5. ASSUME NEW p \in Path, Mknod(p) \/ Symlink(p) PROVE Fine
  <2>1. PICK op \in {"mknod", "symlink"} : MakeAside(op, p)
    BY <1>5 DEF Mknod, Symlink
  <2>2. op \in {"create", "mknod", "symlink"}
    OBVIOUS
  <2>. QED
    BY <1>1, <2>1, <2>2, FlatMakeAside DEF Effect, Makes
<1>6. ASSUME NEW p \in Path, Unlink(p) \/ Rmdir(p) PROVE Fine
  <2>1. CASE Unlink(p)
    <3>1. PICK no \in BOOLEAN : no = FALSE
      OBVIOUS
    <3>2. do_rm("unlink", p, no)
      BY <2>1, <3>1 DEF Unlink
    <3>. QED
      BY <1>1, <3>1, <3>2, FlatRm DEF Effect, Removes
  <2>2. CASE Rmdir(p)
    <3>1. PICK yes \in BOOLEAN : yes = TRUE
      OBVIOUS
    <3>2. do_rm("rmdir", p, yes)
      BY <2>2, <3>1 DEF Rmdir
    <3>. QED
      BY <1>1, <3>1, <3>2, FlatRm DEF Effect, Removes
  <2>. QED
    BY <1>6, <2>1, <2>2
<1>7. ASSUME NEW p \in Path, Write(p) PROVE Fine
  BY <1>1, <1>7, FlatWrite DEF Effect
<1>8. ASSUME NEW p \in Path, Setattr(p) PROVE Fine
  BY <1>8, FlatSetattr DEF Effect
<1>9. ASSUME NEW p \in Path, Refresh(p) PROVE Fine
  BY <1>9, FlatRefresh DEF Effect, Reads
<1>10. ASSUME NEW p \in Path, NEW q \in Path, Link(p, q) PROVE Fine
  <2>1. /\ setup' = setup /\ Right(st, Now')
        /\ p \in Kids(Base) /\ q \in Kids(Base) /\ Links(L, p, q)
    BY <1>1, <1>10, FlatLink DEF Links
  <2>. QED
    BY <2>1 DEF Effect
<1>11. CASE Remount
  BY <1>11, FlatRemount DEF Effect, Reads
<1>12. ASSUME NEW p \in Path PROVE ~Mkdir(p)
  BY <1>0 DEF Flat, Mkdir, Named, Called
<1>13. ASSUME NEW p \in Path, NEW q \in Path
       PROVE  ~Rename(p, q) /\ ~RenameNoreplace(p, q) /\ ~RenameExchange(p, q)
  BY <1>0 DEF Flat, Rename, RenameNoreplace, RenameExchange, Renames, Named, Called
<1>14. \/ \E p \in Path :
             \/ LookupFast(p) \/ LookupSlow(p) \/ Opendir(p) \/ Create(p) \/ Mknod(p) \/ Symlink(p)
             \/ Unlink(p) \/ Rmdir(p) \/ Write(p) \/ Setattr(p) \/ Refresh(p)
       \/ \E p, q \in Path : Link(p, q)
       \/ Remount
  BY <1>12, <1>13 DEF Next
<1>. QED
  BY <1>2, <1>3, <1>4, <1>5, <1>6, <1>7, <1>8, <1>9, <1>10, <1>11, <1>14

-----------------------------------------------------------------------------
(* The cache is right. *)

\* The inductive invariant: the types, and the cache right about every name.
FlatInv == Inv /\ Flat(setup) /\ Right(setup, Now)

\* A new mount has an empty upper layer and an empty cache.
LEMMA FlatInit == Init /\ Flat(setup) => FlatInv
<1>1. SUFFICES ASSUME Init, Flat(setup) PROVE Right(setup, Now)
  BY InitSound DEF FlatInv
<1>2. PICK st, n : st = setup /\ n = Now
  OBVIOUS
<1>3. /\ n.u = [p \in Path |-> IF p = Base THEN "dir" ELSE "none"] /\ n.w = {} /\ n.m = Fresh
      /\ setup \in Setups
  BY <1>1, <1>2, NowParts DEF Init
<1>4. n.u[Base] = "dir" /\ \A p \in Path \ {Base} : n.u[p] = "none"
  BY <1>3 DEF Path
<1>5. FlatDisk(st, n)
  BY <1>3, <1>4 DEF FlatDisk, DiskAt, DirEnt
<1>6. Right(st, n)
  BY <1>2, <1>3, <1>5, FreshRight
<1>. QED
  BY <1>2, <1>6

\* Every handler keeps it.
LEMMA FlatNext == FlatInv /\ [Next]_vars => FlatInv'
<1>1. SUFFICES ASSUME FlatInv, [Next]_vars PROVE FlatInv'
  OBVIOUS
<1>2. Inv'
  BY <1>1, NextSound DEF FlatInv
<1>3. CASE UNCHANGED vars
  <2>1. setup' = setup /\ Now' = Now
    BY <1>3 DEF vars, Now
  <2>. QED
    BY <1>1, <1>2, <2>1 DEF FlatInv
<1>4. CASE Next
  <2>1. PICK st, L : st = setup /\ L = st.lower
    OBVIOUS
  <2>2. FlatNow(st)
    BY <1>1, <2>1 DEF FlatInv, FlatNow, Inv
  <2>3. setup' = setup /\ Right(st, Now')
    BY <1>4, <2>1, <2>2, FlatEffect
  <2>. QED
    BY <1>1, <1>2, <2>1, <2>3 DEF FlatInv
<1>. QED
  BY <1>1, <1>3, <1>4

\* What users see is what the first layer with an entry shows.
LEMMA FlatMerged ==
    FlatInv => \A p \in Path : Merged(p) = Shown(lower, Now, p)
BY MergedFlat, RightDisk DEF FlatInv, Inv

\* A right cache has CacheIsTrue and AbsenceIsTrue.
LEMMA FlatCache == FlatInv => CacheIsTrue /\ AbsenceIsTrue
<1>1. SUFFICES ASSUME FlatInv PROVE CacheIsTrue /\ AbsenceIsTrue
  OBVIOUS
<1>2. PICK st, L, n, M : st = setup /\ L = lower /\ n = Now /\ M = mem
  OBVIOUS
<1>3. /\ st \in Setups /\ L = st.lower /\ st = setup /\ Flat(st) /\ n \in Sound /\ Right(st, n)
      /\ n.m = M /\ \A p \in Path : Merged(p) = Shown(L, n, p)
  BY <1>1, <1>2, FlatMerged, NowParts DEF FlatInv, Inv, lower
<1>4. ASSUME NEW p \in DOMAIN M \ {Base}
      PROVE  /\ Merged(p) # "none"
             /\ M[p].dir = (Merged(p) = "dir")
             /\ M[p].layer = Min({i \in Layer : Present(n, i, p)})
  <2>1. p \in Path \ {Base} /\ Parent(p) = Base /\ ~M[p].dir
    BY <1>3, FlatShape
  <2>2. RightAt(st, n, p) /\ p \in DOMAIN n.m
    BY <1>3, <2>1 DEF Right
  <2>3. Seen(L, n, p) /\ M[p].layer = First(L, n, p) /\ DiskAt(st, n, p)
    BY <1>3, <2>2 DEF RightAt, NodeAt
  <2>4. Merged(p) # "none"
    BY <1>3, <2>1, <2>3, SeenShown
  <2>5. Merged(p) # "dir"
    BY <1>3, <2>1, ShownFile DEF DirEnt
  <2>6. M[p].dir \in BOOLEAN
    BY <1>3, <2>2, SoundNode, NodeFields
  <2>7. PICK D : D = {i \in Layer : AtIn(L, n, i, p) # "none"}
    OBVIOUS
  <2>8. {i \in Layer : Present(n, i, p)} = D
    BY <1>2, <2>7, InLayers
  <2>9. Min(D) = First(L, n, p)
    <3>1. D = {i \in Layer : AtIn(st.lower, n, i, p) # "none"} /\ Seen(st.lower, n, p)
      BY <1>3, <2>3, <2>7
    <3>2. Min(D) = First(st.lower, n, p)
      BY <1>3, <2>3, <3>1, DeepBelow
    <3>. QED
      BY <1>3, <3>2
  <2>. QED
    BY <2>1, <2>3, <2>4, <2>5, <2>6, <2>8, <2>9
<1>5. CacheIsTrue
  BY <1>2, <1>4 DEF CacheIsTrue
<1>6. ASSUME NEW p \in Path \ {Base}, Merged(p) # "none", p \notin DOMAIN M
      PROVE  Parent(p) = Base /\ ~M[Base].loaded /\ p \notin M[Base].wh
  <2>1. Shown(L, n, p) # "none"
    BY <1>3, <1>6
  <2>2. Parent(p) = Base /\ Seen(L, n, p)
    BY <2>1 DEF Shown
  <2>3. Hits(L, n, p) # {}
    BY <2>2 DEF Seen
  <2>4. RightAt(st, n, p)
    BY <1>3 DEF Right
  <2>. QED
    BY <1>3, <1>6, <2>2, <2>3, <2>4 DEF RightAt, WhAt, LoadedAt
<1>7. AbsenceIsTrue
  BY <1>2, <1>6 DEF AbsenceIsTrue
<1>. QED
  BY <1>5, <1>7

\* On a flat mount, for any names, layers and contents and through failures and
\* crashes, a cached node stands for a file that the layers show, at the layer that
\* shows it: get_node_up never copies over something on the upper layer.
THEOREM FlatCacheIsTrue == Spec /\ Flat(setup) => []CacheIsTrue
<1>. QED
  BY FlatInit, FlatNext, FlatCache, PTL DEF Spec

\* On a flat mount, a name that do_lookup_file takes to be absent, because the
\* directory is loaded or its whiteout is cached, is one that no layer shows.
THEOREM FlatAbsenceIsTrue == Spec /\ Flat(setup) => []AbsenceIsTrue
<1>. QED
  BY FlatInit, FlatNext, FlatCache, PTL DEF Spec

-----------------------------------------------------------------------------
(* What the steps do to the mount as users see it. *)

\* The view is what the state shows, before and after a step.
LEMMA FlatViews ==
    ASSUME NEW L, L = setup.lower, FlatInv, FlatInv', setup' = setup
    PROVE  /\ View = Shows(L, Now) /\ View' = Shows(L, Now')
           /\ \A p \in Path : Merged(p) = Shown(L, Now, p) /\ Merged(p)' = Shown(L, Now', p)
<1>1. \A p \in Path : Merged(p) = Shown(L, Now, p)
  BY FlatMerged DEF lower
<1>2. (\A p \in Path : Merged(p) = Shown(lower, Now, p))'
  <2>1. (setup \in Setups /\ Flat(setup) /\ Now \in Sound /\ FlatDisk(setup, Now))'
    <3>1. PICK st, t : st = setup' /\ t = Now'
      OBVIOUS
    <3>2. st \in Setups /\ Flat(st) /\ t \in Sound /\ Right(st, t)
      BY <3>1 DEF FlatInv, Inv
    <3>3. FlatDisk(st, t)
      BY <3>2, RightDisk
    <3>. QED
      BY <3>1, <3>2, <3>3
  <2>. QED
    BY <2>1, MergedFlatNext
<1>3. \A p \in Path : Merged(p)' = Shown(L, Now', p)
  <2>1. lower' = L
    BY DEF lower
  <2>. QED
    BY <1>2, <2>1
<1>4. View = Shows(L, Now)
  BY <1>1 DEF View, Shows
<1>5. View' = Shows(L, Now')
  BY <1>3 DEF View, Shows
<1>. QED
  BY <1>1, <1>3, <1>4, <1>5

\* The answers of a handler that changes a name.
LEMMA DidAnswers ==
    ASSUME NEW op, NEW args, NEW L, NEW p, NEW x, Did(op, args, L, p, x),
           NEW V, V = Shows(L, Now), NEW W, W = Shows(L, Now')
    PROVE  /\ reply'.op = op /\ reply'.args = args /\ reply'.val = {}
           /\ \/ reply'.err = "ok" /\ W = [V EXCEPT ![p] = x]
              \/ reply'.err = "EIO" /\ "fail" \in setup.calls /\ W = V
              \/ reply'.err = "crash" /\ "crash" \in setup.calls /\ (W = V \/ W = [V EXCEPT ![p] = x])
BY DEF Did, Answer

\* The answers of one that changes none.
LEMMA ToldAnswers ==
    ASSUME NEW op, NEW args, NEW L, NEW err, NEW val, Told(op, args, L, err, val),
           NEW V, V = Shows(L, Now), NEW W, W = Shows(L, Now')
    PROVE  /\ reply'.op = op /\ reply'.args = args /\ reply'.err = err /\ reply'.val = val
           /\ W = V
BY DEF Told, Answer

\* The answers of link.
LEMMA LinkedAnswers ==
    ASSUME NEW args, NEW L, NEW q, NEW x, Linked(args, L, q, x),
           NEW V, V = Shows(L, Now), NEW W, W = Shows(L, Now')
    PROVE  /\ reply'.op = "link" /\ reply'.args = args /\ reply'.val = {}
           /\ \/ reply'.err = "ok" /\ W = [V EXCEPT ![q] = x]
              \/ /\ reply'.err = "crash" /\ "crash" \in setup.calls
                 /\ \A r \in Path \ {q} : W[r] = V[r]
BY DEF Linked, Answer, Shows

\* What a handler that makes, writes or removes leaves at its name.
Leaves(op) == CASE op \in {"create", "mknod", "symlink", "write"} -> {"new"}
                [] op \in {"unlink", "rmdir"} -> {"none"}
                [] OTHER -> {}

\* A handler that does not succeed leaves the old view, or, after a crash, the
\* new one.
Whole(V, W) ==
    reply'.err # "ok" /\ reply'.op \notin {"mkdir", "link", "rename", "noreplace"} =>
        \/ W = V
        \/ reply'.err = "crash" /\ \E v \in Leaves(reply'.op) : W = [V EXCEPT ![reply'.args[1]] = v]

\* A handler that changes its one name to what it leaves there.
LEMMA DidWhole ==
    ASSUME NEW op, NEW args, NEW L, NEW p, args = <<p>>, NEW x \in Leaves(op), Did(op, args, L, p, x),
           NEW V, V = Shows(L, Now), NEW W, W = Shows(L, Now')
    PROVE  Whole(V, W)
<1>1. /\ reply'.op = op /\ reply'.args = args
      /\ \/ reply'.err = "ok" \/ W = V
         \/ reply'.err = "crash" /\ W = [V EXCEPT ![p] = x]
  BY DidAnswers
<1>2. reply'.args[1] = p
  BY <1>1
<1>. QED
  BY <1>1, <1>2 DEF Whole

\* One that changes nothing.
LEMMA ToldWhole ==
    ASSUME NEW op, NEW args, NEW L, NEW err, NEW val, Told(op, args, L, err, val),
           NEW V, V = Shows(L, Now), NEW W, W = Shows(L, Now')
    PROVE  Whole(V, W)
BY ToldAnswers DEF Whole

\* Every effect of a flat mount is whole.
LEMMA EffectWhole ==
    ASSUME NEW st, NEW L, Effect(st, L), NEW V, V = Shows(L, Now), NEW W, W = Shows(L, Now')
    PROVE  Whole(V, W)
<1>1. CASE Reads(L)
  BY <1>1, ToldWhole DEF Reads
<1>2. ASSUME NEW p \in Path, Did("setattr", <<p>>, L, p, Shown(L, Now, p)) PROVE Whole(V, W)
  <2>1. PICK n, x, args : n = Now /\ x = Shown(L, n, p) /\ args = <<p>>
    OBVIOUS
  <2>2. [V EXCEPT ![p] = x] = V
    BY <2>1 DEF Shows
  <2>3. Did("setattr", args, L, p, x)
    BY <1>2, <2>1
  <2>4. reply'.err = "ok" \/ W = V
    BY <2>2, <2>3, DidAnswers
  <2>. QED
    BY <2>4 DEF Whole
<1>3. ASSUME NEW p \in Kids(Base), Finds(L, p) PROVE Whole(V, W)
  BY <1>3, ToldWhole DEF Finds
<1>4. ASSUME NEW p \in Kids(Base), Makes(L, p) PROVE Whole(V, W)
  <2>1. PICK op \in {"create", "mknod", "symlink"} :
          Told(op, <<p>>, L, "EEXIST", {}) \/ Did(op, <<p>>, L, p, "new")
    BY <1>4 DEF Makes
  <2>2. PICK x, args : x = "new" /\ args = <<p>>
    OBVIOUS
  <2>3. x \in Leaves(op)
    BY <2>2 DEF Leaves
  <2>4. CASE Told(op, <<p>>, L, "EEXIST", {})
    BY <2>4, ToldWhole
  <2>5. CASE Did(op, <<p>>, L, p, "new")
    <3>1. Did(op, args, L, p, x)
      BY <2>2, <2>5
    <3>. QED
      BY <2>2, <2>3, <3>1, DidWhole
  <2>. QED
    BY <2>1, <2>4, <2>5
<1>5. ASSUME NEW p \in Kids(Base), Removes(st, L, p) PROVE Whole(V, W)
  <2>1. PICK op, x, args : op = "unlink" /\ x = "none" /\ args = <<p>>
    OBVIOUS
  <2>2. x \in Leaves(op)
    BY <2>1 DEF Leaves
  <2>3. CASE \E o, err : Told(o, <<p>>, L, err, {})
    BY <2>3, ToldWhole
  <2>4. CASE Did("unlink", <<p>>, L, p, "none")
    <3>1. Did(op, args, L, p, x)
      BY <2>1, <2>4
    <3>. QED
      BY <2>1, <2>2, <3>1, DidWhole
  <2>. QED
    BY <1>5, <2>3, <2>4 DEF Removes
<1>6. ASSUME NEW p \in Kids(Base), Did("write", <<p>>, L, p, "new") PROVE Whole(V, W)
  <2>1. PICK op, x, args : op = "write" /\ x = "new" /\ args = <<p>>
    OBVIOUS
  <2>2. x \in Leaves(op)
    BY <2>1 DEF Leaves
  <2>3. Did(op, args, L, p, x)
    BY <1>6, <2>1
  <2>. QED
    BY <2>1, <2>2, <2>3, DidWhole
<1>7. ASSUME NEW p \in Kids(Base), NEW q \in Kids(Base), Links(L, p, q) PROVE Whole(V, W)
  <2>1. CASE Told("link", <<p, q>>, L, "EEXIST", {})
    BY <2>1, ToldWhole
  <2>2. CASE Linked(<<p, q>>, L, q, Shown(L, Now, p))
    <3>1. reply'.op = "link"
      BY <2>2, LinkedAnswers
    <3>. QED
      BY <3>1 DEF Whole
  <2>. QED
    BY <1>7, <2>1, <2>2 DEF Links
<1>. QED
  BY <1>1, <1>2, <1>3, <1>4, <1>5, <1>6, <1>7 DEF Effect

\* What FlatEffect and FlatViews say of a step.
LEMMA FlatStep ==
    ASSUME FlatInv, Next, NEW st, st = setup, NEW L, L = st.lower, NEW V, V = Shows(L, Now),
           NEW W, W = Shows(L, Now')
    PROVE  /\ setup' = setup /\ FlatInv' /\ Effect(st, L) /\ FlatNow(st)
           /\ View = V /\ View' = W
           /\ \A p \in Path : Merged(p) = V[p] /\ Merged(p)' = W[p]
<1>1. FlatInv'
  BY FlatNext
<1>2. FlatNow(st)
  BY DEF FlatInv, FlatNow, Inv
<1>3. setup' = setup /\ Effect(st, L)
  BY <1>2, FlatEffect
<1>4. /\ View = Shows(L, Now) /\ View' = Shows(L, Now')
      /\ \A p \in Path : Merged(p) = Shown(L, Now, p) /\ Merged(p)' = Shown(L, Now', p)
  BY <1>1, <1>3, FlatViews
<1>5. \A p \in Path : V[p] = Shown(L, Now, p) /\ W[p] = Shown(L, Now', p)
  BY DEF Shows
<1>. QED
  BY <1>1, <1>2, <1>3, <1>4, <1>5

\* Every step of a flat mount is all or nothing.
LEMMA FlatWhole ==
    FlatInv /\ Next =>
        LET p == reply'.args[1]
            what == CASE reply'.op \in {"create", "mknod", "symlink", "write"} -> {"new"}
                      [] reply'.op \in {"unlink", "rmdir"} -> {"none"}
                      [] OTHER -> {}
        IN  reply'.err # "ok" /\ reply'.op \notin {"mkdir", "link", "rename", "noreplace"} =>
               \/ View' = View
               \/ reply'.err = "crash" /\ \E v \in what : View' = [View EXCEPT ![p] = v]
<1>1. SUFFICES ASSUME FlatInv, Next PROVE Whole(View, View')
  BY DEF Whole, Leaves
<1>2. PICK st, L, V, W : st = setup /\ L = st.lower /\ V = Shows(L, Now) /\ W = Shows(L, Now')
  OBVIOUS
<1>3. Effect(st, L) /\ View = V /\ View' = W
  BY <1>1, <1>2, FlatStep
<1>4. Whole(V, W)
  BY <1>2, <1>3, EffectWhole
<1>. QED
  BY <1>3, <1>4

\* On a flat mount, a crash between any two system calls of create, mknod,
\* symlink, unlink, a write or setattr leaves the files as they were or as the
\* handler would have left them, and a failed system call leaves them as they were.
THEOREM FlatAllOrNothing == Spec /\ Flat(setup) => AllOrNothing
<1>1. FlatInv /\ [Next]_vars =>
        [LET p == reply'.args[1]
             what == CASE reply'.op \in {"create", "mknod", "symlink", "write"} -> {"new"}
                       [] reply'.op \in {"unlink", "rmdir"} -> {"none"}
                       [] OTHER -> {}
         IN  reply'.err # "ok" /\ reply'.op \notin {"mkdir", "link", "rename", "noreplace"} =>
               \/ View' = View
               \/ reply'.err = "crash" /\ \E v \in what : View' = [View EXCEPT ![p] = v]]_vars
  BY FlatWhole
<1>. QED
  BY <1>1, FlatInit, FlatNext, PTL DEF Spec, AllOrNothing

\* link, the one of these calls on a flat mount, changes only its new name.
LEMMA FlatNamed ==
    FlatInv /\ Next =>
        (reply'.op \in {"mkdir", "link", "rename", "noreplace"} =>
            LeavesAlone(UNION {Tree(p) : p \in ToSet(reply'.args)}))
<1>1. SUFFICES ASSUME FlatInv, Next, reply'.op \in {"mkdir", "link", "rename", "noreplace"}
               PROVE  LeavesAlone(UNION {Tree(p) : p \in ToSet(reply'.args)})
  OBVIOUS
<1>2. PICK st, L, V, W, n : st = setup /\ L = st.lower /\ V = Shows(L, Now) /\ W = Shows(L, Now') /\ n = Now
  OBVIOUS
<1>3. Effect(st, L) /\ \A p \in Path : Merged(p) = V[p] /\ Merged(p)' = W[p]
  BY <1>1, <1>2, FlatStep
<1>4. PICK p \in Kids(Base), q \in Kids(Base) : Links(L, p, q)
  <2>1. \A op, args, err, val : Told(op, args, L, err, val) => reply'.op = op
    BY <1>2, ToldAnswers
  <2>2. \A op, args, r, x : Did(op, args, L, r, x) => reply'.op = op
    BY <1>2, DidAnswers
  <2>3. ~Reads(L)
    BY <1>1, <2>1 DEF Reads
  <2>4. \A r : ~Did("setattr", <<r>>, L, r, Shown(L, Now, r)) /\ ~Did("write", <<r>>, L, r, "new")
    BY <1>1, <2>2
  <2>5. \A r : ~Finds(L, r) /\ ~Makes(L, r) /\ ~Removes(st, L, r)
    <3>1. \A r : ~Finds(L, r)
      BY <1>1, <2>1 DEF Finds
    <3>2. \A r : ~Makes(L, r)
      BY <1>1, <2>1, <2>2 DEF Makes
    <3>3. \A r : ~Removes(st, L, r)
      BY <1>1, <2>1, <2>2 DEF Removes
    <3>. QED
      BY <3>1, <3>2, <3>3
  <2>. QED
    BY <1>3, <2>3, <2>4, <2>5 DEF Effect
<1>5. PICK args, x : args = <<p, q>> /\ x = Shown(L, n, p)
  OBVIOUS
<1>6. reply'.args = args /\ \A r \in Path \ {q} : W[r] = V[r]
  <2>1. CASE Told("link", args, L, "EEXIST", {})
    BY <1>2, <2>1, ToldAnswers
  <2>2. CASE Linked(args, L, q, x)
    <3>1. \A r \in Path \ {q} : [V EXCEPT ![q] = x][r] = V[r]
      BY <1>2 DEF Shows
    <3>2. reply'.args = args /\ (W = [V EXCEPT ![q] = x] \/ \A r \in Path \ {q} : W[r] = V[r])
      BY <1>2, <2>2, LinkedAnswers
    <3>. QED
      BY <3>1, <3>2
  <2>. QED
    BY <1>2, <1>4, <1>5, <2>1, <2>2 DEF Links
<1>7. q \in Tree(q) /\ q \in ToSet(args)
  <2>1. q \in Path \ {Base}
    BY DEF Kids
  <2>2. args \in Seq({p, q}) /\ Len(args) = 2 /\ args[2] = q
    BY <1>5
  <2>. QED
    BY <2>1, <2>2, TreePath DEF ToSet
<1>. QED
  BY <1>3, <1>6, <1>7 DEF LeavesAlone

\* On a flat mount link changes nothing but the names it was given, wherever it is
\* cut off.
THEOREM FlatOnlyNamedChange == Spec /\ Flat(setup) => OnlyNamedChange
<1>1. FlatInv /\ [Next]_vars =>
        [reply'.op \in {"mkdir", "link", "rename", "noreplace"} =>
            LeavesAlone(UNION {Tree(p) : p \in ToSet(reply'.args)})]_vars
  BY FlatNamed
<1>. QED
  BY <1>1, FlatInit, FlatNext, PTL DEF Spec, OnlyNamedChange

-----------------------------------------------------------------------------
(* The handlers implement AbstractFS. *)

\* A flat mount without faults, on which hide_node can make its whiteouts.
Quiet(st) ==
    /\ Flat(st)
    /\ st.calls \cap {"crash", "fail"} = {}
    /\ st.can_mknod => st.rename_whiteout

\* The operators of AbstractFS, over the view.
LEMMA AsTree ==
    ASSUME NEW V, V = View, NEW p \in Path
    PROVE  /\ FS!IsDir(p) <=> V[p] = "dir"
           /\ FS!IsFile(p) <=> V[p] \in Content
           /\ FS!Exists(p) <=> V[p] = "dir" \/ V[p] \in Content
           /\ FS!Kids(p) = Kids(p)
           /\ FS!Entries(p) = {q \in Kids(p) : V[q] = "dir" \/ V[q] \in Content}
           /\ p # Base => (FS!Named(p) <=> V[Parent(p)] = "dir")
<1>1. \A q : (FS!IsDir(q) <=> V[q] = "dir") /\ (FS!IsFile(q) <=> V[q] \in Content)
  BY DEF FS!IsDir, FS!IsFile, View
<1>2. \A q : FS!Exists(q) <=> V[q] = "dir" \/ V[q] \in Content
  BY <1>1 DEF FS!Exists
<1>3. \A q : FS!Parent(q) = Parent(q)
  BY DEF FS!Parent, Parent
<1>4. FS!Kids(p) = Kids(p)
  BY <1>3 DEF FS!Kids, Kids, FS!Base, Base
<1>5. FS!Entries(p) = {q \in Kids(p) : V[q] = "dir" \/ V[q] \in Content}
  BY <1>2, <1>4 DEF FS!Entries
<1>6. p # Base => (FS!Named(p) <=> V[Parent(p)] = "dir")
  BY <1>1, <1>3 DEF FS!Named, FS!Base, Base
<1>. QED
  BY <1>1, <1>2, <1>4, <1>5, <1>6

\* lookup answers with what the view holds.
LEMMA AsLookup ==
    ASSUME NEW V, V = View, NEW W, W = View', NEW p \in Path \ {Base}, V[Parent(p)] = "dir",
           reply'.op = "lookup", reply'.args = <<p>>, W = V,
           \/ V[p] \in Content /\ reply'.err = "ok" /\ reply'.val = {V[p]}
           \/ V[p] = "none" /\ reply'.err = "ENOENT" /\ reply'.val = {}
    PROVE  FS!Next
<1>1. FS!Named(p) /\ (FS!Exists(p) <=> V[p] = "dir" \/ V[p] \in Content)
  BY AsTree
<1>2. V[p] = "none" => ~FS!Exists(p)
  BY <1>1, SetupAssumption
<1>3. FS!Asked("lookup", <<p>>)
  BY DEF FS!Asked
<1>4. FS!Lookup(p)
  BY <1>1, <1>2, <1>3 DEF FS!Lookup, FS!Answer, FS!Refuse, View
<1>. QED
  BY <1>4 DEF FS!Next

\* create, mknod and symlink make a file where there is none.
LEMMA AsMake ==
    ASSUME NEW V, V = View, NEW W, W = View', NEW p \in Path \ {Base}, V[Parent(p)] = "dir",
           NEW op \in {"create", "mknod", "symlink"},
           reply'.op = op, reply'.args = <<p>>, reply'.val = {},
           \/ V[p] \in Content /\ reply'.err = "EEXIST" /\ W = V
           \/ V[p] = "none" /\ reply'.err = "ok" /\ W = [V EXCEPT ![p] = "new"]
    PROVE  FS!Next
<1>1. FS!Named(p) /\ (FS!Exists(p) <=> V[p] = "dir" \/ V[p] \in Content)
  BY AsTree
<1>2. V[p] = "none" => ~FS!Exists(p)
  BY <1>1, SetupAssumption
<1>3. FS!Asked(op, <<p>>)
  BY DEF FS!Asked
<1>4. FS!Make(op, p, "new")
  <2>1. PICK x : x = "new"
    OBVIOUS
  <2>2. FS!Make(op, p, x)
    BY <1>1, <1>2, <1>3, <2>1 DEF FS!Make, FS!Answer, FS!Refuse, FS!Accept, View
  <2>. QED
    BY <2>1, <2>2
<1>5. FS!Create(p) \/ FS!Mknod(p) \/ FS!Symlink(p)
  BY <1>4 DEF FS!Create, FS!Mknod, FS!Symlink
<1>. QED
  BY <1>5 DEF FS!Next

\* unlink removes a file; unlink and rmdir find none.
LEMMA AsRemove ==
    ASSUME NEW V, V = View, NEW W, W = View', NEW p \in Path \ {Base}, V[Parent(p)] = "dir",
           NEW op \in {"unlink", "rmdir"},
           reply'.op = op, reply'.args = <<p>>, reply'.val = {},
           \/ V[p] = "none" /\ reply'.err = "ENOENT" /\ W = V
           \/ op = "unlink" /\ V[p] \in Content /\ reply'.err = "ok" /\ W = [V EXCEPT ![p] = "none"]
    PROVE  FS!Next
<1>1. FS!Named(p) /\ (FS!Exists(p) <=> V[p] = "dir" \/ V[p] \in Content) /\ (FS!IsFile(p) <=> V[p] \in Content)
  BY AsTree
<1>2. V[p] = "none" => ~FS!Exists(p)
  BY <1>1, SetupAssumption
<1>3. FS!Asked(op, <<p>>)
  BY DEF FS!Asked
<1>4. FS!Unlink(p) \/ FS!Rmdir(p)
  BY <1>1, <1>2, <1>3 DEF FS!Unlink, FS!Rmdir, FS!Answer, FS!Refuse, FS!Accept, View
<1>. QED
  BY <1>4 DEF FS!Next

\* An open for writing and the write change the file's content only.
LEMMA AsWrite ==
    ASSUME NEW V, V = View, NEW W, W = View', NEW p \in Path, V[p] \in Content,
           reply'.op = "write", reply'.args = <<p>>, reply'.err = "ok", reply'.val = {},
           W = [V EXCEPT ![p] = "new"]
    PROVE  FS!Next
<1>1. FS!IsFile(p)
  BY AsTree
<1>2. FS!Write(p)
  BY <1>1 DEF FS!Write, FS!Asked, FS!Answer, FS!Accept, View
<1>. QED
  BY <1>2 DEF FS!Next

\* link gives a file another name.
LEMMA AsLink ==
    ASSUME NEW V, V = View, NEW W, W = View', NEW p \in Path, V[p] \in Content,
           NEW q \in Path \ {Base}, V[Parent(q)] = "dir",
           reply'.op = "link", reply'.args = <<p, q>>, reply'.val = {},
           \/ V[q] \in Content /\ reply'.err = "EEXIST" /\ W = V
           \/ V[q] = "none" /\ reply'.err = "ok" /\ W = [V EXCEPT ![q] = V[p]]
    PROVE  FS!Next
<1>1. FS!Named(q) /\ (FS!Exists(q) <=> V[q] = "dir" \/ V[q] \in Content) /\ FS!IsFile(p)
  BY AsTree
<1>2. V[q] = "none" => ~FS!Exists(q)
  BY <1>1, SetupAssumption
<1>3. FS!Asked("link", <<p, q>>)
  BY DEF FS!Asked
<1>4. FS!Link(p, q)
  BY <1>1, <1>2, <1>3 DEF FS!Link, FS!Answer, FS!Refuse, FS!Accept, View
<1>. QED
  BY <1>4 DEF FS!Next

\* opendir lists the view's names; setattr, a refresh and a remount leave it.
LEMMA AsRead ==
    ASSUME NEW V, V = View, NEW W, W = View', W = V, reply'.err = "ok", V[Base] = "dir",
           \/ reply'.op = "mount" /\ reply'.args = << >> /\ reply'.val = {}
           \/ reply'.op = "refresh" /\ reply'.args = <<Base>> /\ reply'.val = {}
           \/ reply'.op = "readdir" /\ reply'.args = <<Base>>
              /\ reply'.val = {c \in Kids(Base) : V[c] = "dir" \/ V[c] \in Content}
           \/ \E p \in Path : /\ reply'.op = "setattr" /\ reply'.args = <<p>> /\ reply'.val = {}
                              /\ V[p] = "dir" \/ V[p] \in Content
    PROVE  FS!Next
<1>0. Base \in Path
  BY DEF Path
<1>1. FS!IsDir(Base) /\ FS!Entries(Base) = {c \in Kids(Base) : V[c] = "dir" \/ V[c] \in Content}
  BY <1>0, AsTree
<1>2. CASE reply'.op = "mount" /\ reply'.args = << >> /\ reply'.val = {}
  <2>1. FS!Remount
    BY <1>2 DEF FS!Remount, FS!Asked, FS!Answer, FS!Accept, View
  <2>. QED
    BY <2>1 DEF FS!Next
<1>3. CASE reply'.op = "refresh" /\ reply'.args = <<Base>> /\ reply'.val = {}
  <2>1. FS!Refresh(Base)
    BY <1>1, <1>3 DEF FS!Refresh, FS!Asked, FS!Answer, FS!Accept, View
  <2>. QED
    BY <1>0, <2>1 DEF FS!Next
<1>4. CASE reply'.op = "readdir" /\ reply'.args = <<Base>>
           /\ reply'.val = {c \in Kids(Base) : V[c] = "dir" \/ V[c] \in Content}
  <2>1. FS!Readdir(Base)
    BY <1>1, <1>4 DEF FS!Readdir, FS!Asked, FS!Answer, View
  <2>. QED
    BY <1>0, <2>1 DEF FS!Next
<1>5. ASSUME NEW p \in Path, reply'.op = "setattr", reply'.args = <<p>>, reply'.val = {},
             V[p] = "dir" \/ V[p] \in Content
      PROVE  FS!Next
  <2>1. FS!Exists(p)
    BY <1>5, AsTree
  <2>2. FS!Setattr(p)
    BY <1>5, <2>1 DEF FS!Setattr, FS!Asked, FS!Answer, FS!Accept, View
  <2>. QED
    BY <2>2 DEF FS!Next
<1>. QED
  BY <1>2, <1>3, <1>4, <1>5

\* What the view of a flat mount holds: a directory that holds files only.
LEMMA ViewFlat ==
    ASSUME NEW st, FlatNow(st), NEW L, L = st.lower, NEW n, n = Now,
           NEW V, V = Shows(L, n)
    PROVE  /\ V[Base] = "dir" /\ V \in [Path -> Content \cup {"none", "dir"}]
           /\ \A p \in Path \ {Base} : /\ V[p] \in Content \cup {"none"}
                                       /\ V[p] # "none" => Parent(p) = Base
           /\ \A p \in Kids(Base) : /\ Seen(L, n, p) => V[p] \in Content
                                    /\ ~Seen(L, n, p) => V[p] = "none"
           /\ \A p \in Path : V[p] = Shown(L, n, p)
<1>1. st \in Setups /\ Flat(st) /\ n \in Sound /\ Right(st, n) /\ V = Shows(L, n)
  BY DEF FlatNow
<1>2. Base \in Path /\ \A p \in Path : V[p] = Shown(L, n, p)
  BY <1>1 DEF Shows, Path
<1>3. V[Base] = "dir"
  BY <1>2 DEF Shown
<1>4. \A p \in Path \ {Base} : V[p] \in Content \cup {"none"}
  BY <1>1, <1>2, ShownFile
<1>5. \A p \in Path \ {Base} : V[p] # "none" => Parent(p) = Base
  BY <1>2 DEF Shown
<1>6. V \in [Path -> Content \cup {"none", "dir"}]
  BY <1>1, <1>2, <1>3, <1>4 DEF Shows
<1>7. ASSUME NEW p \in Kids(Base)
      PROVE  (Seen(L, n, p) => V[p] \in Content) /\ (~Seen(L, n, p) => V[p] = "none")
  <2>1. p \in Path \ {Base} /\ Parent(p) = Base
    BY DEF Kids
  <2>. QED
    BY <1>2, <1>4, <2>1, SeenShown
<1>. QED
  BY <1>2, <1>3, <1>4, <1>5, <1>6, <1>7

\* A step of a flat mount without faults is a step of one directory tree.
LEMMA QuietStep ==
    ASSUME FlatInv, Quiet(setup), Next
    PROVE  FS!Next
<1>1. PICK st, L, V, W, n : st = setup /\ L = st.lower /\ n = Now /\ V = Shows(L, n) /\ W = Shows(L, Now')
  OBVIOUS
<1>2. Effect(st, L) /\ FlatNow(st) /\ V = View /\ W = View'
  BY <1>1, FlatStep
<1>3. /\ V[Base] = "dir"
      /\ \A p \in Kids(Base) : /\ Seen(L, n, p) => V[p] \in Content
                               /\ ~Seen(L, n, p) => V[p] = "none"
      /\ \A p \in Path : V[p] = Shown(L, n, p)
      /\ V \in [Path -> Content \cup {"none", "dir"}]
  <2>1. FlatNow(st) /\ L = st.lower /\ n = Now /\ V = Shows(L, n)
    BY <1>1, <1>2
  <2>2. /\ V[Base] = "dir" /\ V \in [Path -> Content \cup {"none", "dir"}]
        /\ \A p \in Path : V[p] = Shown(L, n, p)
    BY <2>1, ViewFlat
  <2>3. \A p \in Kids(Base) : Seen(L, n, p) => V[p] \in Content
    BY <2>1, ViewFlat
  <2>4. \A p \in Kids(Base) : ~Seen(L, n, p) => V[p] = "none"
    BY <2>1, ViewFlat
  <2>. QED
    BY <2>2, <2>3, <2>4
<1>4. \A p \in Kids(Base) : p \in Path \ {Base} /\ p \in Path /\ V[Parent(p)] = "dir"
  BY <1>3 DEF Kids
<1>5. /\ "fail" \notin setup.calls /\ "crash" \notin setup.calls
      /\ ~(st.can_mknod /\ ~st.rename_whiteout)
  BY <1>1 DEF Quiet
<1>6. \A op, args, p, x : Did(op, args, L, p, x) =>
        /\ reply'.op = op /\ reply'.args = args /\ reply'.val = {} /\ reply'.err = "ok"
        /\ W = [V EXCEPT ![p] = x]
  BY <1>1, <1>5, DidAnswers
<1>7. \A op, args, err, val : Told(op, args, L, err, val) =>
        /\ reply'.op = op /\ reply'.args = args /\ reply'.err = err /\ reply'.val = val
        /\ W = V
  BY <1>1, ToldAnswers
<1>8. \A args, q, x : Linked(args, L, q, x) =>
        /\ reply'.op = "link" /\ reply'.args = args /\ reply'.val = {} /\ reply'.err = "ok"
        /\ W = [V EXCEPT ![q] = x]
  BY <1>1, <1>5, LinkedAnswers
<1>9. CASE Reads(L)
  <2>1. {c \in Kids(Base) : Seen(L, n, c)} = {c \in Kids(Base) : V[c] = "dir" \/ V[c] \in Content}
    BY <1>3, SetupAssumption
  <2>2. /\ reply'.err = "ok" /\ W = V
        /\ \/ reply'.op = "mount" /\ reply'.args = << >> /\ reply'.val = {}
           \/ reply'.op = "refresh" /\ reply'.args = <<Base>> /\ reply'.val = {}
           \/ reply'.op = "readdir" /\ reply'.args = <<Base>>
              /\ reply'.val = {c \in Kids(Base) : Seen(L, n, c)}
    BY <1>1, <1>7, <1>9 DEF Reads
  <2>. QED
    BY <1>2, <1>3, <2>1, <2>2, AsRead
<1>10. ASSUME NEW p \in Path, Shown(L, Now, p) # "none", Did("setattr", <<p>>, L, p, Shown(L, Now, p))
       PROVE  FS!Next
  <2>1. PICK args, x : args = <<p>> /\ x = V[p]
    OBVIOUS
  <2>2. x # "none" /\ Did("setattr", args, L, p, x)
    BY <1>1, <1>3, <1>10, <2>1
  <2>3. [V EXCEPT ![p] = x] = V
    BY <1>3, <2>1
  <2>4. reply'.err = "ok" /\ W = V /\ reply'.op = "setattr" /\ reply'.args = args /\ reply'.val = {}
    BY <1>6, <2>2, <2>3
  <2>5. V[p] = "dir" \/ V[p] \in Content
    BY <1>3, <2>1, <2>2
  <2>. QED
    BY <1>2, <1>3, <2>1, <2>4, <2>5, AsRead
<1>11. ASSUME NEW p \in Kids(Base), Finds(L, p) PROVE FS!Next
  <2>1. PICK args, x, y : args = <<p>> /\ x = V[p] /\ y = {x}
    OBVIOUS
  <2>2. \/ Seen(L, n, p) /\ Told("lookup", args, L, "ok", y)
        \/ ~Seen(L, n, p) /\ Told("lookup", args, L, "ENOENT", {})
    BY <1>1, <1>3, <1>4, <1>11, <2>1 DEF Finds
  <2>3. /\ reply'.op = "lookup" /\ reply'.args = args /\ W = V
        /\ \/ V[p] \in Content /\ reply'.err = "ok" /\ reply'.val = y
           \/ V[p] = "none" /\ reply'.err = "ENOENT" /\ reply'.val = {}
    BY <1>3, <1>7, <2>2
  <2>. QED
    BY <1>2, <1>4, <2>1, <2>3, AsLookup
<1>12. ASSUME NEW p \in Kids(Base), Makes(L, p) PROVE FS!Next
  <2>1. PICK args, x : args = <<p>> /\ x = "new"
    OBVIOUS
  <2>2. PICK op \in {"create", "mknod", "symlink"} :
          \/ Seen(L, n, p) /\ Told(op, args, L, "EEXIST", {})
          \/ ~Seen(L, n, p) /\ Did(op, args, L, p, x)
    BY <1>1, <1>12, <2>1 DEF Makes
  <2>3. /\ reply'.op = op /\ reply'.args = args /\ reply'.val = {}
        /\ \/ V[p] \in Content /\ reply'.err = "EEXIST" /\ W = V
           \/ V[p] = "none" /\ reply'.err = "ok" /\ W = [V EXCEPT ![p] = x]
    BY <1>3, <1>6, <1>7, <2>2
  <2>4. /\ reply'.op = op /\ reply'.args = <<p>> /\ reply'.val = {}
        /\ \/ V[p] \in Content /\ reply'.err = "EEXIST" /\ W = V
           \/ V[p] = "none" /\ reply'.err = "ok" /\ W = [V EXCEPT ![p] = "new"]
    BY <2>1, <2>3
  <2>. QED
    BY <1>2, <1>4, <2>4, AsMake
<1>13. ASSUME NEW p \in Kids(Base), Removes(st, L, p) PROVE FS!Next
  <2>1. PICK args, x : args = <<p>> /\ x = "none"
    OBVIOUS
  <2>2. PICK op \in {"unlink", "rmdir"} :
          \/ ~Seen(L, n, p) /\ Told(op, args, L, "ENOENT", {})
          \/ op = "unlink" /\ Seen(L, n, p) /\ Did(op, args, L, p, x)
    BY <1>1, <1>5, <1>13, <2>1 DEF Removes
  <2>3. /\ reply'.op = op /\ reply'.args = args /\ reply'.val = {}
        /\ \/ V[p] = "none" /\ reply'.err = "ENOENT" /\ W = V
           \/ op = "unlink" /\ V[p] \in Content /\ reply'.err = "ok" /\ W = [V EXCEPT ![p] = x]
    BY <1>3, <1>6, <1>7, <2>2
  <2>4. /\ reply'.op = op /\ reply'.args = <<p>> /\ reply'.val = {}
        /\ \/ V[p] = "none" /\ reply'.err = "ENOENT" /\ W = V
           \/ op = "unlink" /\ V[p] \in Content /\ reply'.err = "ok" /\ W = [V EXCEPT ![p] = "none"]
    BY <2>1, <2>3
  <2>. QED
    BY <1>2, <1>4, <2>4, AsRemove
<1>14. ASSUME NEW p \in Kids(Base), Seen(L, Now, p), Did("write", <<p>>, L, p, "new") PROVE FS!Next
  <2>1. PICK args, x : args = <<p>> /\ x = "new"
    OBVIOUS
  <2>2. Seen(L, n, p) /\ Did("write", args, L, p, x)
    BY <1>1, <1>14, <2>1
  <2>3. /\ reply'.op = "write" /\ reply'.args = args /\ reply'.val = {} /\ reply'.err = "ok"
        /\ V[p] \in Content /\ W = [V EXCEPT ![p] = x]
    BY <1>3, <1>6, <2>2
  <2>4. reply'.args = <<p>> /\ W = [V EXCEPT ![p] = "new"]
    BY <2>1, <2>3
  <2>. QED
    BY <1>2, <1>4, <2>3, <2>4, AsWrite
<1>15. ASSUME NEW p \in Kids(Base), NEW q \in Kids(Base), Links(L, p, q) PROVE FS!Next
  <2>1. PICK args, x : args = <<p, q>> /\ x = V[p]
    OBVIOUS
  <2>2. /\ x # "none"
        /\ \/ V[q] # "none" /\ Told("link", args, L, "EEXIST", {})
           \/ V[q] = "none" /\ Linked(args, L, q, x)
    BY <1>1, <1>3, <1>4, <1>15, <2>1 DEF Links
  <2>3. V[p] \in Content /\ (V[q] # "none" => V[q] \in Content)
    BY <1>3, <2>1, <2>2
  <2>4. /\ reply'.op = "link" /\ reply'.args = args /\ reply'.val = {}
        /\ \/ V[q] \in Content /\ reply'.err = "EEXIST" /\ W = V
           \/ V[q] = "none" /\ reply'.err = "ok" /\ W = [V EXCEPT ![q] = x]
    BY <1>7, <1>8, <2>2, <2>3
  <2>5. /\ reply'.args = <<p, q>>
        /\ \/ V[q] \in Content /\ reply'.err = "EEXIST" /\ W = V
           \/ V[q] = "none" /\ reply'.err = "ok" /\ W = [V EXCEPT ![q] = V[p]]
    BY <2>1, <2>4
  <2>. QED
    BY <1>2, <1>4, <2>3, <2>4, <2>5, AsLink
<1>. QED
  BY <1>2, <1>9, <1>10, <1>11, <1>12, <1>13, <1>14, <1>15 DEF Effect

\* A new mount starts as one directory tree.
LEMMA QuietInit == Init /\ Flat(setup) => FS!Init
<1>1. SUFFICES ASSUME Init, Flat(setup) PROVE FS!Init
  OBVIOUS
<1>2. FlatInv
  BY <1>1, FlatInit
<1>3. PICK st, L, n, V : st = setup /\ L = st.lower /\ n = Now /\ V = Shows(L, n)
  OBVIOUS
<1>4. FlatNow(st)
  BY <1>2, <1>3 DEF FlatInv, FlatNow, Inv
<1>5. V = View
  BY <1>2, <1>3, FlatMerged DEF View, Shows, lower
<1>6. /\ V[Base] = "dir" /\ V \in [Path -> Content \cup {"none", "dir"}]
      /\ \A p \in Path \ {Base} : V[p] # "none" => Parent(p) = Base
  BY <1>3, <1>4, ViewFlat
<1>7. Base \in Path
  BY DEF Path
<1>8. FS!IsDir(Base)
  BY <1>5, <1>6, <1>7, AsTree
<1>9. \A p \in Path \ {Base} : FS!Exists(p) => FS!IsDir(FS!Parent(p))
  <2>1. \A p \in Path \ {Base} : FS!Exists(p) => V[p] # "none"
    BY <1>5, AsTree, SetupAssumption
  <2>2. \A p : FS!Parent(p) = Parent(p)
    BY DEF FS!Parent, Parent
  <2>. QED
    BY <1>6, <1>8, <2>1, <2>2
<1>10. reply = [op |-> "mount", args |-> << >>, err |-> "ok", val |-> {}]
  BY <1>1 DEF Init
<1>. QED
  BY <1>5, <1>6, <1>8, <1>9, <1>10 DEF FS!Init, FS!Base, Base, View

\* On a flat mount without faults, every call of every handler does to the
\* merged tree what AbstractFS says it does, answers with what is in it, and
\* leaves everything else alone; a remount changes nothing.
THEOREM FlatActsAsOneTree == Spec /\ Quiet(setup) => ActsAsOneTree
<1>1. Init /\ Quiet(setup) => FS!Init /\ FlatInv
  BY QuietInit, FlatInit DEF Quiet
<1>2. FlatInv /\ Quiet(setup) /\ [Next]_vars => FlatInv' /\ Quiet(setup)' /\ [FS!Next]_(FS!vars)
  <2>1. SUFFICES ASSUME FlatInv, Quiet(setup), [Next]_vars
                 PROVE  FlatInv' /\ Quiet(setup)' /\ [FS!Next]_(FS!vars)
    OBVIOUS
  <2>2. FlatInv'
    BY <2>1, FlatNext
  <2>3. CASE UNCHANGED vars
    <3>1. setup' = setup /\ Now' = Now /\ reply' = reply
      BY <2>3 DEF vars, Now
    <3>2. PICK st, L : st = setup /\ L = st.lower
      OBVIOUS
    <3>3. View = Shows(L, Now) /\ View' = Shows(L, Now')
      BY <2>1, <2>2, <3>1, <3>2, FlatViews
    <3>4. View' = View
      BY <3>1, <3>3
    <3>5. FS!vars' = FS!vars
      BY <3>1, <3>4 DEF FS!vars, View
    <3>6. Quiet(setup)'
      BY <2>1, <3>1
    <3>. QED
      BY <2>2, <3>5, <3>6
  <2>4. CASE Next
    <3>1. FS!Next
      BY <2>1, <2>4, QuietStep
    <3>2. PICK st, L, V, W : st = setup /\ L = st.lower /\ V = Shows(L, Now) /\ W = Shows(L, Now')
      OBVIOUS
    <3>3. setup' = setup
      BY <2>1, <2>4, <3>2, FlatStep
    <3>4. Quiet(setup)'
      BY <2>1, <3>3
    <3>. QED
      BY <2>2, <3>1, <3>4
  <2>. QED
    BY <2>1, <2>3, <2>4
<1>. QED
  BY <1>1, <1>2, PTL DEF Spec, ActsAsOneTree, FS!Spec

-----------------------------------------------------------------------------
(* What the answers say of the mount. *)

\* What a step leaves at the name it answers for: lookup answered with it, and
\* do_rm took it away.
LEMMA EffectAnswers ==
    ASSUME NEW st, FlatNow(st), NEW L, L = st.lower, Effect(st, L),
           NEW V, V = Shows(L, Now), NEW W, W = Shows(L, Now')
    PROVE  /\ reply'.op = "lookup" /\ reply'.err = "ok" =>
                 reply'.args[1] \in Path /\ reply'.val = {W[reply'.args[1]]}
           /\ reply'.op \in {"unlink", "rmdir"} /\ reply'.err = "ok" =>
                 reply'.args[1] \in Path /\ W[reply'.args[1]] = "none"
<1>. DEFINE Mine == {"lookup", "unlink", "rmdir"}
<1>1. PICK n : n = Now
  OBVIOUS
<1>2. /\ \A p \in Path : V[p] = Shown(L, n, p)
      /\ V \in [Path -> Content \cup {"none", "dir"}]
  BY <1>1, ViewFlat
<1>3. \A op, args, p, x : Did(op, args, L, p, x) =>
        /\ reply'.op = op /\ reply'.args = args
        /\ reply'.err = "ok" => W = [V EXCEPT ![p] = x]
  BY DidAnswers
<1>4. \A op, args, err, val : Told(op, args, L, err, val) =>
        /\ reply'.op = op /\ reply'.args = args /\ reply'.err = err /\ reply'.val = val
        /\ W = V
  BY ToldAnswers
<1>5. \A p \in Kids(Base) : p \in Path
  BY DEF Kids
<1>6. CASE reply'.op \notin Mine
  BY <1>6
<1>7. CASE \E p \in Kids(Base) : Finds(L, p)
  <2>1. PICK p \in Kids(Base) : Finds(L, p)
    BY <1>7
  <2>2. PICK args, y : args = <<p>> /\ y = {V[p]}
    OBVIOUS
  <2>3. Told("lookup", args, L, "ok", y) \/ Told("lookup", args, L, "ENOENT", {})
    BY <1>1, <1>2, <1>5, <2>1, <2>2 DEF Finds
  <2>4. reply'.op = "lookup" /\ reply'.args = args /\ W = V /\ (reply'.err = "ok" => reply'.val = y)
    BY <1>4, <2>3
  <2>5. reply'.args[1] = p /\ p \in Path
    BY <1>5, <2>2, <2>4
  <2>. QED
    BY <2>2, <2>4, <2>5
<1>8. CASE \E p \in Kids(Base) : Removes(st, L, p)
  <2>1. PICK p \in Kids(Base) : Removes(st, L, p)
    BY <1>8
  <2>2. PICK args, x : args = <<p>> /\ x = "none"
    OBVIOUS
  <2>3. \/ \E op \in {"unlink", "rmdir"} : Told(op, args, L, "ENOENT", {})
        \/ Did("unlink", args, L, p, x)
        \/ Told("unlink", args, L, "EEXIST", {})
    BY <2>1, <2>2 DEF Removes
  <2>4. /\ reply'.op \in {"unlink", "rmdir"} /\ reply'.args = args
        /\ reply'.err = "ok" => W = [V EXCEPT ![p] = x]
    BY <1>3, <1>4, <2>3
  <2>5. reply'.args[1] = p /\ p \in Path
    BY <1>5, <2>2, <2>4
  <2>6. [V EXCEPT ![p] = x][p] = x
    BY <1>2, <2>5
  <2>. QED
    BY <2>2, <2>4, <2>5, <2>6
<1>9. CASE /\ ~\E p \in Kids(Base) : Finds(L, p) \/ Removes(st, L, p)
  <2>1. Reads(L) => reply'.op \notin Mine
    BY <1>4 DEF Reads
  <2>2. \A p, x : Did("setattr", <<p>>, L, p, x) \/ Did("write", <<p>>, L, p, x) =>
                  reply'.op \notin Mine
    <3>1. \A op, args, p, x : Did(op, args, L, p, x) => reply'.op = op
      BY <1>3
    <3>. QED
      BY <3>1
  <2>3. \A p : Makes(L, p) => reply'.op \notin Mine
    BY <1>3, <1>4 DEF Makes
  <2>4. \A p, q : Links(L, p, q) => reply'.op \notin Mine
    <3>1. \A args, q, x : Linked(args, L, q, x) => reply'.op = "link"
      BY LinkedAnswers
    <3>. QED
      BY <1>4, <3>1 DEF Links
  <2>. QED
    BY <1>6, <1>9, <2>1, <2>2, <2>3, <2>4 DEF Effect
<1>. QED
  BY <1>7, <1>8, <1>9

\* The last answer is about the view: what a lookup found is there, what do_rm
\* removed is not.
Replied ==
    /\ reply.op = "lookup" /\ reply.err = "ok" =>
          reply.args[1] \in Path /\ reply.val = {View[reply.args[1]]}
    /\ reply.op \in {"unlink", "rmdir"} /\ reply.err = "ok" =>
          reply.args[1] \in Path /\ View[reply.args[1]] = "none"

\* Every step of a flat mount answers so.
LEMMA FlatReplied == FlatInv /\ Replied /\ [Next]_vars => Replied'
<1>1. SUFFICES ASSUME FlatInv, Replied, [Next]_vars PROVE Replied'
  OBVIOUS
<1>2. CASE Next
  <2>1. PICK st, L, V, W : st = setup /\ L = st.lower /\ V = Shows(L, Now) /\ W = Shows(L, Now')
    OBVIOUS
  <2>2. Effect(st, L) /\ FlatNow(st) /\ View' = W
    BY <1>1, <1>2, <2>1, FlatStep
  <2>3. /\ reply'.op = "lookup" /\ reply'.err = "ok" =>
              reply'.args[1] \in Path /\ reply'.val = {W[reply'.args[1]]}
        /\ reply'.op \in {"unlink", "rmdir"} /\ reply'.err = "ok" =>
              reply'.args[1] \in Path /\ W[reply'.args[1]] = "none"
    BY <2>1, <2>2, EffectAnswers
  <2>. QED
    BY <2>2, <2>3 DEF Replied
<1>3. CASE UNCHANGED vars
  <2>1. FlatInv' /\ setup' = setup /\ Now' = Now /\ reply' = reply
    BY <1>1, <1>3, FlatNext DEF vars, Now
  <2>2. PICK st, L : st = setup /\ L = st.lower
    OBVIOUS
  <2>3. View = Shows(L, Now) /\ View' = Shows(L, Now')
    BY <1>1, <2>1, <2>2, FlatViews
  <2>. QED
    BY <1>1, <2>1, <2>3 DEF Replied
<1>. QED
  BY <1>1, <1>2, <1>3

\* What the answers say of the view is what the runs check of the merged tree.
LEMMA RepliedMerged == Replied => LookupShowsMerged /\ RemovedIsGone
BY DEF Replied, LookupShowsMerged, RemovedIsGone, View

\* The mount answers no lookup before the first one.
LEMMA InitReplied == Init => Replied
BY DEF Init, Replied

\* On a flat mount a name that lookup finds, in the cache or in the layers, is
\* one that the layers show: what opaque_lookup finds needs an opaque directory
\* below the root of the mount.
THEOREM FlatLookupShowsMerged == Spec /\ Flat(setup) => []LookupShowsMerged
<1>. QED
  BY InitReplied, FlatInit, FlatNext, FlatReplied, RepliedMerged, PTL DEF Spec

\* On a flat mount a name that do_rm removed is gone from the layers and so
\* after a remount too: what hide_node and its whiteouts leave of it is nothing.
THEOREM FlatRemovedIsGone == Spec /\ Flat(setup) => []RemovedIsGone
<1>. QED
  BY InitReplied, FlatInit, FlatNext, FlatReplied, RepliedMerged, PTL DEF Spec
=============================================================================
