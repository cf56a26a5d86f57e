---------------------------- MODULE MapTheorems ----------------------------
(* Facts about the finite maps of Maps, for the proofs about their users. *)
EXTENDS Maps, TLAPS

(* A map is a function on its domain.  Used wherever TypeOK is opened.     *)
LEMMA MapFacts ==
    ASSUME NEW f, NEW S, NEW T, IsMap(f, S, T)
    PROVE  /\ f \in [DOMAIN f -> T]
           /\ DOMAIN f \subseteq S
           /\ \A x \in DOMAIN f : f[x] \in T
BY DEF IsMap

(* HashMap::insert keeps a map a map, and changes it at one key only.      *)
LEMMA PutMap ==
    ASSUME NEW f, NEW S, NEW T, IsMap(f, S, T), NEW x \in S, NEW v \in T
    PROVE  /\ IsMap(Put(f, x, v), S, T)
           /\ DOMAIN Put(f, x, v) = DOMAIN f \cup {x}
           /\ Put(f, x, v)[x] = v
           /\ \A y \in DOMAIN f : y # x => Put(f, x, v)[y] = f[y]
<1>1. DOMAIN f \subseteq S /\ \A y \in DOMAIN f : f[y] \in T
  BY MapFacts
<1>2. Put(f, x, v) \in [DOMAIN f \cup {x} -> T]
  BY <1>1 DEF Put
<1>3. DOMAIN f \cup {x} \in SUBSET S
  BY <1>1
<1>. QED
  BY <1>2, <1>3 DEF IsMap, Put

(* HashMap::remove keeps a map a map.                                      *)
LEMMA DropMap ==
    ASSUME NEW f, NEW S, NEW T, IsMap(f, S, T), NEW x
    PROVE  /\ IsMap(Drop(f, x), S, T)
           /\ DOMAIN Drop(f, x) = DOMAIN f \ {x}
           /\ \A y \in DOMAIN f \ {x} : Drop(f, x)[y] = f[y]
<1>1. DOMAIN f \subseteq S /\ \A y \in DOMAIN f : f[y] \in T
  BY MapFacts
<1>2. Drop(f, x) \in [DOMAIN f \ {x} -> T]
  BY <1>1 DEF Drop
<1>. QED
  BY <1>1, <1>2 DEF IsMap, Drop

(* Assigning a new value to an existing key keeps a map a map.             *)
LEMMA UpdateMap ==
    ASSUME NEW f, NEW S, NEW T, IsMap(f, S, T), NEW x \in DOMAIN f, NEW v \in T
    PROVE  /\ IsMap([f EXCEPT ![x] = v], S, T)
           /\ DOMAIN [f EXCEPT ![x] = v] = DOMAIN f
           /\ [f EXCEPT ![x] = v][x] = v
           /\ \A y \in DOMAIN f : y # x => [f EXCEPT ![x] = v][y] = f[y]
<1>1. f \in [DOMAIN f -> T] /\ DOMAIN f \subseteq S
  BY MapFacts
<1>2. [f EXCEPT ![x] = v] \in [DOMAIN f -> T]
  BY <1>1
<1>. QED
  BY <1>1, <1>2 DEF IsMap
=============================================================================
