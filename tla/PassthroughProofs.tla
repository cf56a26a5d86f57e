------------------------- MODULE PassthroughProofs -------------------------
(***************************************************************************)
(* Proofs about Passthrough, for every finite set of threads, every set of *)
(* files and every bound on handles, with and without refused backings.    *)
(***************************************************************************)
EXTENDS Passthrough, MapTheorems, FiniteSetTheorems, TLAPS

\* Labels of an open; Early ones are before the first use of a number.
Early == {"slow", "maybe", "check", "backing", "plain"}
Opening == Early \cup {"recheck", "insert", "record"}

\* Where a thread is counted in an entry and its handle is not in fh_to_ino.
Between == {"insert", "record", "uncount"}

\* Threads that will still take a number from next_fh.
Needing == {t \in Threads : pc[t] \in Early \/ (pc[t] = "insert" /\ req[t].fh = 0)}

\* A number is taken once, and there is one for every open.
Numbering ==
    /\ \A t \in Threads : pc[t] \in Early => req[t].fh = 0
    /\ \A t \in Threads : pc[t] \in {"recheck", "record"} => req[t].fh # 0
    /\ next_fh + Cardinality(Needing) <= MaxFh + 1

\* The number an open has taken is nobody else's, and a handle under release
\* is not the kernel's any more.
FreshHandles ==
    /\ \A fh \in DOMAIN fh_to_ino \cup DOMAIN handles : fh < next_fh
    /\ \A t \in Threads : pc[t] \in {"recheck", "insert", "record", "release"} => req[t].fh < next_fh
    /\ \A t \in Threads : pc[t] \in {"recheck", "insert", "record"} =>
          req[t].fh \notin DOMAIN fh_to_ino \cup DOMAIN handles
    /\ \A t \in Threads : pc[t] = "release" => req[t].fh \notin DOMAIN handles
    /\ \A s, t \in Threads :
          /\ s # t
          /\ pc[t] \in {"recheck", "insert", "record"} /\ req[t].fh # 0
          /\ pc[s] \in {"recheck", "insert", "record", "release"}
          => req[s].fh # req[t].fh

\* Only files that exist are open.
OpenExist ==
    /\ \A t \in Threads : pc[t] \in Opening \cup Between => layer[req[t].ino] # "none"
    /\ \A fh \in DOMAIN fh_to_ino : layer[fh_to_ino[fh]] # "none"

\* A handle with a backing has the one of its inode's entry, and so has an
\* open that is about to be one.
BackedByEntry ==
    /\ \A t \in Threads : pc[t] \in {"insert", "record"} =>
          inode_backings[req[t].ino].id = req[t].id
    /\ \A h \in DOMAIN handles : handles[h].backing # 0 =>
          /\ h \in DOMAIN fh_to_ino
          /\ fh_to_ino[h] = handles[h].ino
          /\ inode_backings[handles[h].ino].id = handles[h].backing

Inv == TypeOK /\ CountsOpens /\ Numbering /\ FreshHandles /\ OpenExist /\ BackedByEntry

-----------------------------------------------------------------------------
(* What the proofs use of the types and of finite sets. *)

(* A thread goes on; the others stay where they are.                       *)
LEMMA GoFacts ==
    ASSUME TypeOK, NEW t \in Threads, NEW l \in Label, NEW r \in Request, Go(t, l, r)
    PROVE  /\ pc' \in [Threads -> Label] /\ req' \in [Threads -> Request]
           /\ pc'[t] = l /\ req'[t] = r
           /\ \A s \in Threads \ {t} : pc'[s] = pc[s] /\ req'[s] = req[s]
BY DEF TypeOK, Go

(* Sets of handles and threads can be counted.                             *)
LEMMA Finite ==
    ASSUME TypeOK
    PROVE  /\ \A i : IsFiniteSet(HandlesOf(i)) /\ IsFiniteSet(Counted(i))
           /\ IsFiniteSet(Needing) /\ Cardinality(Needing) \in Nat
           /\ Cardinality(Needing) <= Pending /\ Pending \in Nat
<1>1. IsFiniteSet(Fh)
  BY BoundAssumption, FS_Interval DEF Fh
<1>2. DOMAIN fh_to_ino \subseteq Fh
  BY MapFacts DEF TypeOK
<1>3. \A i : IsFiniteSet(HandlesOf(i))
  <2>1. \A i : HandlesOf(i) \in SUBSET Fh
    BY <1>2 DEF HandlesOf
  <2>. QED
    BY <1>1, <2>1, FS_Subset
<1>4. \A i : IsFiniteSet(Counted(i))
  <2>1. \A i : Counted(i) \in SUBSET Threads
    BY DEF Counted
  <2>. QED
    BY <2>1, ThreadsAssumption, FS_Subset
<1>. DEFINE P == {t \in Threads :
                  pc[t] \notin {"idle", "record", "release", "uncount", "close"}}
<1>5. IsFiniteSet(P) /\ Cardinality(P) \in Nat
  BY ThreadsAssumption, FS_Subset, FS_CardinalityType
<1>6. Needing \in SUBSET P
  BY DEF Needing, Early
<1>7. IsFiniteSet(Needing) /\ Cardinality(Needing) \in Nat /\ Cardinality(Needing) <= Cardinality(P)
  BY <1>5, <1>6, FS_Subset, FS_CardinalityType
<1>. QED
  BY <1>3, <1>4, <1>5, <1>7 DEF Pending

\* The users of an inode's entry, and the count that an entry or its absence
\* stands for.
Users(i) == Cardinality(HandlesOf(i)) + Cardinality(Counted(i))
CountOf(i) == IF i \in DOMAIN inode_backings THEN inode_backings[i].count ELSE 0

LEMMA UsersNat ==
    ASSUME TypeOK, NEW i
    PROVE  /\ Cardinality(HandlesOf(i)) \in Nat /\ Cardinality(Counted(i)) \in Nat
           /\ Users(i) \in Nat
BY Finite, FS_CardinalityType DEF Users

(* CountsOpens by inode, in terms of both.                                 *)
LEMMA CountsOpensMeans ==
    ASSUME TypeOK
    PROVE  CountsOpens <=>
             \A i \in Inos : CountOf(i) = Users(i) /\ (i \in DOMAIN inode_backings <=> Users(i) > 0)
<1>1. \A i \in Inos : Users(i) \in Nat
  BY UsersNat
<1>. QED
  BY <1>1 DEF CountsOpens, CountOf, Users

-----------------------------------------------------------------------------
(* How users and counts change. *)

(* The thread is between counting itself and its handle, or is not, as it  *)
(* was before: no users change.                                            *)
LEMMA UsersKept ==
    ASSUME NEW t \in Threads, pc[t] \in Between <=> pc'[t] \in Between,
           pc[t] \in Between => req'[t].ino = req[t].ino,
           \A s \in Threads \ {t} : pc'[s] = pc[s] /\ req'[s] = req[s],
           fh_to_ino' = fh_to_ino
    PROVE  \A i : Users(i)' = Users(i)
<1>1. \A i : HandlesOf(i)' = HandlesOf(i)
  BY DEF HandlesOf
<1>2. \A i : Counted(i)' = Counted(i)
  BY DEF Counted, Between
<1>. QED
  BY <1>1, <1>2 DEF Users

(* Reuse and the first registration: an open counts itself.                *)
LEMMA UsersJoin ==
    ASSUME TypeOK, NEW t \in Threads, NEW k, pc[t] \notin Between,
           pc'[t] = "insert", req'[t].ino = k,
           \A s \in Threads \ {t} : pc'[s] = pc[s] /\ req'[s] = req[s],
           fh_to_ino' = fh_to_ino
    PROVE  /\ Users(k)' = Users(k) + 1
           /\ \A i : i # k => Users(i)' = Users(i)
<1>1. \A i : HandlesOf(i)' = HandlesOf(i)
  BY DEF HandlesOf
<1>2. \A i : i # k => Counted(i)' = Counted(i)
  BY DEF Counted, Between
<1>3. Counted(k)' = Counted(k) \cup {t} /\ t \notin Counted(k)
  BY DEF Counted, Between
<1>4. Cardinality(Counted(k) \cup {t}) = Cardinality(Counted(k)) + 1
  BY <1>3, Finite, FS_AddElement
<1>5. Cardinality(HandlesOf(k)) \in Nat /\ Cardinality(Counted(k)) \in Nat
  BY UsersNat
<1>. QED
  BY <1>1, <1>2, <1>3, <1>4, <1>5 DEF Users

(* Record: the open becomes a handle, and is counted as one.               *)
LEMMA UsersMove ==
    ASSUME TypeOK, NEW t \in Threads, pc[t] \in Between, pc'[t] \notin Between,
           \A s \in Threads \ {t} : pc'[s] = pc[s] /\ req'[s] = req[s],
           NEW k, req[t].ino = k,
           NEW fh, fh \notin DOMAIN fh_to_ino, fh_to_ino' = Put(fh_to_ino, fh, k)
    PROVE  \A i : Users(i)' = Users(i)
<1>1. \A i : i # k => Counted(i)' = Counted(i) /\ HandlesOf(i)' = HandlesOf(i)
  BY DEF Counted, HandlesOf, Put, Between
<1>2. t \in Counted(k) /\ fh \notin HandlesOf(k)
  BY DEF Counted, HandlesOf, Between
<1>3. Counted(k)' = Counted(k) \ {t} /\ HandlesOf(k)' = HandlesOf(k) \cup {fh}
  BY DEF Counted, HandlesOf, Put, Between
<1>4. /\ Cardinality(Counted(k) \ {t}) = Cardinality(Counted(k)) - 1
      /\ Cardinality(HandlesOf(k) \cup {fh}) = Cardinality(HandlesOf(k)) + 1
  BY <1>2, Finite, FS_AddElement, FS_RemoveElement
<1>5. Cardinality(HandlesOf(k)) \in Nat /\ Cardinality(Counted(k)) \in Nat
  BY UsersNat
<1>6. Users(k)' = Users(k)
  BY <1>3, <1>4, <1>5 DEF Users
<1>7. \A i : i # k => Users(i)' = Users(i)
  BY <1>1 DEF Users
<1>. QED
  BY <1>6, <1>7

(* create: a new handle of a file is counted at once.                      *)
LEMMA UsersNew ==
    ASSUME TypeOK, NEW k, NEW fh, fh \notin DOMAIN fh_to_ino,
           fh_to_ino' = Put(fh_to_ino, fh, k), UNCHANGED <<pc, req>>
    PROVE  Users(k)' = Users(k) + 1 /\ \A i : i # k => Users(i)' = Users(i)
<1>1. \A i : Counted(i)' = Counted(i) /\ (i # k => HandlesOf(i)' = HandlesOf(i))
  BY DEF Counted, HandlesOf, Put
<1>2. HandlesOf(k)' = HandlesOf(k) \cup {fh} /\ fh \notin HandlesOf(k)
  BY DEF HandlesOf, Put
<1>3. Cardinality(HandlesOf(k) \cup {fh}) = Cardinality(HandlesOf(k)) + 1
  BY <1>2, Finite, FS_AddElement
<1>4. Cardinality(HandlesOf(k)) \in Nat /\ Cardinality(Counted(k)) \in Nat
  BY UsersNat
<1>. QED
  BY <1>1, <1>2, <1>3, <1>4 DEF Users

(* release of a handle with a backing: the handle becomes a thread that    *)
(* will uncount it, which is still a user.                                 *)
LEMMA UsersBack ==
    ASSUME TypeOK, NEW t \in Threads, pc[t] \notin Between, pc'[t] = "uncount",
           \A s \in Threads \ {t} : pc'[s] = pc[s] /\ req'[s] = req[s],
           NEW fh, fh \in DOMAIN fh_to_ino, fh_to_ino' = Drop(fh_to_ino, fh),
           NEW k, fh_to_ino[fh] = k, req'[t].ino = k
    PROVE  \A i : Users(i)' = Users(i)
<1>1. \A i : i # k => Counted(i)' = Counted(i) /\ HandlesOf(i)' = HandlesOf(i)
  BY DEF Counted, HandlesOf, Drop, Between
<1>2. t \notin Counted(k) /\ fh \in HandlesOf(k)
  BY DEF Counted, HandlesOf, Between
<1>3. Counted(k)' = Counted(k) \cup {t} /\ HandlesOf(k)' = HandlesOf(k) \ {fh}
  BY DEF Counted, HandlesOf, Drop, Between
<1>4. /\ Cardinality(Counted(k) \cup {t}) = Cardinality(Counted(k)) + 1
      /\ Cardinality(HandlesOf(k) \ {fh}) = Cardinality(HandlesOf(k)) - 1
  BY <1>2, Finite, FS_AddElement, FS_RemoveElement
<1>5. Cardinality(HandlesOf(k)) \in Nat /\ Cardinality(Counted(k)) \in Nat
  BY UsersNat
<1>6. Users(k)' = Users(k)
  BY <1>3, <1>4, <1>5 DEF Users
<1>7. \A i : i # k => Users(i)' = Users(i)
  BY <1>1 DEF Users
<1>. QED
  BY <1>6, <1>7

(* The release uncounts it: one user less.                                 *)
LEMMA UsersLeave ==
    ASSUME TypeOK, NEW t \in Threads, pc[t] = "uncount", pc'[t] \notin Between,
           \A s \in Threads \ {t} : pc'[s] = pc[s] /\ req'[s] = req[s],
           fh_to_ino' = fh_to_ino, NEW k, req[t].ino = k
    PROVE  /\ Users(k)' = Users(k) - 1 /\ Users(k) > 0
           /\ \A i : i # k => Users(i)' = Users(i)
<1>1. \A i : HandlesOf(i)' = HandlesOf(i)
  BY DEF HandlesOf
<1>2. /\ Counted(k)' = Counted(k) \ {t}
      /\ \A i : i # k => Counted(i)' = Counted(i)
  BY DEF Counted, Between
<1>3. t \in Counted(k)
  BY DEF Counted
<1>4. Cardinality(Counted(k) \ {t}) = Cardinality(Counted(k)) - 1
  BY <1>3, Finite, FS_RemoveElement
<1>5. Cardinality(HandlesOf(k)) \in Nat /\ Cardinality(Counted(k)) \in Nat
  BY UsersNat
<1>6. Cardinality(Counted(k)) # 0
  BY <1>3, Finite, FS_EmptySet
<1>7. Users(k)' = Users(k) - 1 /\ Users(k) > 0
  BY <1>1, <1>2, <1>4, <1>5, <1>6 DEF Users
<1>8. \A i : i # k => Users(i)' = Users(i)
  BY <1>1, <1>2 DEF Users
<1>. QED
  BY <1>7, <1>8

(* Entries that keep their count, or change it by one, keep counting users *)
(* if the users change by as much.                                         *)
LEMMA CountsKept ==
    ASSUME TypeOK, TypeOK', CountsOpens, UNCHANGED inode_backings, \A i : Users(i)' = Users(i)
    PROVE  CountsOpens'
<1>1. \A i \in Inos : CountOf(i) = Users(i) /\ (i \in DOMAIN inode_backings <=> Users(i) > 0)
  BY CountsOpensMeans
<1>2. \A i \in Inos : CountOf(i)' = Users(i)' /\ (i \in DOMAIN inode_backings' <=> Users(i)' > 0)
  BY <1>1 DEF CountOf
<1>. QED
  BY <1>2 DEF CountsOpens, CountOf, Users

LEMMA CountsChanged ==
    ASSUME TypeOK, TypeOK', CountsOpens, NEW k \in Inos, NEW d \in {1, -1},
           \A i : i # k => Users(i)' = Users(i),
           Users(k)' = Users(k) + d,
           CountOf(k)' = CountOf(k) + d,
           k \in DOMAIN inode_backings' <=> CountOf(k)' > 0,
           \A i \in Inos \ {k} :
              /\ i \in DOMAIN inode_backings' <=> i \in DOMAIN inode_backings
              /\ i \in DOMAIN inode_backings => inode_backings'[i] = inode_backings[i]
    PROVE  CountsOpens'
<1>1. \A i \in Inos : CountOf(i) = Users(i) /\ (i \in DOMAIN inode_backings <=> Users(i) > 0)
  BY CountsOpensMeans
<1>2. \A i \in Inos : CountOf(i)' = Users(i)' /\ (i \in DOMAIN inode_backings' <=> Users(i)' > 0)
  <2>1. CountOf(k)' = Users(k)' /\ (k \in DOMAIN inode_backings' <=> Users(k)' > 0)
    BY <1>1
  <2>2. \A i \in Inos \ {k} : CountOf(i)' = CountOf(i)
    BY DEF CountOf
  <2>. QED
    BY <1>1, <2>1, <2>2
<1>. QED
  BY <1>2 DEF CountsOpens, CountOf, Users

-----------------------------------------------------------------------------
(* Which entries are in use, and which opens still need a number. *)

(* An open that has counted itself has an entry, and so has a handle that  *)
(* release will uncount.                                                   *)
LEMMA InUse ==
    ASSUME TypeOK, CountsOpens
    PROVE  /\ \A t \in Threads : pc[t] \in Between => req[t].ino \in DOMAIN inode_backings
           /\ \A fh \in DOMAIN fh_to_ino : fh_to_ino[fh] \in DOMAIN inode_backings
<1>1. \A i \in Inos : i \in DOMAIN inode_backings <=> Users(i) > 0
  BY CountsOpensMeans
<1>2. \A i : /\ Cardinality(HandlesOf(i)) \in Nat /\ Cardinality(Counted(i)) \in Nat
             /\ HandlesOf(i) # {} => Cardinality(HandlesOf(i)) # 0
             /\ Counted(i) # {} => Cardinality(Counted(i)) # 0
  BY UsersNat, Finite, FS_EmptySet
<1>3. ASSUME NEW t \in Threads, pc[t] \in Between
      PROVE  req[t].ino \in DOMAIN inode_backings
  <2>1. t \in Counted(req[t].ino) /\ req[t].ino \in Inos
    BY <1>3 DEF Counted, TypeOK, Request, Between
  <2>. QED
    BY <1>1, <1>2, <2>1 DEF Users
<1>4. ASSUME NEW fh \in DOMAIN fh_to_ino
      PROVE  fh_to_ino[fh] \in DOMAIN inode_backings
  <2>1. fh \in HandlesOf(fh_to_ino[fh])
    BY DEF HandlesOf
  <2>2. fh_to_ino[fh] \in Inos
    BY MapFacts DEF TypeOK
  <2>. QED
    BY <1>1, <1>2, <2>1, <2>2 DEF Users
<1>. QED
  BY <1>3, <1>4

(* A release whose entry counts one is the entry's only user.              *)
LEMMA OnlyUser ==
    ASSUME TypeOK, CountsOpens, NEW t \in Threads, pc[t] = "uncount", NEW k \in Inos,
           req[t].ino = k, k \in DOMAIN inode_backings, inode_backings[k].count = 1
    PROVE  /\ \A h \in DOMAIN fh_to_ino : fh_to_ino[h] # k
           /\ \A s \in Threads \ {t} : pc[s] \in Between => req[s].ino # k
<1>1. Users(k) = 1
  BY CountsOpensMeans DEF CountOf
<1>2. Cardinality(HandlesOf(k)) \in Nat /\ Cardinality(Counted(k)) \in Nat
  BY UsersNat
<1>3. t \in Counted(k)
  BY DEF Counted
<1>4. Cardinality(Counted(k) \ {t}) = Cardinality(Counted(k)) - 1
  BY <1>3, Finite, FS_RemoveElement
<1>5. IsFiniteSet(Counted(k) \ {t}) /\ Cardinality(Counted(k) \ {t}) \in Nat
  BY <1>3, Finite, FS_RemoveElement, FS_CardinalityType
<1>6. Cardinality(Counted(k) \ {t}) = 0 /\ Cardinality(HandlesOf(k)) = 0
  BY <1>1, <1>2, <1>4, <1>5 DEF Users
<1>7. Counted(k) \ {t} = {} /\ HandlesOf(k) = {}
  BY <1>5, <1>6, Finite, FS_EmptySet
<1>. QED
  BY <1>7 DEF HandlesOf, Counted, Between

(* The step of a thread that starts to need a number, needs one no more,   *)
(* or changes nothing about it.                                            *)
LEMMA NeedingMore ==
    ASSUME TypeOK, NEW t \in Threads, pc[t] = "idle", pc'[t] \in Early,
           \A s \in Threads \ {t} : pc'[s] = pc[s] /\ req'[s] = req[s]
    PROVE  Cardinality(Needing') = Cardinality(Needing) + 1
<1>1. t \notin Needing /\ Needing' = Needing \cup {t}
  BY DEF Needing, Early
<1>. QED
  BY <1>1, Finite, FS_AddElement

LEMMA NeedingLess ==
    ASSUME TypeOK, NEW t \in Threads, t \in Needing, t \notin Needing',
           \A s \in Threads \ {t} : pc'[s] = pc[s] /\ req'[s] = req[s]
    PROVE  Cardinality(Needing') = Cardinality(Needing) - 1
<1>1. Needing' = Needing \ {t}
  BY DEF Needing
<1>. QED
  BY <1>1, Finite, FS_RemoveElement

LEMMA NeedingSame ==
    ASSUME NEW t \in Threads, t \in Needing <=> t \in Needing',
           \A s \in Threads \ {t} : pc'[s] = pc[s] /\ req'[s] = req[s]
    PROVE  Needing' = Needing
BY DEF Needing

-----------------------------------------------------------------------------
(* Init and one lemma per action. *)

LEMMA InitInv == Init => Inv
<1>. SUFFICES ASSUME Init PROVE Inv
  OBVIOUS
<1>1. \A S, T : IsMap(EmptyMap, S, T) /\ DOMAIN EmptyMap = {}
  BY DEF IsMap, EmptyMap
<1>2. TypeOK
  <2>1. layer \in [Inos -> Where] /\ enabled \in BOOLEAN
    BY DEF Init, Where
  <2>2. pc \in [Threads -> Label] /\ next_fh \in 1 .. MaxFh + 1
    BY BoundAssumption DEF Init, Label
  <2>3. req \in [Threads -> Request]
    <3>1. (CHOOSE i \in Inos : TRUE) \in Inos
      BY InosAssumption
    <3>2. \A i \in Inos :
             [ino |-> i, write |-> FALSE, fd |-> "none", id |-> 0, fh |-> 0] \in Request
      BY BoundAssumption DEF Request, Where, Id
    <3>. QED
      BY <3>1, <3>2, Zenon DEF Init
  <2>. QED
    BY <1>1, <2>1, <2>2, <2>3 DEF Init, TypeOK
<1>3. \A i : HandlesOf(i) = {} /\ Counted(i) = {}
  BY <1>1 DEF Init, HandlesOf, Counted
<1>4. CountsOpens
  <2>1. \A i : Cardinality(HandlesOf(i)) = 0 /\ Cardinality(Counted(i)) = 0
    BY <1>3, FS_EmptySet
  <2>2. DOMAIN inode_backings = {}
    BY <1>1 DEF Init
  <2>. QED
    BY <2>1, <2>2 DEF CountsOpens
<1>5. Needing = {}
  BY DEF Init, Needing, Early
<1>6. Numbering
  BY <1>5, FS_EmptySet, BoundAssumption DEF Numbering, Init, Early
<1>. QED
  BY <1>1, <1>2, <1>4, <1>6
     DEF Inv, FreshHandles, OpenExist, BackedByEntry, Init, Opening, Early, Between

LEMMA OpenInv ==
    ASSUME Inv, NEW t \in Threads, NEW i \in Inos, NEW wr \in BOOLEAN, Open(t, i, wr)
    PROVE  Inv'
<1>. DEFINE r == [ino |-> i, write |-> wr, fd |-> layer[i], id |-> 0, fh |-> 0]
            l == IF wr /\ layer[i] = "lower" THEN "slow" ELSE "maybe"
<1>0. TypeOK /\ CountsOpens /\ Numbering /\ FreshHandles /\ OpenExist /\ BackedByEntry
  BY DEF Inv
<1>1. r \in Request /\ l \in Label \cap Early
  BY <1>0, BoundAssumption DEF TypeOK, Request, Id, Label, Early
<1>2. /\ pc' \in [Threads -> Label] /\ req' \in [Threads -> Request]
      /\ pc'[t] = l /\ req'[t] = r
      /\ \A s \in Threads \ {t} : pc'[s] = pc[s] /\ req'[s] = req[s]
  BY <1>0, <1>1, GoFacts DEF Open
<1>3. TypeOK'
  BY <1>0, <1>2 DEF TypeOK, Open, tables
<1>4. CountsOpens'
  <2>1. \A k : Users(k)' = Users(k)
    BY <1>1, <1>2, UsersKept DEF Open, tables, Early, Between
  <2>. QED
    BY <1>0, <1>3, <2>1, CountsKept DEF Open, tables
<1>5. Numbering'
  <2>1. Cardinality(Needing') = Cardinality(Needing) + 1
    BY <1>0, <1>1, <1>2, NeedingMore DEF Open
  <2>2. next_fh' + Cardinality(Needing') <= MaxFh + 1
    BY <1>0, <2>1, Finite, BoundAssumption DEF Open, TypeOK
  <2>. QED
    BY <1>0, <1>1, <1>2, <2>2 DEF Numbering, Early
<1>6. FreshHandles'
  BY <1>0, <1>1, <1>2 DEF FreshHandles, Open, tables, Early
<1>7. OpenExist'
  BY <1>0, <1>1, <1>2 DEF OpenExist, Open, tables, Early, Between
<1>8. BackedByEntry'
  BY <1>0, <1>1, <1>2 DEF BackedByEntry, Open, tables, Early
<1>. QED
  BY <1>3, <1>4, <1>5, <1>6, <1>7, <1>8 DEF Inv

LEMMA OpenSlowInv ==
    ASSUME Inv, NEW t \in Threads, OpenSlow(t)
    PROVE  Inv'
<1>0. TypeOK /\ CountsOpens /\ Numbering /\ FreshHandles /\ OpenExist /\ BackedByEntry
  BY DEF Inv
<1>1. [req[t] EXCEPT !.fd = "upper"] \in Request /\ "maybe" \in Label
  BY <1>0 DEF TypeOK, Request, Where, Label
<1>2. /\ pc' \in [Threads -> Label] /\ req' \in [Threads -> Request]
      /\ pc'[t] = "maybe" /\ req'[t] = [req[t] EXCEPT !.fd = "upper"]
      /\ \A s \in Threads \ {t} : pc'[s] = pc[s] /\ req'[s] = req[s]
  BY <1>0, <1>1, GoFacts DEF OpenSlow
<1>3. req'[t].ino = req[t].ino /\ req'[t].fh = req[t].fh
  BY <1>0, <1>2 DEF TypeOK, Request
<1>4. /\ layer' \in [Inos -> Where] /\ layer'[req[t].ino] = "upper"
      /\ \A i \in Inos : layer[i] # "none" => layer'[i] # "none"
  BY <1>0 DEF OpenSlow, TypeOK, Where, Request
<1>5. TypeOK'
  BY <1>0, <1>2, <1>4 DEF TypeOK, OpenSlow, tables
<1>6. CountsOpens'
  <2>1. \A k : Users(k)' = Users(k)
    BY <1>2, UsersKept DEF OpenSlow, tables, Between
  <2>. QED
    BY <1>0, <1>5, <2>1, CountsKept DEF OpenSlow, tables
<1>7. Numbering'
  <2>1. Needing' = Needing
    BY <1>2, NeedingSame DEF Needing, Early, OpenSlow
  <2>. QED
    BY <1>0, <1>2, <1>3, <2>1 DEF Numbering, Early, OpenSlow
<1>8. FreshHandles'
  BY <1>0, <1>2 DEF FreshHandles, OpenSlow, tables
<1>9. OpenExist'
  <2>1. \A fh \in DOMAIN fh_to_ino : fh_to_ino[fh] \in Inos
    BY <1>0, MapFacts DEF TypeOK
  <2>2. \A s \in Threads : req[s].ino \in Inos
    BY <1>0 DEF TypeOK, Request
  <2>. QED
    BY <1>0, <1>2, <1>3, <1>4, <2>1, <2>2 DEF OpenExist, OpenSlow, tables
<1>10. BackedByEntry'
  BY <1>0, <1>2 DEF BackedByEntry, OpenSlow, tables
<1>. QED
  BY <1>5, <1>6, <1>7, <1>8, <1>9, <1>10 DEF Inv

(* What an entry of inode_backings is.                                     *)
LEMMA EntryFacts ==
    ASSUME TypeOK
    PROVE  \A i \in DOMAIN inode_backings :
              /\ i \in Inos /\ inode_backings[i] \in Backing
              /\ inode_backings[i].id \in Id /\ inode_backings[i].count \in Nat
<1>1. \A i \in DOMAIN inode_backings : i \in Inos /\ inode_backings[i] \in Backing
  BY MapFacts DEF TypeOK
<1>. QED
  BY <1>1 DEF Backing

(* The open counts itself in the entry it found, and leaves the rest of    *)
(* the entry, and the other entries, as they are.                          *)
LEMMA ReuseFacts ==
    ASSUME TypeOK, NEW t \in Threads, req[t].ino \in DOMAIN inode_backings, Reuse(t)
    PROVE  /\ pc' \in [Threads -> Label] /\ req' \in [Threads -> Request]
           /\ pc'[t] = "insert"
           /\ req'[t].ino = req[t].ino /\ req'[t].fh = req[t].fh
           /\ req'[t].id = inode_backings[req[t].ino].id
           /\ \A s \in Threads \ {t} : pc'[s] = pc[s] /\ req'[s] = req[s]
           /\ IsMap(inode_backings', Inos, Backing)
           /\ DOMAIN inode_backings' = DOMAIN inode_backings
           /\ inode_backings'[req[t].ino].count = inode_backings[req[t].ino].count + 1
           /\ \A i \in DOMAIN inode_backings : inode_backings'[i].id = inode_backings[i].id
           /\ \A i \in DOMAIN inode_backings \ {req[t].ino} : inode_backings'[i] = inode_backings[i]
<1>. DEFINE i == req[t].ino
            b == inode_backings[i]
            q == [req[t] EXCEPT !.id = b.id]
            c == [b EXCEPT !.count = @ + 1]
<1>1. b \in Backing /\ c \in Backing /\ c.id = b.id /\ c.count = b.count + 1
  BY EntryFacts DEF Backing
<1>2. q \in Request /\ q.ino = i /\ q.fh = req[t].fh /\ q.id = b.id
  BY <1>1 DEF TypeOK, Request, Backing
<1>3. Go(t, "insert", q) /\ inode_backings' = [inode_backings EXCEPT ![i] = c]
  BY DEF Reuse
<1>. HIDE DEF c, q
<1>4. /\ pc' \in [Threads -> Label] /\ req' \in [Threads -> Request]
      /\ pc'[t] = "insert" /\ req'[t] = q
      /\ \A s \in Threads \ {t} : pc'[s] = pc[s] /\ req'[s] = req[s]
  <2>1. "insert" \in Label
    BY DEF Label
  <2>. QED
    BY <1>2, <1>3, <2>1, GoFacts
<1>5. IsMap(inode_backings, Inos, Backing)
  BY DEF TypeOK
<1>6. /\ IsMap([inode_backings EXCEPT ![i] = c], Inos, Backing)
      /\ DOMAIN [inode_backings EXCEPT ![i] = c] = DOMAIN inode_backings
      /\ [inode_backings EXCEPT ![i] = c][i] = c
      /\ \A y \in DOMAIN inode_backings : y # i =>
            [inode_backings EXCEPT ![i] = c][y] = inode_backings[y]
  BY <1>1, <1>5, UpdateMap
<1>. QED
  BY <1>1, <1>2, <1>3, <1>4, <1>6

(* Counting oneself in an entry keeps the counts right.                    *)
LEMMA ReuseCounts ==
    ASSUME TypeOK, TypeOK', CountsOpens, NEW t \in Threads, pc[t] \notin Between,
           req[t].ino \in DOMAIN inode_backings, Reuse(t), UNCHANGED fh_to_ino
    PROVE  CountsOpens'
<1>. PICK k \in Inos : req[t].ino = k
  BY DEF TypeOK, Request
<1>1. /\ pc'[t] = "insert" /\ req'[t].ino = k
      /\ \A s \in Threads \ {t} : pc'[s] = pc[s] /\ req'[s] = req[s]
  BY ReuseFacts
<1>2. Users(k)' = Users(k) + 1 /\ \A i : i # k => Users(i)' = Users(i)
  BY <1>1, UsersJoin
<1>3. inode_backings[k].count \in Nat
  BY EntryFacts
<1>4. CountOf(k)' = CountOf(k) + 1 /\ CountOf(k)' > 0
  BY <1>3, ReuseFacts DEF CountOf
<1>5. \A i \in Inos \ {k} :
         /\ i \in DOMAIN inode_backings' <=> i \in DOMAIN inode_backings
         /\ i \in DOMAIN inode_backings => inode_backings'[i] = inode_backings[i]
  BY ReuseFacts
<1>6. k \in DOMAIN inode_backings'
  BY ReuseFacts
<1>. QED
  BY <1>2, <1>4, <1>5, <1>6, CountsChanged

LEMMA MaybeInv ==
    ASSUME Inv, NEW t \in Threads, Maybe(t)
    PROVE  Inv'
<1>0. TypeOK /\ CountsOpens /\ Numbering /\ FreshHandles /\ OpenExist /\ BackedByEntry
  BY DEF Inv
<1>1. /\ pc' = [pc EXCEPT ![t] = pc'[t]] /\ pc'[t] \in {"plain", "check"}
      /\ req' = req /\ UNCHANGED inode_backings
  BY <1>0 DEF Maybe, Go, TypeOK, tables
<1>2. pc' \in [Threads -> Label] /\ \A s \in Threads \ {t} : pc'[s] = pc[s] /\ req'[s] = req[s]
  BY <1>0, <1>1 DEF TypeOK, Label
<1>3. TypeOK'
  BY <1>0, <1>1, <1>2 DEF TypeOK, Maybe, tables
<1>4. CountsOpens'
  <2>1. \A k : Users(k)' = Users(k)
    BY <1>1, <1>2, UsersKept DEF Maybe, tables, Between
  <2>. QED
    BY <1>0, <1>1, <1>3, <2>1, CountsKept
<1>5. Needing' = Needing
  BY <1>1, <1>2, NeedingSame DEF Needing, Early, Maybe
<1>6. Numbering'
  BY <1>0, <1>1, <1>2, <1>5 DEF Numbering, Early, Maybe
<1>7. FreshHandles'
  BY <1>0, <1>1, <1>2 DEF FreshHandles, Maybe, tables
<1>8. OpenExist'
  BY <1>0, <1>1, <1>2 DEF OpenExist, Maybe, tables, Opening, Early, Between
<1>9. BackedByEntry'
  BY <1>0, <1>1, <1>2 DEF BackedByEntry, Maybe, tables
<1>. QED
  BY <1>3, <1>4, <1>6, <1>7, <1>8, <1>9 DEF Inv

LEMMA CheckInv ==
    ASSUME Inv, NEW t \in Threads, Check(t)
    PROVE  Inv'
<1>0. TypeOK /\ CountsOpens /\ Numbering /\ FreshHandles /\ OpenExist /\ BackedByEntry
  BY DEF Inv
<1>1. CASE /\ pc' = [pc EXCEPT ![t] = pc'[t]] /\ pc'[t] = "backing"
           /\ req' = req /\ UNCHANGED inode_backings
  <2>1. pc' \in [Threads -> Label] /\ \A s \in Threads \ {t} : pc'[s] = pc[s] /\ req'[s] = req[s]
    BY <1>0, <1>1 DEF TypeOK, Label
  <2>2. TypeOK'
    BY <1>0, <1>1, <2>1 DEF TypeOK, Check
  <2>3. CountsOpens'
    <3>1. \A k : Users(k)' = Users(k)
      BY <1>1, <2>1, UsersKept DEF Check, Between
    <3>. QED
      BY <1>0, <1>1, <2>2, <3>1, CountsKept
  <2>4. Needing' = Needing
    BY <1>1, <2>1, NeedingSame DEF Needing, Early, Check
  <2>5. Numbering'
    BY <1>0, <1>1, <2>1, <2>4 DEF Numbering, Early, Check
  <2>6. FreshHandles'
    BY <1>0, <1>1, <2>1 DEF FreshHandles, Check
  <2>7. OpenExist'
    BY <1>0, <1>1, <2>1 DEF OpenExist, Check, Opening, Early, Between
  <2>8. BackedByEntry'
    BY <1>0, <1>1, <2>1 DEF BackedByEntry, Check
  <2>. QED
    BY <2>2, <2>3, <2>5, <2>6, <2>7, <2>8 DEF Inv
<1>2. CASE req[t].ino \in DOMAIN inode_backings /\ Reuse(t)
  <2>1. /\ pc' \in [Threads -> Label] /\ req' \in [Threads -> Request]
        /\ pc'[t] = "insert" /\ req'[t].ino = req[t].ino /\ req'[t].fh = req[t].fh
        /\ \A s \in Threads \ {t} : pc'[s] = pc[s] /\ req'[s] = req[s]
    BY <1>0, <1>2, ReuseFacts
  <2>2. TypeOK'
    BY <1>0, <1>2, <2>1, ReuseFacts DEF TypeOK, Check
  <2>3. CountsOpens'
    BY <1>0, <1>2, <2>2, ReuseCounts DEF Check, Between
  <2>4. req[t].fh = 0
    BY <1>0 DEF Numbering, Check, Early
  <2>5. Needing' = Needing
    BY <2>1, <2>4, NeedingSame DEF Needing, Early, Check
  <2>6. Numbering'
    BY <1>0, <2>1, <2>5 DEF Numbering, Early, Check
  <2>7. FreshHandles'
    <3>1. 0 < next_fh /\ 0 \notin DOMAIN fh_to_ino \cup DOMAIN handles
      BY <1>0, BoundAssumption, MapFacts DEF TypeOK, Fh
    <3>. QED
      BY <1>0, <2>1, <2>4, <3>1 DEF FreshHandles, Check
  <2>8. OpenExist'
    BY <1>0, <2>1 DEF OpenExist, Check, Opening, Early, Between
  <2>9. BackedByEntry'
    BY <1>0, <1>2, <2>1, ReuseFacts, InUse DEF BackedByEntry, Check, Between
  <2>. QED
    BY <2>2, <2>3, <2>6, <2>7, <2>8, <2>9 DEF Inv
<1>. QED
  <2>1. CASE Go(t, "backing", req[t]) /\ UNCHANGED inode_backings
    BY <1>0, <1>1, <2>1 DEF Go, TypeOK
  <2>. QED
    BY <1>2, <2>1 DEF Check

(* There is a number left for an open that needs one, and nobody has it.   *)
LEMMA NumberLeft ==
    ASSUME TypeOK, Numbering, FreshHandles, NEW t \in Threads, t \in Needing
    PROVE  /\ next_fh \in Fh /\ next_fh \notin DOMAIN fh_to_ino \cup DOMAIN handles
           /\ next_fh + 1 \in 1 .. MaxFh + 1
           /\ next_fh + 1 + (Cardinality(Needing) - 1) <= MaxFh + 1
<1>1. Cardinality(Needing) \in Nat /\ Cardinality(Needing) # 0
  BY Finite, FS_EmptySet
<1>2. next_fh <= MaxFh /\ next_fh \in Nat \ {0}
  BY <1>1, BoundAssumption DEF Numbering, TypeOK
<1>3. next_fh \notin DOMAIN fh_to_ino \cup DOMAIN handles
  BY <1>2 DEF FreshHandles
<1>. QED
  BY <1>1, <1>2, <1>3, BoundAssumption DEF Fh, Numbering

LEMMA OpenBackingInv ==
    ASSUME Inv, NEW t \in Threads, OpenBacking(t)
    PROVE  Inv'
<1>0. TypeOK /\ CountsOpens /\ Numbering /\ FreshHandles /\ OpenExist /\ BackedByEntry
  BY DEF Inv
<1>1. pc[t] = "backing" /\ t \in Needing /\ req[t] \in Request /\ req[t].fh = 0
  BY <1>0 DEF OpenBacking, Needing, Early, Numbering, TypeOK
<1>2. CASE /\ NewId \in Id /\ backed' = Put(backed, NewId, req[t].fd)
           /\ next_fh' = next_fh + 1
           /\ Go(t, "recheck", [req[t] EXCEPT !.id = NewId, !.fh = next_fh])
           /\ UNCHANGED enabled
  <2>. DEFINE q == [req[t] EXCEPT !.id = NewId, !.fh = next_fh]
  <2>1. next_fh \in 0 .. MaxFh /\ next_fh \in Nat \ {0}
    BY <1>0, <1>1, NumberLeft, BoundAssumption DEF Fh
  <2>2. q \in Request /\ q.ino = req[t].ino /\ q.fh = next_fh /\ "recheck" \in Label
    BY <1>1, <1>2, <2>1 DEF Request, Label
  <2>. HIDE DEF q
  <2>3. /\ pc' \in [Threads -> Label] /\ req' \in [Threads -> Request]
        /\ pc'[t] = "recheck" /\ req'[t] = q
        /\ \A s \in Threads \ {t} : pc'[s] = pc[s] /\ req'[s] = req[s]
    BY <1>0, <1>2, <2>2, GoFacts DEF q
  <2>4. IsMap(backed', Id, Where)
    <3>1. req[t].fd \in Where
      BY <1>1 DEF Request
    <3>2. IsMap(backed, Id, Where)
      BY <1>0 DEF TypeOK
    <3>. QED
      BY <1>2, <3>1, <3>2, PutMap
  <2>5. next_fh' \in 1 .. MaxFh + 1
    BY <1>0, <1>1, <1>2, NumberLeft
  <2>6. TypeOK'
    BY <1>0, <1>2, <2>3, <2>4, <2>5 DEF TypeOK, OpenBacking, tables
  <2>7. CountsOpens'
    <3>1. \A k : Users(k)' = Users(k)
      BY <1>1, <2>3, UsersKept DEF OpenBacking, tables, Between
    <3>. QED
      BY <1>0, <2>6, <3>1, CountsKept DEF OpenBacking, tables
  <2>8. Numbering'
    <3>1. t \notin Needing'
      BY <2>3 DEF Needing, Early
    <3>2. Cardinality(Needing') = Cardinality(Needing) - 1
      BY <1>0, <1>1, <2>3, <3>1, NeedingLess
    <3>3. next_fh' + Cardinality(Needing') <= MaxFh + 1
      BY <1>0, <1>1, <1>2, <3>2, NumberLeft
    <3>. QED
      BY <1>0, <2>1, <2>2, <2>3, <3>3 DEF Numbering, Early
  <2>9. FreshHandles'
    <3>1. /\ \A fh \in DOMAIN fh_to_ino \cup DOMAIN handles : fh \in Nat
          /\ \A s \in Threads : req[s].fh \in Nat
      BY <1>0, MapFacts, BoundAssumption DEF TypeOK, Fh, Request
    <3>2. /\ \A fh \in DOMAIN fh_to_ino \cup DOMAIN handles : fh < next_fh'
          /\ \A s \in Threads : pc'[s] \in {"recheck", "insert", "record", "release"} => req'[s].fh < next_fh'
      BY <1>0, <1>2, <2>1, <2>2, <2>3, <3>1 DEF FreshHandles
    <3>3. next_fh \notin DOMAIN fh_to_ino \cup DOMAIN handles
      BY <1>0, <1>1, NumberLeft
    <3>4. \A s \in Threads \ {t} :
             pc[s] \in {"recheck", "insert", "record", "release"} => req[s].fh # next_fh
      BY <1>0, <2>1, <3>1 DEF FreshHandles
    <3>. QED
      BY <1>0, <2>2, <2>3, <3>2, <3>3, <3>4 DEF FreshHandles, OpenBacking, tables
  <2>10. OpenExist'
    BY <1>0, <1>1, <2>2, <2>3 DEF OpenExist, OpenBacking, tables, Opening, Early, Between
  <2>11. BackedByEntry'
    BY <1>0, <2>3 DEF BackedByEntry, OpenBacking, tables
  <2>. QED
    BY <2>6, <2>7, <2>8, <2>9, <2>10, <2>11 DEF Inv
<1>3. CASE /\ enabled' = FALSE /\ Go(t, "plain", req[t])
           /\ UNCHANGED <<backed, next_fh>>
  <2>1. /\ pc' \in [Threads -> Label] /\ req' \in [Threads -> Request]
        /\ pc'[t] = "plain" /\ req'[t] = req[t]
        /\ \A s \in Threads \ {t} : pc'[s] = pc[s] /\ req'[s] = req[s]
    <3>1. "plain" \in Label
      BY DEF Label
    <3>. QED
      BY <1>0, <1>1, <1>3, <3>1, GoFacts
  <2>2. TypeOK'
    BY <1>0, <1>3, <2>1 DEF TypeOK, OpenBacking, tables
  <2>3. CountsOpens'
    <3>1. \A k : Users(k)' = Users(k)
      BY <1>1, <2>1, UsersKept DEF OpenBacking, tables, Between
    <3>. QED
      BY <1>0, <2>2, <3>1, CountsKept DEF OpenBacking, tables
  <2>4. Numbering'
    <3>1. Needing' = Needing
      BY <1>1, <2>1, NeedingSame DEF Needing, Early
    <3>. QED
      BY <1>0, <1>1, <1>3, <2>1, <3>1 DEF Numbering, Early
  <2>5. FreshHandles'
    BY <1>0, <1>3, <2>1 DEF FreshHandles, OpenBacking, tables
  <2>6. OpenExist'
    BY <1>0, <1>1, <2>1 DEF OpenExist, OpenBacking, tables, Opening, Early, Between
  <2>7. BackedByEntry'
    BY <1>0, <2>1 DEF BackedByEntry, OpenBacking, tables
  <2>. QED
    BY <2>2, <2>3, <2>4, <2>5, <2>6, <2>7 DEF Inv
<1>. QED
  BY <1>2, <1>3 DEF OpenBacking

LEMMA RecheckInv ==
    ASSUME Inv, NEW t \in Threads, Recheck(t)
    PROVE  Inv'
<1>0. TypeOK /\ CountsOpens /\ Numbering /\ FreshHandles /\ OpenExist /\ BackedByEntry
  BY DEF Inv
<1>. DEFINE i == req[t].ino
            e == [id |-> req[t].id, count |-> 1]
<1>1. pc[t] = "recheck" /\ req[t] \in Request /\ i \in Inos /\ req[t].fh # 0 /\ e \in Backing
  BY <1>0 DEF Recheck, Numbering, TypeOK, Request, Backing
<1>2. \/ i \in DOMAIN inode_backings /\ Reuse(t)
      \/ /\ i \notin DOMAIN inode_backings
         /\ inode_backings' = Put(inode_backings, i, e)
         /\ Go(t, "insert", req[t])
  BY DEF Recheck
<1>3. /\ pc' \in [Threads -> Label] /\ req' \in [Threads -> Request]
      /\ pc'[t] = "insert" /\ req'[t].ino = i /\ req'[t].fh = req[t].fh
      /\ \A s \in Threads \ {t} : pc'[s] = pc[s] /\ req'[s] = req[s]
  <2>1. "insert" \in Label
    BY DEF Label
  <2>2. CASE Go(t, "insert", req[t])
    BY <1>0, <1>1, <2>1, <2>2, GoFacts
  <2>3. CASE i \in DOMAIN inode_backings /\ Reuse(t)
    BY <1>0, <2>3, ReuseFacts
  <2>. QED
    BY <1>2, <2>2, <2>3
<1>4. /\ IsMap(inode_backings', Inos, Backing)
      /\ DOMAIN inode_backings' = DOMAIN inode_backings \cup {i}
      /\ inode_backings'[i].id = req'[t].id
      /\ \A j \in DOMAIN inode_backings : inode_backings'[j].id = inode_backings[j].id
  <2>1. CASE i \in DOMAIN inode_backings /\ Reuse(t)
    BY <1>0, <2>1, ReuseFacts
  <2>2. CASE /\ i \notin DOMAIN inode_backings
             /\ inode_backings' = Put(inode_backings, i, e)
             /\ Go(t, "insert", req[t])
    <3>1. req'[t] = req[t]
      BY <1>0, <2>2 DEF Go, TypeOK
    <3>2. IsMap(inode_backings, Inos, Backing) /\ e.id = req[t].id
      BY <1>0 DEF TypeOK
    <3>. HIDE DEF e
    <3>. QED
      BY <1>1, <2>2, <3>1, <3>2, PutMap
  <2>. QED
    BY <1>2, <2>1, <2>2
<1>5. TypeOK'
  BY <1>0, <1>3, <1>4 DEF TypeOK, Recheck
<1>6. CountsOpens'
  <2>1. CASE i \in DOMAIN inode_backings /\ Reuse(t)
    BY <1>0, <1>1, <1>5, <2>1, ReuseCounts DEF Recheck, Between
  <2>2. CASE i \notin DOMAIN inode_backings /\ inode_backings' = Put(inode_backings, i, e)
    <3>. PICK k \in Inos : i = k
      BY <1>1
    <3>. HIDE DEF i
    <3>1. Users(k)' = Users(k) + 1 /\ \A j : j # k => Users(j)' = Users(j)
      BY <1>0, <1>1, <1>3, UsersJoin DEF Recheck, Between
    <3>2. k \in DOMAIN inode_backings' /\ CountOf(k)' = CountOf(k) + 1 /\ CountOf(k)' > 0
      BY <2>2 DEF CountOf, Put
    <3>3. \A j \in Inos \ {k} :
             /\ j \in DOMAIN inode_backings' <=> j \in DOMAIN inode_backings
             /\ j \in DOMAIN inode_backings => inode_backings'[j] = inode_backings[j]
      BY <2>2 DEF Put
    <3>. QED
      BY <1>0, <1>5, <3>1, <3>2, <3>3, CountsChanged
  <2>. QED
    BY <1>2, <2>1, <2>2
<1>7. Numbering'
  <2>1. Needing' = Needing
    BY <1>1, <1>3, NeedingSame DEF Needing, Early
  <2>. QED
    BY <1>0, <1>3, <2>1 DEF Numbering, Early, Recheck
<1>8. FreshHandles'
  BY <1>0, <1>1, <1>3 DEF FreshHandles, Recheck
<1>9. OpenExist'
  BY <1>0, <1>1, <1>3 DEF OpenExist, Recheck, Opening, Between
<1>10. BackedByEntry'
  BY <1>0, <1>3, <1>4, InUse DEF BackedByEntry, Recheck, Between
<1>. QED
  BY <1>5, <1>6, <1>7, <1>8, <1>9, <1>10 DEF Inv

LEMMA InsertInv ==
    ASSUME Inv, NEW t \in Threads, Insert(t)
    PROVE  Inv'
<1>0. TypeOK /\ CountsOpens /\ Numbering /\ FreshHandles /\ OpenExist /\ BackedByEntry
  BY DEF Inv
<1>. DEFINE fh == Numbered(t)
            q == [req[t] EXCEPT !.fh = fh]
<1>1. pc[t] = "insert" /\ req[t] \in Request /\ req[t].fd \in Where
  BY <1>0 DEF Insert, TypeOK, Request
<1>2. /\ open_files' = Put(open_files, fh, req[t].fd)
      /\ Go(t, "record", q)
      /\ UNCHANGED <<layer, enabled, inode_backings, fh_to_ino, backed, handles>>
  BY DEF Insert
<1>3. \A s \in Threads : req[s].fh \in Nat
  BY <1>0, BoundAssumption DEF TypeOK, Request
<1>4. /\ fh \in Fh /\ fh \notin DOMAIN fh_to_ino \cup DOMAIN handles
      /\ next_fh' \in 1 .. MaxFh + 1 /\ next_fh <= next_fh' /\ fh < next_fh'
      /\ \A s \in Threads \ {t} :
            pc[s] \in {"recheck", "insert", "record", "release"} => req[s].fh # fh
  <2>1. CASE req[t].fh = 0
    <3>1. t \in Needing
      BY <1>1, <2>1 DEF Needing
    <3>2. fh = next_fh /\ next_fh' = next_fh + 1 /\ next_fh \in Nat
      BY <1>0, <2>1, BoundAssumption DEF Numbered, Insert, TypeOK
    <3>3. \A s \in Threads \ {t} :
             pc[s] \in {"recheck", "insert", "record", "release"} => req[s].fh # next_fh
      BY <1>0, <1>3, <3>2 DEF FreshHandles
    <3>. QED
      BY <1>0, <3>1, <3>2, <3>3, NumberLeft
  <2>2. CASE req[t].fh # 0
    <3>1. fh = req[t].fh /\ next_fh' = next_fh /\ next_fh \in 1 .. MaxFh + 1
      BY <1>0, <2>2 DEF Numbered, Insert, TypeOK
    <3>2. fh \in Fh
      BY <1>1, <2>2, <3>1, BoundAssumption DEF Request, Fh
    <3>. QED
      BY <1>0, <1>1, <2>2, <3>1, <3>2, BoundAssumption DEF FreshHandles
  <2>. QED
    BY <2>1, <2>2
<1>. HIDE DEF fh
<1>5. /\ q \in Request /\ q.ino = req[t].ino /\ q.id = req[t].id /\ q.fh = fh
      /\ fh # 0 /\ "record" \in Label
  BY <1>1, <1>4, BoundAssumption DEF Request, Fh, Label
<1>. HIDE DEF q
<1>6. /\ pc' \in [Threads -> Label] /\ req' \in [Threads -> Request]
      /\ pc'[t] = "record" /\ req'[t] = q
      /\ \A s \in Threads \ {t} : pc'[s] = pc[s] /\ req'[s] = req[s]
  BY <1>0, <1>2, <1>5, GoFacts
<1>7. TypeOK'
  <2>1. IsMap(open_files', Fh, Where)
    <3>1. IsMap(open_files, Fh, Where)
      BY <1>0 DEF TypeOK
    <3>. QED
      BY <1>1, <1>2, <1>4, <3>1, PutMap
  <2>. QED
    BY <1>0, <1>2, <1>4, <1>6, <2>1 DEF TypeOK
<1>8. CountsOpens'
  <2>1. \A i : Users(i)' = Users(i)
    BY <1>1, <1>2, <1>5, <1>6, UsersKept DEF Between
  <2>. QED
    BY <1>0, <1>2, <1>7, <2>1, CountsKept
<1>9. Numbering'
  <2>1. t \notin Needing'
    BY <1>6 DEF Needing, Early
  <2>2. next_fh' + Cardinality(Needing') <= MaxFh + 1
    <3>1. CASE t \in Needing
      <4>1. next_fh' = next_fh + 1
        BY <1>1, <3>1 DEF Needing, Insert, Early
      <4>2. Cardinality(Needing') = Cardinality(Needing) - 1
        BY <1>0, <1>6, <2>1, <3>1, NeedingLess
      <4>. QED
        BY <1>0, <3>1, <4>1, <4>2, NumberLeft
    <3>2. CASE t \notin Needing
      <4>1. next_fh' = next_fh
        BY <1>1, <3>2 DEF Needing, Insert
      <4>2. Needing' = Needing
        BY <1>6, <2>1, <3>2, NeedingSame
      <4>. QED
        BY <1>0, <4>1, <4>2 DEF Numbering
    <3>. QED
      BY <3>1, <3>2
  <2>. QED
    BY <1>0, <1>5, <1>6, <2>2 DEF Numbering, Early
<1>10. FreshHandles'
  <2>1. \A g \in DOMAIN fh_to_ino \cup DOMAIN handles : g \in Nat
    BY <1>0, MapFacts, BoundAssumption DEF TypeOK, Fh
  <2>2. next_fh \in Nat /\ next_fh' \in Nat
    BY <1>0, <1>4, BoundAssumption DEF TypeOK
  <2>3. \A g \in DOMAIN fh_to_ino \cup DOMAIN handles : g < next_fh'
    BY <1>0, <1>4, <2>1, <2>2 DEF FreshHandles
  <2>4. \A s \in Threads :
           pc'[s] \in {"recheck", "insert", "record", "release"} => req'[s].fh < next_fh'
    BY <1>0, <1>3, <1>4, <1>5, <1>6, <2>2 DEF FreshHandles
  <2>. QED
    BY <1>0, <1>2, <1>4, <1>5, <1>6, <2>3, <2>4 DEF FreshHandles
<1>11. OpenExist'
  BY <1>0, <1>1, <1>2, <1>5, <1>6 DEF OpenExist, Opening, Between
<1>12. BackedByEntry'
  BY <1>0, <1>1, <1>2, <1>5, <1>6 DEF BackedByEntry
<1>. QED
  BY <1>7, <1>8, <1>9, <1>10, <1>11, <1>12 DEF Inv

LEMMA RecordInv ==
    ASSUME Inv, NEW t \in Threads, Record(t)
    PROVE  Inv'
<1>0. TypeOK /\ CountsOpens /\ Numbering /\ FreshHandles /\ OpenExist /\ BackedByEntry
  BY DEF Inv
<1>. DEFINE h == [ino |-> req[t].ino, write |-> req[t].write, backing |-> req[t].id]
<1>1. pc[t] = "record" /\ req[t] \in Request
  BY <1>0 DEF Record, TypeOK
<1>2. /\ req[t].ino \in Inos /\ h \in Handle
      /\ h.ino = req[t].ino /\ h.backing = req[t].id
  BY <1>1 DEF Request, Handle
<1>3. PICK fh : req[t].fh = fh
  OBVIOUS
<1>4. /\ fh_to_ino' = Put(fh_to_ino, fh, req[t].ino)
      /\ handles' = Put(handles, fh, h)
      /\ Go(t, "idle", req[t])
      /\ UNCHANGED <<layer, enabled, inode_backings, open_files, backed, next_fh>>
  BY <1>3 DEF Record
<1>5. /\ fh \in Fh /\ fh \notin DOMAIN fh_to_ino \cup DOMAIN handles /\ fh < next_fh
      /\ \A s \in Threads \ {t} :
            pc[s] \in {"recheck", "insert", "record", "release"} => req[s].fh # fh
  <2>1. fh # 0
    BY <1>0, <1>1, <1>3 DEF Numbering
  <2>2. fh \in Fh
    BY <1>1, <1>3, <2>1, BoundAssumption DEF Request, Fh
  <2>. QED
    BY <1>0, <1>1, <1>3, <2>1, <2>2 DEF FreshHandles
<1>. HIDE DEF h
<1>6. /\ pc' \in [Threads -> Label] /\ req' \in [Threads -> Request]
      /\ pc'[t] = "idle"
      /\ \A s \in Threads \ {t} : pc'[s] = pc[s] /\ req'[s] = req[s]
  <2>1. "idle" \in Label
    BY DEF Label
  <2>. QED
    BY <1>0, <1>1, <1>4, <2>1, GoFacts
<1>7. /\ IsMap(fh_to_ino', Fh, Inos)
      /\ DOMAIN fh_to_ino' = DOMAIN fh_to_ino \cup {fh} /\ fh_to_ino'[fh] = req[t].ino
      /\ \A g \in DOMAIN fh_to_ino : g # fh => fh_to_ino'[g] = fh_to_ino[g]
  <2>1. IsMap(fh_to_ino, Fh, Inos) /\ fh \in Fh /\ req[t].ino \in Inos
    BY <1>0, <1>2, <1>5 DEF TypeOK
  <2>2. IsMap(Put(fh_to_ino, fh, req[t].ino), Fh, Inos)
    BY <2>1, PutMap
  <2>. QED
    BY <1>4, <2>2 DEF Put
<1>8. /\ IsMap(handles', Fh, Handle)
      /\ DOMAIN handles' = DOMAIN handles \cup {fh} /\ handles'[fh] = h
      /\ \A g \in DOMAIN handles : g # fh => handles'[g] = handles[g]
  <2>1. IsMap(handles, Fh, Handle) /\ fh \in Fh /\ h \in Handle
    BY <1>0, <1>2, <1>5 DEF TypeOK
  <2>2. IsMap(Put(handles, fh, h), Fh, Handle)
    BY <2>1, PutMap
  <2>. QED
    BY <1>4, <2>2 DEF Put
<1>9. TypeOK'
  BY <1>0, <1>4, <1>6, <1>7, <1>8 DEF TypeOK
<1>10. CountsOpens'
  <2>1. \A i : Users(i)' = Users(i)
    <3>1. PICK k : req[t].ino = k
      OBVIOUS
    <3>2. fh \notin DOMAIN fh_to_ino /\ fh_to_ino' = Put(fh_to_ino, fh, k)
      BY <1>4, <1>5, <3>1
    <3>3. pc[t] \in Between /\ pc'[t] \notin Between
      BY <1>1, <1>6 DEF Between
    <3>. QED
      BY <1>0, <1>6, <3>1, <3>2, <3>3, UsersMove
  <2>. QED
    BY <1>0, <1>4, <1>9, <2>1, CountsKept
<1>11. Numbering'
  <2>1. Needing' = Needing
    BY <1>1, <1>6, NeedingSame DEF Needing, Early
  <2>. QED
    BY <1>0, <1>4, <1>6, <2>1 DEF Numbering, Early
<1>12. FreshHandles'
  BY <1>0, <1>4, <1>5, <1>6, <1>7, <1>8 DEF FreshHandles
<1>13. OpenExist'
  BY <1>0, <1>1, <1>4, <1>6, <1>7 DEF OpenExist, Opening, Early, Between
<1>14. BackedByEntry'
  BY <1>0, <1>1, <1>2, <1>4, <1>5, <1>6, <1>7, <1>8 DEF BackedByEntry
<1>. QED
  BY <1>9, <1>10, <1>11, <1>12, <1>13, <1>14 DEF Inv

LEMMA PlainInv ==
    ASSUME Inv, NEW t \in Threads, Plain(t)
    PROVE  Inv'
<1>0. TypeOK /\ CountsOpens /\ Numbering /\ FreshHandles /\ OpenExist /\ BackedByEntry
  BY DEF Inv
<1>. DEFINE h == [ino |-> req[t].ino, write |-> req[t].write, backing |-> 0]
<1>1. pc[t] = "plain" /\ req[t] \in Request /\ t \in Needing
  BY <1>0 DEF Plain, TypeOK, Needing, Early
<1>2. req[t].fd \in Where /\ h \in Handle /\ h.backing = 0
  BY <1>1, BoundAssumption DEF Request, Handle, Id
<1>3. /\ open_files' = Put(open_files, next_fh, req[t].fd)
      /\ handles' = Put(handles, next_fh, h)
      /\ next_fh' = next_fh + 1
      /\ Go(t, "idle", req[t])
      /\ UNCHANGED <<layer, enabled, inode_backings, fh_to_ino, backed>>
  BY DEF Plain
<1>. HIDE DEF h
<1>4. /\ next_fh \in Fh /\ next_fh \notin DOMAIN fh_to_ino \cup DOMAIN handles
      /\ next_fh' \in 1 .. MaxFh + 1
  BY <1>0, <1>1, <1>3, NumberLeft
<1>5. /\ pc' \in [Threads -> Label] /\ req' \in [Threads -> Request]
      /\ pc'[t] = "idle"
      /\ \A s \in Threads \ {t} : pc'[s] = pc[s] /\ req'[s] = req[s]
  <2>1. "idle" \in Label
    BY DEF Label
  <2>. QED
    BY <1>0, <1>1, <1>3, <2>1, GoFacts
<1>6. /\ IsMap(handles', Fh, Handle)
      /\ DOMAIN handles' = DOMAIN handles \cup {next_fh} /\ handles'[next_fh] = h
      /\ \A g \in DOMAIN handles : g # next_fh => handles'[g] = handles[g]
  <2>1. IsMap(handles, Fh, Handle) /\ next_fh \in Fh /\ h \in Handle
    BY <1>0, <1>2, <1>4 DEF TypeOK
  <2>2. IsMap(Put(handles, next_fh, h), Fh, Handle)
    BY <2>1, PutMap
  <2>. QED
    BY <1>3, <2>2 DEF Put
<1>7. TypeOK'
  <2>1. IsMap(open_files', Fh, Where)
    <3>1. IsMap(open_files, Fh, Where)
      BY <1>0 DEF TypeOK
    <3>. QED
      BY <1>2, <1>3, <1>4, <3>1, PutMap
  <2>. QED
    BY <1>0, <1>3, <1>4, <1>5, <1>6, <2>1 DEF TypeOK
<1>8. CountsOpens'
  <2>1. \A k : Users(k)' = Users(k)
    BY <1>1, <1>3, <1>5, UsersKept DEF Between
  <2>. QED
    BY <1>0, <1>3, <1>7, <2>1, CountsKept
<1>9. Numbering'
  <2>1. t \notin Needing'
    BY <1>5 DEF Needing, Early
  <2>2. Cardinality(Needing') = Cardinality(Needing) - 1
    BY <1>0, <1>1, <1>5, <2>1, NeedingLess
  <2>3. next_fh' + Cardinality(Needing') <= MaxFh + 1
    BY <1>0, <1>1, <1>3, <2>2, NumberLeft
  <2>. QED
    BY <1>0, <1>5, <2>3 DEF Numbering, Early
<1>10. FreshHandles'
  <2>1. /\ \A g \in DOMAIN fh_to_ino \cup DOMAIN handles : g \in Nat
        /\ \A s \in Threads : req[s].fh \in Nat /\ next_fh \in Nat
    BY <1>0, MapFacts, BoundAssumption DEF TypeOK, Fh, Request
  <2>2. \A g \in DOMAIN fh_to_ino' \cup DOMAIN handles' : g < next_fh'
    BY <1>0, <1>3, <1>6, <2>1 DEF FreshHandles
  <2>3. \A s \in Threads : pc'[s] \in {"recheck", "insert", "record", "release"} =>
           req'[s].fh < next_fh' /\ req'[s].fh # next_fh
    BY <1>0, <1>3, <1>5, <2>1 DEF FreshHandles
  <2>. QED
    BY <1>0, <1>3, <1>5, <1>6, <2>2, <2>3 DEF FreshHandles
<1>11. OpenExist'
  BY <1>0, <1>3, <1>5 DEF OpenExist, Opening, Early, Between
<1>12. BackedByEntry'
  BY <1>0, <1>2, <1>3, <1>4, <1>5, <1>6 DEF BackedByEntry
<1>. QED
  BY <1>7, <1>8, <1>9, <1>10, <1>11, <1>12 DEF Inv

(* A file that does not exist has no entry, because nobody has it open.    *)
LEMMA NoEntryYet ==
    ASSUME TypeOK, CountsOpens, OpenExist, NEW i \in Inos, layer[i] = "none"
    PROVE  i \notin DOMAIN inode_backings
<1>1. HandlesOf(i) = {} /\ Counted(i) = {}
  BY DEF HandlesOf, Counted, OpenExist, Opening, Between
<1>2. Users(i) = 0
  BY <1>1, FS_EmptySet DEF Users
<1>. QED
  BY <1>2, CountsOpensMeans

(* A create takes a number that nobody has, and leaves one for every open  *)
(* in flight.                                                              *)
LEMMA CreateNumber ==
    ASSUME Inv, NEW t \in Threads, NEW i \in Inos, Create(t, i)
    PROVE  /\ next_fh \in Fh /\ next_fh \notin DOMAIN fh_to_ino \cup DOMAIN handles
           /\ next_fh' = next_fh + 1 /\ next_fh' \in 1 .. MaxFh + 1
           /\ pc' = pc /\ req' = req
           /\ Numbering'
<1>0. TypeOK /\ Numbering /\ FreshHandles
  BY DEF Inv
<1>1. Cardinality(Needing) \in Nat /\ Pending \in Nat /\ Cardinality(Needing) <= Pending
  BY <1>0, Finite
<1>2. /\ next_fh + Pending <= MaxFh /\ next_fh' = next_fh + 1 /\ pc' = pc /\ req' = req
      /\ next_fh \in Nat \ {0}
  BY <1>0, BoundAssumption DEF Create, TypeOK
<1>3. next_fh \in Fh /\ next_fh' \in 1 .. MaxFh + 1
  BY <1>1, <1>2, BoundAssumption DEF Fh
<1>4. next_fh \notin DOMAIN fh_to_ino \cup DOMAIN handles
  BY <1>0, <1>2 DEF FreshHandles
<1>5. Needing' = Needing
  BY <1>2 DEF Needing
<1>6. Numbering'
  BY <1>0, <1>1, <1>2, <1>5, BoundAssumption DEF Numbering
<1>. QED
  BY <1>2, <1>3, <1>4, <1>6

LEMMA CreateInv ==
    ASSUME Inv, NEW t \in Threads, NEW i \in Inos, Create(t, i)
    PROVE  Inv'
<1>0. TypeOK /\ CountsOpens /\ Numbering /\ FreshHandles /\ OpenExist /\ BackedByEntry
  BY DEF Inv
<1>1. /\ next_fh \in Fh /\ next_fh \notin DOMAIN fh_to_ino \cup DOMAIN handles
      /\ next_fh' = next_fh + 1 /\ next_fh' \in 1 .. MaxFh + 1
      /\ pc' = pc /\ req' = req
      /\ Numbering'
  BY CreateNumber
<1>2. /\ layer' \in [Inos -> Where] /\ layer'[i] # "none"
      /\ \A j \in Inos : layer[j] # "none" => layer'[j] # "none"
  BY <1>0 DEF Create, TypeOK, Where
<1>3. IsMap(open_files', Fh, Where)
  <2>1. IsMap(open_files, Fh, Where) /\ "upper" \in Where
    BY <1>0 DEF TypeOK, Where
  <2>2. open_files' = Put(open_files, next_fh, "upper")
    BY DEF Create
  <2>. QED
    BY <1>1, <2>1, <2>2, PutMap
<1>4. layer[i] = "none" /\ i \notin DOMAIN inode_backings
  BY <1>0, NoEntryYet DEF Create
<1>5. /\ \A g \in DOMAIN fh_to_ino : fh_to_ino[g] \in Inos
      /\ \A g \in DOMAIN fh_to_ino \cup DOMAIN handles : g \in Nat
      /\ \A s \in Threads : req[s].fh \in Nat /\ req[s].ino \in Inos
      /\ next_fh \in Nat
  BY <1>0, MapFacts, BoundAssumption DEF TypeOK, Fh, Request
<1>6. \A s \in Threads : pc[s] \in {"recheck", "insert", "record", "release"} =>
         req[s].fh < next_fh' /\ req[s].fh # next_fh
  BY <1>0, <1>1, <1>5 DEF FreshHandles
<1>7. CASE CreatePassthrough(t, i)
  <2>. DEFINE h == [ino |-> i, write |-> TRUE, backing |-> NewId]
              e == [id |-> NewId, count |-> 1]
  <2>1. h \in Handle /\ h.ino = i /\ h.backing = NewId /\ NewId \in Id
    BY <1>7 DEF CreatePassthrough, Handle
  <2>2. e \in Backing /\ e.id = NewId /\ e.count = 1
    BY <2>1 DEF Backing
  <2>3. /\ backed' = Put(backed, NewId, "upper")
        /\ inode_backings' = Put(inode_backings, i, e)
        /\ fh_to_ino' = Put(fh_to_ino, next_fh, i)
        /\ handles' = Put(handles, next_fh, h)
        /\ enabled' = enabled
    BY <1>7 DEF CreatePassthrough
  <2>. HIDE DEF h, e
  <2>4. /\ IsMap(handles', Fh, Handle)
        /\ DOMAIN handles' = DOMAIN handles \cup {next_fh} /\ handles'[next_fh] = h
        /\ \A g \in DOMAIN handles : g # next_fh => handles'[g] = handles[g]
    <3>1. IsMap(handles, Fh, Handle) /\ next_fh \in Fh /\ h \in Handle
      BY <1>0, <1>1, <2>1 DEF TypeOK
    <3>2. IsMap(Put(handles, next_fh, h), Fh, Handle)
      BY <3>1, PutMap
    <3>. QED
      BY <2>3, <3>2 DEF Put
  <2>5. /\ IsMap(fh_to_ino', Fh, Inos)
        /\ DOMAIN fh_to_ino' = DOMAIN fh_to_ino \cup {next_fh} /\ fh_to_ino'[next_fh] = i
        /\ \A g \in DOMAIN fh_to_ino : g # next_fh => fh_to_ino'[g] = fh_to_ino[g]
    <3>1. IsMap(fh_to_ino, Fh, Inos) /\ next_fh \in Fh
      BY <1>0, <1>1 DEF TypeOK
    <3>2. IsMap(Put(fh_to_ino, next_fh, i), Fh, Inos)
      BY <3>1, PutMap
    <3>. QED
      BY <2>3, <3>2 DEF Put
  <2>6. /\ IsMap(inode_backings', Inos, Backing)
        /\ DOMAIN inode_backings' = DOMAIN inode_backings \cup {i} /\ inode_backings'[i] = e
        /\ \A j \in DOMAIN inode_backings : j # i => inode_backings'[j] = inode_backings[j]
    <3>1. IsMap(inode_backings, Inos, Backing) /\ e \in Backing
      BY <1>0, <2>2 DEF TypeOK
    <3>2. IsMap(Put(inode_backings, i, e), Inos, Backing)
      BY <3>1, PutMap
    <3>. QED
      BY <2>3, <3>2 DEF Put
  <2>7. IsMap(backed', Id, Where)
    <3>1. IsMap(backed, Id, Where) /\ "upper" \in Where
      BY <1>0 DEF TypeOK, Where
    <3>. QED
      BY <2>1, <2>3, <3>1, PutMap
  <2>8. TypeOK'
    BY <1>0, <1>1, <1>2, <1>3, <2>3, <2>4, <2>5, <2>6, <2>7 DEF TypeOK
  <2>9. CountsOpens'
    <3>1. Users(i)' = Users(i) + 1 /\ \A j : j # i => Users(j)' = Users(j)
      <4>1. PICK f : next_fh = f
        OBVIOUS
      <4>2. f \notin DOMAIN fh_to_ino /\ fh_to_ino' = Put(fh_to_ino, f, i)
        BY <1>1, <2>3, <4>1
      <4>. QED
        BY <1>0, <1>1, <4>2, UsersNew
    <3>2. CountOf(i) = 0 /\ CountOf(i)' = 1 /\ i \in DOMAIN inode_backings'
      BY <1>4, <2>2, <2>6 DEF CountOf
    <3>. QED
      BY <1>0, <2>6, <2>8, <3>1, <3>2, CountsChanged
  <2>10. FreshHandles'
    <3>1. \A g \in DOMAIN fh_to_ino' \cup DOMAIN handles' : g < next_fh'
      BY <1>0, <1>1, <1>5, <2>4, <2>5 DEF FreshHandles
    <3>. QED
      BY <1>0, <1>1, <1>6, <2>4, <2>5, <3>1 DEF FreshHandles
  <2>11. OpenExist'
    BY <1>0, <1>1, <1>2, <1>5, <2>5 DEF OpenExist
  <2>12. BackedByEntry'
    <3>1. \A s \in Threads : pc[s] \in {"insert", "record"} =>
             req[s].ino \in DOMAIN inode_backings /\ req[s].ino # i
      BY <1>0, <1>4, InUse DEF Between
    <3>2. \A g \in DOMAIN handles : handles[g].backing # 0 =>
             handles[g].ino \in DOMAIN inode_backings /\ handles[g].ino # i
      BY <1>0, <1>4, InUse DEF BackedByEntry
    <3>. QED
      BY <1>0, <1>1, <2>1, <2>2, <2>4, <2>5, <2>6, <3>1, <3>2 DEF BackedByEntry
  <2>. QED
    BY <1>1, <2>8, <2>9, <2>10, <2>11, <2>12 DEF Inv
<1>8. CASE CreatePlain(t, i)
  <2>. DEFINE h == [ino |-> i, write |-> TRUE, backing |-> 0]
  <2>1. h \in Handle /\ h.backing = 0
    BY BoundAssumption DEF Handle, Id
  <2>2. /\ handles' = Put(handles, next_fh, h) /\ enabled' = FALSE
        /\ UNCHANGED <<backed, inode_backings, fh_to_ino>>
    BY <1>8 DEF CreatePlain
  <2>. HIDE DEF h
  <2>3. /\ IsMap(handles', Fh, Handle)
        /\ DOMAIN handles' = DOMAIN handles \cup {next_fh} /\ handles'[next_fh] = h
        /\ \A g \in DOMAIN handles : g # next_fh => handles'[g] = handles[g]
    <3>1. IsMap(handles, Fh, Handle) /\ next_fh \in Fh /\ h \in Handle
      BY <1>0, <1>1, <2>1 DEF TypeOK
    <3>2. IsMap(Put(handles, next_fh, h), Fh, Handle)
      BY <3>1, PutMap
    <3>. QED
      BY <2>2, <3>2 DEF Put
  <2>4. TypeOK'
    BY <1>0, <1>1, <1>2, <1>3, <2>2, <2>3 DEF TypeOK
  <2>5. CountsOpens'
    <3>1. \A j : HandlesOf(j)' = HandlesOf(j) /\ Counted(j)' = Counted(j)
      BY <1>1, <2>2 DEF HandlesOf, Counted
    <3>2. \A j : Users(j)' = Users(j)
      BY <3>1 DEF Users
    <3>. QED
      BY <1>0, <2>2, <2>4, <3>2, CountsKept
  <2>6. FreshHandles'
    <3>1. \A g \in DOMAIN fh_to_ino' \cup DOMAIN handles' : g < next_fh'
      BY <1>0, <1>1, <1>5, <2>2, <2>3 DEF FreshHandles
    <3>. QED
      BY <1>0, <1>1, <1>6, <2>2, <2>3, <3>1 DEF FreshHandles
  <2>7. OpenExist'
    BY <1>0, <1>1, <1>2, <1>5, <2>2 DEF OpenExist
  <2>8. BackedByEntry'
    BY <1>0, <1>1, <2>1, <2>2, <2>3 DEF BackedByEntry
  <2>. QED
    BY <1>1, <2>4, <2>5, <2>6, <2>7, <2>8 DEF Inv
<1>. QED
  BY <1>7, <1>8 DEF Create

LEMMA ReleaseInv ==
    ASSUME Inv, NEW t \in Threads, NEW fh \in Fh, Release(t, fh)
    PROVE  Inv'
<1>0. TypeOK /\ CountsOpens /\ Numbering /\ FreshHandles /\ OpenExist /\ BackedByEntry
  BY DEF Inv
<1>. DEFINE q == [ino |-> handles[fh].ino, write |-> handles[fh].write,
                  fd |-> "none", id |-> 0, fh |-> fh]
<1>1. pc[t] = "idle" /\ fh \in DOMAIN handles
  BY DEF Release
<1>2. q \in Request /\ q.fh = fh /\ "release" \in Label
  <2>1. handles[fh] \in Handle
    BY <1>0, <1>1, MapFacts DEF TypeOK
  <2>. QED
    BY <2>1, BoundAssumption DEF Handle, Request, Where, Id, Fh, Label
<1>3. /\ handles' = Drop(handles, fh) /\ Go(t, "release", q)
      /\ UNCHANGED <<layer, enabled, inode_backings, fh_to_ino, open_files, backed, next_fh>>
  BY DEF Release, tables
<1>. HIDE DEF q
<1>4. /\ pc' \in [Threads -> Label] /\ req' \in [Threads -> Request]
      /\ pc'[t] = "release" /\ req'[t] = q
      /\ \A s \in Threads \ {t} : pc'[s] = pc[s] /\ req'[s] = req[s]
  BY <1>0, <1>2, <1>3, GoFacts
<1>5. /\ IsMap(handles', Fh, Handle)
      /\ DOMAIN handles' = DOMAIN handles \ {fh}
      /\ \A g \in DOMAIN handles \ {fh} : handles'[g] = handles[g]
  BY <1>0, <1>3, DropMap DEF TypeOK
<1>6. TypeOK'
  BY <1>0, <1>3, <1>4, <1>5 DEF TypeOK
<1>7. CountsOpens'
  <2>1. \A k : Users(k)' = Users(k)
    BY <1>1, <1>3, <1>4, UsersKept DEF Between
  <2>. QED
    BY <1>0, <1>3, <1>6, <2>1, CountsKept
<1>8. Numbering'
  <2>1. Needing' = Needing
    BY <1>1, <1>4, NeedingSame DEF Needing, Early
  <2>. QED
    BY <1>0, <1>3, <1>4, <2>1 DEF Numbering, Early
<1>9. FreshHandles'
  BY <1>0, <1>1, <1>2, <1>3, <1>4, <1>5 DEF FreshHandles
<1>10. OpenExist'
  BY <1>0, <1>3, <1>4 DEF OpenExist, Opening, Early, Between
<1>11. BackedByEntry'
  BY <1>0, <1>3, <1>4, <1>5 DEF BackedByEntry
<1>. QED
  BY <1>6, <1>7, <1>8, <1>9, <1>10, <1>11 DEF Inv

(* One user less of inode k, which has an entry: the entry goes with its   *)
(* last user, and no other changes.                                        *)
LEMMA DroppedFacts ==
    ASSUME TypeOK, NEW k \in Inos, k \in DOMAIN inode_backings, inode_backings[k].count > 0
    PROVE  /\ IsMap(Dropped(k), Inos, Backing)
           /\ DOMAIN Dropped(k) = IF inode_backings[k].count = 1
                                  THEN DOMAIN inode_backings \ {k} ELSE DOMAIN inode_backings
           /\ \A i \in DOMAIN inode_backings \ {k} : Dropped(k)[i] = inode_backings[i]
           /\ inode_backings[k].count # 1 =>
                 /\ Dropped(k)[k].count = inode_backings[k].count - 1
                 /\ Dropped(k)[k].id = inode_backings[k].id
<1>. DEFINE b == inode_backings[k]
            c == [b EXCEPT !.count = @ - 1]
<1>0. IsMap(inode_backings, Inos, Backing)
  BY DEF TypeOK
<1>1. CASE b.count = 1
  <2>1. Dropped(k) = Drop(inode_backings, k)
    BY <1>1 DEF Dropped
  <2>2. /\ IsMap(Drop(inode_backings, k), Inos, Backing)
        /\ DOMAIN Drop(inode_backings, k) = DOMAIN inode_backings \ {k}
        /\ \A i \in DOMAIN inode_backings \ {k} : Drop(inode_backings, k)[i] = inode_backings[i]
    BY <1>0, DropMap, Zenon
  <2>. QED
    BY <1>1, <2>1, <2>2
<1>2. CASE b.count # 1
  <2>1. b \in Backing /\ b.count \in Nat
    BY EntryFacts
  <2>2. c \in Backing /\ c.id = b.id /\ c.count = b.count - 1
    BY <2>1 DEF Backing
  <2>3. Dropped(k) = [inode_backings EXCEPT ![k] = c]
    BY <1>2 DEF Dropped
  <2>. HIDE DEF c
  <2>4. /\ IsMap([inode_backings EXCEPT ![k] = c], Inos, Backing)
        /\ DOMAIN [inode_backings EXCEPT ![k] = c] = DOMAIN inode_backings
        /\ [inode_backings EXCEPT ![k] = c][k] = c
        /\ \A y \in DOMAIN inode_backings : y # k =>
              [inode_backings EXCEPT ![k] = c][y] = inode_backings[y]
    BY <1>0, <2>2, UpdateMap
  <2>. QED
    BY <1>2, <2>2, <2>3, <2>4
<1>. QED
  BY <1>1, <1>2

LEMMA ReleaseBackingInv ==
    ASSUME Inv, NEW t \in Threads, ReleaseBacking(t)
    PROVE  Inv'
<1>0. TypeOK /\ CountsOpens /\ Numbering /\ FreshHandles /\ OpenExist /\ BackedByEntry
  BY DEF Inv
<1>1. PICK fh : req[t].fh = fh
  OBVIOUS
<1>2. /\ pc[t] = "release" /\ fh \notin DOMAIN handles /\ req[t] \in Request
      /\ fh_to_ino' = Drop(fh_to_ino, fh)
      /\ UNCHANGED <<layer, enabled, inode_backings, open_files, backed, next_fh, handles>>
  BY <1>0, <1>1 DEF ReleaseBacking, FreshHandles, TypeOK
<1>3. fh \in DOMAIN fh_to_ino => fh_to_ino[fh] \in Inos
  BY <1>0, MapFacts DEF TypeOK
<1>4. /\ pc' \in [Threads -> Label] /\ req' \in [Threads -> Request]
      /\ \A s \in Threads \ {t} : pc'[s] = pc[s] /\ req'[s] = req[s]
      /\ IF fh \in DOMAIN fh_to_ino
         THEN pc'[t] = "uncount" /\ req'[t].ino = fh_to_ino[fh]
         ELSE pc'[t] = "close"
  <2>1. CASE fh \in DOMAIN fh_to_ino
    <3>. DEFINE q == [req[t] EXCEPT !.ino = fh_to_ino[fh]]
    <3>1. q \in Request /\ q.ino = fh_to_ino[fh] /\ "uncount" \in Label
      BY <1>2, <1>3, <2>1 DEF Request, Label
    <3>2. Go(t, "uncount", q)
      BY <1>1, <2>1 DEF ReleaseBacking
    <3>. HIDE DEF q
    <3>. QED
      BY <1>0, <2>1, <3>1, <3>2, GoFacts
  <2>2. CASE fh \notin DOMAIN fh_to_ino
    <3>1. Go(t, "close", req[t]) /\ "close" \in Label
      BY <1>1, <2>2 DEF ReleaseBacking, Label
    <3>. QED
      BY <1>0, <1>2, <2>2, <3>1, GoFacts
  <2>. QED
    BY <2>1, <2>2
<1>5. /\ IsMap(fh_to_ino', Fh, Inos)
      /\ DOMAIN fh_to_ino' = DOMAIN fh_to_ino \ {fh}
      /\ \A g \in DOMAIN fh_to_ino \ {fh} : fh_to_ino'[g] = fh_to_ino[g]
  BY <1>0, <1>2, DropMap DEF TypeOK
<1>6. TypeOK'
  BY <1>0, <1>2, <1>4, <1>5 DEF TypeOK
<1>7. CountsOpens'
  <2>1. \A i : Users(i)' = Users(i)
    <3>1. CASE fh \in DOMAIN fh_to_ino
      <4>1. PICK k : fh_to_ino[fh] = k
        OBVIOUS
      <4>2. pc[t] \notin Between /\ pc'[t] = "uncount" /\ req'[t].ino = k
        BY <1>2, <1>4, <3>1, <4>1 DEF Between
      <4>. QED
        BY <1>0, <1>2, <1>4, <3>1, <4>1, <4>2, UsersBack
    <3>2. CASE fh \notin DOMAIN fh_to_ino
      <4>1. \A i : HandlesOf(i)' = HandlesOf(i) /\ Counted(i)' = Counted(i)
        BY <1>2, <1>4, <1>5, <3>2 DEF HandlesOf, Counted
      <4>. QED
        BY <4>1 DEF Users
    <3>. QED
      BY <3>1, <3>2
  <2>. QED
    BY <1>0, <1>2, <1>6, <2>1, CountsKept
<1>8. Numbering'
  <2>1. Needing' = Needing
    BY <1>2, <1>4, NeedingSame DEF Needing, Early
  <2>. QED
    BY <1>0, <1>2, <1>4, <2>1 DEF Numbering, Early
<1>9. FreshHandles'
  BY <1>0, <1>2, <1>4, <1>5 DEF FreshHandles
<1>10. OpenExist'
  BY <1>0, <1>2, <1>4, <1>5 DEF OpenExist, Opening, Early, Between
<1>11. BackedByEntry'
  BY <1>0, <1>2, <1>4, <1>5 DEF BackedByEntry
<1>. QED
  BY <1>6, <1>7, <1>8, <1>9, <1>10, <1>11 DEF Inv

LEMMA UncountInv ==
    ASSUME Inv, NEW t \in Threads, Uncount(t)
    PROVE  Inv'
<1>0. TypeOK /\ CountsOpens /\ Numbering /\ FreshHandles /\ OpenExist /\ BackedByEntry
  BY DEF Inv
<1>1. PICK k \in Inos : req[t].ino = k
  BY <1>0 DEF TypeOK, Request
<1>2. /\ pc[t] = "uncount" /\ req[t] \in Request
      /\ inode_backings' = Dropped(k)
      /\ UNCHANGED <<layer, enabled, fh_to_ino, open_files, backed, next_fh, handles>>
  BY <1>0, <1>1 DEF Uncount, TypeOK
<1>3. /\ pc' \in [Threads -> Label] /\ req' \in [Threads -> Request]
      /\ pc'[t] = "close"
      /\ \A s \in Threads \ {t} : pc'[s] = pc[s] /\ req'[s] = req[s]
  <2>1. "close" \in Label
    BY DEF Label
  <2>. QED
    BY <1>0, <1>2, <2>1, GoFacts DEF Uncount
<1>4. /\ Users(k)' = Users(k) - 1 /\ Users(k) > 0
      /\ \A i : i # k => Users(i)' = Users(i)
  BY <1>0, <1>1, <1>2, <1>3, UsersLeave DEF Between
<1>5. /\ k \in DOMAIN inode_backings /\ inode_backings[k].count = CountOf(k)
      /\ CountOf(k) = Users(k) /\ Users(k) \in Nat
  BY <1>0, <1>4, CountsOpensMeans, UsersNat DEF CountOf
<1>6. /\ IsMap(inode_backings', Inos, Backing)
      /\ DOMAIN inode_backings' = IF inode_backings[k].count = 1
                                  THEN DOMAIN inode_backings \ {k} ELSE DOMAIN inode_backings
      /\ \A i \in DOMAIN inode_backings \ {k} : inode_backings'[i] = inode_backings[i]
      /\ inode_backings[k].count # 1 =>
            /\ inode_backings'[k].count = inode_backings[k].count - 1
            /\ inode_backings'[k].id = inode_backings[k].id
  BY <1>0, <1>2, <1>4, <1>5, DroppedFacts
<1>7. TypeOK'
  BY <1>0, <1>2, <1>3, <1>6 DEF TypeOK
<1>8. CountsOpens'
  <2>1. CountOf(k)' = CountOf(k) + (-1) /\ Users(k)' = Users(k) + (-1)
    BY <1>4, <1>5, <1>6 DEF CountOf
  <2>2. k \in DOMAIN inode_backings' <=> CountOf(k)' > 0
    BY <1>4, <1>5, <1>6 DEF CountOf
  <2>3. \A i \in Inos \ {k} :
           /\ i \in DOMAIN inode_backings' <=> i \in DOMAIN inode_backings
           /\ i \in DOMAIN inode_backings => inode_backings'[i] = inode_backings[i]
    BY <1>6
  <2>. QED
    BY <1>0, <1>4, <1>7, <2>1, <2>2, <2>3, CountsChanged
<1>9. Numbering'
  <2>1. Needing' = Needing
    BY <1>2, <1>3, NeedingSame DEF Needing, Early
  <2>. QED
    BY <1>0, <1>2, <1>3, <2>1 DEF Numbering, Early
<1>10. FreshHandles' /\ OpenExist'
  BY <1>0, <1>2, <1>3 DEF FreshHandles, OpenExist, Opening, Early, Between
<1>11. BackedByEntry'
  <2>1. \A i \in DOMAIN inode_backings : (i = k /\ inode_backings[k].count = 1)
                                         \/ inode_backings'[i].id = inode_backings[i].id
    BY <1>6
  <2>2. \A s \in Threads : pc[s] \in {"insert", "record"} =>
           /\ req[s].ino \in DOMAIN inode_backings
           /\ inode_backings[k].count = 1 => req[s].ino # k
    BY <1>0, <1>1, <1>2, <1>5, InUse, OnlyUser DEF Between
  <2>3. \A h \in DOMAIN handles : handles[h].backing # 0 =>
           /\ h \in DOMAIN fh_to_ino /\ handles[h].ino \in DOMAIN inode_backings
           /\ inode_backings[k].count = 1 => handles[h].ino # k
    BY <1>0, <1>1, <1>2, <1>5, InUse, OnlyUser DEF BackedByEntry
  <2>. QED
    BY <1>0, <1>2, <1>3, <2>1, <2>2, <2>3 DEF BackedByEntry
<1>. QED
  BY <1>7, <1>8, <1>9, <1>10, <1>11 DEF Inv

LEMMA ReleaseFileInv ==
    ASSUME Inv, NEW t \in Threads, ReleaseFile(t)
    PROVE  Inv'
<1>0. TypeOK /\ CountsOpens /\ Numbering /\ FreshHandles /\ OpenExist /\ BackedByEntry
  BY DEF Inv
<1>1. /\ pc[t] = "close" /\ req[t] \in Request /\ "idle" \in Label
      /\ open_files' = Drop(open_files, req[t].fh)
      /\ UNCHANGED <<layer, enabled, inode_backings, fh_to_ino, backed, next_fh, handles>>
  BY <1>0 DEF ReleaseFile, TypeOK, Label
<1>2. /\ pc' \in [Threads -> Label] /\ req' \in [Threads -> Request]
      /\ pc'[t] = "idle"
      /\ \A s \in Threads \ {t} : pc'[s] = pc[s] /\ req'[s] = req[s]
  BY <1>0, <1>1, GoFacts DEF ReleaseFile
<1>3. TypeOK'
  <2>1. IsMap(open_files', Fh, Where)
    BY <1>0, <1>1, DropMap DEF TypeOK
  <2>. QED
    BY <1>0, <1>1, <1>2, <2>1 DEF TypeOK
<1>4. CountsOpens'
  <2>1. \A k : Users(k)' = Users(k)
    BY <1>1, <1>2, UsersKept DEF Between
  <2>. QED
    BY <1>0, <1>1, <1>3, <2>1, CountsKept
<1>5. Numbering'
  <2>1. Needing' = Needing
    BY <1>1, <1>2, NeedingSame DEF Needing, Early
  <2>. QED
    BY <1>0, <1>1, <1>2, <2>1 DEF Numbering, Early
<1>6. FreshHandles' /\ OpenExist' /\ BackedByEntry'
  BY <1>0, <1>1, <1>2 DEF FreshHandles, OpenExist, BackedByEntry, Opening, Early, Between
<1>. QED
  BY <1>3, <1>4, <1>5, <1>6 DEF Inv

-----------------------------------------------------------------------------
(* The theorems. *)

LEMMA NextInv == Inv /\ [Next]_vars => Inv'
<1>. SUFFICES ASSUME Inv, [Next]_vars PROVE Inv'
  OBVIOUS
<1>1. CASE UNCHANGED vars
  <2>1. /\ Needing' = Needing
        /\ \A i : HandlesOf(i)' = HandlesOf(i) /\ Counted(i)' = Counted(i)
    BY <1>1 DEF vars, Needing, HandlesOf, Counted
  <2>2. TypeOK' /\ Numbering' /\ FreshHandles' /\ OpenExist' /\ BackedByEntry'
    BY <1>1, <2>1 DEF vars, Inv, TypeOK, Numbering, FreshHandles, OpenExist, BackedByEntry
  <2>3. CountsOpens'
    BY <1>1, <2>1 DEF vars, Inv, CountsOpens
  <2>. QED
    BY <2>2, <2>3 DEF Inv
<1>2. ASSUME NEW t \in Threads, Serve(t) PROVE Inv'
  BY <1>2, OpenSlowInv, MaybeInv, CheckInv, OpenBackingInv, RecheckInv, InsertInv,
     RecordInv, PlainInv, ReleaseBackingInv, UncountInv, ReleaseFileInv DEF Serve
<1>. QED
  BY <1>1, <1>2, OpenInv, CreateInv, ReleaseInv DEF Next

LEMMA InvInductive == Spec => []Inv
BY InitInv, NextInv, PTL DEF Spec

\* The tables, requests and handles of open, create and release stay within
\* their types: no handle number is taken past the bound, and no count of an
\* entry of inode_backings falls below zero.
THEOREM TypeCorrect == Spec => []TypeOK
<1>1. Inv => TypeOK
  BY DEF Inv
<1>. QED
  BY <1>1, InvInductive, PTL

\* inode_backings counts exactly the handles that release will uncount, the
\* opens about to become such handles and the releases about to uncount one,
\* whatever the number of threads between the two checks of an open and the
\* two locks of a release.
THEOREM CountsOpensCorrect == Spec => []CountsOpens
<1>1. Inv => CountsOpens
  BY DEF Inv
<1>. QED
  BY <1>1, InvInductive, PTL

\* Two handles of an inode that are open at once with a backing have the same
\* one, as the kernel requires.
THEOREM SameBackingCorrect == Spec => []SameBacking
<1>1. Inv => SameBacking
  BY DEF Inv, BackedByEntry, SameBacking
<1>. QED
  BY <1>1, InvInductive, PTL
=============================================================================
