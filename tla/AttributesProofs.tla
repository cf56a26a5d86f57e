-------------------------- MODULE AttributesProofs --------------------------
(***************************************************************************)
(* Proofs about Attributes, for ids of every width, every set of mode bits *)
(* and every set of mounts whose options have the types that the code      *)
(* parses them into.                                                       *)
(***************************************************************************)
EXTENDS Attributes, SequenceTheorems, WellFoundedInduction, TLAPS

-----------------------------------------------------------------------------
(* Ids: find_mapping and what it finds. *)

(* The first range that has an id is one that has it.                      *)
LEMMA MinNat ==
    ASSUME NEW S, S \subseteq Nat, S # {}
    PROVE  Min(S) \in S
<1>1. PICK x \in S : \A y \in S : ~(<<y, x>> \in OpToRel(<, Nat))
  BY WFMin, NatLessThanWellFounded
<1>2. ASSUME NEW y \in S PROVE x <= y
  <2>1. x \in Nat /\ y \in Nat
    OBVIOUS
  <2>2. y < x => <<y, x>> \in OpToRel(<, Nat)
    BY <2>1 DEF OpToRel
  <2>3. ~(y < x)
    BY <1>1, <2>2, Zenon
  <2>. QED
    BY <2>1, <2>3
<1>. QED
  BY <1>2 DEF Min

(* Addition of ids wraps around at their width.                            *)
LEMMA ModId ==
    /\ \A x \in Int : x % Wrap \in Id
    /\ \A x \in Id : x % Wrap = x
BY WidthAssumption DEF Id

LEMMA IdFacts == Id \subseteq Nat /\ 0 \in Id /\ MaxId \in Id /\ Overflow \in Id
BY WidthAssumption DEF Id, MaxId, Overflow

(* What SetupAssumption says of the mount.                                 *)
LEMMA SetupFacts ==
    ASSUME setup \in Setups
    PROVE  IsSetup(setup)
BY SetupAssumption

(* parse_mappings gives ranges of ids.                                     *)
LEMMA Ranges ==
    ASSUME NEW parts \in Seq(Id), Len(parts) % 3 = 0
    PROVE  LET R == parse_mappings(parts)
           IN  /\ DOMAIN R = 1 .. Len(parts) \div 3
               /\ DOMAIN R \subseteq Nat
               /\ \A i \in DOMAIN R : R[i].host \in Id /\ R[i].to \in Id /\ R[i].len \in Id
<1>. DEFINE R == parse_mappings(parts)
<1>1. DOMAIN R = 1 .. Len(parts) \div 3 /\ Len(parts) \in Nat
  BY DEF parse_mappings
<1>2. ASSUME NEW i \in 1 .. Len(parts) \div 3
      PROVE  /\ 3*i - 2 \in 1 .. Len(parts) /\ 3*i - 1 \in 1 .. Len(parts)
             /\ 3*i \in 1 .. Len(parts)
  BY <1>1, <1>2
<1>3. \A j \in 1 .. Len(parts) : parts[j] \in Id
  OBVIOUS
<1>. QED
  BY <1>1, <1>2, <1>3 DEF parse_mappings

(* find_mapping without the squash options gives an id for an id.          *)
LEMMA ThroughId ==
    ASSUME NEW parts \in Seq(Id), Len(parts) % 3 = 0, NEW id \in Id, NEW direct \in BOOLEAN
    PROVE  Through(id, parse_mappings(parts), direct, Overflow) \in Id
<1>. DEFINE R == parse_mappings(parts)
            hits == {i \in DOMAIN R : Covers(R[i], direct, id)}
<1>1. /\ DOMAIN R \subseteq Nat
      /\ \A i \in DOMAIN R : R[i].host \in Id /\ R[i].to \in Id /\ R[i].len \in Id
  BY Ranges
<1>2. ASSUME hits # {} PROVE Shift(R[Min(hits)], direct, id) \in Id
  <2>1. PICK k \in DOMAIN R : k = Min(hits)
    BY <1>1, <1>2, MinNat
  <2>. HIDE DEF hits
  <2>2. PICK m : m = R[k]
    OBVIOUS
  <2>3. m.host \in Int /\ m.to \in Int
    <3>. HIDE DEF R
    <3>1. m.host \in Id /\ m.to \in Id
      BY <1>1, <2>1, <2>2
    <3>2. \A x \in Id : x \in Int
      BY DEF Id
    <3>. QED
      BY <3>1, <3>2
  <2>4. Into(m, direct) + (id - From(m, direct)) \in Int
    BY <2>3, IdFacts DEF Into, From
  <2>. QED
    BY <2>1, <2>2, <2>4, ModId DEF Shift
<1>. QED
  BY <1>2, IdFacts DEF Through

LEMMA FindId ==
    ASSUME IsSetup(setup), NEW f \in Field, NEW id \in Id, NEW direct \in BOOLEAN
    PROVE  find_mapping(f, id, direct) \in Id
<1>1. /\ setup.mapping[f] \in Seq(Id) /\ Len(setup.mapping[f]) % 3 = 0
      /\ setup.squash_to[f] \in Id \cup {NoId} /\ setup.squash_to_root \in BOOLEAN
  BY DEF IsSetup
<1>. QED
  BY <1>1, ThroughId, IdFacts DEF find_mapping

(* The ids of a request that map one to one come back as they were: what   *)
(* setattr stores for the user's id is shown as that id.                   *)
LEMMA RoundTrip ==
    ASSUME IsSetup(setup), NEW f \in Field, NEW id \in Id, OneToOne(f, id)
    PROVE  find_mapping(f, map_id(f, id), TRUE) = id
<1>. DEFINE parts == setup.mapping[f]
            R == parse_mappings(parts)
            hits == {i \in DOMAIN R : Covers(R[i], FALSE, id)}
            k == Min(hits)
            y == Shift(R[k], FALSE, id)
            back == {i \in DOMAIN R : Covers(R[i], TRUE, y)}
<1>1. /\ parts \in Seq(Id) /\ Len(parts) % 3 = 0
      /\ DOMAIN R \subseteq Nat
      /\ \A i \in DOMAIN R : R[i].host \in Id /\ R[i].to \in Id /\ R[i].len \in Id
  <2>1. parts \in Seq(Id) /\ Len(parts) % 3 = 0
    BY DEF IsSetup
  <2>. QED
    BY <2>1, Ranges
<1>2. setup.squash_to[f] = NoId /\ ~setup.squash_to_root
  BY DEF OneToOne
<1>3. CASE R = << >>
  BY <1>2, <1>3 DEF map_id, find_mapping, Through
<1>4. CASE R # << >>
  <2>1. hits # {} /\ hits \subseteq Nat
    BY <1>1, <1>4 DEF OneToOne
  <2>2. k \in DOMAIN R /\ Covers(R[k], FALSE, id)
    BY <2>1, MinNat
  <2>3. /\ R[k].host \in Nat /\ R[k].to \in Nat /\ R[k].len \in Nat
        /\ id \in Nat /\ id >= R[k].to /\ id - R[k].to < R[k].len
        /\ R[k].host + R[k].len - 1 <= MaxId
    BY <1>1, <2>2, IdFacts DEF OneToOne, Covers, From
  <2>4. y = R[k].host + (id - R[k].to) /\ y \in Id
    <3>1. R[k].host + (id - R[k].to) \in Id
      BY <2>3, WidthAssumption DEF Id, MaxId
    <3>. QED
      BY <3>1, ModId DEF Shift, Into, From
  <2>. HIDE DEF k, y
  <2>5. Covers(R[k], TRUE, y)
    BY <2>3, <2>4 DEF Covers, From
  <2>6. back = {k}
    <3>1. \A i \in DOMAIN R : i # k => ~Covers(R[i], TRUE, y)
      BY <2>2, <2>4, <2>5 DEF OneToOne
    <3>. QED
      BY <2>2, <2>5, <3>1
  <2>7. Min(back) = k
    BY <1>1, <2>6, MinNat
  <2>8. Shift(R[k], TRUE, y) = id
    <3>1. R[k].to + (y - R[k].host) = id
      BY <2>3, <2>4
    <3>. QED
      BY <3>1, ModId DEF Shift, Into, From
  <2>9. map_id(f, id) = y
    BY <1>2, <1>4, <2>1 DEF map_id, find_mapping, Through, y, k
  <2>10. find_mapping(f, y, TRUE) = Shift(R[Min(back)], TRUE, y)
    BY <1>2, <1>4, <2>6 DEF find_mapping, Through
  <2>. QED
    BY <2>7, <2>8, <2>9, <2>10
<1>. QED
  BY <1>3, <1>4

LEMMA MapIdType ==
    ASSUME IsSetup(setup), NEW f \in Field, NEW id \in Id
    PROVE  map_id(f, id) \in Id
BY FindId DEF map_id

-----------------------------------------------------------------------------
(* Names of attributes. *)

LEMMA EncIsPiece == <<Enc>> \in Seq(Pieces) /\ Len(<<Enc>>) = 1 /\ <<Enc>>[1] = Enc
<1>1. Enc \in Pieces
  BY DEF Pieces
<1>. QED
  BY <1>1

LEMMA NameLength ==
    ASSUME NEW n, IsName(n)
    PROVE  n \in Seq(Pieces) /\ Len(n) \in Nat /\ Len(n) >= 1 /\ Len(n) <= MaxName
<1>1. n \in Seq(Pieces)
  BY DEF IsName
<1>2. Len(n) \in Nat /\ Len(n) >= 1 /\ Len(n) <= MaxName
  <2>1. PICK k : k = Len(n)
    OBVIOUS
  <2>2. k \in 1 .. 3
    BY <2>1 DEF IsName, MaxName
  <2>3. k \in Nat /\ k >= 1 /\ k <= 3
    BY <2>2
  <2>. QED
    BY <2>1, <2>3 DEF MaxName
<1>. QED
  BY <1>1, <1>2

(* A name with the override prefix in front is a name with one piece more. *)
LEMMA Prefixed ==
    ASSUME NEW n, IsName(n)
    PROVE  /\ <<Enc>> \o n \in Seq(Pieces) /\ Len(<<Enc>> \o n) = Len(n) + 1
           /\ (<<Enc>> \o n)[1] = Enc /\ (<<Enc>> \o n)[2] = n[1]
           /\ Tail(<<Enc>> \o n) = n
<1>1. n \in Seq(Pieces) /\ Len(n) >= 1 /\ Len(n) \in Nat
  BY NameLength
<1>2. <<Enc>> \in Seq(Pieces) /\ Len(<<Enc>>) = 1 /\ <<Enc>>[1] = Enc
  BY EncIsPiece
<1>. DEFINE e == <<Enc>> \o n
<1>3. e \in Seq(Pieces) /\ Len(e) = Len(n) + 1
  BY <1>1, <1>2, ConcatProperties
<1>4. \A i \in 1 .. Len(n) + 1 : e[i] = IF i <= 1 THEN Enc ELSE n[i - 1]
  BY <1>1, <1>2, ConcatProperties
<1>5. e[1] = Enc /\ e[2] = n[1]
  BY <1>1, <1>4
<1>6. Tail(e) = n
  <2>. HIDE DEF e
  <2>1. Tail(e) \in Seq(Pieces) /\ Len(Tail(e)) = Len(n)
    BY <1>1, <1>3, HeadTailProperties
  <2>2. \A i \in 1 .. Len(n) : Tail(e)[i] = n[i]
    BY <1>1, <1>3, <1>4, <2>1, HeadTailProperties
  <2>. QED
    BY <1>1, <2>1, <2>2, SeqEqual
<1>. QED
  BY <1>3, <1>5, <1>6

(* A name that begins with the override prefix is that prefix before its   *)
(* tail.                                                                   *)
LEMMA Unprefixed ==
    ASSUME NEW x, IsName(x), x[1] = Enc
    PROVE  x = <<Enc>> \o Tail(x) /\ Len(Tail(x)) + 1 = Len(x)
<1>1. x \in Seq(Pieces) /\ Len(x) >= 1 /\ Len(x) \in Nat /\ <<Enc>> \in Seq(Pieces)
  BY NameLength, EncIsPiece
<1>2. /\ Tail(x) \in Seq(Pieces) /\ Len(Tail(x)) = Len(x) - 1
      /\ \A i \in 1 .. Len(Tail(x)) : Tail(x)[i] = x[i + 1]
  BY <1>1, HeadTailProperties
<1>. DEFINE e == <<Enc>> \o Tail(x)
<1>3. /\ e \in Seq(Pieces) /\ Len(e) = Len(x)
      /\ \A i \in 1 .. Len(x) : e[i] = IF i <= 1 THEN Enc ELSE Tail(x)[i - 1]
  BY <1>1, <1>2, ConcatProperties
<1>. HIDE DEF e
<1>4. \A i \in 1 .. Len(x) : e[i] = x[i]
  BY <1>1, <1>2, <1>3
<1>5. e = x
  BY <1>1, <1>3, <1>4, SeqEqual
<1>. QED
  BY <1>1, <1>2, <1>5 DEF e

(* A name is stored as itself or, in containers mode, with the prefix: the *)
(* stored name is a name, and not one of the overlay's own.                *)
LEMMA Encoded ==
    ASSUME NEW n, IsName(n), NEW mode, NEW e \in encode_xattr_name(n, mode)
    PROVE  /\ IsName(e) /\ e[1] \notin Internal
           /\ \/ e = n /\ can_access_xattr(n, mode)
              \/ e = <<Enc>> \o n /\ ~can_access_xattr(n, mode)
<1>1. CASE can_access_xattr(n, mode)
  BY <1>1 DEF encode_xattr_name, can_access_xattr
<1>2. CASE ~can_access_xattr(n, mode)
  <2>1. e = <<Enc>> \o n /\ Len(n) + 1 <= MaxName
    BY <1>2 DEF encode_xattr_name, IsName, MaxName
  <2>2. IsName(e) /\ e[1] = Enc
    BY <2>1, Prefixed DEF IsName, MaxName
  <2>. QED
    BY <1>2, <2>1, <2>2 DEF Internal, Enc
<1>. QED
  BY <1>1, <1>2

(* A user's name is never stored under the name of an override attribute.  *)
LEMMA NotAStatName ==
    ASSUME NEW n, IsUserName(n), NEW mode, NEW e \in encode_xattr_name(n, mode)
    PROVE  e \notin StatNames
<1>1. CASE e = n
  BY <1>1 DEF IsUserName
<1>2. CASE e = <<Enc>> \o n /\ ~can_access_xattr(n, mode)
  <2>1. e[1] = Enc /\ e[2] = n[1]
    BY <1>2, Prefixed DEF IsUserName
  <2>2. n[1] # "stat"
    BY <1>2 DEF can_access_xattr, Internal, Security
  <2>. QED
    BY <2>1, <2>2 DEF StatNames, ContainersStat, PrivilegedStat, UserStat, Enc, Security
<1>. QED
  BY <1>1, <1>2, Encoded DEF IsUserName

(* Two users' names are never stored under the same name.                  *)
LEMMA EncodeInjective ==
    ASSUME NEW m, IsUserName(m), NEW n, IsUserName(n), NEW mode,
           NEW e \in encode_xattr_name(m, mode), e \in encode_xattr_name(n, mode)
    PROVE  m = n
<1>1. /\ e = m \/ e = <<Enc>> \o m
      /\ e = n \/ e = <<Enc>> \o n
  BY Encoded DEF IsUserName
<1>2. /\ m[1] # Enc /\ (<<Enc>> \o m)[1] = Enc /\ Tail(<<Enc>> \o m) = m
      /\ n[1] # Enc /\ (<<Enc>> \o n)[1] = Enc /\ Tail(<<Enc>> \o n) = n
  BY Prefixed DEF IsUserName
<1>. QED
  BY <1>1, <1>2

LEMMA StatNameFacts ==
    ASSUME NEW mode
    PROVE  /\ StatName(mode) \in StatNames /\ IsName(StatName(mode))
           /\ StatName(mode)[1] \notin Internal
<1>1. \A a, b \in Pieces : IsName(<<a, b>>) /\ <<a, b>>[1] = a
  BY DEF IsName, MaxName
<1>2. StatName(mode) = <<Security, "fuseoverlayfs.override_stat">> \/ StatName(mode) = <<Enc, "stat">>
  BY DEF StatName, ContainersStat, PrivilegedStat
<1>3. StatName(mode) \in StatNames
  BY <1>2 DEF StatNames, ContainersStat, PrivilegedStat
<1>4. Enc \notin Internal /\ Security \notin Internal
  BY DEF Internal, Enc, Security
<1>5. {Enc, Security, "stat", "fuseoverlayfs.override_stat"} \subseteq Pieces
  BY DEF Pieces
<1>. QED
  BY <1>1, <1>2, <1>3, <1>4, <1>5

-----------------------------------------------------------------------------
(* Files: what copy-up and the handlers put on the upper layer. *)

\* A file as the overlay writes it: none of its attributes is a mark.
Clean(o) == \A n \in DOMAIN o.xa : n[1] \notin Internal
Good(o) == IsFile(o) /\ Clean(o)

\* The step leaves o on the upper layer, and nothing else changes.
Writes(o) == disk' = [disk EXCEPT ![0] = o] /\ setup' = setup

LEMMA WritesFacts ==
    ASSUME TypeOK, NEW o, Writes(o)
    PROVE  disk'[0] = o /\ disk'[1] = disk[1] /\ DOMAIN disk' = 0 .. 1
BY DEF TypeOK, Writes

LEMMA OwnedType ==
    ASSUME IsSetup(setup), NEW id \in [Field -> Id]
    PROVE  Owned(id) \in [Field -> Id]
BY DEF Owned, IsSetup

(* copy_xattr takes no mark along.                                         *)
LEMMA CopyupGood ==
    ASSUME IsSetup(setup), NEW o, IsFile(o)
    PROVE  Good(copyup(o)) /\ copyup(o).kind = o.kind
<1>. DEFINE c == copyup(o)
<1>1. /\ DOMAIN c = {"kind", "id", "mode", "xa"}
      /\ c.kind = o.kind /\ c.id = Owned(o.id) /\ c.mode = CopiedMode(o)
      /\ c.xa = IF o.kind = "lnk" THEN EmptyMap ELSE copy_xattr(o)
  BY DEF copyup
<1>2. c.kind \in Kind /\ c.id \in [Field -> Id]
  BY <1>1, OwnedType DEF IsFile
<1>3. c.mode \subseteq Bits
  BY <1>1, BitsAssumption DEF CopiedMode, D755, IsFile
<1>4. \A n \in DOMAIN c.xa :
         n \in DOMAIN o.xa /\ n[1] \notin Internal /\ c.xa[n] = o.xa[n]
  BY <1>1 DEF EmptyMap, copy_xattr
<1>. QED
  BY <1>1, <1>2, <1>3, <1>4 DEF IsFile, Good, Clean

LEMMA FileIsThere ==
    ASSUME NEW o, IsFile(o)
    PROVE  o # Absent
BY DEF IsFile, Absent, Kind

(* The node's file, and the file that a handler changes.                   *)
LEMMA UpGood ==
    ASSUME TypeOK, MarksAreOurs, Exists
    PROVE  /\ Good(Up) /\ IsFile(disk[Top]) /\ Top \in 0 .. 1
           /\ Up.kind = disk[Top].kind
           /\ Top = 0 => Up = disk[0]
           /\ Top = 1 => disk[0] = Absent /\ IsFile(disk[1]) /\ Up = copyup(disk[1])
<1>1. IsSetup(setup)
  BY SetupFacts DEF TypeOK
<1>2. CASE disk[0] # Absent
  BY <1>2 DEF Up, Top, TypeOK, MarksAreOurs, Good, Clean
<1>3. CASE disk[0] = Absent
  <2>1. IsFile(disk[1])
    BY <1>3 DEF Exists, TypeOK
  <2>. QED
    BY <1>1, <1>3, <2>1, CopyupGood DEF Up, Top
<1>. QED
  BY <1>2, <1>3

\* p is o but for its attributes.
SameInode(p, o) == DOMAIN p = DOMAIN o /\ p.kind = o.kind /\ p.id = o.id /\ p.mode = o.mode

LEMMA ExceptXa ==
    ASSUME NEW o, Good(o), NEW x, NEW p, p = [o EXCEPT !.xa = x]
    PROVE  SameInode(p, o) /\ p.xa = x
BY DEF Good, IsFile, SameInode

(* An attribute is set or removed.                                         *)
LEMMA PutGood ==
    ASSUME NEW o, Good(o), NEW e, IsName(e), e[1] \notin Internal, NEW v,
           e \in StatNames => v \in Override,
           NEW p, SameInode(p, o), p.xa = Put(o.xa, e, v)
    PROVE  Good(p)
<1>1. /\ DOMAIN p = {"kind", "id", "mode", "xa"}
      /\ p.kind = o.kind /\ p.id = o.id /\ p.mode = o.mode
  BY DEF Good, IsFile, SameInode
<1>2. /\ DOMAIN p.xa = DOMAIN o.xa \cup {e} /\ p.xa[e] = v
      /\ \A n \in DOMAIN o.xa : n # e => p.xa[n] = o.xa[n]
  BY DEF Put
<1>. QED
  BY <1>1, <1>2 DEF Good, IsFile, Clean

LEMMA DropGood ==
    ASSUME NEW o, Good(o), NEW e, NEW p, SameInode(p, o), p.xa = Drop(o.xa, e)
    PROVE  /\ Good(p)
           /\ DOMAIN p.xa = DOMAIN o.xa \ {e}
           /\ \A n \in DOMAIN p.xa : p.xa[n] = o.xa[n]
<1>1. /\ DOMAIN p = {"kind", "id", "mode", "xa"}
      /\ p.kind = o.kind /\ p.id = o.id /\ p.mode = o.mode
  BY DEF Good, IsFile, SameInode
<1>2. /\ DOMAIN p.xa = DOMAIN o.xa \ {e}
      /\ \A n \in DOMAIN p.xa : p.xa[n] = o.xa[n]
  BY DEF Drop
<1>3. Good(p)
  BY <1>1, <1>2 DEF Good, IsFile, Clean
<1>. QED
  BY <1>1, <1>2, <1>3

(* Owner, group and mode are changed.                                      *)
LEMMA SetModeGood ==
    ASSUME NEW o, Good(o), NEW mode \in SUBSET Bits, NEW p, p = [o EXCEPT !.mode = mode]
    PROVE  Good(p) /\ p.mode = mode /\ p.kind = o.kind /\ p.id = o.id /\ p.xa = o.xa
<1>1. /\ DOMAIN p = {"kind", "id", "mode", "xa"}
      /\ p.mode = mode /\ p.kind = o.kind /\ p.id = o.id /\ p.xa = o.xa
  BY DEF Good, IsFile
<1>. QED
  BY <1>1 DEF Good, IsFile, Clean

LEMMA SetIdGood ==
    ASSUME NEW o, Good(o), NEW id \in [Field -> Id], NEW p, p = [o EXCEPT !.id = id]
    PROVE  Good(p) /\ p.id = id /\ p.kind = o.kind /\ p.mode = o.mode /\ p.xa = o.xa
<1>1. /\ DOMAIN p = {"kind", "id", "mode", "xa"}
      /\ p.id = id /\ p.kind = o.kind /\ p.mode = o.mode /\ p.xa = o.xa
  BY DEF Good, IsFile
<1>. QED
  BY <1>1 DEF Good, IsFile, Clean

LEMMA NewGood ==
    ASSUME IsSetup(setup), NEW kind \in Kind, NEW id \in [Field -> setup.ids],
           NEW mode \in setup.modes
    PROVE  Good(NewFile(kind, id, mode))
<1>. DEFINE o == NewFile(kind, id, mode)
<1>1. /\ DOMAIN o = {"kind", "id", "mode", "xa"}
      /\ o.kind = kind /\ o.id = Owned([f \in Field |-> map_id(f, id[f])])
      /\ o.mode = NewMode(kind, mode) /\ o.xa = inherit_acl(kind)
  BY DEF NewFile
<1>. HIDE DEF o
<1>2. \A f \in Field : map_id(f, id[f]) \in Id
  BY MapIdType DEF IsSetup
<1>3. o.id \in [Field -> Id]
  BY <1>1, <1>2, OwnedType
<1>4. o.mode \subseteq Bits
  BY <1>1, BitsAssumption DEF NewMode, D755, IsSetup
<1>5. DOMAIN o.xa \subseteq {Acl}
  BY <1>1 DEF inherit_acl, Put, EmptyMap
<1>6. IsName(Acl) /\ Acl[1] \notin Internal /\ Acl \notin StatNames
  <2>1. \A a, b \in Pieces : IsName(<<a, b>>) /\ <<a, b>>[1] = a
    BY DEF IsName, MaxName
  <2>2. "system." \in Pieces /\ "posix_acl_default" \in Pieces /\ "system." \notin Internal
    BY DEF Pieces, Internal
  <2>. QED
    BY <2>1, <2>2 DEF Acl, StatNames, ContainersStat, PrivilegedStat, UserStat, Enc, Security
<1>7. o.kind \in Kind
  BY <1>1
<1>. QED
  BY <1>1, <1>3, <1>4, <1>5, <1>6, <1>7 DEF Good, IsFile, Clean, o

-----------------------------------------------------------------------------
(* What each handler leaves on the upper layer. *)

\* p has the kind of o, and its attributes but those named in N.
SameBut(p, o, N) ==
    /\ p.kind = o.kind
    /\ \A m : m \notin N => /\ m \in DOMAIN p.xa <=> m \in DOMAIN o.xa
                            /\ m \in DOMAIN o.xa => p.xa[m] = o.xa[m]

LEMMA RequestFacts ==
    ASSUME IsSetup(setup), NEW req \in Request
    PROVE  /\ \A f \in Field : req[f] \in Id \cup {NoId}
           /\ req.mode # NoMode => req.mode \in SUBSET Bits
<1>1. setup.ids \subseteq Id /\ setup.modes \subseteq SUBSET Bits
  BY DEF IsSetup
<1>. QED
  BY <1>1 DEF Request, Field

\* p is o after SetOverride, with the attribute n written unless that failed.
Overridden(p, o, req, fd, n) ==
    /\ Good(p) /\ Writes(p) /\ reply'.op = "setattr" /\ reply'.req = req
    /\ p.id = o.id /\ p.mode = o.mode /\ SameBut(p, o, {n})
    /\ \/ reply'.err = "EPERM" /\ p = o
       \/ /\ Parses(p, n)
          /\ \A f \in Field : p.xa[n].id[f] = Asked(req, f, Current(o, n, fd).id[f])
          /\ p.xa[n].mode = IF req.mode = NoMode THEN Current(o, n, fd).mode ELSE req.mode

(* SetOverride writes ids and mode into the attribute, or fails; the inode *)
(* keeps its own.                                                          *)
LEMMA SetOverrideStep ==
    ASSUME IsSetup(setup), NEW o, Good(o), NEW req \in Request, NEW fd \in BOOLEAN,
           NEW n, n = StatName(Mode(0)), SetOverride(req, o, fd)
    PROVE  \E p : Overridden(p, o, req, fd, n)
<1>. DEFINE cur == Current(o, n, fd)
            new == [id |-> [f \in Field |-> Asked(req, f, cur.id[f])],
                    mode |-> IF req.mode = NoMode THEN cur.mode ELSE req.mode, type |-> NoType]
<1>0. PICK p : p = [o EXCEPT !.xa = Put(@, n, new)]
  OBVIOUS
<1>1. IsName(n) /\ n \in StatNames /\ n[1] \notin Internal
  BY StatNameFacts
<1>2. cur.id \in [Field -> Id] /\ cur.mode \in SUBSET Bits
  <2>1. o.id \in [Field -> Id] /\ o.mode \in SUBSET Bits
    BY DEF Good, IsFile
  <2>2. n \in DOMAIN o.xa => /\ o.xa[n].id \in [Field -> Id \cup {NoId}]
                             /\ o.xa[n].mode \in (SUBSET Bits) \cup {NoMode}
    BY <1>1 DEF Good, IsFile, Override
  <2>3. CASE fd /\ n \in DOMAIN o.xa
    <3>1. PICK v : v = o.xa[n]
      OBVIOUS
    <3>2. /\ cur.id = [f \in Field |-> IF v.id[f] = NoId THEN o.id[f] ELSE v.id[f]]
          /\ cur.mode = IF v.mode = NoMode THEN o.mode ELSE v.mode
      BY <2>3, <3>1 DEF Current, Stat
    <3>3. \A f \in Field : v.id[f] \in Id \cup {NoId} /\ o.id[f] \in Id
      BY <2>1, <2>2, <2>3, <3>1
    <3>4. cur.mode \in SUBSET Bits
      BY <2>1, <2>2, <2>3, <3>1, <3>2
    <3>5. \A f \in Field : (IF v.id[f] = NoId THEN o.id[f] ELSE v.id[f]) \in Id
      BY <3>3
    <3>6. cur.id \in [Field -> Id]
      BY <3>2, <3>5
    <3>. QED
      BY <3>4, <3>6
  <2>4. CASE ~(fd /\ n \in DOMAIN o.xa)
    BY <2>1, <2>4 DEF Current, Stat
  <2>. QED
    BY <2>3, <2>4
<1>3. \A f \in Field : Asked(req, f, cur.id[f]) \in Id
  BY <1>2, RequestFacts, MapIdType DEF Asked
<1>4. new \in Override
  BY <1>2, <1>3, RequestFacts DEF Override
<1>5. /\ new.type # "junk" /\ new.mode # NoMode
      /\ \A f \in Field : new.id[f] = Asked(req, f, cur.id[f]) /\ new.id[f] # NoId
      /\ new.mode = IF req.mode = NoMode THEN cur.mode ELSE req.mode
  <2>1. NoMode # cur.mode
    BY <1>2, BitsAssumption
  <2>2. NoId \notin Id
    BY WidthAssumption DEF Id, NoId
  <2>. QED
    BY <1>3, <2>1, <2>2 DEF NoType
<1>6. \/ Fail("setattr", req, "EPERM", o)
      \/ Done("setattr", req, {rpl_stat(p, 0)}, p)
  BY <1>0 DEF SetOverride
<1>. HIDE DEF cur, new
<1>7. /\ Good(p) /\ p.kind = o.kind /\ p.id = o.id /\ p.mode = o.mode
      /\ DOMAIN p.xa = DOMAIN o.xa \cup {n} /\ p.xa[n] = new
      /\ \A m \in DOMAIN o.xa : m # n => p.xa[m] = o.xa[m]
  <2>1. SameInode(p, o) /\ p.xa = Put(o.xa, n, new)
    BY <1>0, ExceptXa
  <2>2. Good(p)
    BY <1>1, <1>4, <2>1, PutGood
  <2>. QED
    BY <2>1, <2>2 DEF SameInode, Put
<1>8. CASE Fail("setattr", req, "EPERM", o)
  <2>1. Writes(o) /\ reply'.op = "setattr" /\ reply'.req = req /\ reply'.err = "EPERM"
    BY <1>8 DEF Fail, Answer, Writes
  <2>. QED
    BY <2>1 DEF SameBut, Overridden
<1>9. CASE Done("setattr", req, {rpl_stat(p, 0)}, p)
  <2>1. Writes(p) /\ reply'.op = "setattr" /\ reply'.req = req
    BY <1>9 DEF Done, Answer, Writes
  <2>2. SameBut(p, o, {n})
    BY <1>7 DEF SameBut
  <2>3. Parses(p, n)
    BY <1>5, <1>7 DEF Parses
  <2>. QED
    BY <1>5, <1>7, <2>1, <2>2, <2>3 DEF cur, Overridden
<1>. QED
  BY <1>6, <1>8, <1>9

(* SetInode changes the mode, and then the ids unless that fails.          *)
LEMMA SetInodeStep ==
    ASSUME IsSetup(setup), NEW o, Good(o), NEW req \in Request, SetInode(req, o)
    PROVE  \E p :
              /\ Good(p) /\ Writes(p) /\ reply'.op = "setattr" /\ reply'.req = req
              /\ p.xa = o.xa /\ p.kind = o.kind
              /\ p.mode = IF req.mode = NoMode THEN o.mode ELSE req.mode
              /\ \A f \in Field : req[f] = NoId => p.id[f] = o.id[f]
              /\ reply'.err = "ok" =>
                    \A f \in Field : req[f] # NoId /\ map_id(f, req[f]) # MaxId =>
                                        p.id[f] = map_id(f, req[f])
<1>. DEFINE o1 == IF req.mode = NoMode THEN o ELSE [o EXCEPT !.mode = req.mode]
            id == [f \in Field |-> IF Asked(req, f, MaxId) = MaxId THEN o.id[f]
                                   ELSE Asked(req, f, MaxId)]
<1>0. PICK o2 : o2 = [o1 EXCEPT !.id = id]
  OBVIOUS
<1>1. o.id \in [Field -> Id]
  BY DEF Good, IsFile
<1>2. \A f \in Field : Asked(req, f, MaxId) \in Id
  BY RequestFacts, MapIdType, IdFacts DEF Asked
<1>3. /\ id \in [Field -> Id]
      /\ \A f \in Field : /\ req[f] = NoId => id[f] = o.id[f]
                          /\ req[f] # NoId /\ map_id(f, req[f]) # MaxId => id[f] = map_id(f, req[f])
  BY <1>1, <1>2 DEF Asked
<1>4. \/ Fail("setattr", req, "EPERM", o1)
      \/ Done("setattr", req, {rpl_stat(o2, 0)}, o2)
  BY <1>0 DEF SetInode
<1>. HIDE DEF id
<1>5. /\ Good(o1) /\ o1.id = o.id /\ o1.kind = o.kind /\ o1.xa = o.xa
      /\ o1.mode = IF req.mode = NoMode THEN o.mode ELSE req.mode
  <2>1. CASE req.mode = NoMode
    BY <2>1
  <2>2. CASE req.mode # NoMode
    BY <2>2, RequestFacts, SetModeGood
  <2>. QED
    BY <2>1, <2>2
<1>. HIDE DEF o1
<1>6. Good(o2) /\ o2.id = id /\ o2.kind = o1.kind /\ o2.mode = o1.mode /\ o2.xa = o1.xa
  BY <1>0, <1>3, <1>5, SetIdGood
<1>7. CASE Fail("setattr", req, "EPERM", o1)
  <2>1. Writes(o1) /\ reply'.op = "setattr" /\ reply'.req = req /\ reply'.err = "EPERM"
    BY <1>7 DEF Fail, Answer, Writes
  <2>. QED
    BY <1>5, <2>1
<1>8. CASE Done("setattr", req, {rpl_stat(o2, 0)}, o2)
  <2>1. Writes(o2) /\ reply'.op = "setattr" /\ reply'.req = req
    BY <1>8 DEF Done, Answer, Writes
  <2>. QED
    BY <1>3, <1>5, <1>6, <2>1
<1>. QED
  BY <1>4, <1>7, <1>8

(* setxattr and removexattr change the one attribute that they name.       *)
LEMMA SetxattrStep ==
    ASSUME TypeOK, MarksAreOurs, NEW n \in setup.names, Setxattr(n, "v"), CanGoUp
    PROVE  \E p : /\ Good(p) /\ Writes(p) /\ reply'.op = "setxattr" /\ reply'.req.name = n
                  /\ p.id = Up.id /\ p.mode = Up.mode
                  /\ SameBut(p, Up, encode_xattr_name(n, Mode(0)))
<1>. DEFINE req == [name |-> n, value |-> "v"]
            enc == encode_xattr_name(n, Mode(0))
<1>1. Good(Up) /\ IsSetup(setup) /\ IsUserName(n)
  BY UpGood, SetupFacts DEF Setxattr, TypeOK, IsSetup
<1>2. \/ Fail("setxattr", req, "EPERM", Up)
      \/ \E e \in enc : Done("setxattr", req, {}, [Up EXCEPT !.xa = Put(@, e, "v")])
  BY DEF Setxattr
<1>3. CASE Fail("setxattr", req, "EPERM", Up)
  BY <1>1, <1>3 DEF Fail, Answer, Writes, SameBut
<1>4. ASSUME NEW e \in enc, Done("setxattr", req, {}, [Up EXCEPT !.xa = Put(@, e, "v")])
      PROVE  \E p : /\ Good(p) /\ Writes(p) /\ reply'.op = "setxattr" /\ reply'.req.name = n
                    /\ p.id = Up.id /\ p.mode = Up.mode /\ SameBut(p, Up, enc)
  <2>0. PICK p : p = [Up EXCEPT !.xa = Put(@, e, "v")]
    OBVIOUS
  <2>1. IsName(e) /\ e[1] \notin Internal /\ e \notin StatNames
    BY <1>1, <1>4, Encoded, NotAStatName DEF IsUserName
  <2>2. /\ Good(p) /\ p.kind = Up.kind /\ p.id = Up.id /\ p.mode = Up.mode
        /\ DOMAIN p.xa = DOMAIN Up.xa \cup {e}
        /\ \A m \in DOMAIN Up.xa : m # e => p.xa[m] = Up.xa[m]
    <3>1. SameInode(p, Up) /\ p.xa = Put(Up.xa, e, "v")
      BY <1>1, <2>0, ExceptXa
    <3>2. Good(p)
      BY <1>1, <2>1, <3>1, PutGood
    <3>. QED
      BY <3>1, <3>2 DEF SameInode, Put
  <2>3. Writes(p) /\ reply'.op = "setxattr" /\ reply'.req.name = n
    BY <1>4, <2>0 DEF Done, Answer, Writes
  <2>4. SameBut(p, Up, enc)
    BY <1>4, <2>2 DEF SameBut
  <2>. QED
    BY <2>2, <2>3, <2>4
<1>. QED
  BY <1>2, <1>3, <1>4

LEMMA RemovexattrStep ==
    ASSUME TypeOK, MarksAreOurs, NEW n \in setup.names, Removexattr(n), CanGoUp
    PROVE  \E p : /\ Good(p) /\ Writes(p) /\ reply'.op = "removexattr" /\ reply'.req.name = n
                  /\ p.id = Up.id /\ p.mode = Up.mode
                  /\ SameBut(p, Up, encode_xattr_name(n, Mode(0)))
<1>. DEFINE req == [name |-> n]
            enc == encode_xattr_name(n, Mode(0))
<1>1. Good(Up)
  BY UpGood DEF Removexattr
<1>2. \/ \E err : Fail("removexattr", req, err, Up)
      \/ \E e \in enc : Done("removexattr", req, {}, [Up EXCEPT !.xa = Drop(@, e)])
  BY DEF Removexattr
<1>3. ASSUME NEW err, Fail("removexattr", req, err, Up)
      PROVE  \E p : /\ Good(p) /\ Writes(p) /\ reply'.op = "removexattr" /\ reply'.req.name = n
                    /\ p.id = Up.id /\ p.mode = Up.mode /\ SameBut(p, Up, enc)
  BY <1>1, <1>3 DEF Fail, Answer, Writes, SameBut
<1>4. ASSUME NEW e \in enc, Done("removexattr", req, {}, [Up EXCEPT !.xa = Drop(@, e)])
      PROVE  \E p : /\ Good(p) /\ Writes(p) /\ reply'.op = "removexattr" /\ reply'.req.name = n
                    /\ p.id = Up.id /\ p.mode = Up.mode /\ SameBut(p, Up, enc)
  <2>0. PICK p : p = [Up EXCEPT !.xa = Drop(@, e)]
    OBVIOUS
  <2>1. /\ Good(p) /\ p.kind = Up.kind /\ p.id = Up.id /\ p.mode = Up.mode
        /\ DOMAIN p.xa = DOMAIN Up.xa \ {e}
        /\ \A m \in DOMAIN p.xa : p.xa[m] = Up.xa[m]
    <3>1. SameInode(p, Up) /\ p.xa = Drop(Up.xa, e)
      BY <1>1, <2>0, ExceptXa
    <3>. QED
      BY <1>1, <3>1, DropGood DEF SameInode
  <2>2. Writes(p) /\ reply'.op = "removexattr" /\ reply'.req.name = n
    BY <1>4, <2>0 DEF Done, Answer, Writes
  <2>3. SameBut(p, Up, enc)
    BY <1>4, <2>1 DEF SameBut
  <2>. QED
    BY <2>1, <2>2, <2>3
<1>. QED
  BY <1>2, <1>3, <1>4

LEMMA DescriptorType ==
    ASSUME IsSetup(setup), NEW o
    PROVE  Descriptor(o) \subseteq BOOLEAN
BY DEF Descriptor, IsSetup

(* setattr in its three cases.                                             *)
LEMMA SetattrCases ==
    ASSUME NEW req, Setattr(req)
    PROVE  /\ Exists
           /\ \/ ~CanGoUp /\ Fail("setattr", req, "EACCES", disk[0])
              \/ /\ CanGoUp /\ Mode(0) # "None"
                 /\ \E fd \in Descriptor(Up) : SetOverride(req, Up, fd)
              \/ CanGoUp /\ (Mode(0) = "None" \/ req = Nothing) /\ SetInode(req, Up)
BY DEF Setattr

(* Every call leaves the upper layer's file alone, or a file of the        *)
(* overlay's making there.                                                 *)
LEMMA NextWrites ==
    ASSUME TypeOK, MarksAreOurs, Next
    PROVE  \E p : Writes(p) /\ (p = disk[0] \/ Good(p))
<1>0. IsSetup(setup)
  BY SetupFacts DEF TypeOK
<1>1. ASSUME NEW kind \in Kind, NEW id \in [Field -> setup.ids], NEW mode \in setup.modes,
             New(kind, id, mode)
      PROVE  \E p : Writes(p) /\ Good(p)
  <2>1. Writes(NewFile(kind, id, mode))
    BY <1>1 DEF New, Done, Writes
  <2>. QED
    BY <1>0, <2>1, NewGood
<1>2. ASSUME Getattr PROVE Writes(disk[0])
  BY <1>2 DEF Getattr, Done, Writes
<1>3. ASSUME NEW req \in Request, Setattr(req)
      PROVE  \E p : Writes(p) /\ (p = disk[0] \/ Good(p))
  <2>1. Good(Up)
    BY <1>3, SetattrCases, UpGood
  <2>2. CASE Fail("setattr", req, "EACCES", disk[0])
    BY <2>2 DEF Fail, Writes
  <2>3. ASSUME NEW fd \in Descriptor(Up), SetOverride(req, Up, fd)
        PROVE  \E p : Writes(p) /\ Good(p)
    <3>1. fd \in BOOLEAN
      BY <1>0, <2>3, DescriptorType
    <3>. QED
      BY <1>0, <2>1, <2>3, <3>1, SetOverrideStep DEF Overridden
  <2>4. ASSUME SetInode(req, Up)
        PROVE  \E p : Writes(p) /\ Good(p)
    BY <1>0, <2>1, <2>4, SetInodeStep
  <2>. QED
    BY <1>3, <2>2, <2>3, <2>4, SetattrCases
<1>4. ASSUME NEW n \in setup.names, Setxattr(n, "v")
      PROVE  \E p : Writes(p) /\ (p = disk[0] \/ Good(p))
  <2>1. CASE CanGoUp
    BY <1>4, <2>1, SetxattrStep
  <2>2. CASE ~CanGoUp
    BY <1>4, <2>2 DEF Setxattr, Fail, Writes
  <2>. QED
    BY <2>1, <2>2
<1>5. ASSUME NEW n \in setup.names, Removexattr(n)
      PROVE  \E p : Writes(p) /\ (p = disk[0] \/ Good(p))
  <2>1. CASE CanGoUp
    BY <1>5, <2>1, RemovexattrStep
  <2>2. CASE ~CanGoUp
    BY <1>5, <2>2 DEF Removexattr, Fail, Writes
  <2>. QED
    BY <2>1, <2>2
<1>6. ASSUME NEW n, Getxattr(n) PROVE Writes(disk[0])
  BY <1>6 DEF Getxattr, Fail, Done, Writes
<1>7. ASSUME NEW query, Listxattr(query) PROVE Writes(disk[0])
  BY <1>7 DEF Listxattr, Fail, Done, Writes
<1>. QED
  BY <1>1, <1>2, <1>3, <1>4, <1>5, <1>6, <1>7 DEF Next

-----------------------------------------------------------------------------
(* Types and marks. *)

Inv == TypeOK /\ MarksAreOurs

LEMMA InitInv == Init => Inv
<1>. SUFFICES ASSUME Init PROVE Inv
  OBVIOUS
<1>1. setup \in Setups /\ IsSetup(setup)
  BY SetupAssumption DEF Init
<1>2. DOMAIN disk = 0 .. 1 /\ disk[0] = Absent /\ disk[1] = setup.lower
  BY DEF Init
<1>. QED
  BY <1>1, <1>2 DEF Inv, TypeOK, MarksAreOurs, IsSetup

LEMMA NextInv == Inv /\ [Next]_vars => Inv'
<1>. SUFFICES ASSUME Inv, [Next]_vars PROVE Inv'
  OBVIOUS
<1>1. TypeOK /\ MarksAreOurs
  BY DEF Inv
<1>2. CASE UNCHANGED vars
  BY <1>1, <1>2 DEF vars, Inv, TypeOK, MarksAreOurs
<1>3. CASE Next
  <2>1. PICK p : Writes(p) /\ (p = disk[0] \/ Good(p))
    BY <1>1, <1>3, NextWrites
  <2>2. disk'[0] = p /\ disk'[1] = disk[1] /\ DOMAIN disk' = 0 .. 1 /\ setup' = setup
    BY <1>1, <2>1, WritesFacts DEF Writes
  <2>3. p = Absent \/ IsFile(p)
    BY <1>1, <2>1 DEF TypeOK, Good
  <2>4. p # Absent => \A n \in DOMAIN p.xa : n[1] \notin Internal
    BY <1>1, <2>1 DEF MarksAreOurs, Good, Clean
  <2>5. TypeOK'
    BY <1>1, <2>2, <2>3 DEF TypeOK
  <2>6. MarksAreOurs'
    BY <2>2, <2>4 DEF MarksAreOurs
  <2>. QED
    BY <2>5, <2>6 DEF Inv
<1>. QED
  BY <1>2, <1>3

LEMMA InvInductive == Spec => []Inv
BY InitInv, NextInv, PTL DEF Spec

\* Owners, groups and modes on the layers stay within their types: no mapping
\* option takes an id out of its width, whatever the ranges.
THEOREM AttributesTypeCorrect == Spec => []TypeOK
<1>1. Inv => TypeOK
  BY DEF Inv
<1>. QED
  BY <1>1, InvInductive, PTL

\* No call and no copy-up leaves one of the overlay's own marks on a file of
\* the upper layer: encode_xattr_name keeps users from naming one, and
\* copy_xattr skips those of the lower layer.
THEOREM MarksCorrect == Spec => []MarksAreOurs
<1>1. Inv => MarksAreOurs
  BY DEF Inv
<1>. QED
  BY <1>1, InvInductive, PTL

-----------------------------------------------------------------------------
(* Listing and reading. *)

(* decode_xattr_name undoes encode_xattr_name for the names on a layer.    *)
LEMMA DecodeEncode ==
    ASSUME NEW x, IsName(x), NEW mode, NEW n, n[1] # Enc,
           x[1] = Enc /\ x # ContainersStat => mode = "Containers"
    PROVE  n \in decode_xattr_name(x, mode) => x \in encode_xattr_name(n, mode)
<1>1. CASE is_encoded_xattr_name(x, mode)
  <2>1. SUFFICES ASSUME n = Tail(x) PROVE x \in encode_xattr_name(n, mode)
    BY <1>1 DEF decode_xattr_name
  <2>2. x[1] = Enc /\ ~can_access_xattr(n, mode)
    BY <1>1, <2>1 DEF is_encoded_xattr_name
  <2>3. x = <<Enc>> \o n /\ Len(n) + 1 = Len(x) /\ Len(x) <= MaxName
    BY <2>1, <2>2, Unprefixed, NameLength
  <2>4. x # ContainersStat
    <3>1. SUFFICES ASSUME x = <<Enc, "stat">> PROVE FALSE
      BY DEF ContainersStat
    <3>2. n[1] = "stat"
      BY <2>1, <3>1
    <3>. QED
      BY <2>2, <3>2 DEF can_access_xattr, Internal, Security
  <2>5. ~(Len(n) + 1 > MaxName)
    <3>1. Len(x) \in Nat
      BY NameLength
    <3>. QED
      BY <2>3, <3>1 DEF MaxName
  <2>. QED
    BY <2>2, <2>3, <2>4, <2>5 DEF encode_xattr_name
<1>2. CASE ~is_encoded_xattr_name(x, mode)
  BY <1>2 DEF decode_xattr_name, encode_xattr_name
<1>. QED
  BY <1>1, <1>2

LEMMA EncodeDecode ==
    ASSUME NEW n, IsName(n), n[1] # Enc, NEW mode, NEW x \in encode_xattr_name(n, mode)
    PROVE  n \in decode_xattr_name(x, mode)
<1>1. CASE x = n /\ can_access_xattr(n, mode)
  BY <1>1 DEF decode_xattr_name, is_encoded_xattr_name
<1>2. CASE x = <<Enc>> \o n /\ ~can_access_xattr(n, mode)
  <2>1. x[1] = Enc /\ Tail(x) = n
    BY <1>2, Prefixed
  <2>. QED
    BY <1>2, <2>1 DEF decode_xattr_name, is_encoded_xattr_name
<1>. QED
  BY <1>1, <1>2, Encoded

LEMMA ListAndGet == Inv => ListMatchesGet
<1>. SUFFICES ASSUME TypeOK, MarksAreOurs, Exists PROVE ListMatchesGet
  BY DEF Inv, ListMatchesGet
<1>1. PICK o : o = disk[Top]
  OBVIOUS
<1>2. PICK m : m = Mode(Top)
  OBVIOUS
<1>3. \A x \in DOMAIN o.xa : IsName(x)
  BY <1>1, UpGood DEF IsFile
<1>4. \A n \in setup.names : IsName(n)
  BY SetupFacts DEF TypeOK, IsSetup, IsUserName
<1>5. SUFFICES ASSUME \A x \in DOMAIN o.xa : x[1] = Enc /\ x # ContainersStat => m = "Containers",
                      NEW n \in setup.names \cup Listed(o, m), n[1] # Enc
               PROVE  n \in Listed(o, m) <=> Got(o, m, n) # {}
  BY <1>1, <1>2 DEF ListMatchesGet
<1>6. ASSUME n \in Listed(o, m) PROVE Got(o, m, n) # {}
  <2>1. PICK x \in DOMAIN o.xa : n \in decode_xattr_name(x, m)
    BY <1>6 DEF Listed
  <2>2. x \in encode_xattr_name(n, m)
    BY <1>3, <1>5, <2>1, DecodeEncode
  <2>. QED
    BY <2>1, <2>2 DEF Got
<1>7. ASSUME Got(o, m, n) # {} PROVE n \in Listed(o, m)
  <2>1. CASE n \in Listed(o, m)
    BY <2>1
  <2>2. CASE n \in setup.names
    <3>1. PICK x \in encode_xattr_name(n, m) : x \in DOMAIN o.xa
      BY <1>7 DEF Got
    <3>2. n \in decode_xattr_name(x, m)
      BY <1>4, <1>5, <2>2, <3>1, EncodeDecode
    <3>. QED
      BY <3>1, <3>2 DEF Listed
  <2>. QED
    BY <1>5, <2>1, <2>2
<1>. QED
  BY <1>6, <1>7

\* filter_xattr_list and getxattr agree on which attributes there are, whatever
\* is on the layers and whichever override mode they have.
THEOREM ListMatchesGetCorrect == Spec => []ListMatchesGet
BY ListAndGet, InvInductive, PTL

-----------------------------------------------------------------------------
(* What is shown. *)

(* Ids and mode are shown from the override attribute, if there is one for *)
(* the file, and from the inode otherwise.                                 *)
LEMMA OverrideShown ==
    ASSUME NEW o, NEW mode, mode # "None", o.kind \in {"file", "dir"}, Parses(o, StatName(mode))
    PROVE  /\ override_mode(o, mode).id = o.xa[StatName(mode)].id
           /\ override_mode(o, mode).mode = o.xa[StatName(mode)].mode
BY DEF override_mode, Stat

LEMMA InodeShown ==
    ASSUME NEW o, NEW mode,
           mode = "None" \/ o.kind \notin {"file", "dir"} \/ ~Parses(o, StatName(mode))
    PROVE  override_mode(o, mode).id = o.id /\ override_mode(o, mode).mode = o.mode
BY DEF override_mode, Stat

LEMMA ShownFields ==
    ASSUME NEW o, NEW i
    PROVE  /\ \A f \in Field : rpl_stat(o, i).id[f] = find_mapping(f, override_mode(o, Mode(i)).id[f], TRUE)
           /\ rpl_stat(o, i).mode = override_mode(o, Mode(i)).mode
<1>1. PICK st : st = override_mode(o, Mode(i))
  OBVIOUS
<1>2. DOMAIN st = {"id", "mode", "kind"}
  BY <1>1 DEF override_mode, Stat
<1>3. rpl_stat(o, i) = [st EXCEPT !.id = ShownId(st.id)]
  BY <1>1 DEF rpl_stat
<1>4. rpl_stat(o, i).id = ShownId(st.id) /\ rpl_stat(o, i).mode = st.mode
  BY <1>2, <1>3
<1>. QED
  BY <1>1, <1>4 DEF ShownId

(* What is shown after a step that leaves p on the upper layer.            *)
LEMMA ShownNext ==
    ASSUME TypeOK, NEW p, Writes(p), p # Absent
    PROVE  /\ \A f \in Field : Shown'.id[f] = find_mapping(f, override_mode(p, Mode(0)).id[f], TRUE)
           /\ Shown'.mode = override_mode(p, Mode(0)).mode
           /\ disk'[0] = p
<1>1. disk'[0] = p /\ setup' = setup
  BY WritesFacts DEF Writes
<1>3. Top' = 0
  BY <1>1 DEF Top
<1>4. Mode(0)' = Mode(0)
  BY <1>1 DEF Mode
<1>5. \A f \in Field : \A x : find_mapping(f, x, TRUE)' = find_mapping(f, x, TRUE)
  BY <1>1 DEF find_mapping
<1>6. PICK st : st = override_mode(p, Mode(0))
  OBVIOUS
<1>7. DOMAIN st = {"id", "mode", "kind"}
  BY <1>6 DEF override_mode, Stat
<1>8. Shown' = [st EXCEPT !.id = ShownId(st.id)']
  BY <1>1, <1>3, <1>4, <1>6 DEF Shown, rpl_stat
<1>9. Shown'.id = ShownId(st.id)' /\ Shown'.mode = st.mode
  BY <1>7, <1>8
<1>10. \A f \in Field : ShownId(st.id)'[f] = find_mapping(f, st.id[f], TRUE)
  BY <1>5 DEF ShownId
<1>. QED
  BY <1>1, <1>6, <1>9, <1>10

(* A setattr that answers ok has stored what was asked where it is shown   *)
(* from.                                                                   *)
LEMMA SetattrStores ==
    ASSUME TypeOK, MarksAreOurs, NEW req \in Request, Setattr(req), reply'.err = "ok"
    PROVE  \E p :
              /\ Good(p) /\ Writes(p) /\ reply'.req = req
              /\ Overrides(p) =>
                    /\ \A f \in Field : req[f] # NoId /\ map_id(f, req[f]) # MaxId =>
                           override_mode(p, Mode(0)).id[f] = map_id(f, req[f])
                    /\ req.mode # NoMode => override_mode(p, Mode(0)).mode = req.mode
<1>1. Good(Up) /\ IsSetup(setup)
  BY SetattrCases, UpGood, SetupFacts DEF TypeOK
<1>2. ~Fail("setattr", req, "EACCES", disk[0])
  BY DEF Fail, Answer
<1>3. ASSUME NEW fd \in Descriptor(Up), SetOverride(req, Up, fd), Mode(0) # "None"
      PROVE  \E p :
              /\ Good(p) /\ Writes(p) /\ reply'.req = req
              /\ Overrides(p) =>
                    /\ \A f \in Field : req[f] # NoId /\ map_id(f, req[f]) # MaxId =>
                           override_mode(p, Mode(0)).id[f] = map_id(f, req[f])
                    /\ req.mode # NoMode => override_mode(p, Mode(0)).mode = req.mode
  <2>1. PICK n : n = StatName(Mode(0))
    OBVIOUS
  <2>2. fd \in BOOLEAN
    BY <1>1, <1>3, DescriptorType
  <2>0. PICK u : u = Up
    OBVIOUS
  <2>3. PICK p : Overridden(p, u, req, fd, n)
    <3>1. Good(u) /\ SetOverride(req, u, fd)
      BY <1>1, <1>3, <2>0
    <3>. QED
      BY <1>1, <2>1, <2>2, <3>1, SetOverrideStep
  <2>. reply'.err # "EPERM"
    OBVIOUS
  <2>4. Parses(p, n)
    BY <2>3 DEF Overridden
  <2>5. ASSUME Overrides(p)
        PROVE  override_mode(p, Mode(0)).id = p.xa[n].id /\ override_mode(p, Mode(0)).mode = p.xa[n].mode
    BY <1>3, <2>1, <2>4, <2>5, OverrideShown DEF Overrides
  <2>6. \A f \in Field : req[f] # NoId => p.xa[n].id[f] = map_id(f, req[f])
    BY <2>3 DEF Overridden, Asked
  <2>. QED
    BY <2>3, <2>5, <2>6 DEF Overridden
<1>4. ASSUME SetInode(req, Up), Mode(0) = "None" \/ req = Nothing
      PROVE  \E p :
              /\ Good(p) /\ Writes(p) /\ reply'.req = req
              /\ Overrides(p) =>
                    /\ \A f \in Field : req[f] # NoId /\ map_id(f, req[f]) # MaxId =>
                           override_mode(p, Mode(0)).id[f] = map_id(f, req[f])
                    /\ req.mode # NoMode => override_mode(p, Mode(0)).mode = req.mode
  <2>1. PICK p :
           /\ Good(p) /\ Writes(p) /\ reply'.req = req
           /\ p.mode = IF req.mode = NoMode THEN Up.mode ELSE req.mode
           /\ \A f \in Field : req[f] # NoId /\ map_id(f, req[f]) # MaxId => p.id[f] = map_id(f, req[f])
    BY <1>1, <1>4, SetInodeStep
  <2>2. CASE Mode(0) = "None"
    BY <2>1, <2>2, InodeShown
  <2>3. CASE req = Nothing
    <3>1. req.mode = NoMode /\ \A f \in Field : req[f] = NoId
      BY <2>3 DEF Nothing, Field
    <3>. QED
      BY <2>1, <3>1
  <2>. QED
    BY <1>4, <2>2, <2>3
<1>. QED
  BY <1>2, <1>3, <1>4, SetattrCases

(* What the properties say of the state is unchanged with the setup.       *)
LEMMA SameSetup ==
    ASSUME setup' = setup
    PROVE  /\ \A f \in Field : \A x : OneToOne(f, x)' <=> OneToOne(f, x)
           /\ \A o : Overrides(o)' <=> Overrides(o)
<1>1. \A f \in Field : \A x : OneToOne(f, x)' <=> OneToOne(f, x)
  BY DEF OneToOne, map_id, find_mapping
<1>2. \A o : Overrides(o)' <=> Overrides(o)
  BY DEF Overrides, Mode
<1>. QED
  BY <1>1, <1>2

LEMMA UnchangedShown ==
    ASSUME ChangeIsShown, UNCHANGED vars
    PROVE  ChangeIsShown'
<1>1. setup' = setup /\ disk' = disk /\ reply' = reply
  BY DEF vars
<1>2. Shown' = Shown
  BY <1>1 DEF Shown, Top, rpl_stat, Mode, ShownId, find_mapping
<1>3. Overrides(disk[0])' <=> Overrides(disk[0])
  BY <1>1 DEF Overrides, Mode
<1>. QED
  BY <1>1, <1>2, <1>3, SameSetup DEF ChangeIsShown

LEMMA SetattrIsShown ==
    ASSUME TypeOK, MarksAreOurs, NEW req \in Request, Setattr(req)
    PROVE  ChangeIsShown'
<1>. SUFFICES ASSUME reply'.err = "ok" PROVE ChangeIsShown'
  BY DEF ChangeIsShown
<1>1. PICK p :
         /\ Good(p) /\ Writes(p) /\ reply'.req = req
         /\ Overrides(p) =>
               /\ \A f \in Field : req[f] # NoId /\ map_id(f, req[f]) # MaxId =>
                      override_mode(p, Mode(0)).id[f] = map_id(f, req[f])
               /\ req.mode # NoMode => override_mode(p, Mode(0)).mode = req.mode
  BY SetattrStores
<1>2. setup' = setup /\ p # Absent
  BY <1>1, FileIsThere DEF Writes, Good
<1>3. /\ \A f \in Field : Shown'.id[f] = find_mapping(f, override_mode(p, Mode(0)).id[f], TRUE)
      /\ Shown'.mode = override_mode(p, Mode(0)).mode
      /\ disk'[0] = p
  BY <1>1, <1>2, ShownNext
<1>4. SUFFICES ASSUME Overrides(p)
               PROVE  /\ \A f \in Field : req[f] # NoId /\ OneToOne(f, req[f]) => Shown'.id[f] = req[f]
                      /\ req.mode # NoMode => Shown'.mode = req.mode
  BY <1>1, <1>2, <1>3, SameSetup DEF ChangeIsShown
<1>5. ASSUME NEW f \in Field, req[f] # NoId, OneToOne(f, req[f])
      PROVE  Shown'.id[f] = req[f]
  <2>1. IsSetup(setup)
    BY SetupFacts DEF TypeOK
  <2>2. req[f] \in Id
    BY <1>5, <2>1, RequestFacts
  <2>3. map_id(f, req[f]) # MaxId
    BY <1>5 DEF OneToOne
  <2>4. find_mapping(f, map_id(f, req[f]), TRUE) = req[f]
    BY <1>5, <2>1, <2>2, RoundTrip
  <2>. QED
    BY <1>1, <1>3, <1>4, <1>5, <2>3, <2>4
<1>. QED
  BY <1>1, <1>3, <1>4, <1>5

\* A setattr that answers ok shows the owner and group it was given, for every
\* mapping that takes them there and back, and the mode; whatever is shown is
\* read through override_mode and find_mapping from what was written.
THEOREM ChangeIsShownCorrect == Spec => []ChangeIsShown
<1>1. Init => ChangeIsShown
  BY DEF Init, ChangeIsShown
<1>2. Inv /\ ChangeIsShown /\ [Next]_vars => ChangeIsShown'
  <2>. SUFFICES ASSUME TypeOK, MarksAreOurs, ChangeIsShown, [Next]_vars PROVE ChangeIsShown'
    BY DEF Inv
  <2>1. CASE UNCHANGED vars
    BY <2>1, UnchangedShown
  <2>2. ASSUME NEW req \in Request, Setattr(req) PROVE ChangeIsShown'
    BY <2>2, SetattrIsShown
  <2>3. ASSUME Next, ~\E req \in Request : Setattr(req) PROVE reply'.op # "setattr"
    BY <2>3 DEF Next, New, Getattr, Setxattr, Removexattr, Getxattr, Listxattr, Done, Fail, Answer
  <2>. QED
    BY <2>1, <2>2, <2>3 DEF ChangeIsShown
<1>. QED
  BY <1>1, <1>2, InvInductive, PTL DEF Spec

-----------------------------------------------------------------------------
(* What calls leave alone. *)

\* q, on the upper layer, shows the id of o there for the field f, or its mode.
KeepsId(q, o, i, f) == override_mode(q, Mode(0)).id[f] = override_mode(o, Mode(i)).id[f]
KeepsMode(q, o, i) == override_mode(q, Mode(0)).mode = override_mode(o, Mode(i)).mode

(* The attributes that copy_xattr takes along.                             *)
LEMMA CopiedXattrs ==
    ASSUME NEW o, o.kind \in {"file", "dir"}, NEW n, n[1] \notin Internal, Settable(n, o.kind)
    PROVE  /\ n \in DOMAIN copyup(o).xa <=> n \in DOMAIN o.xa
           /\ n \in DOMAIN o.xa => copyup(o).xa[n] = o.xa[n]
<1>1. copyup(o).xa = copy_xattr(o)
  BY DEF copyup
<1>. QED
  BY <1>1 DEF copy_xattr

(* Copy-up shows the ids that the lower layer showed, and a file's mode.   *)
LEMMA CopyupShows ==
    ASSUME IsSetup(setup), NEW o, IsFile(o), Mode(1) \in {"None", Mode(0)}, Owned(o.id) = o.id,
           IF Mode(1) = "None" THEN ~Parses(o, StatName(Mode(0)))
           ELSE Mode(0) = "Privileged" => setup.privileged
    PROVE  /\ \A f \in Field : KeepsId(copyup(o), o, 1, f)
           /\ o.kind = "file" => KeepsMode(copyup(o), o, 1)
<1>0. PICK c : c = copyup(o)
  OBVIOUS
<1>1. c.kind = o.kind /\ c.id = o.id /\ (o.kind = "file" => c.mode = o.mode)
  BY <1>0 DEF copyup, CopiedMode
<1>2. PICK n : n = StatName(Mode(0))
  OBVIOUS
<1>3. CASE o.kind \notin {"file", "dir"}
  <2>1. override_mode(c, Mode(0)).id = o.id /\ override_mode(o, Mode(1)).id = o.id
    BY <1>1, <1>3, InodeShown
  <2>. QED
    BY <1>0, <1>3, <2>1 DEF KeepsId
<1>4. CASE o.kind \in {"file", "dir"} /\ Mode(1) = "None"
  <2>1. ~Parses(c, n)
    <3>1. \A m \in DOMAIN c.xa : m \in DOMAIN o.xa /\ c.xa[m] = o.xa[m]
      <4>1. c.xa = copy_xattr(o)
        BY <1>0, <1>4 DEF copyup
      <4>. QED
        BY <4>1 DEF copy_xattr
    <3>2. ~Parses(o, n)
      BY <1>2, <1>4
    <3>. QED
      BY <3>1, <3>2 DEF Parses
  <2>2. override_mode(c, Mode(0)).id = c.id /\ override_mode(c, Mode(0)).mode = c.mode
    BY <1>2, <2>1, InodeShown
  <2>3. override_mode(o, Mode(1)).id = o.id /\ override_mode(o, Mode(1)).mode = o.mode
    BY <1>4, InodeShown
  <2>. QED
    BY <1>0, <1>1, <2>2, <2>3 DEF KeepsId, KeepsMode
<1>5. CASE o.kind \in {"file", "dir"} /\ Mode(1) # "None"
  <2>1. Mode(1) = Mode(0) /\ n[1] \notin Internal
    BY <1>2, <1>5, StatNameFacts
  <2>2. Settable(n, o.kind)
    <3>1. CASE Mode(0) = "Privileged"
      BY <1>2, <1>5, <2>1, <3>1 DEF StatName, PrivilegedStat, Settable
    <3>2. CASE Mode(0) # "Privileged"
      BY <1>2, <1>5, <3>2 DEF StatName, ContainersStat, Settable, Enc, Security
    <3>. QED
      BY <3>1, <3>2
  <2>3. /\ n \in DOMAIN c.xa <=> n \in DOMAIN o.xa
        /\ n \in DOMAIN o.xa => c.xa[n] = o.xa[n]
    BY <1>0, <1>5, <2>1, <2>2, CopiedXattrs
  <2>4. CASE Parses(o, n)
    <3>1. Parses(c, n)
      BY <2>3, <2>4 DEF Parses
    <3>2. c.xa[n] = o.xa[n]
      BY <2>3, <2>4 DEF Parses
    <3>3. override_mode(c, Mode(0)).id = c.xa[n].id /\ override_mode(c, Mode(0)).mode = c.xa[n].mode
      BY <1>1, <1>2, <1>5, <2>1, <3>1, OverrideShown
    <3>4. override_mode(o, Mode(1)).id = o.xa[n].id /\ override_mode(o, Mode(1)).mode = o.xa[n].mode
      BY <1>2, <1>5, <2>1, <2>4, OverrideShown
    <3>. QED
      BY <1>0, <3>2, <3>3, <3>4 DEF KeepsId, KeepsMode
  <2>5. CASE ~Parses(o, n)
    <3>1. ~Parses(c, n)
      BY <2>3, <2>5 DEF Parses
    <3>2. override_mode(c, Mode(0)).id = c.id /\ override_mode(c, Mode(0)).mode = c.mode
      BY <1>2, <3>1, InodeShown
    <3>3. override_mode(o, Mode(1)).id = o.id /\ override_mode(o, Mode(1)).mode = o.mode
      BY <1>2, <2>1, <2>5, InodeShown
    <3>. QED
      BY <1>0, <1>1, <3>2, <3>3 DEF KeepsId, KeepsMode
  <2>. QED
    BY <2>4, <2>5
<1>. QED
  BY <1>3, <1>4, <1>5

LEMMA UpShows ==
    ASSUME TypeOK, MarksAreOurs, Exists, CarriesIds
    PROVE  /\ \A f \in Field : KeepsId(Up, disk[Top], Top, f)
           /\ Top = 0 \/ disk[1].kind = "file" => KeepsMode(Up, disk[Top], Top)
<1>1. CASE Top = 0
  <2>1. Up = disk[0]
    BY <1>1, UpGood
  <2>. QED
    BY <1>1, <2>1 DEF KeepsId, KeepsMode
<1>2. CASE Top = 1
  <2>1. disk[0] = Absent /\ IsFile(disk[1]) /\ Up = copyup(disk[1])
    BY <1>2, UpGood
  <2>2. IsSetup(setup)
    BY SetupFacts DEF TypeOK
  <2>3. PICK o : o = disk[1]
    OBVIOUS
  <2>4. /\ Mode(1) \in {"None", Mode(0)} /\ Owned(o.id) = o.id
        /\ IF Mode(1) = "None" THEN ~Parses(o, StatName(Mode(0)))
           ELSE Mode(0) = "Privileged" => setup.privileged
    BY <2>1, <2>3 DEF CarriesIds
  <2>5. /\ \A f \in Field : KeepsId(copyup(o), o, 1, f)
        /\ o.kind = "file" => KeepsMode(copyup(o), o, 1)
    BY <2>1, <2>2, <2>3, <2>4, CopyupShows
  <2>. QED
    BY <1>2, <2>1, <2>3, <2>5
<1>. QED
  BY <1>1, <1>2 DEF Top

(* A file with the same override attribute shows the same but for what is  *)
(* different on the inode.                                                 *)
LEMMA SameStat ==
    ASSUME NEW p, NEW o, p.kind = o.kind, NEW n, n = StatName(Mode(0)),
           n \in DOMAIN p.xa <=> n \in DOMAIN o.xa,
           n \in DOMAIN o.xa => p.xa[n] = o.xa[n]
    PROVE  /\ \A f \in Field : p.id[f] = o.id[f] => KeepsId(p, o, 0, f)
           /\ p.mode = o.mode => KeepsMode(p, o, 0)
<1>1. CASE Mode(0) # "None" /\ o.kind \in {"file", "dir"} /\ Parses(o, n)
  <2>1. Parses(p, n) /\ p.xa[n] = o.xa[n]
    BY <1>1 DEF Parses
  <2>2. override_mode(p, Mode(0)).id = p.xa[n].id /\ override_mode(p, Mode(0)).mode = p.xa[n].mode
    BY <1>1, <2>1, OverrideShown
  <2>3. override_mode(o, Mode(0)).id = o.xa[n].id /\ override_mode(o, Mode(0)).mode = o.xa[n].mode
    BY <1>1, OverrideShown
  <2>. QED
    BY <2>1, <2>2, <2>3 DEF KeepsId, KeepsMode
<1>2. CASE ~(Mode(0) # "None" /\ o.kind \in {"file", "dir"} /\ Parses(o, n))
  <2>1. ~(Mode(0) # "None" /\ p.kind \in {"file", "dir"} /\ Parses(p, n))
    BY <1>2 DEF Parses
  <2>2. override_mode(p, Mode(0)).id = p.id /\ override_mode(p, Mode(0)).mode = p.mode
    BY <2>1, InodeShown
  <2>3. override_mode(o, Mode(0)).id = o.id /\ override_mode(o, Mode(0)).mode = o.mode
    BY <1>2, InodeShown
  <2>. QED
    BY <2>2, <2>3 DEF KeepsId, KeepsMode
<1>. QED
  BY <1>1, <1>2

(* What SetOverride does not change it has read from where it is shown     *)
(* from.                                                                   *)
LEMMA OverrideKeeps ==
    ASSUME Mode(0) # "None", NEW o, NEW p, NEW req, NEW n, n = StatName(Mode(0)),
           "r" \in o.mode \/ setup.privileged, n \in DOMAIN o.xa => Parses(o, n), NEW fd \in Descriptor(o), Overridden(p, o, req, fd, n)
    PROVE  /\ \A f \in Field : req[f] = NoId => KeepsId(p, o, 0, f)
           /\ req.mode = NoMode => KeepsMode(p, o, 0)
<1>1. CASE o.kind \notin {"file", "dir"}
  <2>1. p.kind = o.kind /\ p.id = o.id /\ p.mode = o.mode
    BY DEF Overridden, SameBut
  <2>2. override_mode(p, Mode(0)).id = p.id /\ override_mode(p, Mode(0)).mode = p.mode
    BY <1>1, <2>1, InodeShown
  <2>3. override_mode(o, Mode(0)).id = o.id /\ override_mode(o, Mode(0)).mode = o.mode
    BY <1>1, InodeShown
  <2>. QED
    BY <2>1, <2>2, <2>3 DEF KeepsId, KeepsMode
<1>2. CASE o.kind \in {"file", "dir"} /\ p = o
  BY <1>2 DEF KeepsId, KeepsMode
<1>3. CASE o.kind \in {"file", "dir"} /\ p # o
  <2>1. fd = TRUE
    BY <1>3 DEF Descriptor
  <2>2. /\ Parses(p, n) /\ p.kind = o.kind
        /\ \A f \in Field : p.xa[n].id[f] = Asked(req, f, Current(o, n, fd).id[f])
        /\ p.xa[n].mode = IF req.mode = NoMode THEN Current(o, n, fd).mode ELSE req.mode
    BY <1>3 DEF Overridden, SameBut
  <2>3. override_mode(p, Mode(0)).id = p.xa[n].id /\ override_mode(p, Mode(0)).mode = p.xa[n].mode
    BY <1>3, <2>2, OverrideShown
  <2>4. /\ \A f \in Field : Current(o, n, fd).id[f] = override_mode(o, Mode(0)).id[f]
        /\ Current(o, n, fd).mode = override_mode(o, Mode(0)).mode
    <3>1. CASE n \in DOMAIN o.xa
      <4>1. Parses(o, n)
        BY <3>1
      <4>2. override_mode(o, Mode(0)).id = o.xa[n].id /\ override_mode(o, Mode(0)).mode = o.xa[n].mode
        BY <1>3, <4>1, OverrideShown
      <4>. QED
        BY <2>1, <3>1, <4>1, <4>2 DEF Current, Parses, Stat
    <3>2. CASE n \notin DOMAIN o.xa
      <4>1. override_mode(o, Mode(0)).id = o.id /\ override_mode(o, Mode(0)).mode = o.mode
        BY <3>2, InodeShown DEF Parses
      <4>. QED
        BY <3>2, <4>1 DEF Current, Stat
    <3>. QED
      BY <3>1, <3>2
  <2>. QED
    BY <2>2, <2>3, <2>4 DEF KeepsId, KeepsMode, Asked
<1>. QED
  BY <1>1, <1>2, <1>3

LEMMA SetattrKeeps ==
    ASSUME TypeOK, MarksAreOurs, NEW req \in Request, Setattr(req), CanGoUp, ReadsBack
    PROVE  \E p : /\ Good(p) /\ Writes(p) /\ reply'.req = req
                  /\ \A f \in Field : req[f] = NoId => KeepsId(p, Up, 0, f)
                  /\ req.mode = NoMode => KeepsMode(p, Up, 0)
<1>1. Good(Up) /\ IsSetup(setup)
  BY SetattrCases, UpGood, SetupFacts DEF TypeOK
<1>2. PICK u : u = Up
  OBVIOUS
<1>3. PICK n : n = StatName(Mode(0))
  OBVIOUS
<1>4. ASSUME NEW fd \in Descriptor(u), SetOverride(req, u, fd), Mode(0) # "None"
      PROVE  \E p : /\ Good(p) /\ Writes(p) /\ reply'.req = req
                    /\ \A f \in Field : req[f] = NoId => KeepsId(p, u, 0, f)
                    /\ req.mode = NoMode => KeepsMode(p, u, 0)
  <2>1. fd \in BOOLEAN
    BY <1>1, <1>4, DescriptorType
  <2>2. PICK p : Overridden(p, u, req, fd, n)
    BY <1>1, <1>2, <1>3, <1>4, <2>1, SetOverrideStep
  <2>3. ("r" \in u.mode \/ setup.privileged) /\ (n \in DOMAIN u.xa => Parses(u, n))
    BY <1>2, <1>3, <1>4 DEF ReadsBack
  <2>4. /\ \A f \in Field : req[f] = NoId => KeepsId(p, u, 0, f)
        /\ req.mode = NoMode => KeepsMode(p, u, 0)
    BY <1>3, <1>4, <2>2, <2>3, OverrideKeeps
  <2>. QED
    BY <2>2, <2>4 DEF Overridden
<1>5. ASSUME SetInode(req, u)
      PROVE  \E p : /\ Good(p) /\ Writes(p) /\ reply'.req = req
                    /\ \A f \in Field : req[f] = NoId => KeepsId(p, u, 0, f)
                    /\ req.mode = NoMode => KeepsMode(p, u, 0)
  <2>1. PICK p :
           /\ Good(p) /\ Writes(p) /\ reply'.req = req
           /\ p.xa = u.xa /\ p.kind = u.kind
           /\ p.mode = IF req.mode = NoMode THEN u.mode ELSE req.mode
           /\ \A f \in Field : req[f] = NoId => p.id[f] = u.id[f]
    BY <1>1, <1>2, <1>5, SetInodeStep
  <2>2. /\ \A f \in Field : p.id[f] = u.id[f] => KeepsId(p, u, 0, f)
        /\ p.mode = u.mode => KeepsMode(p, u, 0)
    BY <1>3, <2>1, SameStat
  <2>. QED
    BY <2>1, <2>2
<1>. QED
  BY <1>2, <1>4, <1>5, SetattrCases

(* setxattr and removexattr do not touch the override attribute.           *)
LEMMA XattrKeeps ==
    ASSUME TypeOK, MarksAreOurs, NEW n \in setup.names, NEW p,
           p.id = Up.id, p.mode = Up.mode, SameBut(p, Up, encode_xattr_name(n, Mode(0)))
    PROVE  (\A f \in Field : KeepsId(p, Up, 0, f)) /\ KeepsMode(p, Up, 0)
<1>1. IsUserName(n)
  BY SetupFacts DEF TypeOK, IsSetup
<1>2. PICK u : u = Up
  OBVIOUS
<1>3. PICK s : s = StatName(Mode(0))
  OBVIOUS
<1>4. s \notin encode_xattr_name(n, Mode(0))
  BY <1>1, <1>3, NotAStatName, StatNameFacts
<1>5. /\ p.kind = u.kind /\ p.id = u.id /\ p.mode = u.mode
      /\ s \in DOMAIN p.xa <=> s \in DOMAIN u.xa
      /\ s \in DOMAIN u.xa => p.xa[s] = u.xa[s]
  BY <1>2, <1>4 DEF SameBut
<1>6. (\A f \in Field : KeepsId(p, u, 0, f)) /\ KeepsMode(p, u, 0)
  BY <1>3, <1>5, SameStat
<1>. QED
  BY <1>2, <1>6

LEMMA KeptShown ==
    ASSUME TypeOK, MarksAreOurs, Exists, CarriesIds, NEW p, Good(p), Writes(p)
    PROVE  /\ \A f \in Field : KeepsId(p, Up, 0, f) => Shown'.id[f] = Shown.id[f]
           /\ KeepsMode(p, Up, 0) /\ (Top = 0 \/ disk[1].kind = "file") => Shown'.mode = Shown.mode
<1>1. p # Absent
  BY FileIsThere DEF Good
<1>2. /\ \A f \in Field : Shown'.id[f] = find_mapping(f, override_mode(p, Mode(0)).id[f], TRUE)
      /\ Shown'.mode = override_mode(p, Mode(0)).mode
  BY <1>1, ShownNext
<1>3. PICK o, i : o = disk[Top] /\ i = Top
  OBVIOUS
<1>4. /\ \A f \in Field : Shown.id[f] = find_mapping(f, override_mode(o, Mode(i)).id[f], TRUE)
      /\ Shown.mode = override_mode(o, Mode(i)).mode
  BY <1>3, ShownFields DEF Shown
<1>5. /\ \A f \in Field : KeepsId(Up, o, i, f)
      /\ Top = 0 \/ disk[1].kind = "file" => KeepsMode(Up, o, i)
  BY <1>3, UpShows
<1>. QED
  BY <1>2, <1>4, <1>5 DEF KeepsId, KeepsMode

LEMMA NextKeepsOthers ==
    ASSUME Inv, Next
    PROVE  KeepsOthers
<1>0. TypeOK /\ MarksAreOurs
  BY DEF Inv
<1>. SUFFICES ASSUME reply'.op \in {"setattr", "setxattr", "removexattr"}, Exists, CanGoUp,
                     CarriesIds, reply'.op = "setattr" => ReadsBack,
                     NEW req, req = IF reply'.op = "setattr" THEN reply'.req ELSE Nothing
              PROVE  /\ \A f \in Field : req[f] = NoId => Shown'.id[f] = Shown.id[f]
                     /\ req.mode = NoMode /\ (Top = 0 \/ disk[1].kind = "file") => Shown'.mode = Shown.mode
  BY DEF KeepsOthers
<1>1. ASSUME NEW r \in Request, Setattr(r)
      PROVE  \E p : /\ Good(p) /\ Writes(p)
                    /\ \A f \in Field : req[f] = NoId => KeepsId(p, Up, 0, f)
                    /\ req.mode = NoMode => KeepsMode(p, Up, 0)
  <2>1. reply'.op = "setattr"
    <3>1. \A err, o : Fail("setattr", r, err, o) => reply'.op = "setattr"
      BY DEF Fail, Answer
    <3>2. \A val, o : Done("setattr", r, val, o) => reply'.op = "setattr"
      BY DEF Done, Answer
    <3>3. SetInode(r, Up) => reply'.op = "setattr"
      BY <3>1, <3>2 DEF SetInode
    <3>4. \A fd : SetOverride(r, Up, fd) => reply'.op = "setattr"
      BY <3>1, <3>2 DEF SetOverride
    <3>. QED
      BY <1>1, <3>1, <3>3, <3>4, SetattrCases
  <2>2. PICK p : /\ Good(p) /\ Writes(p) /\ reply'.req = r
                 /\ \A f \in Field : r[f] = NoId => KeepsId(p, Up, 0, f)
                 /\ r.mode = NoMode => KeepsMode(p, Up, 0)
    BY <1>0, <1>1, <2>1, SetattrKeeps
  <2>. QED
    BY <2>1, <2>2
<1>2. ASSUME NEW n \in setup.names, Setxattr(n, "v") \/ Removexattr(n)
      PROVE  \E p : /\ Good(p) /\ Writes(p)
                    /\ \A f \in Field : req[f] = NoId => KeepsId(p, Up, 0, f)
                    /\ req.mode = NoMode => KeepsMode(p, Up, 0)
  <2>1. PICK p : /\ Good(p) /\ Writes(p) /\ p.id = Up.id /\ p.mode = Up.mode
                 /\ SameBut(p, Up, encode_xattr_name(n, Mode(0)))
    BY <1>0, <1>2, SetxattrStep, RemovexattrStep
  <2>. QED
    BY <1>0, <1>2, <2>1, XattrKeeps
<1>3. (\E r \in Request : Setattr(r)) \/ (\E n \in setup.names : Setxattr(n, "v") \/ Removexattr(n))
  BY DEF Next, New, Getattr, Getxattr, Listxattr, Done, Fail, Answer
<1>4. PICK p : /\ Good(p) /\ Writes(p)
               /\ \A f \in Field : req[f] = NoId => KeepsId(p, Up, 0, f)
               /\ req.mode = NoMode => KeepsMode(p, Up, 0)
  BY <1>1, <1>2, <1>3
<1>. QED
  BY <1>0, <1>4, KeptShown

\* A call that changes the owner, the group, the mode or an attribute leaves the
\* rest as getattr showed it, also when it copies the file up first; for every
\* mapping, every override mode and every attribute on the lower layer.
THEOREM OthersKeptCorrect == Spec => OthersKept
<1>1. Inv /\ [Next]_vars => [KeepsOthers]_vars
  BY NextKeepsOthers
<1>. QED
  BY <1>1, InvInductive, PTL DEF Spec, OthersKept

(* Files with the same attributes under the stored names give the same to  *)
(* getxattr.                                                               *)
LEMMA SameGot ==
    ASSUME NEW p, NEW o, NEW mode, NEW m,
           \A e \in encode_xattr_name(m, mode) : /\ e \in DOMAIN p.xa <=> e \in DOMAIN o.xa
                                                 /\ e \in DOMAIN o.xa => p.xa[e] = o.xa[e]
    PROVE  Got(p, mode, m) = Got(o, mode, m)
BY DEF Got

(* Copy-up takes every attribute along that a user can name.               *)
LEMMA UpXattrs ==
    ASSUME TypeOK, MarksAreOurs, Exists, disk[Top].kind \in {"file", "dir"}, setup.privileged,
           NEW m, IsUserName(m)
    PROVE  \A e \in encode_xattr_name(m, Mode(0)) :
              /\ e \in DOMAIN Up.xa <=> e \in DOMAIN disk[Top].xa
              /\ e \in DOMAIN disk[Top].xa => Up.xa[e] = disk[Top].xa[e]
<1>. SUFFICES ASSUME NEW e \in encode_xattr_name(m, Mode(0))
              PROVE  /\ e \in DOMAIN Up.xa <=> e \in DOMAIN disk[Top].xa
                     /\ e \in DOMAIN disk[Top].xa => Up.xa[e] = disk[Top].xa[e]
  OBVIOUS
<1>1. CASE Top = 0
  <2>1. Up = disk[0]
    BY <1>1, UpGood
  <2>. QED
    BY <1>1, <2>1
<1>2. CASE Top = 1
  <2>1. PICK o : o = disk[1]
    OBVIOUS
  <2>2. Up = copyup(o) /\ o.kind \in {"file", "dir"}
    BY <1>2, <2>1, UpGood
  <2>3. e[1] \notin Internal
    BY Encoded DEF IsUserName
  <2>4. Settable(e, o.kind)
    BY <2>2 DEF Settable
  <2>5. /\ e \in DOMAIN copyup(o).xa <=> e \in DOMAIN o.xa
        /\ e \in DOMAIN o.xa => copyup(o).xa[e] = o.xa[e]
    BY <2>2, <2>3, <2>4, CopiedXattrs
  <2>. QED
    BY <1>2, <2>1, <2>2, <2>5
<1>. QED
  BY <1>1, <1>2 DEF Top

(* A step that changes the upper layer's file changes the attribute of     *)
(* stat override, or the one that the call names.                          *)
LEMMA ChangedXattrs ==
    ASSUME TypeOK, MarksAreOurs, Next, Exists, CanGoUp, disk'[0] # disk[0]
    PROVE  \E p : /\ Writes(p)
                  /\ \/ SameBut(p, Up, StatNames)
                     \/ /\ reply'.op \in {"setxattr", "removexattr"} /\ reply'.req.name \in setup.names
                        /\ SameBut(p, Up, encode_xattr_name(reply'.req.name, Mode(0)))
<1>0. IsSetup(setup) /\ Good(Up)
  BY SetupFacts, UpGood DEF TypeOK
<1>1. PICK u : u = Up
  OBVIOUS
<1>2. PICK n : n = StatName(Mode(0))
  OBVIOUS
<1>3. ASSUME NEW req \in Request, Setattr(req)
      PROVE  \E p : Writes(p) /\ SameBut(p, u, StatNames)
  <2>1. ASSUME NEW fd \in Descriptor(u), SetOverride(req, u, fd)
        PROVE  \E p : Writes(p) /\ SameBut(p, u, StatNames)
    <3>1. fd \in BOOLEAN
      BY <1>0, <2>1, DescriptorType
    <3>2. PICK p : Overridden(p, u, req, fd, n)
      BY <1>0, <1>1, <1>2, <2>1, <3>1, SetOverrideStep
    <3>3. n \in StatNames
      BY <1>2, StatNameFacts
    <3>4. SameBut(p, u, {n}) /\ Writes(p)
      BY <3>2 DEF Overridden
    <3>5. SameBut(p, u, StatNames)
      BY <3>3, <3>4 DEF SameBut
    <3>. QED
      BY <3>4, <3>5
  <2>2. ASSUME SetInode(req, u)
        PROVE  \E p : Writes(p) /\ SameBut(p, u, StatNames)
    <3>1. PICK p : Writes(p) /\ p.xa = u.xa /\ p.kind = u.kind
      BY <1>0, <1>1, <2>2, SetInodeStep
    <3>. QED
      BY <3>1 DEF SameBut
  <2>. QED
    BY <1>1, <1>3, <2>1, <2>2, SetattrCases
<1>4. ASSUME NEW m \in setup.names, Setxattr(m, "v") \/ Removexattr(m)
      PROVE  \E p : /\ Writes(p)
                    /\ reply'.op \in {"setxattr", "removexattr"} /\ reply'.req.name = m
                    /\ SameBut(p, Up, encode_xattr_name(m, Mode(0)))
  BY <1>4, SetxattrStep, RemovexattrStep
<1>5. /\ ~Getattr
      /\ \A m \in setup.names : ~Getxattr(m)
      /\ \A q \in BOOLEAN : ~Listxattr(q)
      /\ \A kind \in Kind, id \in [Field -> setup.ids], mode \in setup.modes : ~New(kind, id, mode)
  <2>1. ~Writes(disk[0])
    BY WritesFacts
  <2>2. ASSUME Getattr PROVE FALSE
    BY <2>1, <2>2 DEF Getattr, Done, Writes
  <2>3. ASSUME NEW m, Getxattr(m) PROVE FALSE
    BY <2>1, <2>3 DEF Getxattr, Fail, Done, Writes
  <2>4. ASSUME NEW q, Listxattr(q) PROVE FALSE
    BY <2>1, <2>4 DEF Listxattr, Fail, Done, Writes
  <2>5. ASSUME NEW kind, NEW id, NEW mode, New(kind, id, mode) PROVE FALSE
    BY <2>5 DEF New
  <2>. QED
    BY <2>2, <2>3, <2>4, <2>5
<1>6. (\E r \in Request : Setattr(r)) \/ (\E m \in setup.names : Setxattr(m, "v") \/ Removexattr(m))
  BY <1>5 DEF Next
<1>. QED
  BY <1>1, <1>3, <1>4, <1>6

LEMMA NextKeepsXattrs ==
    ASSUME Inv, Next
    PROVE  KeepsXattrs
<1>0. TypeOK /\ MarksAreOurs
  BY DEF Inv
<1>. DEFINE named == IF reply'.op \in {"setxattr", "removexattr"} THEN {reply'.req.name} ELSE {}
<1>. SUFFICES ASSUME Exists, CanGoUp, disk[Top].kind \in {"file", "dir"}, Mode(1) = Mode(0),
                     setup.privileged, disk'[0] # disk[0]
              PROVE  \A m \in setup.names \ named : Got(disk'[0], Mode(0), m) = Got(disk[Top], Mode(Top), m)
  BY DEF KeepsXattrs, SeenXattrs
<1>1. PICK p : /\ Writes(p)
               /\ \/ SameBut(p, Up, StatNames)
                  \/ /\ reply'.op \in {"setxattr", "removexattr"} /\ reply'.req.name \in setup.names
                     /\ SameBut(p, Up, encode_xattr_name(reply'.req.name, Mode(0)))
  BY <1>0, ChangedXattrs
<1>2. disk'[0] = p /\ Mode(Top) = Mode(0)
  BY <1>0, <1>1, WritesFacts DEF Top
<1>3. \A m \in setup.names : IsUserName(m)
  BY <1>0, SetupFacts DEF TypeOK, IsSetup
<1>. SUFFICES ASSUME NEW m \in setup.names \ named
              PROVE  Got(p, Mode(0), m) = Got(disk[Top], Mode(0), m)
  BY <1>2
<1>4. PICK o, u, mode : o = disk[Top] /\ u = Up /\ mode = Mode(0)
  OBVIOUS
<1>5. \A e \in encode_xattr_name(m, mode) : /\ e \in DOMAIN u.xa <=> e \in DOMAIN o.xa
                                            /\ e \in DOMAIN o.xa => u.xa[e] = o.xa[e]
  BY <1>0, <1>3, <1>4, UpXattrs
<1>6. \A e \in encode_xattr_name(m, mode) : /\ e \in DOMAIN p.xa <=> e \in DOMAIN u.xa
                                            /\ e \in DOMAIN u.xa => p.xa[e] = u.xa[e]
  <2>1. CASE SameBut(p, Up, StatNames)
    <3>1. \A e \in encode_xattr_name(m, mode) : e \notin StatNames
      BY <1>3, NotAStatName
    <3>. QED
      BY <1>4, <2>1, <3>1 DEF SameBut
  <2>2. CASE /\ reply'.op \in {"setxattr", "removexattr"} /\ reply'.req.name \in setup.names
             /\ SameBut(p, Up, encode_xattr_name(reply'.req.name, Mode(0)))
    <3>1. PICK n : n = reply'.req.name
      OBVIOUS
    <3>2. n \in setup.names /\ n # m /\ SameBut(p, u, encode_xattr_name(n, mode))
      BY <1>4, <2>2, <3>1
    <3>3. \A e \in encode_xattr_name(m, mode) : e \notin encode_xattr_name(n, mode)
      BY <1>3, <3>2, EncodeInjective
    <3>. QED
      BY <3>2, <3>3 DEF SameBut
  <2>. QED
    BY <1>1, <2>1, <2>2
<1>7. Got(p, mode, m) = Got(o, mode, m)
  BY <1>5, <1>6, SameGot
<1>. QED
  BY <1>4, <1>7

\* A call changes no attribute that users see but the one it names, and copy-up
\* loses none: distinct names are stored under distinct names, and none under
\* the name of an override attribute.
THEOREM XattrsKeptCorrect == Spec => XattrsKept
<1>1. Inv /\ [Next]_vars => [KeepsXattrs]_vars
  BY NextKeepsXattrs
<1>. QED
  BY <1>1, InvInductive, PTL DEF Spec, XattrsKept
=============================================================================
