---------------------------- MODULE Attributes ----------------------------
(***************************************************************************)
(* Who owns a file, its mode and its extended attributes: how they are     *)
(* kept on the upper or a lower layer, mapped and overridden when they are *)
(* shown (src/src/mapping.rs, xattr.rs, override_mode of overlay.rs),      *)
(* changed by setattr, setxattr and removexattr, and carried by copy-up    *)
(* (src/src/copyup.rs).  One file of a mount with one lower layer; the     *)
(* handlers hold OverlayFs.inner and are one step each.                    *)
(***************************************************************************)
EXTENDS Integers, Sequences, FiniteSetsExt, Maps

CONSTANTS
    Width,      \* ids are unsigned numbers of this many bits (32)
    Bits,       \* mode bits; "r": the server can open the file to read it
    Words,      \* pieces of attribute names that the code does not look for
    Setups      \* the mounts and uses to consider

Wrap == 2^Width
Id == 0 .. Wrap - 1
MaxId == Wrap - 1           \* chown takes it for "leave as it is"
Field == {"uid", "gid"}
Kind == {"file", "dir", "lnk", "fifo"}
\* What stands for an id, mode or type that a request or attribute leaves out.
NoId == -1
NoMode == {"as it is"}
NoType == "as it is"

D755 == {"r"}               \* the bits of 0755 among Bits

\* Attribute names, split after the prefix that the code looks for.
Enc == "user.containers.override_"
Internal == {"user.fuseoverlayfs.", "user.overlay.", "trusted.overlay."}
Security == "security."
ContainersStat == <<Enc, "stat">>
PrivilegedStat == <<Security, "fuseoverlayfs.override_stat">>
UserStat == <<"user.fuseoverlayfs.", "override_stat">>
StatNames == {ContainersStat, PrivilegedStat, UserStat}
Acl == <<"system.", "posix_acl_default">>
MaxName == 3                \* pieces of a name that fit (255 bytes)
Pieces == Internal \cup Words \cup
          {Enc, Security, "system.", "stat", "fuseoverlayfs.override_stat", "override_stat",
           "posix_acl_default"}
IsName(n) == n \in Seq(Pieces) /\ Len(n) \in 1 .. MaxName

\* A setup: the mapping options as numbers; squash_to_root and squash_to_uid
\* and _gid; the override attributes of the layers' roots; xattr_permissions;
\* may the server change owners, whose files it makes, and its umask; is there
\* a default ACL on the parent; the lower layer's file, if any; the calls
\* users make, and their owner, group and mode arguments.
Options == {"mapping", "squash_to_root", "squash_to", "roots", "xattr_permissions",
            "privileged", "own", "umask", "acl", "lower", "calls", "ids", "modes", "names"}

Absent == [kind |-> "none"]
Stat(id, mode, kind) == [id |-> id, mode |-> mode, kind |-> kind]

VARIABLES
    setup,      \* never changes
    disk,       \* disk[0]: the file on the upper layer; disk[1]: on the lower one
    reply       \* answer to the last call

vars == <<setup, disk, reply>>

-----------------------------------------------------------------------------
(* Ids. *)

\* parse_mappings: triples host:to:len.
parse_mappings(parts) ==
    [i \in 1 .. Len(parts) \div 3 |->
        [host |-> parts[3*i - 2], to |-> parts[3*i - 1], len |-> parts[3*i]]]

From(m, direct) == IF direct THEN m.host ELSE m.to
Into(m, direct) == IF direct THEN m.to ELSE m.host
Covers(m, direct, id) == id >= From(m, direct) /\ id - From(m, direct) < m.len

\* Mutants: the addition has no width; the other direction is used.
ShiftWide(m, direct, id) == Into(m, direct) + (id - From(m, direct))
ShiftBack(m, direct, id) == (From(m, direct) + (id - Into(m, direct))) % Wrap

Shift(m, direct, id) == (Into(m, direct) + (id - From(m, direct))) % Wrap

\* find_mapping without the squash options: the first range that has the id.
Through(id, ranges, direct, overflow) ==
    LET hits == {i \in DOMAIN ranges : Covers(ranges[i], direct, id)}
    IN  IF ranges = << >> THEN id
        ELSE IF hits = {} THEN overflow
        ELSE Shift(ranges[Min(hits)], direct, id)

Overflow == MaxId - 1       \* /proc/sys/kernel/overflowuid

find_mapping(f, id, direct) ==
    IF direct /\ setup.squash_to[f] # NoId THEN setup.squash_to[f]
    ELSE IF direct /\ setup.squash_to_root THEN 0
    ELSE Through(id, parse_mappings(setup.mapping[f]), direct, Overflow)

\* What users are shown for the ids on disk, and what is stored for theirs.
ShownId(id) == [f \in Field |-> find_mapping(f, id[f], TRUE)]
map_id(f, id) == find_mapping(f, id, FALSE)

-----------------------------------------------------------------------------
(* Stat override. *)

\* load_data_source: which override attribute the layer's root has.
Detected(names) ==
    CASE PrivilegedStat \in names -> "Privileged"
      [] PrivilegedStat \notin names /\ ContainersStat \in names -> "Containers"
      [] names \cap StatNames = {UserStat} -> "User"
      [] OTHER -> "None"

\* init_layers: xattr_permissions is for an upper layer that has none.
Mode(i) ==
    LET d == Detected(setup.roots[i])
    IN  IF d # "None" \/ i # 0 THEN d
        ELSE CASE setup.xattr_permissions = 1 -> "Privileged"
               [] setup.xattr_permissions = 2 -> "Containers"
               [] OTHER -> "None"

StatName(mode) == IF mode = "Privileged" THEN PrivilegedStat ELSE ContainersStat

\* An override attribute has ids, a mode and a type.  NoId and NoMode stand for
\* fields that are not numbers, "junk" for a type that is not one, and NoType
\* for a fourth field that is missing, as it may be.
Parses(o, n) ==
    /\ n \in DOMAIN o.xa
    /\ \A f \in Field : o.xa[n].id[f] # NoId
    /\ o.xa[n].mode # NoMode /\ o.xa[n].type # "junk"

\* override_mode: only for files and directories, and errors are ignored.
override_mode(o, mode) ==
    LET n == StatName(mode)
        v == o.xa[n]
    IN  IF mode # "None" /\ o.kind \in {"file", "dir"} /\ Parses(o, n)
        THEN Stat(v.id, v.mode, IF v.type = NoType THEN o.kind ELSE v.type)
        ELSE Stat(o.id, o.mode, o.kind)

\* The layer that the node is on, and what getattr shows (rpl_stat).
Exists == \E i \in 0 .. 1 : disk[i] # Absent
Top == IF disk[0] # Absent THEN 0 ELSE 1

rpl_stat(o, i) ==
    LET st == override_mode(o, Mode(i))
    IN  [st EXCEPT !.id = ShownId(@)]

Shown == rpl_stat(disk[Top], Top)

-----------------------------------------------------------------------------
(* Names of extended attributes. *)

can_access_xattr(n, mode) ==
    n[1] \notin Internal /\ ~(mode = "Containers" /\ n[1] = Security)

is_encoded_xattr_name(n, mode) ==
    n[1] = Enc /\ ~can_access_xattr(Tail(n), mode)

\* The names a user gets for a stored one: none or one.
decode_xattr_name(n, mode) ==
    IF is_encoded_xattr_name(n, mode) THEN {Tail(n)}
    ELSE IF can_access_xattr(n, mode) THEN {n} ELSE {}

\* Mutant: names are stored as they are given.
encode_xattr_nameNever(n, mode) == IF mode = "Containers" \/ can_access_xattr(n, mode)
                                   THEN {n} ELSE {}

\* The stored names for a user's: none or one.
encode_xattr_name(n, mode) ==
    IF can_access_xattr(n, mode) THEN {n}
    ELSE IF mode # "Containers" \/ Len(n) + 1 > MaxName THEN {}
    ELSE {<<Enc>> \o n}

\* filter_xattr_list
Listed(o, mode) == UNION {decode_xattr_name(n, mode) : n \in DOMAIN o.xa}

\* getxattr: no value or one.
Got(o, mode, n) == {o.xa[e] : e \in encode_xattr_name(n, mode) \cap DOMAIN o.xa}

\* The file system takes the attribute (external): user.* only on files and
\* directories, the system's own only from a privileged server.
Settable(n, kind) ==
    IF n[1] \in {Security, "trusted.overlay."} THEN setup.privileged
    ELSE kind \in {"file", "dir"}

-----------------------------------------------------------------------------
(* Copy-up and new files. *)

\* A chown whose failure is ignored.
Owned(id) == IF setup.privileged THEN id ELSE setup.own

\* Mutants: the overlay's own marks are copied; only users' names are.
copy_xattrUser(o) == [n \in {n \in DOMAIN o.xa : n[1] = "user."} |-> o.xa[n]]
copy_xattrAll(o) ==
    [n \in {n \in DOMAIN o.xa : Settable(n, o.kind)} |-> o.xa[n]]

\* A name that the upper file system refuses with EPERM or ENOTSUP is left out.
\* Other errors, which end the loop and which the callers ignore, are not
\* modelled.
copy_xattr(o) ==
    [n \in {n \in DOMAIN o.xa : n[1] \notin Internal /\ Settable(n, o.kind)} |-> o.xa[n]]

\* A file is given its mode back in the end; a directory is made with 0755
\* added, and the umask taken from it, as from special files.
CopiedMode(o) ==
    CASE o.kind = "dir" -> (o.mode \cup D755) \ setup.umask
      [] o.kind = "fifo" -> o.mode \ setup.umask
      [] OTHER -> o.mode

\* Symlinks are copied without attributes.
copyup(o) ==
    [kind |-> o.kind, id |-> Owned(o.id), mode |-> CopiedMode(o),
     xa |-> IF o.kind = "lnk" THEN EmptyMap ELSE copy_xattr(o)]

\* The source of a copy is opened, but for symlinks and special files.
CanCopy(o) == o.kind \in {"lnk", "fifo"} \/ setup.privileged \/ "r" \in o.mode

CanGoUp == disk[0] # Absent \/ CanCopy(disk[1])
Up == IF disk[0] # Absent THEN disk[0] ELSE copyup(disk[1])

\* create, mkdir, mknod and symlink.
NewMode(kind, mode) ==
    (IF kind = "fifo" THEN mode \cup D755 ELSE mode) \ setup.umask

inherit_acl(kind) == IF setup.acl /\ kind = "dir" THEN Put(EmptyMap, Acl, "acl") ELSE EmptyMap

NewFile(kind, id, mode) ==
    [kind |-> kind, id |-> Owned([f \in Field |-> map_id(f, id[f])]),
     mode |-> NewMode(kind, mode), xa |-> inherit_acl(kind)]

-----------------------------------------------------------------------------
(* Handlers. *)

Answer(op, req, err, val) == reply' = [op |-> op, req |-> req, err |-> err, val |-> val]

Fail(op, req, err, o) ==
    Answer(op, req, err, {}) /\ disk' = [disk EXCEPT ![0] = o] /\ UNCHANGED setup

Done(op, req, val, o) ==
    Answer(op, req, "ok", val) /\ disk' = [disk EXCEPT ![0] = o] /\ UNCHANGED setup

\* stat_and_register_child and create: the reply shows what is on disk.
New(kind, id, mode) ==
    /\ "new" \in setup.calls
    /\ ~Exists
    /\ LET o == NewFile(kind, id, mode)
       IN  Done("new", [kind |-> kind, id |-> id, mode |-> mode], {Stat(o.id, o.mode, o.kind)}, o)

Getattr ==
    /\ "getattr" \in setup.calls
    /\ Exists
    /\ Done("getattr", << >>, {Shown}, disk[0])

Nothing == [uid |-> NoId, gid |-> NoId, mode |-> NoMode]
Asked(req, f, old) == IF req[f] = NoId THEN old ELSE map_id(f, req[f])

\* Mutant: the fields that are not named are read from the inode.
CurrentStat(o, n, fd) == Stat(o.id, o.mode, o.kind)

\* The ids and mode that a request does not change, if there is a descriptor to
\* read the attribute by: parse_override_fields takes each field that can be
\* parsed from the attribute, whatever the others and the type are.
Current(o, n, fd) ==
    LET v == o.xa[n]
    IN  IF fd /\ n \in DOMAIN o.xa
        THEN Stat([f \in Field |-> IF v.id[f] = NoId THEN o.id[f] ELSE v.id[f]],
                  IF v.mode = NoMode THEN o.mode ELSE v.mode, o.kind)
        ELSE Stat(o.id, o.mode, o.kind)

\* setattr where ids and mode are kept in an attribute: it is written again,
\* without a type.
SetOverride(req, o, fd) ==
    LET n   == StatName(Mode(0))
        cur == Current(o, n, fd)
        new == [id |-> [f \in Field |-> Asked(req, f, cur.id[f])],
                mode |-> IF req.mode = NoMode THEN cur.mode ELSE req.mode, type |-> NoType]
        o1  == [o EXCEPT !.xa = Put(@, n, new)]
    IN  IF ~Settable(n, o.kind) THEN Fail("setattr", req, "EPERM", o)
        ELSE Done("setattr", req, {rpl_stat(o1, 0)}, o1)

\* setattr by chmod and then chown, which can fail when the mode is changed.
SetInode(req, o) ==
    LET o1  == IF req.mode = NoMode THEN o ELSE [o EXCEPT !.mode = req.mode]
        id  == [f \in Field |-> IF Asked(req, f, MaxId) = MaxId THEN o.id[f]
                                ELSE Asked(req, f, MaxId)]
        o2  == [o1 EXCEPT !.id = id]
    IN  IF id # o.id /\ ~setup.privileged THEN Fail("setattr", req, "EPERM", o1)
        ELSE Done("setattr", req, {rpl_stat(o2, 0)}, o2)

\* The descriptor is the caller's, or the file is opened to read.
Descriptor(o) ==
    {o.kind # "lnk" /\ (setup.privileged \/ "r" \in o.mode)}
    \cup (IF o.kind = "file" THEN {TRUE} ELSE {})

Setattr(req) ==
    /\ "setattr" \in setup.calls
    /\ Exists
    /\ Shown.kind = "lnk" => req.mode = NoMode
    /\ IF ~CanGoUp THEN Fail("setattr", req, "EACCES", disk[0])
       ELSE IF Mode(0) # "None" /\ req # Nothing
       THEN \E fd \in Descriptor(Up) : SetOverride(req, Up, fd)
       ELSE SetInode(req, Up)

Setxattr(n, v) ==
    /\ "setxattr" \in setup.calls
    /\ Exists
    /\ LET req == [name |-> n, value |-> v]
           enc == encode_xattr_name(n, Mode(0))
       IN  IF ~CanGoUp THEN Fail("setxattr", req, "EACCES", disk[0])
           ELSE IF enc = {} \/ \E e \in enc : ~Settable(e, Up.kind)
           THEN Fail("setxattr", req, "EPERM", Up)
           ELSE \E e \in enc : Done("setxattr", req, {}, [Up EXCEPT !.xa = Put(@, e, v)])

Removexattr(n) ==
    /\ "removexattr" \in setup.calls
    /\ Exists
    /\ LET req == [name |-> n]
           enc == encode_xattr_name(n, Mode(0))
       IN  IF ~CanGoUp THEN Fail("removexattr", req, "EACCES", disk[0])
           ELSE IF enc = {} \/ \E e \in enc : ~Settable(e, Up.kind)
           THEN Fail("removexattr", req, "EPERM", Up)
           ELSE \E e \in enc :
                  IF e \notin DOMAIN Up.xa THEN Fail("removexattr", req, "ENODATA", Up)
                  ELSE Done("removexattr", req, {}, [Up EXCEPT !.xa = Drop(@, e)])

Getxattr(n) ==
    /\ "getxattr" \in setup.calls
    /\ Exists
    /\ LET got == Got(disk[Top], Mode(Top), n)
       IN  IF got = {} THEN Fail("getxattr", [name |-> n], "ENODATA", disk[0])
           ELSE Done("getxattr", [name |-> n], got, disk[0])

\* The layer's names must fit the caller's buffer before they are filtered, and
\* a call with no buffer is told the size after it.
SumOver(names) == MapThenSumSet(Len, names)

Listxattr(query) ==
    /\ "listxattr" \in setup.calls
    /\ Exists
    /\ LET listed == Listed(disk[Top], Mode(Top))
           kept == SumOver(DOMAIN disk[Top].xa)
       IN  IF query THEN Done("listxattr", [size |-> 0], {SumOver(listed)}, disk[0])
           ELSE IF kept > SumOver(listed)
           THEN Fail("listxattr", [size |-> SumOver(listed)], "ERANGE", disk[0])
           ELSE Done("listxattr", [size |-> SumOver(listed)], listed, disk[0])

-----------------------------------------------------------------------------

\* What can be on a layer.
Override == [id : [Field -> Id \cup {NoId}], mode : (SUBSET Bits) \cup {NoMode},
             type : Kind \cup {NoType, "junk"}]
IsFile(o) ==
    /\ DOMAIN o = {"kind", "id", "mode", "xa"}
    /\ o.kind \in Kind /\ o.id \in [Field -> Id] /\ o.mode \subseteq Bits
    /\ \A n \in DOMAIN o.xa :
          IsName(n) /\ (n \in StatNames => o.xa[n] \in Override)

\* Names that users use: not those of the override attributes, nor those that
\* stand for other names on a layer.
IsUserName(n) == IsName(n) /\ n \notin StatNames /\ n[1] # Enc

IsSetup(s) ==
    /\ DOMAIN s = Options
    /\ \A f \in Field :
          /\ s.mapping[f] \in Seq(Id) /\ Len(s.mapping[f]) % 3 = 0
          /\ s.squash_to[f] \in Id \cup {NoId}
    /\ s.squash_to_root \in BOOLEAN /\ s.privileged \in BOOLEAN /\ s.acl \in BOOLEAN
    /\ s.lower = Absent \/ IsFile(s.lower)
    /\ s.own \in [Field -> Id]
    /\ s.ids \subseteq Id /\ s.modes \subseteq SUBSET Bits
    /\ \A n \in s.names : IsUserName(n)

\* The provers know nothing of powers but what is said of Wrap here.
ASSUME WidthAssumption == Width \in Nat \ {0} /\ Wrap \in Nat /\ Wrap > 1
ASSUME BitsAssumption == "r" \in Bits /\ NoMode \notin SUBSET Bits
ASSUME SetupAssumption == \A s \in Setups : IsSetup(s)

Request == [uid : setup.ids \cup {NoId}, gid : setup.ids \cup {NoId},
            mode : setup.modes \cup {NoMode}]

Init ==
    /\ setup \in Setups
    /\ disk = [i \in 0 .. 1 |-> IF i = 1 THEN setup.lower ELSE Absent]
    /\ reply = [op |-> "mount", req |-> << >>, err |-> "ok", val |-> {}]

Next ==
    \/ \E kind \in Kind, id \in [Field -> setup.ids], mode \in setup.modes : New(kind, id, mode)
    \/ Getattr
    \/ \E req \in Request : Setattr(req)
    \/ \E n \in setup.names :
          Setxattr(n, "v") \/ Removexattr(n) \/ Getxattr(n)
    \/ \E query \in BOOLEAN : Listxattr(query)

Spec == Init /\ [][Next]_vars

-----------------------------------------------------------------------------
(* Properties. *)

\* Types: ids never leave their width.
TypeOK ==
    /\ setup \in Setups
    /\ DOMAIN disk = 0 .. 1
    /\ \A i \in 0 .. 1 : disk[i] = Absent \/ IsFile(disk[i])

\* The id is in one range on the users' side, no range passes the largest id,
\* and no two ranges have the same host id: the options map it back and forth.
OneToOne(f, id) ==
    LET R == parse_mappings(setup.mapping[f])
    IN  /\ setup.squash_to[f] = NoId /\ ~setup.squash_to_root
        /\ R # << >> => \E i \in DOMAIN R : Covers(R[i], FALSE, id)
        /\ \A i \in DOMAIN R : R[i].to + R[i].len - 1 <= MaxId /\ R[i].host + R[i].len - 1 <= MaxId
        /\ \A i, j \in DOMAIN R : i # j =>
              \A x \in Id : ~(Covers(R[i], TRUE, x) /\ Covers(R[j], TRUE, x))
        /\ map_id(f, id) # MaxId

\* Override attributes count for files and directories only.
Overrides(o) == Mode(0) = "None" \/ o.kind \in {"file", "dir"}

\* A setattr that answers ok shows the owner, group and mode that it was given,
\* through the mapping both ways and the override attribute.
ChangeIsShown ==
    LET req == reply.req
    IN  reply.op = "setattr" /\ reply.err = "ok" /\ Overrides(disk[0]) =>
          /\ \A f \in Field : req[f] # NoId /\ OneToOne(f, req[f]) => Shown.id[f] = req[f]
          /\ req.mode # NoMode => Shown.mode = req.mode

\* The file is on the upper layer, or copy-up takes its ids along: the server
\* can chown or owns the file, and the lower layer's override attribute is one
\* that the server can set, and means the same on the upper layer.
CarriesIds ==
    \/ disk[0] # Absent
    \/ /\ Mode(1) \in {"None", Mode(0)}
       /\ Owned(disk[1].id) = disk[1].id
       /\ IF Mode(1) = "None" THEN ~Parses(disk[1], StatName(Mode(0)))
          ELSE Mode(0) = "Privileged" => setup.privileged

\* setattr reads the ids and mode it keeps from where they are shown from.  It
\* does not if it has no descriptor, or if a field of the attribute cannot be
\* parsed: then getattr shows the inode's, and setattr keeps the other fields.
ReadsBack ==
    LET n == StatName(Mode(0))
    IN  Mode(0) # "None" => /\ "r" \in Up.mode \/ setup.privileged
                            /\ n \in DOMAIN Up.xa => Parses(Up, n)

KeepsOthers ==
    LET req == IF reply'.op = "setattr" THEN reply'.req ELSE Nothing
    IN  reply'.op \in {"setattr", "setxattr", "removexattr"} /\ Exists
        /\ CanGoUp /\ CarriesIds /\ (reply'.op = "setattr" => ReadsBack)
        => /\ \A f \in Field : req[f] = NoId => Shown'.id[f] = Shown.id[f]
           /\ req.mode = NoMode /\ (Top = 0 \/ disk[1].kind = "file") =>
                Shown'.mode = Shown.mode

\* A call that changes one of owner, group, mode and attributes leaves the
\* others as they were shown, across copy-up: "Ensure UID and GID are preserved
\* with chmod", and with setxattr.  (The copy of a directory or special file is
\* made with mkdir or mknod and keeps its mode only if they give it.)
OthersKept == [][KeepsOthers]_vars

\* What users see of the attributes but those of stat override.
SeenXattrs(o, mode) ==
    [n \in {n \in setup.names : Got(o, mode, n) # {}} |-> Got(o, mode, n)]

KeepsXattrs ==
    LET before == SeenXattrs(disk[Top], Mode(Top))
        after  == SeenXattrs(disk'[0], Mode(0))
        named  == IF reply'.op \in {"setxattr", "removexattr"} THEN {reply'.req.name} ELSE {}
    IN  Exists /\ CanGoUp /\ disk[Top].kind \in {"file", "dir"}
        /\ Mode(1) = Mode(0) /\ setup.privileged /\ disk'[0] # disk[0]
        => \A n \in setup.names \ named :
              /\ n \in DOMAIN before <=> n \in DOMAIN after
              /\ n \in DOMAIN before => before[n] = after[n]

\* No call but the one that names it changes an attribute that users see; the
\* copy of copy-up has them all.  (Symlinks lose theirs, and special files the
\* ones they cannot have.)
XattrsKept == [][KeepsXattrs]_vars

\* The overlay's own marks on the upper layer (opaque directories) are out of
\* users' reach, and copy-up brings none from a lower layer, where they say
\* something else.
MarksAreOurs ==
    disk[0] # Absent => \A n \in DOMAIN disk[0].xa : n[1] \notin Internal

\* Listing and reading agree: every name that is listed can be read and every
\* name that can be read is listed, if only the overlay writes names with the
\* override prefix.
ListMatchesGet ==
    Exists =>
        LET o == disk[Top]
            m == Mode(Top)
        IN  (\A n \in DOMAIN o.xa : n[1] = Enc /\ n # ContainersStat => m = "Containers") =>
              \A n \in setup.names \cup Listed(o, m) :
                  n[1] # Enc => (n \in Listed(o, m) <=> Got(o, m, n) # {})
=============================================================================
