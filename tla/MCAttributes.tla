--------------------------- MODULE MCAttributes ---------------------------
(* Small sets of mounts for Attributes: ids of three bits, one range or two. *)
EXTENDS Attributes

File(kind, uid, mode, xa) ==
    [kind |-> kind, id |-> [uid |-> uid, gid |-> 1], mode |-> mode, xa |-> xa]

NoMap == << >>
Two == <<1, 3, 2, 3, 0, 2>>     \* 1,2 -> 3,4 and 3,4 -> 0,1
Edge == <<6, 0, 3>>             \* 6,7 -> 0,1 and 8, past the largest id, -> 2

Mapped(parts) == [uid |-> parts, gid |-> parts]
NoSquash == [uid |-> NoId, gid |-> NoId]

Plain == <<"user.", "a">>
Caps == <<Security, "capability">>
LongCaps == <<Security, "long", "name">>
Mark == <<"trusted.overlay.", "opaque">>
EncCaps == <<Enc, Security, "capability">>

Over(type) == [id |-> [uid |-> 3, gid |-> 2], mode |-> {"r"}, type |-> type]
BadUid == [Over(NoType) EXCEPT !.id.uid = NoId]
BadMode == [Over(NoType) EXCEPT !.mode = NoMode]
One(n, v) == Put(EmptyMap, n, v)

\* Lower files with an override attribute, and with others.
Others == {File("lnk", 2, {"r"}, One(Mark, "y")), File("fifo", 2, {"w"}, One(Caps, "v"))}

OwnerLowers ==
    {File(k, 2, m, x) :
        k \in {"file", "dir"}, m \in {{}, {"r", "w"}},
        x \in {EmptyMap, One(PrivilegedStat, Over(NoType))}
              \cup {One(ContainersStat, v) :
                        v \in {Over(NoType), Over("fifo"), Over("junk"), BadUid, BadMode}}}
    \cup Others

XattrLowers ==
    {File(k, 2, {"r", "w"}, x) :
        k \in {"file", "dir"},
        x \in {Put(One(Plain, "w"), Mark, "y"), Put(One(Caps, "v"), EncCaps, "w")}}
    \cup Others

Mounts(map, ids, squash, roots, perms, lowers, calls, modes, names) ==
    [mapping : {Mapped(map)}, squash_to_root : {FALSE}, squash_to : squash,
     roots : roots, xattr_permissions : perms, privileged : BOOLEAN,
     own : {[uid |-> 2, gid |-> 1]}, umask : {{"w"}}, acl : {TRUE}, lower : lowers,
     calls : {calls}, ids : {ids}, modes : {modes}, names : {names}]

StatCalls == {"new", "getattr", "setattr"}
XattrCalls == {"new", "setattr", "setxattr", "removexattr", "getxattr", "listxattr"}

\* The layers' override modes.
RootAttrs == {{}, {ContainersStat}, {PrivilegedStat}, {UserStat}}
Roots == [0 .. 1 -> RootAttrs]
NoRoots == {[i \in 0 .. 1 |-> {}]}

\* Owners and modes.
OwnerSetups ==
    Mounts(Two, {4}, {NoSquash}, Roots, {0}, OwnerLowers, {"setattr"}, {{}}, {})
    \cup Mounts(NoMap, {0, 4}, {NoSquash}, NoRoots, {0, 1, 2}, OwnerLowers, StatCalls, {{}}, {})
    \cup Mounts(Edge, {1, 2}, {NoSquash}, NoRoots, {0, 1, 2}, {Absent}, StatCalls, {{}, {"r"}}, {})

\* Extended attributes.
XattrSetups ==
    Mounts(NoMap, {}, {NoSquash}, [0 .. 1 -> RootAttrs \ {{UserStat}}], {0}, XattrLowers,
           XattrCalls, {{"r"}}, {Plain, Caps, Mark})
    \cup Mounts(NoMap, {4}, {NoSquash}, NoRoots, {0, 1, 2}, {Absent}, XattrCalls \ {"setattr"},
                {{"r"}}, {Plain, Caps, LongCaps})

\* Squashed owners.
SquashSetups ==
    {[s EXCEPT !.squash_to_root = TRUE] :
        s \in Mounts(Two, {4}, {NoSquash, [uid |-> 4, gid |-> NoId]}, NoRoots, {0, 2},
                     OwnerLowers, StatCalls, {{}}, {})}

AllSetups == OwnerSetups \cup XattrSetups \cup SquashSetups
=============================================================================
