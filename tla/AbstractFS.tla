----------------------------- MODULE AbstractFS -----------------------------
(***************************************************************************)
(* What the mount point promises its users: one ordinary directory tree.   *)
(* fs[p] is what is at path p, and reply the answer to the last call.      *)
(* Nothing here knows of layers, whiteouts or caches.  The calls and their *)
(* error answers are those of the handlers of src/src/overlay.rs.          *)
(***************************************************************************)
EXTENDS Integers, Sequences

CONSTANTS
    Path,       \* sequences of names, closed under Parent; << >> is the top
    Content     \* what a file can hold

VARIABLES fs, reply

vars == <<fs, reply>>

Base == << >>
Parent(p) == SubSeq(p, 1, Len(p) - 1)
Kids(p) == {q \in Path \ {Base} : Parent(q) = p}
Under(p) == {q \in Path : Len(q) > Len(p) /\ SubSeq(q, 1, Len(p)) = p}

IsDir(p) == fs[p] = "dir"
IsFile(p) == fs[p] \in Content
Exists(p) == IsDir(p) \/ IsFile(p)
Entries(p) == {q \in Kids(p) : Exists(q)}

\* The call may be made: the caller holds the directory that p is in.
Named(p) == p # Base /\ IsDir(Parent(p))

\* The step answers this call, in this way.
Asked(op, args) == reply'.op = op /\ reply'.args = args
Answer(err, val) == reply'.err = err /\ reply'.val = val
Refuse(err) == Answer(err, {}) /\ UNCHANGED fs
Accept == Answer("ok", {})

Lookup(p) ==
    /\ Asked("lookup", <<p>>) /\ Named(p)
    /\ \/ Exists(p) /\ Answer("ok", {fs[p]}) /\ UNCHANGED fs
       \/ ~Exists(p) /\ Refuse("ENOENT")

Readdir(p) ==
    /\ Asked("readdir", <<p>>) /\ IsDir(p)
    /\ Answer("ok", Entries(p))
    /\ UNCHANGED fs

Make(op, p, what) ==
    /\ Asked(op, <<p>>) /\ Named(p)
    /\ \/ Exists(p) /\ Refuse("EEXIST")
       \/ ~Exists(p) /\ Accept /\ fs' = [fs EXCEPT ![p] = what]

Create(p) == Make("create", p, "new")
Mknod(p) == Make("mknod", p, "new")
Symlink(p) == Make("symlink", p, "new")
Mkdir(p) == Make("mkdir", p, "dir")

\* Another name for the file at p.
Link(p, q) ==
    /\ Asked("link", <<p, q>>) /\ IsFile(p) /\ Named(q)
    /\ \/ Exists(q) /\ Refuse("EEXIST")
       \/ ~Exists(q) /\ Accept /\ fs' = [fs EXCEPT ![q] = fs[p]]

Unlink(p) ==
    /\ Asked("unlink", <<p>>) /\ Named(p)
    /\ \/ ~Exists(p) /\ Refuse("ENOENT")
       \/ IsFile(p) /\ Accept /\ fs' = [fs EXCEPT ![p] = "none"]

Rmdir(p) ==
    /\ Asked("rmdir", <<p>>) /\ Named(p)
    /\ \/ ~Exists(p) /\ Refuse("ENOENT")
       \/ IsDir(p) /\ Entries(p) # {} /\ Refuse("ENOTEMPTY")
       \/ IsDir(p) /\ Entries(p) = {} /\ Accept /\ fs' = [fs EXCEPT ![p] = "none"]

Write(p) ==
    /\ Asked("write", <<p>>) /\ IsFile(p)
    /\ Accept
    /\ fs' = [fs EXCEPT ![p] = "new"]

\* Calls that change nothing here: attributes, and a new scan of a directory.
Setattr(p) == Asked("setattr", <<p>>) /\ Exists(p) /\ Accept /\ UNCHANGED fs
Refresh(p) == Asked("refresh", <<p>>) /\ IsDir(p) /\ Accept /\ UNCHANGED fs

\* The tree with what is at and under p moved to q.
Moved(p, q) ==
    [r \in Path |->
        CASE r = q \/ r \in Under(q) ->
               LET from == p \o SubSeq(r, Len(q) + 1, Len(r))
               IN  IF from \in Path THEN fs[from] ELSE "none"
          [] r = p \/ r \in Under(p) -> "none"
          [] OTHER -> fs[r]]

Swapped(p, q) ==
    [r \in Path |->
        IF r = p \/ r \in Under(p) THEN Moved(q, p)[r]
        ELSE IF r = q \/ r \in Under(q) THEN Moved(p, q)[r]
        ELSE fs[r]]

\* A directory may always be refused with EXDEV: callers such as mv(1) then
\* copy it.
Renaming(op, p, q) == Asked(op, <<p, q>>) /\ Named(p) /\ Named(q) /\ p # q

RefuseSource(p) ==
    \/ ~Exists(p) /\ Refuse("ENOENT")
    \/ IsDir(p) /\ Refuse("EXDEV")

Rename(p, q) ==
    /\ Renaming("rename", p, q)
    /\ \/ RefuseSource(p)
       \/ IsDir(p) /\ Entries(q) # {} /\ Refuse("ENOTEMPTY")
       \/ /\ Exists(p)
          /\ IsDir(p) => Entries(q) = {}
          /\ Accept
          /\ fs' = Moved(p, q)

RenameNoreplace(p, q) ==
    /\ Renaming("noreplace", p, q)
    /\ \/ RefuseSource(p)
       \/ Exists(p) /\ Exists(q) /\ Refuse("EEXIST")
       \/ Exists(p) /\ ~Exists(q) /\ Accept /\ fs' = Moved(p, q)

RenameExchange(p, q) ==
    /\ Renaming("exchange", p, q)
    /\ \/ RefuseSource(p)
       \/ Exists(p) /\ Exists(q) /\ Accept /\ fs' = Swapped(p, q)

\* The file system is unmounted and mounted again: nothing changes.
Remount == Asked("mount", << >>) /\ Accept /\ UNCHANGED fs

Init ==
    /\ fs \in [Path -> Content \cup {"none", "dir"}]
    /\ IsDir(Base)
    /\ \A p \in Path \ {Base} : Exists(p) => IsDir(Parent(p))
    /\ reply = [op |-> "mount", args |-> << >>, err |-> "ok", val |-> {}]

Next ==
    \/ \E p \in Path :
          \/ Lookup(p) \/ Readdir(p)
          \/ Create(p) \/ Mknod(p) \/ Symlink(p) \/ Mkdir(p)
          \/ Unlink(p) \/ Rmdir(p)
          \/ Write(p) \/ Setattr(p) \/ Refresh(p)
    \/ \E p, q \in Path :
          Link(p, q) \/ Rename(p, q) \/ RenameNoreplace(p, q) \/ RenameExchange(p, q)
    \/ Remount

Spec == Init /\ [][Next]_vars
=============================================================================
