---------------------------- MODULE Passthrough ----------------------------
(***************************************************************************)
(* Open, create and release of regular files with FUSE passthrough         *)
(* (src/src/overlay.rs).  fuser serves requests on several threads; these  *)
(* handlers give up OverlayFs.inner before they work on inode_backings,    *)
(* fh_to_ino and open_files, each of which has a lock of its own, so they  *)
(* interleave between locks.  A thread's label says which locks it holds:  *)
(* at "insert" it still has inode_backings, and at "uncount" a release     *)
(* still has fh_to_ino while it asks for inode_backings.  open_files is    *)
(* only ever locked for one step.                                          *)
(*                                                                         *)
(* A backing id stands for the file the kernel reads and writes instead of *)
(* asking the daemon: backed[id] is the layer that file is on.  Handles    *)
(* that the daemon has answered with, and the kernel has not released, are *)
(* in handles; backing 0 means no passthrough.                             *)
(***************************************************************************)
EXTENDS Integers, FiniteSets, Maps

CONSTANTS
    Threads,        \* fuser's worker threads
    Inos,           \* FUSE numbers of regular files
    OnLower,        \* those that exist, on a lower layer, when it all starts
    MaxFh,          \* bound: file handles ever given out
    Writing,        \* may files be opened for writing?
    BackingFails    \* may the kernel refuse to register a backing file?

ASSUME ThreadsAssumption == IsFiniteSet(Threads)
ASSUME InosAssumption == Inos # {} /\ OnLower \subseteq Inos
ASSUME BoundAssumption == MaxFh \in Nat
ASSUME FlagAssumption == Writing \in BOOLEAN /\ BackingFails \in BOOLEAN

VARIABLES
    layer,          \* where each file is: on no layer, a lower one, the upper one
    enabled,        \* OverlayFs.passthrough_enabled
    inode_backings, \* OverlayFs.inode_backings: number -> backing id and count
    fh_to_ino,      \* OverlayFs.fh_to_ino
    open_files,     \* OverlayFs.open_files: handle -> layer of its descriptor
    backed,         \* backing id -> layer of the file registered under it
    next_fh,        \* OverlayFs.next_fh
    handles,        \* handles the kernel holds
    pc, req         \* where each thread is, and the request it serves

tables == <<inode_backings, fh_to_ino, open_files>>
vars == <<layer, enabled, inode_backings, fh_to_ino, open_files, backed,
          next_fh, handles, pc, req>>

Fh == 1 .. MaxFh
Id == 0 .. 2 * MaxFh
Where == {"none", "lower", "upper"}
Backing == [id : Id, count : Nat]
Handle == [ino : Inos, write : BOOLEAN, backing : Id]
Request == [ino : Inos, write : BOOLEAN, fd : Where, id : Id, fh : 0 .. MaxFh]

Label == {"idle", "slow", "maybe", "check", "backing", "recheck", "insert",
          "record", "plain", "release", "uncount", "close"}

\* Thread t goes on at label l with request r.
Go(t, l, r) == pc' = [pc EXCEPT ![t] = l] /\ req' = [req EXCEPT ![t] = r]

\* Handles given out or about to be: the bound on next_fh.
Pending == Cardinality({t \in Threads :
                        pc[t] \notin {"idle", "record", "release", "uncount", "close"}})

\* Mutant: an open does not give inode_backings back before it asks for
\* fh_to_ino.
BackingsLockedLate == \E t \in Threads : pc[t] \in {"insert", "record"}

\* An open that has counted itself gives inode_backings back only when it
\* goes on.
BackingsLocked == \E t \in Threads : pc[t] = "insert"

\* The guard of a release is a temporary of its if let, and lives to the end
\* of the block that locks inode_backings.
FhLocked == \E t \in Threads : pc[t] = "uncount"

-----------------------------------------------------------------------------
(* open *)

\* The fast path, under the read lock: no copy-up is needed.
Open(t, i, wr) ==
    /\ pc[t] = "idle"
    /\ layer[i] # "none"
    /\ wr => Writing
    /\ next_fh + Pending <= MaxFh
    /\ LET r == [ino |-> i, write |-> wr, fd |-> layer[i], id |-> 0, fh |-> 0]
       IN  Go(t, IF wr /\ layer[i] = "lower" THEN "slow" ELSE "maybe", r)
    /\ UNCHANGED <<layer, enabled, tables, backed, next_fh, handles>>

\* The slow path, under the write lock: get_node_up, then open.
OpenSlow(t) ==
    /\ pc[t] = "slow"
    /\ layer' = [layer EXCEPT ![req[t].ino] = "upper"]
    /\ Go(t, "maybe", [req[t] EXCEPT !.fd = "upper"])
    /\ UNCHANGED <<enabled, tables, backed, next_fh, handles>>

\* The entry's count goes up and the open uses its backing.
Reuse(t) ==
    LET i == req[t].ino
        b == inode_backings[i]
    IN  /\ inode_backings' = [inode_backings EXCEPT ![i].count = @ + 1]
        /\ Go(t, "insert", [req[t] EXCEPT !.id = b.id])

\* reply_open_maybe_passthrough: is passthrough still on?
Maybe(t) ==
    /\ pc[t] = "maybe"
    /\ Go(t, IF enabled THEN "check" ELSE "plain", req[t])
    /\ UNCHANGED <<layer, enabled, tables, backed, next_fh, handles>>

\* Is there a backing for the inode?
Check(t) ==
    /\ pc[t] = "check"
    /\ ~BackingsLocked
    /\ \/ req[t].ino \in DOMAIN inode_backings /\ Reuse(t)
       \/ /\ req[t].ino \notin DOMAIN inode_backings
          /\ Go(t, "backing", req[t])
          /\ UNCHANGED inode_backings
    /\ UNCHANGED <<layer, enabled, fh_to_ino, open_files, backed, next_fh, handles>>

NewId == Cardinality(DOMAIN backed) + 1

\* open_backing: the kernel registers the file, or refuses.
OpenBacking(t) ==
    /\ pc[t] = "backing"
    /\ \/ /\ NewId \in Id
          /\ backed' = Put(backed, NewId, req[t].fd)
          /\ next_fh' = next_fh + 1
          /\ Go(t, "recheck", [req[t] EXCEPT !.id = NewId, !.fh = next_fh])
          /\ UNCHANGED enabled
       \/ /\ BackingFails
          /\ enabled' = FALSE
          /\ Go(t, "plain", req[t])
          /\ UNCHANGED <<backed, next_fh>>
    /\ UNCHANGED <<layer, tables, handles>>

\* Mutant: the second check counts the open but keeps its own backing.
RecheckOwnId(t) ==
    LET i == req[t].ino
        b == IF i \in DOMAIN inode_backings THEN inode_backings[i]
             ELSE [id |-> req[t].id, count |-> 0]
    IN  /\ pc[t] = "recheck"
        /\ ~BackingsLocked
        /\ inode_backings' = Put(inode_backings, i, [b EXCEPT !.count = @ + 1])
        /\ Go(t, "insert", req[t])
        /\ UNCHANGED <<layer, enabled, fh_to_ino, open_files, backed, next_fh, handles>>

\* Another thread may have registered one since.
Recheck(t) ==
    LET i == req[t].ino
    IN  /\ pc[t] = "recheck"
        /\ ~BackingsLocked
        /\ \/ i \in DOMAIN inode_backings /\ Reuse(t)
           \/ /\ i \notin DOMAIN inode_backings
              /\ inode_backings' = Put(inode_backings, i, [id |-> req[t].id, count |-> 1])
              /\ Go(t, "insert", req[t])
        /\ UNCHANGED <<layer, enabled, fh_to_ino, open_files, backed, next_fh, handles>>

\* Mutant: an open that reuses a backing gets no handle number.
NumberedNever(t) == req[t].fh

\* The handle that thread t answers with; the reuse of the first check takes
\* its number only now.
Numbered(t) == IF req[t].fh = 0 THEN next_fh ELSE req[t].fh

\* inode_backings is given back, and open_files gets the descriptor.
Insert(t) ==
    LET fh == Numbered(t)
    IN  /\ pc[t] = "insert"
        /\ open_files' = Put(open_files, fh, req[t].fd)
        /\ next_fh' = IF req[t].fh = 0 THEN next_fh + 1 ELSE next_fh
        /\ Go(t, "record", [req[t] EXCEPT !.fh = fh])
        /\ UNCHANGED <<layer, enabled, inode_backings, fh_to_ino, backed, handles>>

\* fh_to_ino gets the handle, then the kernel does.  Nobody else knows the
\* handle before that.
Record(t) ==
    LET fh == req[t].fh
    IN  /\ pc[t] = "record"
        /\ ~FhLocked
        /\ fh_to_ino' = Put(fh_to_ino, fh, req[t].ino)
        /\ handles' = Put(handles, fh, [ino |-> req[t].ino, write |-> req[t].write,
                                        backing |-> req[t].id])
        /\ Go(t, "idle", req[t])
        /\ UNCHANGED <<layer, enabled, inode_backings, open_files, backed, next_fh>>

\* An open without passthrough.
Plain(t) ==
    /\ pc[t] = "plain"
    /\ open_files' = Put(open_files, next_fh, req[t].fd)
    /\ handles' = Put(handles, next_fh, [ino |-> req[t].ino, write |-> req[t].write,
                                         backing |-> 0])
    /\ next_fh' = next_fh + 1
    /\ Go(t, "idle", req[t])
    /\ UNCHANGED <<layer, enabled, inode_backings, fh_to_ino, backed>>

-----------------------------------------------------------------------------
(* create holds inner to its end, and nobody can name the new file before. *)
(* It locks the tables one after the other, and who holds one of them asks *)
(* for no lock on inner.                                                   *)

CreatePassthrough(t, i) ==
    /\ enabled
    /\ ~BackingsLocked /\ ~FhLocked
    /\ NewId \in Id
    /\ backed' = Put(backed, NewId, "upper")
    /\ inode_backings' = Put(inode_backings, i, [id |-> NewId, count |-> 1])
    /\ fh_to_ino' = Put(fh_to_ino, next_fh, i)
    /\ handles' = Put(handles, next_fh, [ino |-> i, write |-> TRUE, backing |-> NewId])
    /\ UNCHANGED enabled

CreatePlain(t, i) ==
    /\ ~enabled \/ BackingFails
    /\ enabled' = FALSE
    /\ handles' = Put(handles, next_fh, [ino |-> i, write |-> TRUE, backing |-> 0])
    /\ UNCHANGED <<backed, inode_backings, fh_to_ino>>

Create(t, i) ==
    /\ pc[t] = "idle"
    /\ layer[i] = "none"
    /\ Writing
    /\ next_fh + Pending <= MaxFh
    /\ CreatePassthrough(t, i) \/ CreatePlain(t, i)
    /\ layer' = [layer EXCEPT ![i] = "upper"]
    /\ open_files' = Put(open_files, next_fh, "upper")
    /\ next_fh' = next_fh + 1
    /\ UNCHANGED <<pc, req>>

-----------------------------------------------------------------------------
(* release *)

\* The kernel closes the file and sends RELEASE.
Release(t, fh) ==
    /\ pc[t] = "idle"
    /\ fh \in DOMAIN handles
    /\ handles' = Drop(handles, fh)
    /\ Go(t, "release", [ino |-> handles[fh].ino, write |-> handles[fh].write,
                         fd |-> "none", id |-> 0, fh |-> fh])
    /\ UNCHANGED <<layer, enabled, tables, backed, next_fh>>

\* Mutant: an entry used by several handles is not counted down.
DroppedOnce(i) ==
    IF i \in DOMAIN inode_backings /\ inode_backings[i].count = 1
    THEN Drop(inode_backings, i)
    ELSE inode_backings

\* The count of the inode's entry after one handle less.
Dropped(i) ==
    IF i \notin DOMAIN inode_backings THEN inode_backings
    ELSE IF inode_backings[i].count = 1 THEN Drop(inode_backings, i)
    ELSE [inode_backings EXCEPT ![i].count = @ - 1]

\* The handle leaves fh_to_ino.  If it was there, fh_to_ino stays locked.
ReleaseBacking(t) ==
    LET fh == req[t].fh
    IN  /\ pc[t] = "release"
        /\ ~FhLocked
        /\ fh_to_ino' = Drop(fh_to_ino, fh)
        /\ IF fh \in DOMAIN fh_to_ino
           THEN Go(t, "uncount", [req[t] EXCEPT !.ino = fh_to_ino[fh]])
           ELSE Go(t, "close", req[t])
        /\ UNCHANGED <<layer, enabled, inode_backings, open_files, backed, next_fh, handles>>

\* One user less; both locks are given back.
Uncount(t) ==
    /\ pc[t] = "uncount"
    /\ ~BackingsLocked
    /\ inode_backings' = Dropped(req[t].ino)
    /\ Go(t, "close", req[t])
    /\ UNCHANGED <<layer, enabled, fh_to_ino, open_files, backed, next_fh, handles>>

ReleaseFile(t) ==
    /\ pc[t] = "close"
    /\ open_files' = Drop(open_files, req[t].fh)
    /\ Go(t, "idle", req[t])
    /\ UNCHANGED <<layer, enabled, inode_backings, fh_to_ino, backed, next_fh, handles>>

-----------------------------------------------------------------------------

Init ==
    /\ layer = [i \in Inos |-> IF i \in OnLower THEN "lower" ELSE "none"]
    /\ enabled = TRUE
    /\ inode_backings = EmptyMap
    /\ fh_to_ino = EmptyMap
    /\ open_files = EmptyMap
    /\ backed = EmptyMap
    /\ next_fh = 1
    /\ handles = EmptyMap
    /\ pc = [t \in Threads |-> "idle"]
    /\ req \in [Threads -> {[ino |-> i, write |-> FALSE, fd |-> "none", id |-> 0, fh |-> 0] :
                            i \in {CHOOSE i \in Inos : TRUE}}]

\* What a thread does once it has a request.
Serve(t) ==
    \/ OpenSlow(t) \/ Maybe(t) \/ Check(t) \/ OpenBacking(t) \/ Recheck(t)
    \/ Insert(t) \/ Record(t) \/ Plain(t)
    \/ ReleaseBacking(t) \/ Uncount(t) \/ ReleaseFile(t)

Next ==
    \E t \in Threads :
        \/ \E i \in Inos, wr \in BOOLEAN : Open(t, i, wr)
        \/ \E i \in Inos : Create(t, i)
        \/ \E fh \in Fh : Release(t, fh)
        \/ Serve(t)

\* Threads go on with their requests; users need not make any.  Weak fairness
\* does for the locks too: MaxFh bounds how often others take them.
Spec == Init /\ [][Next]_vars /\ \A t \in Threads : WF_vars(Serve(t))

-----------------------------------------------------------------------------
(* Properties. *)

\* Types.
TypeOK ==
    /\ layer \in [Inos -> Where]
    /\ enabled \in BOOLEAN
    /\ IsMap(inode_backings, Inos, Backing)
    /\ IsMap(fh_to_ino, Fh, Inos)
    /\ IsMap(open_files, Fh, Where)
    /\ IsMap(backed, Id, Where)
    /\ next_fh \in 1 .. MaxFh + 1
    /\ IsMap(handles, Fh, Handle)
    /\ pc \in [Threads -> Label]
    /\ req \in [Threads -> Request]

\* Handles that release will uncount, and the threads that have counted
\* themselves and have no such handle yet, or have it no more.
HandlesOf(i) == {fh \in DOMAIN fh_to_ino : fh_to_ino[fh] = i}
Counted(i) == {t \in Threads : pc[t] \in {"insert", "record", "uncount"} /\ req[t].ino = i}

\* inode_backings counts, for each inode, the handles that release will
\* uncount, the opens about to become such handles and the releases about to
\* uncount one: no race between the two checks of an open and a release
\* leaks an entry or drops one in use.
CountsOpens ==
    \A i \in Inos :
        LET users == Cardinality(HandlesOf(i)) + Cardinality(Counted(i))
        IN  IF i \in DOMAIN inode_backings
            THEN inode_backings[i].count = users /\ users > 0
            ELSE users = 0

\* "kernel requires same backing for concurrent opens of the same inode":
\* two handles of an inode that are open at once, and have a backing, have
\* the same one, however their opens and the releases of others interleave.
SameBacking ==
    \A g, h \in {f \in DOMAIN handles : handles[f].backing # 0} :
        handles[g].ino = handles[h].ino => handles[g].backing = handles[h].backing

\* Lower layers are read-only: a file opened for writing is backed by the
\* upper layer.
WritesGoUp ==
    \A h \in DOMAIN handles :
        handles[h].write /\ handles[h].backing # 0 => backed[handles[h].backing] = "upper"

\* Every request is answered: no open that holds inode_backings and no release
\* that holds fh_to_ino waits for ever for the other's lock.
Answered == \A t \in Threads : pc[t] # "idle" ~> pc[t] = "idle"
=============================================================================
