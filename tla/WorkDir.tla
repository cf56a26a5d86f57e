------------------------------ MODULE WorkDir ------------------------------
(***************************************************************************)
(* The work directory, where copy-up (src/src/copyup.rs), create over a    *)
(* whiteout, mkdir and hide_node (src/src/overlay.rs) put their            *)
(* temporaries before they are renamed into place or deleted, across       *)
(* failures of system calls and restarts of the process.  Handlers hold    *)
(* OverlayFs.inner for writing, so there is one operation at a time; a     *)
(* system call is a step, because the process can die between any two.     *)
(*                                                                         *)
(* Temporaries are named by a counter that starts at 1 in every process;   *)
(* main.rs opens the work directory as it is.                              *)
(***************************************************************************)
EXTENDS Integers, Maps

CONSTANTS
    Files,      \* regular files of the lower layers
    Dirs,       \* directories that users make
    Len,        \* the length of each file in blocks
    MaxLen,     \* the largest length
    End,        \* marks a block past the end of a file
    MaxName,    \* bound: temporaries of one process
    Fails,      \* may system calls fail?
    Restarts    \* may the process end and another be started?

Block == 1 .. MaxLen

\* What a file holds: in each block whose data it is, or nothing past its end.
Data == [Block -> Files \cup {End}]

ASSUME LenAssumption == MaxLen \in Nat /\ Len \in [Files -> Block]
ASSUME EndAssumption == End \notin Files
ASSUME NameAssumption == MaxName \in Nat
ASSUME FlagAssumption == Fails \in BOOLEAN /\ Restarts \in BOOLEAN

VARIABLES
    wd_counter, \* OverlayInner.wd_counter
    work,       \* the work directory: name -> temporary
    upper,      \* files on the upper layer, with their data
    dirs,       \* directories on the upper layer: do they hold whiteouts?
    gone,       \* lower files that were removed, whether made again or not
    first,      \* history: is it still the first process?
    pc,         \* where the running operation is
    op          \* its temporary's name, its file or directory, its progress

vars == <<wd_counter, work, upper, dirs, gone, first, pc, op>>

Name == 1 .. MaxName
Blank == [b \in Block |-> End]
Copy(f) == [b \in Block |-> IF b <= Len[f] THEN f ELSE End]

\* A temporary: a file with data, or a directory that is empty or not.
Temp == [dir : BOOLEAN, full : BOOLEAN, data : Data]
TempFile(data) == [dir |-> FALSE, full |-> FALSE, data |-> data]
TempDir(full) == [dir |-> TRUE, full |-> full, data |-> Blank]

Label == {"idle", "open", "copy", "created", "made", "hidden"}
Op == [name : Name, of : Files \cup Dirs, at : 0 .. MaxLen]

\* Mutant: the counter does not advance.
AllocateSame(x) ==
    /\ pc = "idle"
    /\ op' = [name |-> wd_counter, of |-> x, at |-> 0]
    /\ UNCHANGED wd_counter

\* next_wd_name and next_wd_counter.
Allocate(x) ==
    /\ pc = "idle"
    /\ wd_counter <= MaxName
    /\ wd_counter' = wd_counter + 1
    /\ op' = [name |-> wd_counter, of |-> x, at |-> 0]

-----------------------------------------------------------------------------
(* copyup of a regular file *)

CopyUp(f) ==
    /\ f \notin DOMAIN upper \cup gone
    /\ Allocate(f)
    /\ pc' = "open"
    /\ UNCHANGED <<work, upper, dirs, gone, first>>

\* Mutant: the temporary is taken to be there.
OpenTempAssumed ==
    /\ pc = "open"
    /\ pc' = "copy"
    /\ UNCHANGED <<wd_counter, work, upper, dirs, gone, first, op>>

\* O_CREAT|O_WRONLY: a file that is there is opened as it is.
OpenTemp ==
    LET n == op.name
    IN  /\ pc = "open"
        /\ \/ n \notin DOMAIN work /\ work' = Put(work, n, TempFile(Blank)) /\ pc' = "copy"
           \/ n \in DOMAIN work /\ ~work[n].dir /\ pc' = "copy" /\ UNCHANGED work
           \/ n \in DOMAIN work /\ work[n].dir /\ pc' = "idle" /\ UNCHANGED work
        /\ UNCHANGED <<wd_counter, upper, dirs, gone, first, op>>

\* Mutant: the buffer is written whole where the last read was short.
CopyBlockWhole ==
    LET n == op.name
        b == op.at + 1
    IN  /\ pc = "copy"
        /\ op.at < Len[op.of]
        /\ work' = [work EXCEPT ![n] = TempFile([c \in Block |->
                       IF c \in {b, b + 1} THEN op.of ELSE work[n].data[c]])]
        /\ op' = [op EXCEPT !.at = b]
        /\ UNCHANGED <<wd_counter, upper, dirs, gone, first, pc>>

\* copy_data, block by block from the start.
CopyBlock ==
    LET n == op.name
        b == op.at + 1
    IN  /\ pc = "copy"
        /\ op.at < Len[op.of]
        /\ work' = [work EXCEPT ![n] = TempFile([work[n].data EXCEPT ![b] = op.of])]
        /\ op' = [op EXCEPT !.at = b]
        /\ UNCHANGED <<wd_counter, upper, dirs, gone, first, pc>>

\* An open, the copy, or finding the destination's directory fails: the
\* handler returns, and a temporary that it has made stays.
CopyFails ==
    /\ Fails
    /\ pc \in {"open", "copy"}
    /\ pc' = "idle"
    /\ UNCHANGED <<wd_counter, work, upper, dirs, gone, first, op>>

\* Mutant: an error of copy_data is ignored.
PublishAnyway ==
    /\ pc = "copy"
    /\ upper' = Put(upper, op.of, work[op.name].data)
    /\ work' = Drop(work, op.name)
    /\ pc' = "idle"
    /\ UNCHANGED <<wd_counter, dirs, gone, first, op>>

\* renameat into place.
Publish ==
    /\ pc = "copy"
    /\ op.at = Len[op.of]
    /\ upper' = Put(upper, op.of, work[op.name].data)
    /\ work' = Drop(work, op.name)
    /\ pc' = "idle"
    /\ UNCHANGED <<wd_counter, dirs, gone, first, op>>

\* It fails, and the temporary is unlinked.
PublishFails ==
    /\ Fails
    /\ pc = "copy"
    /\ op.at = Len[op.of]
    /\ work' = Drop(work, op.name)
    /\ pc' = "idle"
    /\ UNCHANGED <<wd_counter, upper, dirs, gone, first, op>>

-----------------------------------------------------------------------------
(* create of a name that a whiteout hides *)

\* openat with the user's flags and O_CREAT.  A temporary that is there is
\* opened as it is, emptied with O_TRUNC, refused with O_EXCL.
CreateOver(f, flag) ==
    LET n == wd_counter
    IN  /\ f \in gone \ DOMAIN upper
        /\ Allocate(f)
        /\ IF n \in DOMAIN work /\ (work[n].dir \/ flag = "O_EXCL")
           THEN pc' = "idle" /\ UNCHANGED work
           ELSE /\ pc' = "created"
                /\ work' = IF n \in DOMAIN work /\ flag # "O_TRUNC" THEN work
                           ELSE Put(work, n, TempFile(Blank))
        /\ UNCHANGED <<upper, dirs, gone, first>>

PublishNew ==
    /\ pc = "created"
    /\ upper' = Put(upper, op.of, work[op.name].data)
    /\ work' = Drop(work, op.name)
    /\ pc' = "idle"
    /\ UNCHANGED <<wd_counter, dirs, gone, first, op>>

\* The rename fails, or the destination's directory is not found.
PublishNewFails ==
    /\ Fails
    /\ pc = "created"
    /\ work' = Drop(work, op.name)
    /\ pc' = "idle"
    /\ UNCHANGED <<wd_counter, upper, dirs, gone, first, op>>

-----------------------------------------------------------------------------
(* mkdir, and create_node_directory, which makes no opaque directory *)

\* mkdirat, and the sentinel file of an opaque directory.
Mkdir(d) ==
    /\ d \notin DOMAIN dirs
    /\ Allocate(d)
    /\ IF wd_counter \in DOMAIN work
       THEN pc' = "idle" /\ UNCHANGED work
       ELSE \E opaque \in BOOLEAN :
               pc' = "made" /\ work' = Put(work, wd_counter, TempDir(opaque))
    /\ UNCHANGED <<upper, dirs, gone, first>>

PublishDir ==
    /\ pc = "made"
    /\ dirs' = Put(dirs, op.of, work[op.name].full)
    /\ work' = Drop(work, op.name)
    /\ pc' = "idle"
    /\ UNCHANGED <<wd_counter, upper, gone, first, op>>

\* The rename fails, and rmdir of the temporary too if it is not empty.
PublishDirFails ==
    /\ Fails
    /\ pc = "made"
    /\ work' = IF work[op.name].full THEN work ELSE Drop(work, op.name)
    /\ pc' = "idle"
    /\ UNCHANGED <<wd_counter, upper, dirs, gone, first, op>>

\* A name in the directory is removed, which leaves a whiteout in it.
Fill(d) ==
    /\ pc = "idle"
    /\ d \in DOMAIN dirs
    /\ dirs' = [dirs EXCEPT ![d] = TRUE]
    /\ UNCHANGED <<wd_counter, work, upper, gone, first, pc, op>>

-----------------------------------------------------------------------------
(* hide_node, and the Drop of the hidden OvlNode *)

\* renameat replaces a temporary that is a file.
HideFile(f) ==
    /\ f \in DOMAIN upper
    /\ Allocate(f)
    /\ IF wd_counter \in DOMAIN work /\ work[wd_counter].dir
       THEN pc' = "idle" /\ UNCHANGED <<work, upper, gone>>
       ELSE /\ work' = Put(work, wd_counter, TempFile(upper[f]))
            /\ upper' = Drop(upper, f)
            /\ gone' = gone \cup {f}
            /\ pc' = "hidden"
    /\ UNCHANGED <<dirs, first>>

\* renameat replaces a temporary that is an empty directory.
HideDir(d) ==
    /\ d \in DOMAIN dirs
    /\ Allocate(d)
    /\ IF wd_counter \in DOMAIN work /\ (~work[wd_counter].dir \/ work[wd_counter].full)
       THEN pc' = "idle" /\ UNCHANGED <<work, dirs>>
       ELSE /\ work' = Put(work, wd_counter, TempDir(dirs[d]))
            /\ dirs' = Drop(dirs, d)
            /\ pc' = "hidden"
    /\ UNCHANGED <<upper, gone, first>>

\* unlinkat, which does not remove a directory that still holds whiteouts.
DropNode ==
    /\ pc = "hidden"
    /\ work' = IF work[op.name].full THEN work ELSE Drop(work, op.name)
    /\ pc' = "idle"
    /\ UNCHANGED <<wd_counter, upper, dirs, gone, first, op>>

\* The process ends, by umount or in the middle of an operation, and another
\* is started on the same directories.
Restart ==
    /\ Restarts
    /\ wd_counter' = 1
    /\ first' = FALSE
    /\ pc' = "idle"
    /\ UNCHANGED <<work, upper, dirs, gone, op>>

-----------------------------------------------------------------------------

Init ==
    /\ wd_counter = 1
    /\ work = EmptyMap
    /\ upper = EmptyMap
    /\ dirs = EmptyMap
    /\ gone = {}
    /\ first = TRUE
    /\ pc = "idle"
    /\ op \in [name : {0}, of : {End}, at : {0}]

Next ==
    \/ \E f \in Files : CopyUp(f) \/ HideFile(f)
    \/ OpenTemp \/ CopyBlock \/ CopyFails \/ Publish \/ PublishFails
    \/ \E f \in Files, flag \in {"none", "O_TRUNC", "O_EXCL"} : CreateOver(f, flag)
    \/ PublishNew \/ PublishNewFails
    \/ \E d \in Dirs : Mkdir(d) \/ Fill(d) \/ HideDir(d)
    \/ PublishDir \/ PublishDirFails
    \/ DropNode
    \/ Restart

Spec == Init /\ [][Next]_vars

-----------------------------------------------------------------------------
(* Properties. *)

\* Types, and what each operation may rely on: its temporary is there.
TypeOK ==
    /\ wd_counter \in 1 .. MaxName + 1
    /\ IsMap(work, Name, Temp)
    /\ IsMap(upper, Files, Data)
    /\ IsMap(dirs, Dirs, BOOLEAN)
    /\ gone \subseteq Files
    /\ first \in BOOLEAN
    /\ pc \in Label
    /\ pc # "idle" => op \in Op
    /\ pc \in {"open", "copy"} => op.of \in Files
    /\ pc = "created" => op.of \in gone
    /\ pc = "made" => op.of \in Dirs
    /\ pc \in {"copy", "created", "made", "hidden"} => op.name \in DOMAIN work

\* A file that copy-up has put on the upper layer has all the blocks of the
\* lower file, wherever the process died and whatever it found in the work
\* directory: a copy is never short.
NeverTruncated ==
    \A f \in DOMAIN upper \ gone : \A b \in 1 .. Len[f] : upper[f][b] = f

\* "Copy a file from a lower layer to the upper layer": the copy is the file,
\* with nothing after its end; and a file that create has made is empty.
CopyIsExact ==
    \A f \in DOMAIN upper : upper[f] = IF f \in gone THEN Blank ELSE Copy(f)

\* It is that as long as the work directory was empty when the process
\* started, whichever copies failed since: no leftover of this process gets
\* into a later copy, or into a file made over a whiteout.
SessionExact == first => CopyIsExact

\* "Allocate a unique workdir temporary name": the name that a copy-up of the
\* first process is about to open is not in use.
NameIsFresh == first /\ pc = "open" => op.name \notin DOMAIN work
=============================================================================
