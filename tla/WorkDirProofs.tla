--------------------------- MODULE WorkDirProofs ---------------------------
(***************************************************************************)
(* Proofs about WorkDir, for every set of files, every length and every    *)
(* bound, with failures and restarts.                                      *)
(***************************************************************************)
EXTENDS WorkDir, MapTheorems, TLAPS

\* The running copy is good so far: its temporary is a file that starts with
\* the blocks copied.  A leftover of another process may follow them.
CopiedSoFar ==
    /\ pc = "open" => op.at = 0
    /\ pc = "copy" =>
          /\ op.at \in 0 .. Len[op.of]
          /\ \A b \in 1 .. op.at : work[op.name].data[b] = op.of

\* TypeOK and NeverTruncated are not inductive without CopiedSoFar.
Inv == TypeOK /\ NeverTruncated /\ CopiedSoFar

(* What opening TypeOK gives about the running operation.                  *)
LEMMA OpFacts ==
    ASSUME TypeOK, pc # "idle"
    PROVE  /\ op.name \in Name
           /\ op.at \in 0 .. MaxLen
           /\ op = [name |-> op.name, of |-> op.of, at |-> op.at]
BY DEF TypeOK, Op

(* A temporary of the work directory is a record of its type.              *)
LEMMA TempFacts ==
    ASSUME TypeOK, NEW n \in DOMAIN work
    PROVE  work[n].data \in Data /\ work[n].full \in BOOLEAN
<1>1. work[n] \in Temp
  BY MapFacts DEF TypeOK
<1>. QED
  BY <1>1 DEF Temp

(* The two kinds of temporaries have their type.                           *)
LEMMA TempTypes ==
    /\ Blank \in Data
    /\ \A d \in Data : TempFile(d) \in Temp
    /\ \A b \in BOOLEAN : TempDir(b) \in Temp
<1>1. Blank \in Data
  BY DEF Blank, Data
<1>. QED
  BY <1>1 DEF Temp, TempFile, TempDir

(* next_wd_name gives a legal name, and leaves a legal counter.            *)
LEMMA AllocateType ==
    ASSUME TypeOK, NEW x \in Files \cup Dirs, Allocate(x)
    PROVE  /\ wd_counter' \in 1 .. MaxName + 1
           /\ wd_counter \in Name
           /\ op' \in Op /\ op'.of = x /\ op'.name = wd_counter
           /\ op'.at = 0
<1>1. wd_counter \in Name /\ 0 \in 0 .. MaxLen
  BY NameAssumption, LenAssumption DEF TypeOK, Allocate, Name
<1>. QED
  BY <1>1, NameAssumption DEF TypeOK, Allocate, Name, Op

LEMMA InitInv == Init => Inv
<1>. SUFFICES ASSUME Init PROVE Inv
  OBVIOUS
<1>1. \A S, T : IsMap(EmptyMap, S, T)
  BY DEF IsMap, EmptyMap
<1>2. DOMAIN EmptyMap = {}
  BY DEF EmptyMap
<1>. QED
  BY <1>1, <1>2, NameAssumption
     DEF Init, Inv, TypeOK, NeverTruncated, CopiedSoFar, Label

-----------------------------------------------------------------------------
(* One lemma for each step that writes a temporary or the upper layer.     *)

(* The work directory stays one when a temporary is made or removed.       *)
LEMMA PutTemp ==
    ASSUME TypeOK, NEW n \in Name, NEW t \in Temp
    PROVE  /\ IsMap(Put(work, n, t), Name, Temp)
           /\ DOMAIN Put(work, n, t) = DOMAIN work \cup {n}
           /\ Put(work, n, t)[n] = t
<1>1. IsMap(work, Name, Temp)
  BY DEF TypeOK
<1>2. IsMap(Put(work, n, t), Name, Temp)
  BY <1>1, PutMap
<1>3. DOMAIN Put(work, n, t) = DOMAIN work \cup {n}
  BY DEF Put
<1>4. Put(work, n, t)[n] = t
  BY DEF Put
<1>. QED
  BY <1>2, <1>3, <1>4

LEMMA DropTemp ==
    ASSUME TypeOK, NEW n, work' = Drop(work, n)
    PROVE  IsMap(work', Name, Temp)
<1>1. IsMap(work, Name, Temp)
  BY DEF TypeOK
<1>. QED
  BY <1>1, DropMap

(* A file has at least one block, and no more than MaxLen.                 *)
LEMMA LenFacts ==
    ASSUME NEW f \in Files
    PROVE  Len[f] \in Nat \ {0} /\ Len[f] <= MaxLen
BY LenAssumption DEF Block

(* OpenTemp: nothing is copied yet, whatever the temporary holds.          *)
LEMMA OpenTempInv ==
    ASSUME Inv, OpenTemp
    PROVE  Inv'
<1>. USE DEF Inv
<1>1. op.name \in Name /\ op.of \in Files /\ op.at = 0
  BY OpFacts DEF OpenTemp, TypeOK, CopiedSoFar
<1>2. IsMap(work', Name, Temp) /\ (pc' = "copy" => op.name \in DOMAIN work')
  <2>1. CASE work' = Put(work, op.name, TempFile(Blank))
    <3>1. TempFile(Blank) \in Temp
      BY TempTypes
    <3>2. /\ IsMap(Put(work, op.name, TempFile(Blank)), Name, Temp)
          /\ op.name \in DOMAIN Put(work, op.name, TempFile(Blank))
      BY <1>1, <3>1, PutTemp
    <3>. QED
      BY <2>1, <3>2
  <2>2. CASE UNCHANGED work /\ (pc' = "copy" => op.name \in DOMAIN work)
    BY <2>2 DEF TypeOK
  <2>. QED
    BY <2>1, <2>2 DEF OpenTemp
<1>3. TypeOK'
  BY <1>2 DEF OpenTemp, TypeOK, Label
<1>4. NeverTruncated'
  BY DEF OpenTemp, NeverTruncated
<1>5. CopiedSoFar'
  <2>1. op' = op /\ pc' \in {"copy", "idle"}
    BY DEF OpenTemp
  <2>2. Len[op.of] \in Nat
    BY <1>1, LenFacts
  <2>. QED
    BY <1>1, <2>1, <2>2 DEF CopiedSoFar
<1>. QED
  BY <1>3, <1>4, <1>5

(* CopyBlock: the next block is the file's, and the earlier ones stay.     *)
LEMMA CopyBlockInv ==
    ASSUME Inv, CopyBlock
    PROVE  Inv'
<1>. USE DEF Inv
<1>. DEFINE n == op.name
            b == op.at + 1
            data == [work[n].data EXCEPT ![b] = op.of]
<1>1. /\ op.of \in Files /\ n \in Name /\ n \in DOMAIN work
      /\ op.at \in Nat /\ op.at < Len[op.of]
      /\ op = [name |-> n, of |-> op.of, at |-> op.at]
  BY OpFacts DEF CopyBlock, TypeOK
<1>2. Len[op.of] \in Nat /\ Len[op.of] <= MaxLen /\ MaxLen \in Nat
  BY <1>1, LenFacts, LenAssumption
<1>3. b \in Block /\ b \in 0 .. Len[op.of]
  BY <1>1, <1>2 DEF Block
<1>4. work[n].data \in Data
  BY <1>1, TempFacts
<1>5. /\ data \in Data
      /\ data[b] = op.of
      /\ \A c \in Block \ {b} : data[c] = work[n].data[c]
  BY <1>1, <1>3, <1>4 DEF Data
<1>6. TempFile(data) \in Temp
  BY <1>5, TempTypes
<1>7. work' = [work EXCEPT ![n] = TempFile(data)] /\ IsMap(work, Name, Temp)
  BY DEF CopyBlock, TypeOK
<1>8. /\ IsMap(work', Name, Temp)
      /\ DOMAIN work' = DOMAIN work
      /\ work'[n] = TempFile(data)
  <2>. HIDE DEF data
  <2>1. /\ IsMap([work EXCEPT ![n] = TempFile(data)], Name, Temp)
        /\ DOMAIN [work EXCEPT ![n] = TempFile(data)] = DOMAIN work
        /\ [work EXCEPT ![n] = TempFile(data)][n] = TempFile(data)
    BY <1>1, <1>6, <1>7, UpdateMap
  <2>. QED
    BY <1>7, <2>1
<1>9. op' = [name |-> n, of |-> op.of, at |-> b]
  BY <1>1 DEF CopyBlock
<1>10. TypeOK'
  <2>1. op' \in Op
    BY <1>1, <1>2, <1>3, <1>9 DEF Op
  <2>. QED
    BY <1>1, <1>8, <1>9, <2>1 DEF CopyBlock, TypeOK
<1>11. NeverTruncated'
  BY DEF CopyBlock, NeverTruncated
<1>12. CopiedSoFar'
  <2>1. \A c \in 1 .. op.at : work[n].data[c] = op.of
    BY DEF CopyBlock, CopiedSoFar
  <2>2. ASSUME NEW c \in 1 .. b
        PROVE  data[c] = op.of
    <3>1. c \in Block /\ (c # b => c \in 1 .. op.at)
      BY <1>1, <1>2, <1>3 DEF Block
    <3>. QED
      BY <1>5, <2>1, <3>1
  <2>3. work'[n].data = data
    BY <1>8 DEF TempFile
  <2>. HIDE DEF data, b, n
  <2>4. op'.at = b /\ op'.name = n /\ op'.of = op.of
    BY <1>9
  <2>5. pc' = "copy"
    BY DEF CopyBlock
  <2>. QED
    BY <1>3, <2>2, <2>3, <2>4, <2>5 DEF CopiedSoFar
<1>. QED
  BY <1>10, <1>11, <1>12

(* Publish: the blocks copied are all that the file has.                   *)
LEMMA PublishInv ==
    ASSUME Inv, Publish
    PROVE  Inv'
<1>. USE DEF Inv
<1>1. op.of \in Files /\ op.name \in DOMAIN work /\ op.at = Len[op.of]
  BY DEF Publish, TypeOK
<1>2. work[op.name].data \in Data
  BY <1>1, TempFacts
<1>3. IsMap(upper, Files, Data)
  BY DEF TypeOK
<1>4. upper' = Put(upper, op.of, work[op.name].data)
  BY DEF Publish
<1>5. /\ IsMap(upper', Files, Data)
      /\ DOMAIN upper' = DOMAIN upper \cup {op.of}
      /\ upper'[op.of] = work[op.name].data
      /\ \A f \in DOMAIN upper : f # op.of => upper'[f] = upper[f]
  BY <1>1, <1>2, <1>3, <1>4, PutMap
<1>6. IsMap(work', Name, Temp)
  BY DropTemp DEF Publish
<1>7. TypeOK'
  BY <1>5, <1>6 DEF Publish, TypeOK, Label
<1>8. NeverTruncated'
  <2>1. \A c \in 1 .. Len[op.of] : work[op.name].data[c] = op.of
    BY <1>1 DEF Publish, CopiedSoFar
  <2>. QED
    BY <1>5, <2>1 DEF NeverTruncated, Publish
<1>9. CopiedSoFar'
  BY DEF Publish, CopiedSoFar
<1>. QED
  BY <1>7, <1>8, <1>9

(* CreateOver makes a temporary file, finds one, or has its name refused.  *)
LEMMA CreateOverInv ==
    ASSUME Inv, NEW f \in Files, NEW flag, CreateOver(f, flag)
    PROVE  Inv'
<1>. USE DEF Inv
<1>1. /\ wd_counter' \in 1 .. MaxName + 1 /\ wd_counter \in Name
      /\ op' \in Op /\ op'.of = f /\ op'.name = wd_counter
  BY AllocateType DEF CreateOver
<1>2. /\ IsMap(work', Name, Temp)
      /\ pc' \in {"idle", "created"}
      /\ pc' = "created" => wd_counter \in DOMAIN work'
  <2>1. CASE work' = work /\ (pc' = "created" => wd_counter \in DOMAIN work)
    BY <2>1 DEF CreateOver, TypeOK
  <2>2. CASE work' = Put(work, wd_counter, TempFile(Blank))
    <3>1. TempFile(Blank) \in Temp
      BY TempTypes
    <3>2. PICK n \in Name : n = wd_counter
      BY <1>1
    <3>3. /\ IsMap(Put(work, n, TempFile(Blank)), Name, Temp)
          /\ n \in DOMAIN Put(work, n, TempFile(Blank))
      BY <3>1, PutTemp
    <3>. QED
      BY <2>2, <3>2, <3>3 DEF CreateOver
  <2>. QED
    BY <2>1, <2>2 DEF CreateOver
<1>3. f \in gone /\ UNCHANGED <<upper, dirs, gone, first>>
  BY DEF CreateOver
<1>4. TypeOK'
  BY <1>1, <1>2, <1>3 DEF TypeOK, Label
<1>. QED
  BY <1>2, <1>3, <1>4 DEF NeverTruncated, CopiedSoFar

(* PublishNew: the file is not a copy of the lower one.                    *)
LEMMA PublishNewInv ==
    ASSUME Inv, PublishNew
    PROVE  Inv'
<1>. USE DEF Inv
<1>1. /\ op.of \in Files /\ op.of \in gone /\ op.name \in DOMAIN work
      /\ pc' = "idle" /\ UNCHANGED <<wd_counter, dirs, gone, first, op>>
  BY DEF PublishNew, TypeOK
<1>2. work[op.name].data \in Data
  BY <1>1, TempFacts
<1>3. IsMap(upper, Files, Data)
  BY DEF TypeOK
<1>4. upper' = Put(upper, op.of, work[op.name].data)
  BY DEF PublishNew
<1>5. /\ IsMap(upper', Files, Data)
      /\ DOMAIN upper' = DOMAIN upper \cup {op.of}
      /\ \A f \in DOMAIN upper : f # op.of => upper'[f] = upper[f]
  BY <1>1, <1>2, <1>3, <1>4, PutMap
<1>6. IsMap(work', Name, Temp)
  BY DropTemp DEF PublishNew
<1>7. TypeOK'
  BY <1>1, <1>5, <1>6 DEF TypeOK, Label
<1>. QED
  BY <1>1, <1>5, <1>7 DEF NeverTruncated, CopiedSoFar

(* Mkdir makes a temporary directory, or finds its name in use.            *)
LEMMA MkdirInv ==
    ASSUME Inv, NEW d \in Dirs, Mkdir(d)
    PROVE  Inv'
<1>. USE DEF Inv
<1>1. /\ wd_counter' \in 1 .. MaxName + 1 /\ wd_counter \in Name
      /\ op' \in Op /\ op'.of = d /\ op'.name = wd_counter
  BY AllocateType DEF Mkdir
<1>2. /\ IsMap(work', Name, Temp)
      /\ pc' \in {"idle", "made"}
      /\ pc' = "made" => wd_counter \in DOMAIN work'
  <2>1. CASE pc' = "idle" /\ UNCHANGED work
    BY <2>1 DEF TypeOK
  <2>2. ASSUME NEW o \in BOOLEAN, pc' = "made",
               work' = Put(work, wd_counter, TempDir(o))
        PROVE  IsMap(work', Name, Temp) /\ wd_counter \in DOMAIN work'
    <3>1. TempDir(o) \in Temp
      BY TempTypes
    <3>2. /\ IsMap(Put(work, wd_counter, TempDir(o)), Name, Temp)
          /\ wd_counter \in DOMAIN Put(work, wd_counter, TempDir(o))
      BY <1>1, <3>1, PutTemp
    <3>. QED
      BY <2>2, <3>2
  <2>. QED
    BY <2>1, <2>2 DEF Mkdir
<1>3. TypeOK'
  BY <1>1, <1>2 DEF Mkdir, TypeOK, Label
<1>. QED
  BY <1>2, <1>3 DEF Mkdir, NeverTruncated, CopiedSoFar

(* HideFile moves a file of the upper layer to the work directory.         *)
LEMMA HideFileInv ==
    ASSUME Inv, NEW f \in Files, HideFile(f)
    PROVE  Inv'
<1>. USE DEF Inv
<1>1. /\ wd_counter' \in 1 .. MaxName + 1 /\ wd_counter \in Name
      /\ op' \in Op /\ op'.of = f /\ op'.name = wd_counter
  BY AllocateType DEF HideFile
<1>2. IsMap(upper, Files, Data) /\ f \in DOMAIN upper
  BY DEF HideFile, TypeOK
<1>3. CASE pc' = "idle" /\ UNCHANGED <<work, upper, gone>>
  <2>1. TypeOK'
    BY <1>1, <1>3 DEF HideFile, TypeOK, Label
  <2>. QED
    BY <1>3, <2>1 DEF NeverTruncated, CopiedSoFar
<1>4. CASE /\ pc' = "hidden"
           /\ work' = Put(work, wd_counter, TempFile(upper[f]))
           /\ upper' = Drop(upper, f)
           /\ gone' = gone \cup {f}
  <2>1. TempFile(upper[f]) \in Temp
    BY <1>2, MapFacts, TempTypes
  <2>2. /\ IsMap(Put(work, wd_counter, TempFile(upper[f])), Name, Temp)
        /\ wd_counter \in DOMAIN Put(work, wd_counter, TempFile(upper[f]))
    <3>1. wd_counter \in Name
      BY <1>1
    <3>2. \A t \in Temp : /\ IsMap(Put(work, wd_counter, t), Name, Temp)
                         /\ wd_counter \in DOMAIN Put(work, wd_counter, t)
      BY <3>1, PutTemp
    <3>. QED
      BY <2>1, <3>2
  <2>3. IsMap(Drop(upper, f), Files, Data)
    BY <1>2, DropMap
  <2>4. /\ DOMAIN upper' = DOMAIN upper \ {f}
        /\ \A g \in DOMAIN upper' : upper'[g] = upper[g]
    BY <1>4 DEF Drop
  <2>5. TypeOK'
    BY <1>1, <1>4, <2>2, <2>3 DEF HideFile, TypeOK, Label
  <2>. QED
    BY <1>4, <2>4, <2>5 DEF NeverTruncated, CopiedSoFar
<1>. QED
  BY <1>3, <1>4 DEF HideFile

(* HideDir moves a directory there.                                        *)
LEMMA HideDirInv ==
    ASSUME Inv, NEW d \in Dirs, HideDir(d)
    PROVE  Inv'
<1>. USE DEF Inv
<1>1. /\ wd_counter' \in 1 .. MaxName + 1 /\ wd_counter \in Name
      /\ op' \in Op /\ op'.of = d /\ op'.name = wd_counter
  BY AllocateType DEF HideDir
<1>2. IsMap(dirs, Dirs, BOOLEAN) /\ d \in DOMAIN dirs
  BY DEF HideDir, TypeOK
<1>3. CASE pc' = "idle" /\ UNCHANGED <<work, dirs>>
  <2>1. TypeOK'
    BY <1>1, <1>3 DEF HideDir, TypeOK, Label
  <2>. QED
    BY <1>3, <2>1 DEF HideDir, NeverTruncated, CopiedSoFar
<1>4. CASE /\ pc' = "hidden"
           /\ work' = Put(work, wd_counter, TempDir(dirs[d]))
           /\ dirs' = Drop(dirs, d)
  <2>1. TempDir(dirs[d]) \in Temp
    BY <1>2, MapFacts, TempTypes
  <2>2. /\ IsMap(Put(work, wd_counter, TempDir(dirs[d])), Name, Temp)
        /\ wd_counter \in DOMAIN Put(work, wd_counter, TempDir(dirs[d]))
    <3>1. wd_counter \in Name
      BY <1>1
    <3>2. \A t \in Temp : /\ IsMap(Put(work, wd_counter, t), Name, Temp)
                         /\ wd_counter \in DOMAIN Put(work, wd_counter, t)
      BY <3>1, PutTemp
    <3>. QED
      BY <2>1, <3>2
  <2>3. IsMap(Drop(dirs, d), Dirs, BOOLEAN)
    BY <1>2, DropMap
  <2>4. TypeOK'
    BY <1>1, <1>4, <2>2, <2>3 DEF HideDir, TypeOK, Label
  <2>. QED
    BY <1>4, <2>4 DEF HideDir, NeverTruncated, CopiedSoFar
<1>. QED
  BY <1>3, <1>4 DEF HideDir

-----------------------------------------------------------------------------

(* Every step keeps the invariant.                                         *)
LEMMA NextInv ==
    ASSUME Inv, [Next]_vars
    PROVE  Inv'
<1>. USE DEF Inv
<1>1. ASSUME NEW f \in Files, CopyUp(f)
      PROVE  Inv'
  <2>1. /\ wd_counter' \in 1 .. MaxName + 1
        /\ op' \in Op /\ op'.of = f /\ op'.at = 0
    BY <1>1, AllocateType DEF CopyUp
  <2>. QED
    BY <1>1, <2>1 DEF CopyUp, TypeOK, Label, NeverTruncated, CopiedSoFar
<1>2. CASE CopyFails
  BY <1>2 DEF CopyFails, TypeOK, Label, NeverTruncated, CopiedSoFar
<1>3. CASE PublishFails \/ PublishNewFails
  <2>1. IsMap(work', Name, Temp)
    BY <1>3, DropTemp DEF PublishFails, PublishNewFails
  <2>. QED
    BY <1>3, <2>1 DEF PublishFails, PublishNewFails, TypeOK, Label, NeverTruncated, CopiedSoFar
<1>4. CASE PublishDir
  <2>1. IsMap(work', Name, Temp)
    BY <1>4, DropTemp DEF PublishDir
  <2>2. IsMap(dirs, Dirs, BOOLEAN) /\ op.of \in Dirs
    BY <1>4 DEF PublishDir, TypeOK
  <2>3. work[op.name].full \in BOOLEAN
    BY <1>4, TempFacts DEF PublishDir, TypeOK
  <2>4. IsMap(Put(dirs, op.of, work[op.name].full), Dirs, BOOLEAN)
    BY <2>2, <2>3, PutMap
  <2>. QED
    BY <1>4, <2>1, <2>4 DEF PublishDir, TypeOK, Label, NeverTruncated, CopiedSoFar
<1>5. CASE PublishDirFails \/ DropNode
  <2>1. CASE UNCHANGED work
    BY <1>5, <2>1 DEF PublishDirFails, DropNode, TypeOK, Label, NeverTruncated,
                      CopiedSoFar
  <2>2. CASE work' = Drop(work, op.name)
    <3>1. IsMap(work', Name, Temp)
      BY <2>2, DropTemp
    <3>. QED
      BY <1>5, <3>1 DEF PublishDirFails, DropNode, TypeOK, Label, NeverTruncated,
                        CopiedSoFar
  <2>. QED
    BY <1>5, <2>1, <2>2 DEF PublishDirFails, DropNode
<1>6. ASSUME NEW d \in Dirs, Fill(d)
      PROVE  Inv'
  <2>1. IsMap(dirs, Dirs, BOOLEAN) /\ d \in DOMAIN dirs /\ TRUE \in BOOLEAN
    BY <1>6 DEF Fill, TypeOK
  <2>2. IsMap([dirs EXCEPT ![d] = TRUE], Dirs, BOOLEAN)
    BY <2>1, UpdateMap
  <2>. QED
    BY <1>6, <2>2 DEF Fill, TypeOK, NeverTruncated, CopiedSoFar
<1>7. CASE Restart
  <2>1. wd_counter' \in 1 .. MaxName + 1
    BY <1>7, NameAssumption DEF Restart
  <2>2. first' \in BOOLEAN
    BY <1>7, Zenon DEF Restart
  <2>. QED
    BY <1>7, <2>1, <2>2 DEF Restart, TypeOK, Label, NeverTruncated, CopiedSoFar
<1>8. CASE UNCHANGED vars
  BY <1>8 DEF vars, TypeOK, NeverTruncated, CopiedSoFar
<1>. QED
  BY <1>1, <1>2, <1>3, <1>4, <1>5, <1>6, <1>7, <1>8, OpenTempInv, CopyBlockInv,
     PublishInv, CreateOverInv, PublishNewInv, MkdirInv, HideFileInv, HideDirInv DEF Next

(* The work directory's state is well formed: a running operation's        *)
(* temporary is there, whatever failures and restarts came before.         *)
THEOREM WorkDirTypeCorrect == Spec => []TypeOK
<1>1. Inv => TypeOK
  BY DEF Inv
<1>. QED
  BY <1>1, InitInv, NextInv, PTL DEF Spec

(* copyup never publishes a short file: each file on the upper layer has   *)
(* every block of the lower file, across failures and restarts.            *)
THEOREM NeverTruncatedCorrect == Spec => []NeverTruncated
<1>1. Inv => NeverTruncated
  BY DEF Inv
<1>. QED
  BY <1>1, InitInv, NextInv, PTL DEF Spec

-----------------------------------------------------------------------------
(* The first process on an empty work directory. *)

\* The temporaries of the first process have the numbers it has counted, so
\* the next one is free.  A copy then starts from nothing: behind the blocks
\* copied its temporary is empty.
CountedNames ==
    /\ \A n \in DOMAIN work : n < wd_counter
    /\ pc # "idle" => op.name < wd_counter
    /\ pc = "open" => op.name \notin DOMAIN work

CopiedOnly ==
    /\ pc = "copy" =>
          /\ \A b \in Block : work[op.name].data[b] = IF b <= op.at THEN op.of ELSE End
          /\ op.of \notin gone
    /\ pc = "open" => op.of \notin gone
    /\ pc = "created" => work[op.name].data = Blank

SessionInv == first => CountedNames /\ CopiedOnly /\ CopyIsExact

(* Names are numbers, so that they can be compared with the counter.       *)
LEMMA NameFacts ==
    ASSUME TypeOK
    PROVE  wd_counter \in Nat /\ DOMAIN work \subseteq Nat /\ (pc # "idle" => op.name \in Nat)
<1>1. DOMAIN work \subseteq Name
  BY MapFacts DEF TypeOK
<1>2. pc # "idle" => op.name \in Name
  BY OpFacts
<1>. QED
  BY <1>1, <1>2, NameAssumption DEF TypeOK, Name

LEMMA InitSession == Init => SessionInv
BY DEF Init, SessionInv, CountedNames, CopiedOnly, CopyIsExact, EmptyMap

(* An operation takes a number that no temporary has.                      *)
LEMMA AllocateFresh ==
    ASSUME TypeOK, CountedNames, NEW x, Allocate(x)
    PROVE  /\ wd_counter \notin DOMAIN work
           /\ wd_counter' = wd_counter + 1
           /\ op' = [name |-> wd_counter, of |-> x, at |-> 0]
           /\ \A n \in DOMAIN work \cup {wd_counter} : n < wd_counter'
<1>1. wd_counter \in Nat /\ DOMAIN work \subseteq Nat
  BY NameFacts
<1>2. wd_counter' = wd_counter + 1 /\ op' = [name |-> wd_counter, of |-> x, at |-> 0]
  BY DEF Allocate
<1>3. wd_counter \notin DOMAIN work
  BY <1>1 DEF CountedNames
<1>4. \A n \in DOMAIN work \cup {wd_counter} : n < wd_counter'
  BY <1>1, <1>2 DEF CountedNames
<1>. QED
  BY <1>2, <1>3, <1>4

(* CopyUp opens that number next.                                          *)
LEMMA CopyUpSession ==
    ASSUME Inv, SessionInv, NEW f \in Files, CopyUp(f)
    PROVE  SessionInv'
<1>. SUFFICES ASSUME first PROVE (CountedNames /\ CopiedOnly /\ CopyIsExact)'
  BY DEF SessionInv, CopyUp
<1>1. TypeOK /\ CountedNames /\ CopyIsExact /\ Allocate(f)
  BY DEF Inv, SessionInv, CopyUp
<1>2. /\ wd_counter \notin DOMAIN work
      /\ op'.name = wd_counter
      /\ \A n \in DOMAIN work \cup {wd_counter} : n < wd_counter'
  BY <1>1, AllocateFresh
<1>. QED
  BY <1>1, <1>2, AllocateFresh DEF CopyUp, CountedNames, CopiedOnly, CopyIsExact

(* OpenTemp finds nothing, and makes an empty file.                        *)
LEMMA OpenTempSession ==
    ASSUME Inv, SessionInv, OpenTemp
    PROVE  SessionInv'
<1>. SUFFICES ASSUME first PROVE (CountedNames /\ CopiedOnly /\ CopyIsExact)'
  BY DEF SessionInv, OpenTemp
<1>1. TypeOK /\ CountedNames /\ CopyIsExact /\ pc = "open" /\ op.at = 0
  BY DEF Inv, SessionInv, OpenTemp, CopiedSoFar
<1>2. /\ work' = Put(work, op.name, TempFile(Blank)) /\ pc' = "copy"
      /\ op' = op /\ wd_counter' = wd_counter /\ upper' = upper /\ gone' = gone
      /\ op.of \notin gone
  BY <1>1 DEF OpenTemp, CountedNames, SessionInv, CopiedOnly
<1>3. DOMAIN work' = DOMAIN work \cup {op.name}
  BY <1>2 DEF Put
<1>4. \A b \in Block : work'[op.name].data[b] = End
  BY <1>2 DEF Put, TempFile, Blank
<1>5. \A b \in Block : ~(b <= 0)
  BY LenAssumption DEF Block
<1>6. CountedNames'
  BY <1>1, <1>2, <1>3 DEF CountedNames
<1>7. CopiedOnly'
  BY <1>1, <1>2, <1>4, <1>5 DEF CopiedOnly
<1>. QED
  BY <1>1, <1>2, <1>6, <1>7 DEF CopyIsExact

(* CopyBlock writes one block and leaves those behind it empty.            *)
LEMMA CopyBlockSession ==
    ASSUME Inv, SessionInv, CopyBlock
    PROVE  SessionInv'
<1>. SUFFICES ASSUME first PROVE (CountedNames /\ CopiedOnly /\ CopyIsExact)'
  BY DEF SessionInv, CopyBlock
<1>. DEFINE n == op.name
            b == op.at + 1
            data == [work[n].data EXCEPT ![b] = op.of]
<1>1. /\ TypeOK /\ CountedNames /\ CopiedOnly /\ CopyIsExact
      /\ pc = "copy" /\ n \in DOMAIN work /\ op.at \in Nat
      /\ op = [name |-> n, of |-> op.of, at |-> op.at]
  BY OpFacts, LenAssumption DEF Inv, SessionInv, CopyBlock, TypeOK
<1>2. /\ pc' = "copy" /\ wd_counter' = wd_counter /\ upper' = upper /\ gone' = gone
      /\ op.of \notin gone
      /\ op' = [name |-> n, of |-> op.of, at |-> b]
  BY <1>1 DEF CopyBlock, CopiedOnly
<1>3. work[n].data \in Data
  BY <1>1, TempFacts
<1>4. \A c \in Block : data[c] = IF c <= b THEN op.of ELSE End
  <2>1. SUFFICES ASSUME NEW c \in Block
                 PROVE  data[c] = IF c <= b THEN op.of ELSE End
    OBVIOUS
  <2>2. work[n].data[c] = IF c <= op.at THEN op.of ELSE End
    BY <1>1 DEF CopiedOnly
  <2>3. c \in Int
    BY LenAssumption DEF Block
  <2>4. CASE c = b
    BY <1>1, <1>3, <2>3, <2>4 DEF Data
  <2>5. CASE c # b
    <3>1. c <= b <=> c <= op.at
      BY <1>1, <2>3, <2>5
    <3>2. data[c] = work[n].data[c]
      BY <1>3, <2>5 DEF Data
    <3>. QED
      BY <2>2, <3>1, <3>2
  <2>. QED
    BY <2>4, <2>5
<1>5. work' = [work EXCEPT ![n] = TempFile(data)] /\ IsMap(work, Name, Temp)
  BY <1>1 DEF CopyBlock, TypeOK
<1>6. DOMAIN work' = DOMAIN work
  BY <1>5
<1>7. work'[n].data = data
  <2>1. work'[n] = TempFile(data)
    BY <1>1, <1>5 DEF IsMap
  <2>. QED
    BY <2>1 DEF TempFile
<1>. HIDE DEF data, b, n
<1>8. op'.name = n /\ op'.at = b /\ op'.of = op.of
  BY <1>2
<1>9. CountedNames'
  BY <1>1, <1>2, <1>6, <1>8 DEF CountedNames, n
<1>10. CopiedOnly'
  BY <1>2, <1>4, <1>7, <1>8 DEF CopiedOnly
<1>. QED
  BY <1>1, <1>2, <1>9, <1>10 DEF CopyIsExact

(* Publish: the temporary is then the file, to its end and no further.     *)
LEMMA PublishSession ==
    ASSUME Inv, SessionInv, Publish
    PROVE  SessionInv'
<1>. SUFFICES ASSUME first PROVE (CountedNames /\ CopiedOnly /\ CopyIsExact)'
  BY DEF SessionInv, Publish
<1>1. /\ TypeOK /\ CountedNames /\ CopiedOnly /\ CopyIsExact
      /\ pc = "copy" /\ op.at = Len[op.of] /\ op.name \in DOMAIN work
      /\ pc' = "idle" /\ wd_counter' = wd_counter /\ gone' = gone
      /\ upper' = Put(upper, op.of, work[op.name].data) /\ work' = Drop(work, op.name)
  BY DEF Inv, SessionInv, Publish, TypeOK
<1>2. work[op.name].data \in Data
  BY <1>1, TempFacts
<1>3. work[op.name].data = Copy(op.of)
  BY <1>1, <1>2 DEF Data, Copy, CopiedOnly
<1>4. CopyIsExact'
  BY <1>1, <1>3 DEF CopyIsExact, CopiedOnly, Put
<1>5. DOMAIN work' \subseteq DOMAIN work
  BY <1>1 DEF Drop
<1>. QED
  BY <1>1, <1>4, <1>5 DEF CountedNames, CopiedOnly

(* mkdir and hide_node put a temporary under the new number.               *)
LEMMA OtherSession ==
    ASSUME Inv, SessionInv, NEW x \in Files \cup Dirs, Mkdir(x) \/ HideFile(x) \/ HideDir(x)
    PROVE  SessionInv'
<1>. SUFFICES ASSUME first PROVE (CountedNames /\ CopiedOnly /\ CopyIsExact)'
  BY DEF SessionInv, Mkdir, HideFile, HideDir
<1>1. TypeOK /\ CountedNames /\ CopyIsExact /\ Allocate(x)
  BY DEF Inv, SessionInv, Mkdir, HideFile, HideDir
<1>2. /\ wd_counter \notin DOMAIN work
      /\ op'.name = wd_counter
      /\ \A n \in DOMAIN work \cup {wd_counter} : n < wd_counter'
  BY <1>1, AllocateFresh
<1>3. DOMAIN work' \subseteq DOMAIN work \cup {wd_counter} /\ pc' \in {"idle", "made", "hidden"}
  BY DEF Mkdir, HideFile, HideDir, Put
<1>4. CopyIsExact'
  <2>1. CASE upper' = upper /\ gone' = gone
    BY <1>1, <2>1 DEF CopyIsExact
  <2>2. CASE upper' = Drop(upper, x) /\ gone' = gone \cup {x}
    BY <1>1, <2>2 DEF CopyIsExact, Drop
  <2>. QED
    BY <2>1, <2>2 DEF Mkdir, HideFile, HideDir
<1>. QED
  BY <1>2, <1>3, <1>4 DEF CountedNames, CopiedOnly

(* CreateOver makes an empty file, whatever flags it has, because the name *)
(* is new; PublishNew puts it on the upper layer.                          *)
LEMMA CreateOverSession ==
    ASSUME Inv, SessionInv, NEW f \in Files, NEW flag, CreateOver(f, flag)
    PROVE  SessionInv'
<1>. SUFFICES ASSUME first PROVE (CountedNames /\ CopiedOnly /\ CopyIsExact)'
  BY DEF SessionInv, CreateOver
<1>1. TypeOK /\ CountedNames /\ CopyIsExact /\ Allocate(f)
  BY DEF Inv, SessionInv, CreateOver
<1>2. /\ wd_counter \notin DOMAIN work
      /\ op'.name = wd_counter
      /\ \A n \in DOMAIN work \cup {wd_counter} : n < wd_counter'
  BY <1>1, AllocateFresh
<1>3. /\ pc' = "created" /\ work' = Put(work, wd_counter, TempFile(Blank))
      /\ upper' = upper /\ gone' = gone
  BY <1>2 DEF CreateOver
<1>4. DOMAIN work' = DOMAIN work \cup {wd_counter} /\ work'[wd_counter].data = Blank
  BY <1>3 DEF Put, TempFile
<1>. QED
  BY <1>1, <1>2, <1>3, <1>4 DEF CountedNames, CopiedOnly, CopyIsExact

LEMMA PublishNewSession ==
    ASSUME Inv, SessionInv, PublishNew
    PROVE  SessionInv'
<1>. SUFFICES ASSUME first PROVE (CountedNames /\ CopiedOnly /\ CopyIsExact)'
  BY DEF SessionInv, PublishNew
<1>1. /\ CountedNames /\ CopyIsExact /\ op.of \in gone /\ work[op.name].data = Blank
      /\ pc' = "idle" /\ wd_counter' = wd_counter /\ gone' = gone
      /\ upper' = Put(upper, op.of, work[op.name].data) /\ work' = Drop(work, op.name)
  BY DEF Inv, SessionInv, PublishNew, TypeOK, CopiedOnly
<1>2. CopyIsExact'
  BY <1>1 DEF CopyIsExact, Put
<1>3. DOMAIN work' \subseteq DOMAIN work
  BY <1>1 DEF Drop
<1>. QED
  BY <1>1, <1>2, <1>3 DEF CountedNames, CopiedOnly

(* The rest of the steps end an operation, and leave its temporary or not. *)
LEMMA EndSession ==
    ASSUME Inv, SessionInv,
           \/ CopyFails \/ PublishFails \/ PublishNewFails
           \/ PublishDir \/ PublishDirFails \/ DropNode
    PROVE  SessionInv'
<1>1. /\ pc' = "idle" /\ first' = first /\ wd_counter' = wd_counter /\ upper' = upper
      /\ gone' = gone /\ DOMAIN work' \subseteq DOMAIN work
  BY DEF CopyFails, PublishFails, PublishNewFails, PublishDir, PublishDirFails, DropNode, Drop
<1>. QED
  BY <1>1 DEF SessionInv, CountedNames, CopiedOnly, CopyIsExact

LEMMA NextSession ==
    ASSUME Inv, SessionInv, [Next]_vars
    PROVE  SessionInv'
<1>1. ASSUME NEW d \in Dirs, Fill(d)
      PROVE  SessionInv'
  BY <1>1 DEF Fill, SessionInv, CountedNames, CopiedOnly, CopyIsExact
<1>2. CASE Restart
  BY <1>2 DEF Restart, SessionInv
<1>3. CASE UNCHANGED vars
  BY <1>3 DEF vars, SessionInv, CountedNames, CopiedOnly, CopyIsExact
<1>. QED
  BY <1>1, <1>2, <1>3, CopyUpSession, OpenTempSession, CopyBlockSession, PublishSession,
     CreateOverSession, PublishNewSession, OtherSession, EndSession DEF Next

LEMMA SessionCorrect == Spec => [](Inv /\ SessionInv)
BY InitInv, NextInv, InitSession, NextSession, PTL DEF Spec

(* In the first process on an empty work directory what copyup publishes   *)
(* is the lower file, block for block and with nothing behind it, for      *)
(* files of every length and whichever earlier operations failed.          *)
THEOREM SessionExactCorrect == Spec => []SessionExact
<1>1. Inv /\ SessionInv => SessionExact
  BY DEF SessionInv, SessionExact
<1>. QED
  BY <1>1, SessionCorrect, PTL

(* next_wd_name never gives the first process a name that is in use.       *)
THEOREM NameIsFreshCorrect == Spec => []NameIsFresh
<1>1. Inv /\ SessionInv => NameIsFresh
  BY DEF SessionInv, CountedNames, NameIsFresh
<1>. QED
  BY <1>1, SessionCorrect, PTL
=============================================================================
