----------------------------- MODULE RamfsProofs -----------------------------
(***************************************************************************)
(* Proofs about Ramfs, for every size of the table and every set of names, *)
(* contents and buffers: the table and the heap stay consistent, and ramfs *)
(* implements FileStore.  The last section is about the commands of the    *)
(* shell, for every set of arguments.                                      *)
(***************************************************************************)
EXTENDS FileCommands, TLAPS

\* An empty table is consistent.
LEMMA InitInv == Init => IInv
  <1> SUFFICES ASSUME Init PROVE IInv
    OBVIOUS
  <1> USE RamfsConstants
  <1>1. files \in [Index -> File]
    BY DEF Init, Blank, File
  <1>2. TypeOK
    BY <1>1 DEF Init, TypeOK, Done
  <1>3. \A i \in Index : files[i] = Blank
    BY DEF Init
  <1>4. NamesUnique /\ BuffersOwned /\ SizesMatch /\ BlankTable
    BY <1>3 DEF Init, Blank, NamesUnique, BuffersOwned, SizesMatch, BlankTable
  <1> QED
    BY <1>2, <1>4 DEF IInv

\* The entry ramfs_write works on: it has the name and its old content, and no
\* other entry has the name.
LEMMA SelectedEntry ==
  ASSUME IInv, NEW n \in Name, NEW i \in Index, Selected(n, i)
  PROVE  /\ Entry(n, i) \in File
         /\ Entry(n, i).name = n /\ Entry(n, i).used
         /\ Entry(n, i).data = files[i].data /\ Entry(n, i).size = files[i].size
         /\ files[i].used => files[i].name = n
         /\ \A j \in Index : j # i => ~Matches(j, n)
  <1>1. files[i] \in File
    BY DEF IInv, TypeOK
  <1>2. CASE ramfs_find(n, i)
    <2>1. Matches(i, n)
      BY <1>2 DEF ramfs_find
    <2> QED
      BY <1>1, <2>1 DEF Entry, Matches, File, IInv, NamesUnique
  <1>3. CASE NotFound(n) /\ ramfs_find_free(i)
    <2>1. ~Matches(i, n) /\ ~files[i].used /\ \A j \in Index : ~Matches(j, n)
      BY <1>3 DEF NotFound, ramfs_find_free
    <2>2. Entry(n, i) = [files[i] EXCEPT !.name = n, !.used = TRUE]
      BY <2>1 DEF Entry
    <2> QED
      BY <1>1, <2>1, <2>2 DEF File
  <1> QED
    BY <1>2, <1>3 DEF Selected

-----------------------------------------------------------------------------
(* The invariant                                                            *)

\* A write that succeeds with a new buffer.
LEMMA WriteDataInv ==
  ASSUME IInv, NEW n \in Name, NEW c \in Content, WriteData(n, c)
  PROVE  IInv'
  <1> USE RamfsConstants
  <1>1. PICK i \in Index, b \in Buffer \ DOMAIN mem :
          /\ Selected(n, i)
          /\ mem' = Kfree(Kmalloc(mem, b, c), Entry(n, i))
          /\ files' = [files EXCEPT ![i] =
                         [Entry(n, i) EXCEPT !.data = b, !.size = Len[c]]]
    BY DEF WriteData
  <1>2. /\ Len[c] \in Nat /\ Len[c] > 0 /\ result' = Done(EMPTY)
        /\ ramfs_ready' = ramfs_ready /\ ramfs_ready /\ b # NULL
    BY DEF WriteData
  <1> DEFINE E == Entry(n, i)
  <1>3. /\ E \in File /\ E.name = n /\ E.used /\ E.data = files[i].data
        /\ \A j \in Index : j # i => ~Matches(j, n)
    BY <1>1, SelectedEntry
  <1> HIDE DEF E
  <1>4. files \in [Index -> File] /\ mem \in [DOMAIN mem -> Content]
    BY DEF IInv, TypeOK
  <1>5. /\ files' \in [Index -> File]
        /\ files'[i].name = n /\ files'[i].used
        /\ files'[i].data = b /\ files'[i].size = Len[c]
        /\ \A j \in Index : j # i => files'[j] = files[j]
    <2>1. files' = [files EXCEPT ![i] = [E EXCEPT !.data = b, !.size = Len[c]]]
      BY <1>1 DEF E
    <2>2. [E EXCEPT !.data = b, !.size = Len[c]] \in File
      BY <1>2, <1>3 DEF File
    <2> QED
      BY <1>2, <1>3, <1>4, <2>1, <2>2 DEF File
  <1>6. files[i].data # b
    BY <1>1, <1>2 DEF IInv, BuffersOwned
  <1>7. /\ DOMAIN mem' = (DOMAIN mem \cup {b}) \ {files[i].data}
        /\ mem'[b] = c
        /\ \A x \in DOMAIN mem' : x # b => mem'[x] = mem[x]
        /\ mem' \in [DOMAIN mem' -> Content]
    <2>1. mem' = [x \in (DOMAIN mem \cup {b}) \ {files[i].data} |->
                    IF x = b THEN c ELSE mem[x]]
      BY <1>1, <1>3 DEF Kfree, Kmalloc, E
    <2> QED
      BY <1>4, <1>6, <2>1
  <1>8. TypeOK'
    BY <1>1, <1>2, <1>5, <1>7 DEF IInv, TypeOK, Done
  <1>9. NamesUnique'
    BY <1>3, <1>5 DEF IInv, NamesUnique, Matches
  <1>10. BuffersOwned'
    <2>1. \A j \in Index : j # i /\ files[j].data # NULL =>
                             /\ files[j].data \in DOMAIN mem /\ files[j].data # b
                             /\ files[j].data # files[i].data
      BY <1>1 DEF IInv, BuffersOwned
    <2>2. \A j \in Index : files'[j].data # NULL => files'[j].data \in DOMAIN mem'
      BY <1>5, <1>6, <1>7, <2>1
    <2>3. \A j, k \in Index :
            files'[j].data = files'[k].data /\ files'[j].data # NULL => j = k
      BY <1>5, <2>1 DEF IInv, BuffersOwned
    <2>4. ASSUME NEW x \in DOMAIN mem'
          PROVE  \E j \in Index : files'[j].used /\ files'[j].data = x
      <3>1. CASE x = b
        BY <1>5, <3>1
      <3>2. CASE x # b
        <4>1. PICK j \in Index : files[j].used /\ files[j].data = x
          BY <1>7, <3>2 DEF IInv, BuffersOwned
        <4> QED
          BY <1>5, <1>7, <4>1
      <3> QED
        BY <3>1, <3>2
    <2> QED
      BY <2>2, <2>3, <2>4 DEF BuffersOwned
  <1>12. BlankTable'
    BY <1>2 DEF BlankTable
  <1>11. SizesMatch'
    <2>1. \A j \in Index : j # i /\ files[j].data # NULL =>
                             mem'[files[j].data] = mem[files[j].data]
      BY <1>1, <1>7 DEF IInv, BuffersOwned
    <2> QED
      BY <1>2, <1>5, <1>7, <2>1 DEF IInv, SizesMatch
  <1> QED
    BY <1>8, <1>9, <1>10, <1>11, <1>12 DEF IInv

\* A step that takes the buffer of entry i back, if it has one, and leaves i
\* without data: an empty write and a deletion.
LEMMA ReleaseInv ==
  ASSUME IInv, NEW i \in Index, NEW f \in File,
         f.data = NULL, f.size = 0,
         f.used => \A j \in Index : j # i => ~Matches(j, f.name),
         files' = [files EXCEPT ![i] = f],
         mem' = Kfree(mem, files[i]),
         ramfs_ready, ramfs_ready' = ramfs_ready, result' = Done(EMPTY)
  PROVE  IInv'
  <1> USE RamfsConstants
  <1>1. /\ files' \in [Index -> File] /\ files'[i] = f
        /\ \A j \in Index : j # i => files'[j] = files[j]
    BY DEF IInv, TypeOK
  <1>2. /\ DOMAIN mem' = DOMAIN mem \ {files[i].data}
        /\ \A x \in DOMAIN mem' : mem'[x] = mem[x]
        /\ mem' \in [DOMAIN mem' -> Content]
    BY DEF Kfree, IInv, TypeOK
  <1>3. TypeOK'
    BY <1>1, <1>2 DEF IInv, TypeOK, Done
  <1>4. NamesUnique'
    BY <1>1 DEF IInv, NamesUnique, Matches
  <1>5. \A j \in Index : j # i /\ files[j].data # NULL =>
                           files[j].data \in DOMAIN mem'
    BY <1>2 DEF IInv, BuffersOwned
  <1>6. BuffersOwned'
    <2>1. ASSUME NEW x \in DOMAIN mem'
          PROVE  \E j \in Index : files'[j].used /\ files'[j].data = x
      <3>1. PICK j \in Index : files[j].used /\ files[j].data = x
        BY <1>2 DEF IInv, BuffersOwned
      <3> QED
        BY <1>1, <1>2, <3>1
    <2>2. \A j \in Index : files'[j].data # NULL => files'[j].data \in DOMAIN mem'
      BY <1>1, <1>5
    <2>3. \A j, k \in Index :
            files'[j].data = files'[k].data /\ files'[j].data # NULL => j = k
      BY <1>1 DEF IInv, BuffersOwned
    <2> QED
      BY <2>1, <2>2, <2>3 DEF BuffersOwned
  <1>7. SizesMatch'
    BY <1>1, <1>2, <1>5 DEF IInv, SizesMatch
  <1>8. BlankTable'
    BY DEF BlankTable
  <1> QED
    BY <1>3, <1>4, <1>6, <1>7, <1>8 DEF IInv

\* An empty content needs no buffer.
LEMMA WriteEmptyInv ==
  ASSUME IInv, NEW n \in Name, NEW c \in Content, WriteEmpty(n, c)
  PROVE  IInv'
  <1>1. PICK i \in Index :
          /\ Selected(n, i)
          /\ mem' = Kfree(mem, Entry(n, i))
          /\ files' = [files EXCEPT ![i] =
                         [Entry(n, i) EXCEPT !.data = NULL, !.size = 0]]
    BY DEF WriteEmpty
  <1> DEFINE f == [Entry(n, i) EXCEPT !.data = NULL, !.size = 0]
  <1>2. /\ Entry(n, i) \in File /\ Entry(n, i).name = n
        /\ Entry(n, i).data = files[i].data
        /\ \A j \in Index : j # i => ~Matches(j, n)
    BY <1>1, SelectedEntry
  <1>3. f \in File /\ f.data = NULL /\ f.size = 0 /\ f.name = n
    BY <1>2 DEF File
  <1>4. mem' = Kfree(mem, files[i])
    BY <1>1, <1>2 DEF Kfree
  <1>5. files' = [files EXCEPT ![i] = f]
    BY <1>1
  <1>6. ramfs_ready /\ ramfs_ready' = ramfs_ready /\ result' = Done(EMPTY)
    BY DEF WriteEmpty
  <1> HIDE DEF f
  <1> QED
    BY <1>2, <1>3, <1>4, <1>5, <1>6, ReleaseInv

\* A refused kmalloc leaves at most a new entry without data.
LEMMA WriteNoMemoryInv ==
  ASSUME IInv, NEW n \in Name, NEW c \in Content, WriteNoMemory(n, c)
  PROVE  IInv'
  <1> USE RamfsConstants
  <1>1. PICK i \in Index :
          Selected(n, i) /\ files' = [files EXCEPT ![i] = Entry(n, i)]
    BY DEF WriteNoMemory
  <1>2. /\ Entry(n, i) \in File /\ Entry(n, i).name = n /\ Entry(n, i).used
        /\ Entry(n, i).data = files[i].data /\ Entry(n, i).size = files[i].size
        /\ \A j \in Index : j # i => ~Matches(j, n)
    BY <1>1, SelectedEntry
  <1>3. /\ files' \in [Index -> File] /\ files'[i] = Entry(n, i)
        /\ \A j \in Index : j # i => files'[j] = files[j]
    BY <1>1, <1>2 DEF IInv, TypeOK
  <1>4. /\ files'[i].name = n /\ files'[i].used
        /\ \A j \in Index : files'[j].data = files[j].data
                            /\ files'[j].size = files[j].size
                            /\ (files[j].used => files'[j].used)
    BY <1>2, <1>3
  <1>5. mem' = mem /\ ramfs_ready' = ramfs_ready /\ result' = Failed
    BY DEF WriteNoMemory
  <1>6. TypeOK'
    BY <1>3, <1>5 DEF IInv, TypeOK, Failed
  <1>7. NamesUnique'
    BY <1>2, <1>3, <1>4 DEF IInv, NamesUnique, Matches
  <1>8. BuffersOwned' /\ SizesMatch'
    BY <1>4, <1>5 DEF IInv, BuffersOwned, SizesMatch
  <1>9. BlankTable'
    BY DEF BlankTable, WriteNoMemory
  <1> QED
    BY <1>6, <1>7, <1>8, <1>9 DEF IInv

\* rm gives the buffer back and clears the entry.
LEMMA DeleteInv ==
  ASSUME IInv, NEW n \in Name, ramfs_delete(n)
  PROVE  IInv'
  <1>1. CASE NotFound(n) /\ result' = Failed /\ UNCHANGED <<files, mem>>
    BY <1>1, RamfsConstants DEF IInv, TypeOK, NamesUnique, BuffersOwned, SizesMatch,
       BlankTable, ramfs_delete, Failed
  <1>2. CASE \E i \in Index :
               /\ ramfs_find(n, i)
               /\ mem' = Kfree(mem, files[i])
               /\ files' = [files EXCEPT ![i] = Cleared(files[i])]
               /\ result' = Done(EMPTY)
    <2>1. PICK i \in Index :
            /\ ramfs_find(n, i)
            /\ mem' = Kfree(mem, files[i])
            /\ files' = [files EXCEPT ![i] = Cleared(files[i])]
            /\ result' = Done(EMPTY)
      BY <1>2
    <2>2. /\ Cleared(files[i]) \in File /\ Cleared(files[i]).data = NULL
          /\ Cleared(files[i]).size = 0 /\ ~Cleared(files[i]).used
      BY DEF Cleared, IInv, TypeOK, File
    <2>3. ramfs_ready' = ramfs_ready /\ ramfs_ready
      <3>1. files[i].used
        BY <2>1 DEF ramfs_find, Matches
      <3>2. files[i] # Blank
        <4>1. ~Blank.used
          BY DEF Blank
        <4> QED
          BY <3>1, <4>1
      <3>3. ramfs_ready
        BY <3>2 DEF IInv, BlankTable
      <3> QED
        BY <3>3 DEF ramfs_delete
    <2> QED
      BY <2>1, <2>2, <2>3, ReleaseInv
  <1> QED
    BY <1>1, <1>2 DEF ramfs_delete

\* ramfs_init clears a table that is still blank.
LEMMA RamfsInitInv ==
  ASSUME IInv, ramfs_init
  PROVE  IInv' /\ UNCHANGED <<files, mem, result>>
  <1>1. files \in [Index -> File] /\ \A i \in Index : files[i] = Blank
    BY DEF IInv, TypeOK, BlankTable, ramfs_init
  <1>2. \A i \in Index :
          Cleared(files[i]) = files[i]
    <2>1. Cleared(Blank) = Blank
      BY DEF Blank, Cleared
    <2> QED
      BY <1>1, <2>1
  <1>3. files' = files
    BY <1>1, <1>2 DEF ramfs_init
  <1> QED
    BY <1>3 DEF IInv, TypeOK, NamesUnique, BuffersOwned, SizesMatch, BlankTable,
                ramfs_init

\* The table and the heap stay consistent through every call.
THEOREM Inductive == Spec => []IInv
  <1>1. IInv /\ [Next]_vars => IInv'
    <2> SUFFICES ASSUME IInv, [Next]_vars PROVE IInv'
      OBVIOUS
    <2>1. CASE UNCHANGED vars
      <3>1. /\ files' = files /\ ramfs_ready' = ramfs_ready
            /\ mem' = mem /\ result' = result
        BY <2>1 DEF vars
      <3> QED
        BY <3>1 DEF IInv, TypeOK, NamesUnique, BuffersOwned, SizesMatch, BlankTable
    <2>2. ASSUME NEW n \in Name, WriteRejected(n) \/ ramfs_read(n)
          PROVE  IInv'
      <3>1. UNCHANGED <<files, ramfs_ready, mem>>
        BY <2>2 DEF WriteRejected, ramfs_read
      <3>2. result' \in [ret : {0, -1}, content : Content]
        <4>1. \A i \in Index : Bytes(files[i]) \in Content
          BY RamfsConstants DEF Bytes, IInv, TypeOK, BuffersOwned, SizesMatch, File
        <4> QED
          BY <2>2, <4>1, RamfsConstants DEF WriteRejected, ramfs_read, Done, Failed
      <3> QED
        BY <3>1, <3>2 DEF IInv, TypeOK, NamesUnique, BuffersOwned, SizesMatch,
                          BlankTable
    <2> QED
      BY <2>1, <2>2, RamfsInitInv, WriteDataInv, WriteEmptyInv, WriteNoMemoryInv,
         DeleteInv DEF Next
  <1> QED
    BY InitInv, <1>1, PTL DEF Spec

\* Type correctness.
THEOREM TypeCorrect == Spec => []TypeOK
  BY Inductive, PTL DEF IInv

\* A name designates at most one file.
THEOREM OneFilePerName == Spec => []NamesUnique
  BY Inductive, PTL DEF IInv

\* ramfs neither leaks a buffer nor keeps a pointer to a freed or shared one.
THEOREM BuffersAccounted == Spec => []BuffersOwned
  BY Inductive, PTL DEF IInv

\* The recorded sizes are those of the buffers.
THEOREM SizesCorrect == Spec => []SizesMatch
  BY Inductive, PTL DEF IInv

-----------------------------------------------------------------------------
(* ramfs implements FileStore                                               *)

\* The abstract map at the name of a used entry.
FsFact ==
  \A i \in Index : files[i].used =>
    /\ files[i].name \in DOMAIN fs
    /\ fs[files[i].name] = Bytes(files[i])

\* The refinement mapping shows what the entry of a name holds.
LEMMA FsAt == IInv => FsFact
  <1> SUFFICES ASSUME IInv, NEW i \in Index, files[i].used
               PROVE  /\ files[i].name \in DOMAIN fs
                      /\ fs[files[i].name] = Bytes(files[i])
    BY DEF FsFact
  <1> DEFINE n == files[i].name
  <1>1. n \in InUse
    BY DEF InUse
  <1>2. \A j \in Index : Matches(j, n) => j = i
    BY DEF IInv, NamesUnique, Matches
  <1>3. (CHOOSE j \in Index : Matches(j, n)) = i
    BY <1>2 DEF Matches
  <1> QED
    BY <1>1, <1>3 DEF fs

\* A step that touches one entry changes the map at its name only.
LEMMA PutStep ==
  ASSUME IInv, IInv', NEW n \in Name, NEW c, NEW i \in Index,
         files[i].used => files[i].name = n,
         files'[i].used, files'[i].name = n, Bytes(files[i])' = c,
         \A j \in Index : j # i => /\ files'[j] = files[j]
                                   /\ files[j].used =>
                                        Bytes(files[j])' = Bytes(files[j])
  PROVE  fs' = S!Put(n, c)
  <1>1. /\ \A j \in Index : files[j].used =>
              files[j].name \in DOMAIN fs /\ fs[files[j].name] = Bytes(files[j])
        /\ \A j \in Index : files'[j].used =>
              /\ files'[j].name \in DOMAIN fs'
              /\ fs'[files'[j].name] = Bytes(files[j])'
    <2>1. FsFact /\ FsFact'
      BY FsAt, PTL
    <2> QED
      BY <2>1 DEF FsFact
  <1>2. DOMAIN fs = InUse /\ DOMAIN fs' = InUse'
    BY DEF fs
  <1>3. InUse' = InUse \cup {n}
    BY DEF InUse
  <1>4. ASSUME NEW m \in InUse'
        PROVE  fs'[m] = IF m = n THEN c ELSE fs[m]
    <2>1. PICK j \in Index : files'[j].used /\ files'[j].name = m
      BY DEF InUse
    <2>2. CASE j = i
      BY <1>1, <2>1, <2>2
    <2>3. CASE j # i
      <3>1. m # n
        BY <2>1, <2>3 DEF IInv, NamesUnique
      <3> QED
        BY <1>1, <2>1, <2>3, <3>1
    <2> QED
      BY <2>2, <2>3
  <1>5. fs' = [m \in InUse' |-> fs'[m]]
    BY DEF fs
  <1> QED
    BY <1>2, <1>3, <1>4, <1>5 DEF S!Put

\* A write with data refines the abstract write.
LEMMA WriteDataRefines ==
  ASSUME IInv, IInv', NEW n \in Name, NEW c \in Content, WriteData(n, c)
  PROVE  S!Write(n, c)
  <1> USE RamfsConstants
  <1>1. PICK i \in Index, b \in Buffer \ DOMAIN mem :
          /\ Selected(n, i)
          /\ mem' = Kfree(Kmalloc(mem, b, c), Entry(n, i))
          /\ files' = [files EXCEPT ![i] =
                         [Entry(n, i) EXCEPT !.data = b, !.size = Len[c]]]
    BY DEF WriteData
  <1> DEFINE E == Entry(n, i)
  <1>2. /\ E \in File /\ E.name = n /\ E.used /\ E.data = files[i].data
        /\ files[i].used => files[i].name = n
    BY <1>1, SelectedEntry
  <1> HIDE DEF E
  <1>3. /\ files'[i].used /\ files'[i].name = n
        /\ files'[i].data = b /\ files'[i].size = Len[c]
        /\ \A j \in Index : j # i => files'[j] = files[j]
    <2>1. files' = [files EXCEPT ![i] = [E EXCEPT !.data = b, !.size = Len[c]]]
      BY <1>1 DEF E
    <2> QED
      BY <1>2, <2>1 DEF IInv, TypeOK, File
  <1>4. mem' = [x \in (DOMAIN mem \cup {b}) \ {files[i].data} |->
                  IF x = b THEN c ELSE mem[x]]
    BY <1>1, <1>2 DEF Kfree, Kmalloc, E
  <1>5. files[i].data # b /\ Len[c] > 0 /\ Len[c] \in Nat
    BY <1>1 DEF IInv, BuffersOwned, WriteData
  <1>6. Bytes(files[i])' = c
    BY <1>3, <1>4, <1>5 DEF Bytes
  <1>7. ASSUME NEW j \in Index, j # i, files[j].used
        PROVE  Bytes(files[j])' = Bytes(files[j])
    <2>1. files'[j] = files[j]
      BY <1>3, <1>7
    <2>2. CASE files[j].data = NULL
      BY <2>1, <2>2 DEF Bytes, IInv, SizesMatch
    <2>3. CASE files[j].data # NULL
      <3>1. /\ files[j].data \in DOMAIN mem /\ files[j].data # b
            /\ files[j].data # files[i].data
        BY <1>1, <1>7, <2>3 DEF IInv, BuffersOwned
      <3>2. mem'[files[j].data] = mem[files[j].data]
        BY <1>4, <3>1
      <3> QED
        BY <2>1, <3>2 DEF Bytes
    <2> QED
      BY <2>2, <2>3
  <1>8. fs' = S!Put(n, c)
    BY <1>2, <1>3, <1>6, <1>7, PutStep
  <1> QED
    BY <1>8 DEF WriteData, S!Write, S!Done, Done

\* Releasing a buffer changes no other file.
LEMMA OthersKept ==
  ASSUME IInv, NEW i \in Index, mem' = Kfree(mem, files[i]),
         NEW j \in Index, j # i, files'[j] = files[j]
  PROVE  Bytes(files[j])' = Bytes(files[j])
  <1>1. CASE files[j].data = NULL
    BY <1>1 DEF Bytes, IInv, SizesMatch
  <1>2. CASE files[j].data # NULL
    <2>1. files[j].data \in DOMAIN mem /\ files[j].data # files[i].data
      BY <1>2 DEF IInv, BuffersOwned
    <2> QED
      BY <2>1 DEF Bytes, Kfree
  <1> QED
    BY <1>1, <1>2

\* An empty write refines the abstract write.
LEMMA WriteEmptyRefines ==
  ASSUME IInv, IInv', NEW n \in Name, NEW c \in Content, WriteEmpty(n, c)
  PROVE  S!Write(n, c)
  <1> USE RamfsConstants
  <1>1. PICK i \in Index :
          /\ Selected(n, i)
          /\ mem' = Kfree(mem, Entry(n, i))
          /\ files' = [files EXCEPT ![i] =
                         [Entry(n, i) EXCEPT !.data = NULL, !.size = 0]]
    BY DEF WriteEmpty
  <1> DEFINE E == Entry(n, i)
  <1>2. /\ E \in File /\ E.name = n /\ E.used /\ E.data = files[i].data
        /\ files[i].used => files[i].name = n
    BY <1>1, SelectedEntry
  <1>3. mem' = Kfree(mem, files[i])
    BY <1>1, <1>2 DEF Kfree
  <1> HIDE DEF E
  <1>4. /\ files'[i].used /\ files'[i].name = n /\ files'[i].size = 0
        /\ \A j \in Index : j # i => files'[j] = files[j]
    <2>1. files' = [files EXCEPT ![i] = [E EXCEPT !.data = NULL, !.size = 0]]
      BY <1>1 DEF E
    <2> QED
      BY <1>2, <2>1 DEF IInv, TypeOK, File
  <1>5. c = EMPTY /\ Bytes(files[i])' = c
    BY <1>4 DEF Bytes, WriteEmpty
  <1>6. \A j \in Index : j # i => Bytes(files[j])' = Bytes(files[j])
    BY <1>3, <1>4, OthersKept
  <1>7. fs' = S!Put(n, c)
    BY <1>2, <1>4, <1>5, <1>6, PutStep
  <1> QED
    BY <1>7 DEF WriteEmpty, S!Write, S!Done, Done

\* A refused kmalloc keeps an existing file as it was, and creates a missing
\* one empty.
LEMMA WriteNoMemoryRefines ==
  ASSUME IInv, IInv', NEW n \in Name, NEW c \in Content, WriteNoMemory(n, c)
  PROVE  S!WriteRefused(n)
  <1>1. PICK i \in Index :
          Selected(n, i) /\ files' = [files EXCEPT ![i] = Entry(n, i)]
    BY DEF WriteNoMemory
  <1>2. mem' = mem /\ result' = S!Failed /\ n \notin TooLong
    BY DEF WriteNoMemory, Failed, S!Failed
  <1>3. CASE Matches(i, n)
    <2>1. files' = files
      BY <1>1, <1>3 DEF Entry, IInv, TypeOK
    <2>2. fs' = fs
      BY <1>2, <2>1 DEF fs, InUse, Matches, Bytes
    <2> QED
      BY <1>2, <2>2 DEF S!WriteRefused
  <1>4. CASE ~Matches(i, n)
    <2>1. NotFound(n) /\ ~files[i].used
      BY <1>1, <1>4 DEF Selected, ramfs_find, ramfs_find_free
    <2>2. n \notin DOMAIN fs
      BY <2>1 DEF fs, InUse, NotFound, Matches
    <2>3. /\ Entry(n, i) \in File /\ Entry(n, i).name = n /\ Entry(n, i).used
          /\ Entry(n, i).data = files[i].data /\ Entry(n, i).size = files[i].size
      BY <1>1, SelectedEntry
    <2>4. files[i].size = 0
      BY <2>1 DEF IInv, SizesMatch
    <2>5. /\ files'[i] = Entry(n, i)
          /\ \A j \in Index : j # i => files'[j] = files[j]
      BY <1>1 DEF IInv, TypeOK
    <2>6. Bytes(files[i])' = EMPTY
      BY <2>3, <2>4, <2>5 DEF Bytes
    <2>7. \A j \in Index : j # i => Bytes(files[j])' = Bytes(files[j])
      BY <1>2, <2>5 DEF Bytes
    <2>8. fs' = S!Put(n, EMPTY)
      BY <2>1, <2>3, <2>5, <2>6, <2>7, PutStep
    <2> QED
      BY <1>2, <2>2, <2>8 DEF S!WriteRefused
  <1> QED
    BY <1>3, <1>4

\* ramfs_read returns what the abstract store holds.
LEMMA ReadRefines ==
  ASSUME IInv, NEW n \in Name, ramfs_read(n)
  PROVE  S!Read(n)
  <1>1. fs' = fs
    BY DEF ramfs_read, fs, InUse, Matches, Bytes
  <1>2. CASE NotFound(n) /\ result' = Failed
    <2>1. n \notin DOMAIN fs
      BY <1>2 DEF fs, InUse, NotFound, Matches
    <2> QED
      BY <1>1, <1>2, <2>1 DEF S!Read, S!Failed, Failed
  <1>3. CASE \E i \in Index : ramfs_find(n, i) /\ result' = Done(Bytes(files[i]))
    <2>1. PICK i \in Index : ramfs_find(n, i) /\ result' = Done(Bytes(files[i]))
      BY <1>3
    <2>2. files[i].used /\ files[i].name = n
      BY <2>1 DEF ramfs_find, Matches
    <2>3. n \in DOMAIN fs /\ fs[n] = Bytes(files[i])
      BY <2>2, FsAt DEF FsFact
    <2> QED
      BY <1>1, <2>1, <2>3 DEF S!Read, S!Done, Done
  <1> QED
    BY <1>2, <1>3 DEF ramfs_read

\* ramfs_delete removes the name from the abstract store.
LEMMA DeleteRefines ==
  ASSUME IInv, IInv', NEW n \in Name, ramfs_delete(n)
  PROVE  S!Delete(n)
  <1>1. CASE NotFound(n) /\ result' = Failed /\ UNCHANGED <<files, mem>>
    <2>1. fs' = fs
      BY <1>1 DEF fs, InUse, Matches, Bytes
    <2>2. n \notin DOMAIN fs
      BY <1>1 DEF fs, InUse, NotFound, Matches
    <2>3. fs = [m \in DOMAIN fs |-> fs[m]]
      BY DEF fs
    <2>4. DOMAIN fs \ {n} = DOMAIN fs
      BY <2>2
    <2> QED
      BY <1>1, <2>1, <2>2, <2>3, <2>4 DEF S!Delete, S!Failed, Failed
  <1>2. CASE \E i \in Index :
               /\ ramfs_find(n, i)
               /\ mem' = Kfree(mem, files[i])
               /\ files' = [files EXCEPT ![i] = Cleared(files[i])]
               /\ result' = Done(EMPTY)
    <2>1. PICK i \in Index :
            /\ ramfs_find(n, i)
            /\ mem' = Kfree(mem, files[i])
            /\ files' = [files EXCEPT ![i] = Cleared(files[i])]
            /\ result' = Done(EMPTY)
      BY <1>2
    <2>2. files[i].used /\ files[i].name = n
      BY <2>1 DEF ramfs_find, Matches
    <2>3. ~files'[i].used /\ \A j \in Index : j # i => files'[j] = files[j]
      BY <2>1 DEF Cleared, IInv, TypeOK
    <2>4. /\ DOMAIN fs = InUse /\ DOMAIN fs' = InUse'
          /\ fs' = [m \in InUse' |-> fs'[m]]
      BY DEF fs
    <2>5. n \in InUse
      BY <2>2 DEF InUse
    <2>6. \A j \in Index : j # i /\ files[j].used => files[j].name # n
      BY <2>2 DEF IInv, NamesUnique
    <2>7. InUse' = InUse \ {n}
      BY <2>2, <2>3, <2>6 DEF InUse
    <2>8. FsFact /\ FsFact'
      BY FsAt, PTL
    <2>9. ASSUME NEW m \in InUse' PROVE fs'[m] = fs[m]
      <3>1. PICK j \in Index : files'[j].used /\ files'[j].name = m
        BY DEF InUse
      <3>2. j # i /\ files'[j] = files[j]
        BY <2>3, <3>1
      <3>3. Bytes(files[j])' = Bytes(files[j])
        BY <2>1, <3>2, OthersKept
      <3> QED
        BY <2>8, <3>1, <3>2, <3>3 DEF FsFact
    <2> QED
      BY <2>1, <2>4, <2>5, <2>7, <2>9 DEF S!Delete, S!Done, Done
  <1> QED
    BY <1>1, <1>2 DEF ramfs_delete

\* ramfs.c implements the abstract file store.
THEOREM Refinement == Spec => FileStoreSpec
  <1>1. Init => S!Init
    <2> SUFFICES ASSUME Init PROVE S!Init
      OBVIOUS
    <2>1. InUse = {}
      BY DEF Init, InUse, Blank
    <2> QED
      BY <2>1 DEF Init, fs, S!Init, S!Done, Done
  <1>2. ASSUME IInv, IInv', [Next]_vars
        PROVE  [S!Next]_<<fs, result>>
    <2>1. CASE UNCHANGED <<files, mem, result>>
      BY <2>1 DEF fs, InUse, Matches, Bytes
    <2>2. CASE ramfs_init
      BY <1>2, <2>1, <2>2, RamfsInitInv
    <2>3. ASSUME NEW n \in Name, NEW c \in Content,
                 WriteData(n, c) \/ WriteEmpty(n, c) \/ WriteNoMemory(n, c)
          PROVE  S!Next
      BY <1>2, <2>3, WriteDataRefines, WriteEmptyRefines, WriteNoMemoryRefines
         DEF S!Next
    <2>4. ASSUME NEW n \in Name, WriteRejected(n) PROVE S!Next
      <3>1. fs' = fs /\ result' = S!Failed
        BY <2>4 DEF WriteRejected, fs, InUse, Matches, Bytes, Failed, S!Failed
      <3> QED
        BY <3>1 DEF S!Next, S!WriteRefused
    <2>5. ASSUME NEW n \in Name, ramfs_read(n) \/ ramfs_delete(n) PROVE S!Next
      BY <1>2, <2>5, ReadRefines, DeleteRefines DEF S!Next
    <2> QED
      BY <1>2, <2>1, <2>2, <2>3, <2>4, <2>5 DEF Next, vars
  <1> QED
    BY <1>1, <1>2, Inductive, PTL DEF Spec, FileStoreSpec, S!Spec

-----------------------------------------------------------------------------
(* The commands                                                             *)

\* Whatever is typed, the commands only make calls that ramfs is made for: what
\* is proved of Spec holds under the shell.
THEOREM CommandsAreCalls == CommandsSpec => Spec
  <1>1. CommandsNext => Next
    <2> SUFFICES ASSUME CommandsNext PROVE Next
      OBVIOUS
    <2>1. CASE ramfs_init
      BY <2>1 DEF Next
    <2>2. ASSUME NEW a \in Arg, cmd_cat(a) \/ cmd_write(a) \/ cmd_rm(a)
          PROVE  Next
      <3>1. a.all \in Name /\ a.name \in Name /\ a.rest \in Content
        BY CommandsConstants
      <3> QED
        BY <2>2, <3>1 DEF cmd_cat, cmd_write, cmd_rm, Next
    <2> QED
      BY <2>1, <2>2 DEF CommandsNext
  <1> QED
    BY <1>1, PTL DEF CommandsSpec, Spec

\* Only a write gives an entry a name, and only its own.
LEMMA WriteNames ==
  ASSUME IInv, NEW n \in Name, NEW c \in Content,
         WriteData(n, c) \/ WriteEmpty(n, c) \/ WriteNoMemory(n, c)
  PROVE  \A j \in Index : files'[j].name = n \/ files'[j] = files[j]
  <1>1. files \in [Index -> File]
    BY DEF IInv, TypeOK
  <1>2. ASSUME NEW i \in Index, NEW f, f.name = n, files' = [files EXCEPT ![i] = f]
        PROVE  \A j \in Index : files'[j].name = n \/ files'[j] = files[j]
    BY <1>1, <1>2
  <1>3. ASSUME NEW i \in Index, Selected(n, i), NEW d, NEW s
        PROVE  /\ [Entry(n, i) EXCEPT !.data = d, !.size = s].name = n
               /\ Entry(n, i).name = n
    <2>1. Entry(n, i) \in File /\ Entry(n, i).name = n
      BY <1>3, SelectedEntry
    <2> QED
      BY <2>1 DEF File
  <1>4. CASE WriteData(n, c)
    <2>1. PICK i \in Index, b \in Buffer :
            /\ Selected(n, i)
            /\ files' = [files EXCEPT ![i] =
                           [Entry(n, i) EXCEPT !.data = b, !.size = Len[c]]]
      BY <1>4 DEF WriteData
    <2> QED
      BY <1>2, <1>3, <2>1
  <1>5. CASE WriteEmpty(n, c)
    <2>1. PICK i \in Index :
            /\ Selected(n, i)
            /\ files' = [files EXCEPT ![i] =
                           [Entry(n, i) EXCEPT !.data = NULL, !.size = 0]]
      BY <1>5 DEF WriteEmpty
    <2> QED
      BY <1>2, <1>3, <2>1
  <1>6. CASE WriteNoMemory(n, c)
    <2>1. PICK i \in Index :
            Selected(n, i) /\ files' = [files EXCEPT ![i] = Entry(n, i)]
      BY <1>6 DEF WriteNoMemory
    <2> QED
      BY <1>2, <1>3, <2>1
  <1> QED
    BY <1>4, <1>5, <1>6

\* Every file of the table can be shown and removed from the shell: what write
\* cuts off for a name is a name that cat and rm can be given, and is not empty.
THEOREM EveryFileReachable == CommandsSpec => []FilesReachable
  <1>1. Init => FilesReachable
    <2> SUFFICES ASSUME Init PROVE \A i \in Index : ~files[i].used
      BY DEF FilesReachable
    <2>1. \A i \in Index : files[i] = Blank
      BY DEF Init
    <2>2. ~Blank.used
      BY DEF Blank
    <2> QED
      BY <2>1, <2>2, Zenon
  <1>2. ASSUME IInv, FilesReachable, [CommandsNext]_vars
        PROVE  FilesReachable'
    <2> DEFINE Typed(n) == \E a \in Arg : a.all = n /\ a.all # NOTHING
    <2>1. \A i \in Index : files[i].used => Typed(files[i].name)
      BY <1>2 DEF FilesReachable
    <2>2. ASSUME NEW n, Typed(n),
                 \A j \in Index : \/ files'[j].name = n \/ files'[j] = files[j]
                                  \/ ~files'[j].used
          PROVE  \A j \in Index : files'[j].used => Typed(files'[j].name)
      <3> HIDE DEF Typed
      <3> QED
        BY <2>1, <2>2
    <2>3. ASSUME \A j \in Index : files'[j] = files[j] \/ ~files'[j].used
          PROVE  \A j \in Index : files'[j].used => Typed(files'[j].name)
      <3> HIDE DEF Typed
      <3> QED
        BY <2>1, <2>3
    <2>4. CASE ramfs_init
      <3>1. files' = files
        BY <1>2, <2>4, RamfsInitInv
      <3> QED
        BY <2>3, <3>1 DEF FilesReachable
    <2>5. ASSUME NEW a \in Arg, cmd_cat(a) PROVE FilesReachable'
      <3>1. files' = files
        BY <2>5 DEF cmd_cat, ramfs_read
      <3> QED
        BY <2>3, <3>1 DEF FilesReachable
    <2>6. ASSUME NEW a \in Arg, cmd_rm(a) PROVE FilesReachable'
      <3>1. \A j \in Index : files'[j] = files[j] \/ ~files'[j].used
        BY <1>2, <2>6 DEF cmd_rm, ramfs_delete, Cleared, IInv, TypeOK
      <3> QED
        BY <2>3, <3>1 DEF FilesReachable
    <2>7. ASSUME NEW a \in Arg, cmd_write(a) PROVE FilesReachable'
      <3>1. a.name \in Name /\ a.rest \in Content /\ a.name # NOTHING
        BY <2>7, CommandsConstants DEF cmd_write
      <3>2. Typed(a.name)
        BY <3>1, CommandsConstants
      <3>3. CASE WriteRejected(a.name)
        <4>1. files' = files
          BY <3>3 DEF WriteRejected
        <4> QED
          BY <2>3, <4>1 DEF FilesReachable
      <3>4. CASE ~WriteRejected(a.name)
        <4>1. \A j \in Index : files'[j].name = a.name \/ files'[j] = files[j]
          BY <1>2, <2>7, <3>1, <3>4, WriteNames DEF cmd_write
        <4>2. \A j \in Index : files'[j].used => Typed(files'[j].name)
          <5> HIDE DEF Typed
          <5> QED
            BY <2>2, <3>2, <4>1
        <4> QED
          BY <4>2 DEF FilesReachable
      <3> QED
        BY <3>3, <3>4
    <2>8. CASE UNCHANGED vars
      BY <1>2, <2>8 DEF vars, FilesReachable
    <2> QED
      BY <1>2, <2>4, <2>5, <2>6, <2>7, <2>8 DEF CommandsNext
  <1> QED
    BY <1>1, <1>2, Inductive, CommandsAreCalls, PTL DEF CommandsSpec
=============================================================================
