------------------------------- MODULE Ramfs -------------------------------
(***************************************************************************)
(* The file system of ramfs.c: a table of RAMFS_MAX_FILES entries, each    *)
(* with a name and a buffer taken from the kernel heap.  The shell calls   *)
(* it with interrupts disabled, so that every call is one step.  The heap  *)
(* is what module Allocator promises: kmalloc gives some buffer nobody     *)
(* holds, or NULL.                                                         *)
(***************************************************************************)
EXTENDS Integers

CONSTANTS
  RAMFS_MAX_FILES,
  Name,      \* names the shell passes
  TooLong,   \* those of RAMFS_MAX_NAME characters or more
  Content,   \* what can be written
  EMPTY,     \* the content of length 0
  Len,       \* length of each content
  Buffer,    \* regions of the heap
  NULL

ASSUME RamfsConstants ==
  /\ RAMFS_MAX_FILES \in Nat \ {0}
  /\ TooLong \subseteq Name
  /\ EMPTY \in Content
  /\ Len \in [Content -> Nat]
  /\ \A c \in Content : Len[c] = 0 <=> c = EMPTY
  /\ NULL \notin Buffer

VARIABLES
  files,         \* the table
  ramfs_ready,
  mem,           \* buffers held by ramfs, with the bytes they contain
  result         \* what the last call gave its caller

vars == <<files, ramfs_ready, mem, result>>

Index == 0 .. (RAMFS_MAX_FILES - 1)

File == [name : Name \cup {""}, data : Buffer \cup {NULL}, size : Nat,
         used : BOOLEAN]

Done(c) == [ret |-> 0, content |-> c]
Failed == [ret |-> -1, content |-> EMPTY]

-----------------------------------------------------------------------------
(* Looking entries up                                                       *)

Matches(i, n) == files[i].used /\ files[i].name = n

\* ramfs_find(n) returns i
ramfs_find(n, i) ==
  /\ Matches(i, n)
  /\ \A j \in Index : j < i => ~Matches(j, n)

\* ramfs_find(n) returns -1
NotFound(n) == \A i \in Index : ~Matches(i, n)

\* ramfs_find_free() returns i
ramfs_find_free(i) ==
  /\ ~files[i].used
  /\ \A j \in Index : j < i => files[j].used

-----------------------------------------------------------------------------
Blank == [name |-> "", data |-> NULL, size |-> 0, used |-> FALSE]

\* An entry that is not in use keeps its name.
Cleared(f) == [name |-> f.name, data |-> NULL, size |-> 0, used |-> FALSE]

\* The table is in .bss: zero before ramfs_init.
Init ==
  /\ files = [i \in Index |-> Blank]
  /\ ramfs_ready = FALSE
  /\ mem = [b \in {} |-> EMPTY]
  /\ result = Done(EMPTY)

ramfs_init ==
  /\ ~ramfs_ready
  /\ files' = [i \in Index |-> Cleared(files[i])]
  /\ ramfs_ready' = TRUE
  /\ UNCHANGED <<mem, result>>

\* Mutant: the old buffer is forgotten.
Kfree_Forgotten(m, f) == m

\* The heap after kfree of the buffer of f, if it has one.
Kfree(m, f) == [b \in DOMAIN m \ {f.data} |-> m[b]]

\* The heap after kmalloc has returned b and c has been copied into it.
Kmalloc(m, b, c) == [x \in DOMAIN m \cup {b} |-> IF x = b THEN c ELSE m[x]]

\* Mutant: the file is truncated before kmalloc is called.
Entry_Truncated(n, i) == [files[i] EXCEPT !.name = n, !.used = TRUE, !.size = 0]

\* Entry i as it is when ramfs_write comes to replace its content: found, or
\* the first free one, given its name.
Entry(n, i) ==
  IF Matches(i, n) THEN files[i]
  ELSE [files[i] EXCEPT !.name = n, !.used = TRUE]

Selected(n, i) ==
  \/ ramfs_find(n, i)
  \/ NotFound(n) /\ ramfs_find_free(i)

\* Mutant: the result of kmalloc is not tested.
WriteData_Unchecked(n, c) ==
  /\ ramfs_ready /\ n \notin TooLong /\ Len[c] > 0
  /\ \E i \in Index, b \in (Buffer \cup {NULL}) \ DOMAIN mem :
       /\ Selected(n, i)
       /\ mem' = Kfree(Kmalloc(mem, b, c), Entry(n, i))
       /\ files' = [files EXCEPT ![i] =
                      [Entry(n, i) EXCEPT !.data = b, !.size = Len[c]]]
  /\ result' = Done(EMPTY)
  /\ UNCHANGED ramfs_ready

\* ramfs_write(n, c): the new buffer is filled before the old one is freed.
\* Nothing is allocated for an empty content.
WriteData(n, c) ==
  /\ ramfs_ready /\ n \notin TooLong /\ Len[c] > 0
  /\ \E i \in Index, b \in Buffer \ DOMAIN mem :
       /\ Selected(n, i)
       /\ mem' = Kfree(Kmalloc(mem, b, c), Entry(n, i))
       /\ files' = [files EXCEPT ![i] =
                      [Entry(n, i) EXCEPT !.data = b, !.size = Len[c]]]
  /\ result' = Done(EMPTY)
  /\ UNCHANGED ramfs_ready

WriteEmpty(n, c) ==
  /\ ramfs_ready /\ n \notin TooLong /\ Len[c] = 0
  /\ \E i \in Index :
       /\ Selected(n, i)
       /\ mem' = Kfree(mem, Entry(n, i))
       /\ files' = [files EXCEPT ![i] =
                      [Entry(n, i) EXCEPT !.data = NULL, !.size = 0]]
  /\ result' = Done(EMPTY)
  /\ UNCHANGED ramfs_ready

\* kmalloc returned NULL: the entry has been selected and keeps its content.
WriteNoMemory(n, c) ==
  /\ ramfs_ready /\ n \notin TooLong /\ Len[c] > 0
  /\ \E i \in Index :
       /\ Selected(n, i)
       /\ files' = [files EXCEPT ![i] = Entry(n, i)]
  /\ result' = Failed
  /\ UNCHANGED <<ramfs_ready, mem>>

\* Not ready, name too long, or table full.
WriteRejected(n) ==
  /\ \/ ~ramfs_ready
     \/ n \in TooLong
     \/ NotFound(n) /\ \A i \in Index : files[i].used
  /\ result' = Failed
  /\ UNCHANGED <<files, ramfs_ready, mem>>

\* What the caller of ramfs_read sees in the size bytes at data.
Bytes(f) == IF f.size = 0 THEN EMPTY ELSE mem[f.data]

ramfs_read(n) ==
  /\ \/ \E i \in Index : ramfs_find(n, i) /\ result' = Done(Bytes(files[i]))
     \/ NotFound(n) /\ result' = Failed
  /\ UNCHANGED <<files, ramfs_ready, mem>>

ramfs_delete(n) ==
  /\ \/ \E i \in Index :
          /\ ramfs_find(n, i)
          /\ mem' = Kfree(mem, files[i])
          /\ files' = [files EXCEPT ![i] = Cleared(files[i])]
          /\ result' = Done(EMPTY)
     \/ NotFound(n) /\ result' = Failed /\ UNCHANGED <<files, mem>>
  /\ UNCHANGED ramfs_ready

Next ==
  \/ ramfs_init
  \/ \E n \in Name, c \in Content :
       WriteData(n, c) \/ WriteEmpty(n, c) \/ WriteNoMemory(n, c)
  \/ \E n \in Name : WriteRejected(n) \/ ramfs_read(n) \/ ramfs_delete(n)

Spec == Init /\ [][Next]_vars

-----------------------------------------------------------------------------
(* Properties                                                               *)

\* Type invariant.
TypeOK ==
  /\ files \in [Index -> File]
  /\ ramfs_ready \in BOOLEAN
  /\ mem \in [DOMAIN mem -> Content] /\ DOMAIN mem \subseteq Buffer
  /\ result \in [ret : {0, -1}, content : Content]

\* A flat name space: a name designates at most one file, so that rm followed
\* by cat never finds an older file of the same name.
NamesUnique ==
  \A i, j \in Index :
    (files[i].used /\ files[j].used /\ files[i].name = files[j].name) => i = j

\* Every buffer ramfs holds belongs to exactly one used entry, and every entry
\* with data owns its buffer: no leak, no dangling or shared buffer.
BuffersOwned ==
  /\ \A i \in Index : files[i].data # NULL => files[i].data \in DOMAIN mem
  /\ \A i, j \in Index :
       files[i].data = files[j].data /\ files[i].data # NULL => i = j
  /\ \A b \in DOMAIN mem : \E i \in Index : files[i].used /\ files[i].data = b

\* The recorded size is the length of what is in the buffer; an entry that is
\* not in use holds neither.
SizesMatch ==
  \A i \in Index :
    /\ files[i].data = NULL => files[i].size = 0
    /\ files[i].data # NULL => /\ files[i].used
                               /\ files[i].size = Len[mem[files[i].data]]
                               /\ files[i].size > 0

\* ramfs.c implements the abstract file store: each call changes at most the
\* file it names, a read returns what was last written, and a failed write
\* leaves the content of an existing file intact.
InUse == {files[i].name : i \in {j \in Index : files[j].used}}
fs == [n \in InUse |-> Bytes(files[CHOOSE i \in Index : Matches(i, n)])]
S == INSTANCE FileStore
FileStoreSpec == S!Spec

\* Nothing has been written before ramfs_init, which clears the table.
BlankTable ==
  ~ramfs_ready => DOMAIN mem = {} /\ \A i \in Index : files[i] = Blank

IInv == TypeOK /\ NamesUnique /\ BuffersOwned /\ SizesMatch /\ BlankTable
=============================================================================
