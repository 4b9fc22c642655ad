----------------------------- MODULE FileStore -----------------------------
(***************************************************************************)
(* What ramfs.c promises to the shell: a map from names to contents.  A    *)
(* write may be refused; the refusal never touches a file that existed,    *)
(* but may leave the new name behind as an empty file.  result is what the *)
(* last call returned to its caller.                                       *)
(***************************************************************************)
EXTENDS Integers

CONSTANTS Name, TooLong, Content, EMPTY

VARIABLES fs, result

Done(c) == [ret |-> 0, content |-> c]
Failed == [ret |-> -1, content |-> EMPTY]

Put(n, c) == [m \in DOMAIN fs \cup {n} |-> IF m = n THEN c ELSE fs[m]]

Init == fs = [n \in {} |-> EMPTY] /\ result = Done(EMPTY)

Write(n, c) ==
  /\ n \notin TooLong
  /\ fs' = Put(n, c) /\ result' = Done(EMPTY)

WriteRefused(n) ==
  /\ fs' = fs \/ (n \notin DOMAIN fs \cup TooLong /\ fs' = Put(n, EMPTY))
  /\ result' = Failed

Read(n) ==
  /\ result' = IF n \in DOMAIN fs THEN Done(fs[n]) ELSE Failed
  /\ UNCHANGED fs

Delete(n) ==
  /\ fs' = [m \in DOMAIN fs \ {n} |-> fs[m]]
  /\ result' = IF n \in DOMAIN fs THEN Done(EMPTY) ELSE Failed

Next == \E n \in Name :
  \/ \E c \in Content : Write(n, c)
  \/ WriteRefused(n) \/ Read(n) \/ Delete(n)

Spec == Init /\ [][Next]_<<fs, result>>
=============================================================================
