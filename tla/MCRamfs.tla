------------------------------ MODULE MCRamfs ------------------------------
(***************************************************************************)
(* A small instance of Ramfs under the commands of the shell: a table of   *)
(* two entries, three usable names so that it overflows, and one buffer    *)
(* more than entries, so that a file can be overwritten when the table is  *)
(* full.  "b x" is a name for cat and rm, a name and a text for write; a   *)
(* space at the end, "c ", is part of the name for the former only.        *)
(***************************************************************************)
EXTENDS FileCommands

MCLen == [c \in {"", "x", "yy"} |->
            CASE c = "" -> 0 [] c = "x" -> 1 [] c = "yy" -> 2]

MCArg ==
  [all : {""}, name : {""}, rest : {""}]
    \cup [all : {"a"}, name : {"a"}, rest : {""}]
    \cup [all : {"a x"}, name : {"a"}, rest : {"x"}]
    \cup [all : {"a yy"}, name : {"a"}, rest : {"yy"}]
    \cup [all : {"b"}, name : {"b"}, rest : {""}]
    \cup [all : {"b x"}, name : {"b"}, rest : {"x"}]
    \cup [all : {"c"}, name : {"c"}, rest : {""}]
    \cup [all : {"c "}, name : {"c"}, rest : {""}]
    \cup [all : {"c yy"}, name : {"c"}, rest : {"yy"}]
    \cup [all : {"long"}, name : {"long"}, rest : {""}]
    \cup [all : {"long x"}, name : {"long"}, rest : {"x"}]

MCName == {a.all : a \in MCArg}
MCTooLong == {"long", "long x"}
=============================================================================
