---------------------------- MODULE FileCommands ----------------------------
(***************************************************************************)
(* The commands cat, write and rm of shell.c over the file system.  A      *)
(* command runs inside the interrupt that brought its Enter, and is one    *)
(* step; ls changes nothing.                                               *)
(*                                                                         *)
(* An argument is what follows the command's word.  cat and rm take all of *)
(* it for a name, spaces included; write cuts it at the first space, with  *)
(* the same split_command that has cut off the command.                    *)
(***************************************************************************)
EXTENDS Ramfs

CONSTANTS
  Arg,        \* [all, name, rest]: the argument, and the two parts of its cut
  NOTHING     \* the empty text

ASSUME CommandsConstants ==
  \A a \in Arg :
    /\ {a.all, a.name} \subseteq Name /\ a.rest \in Content
    /\ a.all = NOTHING => a.name = NOTHING
    \* what write has cut off can be typed alone
    /\ \E b \in Arg : b.all = a.name

cmd_cat(a) == a.all # NOTHING /\ ramfs_read(a.all)

\* Mutant: it does not ask for a name.
cmd_write_Nameless(a) ==
  \/ WriteData(a.name, a.rest) \/ WriteEmpty(a.name, a.rest)
  \/ WriteNoMemory(a.name, a.rest) \/ WriteRejected(a.name)

cmd_write(a) ==
  /\ a.name # NOTHING
  /\ \/ WriteData(a.name, a.rest) \/ WriteEmpty(a.name, a.rest)
     \/ WriteNoMemory(a.name, a.rest) \/ WriteRejected(a.name)

cmd_rm(a) == a.all # NOTHING /\ ramfs_delete(a.all)

\* kernel_main calls ramfs_init before it enables interrupts.
CommandsNext ==
  \/ ramfs_init
  \/ /\ ramfs_ready
     /\ \E a \in Arg : cmd_cat(a) \/ cmd_write(a) \/ cmd_rm(a)

CommandsSpec == Init /\ [][CommandsNext]_vars

\* No file is out of reach: every entry of the table has a name that cat and rm
\* accept, so that its content can be seen and its memory given back.
FilesReachable ==
  \A i \in Index : files[i].used =>
    \E a \in Arg : a.all = files[i].name /\ a.all # NOTHING
=============================================================================
