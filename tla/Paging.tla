------------------------------- MODULE Paging -------------------------------
(***************************************************************************)
(* The identity mapping of paging.c: paging_init fills NUM_PAGE_TABLES     *)
(* page tables for the first megabytes and turns paging on;                *)
(* paging_identity_map_region adds a region elsewhere, taking a spare      *)
(* table whenever it enters a part of the address space that has none.     *)
(* One iteration of its loop is one step.  Both run during boot, with      *)
(* interrupts disabled.                                                    *)
(*                                                                         *)
(* A directory has ENTRIES entries, a table ENTRIES pages, and addresses   *)
(* wrap at ADDR_MOD (2^32 with the code's 1024 and 4096).  The access bits,*)
(* the same in every entry, are left out: an entry is the number of the    *)
(* table or the address of the page it designates, or ABSENT.              *)
(***************************************************************************)
EXTENDS Integers, FiniteSets

CONSTANTS
  PAGE,               \* 4096
  ENTRIES,            \* 1024
  NUM_PAGE_TABLES,    \* tables of the initial mapping (4)
  NUM_EXTRA_TABLES,   \* spare tables (4)
  Regions,            \* <<phys_addr, size>> of the calls
  ABSENT

ADDR_MOD == PAGE * ENTRIES * ENTRIES

Address == 0 .. (ADDR_MOD - 1)

ASSUME PagingConstants ==
  /\ PAGE \in Nat \ {0} /\ ENTRIES \in Nat \ {0}
  /\ NUM_PAGE_TABLES \in 1 .. ENTRIES /\ NUM_EXTRA_TABLES \in Nat
  /\ Regions \subseteq Address \X Address
  /\ ABSENT \notin Int

VARIABLES
  page_directory,
  tables,              \* page_tables, then extra_page_tables
  extra_tables_used,
  paging,              \* bit PG of CR0
  region,              \* arguments of the call in progress
  addr,                \* its loop variable, ABSENT when there is no call
  halted               \* page_fault_handler has stopped the machine

vars == <<page_directory, tables, extra_tables_used, paging, region, addr,
          halted>>

Entry == 0 .. (ENTRIES - 1)
Table == 0 .. (NUM_PAGE_TABLES + NUM_EXTRA_TABLES - 1)

\* Address of the page that a is in.
PageOf(a) == (a \div PAGE) * PAGE

pd_index(a) == a \div (PAGE * ENTRIES)
pt_index(a) == (a \div PAGE) % ENTRIES

\* What the processor makes of an address: the page it is mapped to.
Translation(a) ==
  LET t == page_directory[pd_index(a)]
  IN  IF t = ABSENT THEN ABSENT ELSE tables[t][pt_index(a)]

-----------------------------------------------------------------------------
\* The tables are in .bss.
Init ==
  /\ page_directory = [e \in Entry |-> ABSENT]
  /\ tables = [t \in Table |-> [e \in Entry |-> ABSENT]]
  /\ extra_tables_used = 0
  /\ paging = FALSE /\ halted = FALSE
  /\ region = <<0, 0>> /\ addr = ABSENT

paging_init ==
  /\ ~paging
  /\ page_directory' = [e \in Entry |-> IF e < NUM_PAGE_TABLES THEN e ELSE ABSENT]
  /\ tables' = [t \in Table |->
                  IF t < NUM_PAGE_TABLES
                  THEN [e \in Entry |-> t * PAGE * ENTRIES + e * PAGE]
                  ELSE tables[t]]
  /\ paging' = TRUE
  /\ UNCHANGED <<extra_tables_used, region, addr, halted>>

\* Mutant: the end is rounded down.
RegionEnd_RoundsDown(r) == PageOf((r[1] + r[2]) % ADDR_MOD)

\* First page behind the region, 0 if it ends in the last page.
RegionEnd(r) == PageOf((r[1] + r[2] + PAGE - 1) % ADDR_MOD)

\* paging_identity_map_region is called.
MapRegion(r) ==
  /\ paging /\ ~halted /\ addr = ABSENT
  /\ region' = r /\ addr' = PageOf(r[1])
  /\ UNCHANGED <<page_directory, tables, extra_tables_used, paging, halted>>

\* The page is entered in table t, which contains old before.
MapInto(t, old) == tables' = [tables EXCEPT ![t] = [old EXCEPT ![pt_index(addr)] = addr]]

\* The directory has a table for this page.
MapPage ==
  /\ addr # ABSENT /\ addr < RegionEnd(region)
  /\ page_directory[pd_index(addr)] # ABSENT
  /\ MapInto(page_directory[pd_index(addr)],
             tables[page_directory[pd_index(addr)]])
  /\ addr' = (addr + PAGE) % ADDR_MOD
  /\ UNCHANGED <<page_directory, extra_tables_used, paging, region, halted>>

\* Mutant: the spare table in use is taken again.
Spare_Last == NUM_PAGE_TABLES + (IF extra_tables_used = 0 THEN 0 ELSE extra_tables_used - 1)

\* Mutant: the spare tables are taken from the first table on.
Spare_FromFirst == extra_tables_used

\* The next spare table.
Spare == NUM_PAGE_TABLES + extra_tables_used

\* Mutant: the number of spare tables is not tested.
MapPageInSpare_Unbounded ==
  /\ addr # ABSENT /\ addr < RegionEnd(region)
  /\ page_directory[pd_index(addr)] = ABSENT
  /\ extra_tables_used' = extra_tables_used + 1
  /\ page_directory' = [page_directory EXCEPT ![pd_index(addr)] = Spare]
  /\ MapInto(Spare, [e \in Entry |-> ABSENT])
  /\ addr' = (addr + PAGE) % ADDR_MOD
  /\ UNCHANGED <<paging, region, halted>>

\* It has none: a spare table is cleared and entered first.
MapPageInSpare ==
  /\ addr # ABSENT /\ addr < RegionEnd(region)
  /\ page_directory[pd_index(addr)] = ABSENT
  /\ extra_tables_used < NUM_EXTRA_TABLES
  /\ extra_tables_used' = extra_tables_used + 1
  /\ page_directory' = [page_directory EXCEPT ![pd_index(addr)] = Spare]
  /\ MapInto(Spare, [e \in Entry |-> ABSENT])
  /\ addr' = (addr + PAGE) % ADDR_MOD
  /\ UNCHANGED <<paging, region, halted>>

\* It has none and no spare table is left: the call returns.
NoSpareLeft ==
  /\ page_directory[pd_index(addr)] = ABSENT
  /\ extra_tables_used >= NUM_EXTRA_TABLES

\* End of the call, complete or not.
MapReturn ==
  /\ addr # ABSENT
  /\ addr >= RegionEnd(region) \/ NoSpareLeft
  /\ addr' = ABSENT
  /\ UNCHANGED <<page_directory, tables, extra_tables_used, paging, region,
                 halted>>

\* The processor uses address a; page_fault_handler stops the machine.
PageFault(a) ==
  /\ paging /\ ~halted /\ addr = ABSENT
  /\ Translation(a) = ABSENT
  /\ halted' = TRUE
  /\ UNCHANGED <<page_directory, tables, extra_tables_used, paging, region, addr>>

-----------------------------------------------------------------------------
Next ==
  \/ paging_init
  \/ \E r \in Regions : MapRegion(r)
  \/ MapPage \/ MapPageInSpare \/ MapReturn
  \/ \E a \in Address : PageFault(a)

Spec == Init /\ [][Next]_vars

-----------------------------------------------------------------------------
(* Properties                                                               *)

Pages == {a \in Address : a % PAGE = 0}

\* The pages of a region, as its caller sees it.
Covered(r) == {p \in Pages : p < r[1] + r[2] /\ p + PAGE > r[1]}

\* Type invariant; in particular no table beyond the spare ones is used.
TypeOK ==
  /\ page_directory \in [Entry -> Table \cup {ABSENT}]
  /\ tables \in [Table -> [Entry -> Pages \cup {ABSENT}]]
  /\ extra_tables_used \in 0 .. NUM_EXTRA_TABLES
  /\ paging \in BOOLEAN /\ halted \in BOOLEAN
  /\ region \in Regions \cup {<<0, 0>>}
  /\ addr \in Pages \cup {ABSENT}

\* "adresse virtuelle == adresse physique": whatever is mapped is mapped to
\* itself, however the spare tables were given out, and everything below
\* NUM_PAGE_TABLES * 4 MiB, the kernel and its heap, is mapped once paging is on.
Identity ==
  \A p \in Pages :
    /\ Translation(p) \in {ABSENT, p}
    /\ paging /\ p < NUM_PAGE_TABLES * PAGE * ENTRIES => Translation(p) = p

\* Each table serves one part of the address space, and the spare ones in use
\* are exactly those that have been counted.
TablesOwned ==
  /\ \A d, e \in Entry :
       page_directory[d] = page_directory[e] /\ page_directory[d] # ABSENT => d = e
  /\ \A t \in Table :
       (\E e \in Entry : page_directory[e] = t) <=>
         (paging /\ t < NUM_PAGE_TABLES + extra_tables_used)

\* Mapping a region never takes away a mapping that was there.
NothingUnmapped ==
  [][\A p \in Pages : Translation(p) # ABSENT => Translation(p)' # ABSENT]_vars

\* When a call returns, every page of its region is mapped; or the spare tables
\* have run out, and the pages before the one that lacks a table are mapped; or
\* the region reaches into the last page, where its end wraps to 0.
RegionMapped ==
  [][(addr # ABSENT /\ addr' = ABSENT) =>
       \/ \A p \in Covered(region) : Translation(p) # ABSENT
       \/ /\ extra_tables_used = NUM_EXTRA_TABLES /\ NoSpareLeft
          /\ \A p \in Covered(region) : p < addr => Translation(p) # ABSENT
       \/ region[1] + region[2] > ADDR_MOD - PAGE]_vars
-----------------------------------------------------------------------------
(* The inductive invariant                                                  *)

\* An entry of a table in use designates the page at its own place in the
\* address space, or nothing, which in the tables of paging_init it never does.
MappingInv ==
  \A d, e \in Entry :
    LET t == page_directory[d]
        page == d * PAGE * ENTRIES + e * PAGE
    IN  /\ t # ABSENT => tables[t][e] \in {ABSENT, page}
        /\ paging /\ d < NUM_PAGE_TABLES => t = d /\ tables[t][e] = page

\* A call has mapped its region up to addr.
CallInv ==
  /\ ~paging => extra_tables_used = 0 /\ addr = ABSENT
  /\ addr # ABSENT =>
       \A p \in Pages : PageOf(region[1]) <= p /\ p < addr => Translation(p) # ABSENT

IInv == TypeOK /\ TablesOwned /\ MappingInv /\ CallInv
=============================================================================
