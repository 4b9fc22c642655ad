---------------------------- MODULE PagingProofs ----------------------------
(***************************************************************************)
(* Proofs about Paging for every size of page and table, every number of   *)
(* tables and every set of regions.  Addresses are taken apart into table, *)
(* entry and offset once, by two lemmas about division; from there on the  *)
(* proofs are about tables.                                                *)
(***************************************************************************)
EXTENDS Paging, TLAPS

-----------------------------------------------------------------------------
(* Division                                                                 *)

LEMMA Division ==
  ASSUME NEW a \in Nat, NEW n \in Nat \ {0}
  PROVE  /\ a \div n \in Nat /\ a % n \in 0 .. n - 1
         /\ a = n * (a \div n) + (a % n)
  OBVIOUS

LEMMA Quotient ==
  ASSUME NEW n \in Nat \ {0}, NEW q \in Nat, NEW r \in 0 .. n - 1
  PROVE  (n * q + r) \div n = q /\ (n * q + r) % n = r
  OBVIOUS

LEMMA LessTimes ==
  ASSUME NEW n \in Nat \ {0}, NEW a \in Int, NEW b \in Int
  PROVE  n * a < n * b <=> a < b
  OBVIOUS

\* Multiples of n that differ are n apart.
LEMMA Apart ==
  ASSUME NEW n \in Nat \ {0}, NEW a \in Int, NEW b \in Int, a < b
  PROVE  n * a + n <= n * b
  OBVIOUS

-----------------------------------------------------------------------------
(* Addresses                                                                *)

\* A page is the product of its number and the size of a page.
LEMMA PageNumber ==
  ASSUME NEW p \in Pages
  PROVE  /\ p \div PAGE \in 0 .. ENTRIES * ENTRIES - 1
         /\ p = PAGE * (p \div PAGE) /\ PageOf(p) = p
  <1>1. PAGE \in Nat \ {0} /\ ENTRIES \in Nat \ {0} /\ p \in 0 .. ADDR_MOD - 1
        /\ p % PAGE = 0 /\ ADDR_MOD = PAGE * (ENTRIES * ENTRIES)
    BY PagingConstants DEF Pages, Address, ADDR_MOD
  <1>2. p \div PAGE \in Nat /\ p = PAGE * (p \div PAGE)
    BY <1>1, Division
  <1> DEFINE q == p \div PAGE
  <1>3. q < ENTRIES * ENTRIES
    <2>1. q \in Int /\ ENTRIES * ENTRIES \in Int /\ PAGE * q < PAGE * (ENTRIES * ENTRIES)
      BY <1>1, <1>2
    <2> HIDE DEF q
    <2> QED
      BY <1>1, <2>1, LessTimes
  <1>4. PageOf(p) = p
    BY <1>1, <1>2 DEF PageOf
  <1> QED
    BY <1>1, <1>2, <1>3, <1>4

\* The converse.
LEMMA NumberPage ==
  ASSUME NEW q \in 0 .. ENTRIES * ENTRIES - 1
  PROVE  PAGE * q \in Pages /\ (PAGE * q) \div PAGE = q
  <1>1. PAGE \in Nat \ {0} /\ ENTRIES \in Nat \ {0}
        /\ ADDR_MOD = PAGE * (ENTRIES * ENTRIES) /\ ENTRIES * ENTRIES \in Nat
    BY PagingConstants DEF ADDR_MOD
  <1>2. q \in Nat /\ 0 \in 0 .. PAGE - 1
    BY <1>1
  <1>3. (PAGE * q + 0) \div PAGE = q /\ (PAGE * q + 0) % PAGE = 0
    BY <1>1, <1>2, Quotient
  <1>4. PAGE * q + 0 = PAGE * q /\ PAGE * q \in Nat
    BY <1>1, <1>2
  <1>5. PAGE * q < PAGE * (ENTRIES * ENTRIES)
    BY <1>1, <1>2, LessTimes
  <1> QED
    BY <1>1, <1>3, <1>4, <1>5 DEF Pages, Address

\* Address of the page that entry e of the table for entry d designates.
Place(d, e) == d * PAGE * ENTRIES + e * PAGE

\* A page is at its place: directory and table entry identify it.
LEMMA PagePlace ==
  ASSUME NEW p \in Pages
  PROVE  /\ pd_index(p) \in Entry /\ pt_index(p) \in Entry
         /\ p = Place(pd_index(p), pt_index(p))
  <1> DEFINE q == p \div PAGE
  <1>1. PAGE \in Nat \ {0} /\ ENTRIES \in Nat \ {0}
    BY PagingConstants
  <1>2. q \in 0 .. ENTRIES * ENTRIES - 1 /\ p = PAGE * q
    BY PageNumber
  <1> HIDE DEF q
  <1>3. /\ q \in Nat /\ q \div ENTRIES \in Nat /\ q % ENTRIES \in 0 .. ENTRIES - 1
        /\ q = ENTRIES * (q \div ENTRIES) + (q % ENTRIES)
    <2>1. q \in Nat
      BY <1>2
    <2> QED
      BY <1>1, <2>1, Division
  <1>4. q \div ENTRIES < ENTRIES
    <2> DEFINE d == q \div ENTRIES
               r == q % ENTRIES
    <2>1. d \in Nat /\ r \in 0 .. ENTRIES - 1 /\ q = ENTRIES * d + r
      BY <1>3
    <2> HIDE DEF d, r
    <2>2. ENTRIES * d < ENTRIES * ENTRIES
      BY <1>1, <1>2, <2>1
    <2>3. d < ENTRIES
      BY <1>1, <2>1, <2>2, LessTimes
    <2> QED
      BY <2>3 DEF d
  <1>5. pd_index(p) = q \div ENTRIES
    <2> DEFINE d == q \div ENTRIES
               r == q % ENTRIES
    <2>1. d \in Nat /\ r \in 0 .. ENTRIES - 1 /\ q = ENTRIES * d + r
      BY <1>3
    <2> HIDE DEF d, r
    <2>2. p = (PAGE * ENTRIES) * d + PAGE * r /\ PAGE * ENTRIES \in Nat \ {0}
      BY <1>1, <1>2, <2>1
    <2>3. PAGE * r \in 0 .. PAGE * ENTRIES - 1
      <3>1. PAGE * r < PAGE * ENTRIES
        BY <1>1, <2>1, LessTimes
      <3> QED
        BY <1>1, <2>1, <3>1
    <2>4. p \div (PAGE * ENTRIES) = d
      BY <2>1, <2>2, <2>3, Quotient
    <2> QED
      BY <2>4 DEF pd_index, d
  <1>6. pt_index(p) = q % ENTRIES
    BY DEF pt_index, q
  <1>7. p = Place(q \div ENTRIES, q % ENTRIES)
    <2> DEFINE d == q \div ENTRIES
               r == q % ENTRIES
    <2>1. d \in Nat /\ r \in 0 .. ENTRIES - 1 /\ q = ENTRIES * d + r
      BY <1>3
    <2> HIDE DEF d, r
    <2>2. p = d * PAGE * ENTRIES + r * PAGE
      BY <1>1, <1>2, <2>1
    <2> QED
      BY <2>2 DEF Place, d, r
  <1> QED
    BY <1>1, <1>3, <1>4, <1>5, <1>6, <1>7 DEF Entry

\* Every place is a page's.
LEMMA PlaceOfPage ==
  ASSUME NEW d \in Entry, NEW e \in Entry
  PROVE  Place(d, e) \in Pages
  <1>1. PAGE \in Nat \ {0} /\ ENTRIES \in Nat \ {0} /\ d \in Nat /\ e \in Nat
        /\ d < ENTRIES /\ e < ENTRIES
    BY PagingConstants DEF Entry
  <1>2. ENTRIES * d + ENTRIES <= ENTRIES * ENTRIES
    BY <1>1, Apart
  <1>3. ENTRIES * d + e \in 0 .. ENTRIES * ENTRIES - 1
    BY <1>1, <1>2
  <1>4. PAGE * (ENTRIES * d + e) = Place(d, e)
    BY <1>1 DEF Place
  <1> QED
    BY <1>3, <1>4, NumberPage

\* The page that an address is in.
LEMMA PageOfAddress ==
  ASSUME NEW a \in Nat
  PROVE  /\ PageOf(a) \in Nat /\ PageOf(a) <= a /\ a < PageOf(a) + PAGE
         /\ a < ADDR_MOD => PageOf(a) \in Pages
  <1> DEFINE q == a \div PAGE
  <1>1. PAGE \in Nat \ {0} /\ ENTRIES \in Nat \ {0}
        /\ ADDR_MOD = PAGE * (ENTRIES * ENTRIES)
    BY PagingConstants DEF ADDR_MOD
  <1>2. q \in Nat /\ a % PAGE \in 0 .. PAGE - 1 /\ a = PAGE * q + (a % PAGE)
    BY <1>1, Division
  <1>3. PageOf(a) = PAGE * q
    BY <1>1, <1>2 DEF PageOf
  <1> HIDE DEF q
  <1>4. PageOf(a) \in Nat /\ PageOf(a) <= a /\ a < PageOf(a) + PAGE
    BY <1>1, <1>2, <1>3
  <1>5. ASSUME a < ADDR_MOD
        PROVE  PageOf(a) \in Pages
    <2>1. PAGE * q < PAGE * (ENTRIES * ENTRIES) /\ ENTRIES * ENTRIES \in Int
      BY <1>1, <1>2, <1>3, <1>4, <1>5
    <2>2. q < ENTRIES * ENTRIES
      BY <1>1, <1>2, <2>1, LessTimes
    <2>3. q \in 0 .. ENTRIES * ENTRIES - 1
      BY <1>2, <2>1, <2>2
    <2> QED
      BY <1>3, <2>3, NumberPage
  <1> QED
    BY <1>4, <1>5

\* Pages that differ do not overlap.
LEMMA PageGap ==
  ASSUME NEW p \in Pages, NEW q \in Pages, p < q
  PROVE  p + PAGE <= q
  <1> DEFINE m == p \div PAGE
             n == q \div PAGE
  <1>1. PAGE \in Nat \ {0} /\ ENTRIES * ENTRIES \in Nat
    BY PagingConstants
  <1>2. m \in Nat /\ n \in Nat /\ p = PAGE * m /\ q = PAGE * n
    BY <1>1, PageNumber
  <1> HIDE DEF m, n
  <1>3. m < n
    BY <1>1, <1>2, LessTimes
  <1> QED
    BY <1>1, <1>2, <1>3, Apart

\* The loop goes on to the next page; after the last one it is at 0.
LEMMA NextPage ==
  ASSUME NEW p \in Pages
  PROVE  /\ (p + PAGE) % ADDR_MOD \in Pages
         /\ p + PAGE < ADDR_MOD => (p + PAGE) % ADDR_MOD = p + PAGE
  <1> DEFINE m == p \div PAGE
  <1>1. PAGE \in Nat \ {0} /\ ENTRIES \in Nat \ {0} /\ ENTRIES * ENTRIES \in Nat \ {0}
        /\ ADDR_MOD = PAGE * (ENTRIES * ENTRIES) /\ ADDR_MOD \in Nat \ {0}
    BY PagingConstants DEF ADDR_MOD
  <1>2. m \in 0 .. ENTRIES * ENTRIES - 1 /\ p = PAGE * m
    BY PageNumber
  <1> HIDE DEF m
  <1>3. m \in Nat /\ PAGE * (m + 1) = p + PAGE /\ p + PAGE \in Nat
    BY <1>1, <1>2
  <1>4. CASE m + 1 = ENTRIES * ENTRIES
    <2>1. p + PAGE = ADDR_MOD * 1 + 0
      BY <1>1, <1>3, <1>4
    <2>2. (p + PAGE) % ADDR_MOD = 0
      <3>1. 0 \in 0 .. ADDR_MOD - 1 /\ 1 \in Nat
        BY <1>1
      <3>2. (ADDR_MOD * 1 + 0) % ADDR_MOD = 0
        BY <1>1, <3>1, Quotient
      <3> QED
        BY <2>1, <3>2
    <2>3. 0 \in 0 .. ENTRIES * ENTRIES - 1 /\ PAGE * 0 = 0
      BY <1>1
    <2>4. 0 \in Pages
      BY <2>3, NumberPage
    <2> QED
      BY <1>1, <2>1, <2>2, <2>4
  <1>5. CASE m + 1 # ENTRIES * ENTRIES
    <2>1. m + 1 \in 0 .. ENTRIES * ENTRIES - 1
      BY <1>1, <1>2, <1>5
    <2>2. PAGE * (m + 1) \in Pages
      BY <2>1, NumberPage
    <2>3. p + PAGE \in Pages /\ p + PAGE \in 0 .. ADDR_MOD - 1
      BY <1>3, <2>2 DEF Pages, Address
    <2>4. (p + PAGE) % ADDR_MOD = p + PAGE
      <3>1. (ADDR_MOD * 0 + (p + PAGE)) % ADDR_MOD = p + PAGE
        BY <1>1, <2>3, Quotient
      <3>2. ADDR_MOD * 0 + (p + PAGE) = p + PAGE
        BY <1>1, <1>3
      <3> QED
        BY <3>1, <3>2
    <2> QED
      BY <2>3, <2>4
  <1> QED
    BY <1>4, <1>5

\* Whatever is below the end of the first n tables belongs to one of them.
LEMMA LowTable ==
  ASSUME NEW p \in Pages, NEW n \in Nat, p < n * PAGE * ENTRIES
  PROVE  pd_index(p) < n
  <1> DEFINE d == pd_index(p)
             e == pt_index(p)
  <1>1. d \in Nat /\ e \in Nat /\ p = d * PAGE * ENTRIES + e * PAGE
    BY PagePlace, PagingConstants DEF Place, Entry
  <1>2. PAGE \in Nat \ {0} /\ ENTRIES \in Nat \ {0}
    BY PagingConstants
  <1> HIDE DEF d, e
  <1>3. (PAGE * ENTRIES) * d < (PAGE * ENTRIES) * n /\ PAGE * ENTRIES \in Nat \ {0}
    BY <1>1, <1>2
  <1>4. d < n
    BY <1>1, <1>3, LessTimes
  <1> QED
    BY <1>4 DEF d

-----------------------------------------------------------------------------
(* The translation                                                          *)

\* A page is translated by the one entry at its place.
LEMMA TranslationAt ==
  ASSUME NEW p \in Pages
  PROVE  \E d, e \in Entry :
           /\ d = pd_index(p) /\ e = pt_index(p) /\ p = Place(d, e)
           /\ Translation(p) = IF page_directory[d] = ABSENT THEN ABSENT
                               ELSE tables[page_directory[d]][e]
           /\ Translation(p)' = IF page_directory'[d] = ABSENT THEN ABSENT
                                ELSE tables'[page_directory'[d]][e]
  <1>1. pd_index(p) \in Entry /\ pt_index(p) \in Entry
        /\ p = Place(pd_index(p), pt_index(p))
    BY PagePlace
  <1> QED
    BY <1>1 DEF Translation

\* Identity follows from what the tables contain.
LEMMA IdentityOfMapping ==
  ASSUME MappingInv
  PROVE  Identity
  <1> SUFFICES ASSUME NEW p \in Pages
               PROVE  /\ Translation(p) \in {ABSENT, p}
                      /\ paging /\ p < NUM_PAGE_TABLES * PAGE * ENTRIES
                           => Translation(p) = p
    BY DEF Identity
  <1>1. PICK d \in Entry, e \in Entry :
          /\ d = pd_index(p) /\ p = Place(d, e)
          /\ Translation(p) = IF page_directory[d] = ABSENT THEN ABSENT
                              ELSE tables[page_directory[d]][e]
    BY TranslationAt
  <1>2. Translation(p) \in {ABSENT, p}
    BY <1>1 DEF MappingInv, Place
  <1>3. ASSUME paging, p < NUM_PAGE_TABLES * PAGE * ENTRIES
        PROVE  Translation(p) = p
    <2>1. d < NUM_PAGE_TABLES
      BY <1>1, <1>3, LowTable, PagingConstants
    <2>2. d # ABSENT
      BY PagingConstants DEF Entry
    <2> QED
      BY <1>1, <1>3, <2>1, <2>2 DEF MappingInv, Place
  <1> QED
    BY <1>2, <1>3

\* paging is off until paging_init: no table is in use.
LEMMA NothingMapped ==
  ASSUME TypeOK, TablesOwned, ~paging
  PROVE  /\ \A d \in Entry : page_directory[d] = ABSENT
         /\ \A p \in Pages : Translation(p) = ABSENT
  <1>1. \A d \in Entry : page_directory[d] = ABSENT
    BY DEF TypeOK, TablesOwned
  <1> QED
    BY <1>1, TranslationAt

\* What entering the page addr in table t does: t comes from the directory or is
\* entered there, and contains old before.
LEMMA EnterPage ==
  ASSUME TypeOK, addr \in Pages, NEW t \in Table, NEW old \in [Entry -> Pages \cup {ABSENT}],
         MapInto(t, old)
  PROVE  /\ tables' \in [Table -> [Entry -> Pages \cup {ABSENT}]]
         /\ \A u \in Table : u # t => tables'[u] = tables[u]
         /\ \A e \in Entry : tables'[t][e] = IF e = pt_index(addr) THEN addr ELSE old[e]
  <1>1. pt_index(addr) \in Entry
    BY PagePlace
  <1>2. tables' = [tables EXCEPT ![t] = [old EXCEPT ![pt_index(addr)] = addr]]
    BY DEF MapInto
  <1>3. [old EXCEPT ![pt_index(addr)] = addr] \in [Entry -> Pages \cup {ABSENT}]
    BY <1>1
  <1> QED
    BY <1>1, <1>2, <1>3 DEF TypeOK

-----------------------------------------------------------------------------
(* The steps                                                                *)

\* paging_init enters every page of the first tables at its place.
LEMMA InitTables ==
  ASSUME IInv, paging_init
  PROVE  IInv'
  <1>1. /\ TypeOK /\ extra_tables_used = 0 /\ addr = ABSENT /\ ~paging
        /\ paging' = TRUE /\ UNCHANGED <<extra_tables_used, region, addr, halted>>
    BY DEF IInv, CallInv, paging_init
  <1>2. /\ NUM_PAGE_TABLES \in 1 .. ENTRIES /\ NUM_EXTRA_TABLES \in Nat
        /\ ENTRIES \in Nat \ {0} /\ ABSENT \notin Int
    BY PagingConstants
  <1>3. /\ page_directory' = [e \in Entry |-> IF e < NUM_PAGE_TABLES THEN e ELSE ABSENT]
        /\ tables' = [t \in Table |-> IF t < NUM_PAGE_TABLES
                                      THEN [e \in Entry |-> Place(t, e)]
                                      ELSE tables[t]]
    BY DEF paging_init, Place
  <1>4. \A t \in 0 .. NUM_PAGE_TABLES - 1 : t \in Entry /\ t \in Table
    BY <1>2 DEF Entry, Table
  <1>5. TypeOK'
    <2>1. page_directory' \in [Entry -> Table \cup {ABSENT}]
      BY <1>2, <1>3, <1>4 DEF Entry
    <2>2. tables' \in [Table -> [Entry -> Pages \cup {ABSENT}]]
      <3>1. ASSUME NEW t \in Table, t < NUM_PAGE_TABLES
            PROVE  [e \in Entry |-> Place(t, e)] \in [Entry -> Pages \cup {ABSENT}]
        <4>1. t \in Entry
          BY <1>2, <3>1 DEF Entry, Table
        <4> QED
          BY <4>1, PlaceOfPage
      <3> QED
        BY <1>1, <1>3, <3>1 DEF TypeOK
    <2> QED
      BY <1>1, <2>1, <2>2 DEF TypeOK
  <1>6. TablesOwned'
    <2>1. \A d, e \in Entry : page_directory'[d] = page_directory'[e]
                                /\ page_directory'[d] # ABSENT => d = e
      BY <1>2, <1>3 DEF Entry
    <2>2. ASSUME NEW t \in Table
          PROVE  (\E e \in Entry : page_directory'[e] = t) <=> t < NUM_PAGE_TABLES
      <3>1. t \in Int /\ t # ABSENT /\ t >= 0
        BY <1>2 DEF Table
      <3>2. ASSUME NEW e \in Entry, page_directory'[e] = t
            PROVE  t < NUM_PAGE_TABLES
        BY <1>3, <3>1, <3>2
      <3>3. ASSUME t < NUM_PAGE_TABLES
            PROVE  t \in Entry /\ page_directory'[t] = t
        <4>1. t \in Entry
          BY <1>2, <3>1, <3>3 DEF Entry
        <4> QED
          BY <1>3, <3>3, <4>1
      <3> QED
        BY <3>2, <3>3
    <2> QED
      BY <1>1, <1>2, <2>1, <2>2 DEF TablesOwned
  <1>7. MappingInv'
    <2> SUFFICES ASSUME NEW d \in Entry, NEW e \in Entry
                 PROVE  /\ page_directory'[d] # ABSENT
                             => tables'[page_directory'[d]][e] \in {ABSENT, Place(d, e)}
                        /\ d < NUM_PAGE_TABLES
                             => /\ page_directory'[d] = d
                                /\ tables'[page_directory'[d]][e] = Place(d, e)
      BY DEF MappingInv, Place
    <2>1. d < NUM_PAGE_TABLES => d \in Table
      BY <1>2, <1>4 DEF Entry
    <2> QED
      BY <1>3, <2>1
  <1>8. CallInv'
    BY <1>1 DEF CallInv
  <1> QED
    BY <1>5, <1>6, <1>7, <1>8 DEF IInv

\* Of a region only the addresses are known.
LEMMA RegionType ==
  ASSUME TypeOK
  PROVE  /\ region[1] \in Nat /\ region[2] \in Nat
         /\ region[1] < ADDR_MOD
  <1>1. PAGE \in Nat \ {0} /\ ENTRIES * ENTRIES \in Nat \ {0}
        /\ ADDR_MOD = PAGE * (ENTRIES * ENTRIES)
    BY PagingConstants DEF ADDR_MOD
  <1>2. ADDR_MOD \in Nat \ {0}
    BY <1>1
  <1>3. region \in Address \X Address
    BY PagingConstants, <1>2 DEF TypeOK, Address
  <1> QED
    BY <1>2, <1>3 DEF Address

\* The end of a region is a page, so that the loop never passes the last one.
LEMMA LoopStep ==
  ASSUME TypeOK, addr # ABSENT, addr < RegionEnd(region)
  PROVE  /\ addr \in Pages /\ (addr + PAGE) % ADDR_MOD = addr + PAGE
         /\ addr + PAGE \in Pages
  <1>1. /\ region[1] \in Nat /\ region[2] \in Nat /\ PAGE \in Nat \ {0}
        /\ ADDR_MOD \in Nat \ {0} /\ addr \in Pages
    <2>1. PAGE \in Nat \ {0} /\ ENTRIES * ENTRIES \in Nat \ {0}
          /\ ADDR_MOD = PAGE * (ENTRIES * ENTRIES)
      BY PagingConstants DEF ADDR_MOD
    <2>2. ADDR_MOD \in Nat \ {0}
      BY <2>1
    <2> QED
      BY <2>1, <2>2, RegionType DEF TypeOK
  <1> DEFINE x == region[1] + region[2] + PAGE - 1
  <1>2. x \in Nat
    BY <1>1
  <1> HIDE DEF x
  <1>3. x % ADDR_MOD \in 0 .. ADDR_MOD - 1
    BY <1>1, <1>2, Division
  <1>4. RegionEnd(region) \in Pages
    <2> DEFINE y == x % ADDR_MOD
    <2>1. y \in Nat /\ y < ADDR_MOD /\ RegionEnd(region) = PageOf(y)
      BY <1>1, <1>3 DEF RegionEnd, x
    <2> HIDE DEF y
    <2> QED
      BY <2>1, PageOfAddress
  <1>5. addr + PAGE <= RegionEnd(region) /\ RegionEnd(region) < ADDR_MOD
    BY <1>1, <1>4, PageGap DEF Pages, Address
  <1>6. addr + PAGE < ADDR_MOD
    BY <1>1, <1>4, <1>5 DEF Pages, Address
  <1> QED
    BY <1>1, <1>6, NextPage

\* Every page that was mapped still is, and so is the page addr.
Extends == \A p \in Pages : Translation(p) # ABSENT \/ p = addr => Translation(p)' # ABSENT

\* A page of a part of the address space that has a table.
LEMMA MapPageStep ==
  ASSUME IInv, MapPage
  PROVE  TypeOK' /\ TablesOwned' /\ MappingInv' /\ Extends
  <1> DEFINE d0 == pd_index(addr)
             e0 == pt_index(addr)
             t == page_directory[d0]
  <1>1. /\ TypeOK /\ TablesOwned /\ MappingInv /\ addr \in Pages
        /\ addr' = addr + PAGE /\ addr' \in Pages
    BY LoopStep DEF IInv, MapPage
  <1>2. d0 \in Entry /\ e0 \in Entry /\ addr = Place(d0, e0) /\ addr # ABSENT
    BY <1>1, PagePlace DEF MapPage
  <1>3. t \in Table /\ t # ABSENT
    BY <1>1, <1>2 DEF TypeOK, MapPage
  <1>4. /\ tables' \in [Table -> [Entry -> Pages \cup {ABSENT}]]
        /\ \A u \in Table : u # t => tables'[u] = tables[u]
        /\ \A e \in Entry : tables'[t][e] = IF e = e0 THEN addr ELSE tables[t][e]
    <2>1. tables[t] \in [Entry -> Pages \cup {ABSENT}] /\ MapInto(t, tables[t])
      BY <1>1, <1>3 DEF TypeOK, MapPage
    <2> HIDE DEF t
    <2> QED
      BY <1>1, <1>3, <2>1, EnterPage
  <1>5. UNCHANGED <<page_directory, extra_tables_used, paging, region, halted>>
    BY DEF MapPage
  <1>6. \A d \in Entry : page_directory[d] = t => d = d0
    BY <1>1, <1>2, <1>3 DEF TablesOwned
  <1>7. \A d \in Entry : page_directory[d] # ABSENT => page_directory[d] \in Table
    BY <1>1 DEF TypeOK
  <1> HIDE DEF d0, e0, t
  <1>8. TypeOK'
    BY <1>1, <1>4, <1>5 DEF TypeOK
  <1>9. TablesOwned'
    BY <1>1, <1>5 DEF TablesOwned
  <1>10. MappingInv'
    <2> SUFFICES ASSUME NEW d \in Entry, NEW e \in Entry
                 PROVE  /\ page_directory[d] # ABSENT
                             => tables'[page_directory[d]][e] \in {ABSENT, Place(d, e)}
                        /\ paging /\ d < NUM_PAGE_TABLES
                             => /\ page_directory[d] = d
                                /\ tables'[page_directory[d]][e] = Place(d, e)
      BY <1>5 DEF MappingInv, Place
    <2>1. /\ page_directory[d] # ABSENT
               => tables[page_directory[d]][e] \in {ABSENT, Place(d, e)}
          /\ paging /\ d < NUM_PAGE_TABLES
               => /\ page_directory[d] = d
                  /\ tables[page_directory[d]][e] = Place(d, e)
      BY <1>1 DEF MappingInv, Place
    <2>2. CASE page_directory[d] = t
      BY <1>2, <1>4, <1>6, <2>1, <2>2
    <2>3. CASE page_directory[d] # t
      <3>1. d < NUM_PAGE_TABLES => d # ABSENT
        BY PagingConstants DEF Entry
      <3> QED
        BY <1>4, <1>7, <2>1, <2>3, <3>1
    <2> QED
      BY <2>2, <2>3
  <1>11. Extends
    <2> SUFFICES ASSUME NEW p \in Pages, Translation(p) # ABSENT \/ p = addr
                 PROVE  Translation(p)' # ABSENT
      BY DEF Extends
    <2>1. PICK d \in Entry, e \in Entry :
            /\ d = pd_index(p) /\ e = pt_index(p) /\ p = Place(d, e)
            /\ Translation(p) = IF page_directory[d] = ABSENT THEN ABSENT
                                ELSE tables[page_directory[d]][e]
            /\ Translation(p)' = IF page_directory'[d] = ABSENT THEN ABSENT
                                 ELSE tables'[page_directory'[d]][e]
      BY TranslationAt
    <2>2. CASE p = addr
      BY <1>2, <1>3, <1>4, <1>5, <2>1, <2>2 DEF d0, e0, t
    <2>3. CASE p # addr
      BY <1>2, <1>4, <1>5, <1>7, <2>1, <2>3
    <2> QED
      BY <2>2, <2>3
  <1> QED
    BY <1>8, <1>9, <1>10, <1>11

\* A page of a part that has none: the next spare table is nobody else's.
LEMMA MapPageInSpareStep ==
  ASSUME IInv, MapPageInSpare
  PROVE  TypeOK' /\ TablesOwned' /\ MappingInv' /\ Extends
  <1> DEFINE d0 == pd_index(addr)
             e0 == pt_index(addr)
  <1>1. /\ TypeOK /\ TablesOwned /\ MappingInv /\ addr \in Pages
        /\ addr' = addr + PAGE /\ addr' \in Pages
    BY LoopStep DEF IInv, MapPageInSpare
  <1>2. d0 \in Entry /\ e0 \in Entry /\ addr = Place(d0, e0) /\ addr # ABSENT
    BY <1>1, PagePlace DEF MapPageInSpare
  <1>3. /\ extra_tables_used \in Nat /\ extra_tables_used < NUM_EXTRA_TABLES /\ paging
        /\ NUM_EXTRA_TABLES \in Nat /\ NUM_PAGE_TABLES \in Nat /\ ABSENT \notin Int
    BY PagingConstants, <1>2 DEF IInv, CallInv, TypeOK, MapPageInSpare
  <1>4. /\ Spare \in Table /\ Spare # ABSENT
        /\ \A d \in Entry : page_directory[d] # Spare
    <2>1. Spare \in Table /\ Spare \in Nat
      BY <1>3 DEF Spare, Table
    <2>2. ~(Spare < NUM_PAGE_TABLES + extra_tables_used)
      BY <1>3 DEF Spare
    <2> QED
      BY <1>1, <1>3, <2>1, <2>2 DEF TablesOwned
  <1>5. /\ tables' \in [Table -> [Entry -> Pages \cup {ABSENT}]]
        /\ \A u \in Table : u # Spare => tables'[u] = tables[u]
        /\ \A e \in Entry : tables'[Spare][e] = IF e = e0 THEN addr ELSE ABSENT
    <2> DEFINE old == [e \in Entry |-> ABSENT]
    <2>1. old \in [Entry -> Pages \cup {ABSENT}] /\ MapInto(Spare, old)
          /\ \A e \in Entry : old[e] = ABSENT
      BY DEF MapPageInSpare
    <2> HIDE DEF old
    <2>2. /\ tables' \in [Table -> [Entry -> Pages \cup {ABSENT}]]
          /\ \A u \in Table : u # Spare => tables'[u] = tables[u]
          /\ \A e \in Entry : tables'[Spare][e] = IF e = e0 THEN addr ELSE old[e]
      BY <1>1, <1>4, <2>1, EnterPage
    <2> QED
      BY <2>1, <2>2
  <1>6. /\ page_directory' = [page_directory EXCEPT ![d0] = Spare]
        /\ page_directory[d0] = ABSENT /\ extra_tables_used' = extra_tables_used + 1
        /\ UNCHANGED <<paging, region, halted>>
    BY DEF MapPageInSpare
  <1>7. /\ page_directory' \in [Entry -> Table \cup {ABSENT}]
        /\ \A d \in Entry : page_directory'[d] = IF d = d0 THEN Spare ELSE page_directory[d]
    BY <1>1, <1>2, <1>4, <1>6 DEF TypeOK
  <1>8. \A d \in Entry : page_directory[d] # ABSENT => page_directory[d] \in Table
    BY <1>1 DEF TypeOK
  <1> HIDE DEF d0, e0
  <1>9. TypeOK'
    BY <1>1, <1>3, <1>5, <1>6, <1>7 DEF TypeOK
  <1>10. TablesOwned'
    <2>1. \A d, e \in Entry : page_directory'[d] = page_directory'[e]
                                /\ page_directory'[d] # ABSENT => d = e
      BY <1>1, <1>4, <1>7 DEF TablesOwned
    <2>2. ASSUME NEW u \in Table
          PROVE  (\E e \in Entry : page_directory'[e] = u)
                   <=> u < NUM_PAGE_TABLES + extra_tables_used'
      <3>1. u < NUM_PAGE_TABLES + extra_tables_used' <=>
              u < NUM_PAGE_TABLES + extra_tables_used \/ u = Spare
        BY <1>3, <1>6 DEF Spare, Table
      <3>2. (\E e \in Entry : page_directory[e] = u)
              <=> u < NUM_PAGE_TABLES + extra_tables_used
        BY <1>1, <1>3 DEF TablesOwned
      <3>3. u # ABSENT
        BY <1>3 DEF Table
      <3> QED
        BY <1>2, <1>6, <1>7, <3>1, <3>2, <3>3
    <2> QED
      BY <1>3, <1>6, <2>1, <2>2 DEF TablesOwned
  <1>11. MappingInv'
    <2> SUFFICES ASSUME NEW d \in Entry, NEW e \in Entry
                 PROVE  /\ page_directory'[d] # ABSENT
                             => tables'[page_directory'[d]][e] \in {ABSENT, Place(d, e)}
                        /\ d < NUM_PAGE_TABLES
                             => /\ page_directory'[d] = d
                                /\ tables'[page_directory'[d]][e] = Place(d, e)
      BY <1>3, <1>6 DEF MappingInv, Place
    <2>1. /\ page_directory[d] # ABSENT
               => tables[page_directory[d]][e] \in {ABSENT, Place(d, e)}
          /\ d < NUM_PAGE_TABLES
               => /\ page_directory[d] = d
                  /\ tables[page_directory[d]][e] = Place(d, e)
      BY <1>1, <1>3 DEF MappingInv, Place
    <2>2. d # ABSENT
      BY <1>3 DEF Entry
    <2>3. CASE d = d0
      BY <1>2, <1>5, <1>6, <1>7, <2>1, <2>2, <2>3
    <2>4. CASE d # d0
      BY <1>4, <1>5, <1>7, <1>8, <2>1, <2>2, <2>4
    <2> QED
      BY <2>3, <2>4
  <1>12. Extends
    <2> SUFFICES ASSUME NEW p \in Pages, Translation(p) # ABSENT \/ p = addr
                 PROVE  Translation(p)' # ABSENT
      BY DEF Extends
    <2>1. PICK d \in Entry, e \in Entry :
            /\ d = pd_index(p) /\ e = pt_index(p) /\ p = Place(d, e)
            /\ Translation(p) = IF page_directory[d] = ABSENT THEN ABSENT
                                ELSE tables[page_directory[d]][e]
            /\ Translation(p)' = IF page_directory'[d] = ABSENT THEN ABSENT
                                 ELSE tables'[page_directory'[d]][e]
      BY TranslationAt
    <2>2. CASE p = addr
      BY <1>2, <1>4, <1>5, <1>7, <2>1, <2>2 DEF d0, e0
    <2>3. CASE p # addr
      BY <1>4, <1>5, <1>6, <1>7, <1>8, <2>1, <2>3
    <2> QED
      BY <2>2, <2>3
  <1> QED
    BY <1>9, <1>10, <1>11, <1>12

LEMMA MapStep ==
  ASSUME IInv, MapPage \/ MapPageInSpare
  PROVE  IInv' /\ Extends
  <1>1. TypeOK' /\ TablesOwned' /\ MappingInv' /\ Extends
    BY MapPageStep, MapPageInSpareStep
  <1>2. /\ addr \in Pages /\ addr' = addr + PAGE /\ addr' \in Pages /\ paging /\ paging'
        /\ region' = region /\ addr # ABSENT
    BY LoopStep DEF IInv, CallInv, MapPage, MapPageInSpare
  <1>3. ASSUME NEW p \in Pages, PageOf(region[1]) <= p, p < addr'
        PROVE  Translation(p)' # ABSENT
    <2>1. p <= addr
      <3> SUFFICES ASSUME addr < p
                   PROVE  FALSE
        BY <1>2 DEF Pages, Address
      <3>1. addr + PAGE <= p
        BY <1>2, PageGap
      <3> QED
        BY <1>2, <1>3, <3>1 DEF Pages, Address
    <2>2. p = addr \/ Translation(p) # ABSENT
      BY <1>2, <1>3, <2>1 DEF IInv, CallInv, Pages, Address
    <2> QED
      BY <1>1, <2>2 DEF Extends
  <1>4. CallInv'
    <2>1. \A p \in Pages : PageOf(region'[1]) <= p /\ p < addr' => Translation(p)' # ABSENT
      BY <1>2, <1>3
    <2>2. PageOf(region[1])' = PageOf(region'[1])
      BY DEF PageOf
    <2> QED
      BY <1>2, <2>1, <2>2 DEF CallInv
  <1> QED
    BY <1>1, <1>4 DEF IInv

\* A call begins with nothing mapped of its region.
LEMMA MapRegionStep ==
  ASSUME IInv, NEW r \in Regions, MapRegion(r)
  PROVE  IInv'
  <1>1. /\ TypeOK /\ TablesOwned /\ MappingInv /\ paging /\ region' = r
        /\ addr' = PageOf(r[1])
        /\ UNCHANGED <<page_directory, tables, extra_tables_used, paging, halted>>
    BY DEF IInv, MapRegion
  <1>2. PageOf(r[1]) \in Pages
    <2>1. r \in Address \X Address
      BY PagingConstants
    <2>2. ADDR_MOD \in Int
      BY PagingConstants DEF ADDR_MOD
    <2>3. r[1] \in Nat /\ r[1] < ADDR_MOD
      BY <2>1, <2>2 DEF Address
    <2> QED
      BY <2>3, PageOfAddress
  <1>3. TypeOK' /\ TablesOwned' /\ MappingInv'
    BY <1>1, <1>2 DEF TypeOK, TablesOwned, MappingInv
  <1>4. \A p \in Pages : ~(PageOf(r[1]) <= p /\ p < PageOf(r[1]))
    BY <1>2 DEF Pages, Address
  <1>5. CallInv'
    BY <1>1, <1>4 DEF CallInv
  <1> QED
    BY <1>3, <1>5 DEF IInv

\* Steps that leave the tables alone and end the call, or change neither.
LEMMA OtherStep ==
  ASSUME IInv, addr' \in {addr, ABSENT}, halted' \in BOOLEAN,
         UNCHANGED <<page_directory, tables, extra_tables_used, paging, region>>
  PROVE  IInv'
  <1>1. TypeOK' /\ TablesOwned' /\ MappingInv'
    BY DEF IInv, TypeOK, TablesOwned, MappingInv
  <1>2. \A p \in Pages : Translation(p)' = Translation(p)
    BY DEF Translation
  <1>3. CallInv'
    BY <1>2 DEF IInv, CallInv, PageOf
  <1> QED
    BY <1>1, <1>3 DEF IInv

LEMMA InitInv == Init => IInv
  <1> SUFFICES ASSUME Init
               PROVE  IInv
    OBVIOUS
  <1>1. /\ \A d \in Entry : page_directory[d] = ABSENT
        /\ extra_tables_used = 0 /\ paging = FALSE /\ addr = ABSENT
    BY DEF Init
  <1>2. TypeOK
    <2>1. page_directory \in [Entry -> Table \cup {ABSENT}]
      BY DEF Init
    <2>2. tables \in [Table -> [Entry -> Pages \cup {ABSENT}]]
      BY DEF Init
    <2>3. extra_tables_used \in 0 .. NUM_EXTRA_TABLES
      BY <1>1, PagingConstants
    <2> QED
      BY <1>1, <2>1, <2>2, <2>3 DEF Init, TypeOK
  <1>3. TablesOwned
    <2>1. ABSENT \notin Table
      BY PagingConstants DEF Table
    <2> QED
      BY <1>1, <2>1 DEF TablesOwned
  <1>4. MappingInv /\ CallInv
    BY <1>1 DEF MappingInv, CallInv
  <1> QED
    BY <1>2, <1>3, <1>4 DEF IInv

LEMMA NextInv == IInv /\ [Next]_vars => IInv'
  <1> SUFFICES ASSUME IInv, [Next]_vars
               PROVE  IInv'
    OBVIOUS
  <1>1. CASE paging_init
    BY <1>1, InitTables
  <1>2. ASSUME NEW r \in Regions, MapRegion(r)
        PROVE  IInv'
    BY <1>2, MapRegionStep
  <1>3. CASE MapPage \/ MapPageInSpare
    BY <1>3, MapStep
  <1>4. CASE MapReturn
    BY <1>4, OtherStep DEF MapReturn, IInv, TypeOK
  <1>5. ASSUME NEW a \in Address, PageFault(a)
        PROVE  IInv'
    BY <1>5, OtherStep DEF PageFault
  <1>6. CASE UNCHANGED vars
    BY <1>6, OtherStep DEF vars, IInv, TypeOK
  <1> QED
    BY <1>1, <1>2, <1>3, <1>4, <1>5, <1>6 DEF Next

-----------------------------------------------------------------------------
(* The theorems                                                             *)

\* The inductive invariant holds in every state that the program reaches.
THEOREM Invariance == Spec => []IInv
  BY InitInv, NextInv, PTL DEF Spec

\* The directory designates tables that exist, the tables pages: however many
\* regions are asked for, the spare tables are never overrun.
THEOREM TypeCorrect == Spec => []TypeOK
  <1>1. IInv => TypeOK
    BY DEF IInv
  <1> QED
    BY <1>1, Invariance, PTL

\* Whatever is mapped is mapped to itself, and once paging is on all of the
\* first NUM_PAGE_TABLES * 4 MiB is: code, stacks and heap stay where they were.
THEOREM IdentityKept == Spec => []Identity
  <1>1. IInv => Identity
    BY IdentityOfMapping DEF IInv
  <1> QED
    BY <1>1, Invariance, PTL

\* No two directory entries share a table, and the tables in use are those of
\* paging_init and the spare ones that extra_tables_used counts.
THEOREM TablesNotShared == Spec => []TablesOwned
  <1>1. IInv => TablesOwned
    BY DEF IInv
  <1> QED
    BY <1>1, Invariance, PTL

\* No step of any call takes a mapping away: a spare table is cleared only when
\* nothing refers to it.
THEOREM MappingsKept == Spec => NothingUnmapped
  <1>1. ASSUME IInv, [Next]_vars
        PROVE  \A p \in Pages : Translation(p) # ABSENT => Translation(p)' # ABSENT
    <2> SUFFICES ASSUME NEW p \in Pages, Translation(p) # ABSENT
                 PROVE  Translation(p)' # ABSENT
      OBVIOUS
    <2>1. ASSUME UNCHANGED <<page_directory, tables>>
          PROVE  Translation(p)' # ABSENT
      BY <2>1 DEF Translation
    <2>2. CASE MapPage \/ MapPageInSpare
      BY <1>1, <2>2, MapStep DEF Extends
    <2>3. CASE paging_init
      BY <1>1, <2>3, NothingMapped DEF IInv, paging_init
    <2>4. CASE MapReturn \/ UNCHANGED vars
      BY <2>1, <2>4 DEF MapReturn, vars
    <2>5. ASSUME NEW r \in Regions, MapRegion(r)
          PROVE  Translation(p)' # ABSENT
      BY <2>1, <2>5 DEF MapRegion
    <2>6. ASSUME NEW a \in Address, PageFault(a)
          PROVE  Translation(p)' # ABSENT
      BY <2>1, <2>6 DEF PageFault
    <2> QED
      BY <1>1, <2>2, <2>3, <2>4, <2>5, <2>6 DEF Next
  <1> QED
    BY <1>1, Invariance, PTL DEF Spec, NothingUnmapped

\* A call that returns has mapped its region, or there was no spare table left
\* for the page it stopped at, or the region reaches into the last page of the
\* address space; no other call falls short.
THEOREM RegionsComplete == Spec => RegionMapped
  <1>1. ASSUME IInv, [Next]_vars, addr # ABSENT, addr' = ABSENT
        PROVE  \/ \A p \in Covered(region) : Translation(p) # ABSENT
               \/ /\ extra_tables_used = NUM_EXTRA_TABLES /\ NoSpareLeft
                  /\ \A p \in Covered(region) : p < addr => Translation(p) # ABSENT
               \/ region[1] + region[2] > ADDR_MOD - PAGE
    <2>1. /\ TypeOK /\ addr \in Pages
          /\ \A p \in Pages : PageOf(region[1]) <= p /\ p < addr => Translation(p) # ABSENT
      BY <1>1 DEF IInv, TypeOK, CallInv
    <2>2. MapReturn
      <3>1. ~(MapPage \/ MapPageInSpare)
        BY <1>1, LoopStep, PagingConstants DEF IInv, MapPage, MapPageInSpare, Pages, Address
      <3>2. \A r \in Regions : ~MapRegion(r)
        BY <1>1 DEF MapRegion
      <3>3. ~paging_init /\ (\A a \in Address : ~PageFault(a)) /\ ~UNCHANGED vars
        BY <1>1 DEF paging_init, PageFault, vars
      <3> QED
        BY <1>1, <3>1, <3>2, <3>3 DEF Next
    <2>3. /\ PAGE \in Nat \ {0} /\ ENTRIES * ENTRIES \in Nat \ {0}
          /\ ADDR_MOD = PAGE * (ENTRIES * ENTRIES) /\ ADDR_MOD \in Nat \ {0}
      <3>1. PAGE \in Nat \ {0} /\ ENTRIES * ENTRIES \in Nat \ {0}
            /\ ADDR_MOD = PAGE * (ENTRIES * ENTRIES)
        BY PagingConstants DEF ADDR_MOD
      <3>2. ADDR_MOD \in Nat \ {0}
        BY <3>1
      <3> QED
        BY <3>1, <3>2
    <2>4. region[1] \in Nat /\ region[2] \in Nat /\ region[1] < ADDR_MOD
      BY <2>1, RegionType
    <2>5. ASSUME NEW p \in Covered(region)
          PROVE  p \in Pages /\ PageOf(region[1]) <= p /\ p < region[1] + region[2]
      <3>1. p \in Pages /\ p < region[1] + region[2] /\ p + PAGE > region[1]
        BY <2>5 DEF Covered
      <3>2. p \in Nat /\ p < ADDR_MOD
        BY <2>3, <3>1 DEF Pages, Address
      <3>3. PageOf(region[1]) \in Nat /\ PageOf(region[1]) <= region[1]
        BY <2>4, PageOfAddress
      <3>4. PageOf(region[1]) <= p
        <4> SUFFICES ASSUME p < PageOf(region[1])
                     PROVE  FALSE
          BY <3>2, <3>3
        <4>1. PageOf(region[1]) \in Pages
          BY <2>4, PageOfAddress
        <4>2. p + PAGE <= PageOf(region[1])
          BY <3>1, <4>1, PageGap
        <4> QED
          BY <2>3, <2>4, <3>1, <3>2, <3>3, <4>2
      <3> QED
        BY <3>1, <3>4
    <2>6. \A p \in Covered(region) : p < addr => Translation(p) # ABSENT
      BY <2>1, <2>5
    <2>7. CASE NoSpareLeft
      <3>1. extra_tables_used = NUM_EXTRA_TABLES
        BY <2>1, <2>7, PagingConstants DEF TypeOK, NoSpareLeft
      <3> QED
        BY <2>6, <2>7, <3>1
    <2>8. CASE addr >= RegionEnd(region) /\ region[1] + region[2] <= ADDR_MOD - PAGE
      <3> DEFINE x == region[1] + region[2] + PAGE - 1
      <3>1. x \in 0 .. ADDR_MOD - 1 /\ x \in Nat
        BY <2>3, <2>4, <2>8
      <3>2. x % ADDR_MOD = x
        <4> HIDE DEF x
        <4>1. (ADDR_MOD * 0 + x) % ADDR_MOD = x
          BY <2>3, <3>1, Quotient
        <4>2. ADDR_MOD * 0 + x = x
          BY <2>3, <3>1
        <4> QED
          BY <4>1, <4>2
      <3>3. RegionEnd(region) = PageOf(x)
        BY <3>2 DEF RegionEnd
      <3>4. PageOf(x) \in Nat /\ x < PageOf(x) + PAGE
        <4> HIDE DEF x
        <4> QED
          BY <3>1, PageOfAddress
      <3>5. \A p \in Covered(region) : p < addr
        <4> SUFFICES ASSUME NEW p \in Covered(region)
                     PROVE  p < addr
          OBVIOUS
        <4>1. p < region[1] + region[2] /\ p \in Int /\ addr \in Int
          BY <2>1, <2>5 DEF Pages, Address
        <4>2. region[1] + region[2] <= PageOf(x)
          BY <2>3, <2>4, <3>4
        <4> QED
          BY <2>4, <2>8, <3>3, <3>4, <4>1, <4>2
      <3> QED
        BY <2>6, <3>5
    <2>9. CASE ~(region[1] + region[2] <= ADDR_MOD - PAGE)
      BY <2>3, <2>4, <2>9
    <2> QED
      BY <2>2, <2>7, <2>8, <2>9 DEF MapReturn
  <1> QED
    BY <1>1, Invariance, PTL DEF Spec, RegionMapped
=============================================================================
