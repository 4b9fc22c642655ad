------------------------------ MODULE MCPaging ------------------------------
(***************************************************************************)
(* A small instance of Paging: 16 pages of 2 bytes in 4 tables, of which   *)
(* one is mapped at first and two are spare, so that the last part of the  *)
(* address space asked for stays unmapped.                                 *)
(***************************************************************************)
EXTENDS Paging

\* Regions inside a page, across pages and tables, inside the initial mapping,
\* up to the last page and into it.
MCRegions == {<<0, 3>>, <<7, 2>>, <<9, 6>>, <<16, 1>>, <<20, 9>>, <<25, 3>>,
              <<29, 1>>, <<28, 4>>}
=============================================================================
