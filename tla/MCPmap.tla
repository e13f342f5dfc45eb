------------------------------ MODULE MCPmap ------------------------------
(* Sets of user addresses for the configurations of Pmap, and the view of  *)
(* its passing run.  Index 2 stands for the last entry of a table;         *)
(* directory 1 is the one of UTOP.                                         *)
EXTENDS Pmap

\* Two addresses in one page table and one under the other page directory,
\* away from the last entries.
InnerVA == {<<0, 0, 0>>, <<0, 0, 1>>, <<1, 0, 0>>}
\* The exception stack's page, UXSTACKTOP - PGSIZE, is in a last entry.
StackVA == {<<0, 0, 0>>, <<1, 0, 2>>}

(* The state up to the names of the pages, the VIEW of the run.  Nothing    *)
(* tells two free pages apart, so which of them page_alloc takes changes    *)
(* only names.  A page is described by the paths of entries that lead to it *)
(* and its counts, and the view counts the pages of each description.       *)
(* failed is left out: no step reads it.                                    *)
Below(S) ==
  {x \in {<<Append(s[1], i), mem[s[2]][i]>> : s \in S, i \in Idx} : x[2] # NONE}
PathsTo ==
  LET roots == {<<<<e>>, env_pml4e[e]>> : e \in Live}
      pdpts == Below(roots)
      pgdirs == Below(pdpts)
      pts == Below(pgdirs)
  IN  roots \cup pdpts \cup pgdirs \cup pts \cup Below(pts)
UpToNames ==
  LET paths == PathsTo
      shape == [p \in Page |-> <<{x[1] : x \in {y \in paths : y[2] = p}}, ref[p], free[p]>>]
      Alike(d) == {p \in Page \ {0} : shape[p] = d}
  IN  <<shape[0], {<<d, Cardinality(Alike(d))>> : d \in {shape[p] : p \in Page \ {0}}}>>
=============================================================================
