-------------------------------- MODULE Pmap --------------------------------
(***************************************************************************)
(* Physical pages, their reference counts and the page tables of the       *)
(* environments: kern/pmap.c, the address-space half of env_alloc and      *)
(* env_free in kern/env.c, and the page system calls of kern/syscall.c.    *)
(*                                                                         *)
(* All of it runs under the big kernel lock, so a system call is one       *)
(* action.  The memory is a record of what the code changes:               *)
(*   mem   the entries of the pages that serve as tables                   *)
(*   ref   pp_ref of every page                                            *)
(*   free  how often a page is on page_free_list (0 or 1, if all is well); *)
(*         its order is left out, page_alloc takes the smallest page      *)
(* and each function of pmap.c is an operator from a memory to a memory.   *)
(* An entry is NONE (the word 0) or the page it points to; permissions are *)
(* left out.  A user address is the path of its indices <<pdpe, pde, pte>>:*)
(* all user addresses share entry 0 of the PML4.                           *)
(***************************************************************************)
EXTENDS Integers, Sequences, FiniteSets
LOCAL INSTANCE SequencesExt
LOCAL INSTANCE FiniteSetsExt

CONSTANTS
  Env,       \* environments: the slots that own an address space
  NPAGE,     \* physical pages; page 0 is the one page_init reserves
  VA,        \* the user page addresses in use, each <<pdpe, pde, pte>>
  PdpeTop,   \* PDPE(UTOP): env_setup_vm gives it a page directory
  PdxTop,    \* PDX(UTOP): the first entry of that directory above user space
  LastIdx,   \* the last entry of a table (NPTENTRIES - 1)
  RefMod,    \* 2^16: pp_ref is a uint16_t
  MaxStray   \* bound: how far pp_ref of page 0 may move from 0

ASSUME PmapAssumption ==
  /\ NPAGE \in Nat /\ RefMod \in Nat /\ RefMod > 1 /\ MaxStray \in Nat /\ LastIdx \in Nat
  /\ PdpeTop \in 0 .. LastIdx /\ PdxTop \in 0 .. LastIdx
  /\ VA \subseteq (0 .. LastIdx) \X (0 .. LastIdx) \X (0 .. LastIdx)
  /\ \A va \in VA : va[1] = PdpeTop => va[2] < PdxTop

VARIABLES
  mem, ref, free,
  env_pml4e,     \* [Env -> Page or NULL], NULL for a free slot
  failed         \* history: the last call returned an error

vars == <<mem, ref, free, env_pml4e, failed>>

Page == 0 .. NPAGE - 1
Idx == 0 .. LastIdx
NONE == -1
NULL == -1
Zeroed == [i \in Idx |-> NONE]
Memory == [mem |-> mem, ref |-> ref, free |-> free]

-----------------------------------------------------------------------------
(* The allocator.  What a free page holds is never read: it is Zeroed.     *)

Available(m) == {p \in Page : m.free[p] # 0}
First(m) == Min(Available(m))
Taken(m) == [m EXCEPT !.free[First(m)] = @ - 1]

\* Mutant: a page is freed whatever its count.
page_free_always(m, p) == [m EXCEPT !.free[p] = @ + 1]
page_free(m, p) ==
  IF m.ref[p] # 0 \/ m.free[p] # 0 THEN m
  ELSE [m EXCEPT !.free[p] = @ + 1, !.mem[p] = Zeroed]

\* pp_ref is 16 bits wide: decrementing 0 gives RefMod - 1.
\* Mutant: it goes below zero.
page_decref_signed(m, p) == page_free([m EXCEPT !.ref[p] = @ - 1], p)
page_decref(m, p) ==
  page_free([m EXCEPT !.ref[p] = (@ + RefMod - 1) % RefMod], p)

Incref(m, p) == [m EXCEPT !.ref[p] = (@ + 1) % RefMod]

\* A new table at entry i of table t: page_alloc, one reference, zeroed.
NewTable(m, t, i) ==
  LET p == First(m)
  IN  Incref([Taken(m) EXCEPT !.mem[t][i] = p, !.mem[p] = Zeroed], p)

\* The undo of a walk that failed further down.
DropTable(m, t, i) ==
  LET p == m.mem[t][i]
  IN  page_free([m EXCEPT !.mem[t][i] = NONE, !.ref[p] = 0], p)

-----------------------------------------------------------------------------
(* The walks.  Each returns the memory and the page table of va, NULL when *)
(* a table is missing and create is FALSE or there is no page for it.      *)

pgdir_walk(m, pgdir, va, create) ==
  IF m.mem[pgdir][va[2]] # NONE THEN [m |-> m, pt |-> m.mem[pgdir][va[2]]]
  ELSE IF ~create \/ Available(m) = {} THEN [m |-> m, pt |-> NULL]
  ELSE [m |-> NewTable(m, pgdir, va[2]), pt |-> First(m)]

\* A table made at entry i of t on the way to a walk r that failed is undone.
Undone(r, t, i) ==
  IF r.pt = NULL THEN [m |-> DropTable(r.m, t, i), pt |-> NULL] ELSE r

pdpe_walk(m, pdpe, va, create) ==
  IF m.mem[pdpe][va[1]] # NONE THEN pgdir_walk(m, m.mem[pdpe][va[1]], va, create)
  ELSE IF ~create \/ Available(m) = {} THEN [m |-> m, pt |-> NULL]
  ELSE Undone(pgdir_walk(NewTable(m, pdpe, va[1]), First(m), va, create), pdpe, va[1])

pml4e_walk(m, pml4e, va, create) ==
  IF m.mem[pml4e][0] # NONE THEN pdpe_walk(m, m.mem[pml4e][0], va, create)
  ELSE IF ~create \/ Available(m) = {} THEN [m |-> m, pt |-> NULL]
  ELSE Undone(pdpe_walk(NewTable(m, pml4e, 0), First(m), va, create), pml4e, 0)

\* pa2page(PTE_ADDR(*pte)): an entry that is 0 gives page 0.
PageOf(entry) == IF entry = NONE THEN 0 ELSE entry

PageAt(m, pt, va) == IF pt = NULL THEN NULL ELSE PageOf(m.mem[pt][va[3]])
page_lookup(m, pml4e, va) == PageAt(m, pml4e_walk(m, pml4e, va, FALSE).pt, va)

Cleared(m, pt, va) ==
  IF pt = NULL THEN m
  ELSE [page_decref(m, PageAt(m, pt, va)) EXCEPT !.mem[pt][va[3]] = NONE]
page_remove(m, pml4e, va) == Cleared(m, pml4e_walk(m, pml4e, va, FALSE).pt, va)

\* The memory and whether it worked (0 or -E_NO_MEM).
Inserted(m, pml4e, pt, pp, va) ==
  IF PageOf(m.mem[pt][va[3]]) = pp THEN [m EXCEPT !.mem[pt][va[3]] = pp]
  ELSE Incref([(IF m.mem[pt][va[3]] # NONE THEN page_remove(m, pml4e, va) ELSE m)
                EXCEPT !.mem[pt][va[3]] = pp], pp)

InsertedAt(r, pml4e, pp, va) ==
  IF r.pt = NULL THEN [m |-> r.m, ok |-> FALSE]
  ELSE [m |-> Inserted(r.m, pml4e, r.pt, pp, va), ok |-> TRUE]
page_insert(m, pml4e, pp, va) ==
  InsertedAt(pml4e_walk(m, pml4e, va, TRUE), pml4e, pp, va)

-----------------------------------------------------------------------------
(* Address spaces.                                                         *)

\* env_free's sweep.  It stops one entry short of the end of a page table,
\* and of a page directory other than the one of UTOP.
\* Mutant: the pages of the table are not unmapped.
SweptNotUnmapped(m, root, d, e) ==
  LET pgdir == m.mem[m.mem[root][0]][d]
  IN  page_decref([m EXCEPT !.mem[pgdir][e] = NONE], m.mem[pgdir][e])
Swept(m, root, d, e) ==
  LET pgdir == m.mem[m.mem[root][0]][d]
      pt == m.mem[pgdir][e]
      Unmap(n, i) == IF n.mem[pt][i - 1] = NONE THEN n ELSE page_remove(n, root, <<d, e, i - 1>>)
      n == FoldLeft(Unmap, m, [i \in 1 .. LastIdx |-> i])
  IN  page_decref([n EXCEPT !.mem[pgdir][e] = NONE], pt)

SweptDir(m, root, d) ==
  LET pdpe == m.mem[root][0]
      pgdir == m.mem[pdpe][d]
      limit == IF d = PdpeTop THEN PdxTop ELSE LastIdx
      Free(n, i) == IF n.mem[pgdir][i - 1] = NONE THEN n ELSE Swept(n, root, d, i - 1)
      n == FoldLeft(Free, m, [i \in 1 .. limit |-> i])
  IN  page_decref([n EXCEPT !.mem[pdpe][d] = NONE], pgdir)

SweptAll(m, root) ==
  LET pdpe == m.mem[root][0]
      Free(n, i) == IF n.mem[pdpe][i - 1] = NONE THEN n ELSE SweptDir(n, root, i - 1)
      n == FoldLeft(Free, m, [i \in 1 .. LastIdx + 1 |-> i])
  IN  page_decref([page_decref(n, pdpe) EXCEPT !.mem[root][0] = NONE], root)

\* page_init: every page but page 0 is free.
Init ==
  /\ mem = [p \in Page |-> Zeroed]
  /\ ref = [p \in Page |-> 0]
  /\ free = [p \in Page |-> IF p = 0 THEN 0 ELSE 1]
  /\ env_pml4e = [e \in Env |-> NULL]
  /\ failed = FALSE

Live == {e \in Env : env_pml4e[e] # NULL}

\* Bound: pp_ref of page 0, which unmapping an unmapped page decrements.
StrayBounded(r) == r <= MaxStray \/ RefMod - r <= MaxStray

Commit(m) == StrayBounded(m.ref[0]) /\ mem' = m.mem /\ ref' = m.ref /\ free' = m.free

\* env_alloc: three pages for the PML4, the PDP and the directory of UTOP.
\* When the second or third is missing the ones already taken are not freed.
env_setup_vm(e) ==
  /\ e \notin Live
  /\ IF Cardinality(Available(Memory)) < 3
     THEN /\ free' = [p \in Page |-> 0]
          /\ failed' = TRUE
          /\ UNCHANGED <<mem, ref, env_pml4e>>
     ELSE LET p == First(Memory)
              m == Incref([Taken(Memory) EXCEPT !.mem[p] = Zeroed], p)
              n == NewTable(m, p, 0)
          IN  /\ Commit(NewTable(n, First(m), PdpeTop))
              /\ env_pml4e' = [env_pml4e EXCEPT ![e] = p]
              /\ failed' = FALSE

env_free(e) ==
  /\ e \in Live
  /\ Commit(SweptAll(Memory, env_pml4e[e]))
  /\ env_pml4e' = [env_pml4e EXCEPT ![e] = NULL]
  /\ failed' = FALSE

\* Mutant: "If page_insert() fails, remember to free the page".
AllocatedLeaks(r, p) == r.m
Allocated(r, p) == IF r.ok THEN r.m ELSE page_free(r.m, p)

sys_page_alloc(e, va) ==
  LET p == First(Memory)
      r == page_insert(Taken(Memory), env_pml4e[e], p, va)
  IN  /\ e \in Live
      /\ IF Available(Memory) = {} THEN failed' = TRUE /\ UNCHANGED <<mem, ref, free>>
         ELSE failed' = ~r.ok /\ Commit(Allocated(r, p))
      /\ UNCHANGED env_pml4e

\* Also the page transfer of sys_ipc_try_send, from curenv to the receiver.
sys_page_map(srcenv, srcva, dstenv, dstva) ==
  LET pp == page_lookup(Memory, env_pml4e[srcenv], srcva)
      r == page_insert(Memory, env_pml4e[dstenv], pp, dstva)
  IN  /\ srcenv \in Live /\ dstenv \in Live
      /\ IF pp = NULL THEN failed' = TRUE /\ UNCHANGED <<mem, ref, free>>
         ELSE failed' = ~r.ok /\ Commit(r.m)
      /\ UNCHANGED env_pml4e

sys_page_unmap(e, va) ==
  /\ e \in Live
  /\ Commit(page_remove(Memory, env_pml4e[e], va))
  /\ failed' = FALSE
  /\ UNCHANGED env_pml4e

-----------------------------------------------------------------------------
PageCalls(e) ==
  \/ env_setup_vm(e)
  \/ env_free(e)
  \/ \E va \in VA : sys_page_alloc(e, va) \/ sys_page_unmap(e, va)

Mapped(e, va) ==
  LET pt == pml4e_walk(Memory, env_pml4e[e], va, FALSE).pt
  IN  e \in Live /\ pt # NULL /\ mem[pt][va[3]] # NONE

(* The callers in lib/ look at uvpt before they map a page elsewhere, but  *)
(* unmap addresses without a page (devpipe_close, then fd_close).          *)
Next ==
  \E e \in Env :
    \/ PageCalls(e)
    \/ \E d \in Env, srcva, dstva \in VA :
         Mapped(e, srcva) /\ sys_page_map(e, srcva, d, dstva)

Spec == Init /\ [][Next]_vars

-----------------------------------------------------------------------------
(* Correctness.                                                            *)

Entries(T) == {mem[t][i] : t \in T, i \in Idx} \ {NONE}
Tables ==
  LET roots == {env_pml4e[e] : e \in Live}
      pdpts == Entries(roots)
      pgdirs == Entries(pdpts)
  IN  roots \cup pdpts \cup pgdirs \cup Entries(pgdirs)

\* The pointers to page p: entries of the tables T, and env_pml4e.
Pointers(T, p) ==
  {<<t, i>> \in T \X Idx : mem[t][i] = p} \cup {e \in Live : env_pml4e[e] = p}

TypeOK ==
  /\ mem \in [Page -> [Idx -> Page \cup {NONE}]]
  /\ ref \in [Page -> 0 .. RefMod - 1]
  /\ free \in [Page -> Nat]
  /\ env_pml4e \in [Env -> Page \cup {NULL}]
  /\ failed \in BOOLEAN

\* A page on page_free_list is on it once, has no reference, and no page table
\* of a live environment points to it: page_alloc never hands out a page that
\* somebody still maps.
FreeUnmapped ==
  LET T == Tables
  IN  \A p \in Page \ {0} : free[p] # 0 => free[p] = 1 /\ ref[p] = 0 /\ Pointers(T, p) = {}

\* No page serves as a table twice, or as a table and as user memory: an
\* environment can write neither its own page tables nor another's.
TablesPrivate ==
  LET T == Tables IN \A t \in T : Cardinality(Pointers(T, t)) = 1

\* A call that fails gives back all it took: the tables made on the way by
\* pml4e_walk and the page of sys_page_alloc.  (env_setup_vm is left out.)
FailureRestores ==
  [][failed' /\ ~(\E e \in Env : env_setup_vm(e)) => UNCHANGED <<mem, ref, free>>]_vars

\* Freeing an environment gives back all memory it uses: pp_ref counts the
\* pointers exactly, after every call.
RefExact ==
  LET T == Tables IN \A p \in Page \ {0} : ref[p] = Cardinality(Pointers(T, p))

\* page_remove of an address without a page "silently does nothing".
RemoveSilent ==
  [][\A e \in Live, va \in VA :
       sys_page_unmap(e, va) /\ ref' # ref => Mapped(e, va)]_vars
=============================================================================
