# A TLA+ model of JOS-64

JOS-64 (`src/lab`) is a small exokernel-style operating system: a kernel that
multiplexes CPUs and pages among *environments*, and user-level libraries and
servers that build processes, files, pipes and sockets on top of a handful of
system calls. The interesting bugs of such a system are orders of events that
no test of `user/` or `grade` produces: two CPUs in the scheduler, a child that
dies in the middle of a system call of its parent, a disk write that never
happened. This directory models the parts where such orders exist, checks them
with TLC on small instances and proves the central kernel invariants with TLAPS.

## Inventory: the parts of the system

| Part | Source | Runs as | Module |
|---|---|---|---|
| Environment table, scheduler, traps, big kernel lock | `kern/env.c`, `sched.c`, `trap.c`, `spinlock.c` | kernel, several CPUs, one lock | `Env`, `EnvProofs` |
| System calls | `kern/syscall.c` | kernel, under the lock | `Env` (status, IPC), `Pmap` (pages) |
| Boot and other CPUs | `kern/init.c`, `mpconfig.c`, `lapic.c` | kernel, once | `Env` (its last step) |
| Physical pages, page tables | `kern/pmap.c` | kernel, under the lock | `Pmap` |
| File descriptors, pipes | `lib/fd.c`, `lib/pipe.c` | every environment | `Pipe` |
| File system, block cache | `fs/fs.c`, `fs/bc.c` | the file server, one thread | `Fs` |
| File server | `fs/serv.c`, `lib/file.c` | server and clients over IPC | `Fs` (handlers) |
| Library IPC | `lib/ipc.c` | every environment | planned |
| Copy-on-write fork | `lib/fork.c`, `lib/pgfault.c` | parent and child | planned |
| E1000 driver | `kern/e1000.c` | kernel and device | planned |
| Network server and helpers | `net/*.c` | four environments and lwIP threads | planned |
| lwIP glue (threads, semaphores, mailboxes) | `net/lwip/jos` | cooperative threads | planned |
| User heap | `lib/malloc.c` | one environment | planned |
| Console input, time | `kern/console.c`, `kern/time.c` | interrupt handlers | planned |
| spawn, exit, wait | `lib/spawn.c`, ... | parent and child | later |
| lwIP, formatting, strings, monitor, boot loader, PCI, port I/O | | | not modelled: third-party, pure, or hardware access |

How they interact: user code enters the kernel through `trap()`, which takes the
big lock; every handler ends in `env_run()` or `sched_yield()`, which release
it. A page is shared between environments by mapping it twice, and its reference
count is all the system knows of that: `pageref` decides that a pipe is closed
and that a server's descriptor is free. Servers (`fs`, `ns`) receive a request
page over IPC, work alone, and answer.

`PROJECT.json` lists the components with what is modelled of each, the hazards
(where in the code an order of events, a crash or a limit bites, and which
property watches it), and the source lines of every definition.

## Modules

**`Env`**: `envs[]`, `env_free_list`, `curenv` of each CPU and the kernel lock.
State: status, generation, parent id and `env_ipc_recving` per slot; `pc[c]`
says whether CPU `c` boots, is in user mode, holds the lock in a handler, or is
in the tail of `env_run()` after `unlock_kernel()`. One action per handler,
from the lock to the scheduler: `Yield`, `Fault`, `CollectZombie`, the system
calls `sys_exofork`, `sys_env_set_status`, `sys_env_destroy`, `sys_ipc_recv`,
`sys_ipc_try_send`; and `Boot`, `Trap`, `EnterUser` around them. `sched_yield`
and `env_run` are operators over the status table a handler leaves, because
every handler ends there. History variables: `started` (the parent has made the
child runnable) and `orphan` (its creator is gone). An `envid_t` is a pair of
slot and generation.

`LibNext` is the kernel under the callers that exist in `lib/` and `user/`: they
make runnable only children they have just created and destroy nothing twice.
The kernel enforces neither; `AnyStatusNext` lifts the first.

**`Pmap`**: physical pages with `pp_ref`, the free list, and four-level page
tables of several environments. The functions of `pmap.c` (`page_free`,
`page_decref`, the three walks with their roll-back, `page_lookup`,
`page_insert`, `page_remove`) are operators from a memory to a memory;
`env_setup_vm`, `env_free`, `sys_page_alloc`, `sys_page_map` (also the transfer
of `sys_ipc_try_send`) and `sys_page_unmap` are the actions. All of it runs under
the lock, so a call is one step. An address is its path of indices.
Permissions are left out; the free list has no order.

**`Pipe`**: a pipe shared by several environments. An open end is two mappings,
the Fd page and the pipe page, that `close`, `dup` and `fork` change one system
call at a time (`todo`); `devpipe_read` and `devpipe_write` proceed one access to
shared memory at a time (`pc`), `_pipeisclosed` with its two `pageref` calls in
either order. `fork` ignores what `duppage` returns, so out of memory a child may
start without some of the pages; in the model all maps of `fork` succeed, while
those of `dup` may fail. `fresh[p]` says that `env_runs` of `p` is what `_pipeisclosed`
read: on one CPU any step of another process clears it, on several CPUs
(`SMP`) it does not. The k-th byte written is the number k.

**`Fs`**: bitmap, File structs, direct and indirect blocks in two images, the
block cache and the disk. `flush_block` copies a block from one to the other; a
request (`serve_open`, `serve_write`, ...) is one action that records the disk
after each of its writes, and `Handle` lets the machine stop at any of these.
`Restart` continues from the disk, of which `fs_init` looks at nothing a request
changes; the check of `bc_pgfault` on every block it reads is `ReadsAllocated`.
`file_set_size` stores any size, and `file_write` stores and flushes the larger
size before `file_block_walk` finds that there is no slot (-E_INVAL); requests go
up to `MaxAsked`, one block past MAXFILESIZE, and sizes past it are reached.
Contents of data blocks are the name of the file that wrote them. The root
directory has room for the files, paths have one element, sizes are in blocks,
and block writes are atomic.

The code restarts from any disk (`AnySpec`). `Spec` restarts only from a
`RightDisk`, one whose pointers are to blocks in use and to each block once.
What the passing run says of a crash is therefore about the disk it leaves:
`NoSharedBlock` (its second conjunct), `DiskStructsInUse` and `FlushedSurvives`
hold of every such disk, bad ones included; about the server after it, they say
something only if that disk is right. `fs_crash` shows one that is not.

`MCPmap`, `MCPipe` and `MCFs` hold the constants of the instances; `Env` is
checked directly.

## Runs

Passing:

| Run | Checks | Instance and why it is enough |
|---|---|---|
| `env` | `TypeOK`, `RunsOnOneCpu`, `RunningHasCpu`, `FreeListExact`, `RecvingSleeps`, `ParentIdNotStale`, `IdleReady` | 2 CPUs, 1 initial environment, 2 free slots, each used twice (`MaxGen`): parent, child and a reused slot on two CPUs; the proofs cover all sizes |
| `env_sched` | `YieldTakesNext`, `RunnableRuns` | 4 user environments on 2 CPUs, the last slot free: wrap-around of the scan, sleepers and wakers |
| `pmap` | `TypeOK`, `RefExact`, `FreeUnmapped`, `TablesPrivate`, `FailureRestores` | 3 address spaces, 12 usable pages, 3 addresses under two page directories: two spaces that share a page need 9, the third competes with them, so pages are mapped from one environment into another, freed under either, and every allocation also fails |
| `pipe` | `TypeOK`, `EofMeansGone`, `ReadsInOrder`, `PipePageCovers`, `WaitEnds` | 2 environments on one CPU, buffer of 2, 4 bytes (twice around), 4 calls of fork and dup, dup that fails, death anywhere |
| `fs` | `TypeOK`, `NoSharedBlock`, `ReadsAllocated`, `NoneLeaked`, `DiskFreeIsFree`, `DiskStructsInUse`, `FlushedSurvives` | 2 files in two directory blocks, 1 direct and 2 indirect blocks, sizes up to one past the largest, 3 free blocks (the disk fills up), 7 requests, a crash after any write |

The `pmap` run takes states that differ only in the names of the pages as one
(`VIEW UpToNames`): a state is seen as the count and the set of paths (space and
indices) of every page that tables reach, and the number of the others by their
count and by whether they are free. No action or property looks at a page number
other than 0 except `page_alloc`, which takes the least one, and the free list
has no order; so two states with one view have successors with one view, and
satisfy the same invariants. The flag `failed` is not in the view: no guard reads
it, and `FailureRestores`, which does, is a property of steps, which TLC checks
for every step it computes.

Violations, each of a sentence of the source (quoted in `PROJECT.json`):

| Run | Shows |
|---|---|
| `env_two_cpus` | `sys_env_set_status` stores RUNNABLE over RUNNING; the child then runs on two CPUs |
| `env_ipc_error` | a failed page transfer of `sys_ipc_try_send` clears `env_ipc_recving` of a receiver that goes on sleeping |
| `pmap_env_free` | `env_free` stops one entry short of the end of each page table and leaks the exception stack's page |
| `pmap_unmap` | `page_lookup` takes an empty entry for physical page 0, and `page_remove` decrements its count |
| `pipe_smp` | with several CPUs `env_runs` does not protect the two reads of `_pipeisclosed`: end of file with writers present |
| `pipe_last_byte` | bytes written between the test for empty and the test for closed are lost behind an end of file |
| `fs_crash` | a truncation clears entries of an indirect block it does not flush; after a crash it points to free blocks (and, once these have a new owner, shares them: see below) |

The passing runs say what holds with these faults in the model: `pmap` uses
addresses away from the last entries and only maps from mapped pages (physical
page 0 is excluded from its properties); `pipe` is on one CPU and forks before
the pipe is in use (`fork` copies Fd pages first, the order `dup` avoids); `fs`
restarts from disks whose pointers are right; `env` has no second destroy of a
dying environment (it would be freed under its CPU). `env_sched` keeps the
last slot free (the scan that starts there never wraps) and has no exits: after
one, `curenv` is gone and the scan starts again at slot 2, so a parent in a low
slot that keeps forking children that exit starves the slots after them.
Likewise known and without a run of its own, as no sentence of the source speaks
of it: from any disk `NoSharedBlock` fails like `ReadsAllocated` and for the same
reason. File A is written with an indirect block, flushed and truncated; B gets
the freed block and is flushed up to its struct; a crash there leaves A's old
indirect block and B's struct with one block (`AnySpec` violates `NoSharedBlock`).
Also: `env_setup_vm` loses the pages it took when it
fails, and `sys_page_map` from an empty entry maps physical page 0.

## Fairness

`env_sched`: some CPU makes a step when one can, and timer interrupts keep
arriving (`TimerTicks`, strong fairness of a yield by some CPU: the local APIC
timer fires in user mode whatever the environment does). Nothing is assumed of
which CPU gets the spinlock, which is not fair.

`pipe`: weak fairness of each process that is inside a call, which the round
robin of `sched_yield` gives (checked by `RunnableRuns`). Nobody is obliged to
call, close or exit. The number of `dup` and `fork` calls is bounded, so a reader
is not preempted in `_pipeisclosed` for ever.

## Proofs

`EnvProofs` proves, for every number of CPUs, slots, initial environments and
generations allowed by `EnvAssumption`, under `LibSpec`: `TypeOK`,
`RunsOnOneCpu`, `RunningHasCpu`, `FreeListExact`, `RecvingSleeps`, `IdleReady`,
and, if no slot uses up its generations (`MaxGen < GenLimit`),
`ParentIdNotStale`.

None of these is inductive alone. The inductive invariant `IInv` is their
conjunction with

- `LockInv`: only the holder of the lock is in the kernel, and a CPU that boots
  runs nothing. Needed so that a handler meets no other half-done handler;
- `StartedInv`: a child that its parent has not started is asleep and not
  receiving. Needed for `sys_env_set_status`;
- `IdleParent`: idle environments have no parent, so no permission check lets
  anybody destroy or block them. Needed for `IdleReady`.

The argument follows the code: `Sane(c, st, cur)` says what a handler on CPU `c`
may hand to the scheduler, `SchedulerOutcome` that `sched_yield` and
`trap_return` make a correct state of that, and each action's lemma only
establishes `Sane` and looks after the fields it writes. `ParentStep` is the
separate induction for parent ids.

Only model-checked: everything about `Pmap`, `Pipe` and `Fs` so far; and all
liveness (`RunnableRuns`, `WaitEnds`), which is beyond the prover.

## What is not modelled

- Page permissions, the TLB, `user_mem_check`, boot-time mappings, ELF loading.
- The open-file table and offsets; growth of directories (`dir_alloc_file` grows
  the size before it has the block, and does not clear a recycled block); removal
  of a file that is open; a bitmap of several blocks (`alloc_block` flushes only
  the first); partial writes of a block.
- 32-bit overflow of pipe positions, 16-bit overflow of `pp_ref` upwards.
- Data of IPC messages, trap frames, page-fault upcalls.
- Third-party code (lwIP), hardware access, formatting.

## Plan

1. `FsServ`: library IPC (`ipc_send`'s retry, `ipc_recv`), the request loop, the
   open-file table with its reuse by `pageref`, clients that die; an abstract
   specification of an open file (a client that holds a descriptor reads and
   writes the file it opened) refined by the table. Composes with `Fs` by its
   handlers.
2. `E1000` and `Net`: the descriptor rings against the device, the input and
   output helpers, the request buffers of the network server; abstract
   specification: a lossy FIFO link. Runs: rings of 2 and 3 descriptors.
3. `Cow`: `duppage`, `fork` and `pgfault` of parent and child over `Pmap`'s
   operations; abstract specification: private copies. Runs: two pages, three
   environments.
4. `Malloc`, console ring, time: pure state machines, checked against reference
   definitions over bounded inputs.
5. An abstract address space (a function from addresses to pages) implemented by
   `Pmap`; the lwIP threads.
6. Proofs, in this order: `TypeOK` and `FreeUnmapped` of `Pmap` (lemmas on
   `page_insert` and the walks), `ReadsInOrder` and `PipePageCovers` of `Pipe`,
   `DiskFreeIsFree` and `NoSharedBlock` of `Fs`, the ring invariant of `E1000`.
   No module to be proved about uses RECURSIVE; folds come from `SequencesExt`.
